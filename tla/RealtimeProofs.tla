--------------------------- MODULE RealtimeProofs ---------------------------
(***************************************************************************)
(* Real-time delivery for every number of requests, topics, channels,      *)
(* applications and connections: what is true of the bus and of the hub    *)
(* alone stays true of the two together, no client is sent an event of     *)
(* another tenant, and broadcasts keep the order of the bus.               *)
(***************************************************************************)
EXTENDS Realtime, EventBusProofs, HubProofs

-----------------------------------------------------------------------------
(* The composition: a step of it is a step, or a stutter, of each part.    *)

LEMMA BridgeChannelsType ==
    ASSUME NEW r \in Requests
    PROVE  /\ BridgeChannels(r) \in Seq(Channels)
           /\ Len(BridgeChannels(r)) \in Nat \ {0}
           /\ BridgeChannels(r) # <<>>
  <1>1. TopicChannel[TopicOf[r]] \in Channels /\ DefaultChannel \in Channels
    BY RealtimeAssumption, BusAssumption, HubAssumption
  <1>2. \A ch \in Channels : /\ <<ch>> \in Seq(Channels) /\ Len(<<ch>>) = 1
                             /\ <<DefaultChannel, ch>> \in Seq(Channels)
                             /\ Len(<<DefaultChannel, ch>>) = 2
    BY <1>1
  <1>3. Len(BridgeChannels(r)) # 0 /\ Len(<<>>) = 0
    BY <1>1, <1>2, EmptySeq DEF BridgeChannels
  <1>4. QED
    BY <1>1, <1>2, <1>3 DEF BridgeChannels

BridgeTypeOK == pending \in Seq(Channels) /\ sent \in Seq(Requests)

(* What the dispatch goroutine has in hand is a request's event.           *)
LEMMA InHandType ==
    ASSUME BusTypeOK, current # <<>>
    PROVE  Len(current) = 1 /\ current[1] \in Requests
  <1>1. Len(current) = 1
    BY OneInHand DEF BusTypeOK, QueueType
  <1>2. current \in Seq(Requests)
    BY DEF BusTypeOK, QueueType
  <1>3. QED
    BY <1>1, <1>2

LEMMA PartSteps ==
    ASSUME BusTypeOK, BridgeTypeOK, [RealtimeNext]_realtimeVars
    PROVE  [BusNext]_busVars /\ [Next]_vars
  <1>1. CASE UNCHANGED realtimeVars
    BY <1>1 DEF realtimeVars
  <1>2. CASE Running /\ BusStep
    BY <1>2 DEF BusStep, BusNext, DispatchStep
  <1>3. CASE Running /\ HubStep
    BY <1>3 DEF Running, HubStep, Next
  <1>4. CASE Running /\ (LogEvent \/ BridgeSkips \/ BridgeRoutes)
    BY <1>4 DEF LogEvent, BridgeSkips, BridgeRoutes, BusNext, DispatchStep
  <1>5. CASE Running /\ BridgeBroadcasts
    <2>1. RunHandler \/ UNCHANGED busVars
      BY <1>5 DEF BridgeBroadcasts
    <2>2. current[1] \in Requests
      BY <1>5, InHandType DEF BridgeBroadcasts, Bridging, Handling
    <2>3. EventOrg[current[1]] \in Orgs /\ EventApp[current[1]] \in Apps
      BY <2>2, RealtimeAssumption
    <2>4. Head(pending) \in Channels
      BY <1>5 DEF BridgeBroadcasts, BridgeTypeOK
    <2>5. Next
      BY <1>5, <2>3, <2>4 DEF BridgeBroadcasts, Running, Next
    <2>6. QED
      BY <2>1, <2>5 DEF BusNext, DispatchStep
  <1>6. QED
    BY <1>1, <1>2, <1>3, <1>4, <1>5 DEF RealtimeNext, Bridge

LEMMA NextBridgeTypeOK ==
    ASSUME BusTypeOK, BridgeTypeOK, [RealtimeNext]_realtimeVars
    PROVE  BridgeTypeOK'
  <1>1. CASE UNCHANGED bridgeVars
    BY <1>1 DEF bridgeVars, BridgeTypeOK
  <1>2. CASE BridgeRoutes
    <2>1. current[1] \in Requests
      BY <1>2, InHandType DEF BridgeRoutes, Bridging, Handling
    <2>2. QED
      BY <1>2, <2>1, BridgeChannelsType DEF BridgeRoutes, BridgeTypeOK
  <1>3. CASE BridgeBroadcasts
    <2>1. current[1] \in Requests
      BY <1>3, InHandType DEF BridgeBroadcasts, Bridging, Handling
    <2>2. /\ pending \in Seq(Channels) /\ pending # <<>> /\ pending' = Tail(pending)
          /\ sent \in Seq(Requests) /\ sent' = Append(sent, current[1])
      BY <1>3 DEF BridgeBroadcasts, BridgeTypeOK
    <2>3. QED
      BY <2>1, <2>2 DEF BridgeTypeOK
  <1>4. QED
    BY <1>1, <1>2, <1>3 DEF RealtimeNext, realtimeVars, BusStep, HubStep, Bridge, LogEvent, BridgeSkips

PartsOK == BusIInv /\ HubIInv /\ AllOrdered /\ BridgeTypeOK

LEMMA InitPartsOK == RealtimeInit => PartsOK
  <1>1. Init => AllOrdered
    BY DEF Init, AllOrdered, Ordered, InOrder, Numbered
  <1>2. RealtimeInit => BridgeTypeOK
    BY EmptySeq DEF RealtimeInit, BridgeTypeOK
  <1>3. QED
    BY <1>1, <1>2, InitBusIInv, InitHubIInv DEF RealtimeInit, PartsOK

LEMMA NextPartsOK == PartsOK /\ [RealtimeNext]_realtimeVars => PartsOK'
  <1> SUFFICES ASSUME PartsOK, [RealtimeNext]_realtimeVars PROVE PartsOK'
    OBVIOUS
  <1>1. BusTypeOK /\ TypeOK
    BY DEF PartsOK, BusIInv, HubIInv
  <1>2. [BusNext]_busVars /\ [Next]_vars
    BY <1>1, PartSteps DEF PartsOK
  <1>3. BridgeTypeOK'
    BY <1>1, NextBridgeTypeOK DEF PartsOK
  <1>4. AllOrdered'
    BY <1>1, <1>2, NextOrdered DEF PartsOK
  <1>5. QED
    BY <1>2, <1>3, <1>4, NextBusIInv, NextHubIInv DEF PartsOK

LEMMA SpecPartsOK == RealtimeSpec => []PartsOK
  BY InitPartsOK, NextPartsOK, PTL DEF RealtimeSpec

(* Type correctness of the whole.                                          *)
THEOREM RealtimeTypes == RealtimeSpec => []RealtimeTypeOK
  <1>1. PartsOK => RealtimeTypeOK
    BY DEF PartsOK, BusIInv, HubIInv, BridgeTypeOK, RealtimeTypeOK
  <1>2. QED
    BY <1>1, SpecPartsOK, PTL

(* The whole implements its parts: seen from the bus it is the bus, seen   *)
(* from the hub it is the hub, so what EventBusProofs and HubProofs show   *)
(* of every behaviour of theirs holds of the server's.                     *)
THEOREM CompositionImplementsParts ==
    RealtimeSpec => /\ BusInit /\ [][BusNext]_busVars
                    /\ Init /\ [][Next]_vars
  <1>1. PartsOK /\ [RealtimeNext]_realtimeVars => [BusNext]_busVars /\ [Next]_vars
    BY PartSteps DEF PartsOK, BusIInv
  <1>2. RealtimeInit => BusInit /\ Init
    BY DEF RealtimeInit
  <1>3. QED
    BY <1>1, <1>2, SpecPartsOK, PTL DEF RealtimeSpec

-----------------------------------------------------------------------------
(* Tenants.  A room has nobody of another application in it, not even a    *)
(* client that has left and is still listed, and a broadcast's number      *)
(* tells whose event it carries.                                           *)

RoomsOfTenants == \A room \in Rooms : \A c \in members[room] : AppOf[c] = room[1]

NumbersTell == seq = Len(sent)

IsolationIInv == PartsOK /\ RoomsOfTenants /\ NumbersTell /\ TenantIsolation

(* What is on its way to a client, or was the last thing handed to it.     *)
Carried(c) == Range(sendq[c]) \cup {seen[c]}

LEMMA OfferCarries ==
    ASSUME NEW q \in Seq(Nat), NEW m \in Nat
    PROVE  Range(Offer(q, m)) \subseteq Range(q) \cup {m}
  <1>1. Range(q) = {q[i] : i \in 1..Len(q)}
    BY RangeEquality
  <1>2. Range(Append(q, m)) = {Append(q, m)[i] : i \in 1..Len(Append(q, m))}
    <2>1. Append(q, m) \in Seq(Nat)
      OBVIOUS
    <2>2. QED
      BY <2>1, RangeEquality
  <1>3. \A i \in 1..Len(Append(q, m)) : Append(q, m)[i] = m \/ (i \in 1..Len(q) /\ Append(q, m)[i] = q[i])
    OBVIOUS
  <1>4. QED
    BY <1>1, <1>2, <1>3 DEF Offer

LEMMA TailCarries ==
    ASSUME NEW q \in Seq(Nat), q # <<>>
    PROVE  Range(Tail(q)) \subseteq Range(q) /\ Head(q) \in Range(q)
  <1>1. Range(q) = {q[i] : i \in 1..Len(q)}
    BY RangeEquality
  <1>2. Tail(q) \in Seq(Nat) /\ Len(Tail(q)) = Len(q) - 1 /\ Len(q) \in Nat \ {0}
    OBVIOUS
  <1>3. Range(Tail(q)) = {Tail(q)[i] : i \in 1..Len(Tail(q))}
    BY <1>2, RangeEquality
  <1>4. \A i \in 1..Len(Tail(q)) : Tail(q)[i] = q[i + 1] /\ i + 1 \in 1..Len(q)
    BY <1>2
  <1>5. Head(q) = q[1] /\ 1 \in 1..Len(q)
    BY <1>2
  <1>6. QED
    BY <1>1, <1>3, <1>4, <1>5

(* No step of a connection puts an event on its way.                       *)
LEMMA HubStepCarries ==
    ASSUME TypeOK, HubStep
    PROVE  seq' = seq /\ \A c \in Conns : Carried(c)' \subseteq Carried(c) \cup {Control}
  <1> DEFINE Goal == seq' = seq /\ \A c \in Conns : Carried(c)' \subseteq Carried(c) \cup {Control}
  <1>1. sendq \in [Conns -> Seq(Nat)] /\ seen \in [Conns -> Nat] /\ Control \in Nat
    BY DEF TypeOK, ChanType, ConnType, Control
  <1>2. CASE UNCHANGED <<sendq, seen, seq>>
    BY <1>2 DEF Carried
  <1>3. ASSUME NEW c \in Conns, sendq' = [sendq EXCEPT ![c] = Offer(@, Control)], UNCHANGED <<seen, seq>>
        PROVE  Goal
    <2> SUFFICES ASSUME NEW d \in Conns PROVE Range(sendq'[d]) \subseteq Range(sendq[d]) \cup {Control}
      BY <1>3 DEF Carried
    <2>1. sendq[d] \in Seq(Nat) /\ (sendq'[d] = sendq[d] \/ sendq'[d] = Offer(sendq[d], Control))
      BY <1>1, <1>3
    <2>2. QED
      BY <1>1, <2>1, OfferCarries
  <1>4. ASSUME NEW c \in Conns, sendq[c] # <<>>, sendq' = [sendq EXCEPT ![c] = Tail(@)], seq' = seq,
               \/ seen' = seen
               \/ seen' = [seen EXCEPT ![c] = IF Head(sendq[c]) = Control THEN @ ELSE Head(sendq[c])]
        PROVE  Goal
    <2> SUFFICES ASSUME NEW d \in Conns PROVE Range(sendq'[d]) \cup {seen'[d]} \subseteq Carried(d)
      BY <1>4 DEF Carried
    <2>1. CASE d # c
      BY <1>1, <1>4, <2>1 DEF Carried
    <2>2. CASE d = c
      <3>1. sendq'[c] = Tail(sendq[c]) /\ (seen'[c] = seen[c] \/ seen'[c] = Head(sendq[c]))
        BY <1>1, <1>4
      <3>2. Range(Tail(sendq[c])) \subseteq Range(sendq[c]) /\ Head(sendq[c]) \in Range(sendq[c])
        BY <1>1, <1>4, TailCarries
      <3>3. QED
        BY <2>2, <3>1, <3>2 DEF Carried
    <2>3. QED
      BY <2>1, <2>2
  <1>5. ASSUME NEW c \in Conns, Welcome(c) \/ SendReply(c) PROVE Goal
    BY <1>2, <1>3, <1>5 DEF Welcome, SendReply
  <1>6. ASSUME NEW c \in Conns, WriteMessage(c) \/ WriteFails(c) PROVE Goal
    BY <1>2, <1>4, <1>6 DEF WriteMessage, WriteFails
  <1>7. ASSUME NEW c \in Conns,
               ClientStep(c) \/ ReadFails(c) \/ SessionLeaves(c) \/ Unregister(c) \/ WriteClose(c)
        PROVE  Goal
    BY <1>2, <1>7 DEF ClientStep, Connect, Subscribe, Unsubscribe, OtherCommand, ReadFails,
       SessionLeaves, Unregister, WriteClose, PeerGone, chanVars
  <1>8. QED
    BY <1>5, <1>6, <1>7 DEF HubStep, ReaderStep, WriterStep

LEMMA NextRooms ==
    ASSUME TypeOK, RoomsOfTenants, [Next]_vars
    PROVE  RoomsOfTenants'
  <1>1. members \in [Rooms -> SUBSET Conns]
    BY DEF TypeOK, HubType
  <1>2. ASSUME \A room \in Rooms : members'[room] \subseteq members[room] PROVE RoomsOfTenants'
    BY <1>2 DEF RoomsOfTenants
  <1>3. ASSUME NEW c \in Conns, NEW ch \in Channels,
               members' = [members EXCEPT ![<<AppOf[c], ch>>] = @ \cup {c}]
        PROVE  RoomsOfTenants'
    BY <1>1, <1>3, RoomOfConn DEF RoomsOfTenants
  <1>4. ASSUME NEW c \in Conns, Connect(c) PROVE RoomsOfTenants'
    BY <1>2, <1>3, <1>4, HubAssumption DEF Connect, RegisterClosed, RegisterFull, RegisterAdd
  <1>5. ASSUME NEW c \in Conns, NEW ch \in Channels, Subscribe(c, ch) PROVE RoomsOfTenants'
    BY <1>2, <1>3, <1>5 DEF Subscribe
  <1>6. ASSUME NEW c \in Conns, NEW ch \in Channels, Unsubscribe(c, ch) PROVE RoomsOfTenants'
    BY <1>1, <1>2, <1>6 DEF Unsubscribe
  <1>7. ASSUME NEW c \in Conns, SessionLeaves(c) \/ Unregister(c) PROVE RoomsOfTenants'
    BY <1>2, <1>7 DEF SessionLeaves, Unregister, RemoveClient
  <1>8. ASSUME NEW c \in Conns,
               \/ OtherCommand(c) \/ PeerGone(c) \/ Welcome(c) \/ SendReply(c) \/ ReadFails(c)
               \/ WriterStep(c)
        PROVE  RoomsOfTenants'
    BY <1>2, <1>8 DEF OtherCommand, PeerGone, Welcome, SendReply, ReadFails, WriterStep,
       WriteMessage, WriteFails, WriteClose, hubVars
  <1>9. ASSUME NEW rooms, BroadcastTo(rooms) PROVE RoomsOfTenants'
    BY <1>2, <1>9 DEF BroadcastTo, hubVars
  <1>10. CASE Close
    BY <1>2, <1>10 DEF Close, NoRooms
  <1>11. CASE UNCHANGED vars
    BY <1>2, <1>11 DEF vars, hubVars
  <1>12. QED
    BY <1>4, <1>5, <1>6, <1>7, <1>8, <1>9, <1>10, <1>11
       DEF Next, ClientStep, ReaderStep, Broadcast, BroadcastToOrganization

(* The invariant in terms of what is carried, with its numbers in range.   *)
LEMMA CarriedIsolation ==
    TypeOK => (TenantIsolation <=>
                 \A c \in Conns : \A m \in Carried(c) : m # Control => c \in Audience(sent[m]))
  <1> SUFFICES ASSUME TypeOK
               PROVE  TenantIsolation <=>
                        \A c \in Conns : \A m \in Carried(c) : m # Control => c \in Audience(sent[m])
    OBVIOUS
  <1>1. \A c \in Conns : Carried(c) = {sendq[c][i] : i \in DOMAIN sendq[c]} \cup {seen[c]}
    BY DEF Carried, Range
  <1>2. QED
    BY <1>1 DEF TenantIsolation

LEMMA CarriedNumbers ==
    ASSUME TypeOK, AllOrdered, NumbersTell, NEW c \in Conns, NEW m \in Carried(c), m # Control
    PROVE  m \in 1..Len(sent)
  <1>1. sendq[c] \in Seq(Nat) /\ seen[c] \in Nat /\ seq \in Nat /\ seq = Len(sent)
    BY DEF TypeOK, ChanType, ConnType, NumbersTell
  <1>2. seen[c] <= seq /\ \A i \in DOMAIN sendq[c] : sendq[c][i] <= seq
    BY DEF AllOrdered, Ordered, Numbered
  <1>3. m = seen[c] \/ \E i \in DOMAIN sendq[c] : m = sendq[c][i]
    BY DEF Carried, Range
  <1>4. m \in Nat /\ m <= seq
    BY <1>1, <1>2, <1>3
  <1>5. QED
    BY <1>1, <1>4 DEF Control

(* Only the members of a room are reached, and they are its application's. *)
LEMMA BroadcastCarries ==
    ASSUME TypeOK, RoomsOfTenants, NEW rooms \in SUBSET Rooms, BroadcastTo(rooms), NEW c \in Conns
    PROVE  \/ Carried(c)' \subseteq Carried(c)
           \/ /\ Carried(c)' \subseteq Carried(c) \cup {seq + 1}
              /\ \E room \in rooms : AppOf[c] = room[1]
  <1>1. sendq[c] \in Seq(Nat) /\ seq \in Nat
    BY DEF TypeOK, ChanType
  <1>2. PICK served \in SUBSET (UNION {members[r] : r \in rooms}) :
            /\ sendq' = [d \in Conns |-> IF d \in served THEN Offer(sendq[d], seq + 1) ELSE sendq[d]]
            /\ seen' = seen
    BY DEF BroadcastTo, connVars
  <1>3. CASE c \notin served
    BY <1>2, <1>3 DEF Carried
  <1>4. CASE c \in served
    <2>1. sendq'[c] = Offer(sendq[c], seq + 1) /\ seen'[c] = seen[c]
      BY <1>2, <1>4
    <2>2. Carried(c)' \subseteq Carried(c) \cup {seq + 1}
      BY <1>1, <2>1, OfferCarries DEF Carried
    <2>3. \E room \in rooms : AppOf[c] = room[1]
      BY <1>2, <1>4 DEF RoomsOfTenants
    <2>4. QED
      BY <2>2, <2>3
  <1>5. QED
    BY <1>3, <1>4

LEMMA NextIsolationIInv == IsolationIInv /\ [RealtimeNext]_realtimeVars => IsolationIInv'
  <1> SUFFICES ASSUME IsolationIInv, [RealtimeNext]_realtimeVars PROVE IsolationIInv'
    OBVIOUS
  <1>1. PartsOK /\ TypeOK /\ BusTypeOK /\ BridgeTypeOK /\ AllOrdered
    BY DEF IsolationIInv, PartsOK, BusIInv, HubIInv
  <1>2. PartsOK' /\ TypeOK'
    <2>1. PartsOK'
      BY <1>1, NextPartsOK
    <2>2. QED
      BY <2>1 DEF PartsOK, HubIInv
  <1>3. RoomsOfTenants'
    <2>1. [Next]_vars
      BY <1>1, PartSteps
    <2>2. QED
      BY <1>1, <2>1, NextRooms DEF IsolationIInv
  <1>4. \A c \in Conns : \A m \in Carried(c) : m # Control => c \in Audience(sent[m])
    BY <1>1, CarriedIsolation DEF IsolationIInv
  <1>5. ASSUME UNCHANGED <<sent, seq>>, \A c \in Conns : Carried(c)' \subseteq Carried(c) \cup {Control}
        PROVE  NumbersTell' /\ TenantIsolation'
    <2>1. NumbersTell'
      BY <1>5 DEF IsolationIInv, NumbersTell
    <2>2. \A c \in Conns : \A m \in Carried(c)' : m # Control => c \in Audience(sent[m])
      BY <1>4, <1>5
    <2>3. \A r : Audience(r)' = Audience(r)
      BY DEF Audience
    <2>4. QED
      BY <1>2, <1>5, <2>1, <2>2, <2>3, CarriedIsolation DEF TenantIsolation, Carried, Range
  <1>6. CASE BridgeBroadcasts
    <2> DEFINE r == current[1]
    <2>1. r \in Requests /\ EventOrg[r] \in Orgs /\ EventApp[r] \in Apps
      <3>1. r \in Requests
        BY <1>1, <1>6, InHandType DEF BridgeBroadcasts, Bridging, Handling
      <3>2. QED
        BY <3>1, RealtimeAssumption
    <2>2. Head(pending) \in Channels
      BY <1>1, <1>6 DEF BridgeBroadcasts, BridgeTypeOK
    <2>3. PICK rooms \in SUBSET Rooms :
            /\ BroadcastTo(rooms)
            /\ \A room \in rooms : IF Scope[r] = "org" THEN OrgOf[room[1]] = EventOrg[r]
                                                       ELSE room[1] = EventApp[r]
      <3>1. CASE Scope[r] = "org"
        BY <1>6, <3>1 DEF BridgeBroadcasts, BroadcastToOrganization, OrgRooms
      <3>2. CASE Scope[r] # "org"
        BY <1>6, <2>1, <2>2, <3>2 DEF BridgeBroadcasts, Broadcast, Rooms
      <3>3. QED
        BY <3>1, <3>2
    <2>4. /\ sent \in Seq(Requests) /\ sent' = Append(sent, r) /\ seq = Len(sent)
          /\ seq' = seq + 1
      BY <1>1, <1>6, <2>3 DEF BridgeBroadcasts, BridgeTypeOK, BroadcastTo, IsolationIInv, NumbersTell
    <2>5. /\ Len(sent') = Len(sent) + 1 /\ sent'[seq + 1] = r
          /\ \A n \in 1..Len(sent) : sent'[n] = sent[n]
      BY <2>1, <2>4
    <2>6. ASSUME NEW c \in Conns, NEW m \in Carried(c)', m # Control
          PROVE  c \in Audience(sent'[m])
      <3>1. CASE m \in Carried(c)
        <4>1. m \in 1..Len(sent)
          BY <1>1, <2>6, <3>1, CarriedNumbers DEF IsolationIInv
        <4>2. QED
          BY <1>4, <2>5, <2>6, <3>1, <4>1
      <3>2. CASE m \notin Carried(c)
        <4>1. m = seq + 1 /\ \E room \in rooms : AppOf[c] = room[1]
          BY <1>1, <2>3, <2>6, <3>2, BroadcastCarries DEF IsolationIInv
        <4>2. c \in Audience(r)
          BY <2>3, <4>1 DEF Audience
        <4>3. QED
          BY <2>5, <4>1, <4>2
      <3>3. QED
        BY <3>1, <3>2
    <2>7. NumbersTell'
      BY <2>4, <2>5 DEF NumbersTell
    <2>8. TenantIsolation'
      BY <1>2, <2>6, CarriedIsolation DEF TenantIsolation, Carried, Range, Audience
    <2>9. QED
      BY <1>2, <1>3, <2>7, <2>8 DEF IsolationIInv
  <1>7. CASE HubStep
    BY <1>1, <1>2, <1>3, <1>5, <1>7, HubStepCarries DEF HubStep, bridgeVars, IsolationIInv
  <1>8. CASE UNCHANGED <<vars, sent>>
    <2>1. UNCHANGED <<sendq, seen, seq, sent>>
      BY <1>8 DEF vars, chanVars, connVars
    <2>2. QED
      BY <1>2, <1>3, <1>5, <2>1 DEF Carried, IsolationIInv
  <1>9. QED
    BY <1>6, <1>7, <1>8
       DEF RealtimeNext, realtimeVars, bridgeVars, BusStep, Bridge, LogEvent, BridgeSkips, BridgeRoutes

(* No client is sent, or has on its way, an event of another application,  *)
(* or of another organization where the event is the organization's,       *)
(* whatever rooms it asks for and whoever is still listed after leaving    *)
(* (event_bridge.go, hub.go:117).                                          *)
THEOREM TenantsAreIsolated == RealtimeSpec => []TenantIsolation
  <1>1. RealtimeInit => IsolationIInv
    <2> SUFFICES ASSUME RealtimeInit PROVE IsolationIInv
      OBVIOUS
    <2>1. PartsOK
      BY InitPartsOK
    <2>2. RoomsOfTenants
      BY DEF RealtimeInit, Init, NoRooms, RoomsOfTenants
    <2>3. NumbersTell
      BY EmptySeq DEF RealtimeInit, Init, NumbersTell
    <2>4. TenantIsolation
      BY EmptySeq DEF RealtimeInit, Init, TenantIsolation, Control
    <2>5. QED
      BY <2>1, <2>2, <2>3, <2>4 DEF IsolationIInv
  <1>2. IsolationIInv => TenantIsolation
    BY DEF IsolationIInv
  <1>3. QED
    BY <1>1, <1>2, NextIsolationIInv, PTL DEF RealtimeSpec

-----------------------------------------------------------------------------
(* Order.  An event is accepted once; what was broadcast is of events that *)
(* are through or in hand; and what the bridge has still to do for the one *)
(* in hand adds up with what it has done.                                  *)

AcceptedOnce == \A i, j \in 1..Len(accepted) : accepted[i] = accepted[j] => i = j

SentWasReceived ==
    \A n \in 1..Len(sent) : \E i \in 1..(handled + Len(current)) : sent[n] = accepted[i]

SentInOrder ==
    \A m, n \in 1..Len(sent), i, j \in 1..Len(accepted) :
        m < n /\ sent[m] = accepted[i] /\ sent[n] = accepted[j] => i <= j

AllCopies(r) ==
    /\ Copies(r) <= Len(BridgeChannels(r))
    /\ Scope[r] \in {"org", "app"} => Copies(r) = Len(BridgeChannels(r))

Progress(r) ==
    /\ handlersRun \in 0..2
    /\ pending # <<>> => /\ handlersRun = 1
                         /\ Copies(r) + Len(pending) = Len(BridgeChannels(r))
    /\ pending = <<>> /\ handlersRun < 2 => Copies(r) = 0
    /\ handlersRun = 2 => AllCopies(r)

HandProgress == IF current = <<>> THEN pending = <<>> ELSE Progress(current[1])

ThroughIsSent == \A i \in 1..handled : AllCopies(accepted[i])

OrderIInv ==
    /\ PartsOK
    /\ AcceptedOnce
    /\ SentWasReceived
    /\ SentInOrder
    /\ HandProgress
    /\ ThroughIsSent

(* The bus's invariant in numbers.                                         *)
LEMMA Accounting ==
    ASSUME BusIInv
    PROVE  /\ accepted \in Seq(Requests) /\ Len(accepted) \in Nat /\ handled \in Nat
           /\ Len(current) \in {0, 1} /\ Len(queue) \in Nat /\ queue \in Seq(Requests)
           /\ handled + Len(current) <= Len(accepted)
           /\ current = <<>> <=> Len(current) = 0
           /\ current # <<>> => current[1] \in Requests /\ accepted[handled + 1] = current[1]
           /\ current = <<>> /\ queue # <<>> =>
                /\ handled + 1 <= Len(accepted)
                /\ accepted[handled + 1] = Head(queue)
  <1>1. /\ accepted \in Seq(Requests) /\ handled \in Nat /\ queue \in Seq(Requests)
        /\ current \in Seq(Requests) /\ Len(current) <= 1 /\ BusTypeOK
        /\ Len(accepted) = handled + Len(current) + Len(queue)
        /\ \A i \in 1..Len(current) : accepted[handled + i] = current[i]
        /\ \A i \in 1..Len(queue) : accepted[handled + Len(current) + i] = queue[i]
    BY DEF BusIInv, BusTypeOK, QueueType, HistType, Accounted
  <1>2. Len(accepted) \in Nat /\ Len(queue) \in Nat /\ Len(current) \in Nat
    BY <1>1, LenProperties
  <1>3. Len(current) \in {0, 1} /\ (current = <<>> <=> Len(current) = 0)
    <2>1. current # <<>> => Len(current) = 1
      BY <1>1, OneInHand
    <2>2. QED
      BY <2>1, EmptySeq
  <1>4. handled + Len(current) <= Len(accepted)
    BY <1>1, <1>2
  <1>5. ASSUME current # <<>>
        PROVE  current[1] \in Requests /\ accepted[handled + 1] = current[1]
    <2>1. Len(current) = 1 /\ current[1] \in Requests
      BY <1>1, <1>5, InHandType
    <2>2. QED
      BY <1>1, <2>1
  <1>6. ASSUME current = <<>>, queue # <<>>
        PROVE  handled + 1 <= Len(accepted) /\ accepted[handled + 1] = Head(queue)
    <2>1. Len(queue) > 0 /\ Head(queue) = queue[1]
      BY <1>1, <1>2, <1>6, EmptySeq
    <2>2. Len(current) = 0 /\ 1 \in 1..Len(queue)
      BY <1>2, <1>3, <1>6, <2>1
    <2>3. QED
      BY <1>1, <1>2, <2>1, <2>2
  <1>7. QED
    BY <1>1, <1>2, <1>3, <1>4, <1>5, <1>6

(* One more broadcast is one more copy of its event, and of no other.      *)
LEMMA CopiesType ==
    ASSUME sent \in Seq(Requests), NEW r
    PROVE  /\ IsFiniteSet({n \in DOMAIN sent : sent[n] = r}) /\ Copies(r) \in Nat
           /\ (\A n \in 1..Len(sent) : sent[n] # r) => Copies(r) = 0
  <1>1. DOMAIN sent = 1..Len(sent) /\ Len(sent) \in Nat
    BY LenProperties
  <1>2. IsFiniteSet(1..Len(sent))
    BY <1>1, FS_Interval
  <1>3. IsFiniteSet({n \in DOMAIN sent : sent[n] = r})
    BY <1>1, <1>2, FS_Subset
  <1>4. Copies(r) \in Nat
    BY <1>3, FS_CardinalityType DEF Copies
  <1>5. ASSUME \A n \in 1..Len(sent) : sent[n] # r PROVE Copies(r) = 0
    <2>1. {n \in DOMAIN sent : sent[n] = r} = {}
      BY <1>1, <1>5
    <2>2. QED
      BY <2>1, FS_EmptySet DEF Copies
  <1>6. QED
    BY <1>3, <1>4, <1>5

LEMMA OneMoreCopy ==
    ASSUME sent \in Seq(Requests), NEW r \in Requests, sent' = Append(sent, r)
    PROVE  Copies(r)' = Copies(r) + 1 /\ \A s \in Requests \ {r} : Copies(s)' = Copies(s)
  <1>1. /\ DOMAIN sent = 1..Len(sent) /\ DOMAIN sent' = 1..(Len(sent) + 1) /\ Len(sent) \in Nat
        /\ sent'[Len(sent) + 1] = r /\ \A n \in 1..Len(sent) : sent'[n] = sent[n]
    OBVIOUS
  <1>2. {n \in DOMAIN sent' : sent'[n] = r} = {n \in DOMAIN sent : sent[n] = r} \cup {Len(sent) + 1}
    BY <1>1
  <1>3. Len(sent) + 1 \notin {n \in DOMAIN sent : sent[n] = r}
    BY <1>1
  <1>4. Copies(r)' = Copies(r) + 1
    <2> DEFINE S == {n \in DOMAIN sent : sent[n] = r}
    <2>1. IsFiniteSet(S)
      BY CopiesType
    <2>2. Cardinality(S \cup {Len(sent) + 1}) = Cardinality(S) + 1
      BY <1>3, <2>1, FS_AddElement
    <2>3. QED
      BY <1>2, <2>2 DEF Copies
  <1>5. ASSUME NEW s \in Requests, s # r PROVE Copies(s)' = Copies(s)
    <2>1. {n \in DOMAIN sent' : sent'[n] = s} = {n \in DOMAIN sent : sent[n] = s}
      BY <1>1, <1>5
    <2>2. QED
      BY <2>1 DEF Copies
  <1>6. QED
    BY <1>4, <1>5

LEMMA NextAcceptedOnce ==
    ASSUME BusIInv, AcceptedOnce, [BusNext]_busVars
    PROVE  /\ AcceptedOnce'
           /\ accepted' = accepted \/ \E r \in Requests : accepted' = Append(accepted, r)
  <1>1. CASE UNCHANGED accepted
    BY <1>1 DEF AcceptedOnce
  <1>2. ASSUME NEW r \in Requests, Publish(r), accepted' # accepted
        PROVE  AcceptedOnce' /\ accepted' = Append(accepted, r)
    <2>1. request[r] = "saved" /\ accepted' = Append(accepted, r)
      BY <1>2 DEF Publish
    <2>2. \A i \in 1..Len(accepted) : accepted[i] # r
      BY <2>1 DEF BusIInv, Published
    <2>3. /\ Len(accepted) \in Nat /\ Len(accepted') = Len(accepted) + 1
          /\ accepted'[Len(accepted) + 1] = r
          /\ \A i \in 1..Len(accepted) : accepted'[i] = accepted[i]
      BY <2>1, Accounting
    <2>4. AcceptedOnce'
      <3> SUFFICES ASSUME NEW i \in 1..(Len(accepted) + 1), NEW j \in 1..(Len(accepted) + 1),
                          accepted'[i] = accepted'[j]
                   PROVE  i = j
        BY <2>3 DEF AcceptedOnce
      <3>1. CASE i \in 1..Len(accepted) /\ j \in 1..Len(accepted)
        BY <2>3, <3>1 DEF AcceptedOnce
      <3>2. CASE i \notin 1..Len(accepted) \/ j \notin 1..Len(accepted)
        BY <2>2, <2>3, <3>2
      <3>3. QED
        BY <3>1, <3>2
    <2>5. QED
      BY <2>1, <2>4
  <1>3. QED
    BY <1>1, <1>2, QuietStep DEF Quiet, Receive, RunHandler, FinishEvent, DispatcherStops, CloseBus,
       busVars, histVars

(* What was sent was received, whatever else is accepted meanwhile.        *)
LEMMA SentKept ==
    ASSUME OrderIInv, AcceptedOnce', UNCHANGED sent,
           accepted' = accepted \/ \E r \in Requests : accepted' = Append(accepted, r),
           handled' \in Nat, Len(current') \in Nat,
           handled' + Len(current') >= handled + Len(current)
    PROVE  /\ SentWasReceived' /\ SentInOrder'
           /\ Len(accepted') \in Nat /\ Len(accepted') >= Len(accepted)
           /\ \A i \in 1..Len(accepted) : accepted'[i] = accepted[i]
  <1>1. BusIInv /\ AcceptedOnce /\ SentWasReceived /\ SentInOrder
    BY DEF OrderIInv, PartsOK
  <1>2. /\ Len(accepted) \in Nat /\ handled \in Nat /\ Len(current) \in Nat
        /\ handled + Len(current) <= Len(accepted)
    BY <1>1, Accounting
  <1>3. /\ Len(accepted') \in Nat /\ Len(accepted') >= Len(accepted)
        /\ \A i \in 1..Len(accepted) : accepted'[i] = accepted[i]
    <2>1. accepted \in Seq(Requests)
      BY <1>1, Accounting
    <2>2. CASE accepted' = accepted
      BY <1>2, <2>2
    <2>3. ASSUME NEW r \in Requests, accepted' = Append(accepted, r)
          PROVE  /\ Len(accepted') \in Nat /\ Len(accepted') >= Len(accepted)
                 /\ \A i \in 1..Len(accepted) : accepted'[i] = accepted[i]
      BY <2>1, <2>3
    <2>4. QED
      BY <2>2, <2>3
  <1>4. \A n \in 1..Len(sent) : \E i \in 1..(handled + Len(current)) : sent[n] = accepted[i] /\ sent[n] = accepted'[i]
    BY <1>1, <1>2, <1>3 DEF SentWasReceived
  <1>5. SentWasReceived'
    <2> SUFFICES ASSUME NEW n \in 1..Len(sent)
                 PROVE  \E i \in 1..(handled' + Len(current')) : sent[n] = accepted'[i]
      BY DEF SentWasReceived
    <2>1. PICK i \in 1..(handled + Len(current)) : sent[n] = accepted'[i]
      BY <1>4
    <2>2. i \in 1..(handled' + Len(current'))
      BY <1>2
    <2>3. QED
      BY <2>1, <2>2
  <1>6. SentInOrder'
    <2> SUFFICES ASSUME NEW m \in 1..Len(sent), NEW n \in 1..Len(sent), m < n,
                        NEW i \in 1..Len(accepted'), NEW j \in 1..Len(accepted'),
                        sent[m] = accepted'[i], sent[n] = accepted'[j]
                 PROVE  i <= j
      BY DEF SentInOrder
    <2>1. PICK k \in 1..Len(accepted) : sent[m] = accepted[k] /\ sent[m] = accepted'[k]
      BY <1>2, <1>4
    <2>2. PICK l \in 1..Len(accepted) : sent[n] = accepted[l] /\ sent[n] = accepted'[l]
      BY <1>2, <1>4
    <2>3. k \in 1..Len(accepted') /\ l \in 1..Len(accepted')
      <3>1. Len(accepted) \in Nat /\ Len(accepted') \in Nat /\ Len(accepted') >= Len(accepted)
        BY <1>2, <1>3
      <3>2. QED
        BY <3>1
    <2>4. i = k /\ j = l
      BY <2>1, <2>2, <2>3 DEF AcceptedOnce
    <2>5. k <= l
      BY <1>1, <2>1, <2>2 DEF SentInOrder
    <2>6. QED
      BY <2>4, <2>5
  <1>7. QED
    BY <1>3, <1>5, <1>6

(* A step without a broadcast: what is left to show is what it does to the *)
(* event in hand and, if it puts it away, that this one is through.        *)
LEMMA QuietOrder ==
    ASSUME OrderIInv, [RealtimeNext]_realtimeVars, UNCHANGED sent,
           handled' \in Nat, Len(current') \in Nat,
           handled' + Len(current') >= handled + Len(current),
           HandProgress',
           handled' = handled \/ (handled' = handled + 1 /\ handled' <= Len(accepted) /\ AllCopies(accepted[handled + 1]))
    PROVE  OrderIInv'
  <1>1. PartsOK /\ BusIInv /\ BusTypeOK /\ BridgeTypeOK /\ AcceptedOnce /\ ThroughIsSent
    BY DEF OrderIInv, PartsOK, BusIInv
  <1>2. PartsOK'
    BY <1>1, NextPartsOK
  <1>3. [BusNext]_busVars
    BY <1>1, PartSteps
  <1>4. AcceptedOnce' /\ (accepted' = accepted \/ \E r \in Requests : accepted' = Append(accepted, r))
    BY <1>1, <1>3, NextAcceptedOnce
  <1>5. /\ SentWasReceived' /\ SentInOrder'
        /\ \A i \in 1..Len(accepted) : accepted'[i] = accepted[i]
    BY <1>4, SentKept
  <1>6. \A r : AllCopies(r)' = AllCopies(r)
    BY DEF AllCopies, Copies, BridgeChannels
  <1>7. ThroughIsSent'
    <2> SUFFICES ASSUME NEW i \in 1..handled' PROVE AllCopies(accepted'[i])
      BY <1>6 DEF ThroughIsSent
    <2>1. /\ Len(accepted) \in Nat /\ handled \in Nat /\ handled <= Len(accepted)
          /\ Len(current) \in {0, 1} /\ handled + Len(current) <= Len(accepted)
      <3>1. /\ Len(accepted) \in Nat /\ handled \in Nat
            /\ Len(current) \in {0, 1} /\ handled + Len(current) <= Len(accepted)
        BY <1>1, Accounting
      <3>2. QED
        BY <3>1
    <2>2. i \in 1..Len(accepted)
      BY <2>1
    <2>3. accepted'[i] = accepted[i]
      BY <1>5, <2>2
    <2>4. i \in 1..handled \/ (i = handled + 1 /\ AllCopies(accepted[handled + 1]))
      BY <2>1
    <2>5. QED
      BY <1>1, <2>3, <2>4 DEF ThroughIsSent
  <1>8. QED
    BY <1>2, <1>4, <1>5, <1>7 DEF OrderIInv

LEMMA NextOrderIInv == OrderIInv /\ [RealtimeNext]_realtimeVars => OrderIInv'
  <1> SUFFICES ASSUME OrderIInv, [RealtimeNext]_realtimeVars PROVE OrderIInv'
    OBVIOUS
  <1>1. /\ PartsOK /\ BusIInv /\ BusTypeOK /\ BridgeTypeOK /\ AcceptedOnce /\ SentWasReceived
        /\ SentInOrder /\ HandProgress /\ ThroughIsSent
    BY DEF OrderIInv, PartsOK, BusIInv
  <1>2. /\ accepted \in Seq(Requests) /\ Len(accepted) \in Nat /\ handled \in Nat
        /\ Len(current) \in {0, 1} /\ handled + Len(current) <= Len(accepted)
        /\ current = <<>> <=> Len(current) = 0
    BY <1>1, Accounting
  <1>3. current # <<>> =>
            /\ Len(current) = 1 /\ current[1] \in Requests /\ accepted[handled + 1] = current[1]
            /\ Progress(current[1])
            /\ handled + 1 \in 1..Len(accepted)
    BY <1>1, <1>2, Accounting DEF HandProgress
  <1>4. /\ sent \in Seq(Requests) /\ pending \in Seq(Channels)
        /\ \A r : Copies(r) \in Nat
    BY <1>1, CopiesType DEF BridgeTypeOK
  <1>5. ASSUME UNCHANGED sent
        PROVE  \A r : Copies(r)' = Copies(r) /\ AllCopies(r)' = AllCopies(r)
    BY <1>5 DEF AllCopies, Copies, BridgeChannels
  <1>6. ASSUME UNCHANGED <<sent, pending, current, handlersRun, handled>> PROVE OrderIInv'
    <2>1. HandProgress'
      BY <1>1, <1>5, <1>6 DEF HandProgress, Progress
    <2>2. QED
      BY <1>2, <1>6, <2>1, QuietOrder
  <1>7. ASSUME current # <<>>, UNCHANGED <<sent, current, handled>>, Progress(current[1])'
        PROVE  OrderIInv'
    BY <1>2, <1>7, QuietOrder DEF HandProgress
  <1>8. CASE Receive /\ UNCHANGED bridgeVars
    <2>1. /\ current = <<>> /\ queue # <<>> /\ current' = <<Head(queue)>> /\ handlersRun' = 0
          /\ UNCHANGED <<sent, pending, accepted, handled>>
      BY <1>8 DEF Receive, bridgeVars, histVars
    <2>2. accepted[handled + 1] = Head(queue) /\ handled + 1 \in 1..Len(accepted)
      BY <1>1, <1>2, <2>1, Accounting
    <2>3. \A n \in 1..Len(sent) : sent[n] # Head(queue)
      <3> SUFFICES ASSUME NEW n \in 1..Len(sent), sent[n] = Head(queue) PROVE FALSE
        OBVIOUS
      <3>1. PICK i \in 1..(handled + Len(current)) : sent[n] = accepted[i]
        BY <1>1 DEF SentWasReceived
      <3>2. i \in 1..handled /\ i \in 1..Len(accepted)
        BY <1>2, <2>1
      <3>3. QED
        BY <1>1, <1>2, <2>2, <3>1, <3>2 DEF AcceptedOnce
    <2>4. Copies(Head(queue)) = 0 /\ pending = <<>>
      BY <1>1, <1>4, <2>1, <2>3, CopiesType DEF HandProgress
    <2>5. current' # <<>> /\ Len(current') = 1 /\ current'[1] = Head(queue)
      BY <2>1
    <2>6. HandProgress'
      BY <1>5, <2>1, <2>4, <2>5 DEF HandProgress, Progress
    <2>7. QED
      BY <1>2, <2>1, <2>5, <2>6, QuietOrder
  <1>9. CASE FinishEvent /\ UNCHANGED bridgeVars
    <2>1. /\ current # <<>> /\ current' = <<>> /\ handled' = handled + 1
          /\ ~(handlersRun < Handlers[TopicOf[current[1]]])
          /\ UNCHANGED <<sent, pending, accepted>>
      BY <1>9 DEF FinishEvent, Handling, HandlersLeft, bridgeVars
    <2>2. Handlers[TopicOf[current[1]]] = 2
      BY <1>3, <2>1, RealtimeAssumption, BusAssumption
    <2>3. handlersRun = 2 /\ pending = <<>> /\ AllCopies(current[1])
      BY <1>3, <2>1, <2>2 DEF Progress
    <2>4. HandProgress' /\ Len(current') = 0
      BY <2>1, <2>3, EmptySeq DEF HandProgress
    <2>5. /\ handled' <= Len(accepted) /\ handled' \in Nat
          /\ handled' + Len(current') >= handled + Len(current)
      <3>1. /\ handled \in Nat /\ Len(accepted) \in Nat /\ handled + 1 \in 1..Len(accepted)
            /\ Len(current) = 1 /\ Len(current') = 0 /\ handled' = handled + 1
        BY <1>2, <1>3, <2>1, <2>4
      <3>2. QED
        BY <3>1
    <2>6. AllCopies(accepted[handled + 1])
      BY <1>3, <2>1, <2>3
    <2>7. QED
      BY <2>1, <2>4, <2>5, <2>6, QuietOrder
  <1>10. CASE LogEvent
    <2>1. /\ current # <<>> /\ handlersRun = 0 /\ handlersRun' = 1
          /\ UNCHANGED <<sent, pending, current, handled>>
      BY <1>10 DEF LogEvent, RunHandler, Handling, bridgeVars, histVars
    <2>2. Progress(current[1])'
      BY <1>3, <1>5, <2>1 DEF Progress
    <2>3. QED
      BY <1>7, <2>1, <2>2
  <1>11. CASE BridgeSkips
    <2>1. /\ current # <<>> /\ handlersRun = 1 /\ handlersRun' = 2 /\ pending = <<>>
          /\ Scope[current[1]] \notin {"org", "app"}
          /\ UNCHANGED <<sent, pending, current, handled>>
      BY <1>11 DEF BridgeSkips, Bridging, RunHandler, Handling, bridgeVars, histVars
    <2>2. Copies(current[1]) = 0
      BY <1>3, <2>1 DEF Progress
    <2>3. AllCopies(current[1])
      <3>1. Len(BridgeChannels(current[1])) \in Nat
        BY <1>3, <2>1, BridgeChannelsType
      <3>2. QED
        BY <2>1, <2>2, <3>1 DEF AllCopies
    <2>4. Progress(current[1])'
      BY <1>5, <2>1, <2>3 DEF Progress
    <2>5. QED
      BY <1>7, <2>1, <2>4
  <1>12. CASE BridgeRoutes
    <2>1. /\ current # <<>> /\ handlersRun = 1 /\ pending = <<>>
          /\ pending' = BridgeChannels(current[1])
          /\ UNCHANGED <<sent, current, handled, handlersRun>>
      BY <1>12 DEF BridgeRoutes, Bridging, Handling, busVars, dispVars, histVars
    <2>2. Copies(current[1]) = 0
      BY <1>3, <2>1 DEF Progress
    <2>3. Len(BridgeChannels(current[1])) \in Nat /\ BridgeChannels(current[1]) # <<>>
      BY <1>3, <2>1, BridgeChannelsType
    <2>4. BridgeChannels(current[1])' = BridgeChannels(current[1])
      BY <2>1 DEF BridgeChannels
    <2>5. Progress(current[1])'
      BY <1>5, <2>1, <2>2, <2>3, <2>4 DEF Progress
    <2>6. QED
      BY <1>7, <2>1, <2>5
  <1>13. CASE BridgeBroadcasts
    <2>1. /\ current # <<>> /\ handlersRun = 1 /\ pending # <<>> /\ pending' = Tail(pending)
          /\ sent' = Append(sent, current[1])
          /\ handlersRun' = IF Tail(pending) = <<>> THEN 2 ELSE 1
          /\ UNCHANGED <<current, handled, accepted>>
      BY <1>13 DEF BridgeBroadcasts, Bridging, RunHandler, Handling, busVars, dispVars, histVars
    <2>r. PICK r \in Requests : r = current[1]
      BY <1>3, <2>1
    <2>2. /\ Len(sent) \in Nat /\ Len(sent') = Len(sent) + 1 /\ sent'[Len(sent) + 1] = r
          /\ \A n \in 1..Len(sent) : sent'[n] = sent[n]
      BY <1>4, <2>1, <2>r
    <2>3. Len(current) = 1 /\ accepted[handled + 1] = r /\ handled + 1 \in 1..Len(accepted)
      BY <1>3, <2>1, <2>r
    <2>4. Copies(r)' = Copies(r) + 1 /\ \A q \in Requests \ {r} : Copies(q)' = Copies(q)
      BY <1>4, <2>1, <2>r, OneMoreCopy
    <2>5. PartsOK'
      BY <1>1, NextPartsOK
    <2>6. AcceptedOnce'
      BY <1>1, <2>1 DEF AcceptedOnce
    <2>7. SentWasReceived'
      <3> SUFFICES ASSUME NEW n \in 1..(Len(sent) + 1)
                   PROVE  \E i \in 1..(handled + 1) : sent'[n] = accepted[i]
        BY <2>1, <2>2, <2>3 DEF SentWasReceived
      <3>1. CASE n = Len(sent) + 1
        BY <1>2, <2>2, <2>3, <3>1
      <3>2. CASE n # Len(sent) + 1
        <4>1. n \in 1..Len(sent)
          BY <2>2, <3>2
        <4>2. PICK i \in 1..(handled + 1) : sent[n] = accepted[i]
          BY <1>1, <2>3, <4>1 DEF SentWasReceived
        <4>3. QED
          BY <2>2, <4>1, <4>2
      <3>3. QED
        BY <3>1, <3>2
    <2>8. SentInOrder'
      <3> SUFFICES ASSUME NEW m \in 1..Len(sent'), NEW n \in 1..Len(sent'), m < n,
                          NEW i \in 1..Len(accepted), NEW j \in 1..Len(accepted),
                          sent'[m] = accepted[i], sent'[n] = accepted[j]
                   PROVE  i <= j
        <4>1. accepted' = accepted
          BY <2>1
        <4> QED
          BY <4>1 DEF SentInOrder
      <3>1. m \in 1..Len(sent) /\ sent[m] = accepted[i]
        BY <2>2
      <3>2. CASE n \in 1..Len(sent)
        BY <1>1, <2>2, <3>1, <3>2 DEF SentInOrder
      <3>3. CASE n = Len(sent) + 1
        <4>1. j = handled + 1
          BY <1>1, <2>2, <2>3, <3>3 DEF AcceptedOnce
        <4>2. PICK k \in 1..(handled + 1) : sent[m] = accepted[k]
          BY <1>1, <2>3, <3>1 DEF SentWasReceived
        <4>3. k \in 1..Len(accepted)
          BY <1>2, <2>3
        <4>4. i = k
          BY <1>1, <3>1, <4>2, <4>3 DEF AcceptedOnce
        <4>5. QED
          BY <1>2, <4>1, <4>2, <4>4
      <3>4. QED
        BY <2>2, <3>2, <3>3
    <2>9. Progress(r)'
      <3>1. Copies(r) \in Nat /\ Copies(r) + Len(pending) = Len(BridgeChannels(r))
        BY <1>3, <1>4, <2>1, <2>r DEF Progress
      <3>2. Len(pending) \in Nat \ {0} /\ Tail(pending) \in Seq(Channels)
            /\ Len(Tail(pending)) = Len(pending) - 1
        BY <1>4, <2>1
      <3>3. Tail(pending) = <<>> => Len(Tail(pending)) = 0
        BY EmptySeq
      <3>4. Tail(pending) # <<>> => Len(Tail(pending)) # 0
        BY <3>2, EmptySeq
      <3>5. Copies(r)' + Len(pending') = Len(BridgeChannels(r))
        BY <2>1, <2>4, <3>1, <3>2
      <3>6. BridgeChannels(r)' = BridgeChannels(r)
        BY DEF BridgeChannels
      <3>7. CASE Tail(pending) = <<>>
        <4>1. Copies(r)' = Len(BridgeChannels(r)) /\ Copies(r)' \in Nat
          BY <2>1, <2>4, <3>1, <3>3, <3>5, <3>7
        <4>2. AllCopies(r)'
          BY <3>6, <4>1 DEF AllCopies
        <4>3. QED
          BY <2>1, <3>7, <4>2 DEF Progress
      <3>8. CASE Tail(pending) # <<>>
        BY <2>1, <3>5, <3>6, <3>8 DEF Progress
      <3>9. QED
        BY <3>7, <3>8
    <2>10. HandProgress'
      BY <2>1, <2>r, <2>9 DEF HandProgress
    <2>11. ThroughIsSent'
      <3> SUFFICES ASSUME NEW i \in 1..handled PROVE AllCopies(accepted[i])'
        BY <2>1 DEF ThroughIsSent
      <3>1. i \in 1..Len(accepted) /\ i # handled + 1
        BY <1>2
      <3>2. PICK q \in Requests : q = accepted[i] /\ q = accepted'[i]
        BY <1>2, <2>1, <3>1
      <3>3. q # r
        BY <1>1, <2>3, <3>1, <3>2 DEF AcceptedOnce
      <3>4. AllCopies(q)' = AllCopies(q)
        BY <2>4, <3>3 DEF AllCopies, BridgeChannels
      <3>5. QED
        BY <1>1, <3>2, <3>4 DEF ThroughIsSent
    <2>12. QED
      BY <2>5, <2>6, <2>7, <2>8, <2>10, <2>11 DEF OrderIInv
  <1>14. CASE BusStep
    <2>1. CASE Receive \/ FinishEvent
      BY <1>8, <1>9, <1>14, <2>1 DEF BusStep
    <2>2. CASE ~Receive /\ ~FinishEvent
      BY <1>6, <1>14, <2>2 DEF BusStep, Begin, RequestStep, Acquire, Save, SaveFails, Publish, Return, Abandon,
         DispatcherStops, Signal, ServeFails, ShutdownStep, Drained, ShutdownTimesOut, CloseBus, ClosePool, Exit,
         bridgeVars, dispVars, histVars
    <2>3. QED
      BY <2>1, <2>2
  <1>15. CASE HubStep \/ UNCHANGED realtimeVars
    BY <1>6, <1>15 DEF HubStep, realtimeVars, busVars, bridgeVars, dispVars, histVars
  <1>16. QED
    BY <1>10, <1>11, <1>12, <1>13, <1>14, <1>15 DEF RealtimeNext, Bridge

(* Where an accepted event is, is where it was accepted.                   *)
LEMMA PlaceOfAccepted ==
    ASSUME accepted \in Seq(Requests), AcceptedOnce, NEW i \in 1..Len(accepted)
    PROVE  Place(accepted[i]) = i
  <1>1. DOMAIN accepted = 1..Len(accepted)
    BY LenProperties
  <1>2. \A j \in DOMAIN accepted : accepted[j] = accepted[i] => j = i
    BY <1>1 DEF AcceptedOnce
  <1>3. QED
    BY <1>1, <1>2 DEF Place

(* Broadcasts are made in the order in which the bus accepted the events,  *)
(* at most once per channel, and an event that is through its handlers had *)
(* all of them unless its application had to be looked up                  *)
(* (event_bridge.go:36-96, events/bus.go).                                 *)
THEOREM BroadcastsInBusOrder == RealtimeSpec => []BroadcastsFollowTheBus
  <1>1. RealtimeInit => OrderIInv
    <2> SUFFICES ASSUME RealtimeInit PROVE OrderIInv
      OBVIOUS
    <2>1. PartsOK
      BY InitPartsOK
    <2>2. accepted = <<>> /\ sent = <<>> /\ current = <<>> /\ pending = <<>> /\ handled = 0 /\ Len(<<>>) = 0
      BY EmptySeq DEF RealtimeInit, BusInit
    <2>3. AcceptedOnce /\ SentWasReceived /\ SentInOrder
      BY <2>2 DEF AcceptedOnce, SentWasReceived, SentInOrder
    <2>4. HandProgress /\ ThroughIsSent
      BY <2>2 DEF HandProgress, ThroughIsSent
    <2>5. QED
      BY <2>1, <2>3, <2>4 DEF OrderIInv
  <1>2. OrderIInv => BroadcastsFollowTheBus
    <2> SUFFICES ASSUME OrderIInv PROVE BroadcastsFollowTheBus
      OBVIOUS
    <2>1. /\ BusIInv /\ BridgeTypeOK /\ AcceptedOnce /\ SentWasReceived
          /\ SentInOrder /\ HandProgress /\ ThroughIsSent
      BY DEF OrderIInv, PartsOK
    <2>2. /\ accepted \in Seq(Requests) /\ Len(accepted) \in Nat /\ handled \in Nat
          /\ Len(current) \in {0, 1} /\ handled + Len(current) <= Len(accepted)
          /\ current = <<>> <=> Len(current) = 0
      BY <2>1, Accounting
    <2>3. sent \in Seq(Requests) /\ DOMAIN sent = 1..Len(sent)
      BY <2>1, LenProperties DEF BridgeTypeOK
    <2>4. ASSUME NEW m \in DOMAIN sent, NEW n \in DOMAIN sent, m < n
          PROVE  Place(sent[m]) <= Place(sent[n])
      <3>1. PICK i \in 1..(handled + Len(current)) : sent[m] = accepted[i]
        BY <2>1, <2>3 DEF SentWasReceived
      <3>2. PICK j \in 1..(handled + Len(current)) : sent[n] = accepted[j]
        BY <2>1, <2>3 DEF SentWasReceived
      <3>3. i \in 1..Len(accepted) /\ j \in 1..Len(accepted)
        BY <2>2
      <3>4. i <= j
        BY <2>1, <2>3, <2>4, <3>1, <3>2, <3>3 DEF SentInOrder
      <3>5. QED
        BY <2>1, <2>2, <3>1, <3>2, <3>3, <3>4, PlaceOfAccepted
    <2>5. ASSUME NEW r \in Requests PROVE Copies(r) <= Len(BridgeChannels(r))
      <3>1. Copies(r) \in Nat /\ Len(BridgeChannels(r)) \in Nat
        BY <2>3, CopiesType, BridgeChannelsType
      <3>2. CASE \A n \in 1..Len(sent) : sent[n] # r
        <4>1. Copies(r) = 0
          BY <2>3, <3>2, CopiesType
        <4>2. QED
          BY <3>1, <4>1
      <3>3. ASSUME NEW n \in 1..Len(sent), sent[n] = r PROVE Copies(r) <= Len(BridgeChannels(r))
        <4>1. PICK i \in 1..(handled + Len(current)) : r = accepted[i]
          BY <2>1, <3>3 DEF SentWasReceived
        <4>2. CASE i \in 1..handled
          BY <2>1, <4>1, <4>2 DEF ThroughIsSent, AllCopies
        <4>3. CASE i \notin 1..handled
          <5>1. current # <<>> /\ i = handled + 1
            <6>1. Len(current) = 1 /\ i = handled + 1
              <7>1. CASE Len(current) = 0
                BY <2>2, <4>3, <7>1
              <7>2. CASE Len(current) = 1
                <8>1. i \in 1..(handled + 1) /\ handled \in Nat
                  BY <2>2, <7>2
                <8>2. QED
                  BY <4>3, <7>2, <8>1
              <7>3. QED
                BY <2>2, <7>1, <7>2
            <6>2. QED
              BY <2>2, <6>1
          <5>2. Progress(r)
            BY <2>1, <4>1, <5>1, Accounting DEF HandProgress
          <5>3. Len(pending) \in Nat
            BY <2>1, LenProperties DEF BridgeTypeOK
          <5>4. QED
            BY <3>1, <5>2, <5>3 DEF Progress, AllCopies
        <4>4. QED
          BY <4>2, <4>3
      <3>4. QED
        BY <3>2, <3>3
    <2>6. QED
      BY <2>1, <2>4, <2>5 DEF BroadcastsFollowTheBus, ThroughIsSent, AllCopies
  <1>3. QED
    BY <1>1, <1>2, NextOrderIInv, PTL DEF RealtimeSpec
=============================================================================
