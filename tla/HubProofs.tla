----------------------------- MODULE HubProofs -----------------------------
(***************************************************************************)
(* Safety of the WebSocket hub for every number of connections, rooms and  *)
(* messages: no channel is closed twice, a registered client can be sent   *)
(* to, the capacity holds and the two room indexes agree.                  *)
(***************************************************************************)
EXTENDS Hub, FiniteSetTheorems, TLAPS

(* An id that has not connected yet is unknown everywhere in the hub.      *)
Fresh ==
    \A c \in Conns : handler[c] = "idle" =>
        /\ c \notin clients
        /\ closes[c] = 0
        /\ ended[c] = {}
        /\ subs[c] = {}
        /\ \A r \in Rooms : c \notin members[r]

(* No client object of a registered connection has closed its channel.     *)
Untouched == \A c \in clients : ended[c] = {}

HubIInv ==
    /\ TypeOK
    /\ Fresh
    /\ Untouched
    /\ NoDoubleClose
    /\ RegisteredIsOpen
    /\ MembershipAgrees

(* Two facts about the model's operators that the proofs cite.             *)
LEMMA RoomOfConn ==
    ASSUME NEW c \in Conns, NEW ch \in Channels
    PROVE  <<AppOf[c], ch>> \in Rooms /\ <<AppOf[c], DefaultChannel>> \in Rooms
  BY HubAssumption DEF Rooms

LEMMA OfferType ==
    ASSUME NEW q \in Seq(Nat), NEW m \in Nat
    PROVE  Offer(q, m) \in Seq(Nat)
  BY DEF Offer

LEMMA InitHubIInv == Init => HubIInv
  <1> SUFFICES ASSUME Init PROVE HubIInv
    OBVIOUS
  <1>1. TypeOK
    <2>1. HubType
      BY DEF Init, HubType, NoRooms
    <2>2. ChanType
      BY DEF Init, ChanType
    <2>3. ConnType
      BY DEF Init, ConnType
    <2>4. QED
      BY <2>1, <2>2, <2>3 DEF Init, TypeOK
  <1>2. Fresh /\ Untouched
    BY DEF Init, Fresh, Untouched, NoRooms
  <1>3. NoDoubleClose /\ RegisteredIsOpen /\ MembershipAgrees
    BY DEF Init, NoDoubleClose, RegisteredIsOpen, MembershipAgrees
  <1>4. QED
    BY <1>1, <1>2, <1>3 DEF HubIInv

(* removeClient keeps the types, on whichever client object it is called.  *)
LEMMA RemoveClientType ==
    ASSUME TypeOK, NEW c \in Conns, NEW object \in ClientObjects, NEW R,
           RemoveClient(c, object, R), UNCHANGED <<hubClosed, subs, sendq>>
    PROVE  HubType' /\ ChanType'
  <1>1. HubType'
    BY DEF RemoveClient, TypeOK, HubType
  <1>2. (ended \in [Conns -> SUBSET ClientObjects] /\ closes \in [Conns -> Nat])'
    <2>1. ended \in [Conns -> SUBSET ClientObjects] /\ closes \in [Conns -> Nat]
      BY DEF TypeOK, ChanType
    <2>2. CASE UNCHANGED <<ended, closes>>
      BY <2>1, <2>2
    <2>3. CASE /\ ended' = [ended EXCEPT ![c] = @ \cup {object}]
               /\ closes' = [closes EXCEPT ![c] = @ + 1]
      BY <2>1, <2>3
    <2>4. QED
      BY <2>2, <2>3 DEF RemoveClient, CloseSend
  <1>3. QED
    BY <1>1, <1>2 DEF TypeOK, ChanType

(* Type correctness of a step, one action at a time.                       *)
LEMMA NextHubTypeOK == TypeOK /\ [Next]_vars => TypeOK'
  <1> SUFFICES ASSUME TypeOK, [Next]_vars PROVE TypeOK'
    OBVIOUS
  <1> USE DEF hubVars, chanVars, connVars
  <1>1. ASSUME NEW c \in Conns, Connect(c) PROVE TypeOK'
    <2>1. HubType'
      BY <1>1, RoomOfConn, HubAssumption DEF Connect, RegisterClosed, RegisterFull, RegisterAdd, TypeOK, HubType
    <2>2. ChanType'
      BY <1>1 DEF Connect, RegisterClosed, RegisterFull, RegisterAdd, TypeOK, ChanType
    <2>3. ConnType'
      BY <1>1 DEF Connect, TypeOK, ConnType
    <2>4. QED
      BY <1>1, <2>1, <2>2, <2>3 DEF Connect, TypeOK
  <1>2. ASSUME NEW c \in Conns, Welcome(c) PROVE TypeOK'
    <2>1. HubType'
      BY <1>2 DEF Welcome, TypeOK, HubType
    <2>2. ChanType'
      <3>1. sendq \in [Conns -> Seq(Nat)]
        BY DEF TypeOK, ChanType
      <3>2. (sendq \in [Conns -> Seq(Nat)])'
        <4>1. \/ sendq' = [sendq EXCEPT ![c] = Offer(sendq[c], 0)]
              \/ sendq' = sendq
          BY <1>2 DEF Welcome, Control
        <4>2. Offer(sendq[c], 0) \in Seq(Nat)
          BY <3>1, OfferType
        <4>3. QED
          BY <3>1, <4>1, <4>2
      <3>3. QED
        BY <1>2, <3>2 DEF Welcome, TypeOK, ChanType
    <2>3. ConnType'
      BY <1>2 DEF Welcome, TypeOK, ConnType
    <2>4. QED
      BY <1>2, <2>1, <2>2, <2>3 DEF Welcome, TypeOK
  <1>3. ASSUME NEW c \in Conns, NEW ch \in Channels, Subscribe(c, ch) PROVE TypeOK'
    <2>1. HubType'
      <3>1. CASE c \in clients
        <4>1. /\ members \in [Rooms -> SUBSET Conns]
              /\ subs \in [Conns -> SUBSET Rooms]
              /\ members' = [members EXCEPT ![<<AppOf[c], ch>>] = @ \cup {c}]
              /\ subs' = [subs EXCEPT ![c] = @ \cup {<<AppOf[c], ch>>}]
          BY <1>3, <3>1 DEF Subscribe, TypeOK, HubType
        <4>2. (members \in [Rooms -> SUBSET Conns] /\ subs \in [Conns -> SUBSET Rooms])'
          BY <4>1, RoomOfConn
        <4>3. QED
          BY <1>3, <4>2 DEF Subscribe, TypeOK, HubType
      <3>2. CASE c \notin clients
        BY <1>3, <3>2 DEF Subscribe, TypeOK, HubType
      <3>3. QED
        BY <3>1, <3>2
    <2>2. ChanType'
      BY <1>3 DEF Subscribe, TypeOK, ChanType
    <2>3. ConnType'
      BY <1>3 DEF Subscribe, WithReply, TypeOK, ConnType
    <2>4. QED
      BY <1>3, <2>1, <2>2, <2>3 DEF Subscribe, TypeOK
  <1>4. ASSUME NEW c \in Conns, NEW ch \in Channels, Unsubscribe(c, ch) PROVE TypeOK'
    <2>1. HubType'
      BY <1>4, RoomOfConn DEF Unsubscribe, TypeOK, HubType
    <2>2. ChanType'
      BY <1>4 DEF Unsubscribe, TypeOK, ChanType
    <2>3. ConnType'
      BY <1>4 DEF Unsubscribe, WithReply, NoReply, TypeOK, ConnType
    <2>4. QED
      BY <1>4, <2>1, <2>2, <2>3 DEF Unsubscribe, TypeOK
  <1>5. ASSUME NEW c \in Conns, OtherCommand(c) PROVE TypeOK'
    <2>1. HubType'
      BY <1>5 DEF OtherCommand, TypeOK, HubType
    <2>2. ChanType'
      BY <1>5 DEF OtherCommand, TypeOK, ChanType
    <2>3. ConnType'
      BY <1>5 DEF OtherCommand, WithReply, TypeOK, ConnType
    <2>4. QED
      BY <1>5, <2>1, <2>2, <2>3 DEF OtherCommand, TypeOK
  <1>6. ASSUME NEW c \in Conns, SendReply(c) PROVE TypeOK'
    <2>1. HubType'
      BY <1>6 DEF SendReply, TypeOK, HubType
    <2>2. ChanType'
      <3>1. sendq \in [Conns -> Seq(Nat)]
        BY DEF TypeOK, ChanType
      <3>2. (sendq \in [Conns -> Seq(Nat)])'
        <4>1. \/ sendq' = [sendq EXCEPT ![c] = Offer(sendq[c], 0)]
              \/ sendq' = sendq
          BY <1>6 DEF SendReply, Control
        <4>2. Offer(sendq[c], 0) \in Seq(Nat)
          BY <3>1, OfferType
        <4>3. QED
          BY <3>1, <4>1, <4>2
      <3>3. QED
        BY <1>6, <3>2 DEF SendReply, TypeOK, ChanType
    <2>3. ConnType'
      BY <1>6 DEF SendReply, TypeOK, ConnType
    <2>4. QED
      BY <1>6, <2>1, <2>2, <2>3 DEF SendReply, TypeOK
  <1>7. ASSUME NEW c \in Conns, ReadFails(c) PROVE TypeOK'
    <2>1. HubType'
      BY <1>7 DEF ReadFails, TypeOK, HubType
    <2>2. ChanType'
      BY <1>7 DEF ReadFails, TypeOK, ChanType
    <2>3. ConnType'
      BY <1>7 DEF ReadFails, TypeOK, ConnType
    <2>4. QED
      BY <1>7, <2>1, <2>2, <2>3 DEF ReadFails, TypeOK
  <1>8. ASSUME NEW c \in Conns, SessionLeaves(c) PROVE TypeOK'
    <2>1. HubType' /\ ChanType'
      BY <1>8, RemoveClientType DEF SessionLeaves, ClientObjects
    <2>2. ConnType'
      BY <1>8 DEF SessionLeaves, TypeOK, ConnType
    <2>3. QED
      BY <1>8, <2>1, <2>2 DEF SessionLeaves, TypeOK
  <1>9. ASSUME NEW c \in Conns, Unregister(c) PROVE TypeOK'
    <2>1. HubType' /\ ChanType'
      BY <1>9, RemoveClientType DEF Unregister, ClientObjects
    <2>2. ConnType'
      BY <1>9 DEF Unregister, TypeOK, ConnType
    <2>3. QED
      BY <1>9, <2>1, <2>2 DEF Unregister, TypeOK
  <1>10. ASSUME NEW c \in Conns, WriteMessage(c) PROVE TypeOK'
    <2>1. HubType'
      BY <1>10 DEF WriteMessage, TypeOK, HubType
    <2>2. ChanType'
      BY <1>10 DEF WriteMessage, TypeOK, ChanType
    <2>3. ConnType'
      <3>1. seen \in [Conns -> Nat] /\ sendq[c] \in Seq(Nat) /\ sendq[c] # <<>>
        BY <1>10 DEF WriteMessage, TypeOK, ConnType, ChanType
      <3>2. Head(sendq[c]) \in Nat
        BY <3>1
      <3>3. (seen \in [Conns -> Nat])'
        BY <1>10, <3>1, <3>2 DEF WriteMessage
      <3>4. QED
        BY <1>10, <3>3 DEF WriteMessage, TypeOK, ConnType
    <2>4. QED
      BY <1>10, <2>1, <2>2, <2>3 DEF WriteMessage, TypeOK
  <1>11. ASSUME NEW c \in Conns, WriteFails(c) PROVE TypeOK'
    <2>1. HubType'
      BY <1>11 DEF WriteFails, TypeOK, HubType
    <2>2. ChanType'
      <3>1. sendq \in [Conns -> Seq(Nat)]
        BY DEF TypeOK, ChanType
      <3>2. (sendq \in [Conns -> Seq(Nat)])'
        <4>1. \/ sendq[c] # <<>> /\ sendq' = [sendq EXCEPT ![c] = Tail(@)]
              \/ sendq' = sendq
          BY <1>11 DEF WriteFails
        <4>2. QED
          BY <3>1, <4>1
      <3>3. QED
        BY <1>11, <3>2 DEF WriteFails, TypeOK, ChanType
    <2>3. ConnType'
      BY <1>11 DEF WriteFails, TypeOK, ConnType
    <2>4. QED
      BY <1>11, <2>1, <2>2, <2>3 DEF WriteFails, TypeOK
  <1>12. ASSUME NEW c \in Conns, WriteClose(c) PROVE TypeOK'
    <2>1. HubType'
      BY <1>12 DEF WriteClose, TypeOK, HubType
    <2>2. ChanType'
      BY <1>12 DEF WriteClose, TypeOK, ChanType
    <2>3. ConnType'
      BY <1>12 DEF WriteClose, TypeOK, ConnType
    <2>4. QED
      BY <1>12, <2>1, <2>2, <2>3 DEF WriteClose, TypeOK
  <1>13. ASSUME NEW rooms, BroadcastTo(rooms) PROVE TypeOK'
    <2>1. HubType'
      BY <1>13 DEF BroadcastTo, TypeOK, HubType
    <2>2. ChanType'
      <3>1. sendq \in [Conns -> Seq(Nat)] /\ seq \in Nat
        BY DEF TypeOK, ChanType
      <3>2. PICK served : sendq' = [c \in Conns |-> IF c \in served
                                                     THEN Offer(sendq[c], seq + 1)
                                                     ELSE sendq[c]]
        BY <1>13 DEF BroadcastTo
      <3>3. (sendq \in [Conns -> Seq(Nat)])'
        BY <3>1, <3>2, OfferType
      <3>4. QED
        BY <1>13, <3>3 DEF BroadcastTo, TypeOK, ChanType
    <2>3. ConnType'
      BY <1>13 DEF BroadcastTo, TypeOK, ConnType
    <2>4. QED
      BY <1>13, <2>1, <2>2, <2>3 DEF BroadcastTo, TypeOK
  <1>14. ASSUME Close PROVE TypeOK'
    <2>1. HubType'
      BY <1>14 DEF Close, TypeOK, HubType, NoRooms
    <2>2. ChanType'
      BY <1>14 DEF Close, ClientObjects, TypeOK, ChanType
    <2>3. ConnType'
      BY <1>14 DEF Close, TypeOK, ConnType
    <2>4. QED
      BY <1>14, <2>1, <2>2, <2>3 DEF Close, TypeOK
  <1>15. ASSUME NEW c \in Conns, PeerGone(c) PROVE TypeOK'
    <2>1. HubType'
      BY <1>15 DEF PeerGone, TypeOK, HubType
    <2>2. ChanType'
      BY <1>15 DEF PeerGone, TypeOK, ChanType
    <2>3. ConnType'
      BY <1>15 DEF PeerGone, TypeOK, ConnType
    <2>4. QED
      BY <1>15, <2>1, <2>2, <2>3 DEF PeerGone, TypeOK
  <1>16. CASE UNCHANGED vars
    BY <1>16 DEF vars, TypeOK, HubType, ChanType, ConnType
  <1>17. QED
    BY <1>1, <1>2, <1>3, <1>4, <1>5, <1>6, <1>7, <1>8, <1>9, <1>10, <1>11, <1>12, <1>13,
       <1>14, <1>15, <1>16
       DEF Next, ClientStep, ReaderStep, WriterStep, Broadcast, BroadcastToOrganization

-----------------------------------------------------------------------------

(* removeClient, on either client object: a client that was registered has *)
(* its channel closed once, and nobody else's channel is touched.          *)
LEMMA RemoveClientSafe ==
    ASSUME HubIInv, NEW c \in Conns, NEW object \in ClientObjects,
           NEW R, RemoveClient(c, object, R), UNCHANGED <<hubClosed, subs, handler>>
    PROVE  Fresh' /\ Untouched' /\ NoDoubleClose' /\ RegisteredIsOpen' /\ MembershipAgrees'
  <1> USE DEF HubIInv
  <1>1. CASE c \notin clients
    BY <1>1 DEF RemoveClient, Fresh, Untouched, NoDoubleClose, RegisteredIsOpen, IsOpen,
                MembershipAgrees
  <1>2. CASE c \in clients
    <2>1. /\ clients' = clients \ {c}
          /\ \A r \in Rooms : members'[r] = IF r \in R THEN members[r] \ {c} ELSE members[r]
          /\ closes' = [closes EXCEPT ![c] = @ + 1]
          /\ ended' = [ended EXCEPT ![c] = @ \cup {object}]
          /\ handler[c] # "idle"
          /\ closes[c] = 0
      BY <1>2 DEF RemoveClient, CloseSend, Untouched, RegisteredIsOpen, IsOpen, Fresh
    <2>2. closes \in [Conns -> Nat] /\ ended \in [Conns -> SUBSET ClientObjects]
      BY DEF TypeOK, ChanType
    <2>3. Fresh'
      BY <2>1, <2>2 DEF Fresh
    <2>4. Untouched'
      BY <2>1, <2>2 DEF Untouched, TypeOK, HubType
    <2>5. NoDoubleClose'
      BY <2>1, <2>2 DEF NoDoubleClose
    <2>6. RegisteredIsOpen'
      BY <2>1, <2>2 DEF RegisteredIsOpen, IsOpen, TypeOK, HubType
    <2>7. MembershipAgrees'
      <3>1. ASSUME NEW d \in clients', NEW r \in Rooms
            PROVE  d \in members'[r] <=> d \in members[r]
        BY <2>1
      <3>2. \A d \in clients' : d \in clients /\ subs'[d] = subs[d]
        BY <2>1
      <3>3. QED
        BY <3>1, <3>2 DEF MembershipAgrees
    <2>8. QED
      BY <2>3, <2>4, <2>5, <2>6, <2>7
  <1>3. QED
    BY <1>1, <1>2

(* A step that leaves the hub's books alone and opens no new connection    *)
(* keeps every part of the invariant.                                      *)
LEMMA Frame ==
    ASSUME HubIInv, UNCHANGED <<hubVars, ended, closes>>,
           \A c \in Conns : handler'[c] = "idle" => handler[c] = "idle"
    PROVE  Fresh' /\ Untouched' /\ NoDoubleClose' /\ RegisteredIsOpen' /\ MembershipAgrees'
  BY DEF HubIInv, hubVars, Fresh, Untouched, NoDoubleClose, RegisteredIsOpen, IsOpen,
         MembershipAgrees

LEMMA NextHubIInv == HubIInv /\ [Next]_vars => HubIInv'
  <1> SUFFICES ASSUME HubIInv, [Next]_vars
               PROVE  Fresh' /\ Untouched' /\ NoDoubleClose' /\ RegisteredIsOpen'
                        /\ MembershipAgrees'
    BY NextHubTypeOK DEF HubIInv
  <1> DEFINE Goal == Fresh /\ Untouched /\ NoDoubleClose /\ RegisteredIsOpen /\ MembershipAgrees
  <1> USE DEF HubIInv, hubVars, chanVars, connVars
  <1>1. ASSUME NEW c \in Conns, Connect(c) PROVE Goal'
    <2>1. /\ handler[c] = "idle" /\ c \notin clients /\ closes[c] = 0 /\ subs[c] = {}
          /\ ended[c] = {} /\ \A r \in Rooms : c \notin members[r]
          /\ ended' = ended /\ hubClosed' = hubClosed
          /\ handler' = [handler EXCEPT ![c] = "started"]
      BY <1>1 DEF Connect, Fresh
    <2>2. /\ handler \in [Conns -> {"idle", "started", "done", "panicked"}]
          /\ closes \in [Conns -> Nat]
          /\ members \in [Rooms -> SUBSET Conns]
          /\ subs \in [Conns -> SUBSET Rooms]
      BY DEF TypeOK, HubType, ChanType, ConnType
    <2>3. CASE RegisterClosed
      BY <2>1, <2>2, <2>3 DEF RegisterClosed, Fresh, Untouched, NoDoubleClose,
         RegisteredIsOpen, IsOpen, MembershipAgrees
    <2>4. CASE RegisterFull(c)
      BY <2>1, <2>2, <2>4 DEF RegisterFull, Fresh, Untouched, NoDoubleClose,
         RegisteredIsOpen, IsOpen, MembershipAgrees, TypeOK, HubType
    <2>5. CASE RegisterAdd(c)
      BY <2>1, <2>2, <2>5 DEF RegisterAdd, Fresh, Untouched, NoDoubleClose,
         RegisteredIsOpen, IsOpen, MembershipAgrees, TypeOK, HubType
    <2>6. QED
      BY <1>1, <2>3, <2>4, <2>5 DEF Connect
  <1>2. ASSUME NEW c \in Conns, Welcome(c) PROVE Goal'
    <2>1. \A d \in Conns : handler'[d] = "idle" => handler[d] = "idle"
      BY <1>2 DEF Welcome, TypeOK, ConnType
    <2>2. QED
      BY <1>2, <2>1, Frame DEF Welcome
  <1>3. ASSUME NEW c \in Conns, NEW ch \in Channels, Subscribe(c, ch) PROVE Goal'
    <2>1. CASE c \notin clients
      BY <1>3, <2>1, Frame DEF Subscribe
    <2>2. CASE c \in clients
      <3>1. /\ members' = [members EXCEPT ![<<AppOf[c], ch>>] = @ \cup {c}]
            /\ subs' = [subs EXCEPT ![c] = @ \cup {<<AppOf[c], ch>>}]
            /\ UNCHANGED <<hubClosed, clients, ended, closes, handler>>
            /\ handler[c] # "idle"
        BY <1>3, <2>2 DEF Subscribe, Fresh
      <3>2. /\ members \in [Rooms -> SUBSET Conns] /\ subs \in [Conns -> SUBSET Rooms]
            /\ clients \subseteq Conns
        BY DEF TypeOK, HubType
      <3>3. Fresh' /\ Untouched' /\ NoDoubleClose' /\ RegisteredIsOpen'
        BY <3>1, <3>2, RoomOfConn DEF Fresh, Untouched, NoDoubleClose, RegisteredIsOpen, IsOpen
      <3>4. MembershipAgrees'
        BY <3>1, <3>2, <2>2, RoomOfConn DEF MembershipAgrees
      <3>5. QED
        BY <3>3, <3>4
    <2>3. QED
      BY <2>1, <2>2
  <1>4. ASSUME NEW c \in Conns, NEW ch \in Channels, Unsubscribe(c, ch) PROVE Goal'
    <2>1. CASE c \notin clients
      BY <1>4, <2>1, Frame DEF Unsubscribe
    <2>2. CASE c \in clients
      <3>1. /\ members' = [members EXCEPT ![<<AppOf[c], ch>>] = @ \ {c}]
            /\ subs' = [subs EXCEPT ![c] = @ \ {<<AppOf[c], ch>>}]
            /\ UNCHANGED <<hubClosed, clients, ended, closes, handler>>
            /\ handler[c] # "idle"
        BY <1>4, <2>2 DEF Unsubscribe, Fresh
      <3>2. /\ members \in [Rooms -> SUBSET Conns] /\ subs \in [Conns -> SUBSET Rooms]
            /\ clients \subseteq Conns
        BY DEF TypeOK, HubType
      <3>3. Fresh' /\ Untouched' /\ NoDoubleClose' /\ RegisteredIsOpen'
        BY <3>1, <3>2, RoomOfConn DEF Fresh, Untouched, NoDoubleClose, RegisteredIsOpen, IsOpen
      <3>4. MembershipAgrees'
        BY <3>1, <3>2, <2>2, RoomOfConn DEF MembershipAgrees
      <3>5. QED
        BY <3>3, <3>4
    <2>3. QED
      BY <2>1, <2>2
  <1>5. ASSUME NEW c \in Conns, OtherCommand(c) PROVE Goal'
    BY <1>5, Frame DEF OtherCommand
  <1>6. ASSUME NEW c \in Conns, SendReply(c) PROVE Goal'
    BY <1>6, Frame DEF SendReply
  <1>7. ASSUME NEW c \in Conns, ReadFails(c) PROVE Goal'
    BY <1>7, Frame DEF ReadFails
  <1>8. ASSUME NEW c \in Conns, SessionLeaves(c) PROVE Goal'
    BY <1>8, RemoveClientSafe DEF SessionLeaves, ClientObjects
  <1>9. ASSUME NEW c \in Conns, Unregister(c) PROVE Goal'
    BY <1>9, RemoveClientSafe DEF Unregister, ClientObjects
  <1>10. ASSUME NEW c \in Conns, WriterStep(c) PROVE Goal'
    BY <1>10, Frame DEF WriterStep, WriteMessage, WriteFails, WriteClose
  <1>11. ASSUME NEW rooms, BroadcastTo(rooms) PROVE Goal'
    BY <1>11, Frame DEF BroadcastTo
  <1>12. ASSUME Close PROVE Goal'
    <2>1. closes \in [Conns -> Nat] /\ clients \subseteq Conns
      BY DEF TypeOK, ChanType, HubType
    <2>2. /\ clients' = {} /\ handler' = handler /\ subs' = subs
          /\ \A r \in Rooms : members'[r] = {}
          /\ \A c \in Conns : /\ ended'[c] = IF c \in clients THEN ended[c] \cup {"hub"}
                                                              ELSE ended[c]
                              /\ closes'[c] = IF c \in clients /\ "hub" \notin ended[c]
                                                THEN closes[c] + 1 ELSE closes[c]
      BY <1>12 DEF Close, NoRooms
    <2>3. Fresh'
      BY <2>2 DEF Fresh
    <2>4. NoDoubleClose'
      <3>1. ASSUME NEW c \in Conns PROVE closes'[c] <= 1
        <4>1. closes[c] <= 1 /\ closes[c] \in Nat
          BY <2>1 DEF NoDoubleClose
        <4>2. c \in clients => closes[c] = 0
          BY DEF RegisteredIsOpen, IsOpen
        <4>3. closes'[c] = IF c \in clients /\ "hub" \notin ended[c]
                            THEN closes[c] + 1 ELSE closes[c]
          BY <2>2
        <4>4. QED
          BY <4>1, <4>2, <4>3
      <3>2. QED
        BY <3>1 DEF NoDoubleClose
    <2>5. Untouched' /\ RegisteredIsOpen' /\ MembershipAgrees'
      BY <2>2 DEF Untouched, RegisteredIsOpen, MembershipAgrees
    <2>6. QED
      BY <2>3, <2>4, <2>5
  <1>13. ASSUME NEW c \in Conns, PeerGone(c) PROVE Goal'
    BY <1>13, Frame DEF PeerGone
  <1>14. CASE UNCHANGED vars
    BY <1>14, Frame DEF vars
  <1>15. QED
    BY <1>1, <1>2, <1>3, <1>4, <1>5, <1>6, <1>7, <1>8, <1>9, <1>10, <1>11, <1>12, <1>13, <1>14
       DEF Next, ClientStep, ReaderStep, Broadcast, BroadcastToOrganization

LEMMA SpecHubIInv == Spec => []HubIInv
  BY InitHubIInv, NextHubIInv, PTL DEF Spec

(* The hub never closes a send channel twice, whichever of capacity        *)
(* refusal, the two deferred removals and Hub.Close reach it, and in which *)
(* order.                                                                  *)
THEOREM DoubleCloseImpossible == Spec => []NoDoubleClose
  BY SpecHubIInv, PTL DEF HubIInv

(* A client the hub knows always has an open channel, so a reply sent by   *)
(* id never panics, and a closed hub knows no client.                      *)
THEOREM RegisteredClientsAreOpen == Spec => []RegisteredIsOpen
  BY SpecHubIInv, PTL DEF HubIInv

(* For every registered client the hub's room index and the client's own   *)
(* room set agree and stay inside its application.                         *)
THEOREM RoomIndexesAgree == Spec => []MembershipAgrees
  BY SpecHubIInv, PTL DEF HubIInv

(* Every variable keeps its type.                                          *)
THEOREM TypeCorrect == Spec => []TypeOK
  BY SpecHubIInv, PTL DEF HubIInv

-----------------------------------------------------------------------------

(* Capacity: only Register adds a client, and only below the limit.        *)
LEMMA NextCapacity ==
    ASSUME TypeOK, CapacityRespected, [Next]_vars
    PROVE  CapacityRespected'
  <1> USE DEF CapacityRespected
  <1>1. IsFiniteSet(clients)
    BY HubAssumption, FS_Subset DEF TypeOK, HubType
  <1>2. ASSUME clients' \subseteq clients PROVE CapacityRespected'
    BY <1>1, <1>2, FS_Subset, FS_CardinalityType, HubAssumption
  <1>3. ASSUME NEW c \in Conns, Connect(c) PROVE CapacityRespected'
    <2>1. CASE RegisterClosed \/ RegisterFull(c)
      BY <1>2, <2>1 DEF RegisterClosed, RegisterFull
    <2>2. CASE RegisterAdd(c)
      <3>1. /\ clients' = clients \cup {c}
            /\ Cardinality(clients) < MaxConnections
        BY <2>2 DEF RegisterAdd
      <3>2. Cardinality(clients') \in {Cardinality(clients), Cardinality(clients) + 1}
        BY <1>1, <3>1, FS_AddElement
      <3>3. QED
        BY <1>1, <3>1, <3>2, FS_CardinalityType, HubAssumption
    <2>3. QED
      BY <1>3, <2>1, <2>2 DEF Connect
  <1>4. CASE \E c \in Conns : Connect(c)
    BY <1>3, <1>4
  <1>5. CASE /\ Next
             /\ ~\E c \in Conns : Connect(c)
    <2>1. clients' \subseteq clients
      BY <1>5 DEF Next, ClientStep, ReaderStep, WriterStep, Broadcast,
         BroadcastToOrganization, Welcome, Subscribe, Unsubscribe, OtherCommand, SendReply,
         ReadFails, SessionLeaves, Unregister, RemoveClient, WriteMessage, WriteFails,
         WriteClose, BroadcastTo, Close, PeerGone, hubVars
    <2>2. QED
      BY <1>2, <2>1
  <1>6. CASE UNCHANGED vars
    BY <1>2, <1>6 DEF vars, hubVars
  <1>7. QED
    BY <1>4, <1>5, <1>6

(* The hub never holds more clients than the configured maximum.           *)
THEOREM CapacityHolds == Spec => []CapacityRespected
  <1>1. Init => CapacityRespected
    BY FS_EmptySet, HubAssumption DEF Init, CapacityRespected
  <1>2. TypeOK /\ CapacityRespected /\ [Next]_vars => CapacityRespected'
    BY NextCapacity
  <1>3. QED
    BY <1>1, <1>2, TypeCorrect, PTL DEF Spec

-----------------------------------------------------------------------------

(* A panic needs a listed client that has left: registered clients have    *)
(* open channels, so the closed one a broadcast met is not registered.     *)
THEOREM PanicCause == Spec => []PanicOnlyFromStaleMember
  <1>1. Init => PanicOnlyFromStaleMember
    BY DEF Init, PanicOnlyFromStaleMember
  <1>2. ASSUME HubIInv, PanicOnlyFromStaleMember, [Next]_vars
        PROVE  PanicOnlyFromStaleMember'
    <2>1. ASSUME NEW rooms \in SUBSET Rooms, BroadcastTo(rooms), ~crashed
          PROVE  PanicOnlyFromStaleMember'
      <3> DEFINE targets == IF hubClosed THEN {} ELSE UNION {members[r] : r \in rooms}
      <3>1. /\ crashed' = ({c \in targets : IsOpen(c)} # targets)
            /\ clients' = clients /\ members' = members
        BY <2>1 DEF BroadcastTo, hubVars
      <3>2. SUFFICES ASSUME crashed'
                     PROVE  \E c \in Conns \ clients : \E r \in Rooms : c \in members[r]
        BY <3>1 DEF PanicOnlyFromStaleMember
      <3>3. PICK c \in targets : ~IsOpen(c)
        BY <3>1, <3>2
      <3>4. PICK r \in rooms : c \in members[r]
        BY <3>3
      <3>5. c \in Conns
        BY <1>2, <2>1, <3>4 DEF HubIInv, TypeOK, HubType
      <3>6. c \notin clients
        BY <1>2, <3>3 DEF HubIInv, RegisteredIsOpen
      <3>7. QED
        BY <3>4, <3>5, <3>6
    <2>2. ASSUME NEW c \in Conns, SendReply(c) PROVE crashed' = crashed
      BY <1>2, <2>2 DEF SendReply, HubIInv, RegisteredIsOpen
    <2>3. CASE UNCHANGED vars
      BY <1>2, <2>3 DEF vars, hubVars, PanicOnlyFromStaleMember
    <2>4. CASE Next
      <3>1. CASE \E a \in Apps, ch \in Channels : Broadcast(a, ch)
        BY <2>1, <2>4, <3>1 DEF Broadcast, Next, Rooms
      <3>2. CASE \E o \in Orgs, ch \in Channels : BroadcastToOrganization(o, ch)
        BY <2>1, <2>4, <3>2 DEF BroadcastToOrganization, OrgRooms, Next
      <3>3. CASE /\ ~\E a \in Apps, ch \in Channels : Broadcast(a, ch)
                 /\ ~\E o \in Orgs, ch \in Channels : BroadcastToOrganization(o, ch)
        <4>1. ~crashed
          BY <2>4 DEF Next
        <4>2. crashed' = crashed
          BY <2>2, <2>4, <3>3 DEF Next, ClientStep, ReaderStep, WriterStep, Connect, Welcome,
             Subscribe, Unsubscribe, OtherCommand, ReadFails, SessionLeaves, Unregister,
             WriteMessage, WriteFails, WriteClose, Close, PeerGone
        <4>3. QED
          BY <4>1, <4>2 DEF PanicOnlyFromStaleMember
      <3>4. QED
        BY <3>1, <3>2, <3>3
    <2>5. QED
      BY <1>2, <2>3, <2>4
  <1>3. QED
    BY <1>1, <1>2, SpecHubIInv, PTL DEF Spec

-----------------------------------------------------------------------------
(* The order of events.  The number of a broadcast is larger than every    *)
(* number handed out before it, so appending it keeps a queue in order.    *)

Numbered(q, last, n) ==
    /\ last <= n
    /\ \A i \in DOMAIN q : q[i] <= n

Ordered(q, last, n) == InOrder(q, last) /\ Numbered(q, last, n)

AllOrdered == \A c \in Conns : Ordered(sendq[c], seen[c], seq)

(* Offering a control message, or the next broadcast, keeps the order.     *)
LEMMA OfferKeepsOrder ==
    ASSUME NEW q \in Seq(Nat), NEW last \in Nat, NEW n \in Nat, Ordered(q, last, n)
    PROVE  /\ Ordered(Offer(q, Control), last, n)
           /\ Ordered(Offer(q, n + 1), last, n + 1)
           /\ Ordered(q, last, n + 1)
  <1>1. ASSUME NEW m \in Nat, NEW k \in Nat, n <= k, m <= k, m # Control => m > n
        PROVE  Ordered(Append(q, m), last, k)
    <2> DEFINE p == Append(q, m)
    <2>1. /\ DOMAIN p = 1..(Len(q) + 1)
          /\ \A i \in 1..Len(q) : p[i] = q[i] /\ q[i] \in Nat
          /\ p[Len(q) + 1] = m
          /\ DOMAIN q = 1..Len(q)
          /\ Len(q) \in Nat
      OBVIOUS
    <2>2. \A i \in DOMAIN p : p[i] <= k /\ (p[i] # Control => p[i] > last)
      BY <1>1, <2>1 DEF Ordered, InOrder, Numbered, Control
    <2>3. ASSUME NEW i \in DOMAIN p, NEW j \in DOMAIN p, i < j, p[i] # Control, p[j] # Control
          PROVE  p[i] < p[j]
      <3>1. i \in 1..Len(q) /\ i \in DOMAIN q
        BY <2>1, <2>3
      <3>2. CASE j \in 1..Len(q)
        BY <2>1, <2>3, <3>1, <3>2 DEF Ordered, InOrder
      <3>3. CASE j = Len(q) + 1
        <4>1. p[i] <= n /\ p[i] \in Nat
          BY <2>1, <3>1 DEF Ordered, Numbered
        <4>2. p[j] = m /\ m > n
          BY <1>1, <2>1, <2>3, <3>3
        <4>3. QED
          BY <4>1, <4>2
      <3>4. QED
        BY <2>1, <3>2, <3>3
    <2>4. last <= k
      BY <1>1 DEF Ordered, Numbered
    <2>5. QED
      BY <2>2, <2>3, <2>4 DEF Ordered, InOrder, Numbered
  <1>2. Ordered(q, last, n + 1)
    <2>1. \A i \in DOMAIN q : q[i] \in Nat
      OBVIOUS
    <2>2. QED
      BY <2>1 DEF Ordered, Numbered
  <1>3. Ordered(Append(q, Control), last, n)
    BY <1>1 DEF Control
  <1>4. Ordered(Append(q, n + 1), last, n + 1)
    BY <1>1 DEF Control
  <1>5. QED
    BY <1>2, <1>3, <1>4 DEF Offer

(* Taking the head away keeps the order, and so does remembering it.       *)
LEMMA TailKeepsOrder ==
    ASSUME NEW q \in Seq(Nat), q # <<>>, NEW last \in Nat, NEW n \in Nat, Ordered(q, last, n)
    PROVE  /\ Ordered(Tail(q), last, n)
           /\ Ordered(Tail(q), IF Head(q) = Control THEN last ELSE Head(q), n)
  <1> DEFINE p == Tail(q)
  <1>1. /\ Len(q) \in Nat /\ Len(q) >= 1
        /\ DOMAIN q = 1..Len(q)
        /\ DOMAIN p = 1..(Len(q) - 1)
        /\ \A i \in DOMAIN p : p[i] = q[i + 1] /\ i + 1 \in DOMAIN q
        /\ Head(q) = q[1] /\ 1 \in DOMAIN q
        /\ \A i \in DOMAIN q : q[i] \in Nat
    OBVIOUS
  <1>2. \A i \in DOMAIN p : p[i] <= n /\ (p[i] # Control => p[i] > last)
    BY <1>1 DEF Ordered, InOrder, Numbered
  <1>3. ASSUME NEW i \in DOMAIN p, NEW j \in DOMAIN p, i < j, p[i] # Control, p[j] # Control
        PROVE  p[i] < p[j]
    BY <1>1, <1>3 DEF Ordered, InOrder
  <1>4. ASSUME Head(q) # Control, NEW i \in DOMAIN p, p[i] # Control
        PROVE  p[i] > Head(q)
    BY <1>1, <1>4 DEF Ordered, InOrder
  <1>5. last <= n /\ Head(q) <= n
    BY <1>1 DEF Ordered, Numbered
  <1>6. QED
    BY <1>2, <1>3, <1>4, <1>5 DEF Ordered, InOrder, Numbered

LEMMA NextOrdered ==
    ASSUME TypeOK, AllOrdered, [Next]_vars
    PROVE  AllOrdered'
  <1>1. /\ sendq \in [Conns -> Seq(Nat)]
        /\ seen \in [Conns -> Nat]
        /\ seq \in Nat
    BY DEF TypeOK, ChanType, ConnType
  <1>2. \A c \in Conns : Ordered(sendq[c], seen[c], seq)
    BY DEF AllOrdered
  <1>3. CASE sendq' = sendq /\ seen' = seen /\ seq' = seq
    BY <1>2, <1>3 DEF AllOrdered
  <1>4. ASSUME NEW c \in Conns, seen' = seen, seq' = seq,
               sendq' = [sendq EXCEPT ![c] = Offer(@, Control)]
        PROVE  AllOrdered'
    <2>1. ASSUME NEW d \in Conns PROVE Ordered(sendq'[d], seen[d], seq)
      <3>1. Ordered(Offer(sendq[d], Control), seen[d], seq)
        <4>1. sendq[d] \in Seq(Nat) /\ seen[d] \in Nat /\ Ordered(sendq[d], seen[d], seq)
          BY <1>1, <1>2
        <4>2. QED
          BY <1>1, <4>1, OfferKeepsOrder
      <3>2. sendq'[d] = IF d = c THEN Offer(sendq[d], Control) ELSE sendq[d]
        BY <1>1, <1>4
      <3>3. QED
        BY <1>2, <3>1, <3>2
    <2>2. QED
      BY <1>4, <2>1 DEF AllOrdered
  <1>5. ASSUME NEW c \in Conns, sendq[c] # <<>>, seq' = seq,
               sendq' = [sendq EXCEPT ![c] = Tail(@)],
               \/ seen' = seen
               \/ seen' = [seen EXCEPT ![c] = IF Head(sendq[c]) = Control
                                                THEN @ ELSE Head(sendq[c])]
        PROVE  AllOrdered'
    <2>1. ASSUME NEW d \in Conns PROVE Ordered(sendq'[d], seen'[d], seq)
      <3>1. sendq[d] \in Seq(Nat) /\ seen[d] \in Nat /\ Ordered(sendq[d], seen[d], seq)
        BY <1>1, <1>2
      <3>2. CASE d # c
        <4>1. sendq'[d] = sendq[d] /\ seen'[d] = seen[d]
          BY <1>1, <1>5, <3>2
        <4>2. QED
          BY <3>1, <4>1
      <3>3. CASE d = c
        <4>1. /\ Ordered(Tail(sendq[c]), seen[c], seq)
              /\ Ordered(Tail(sendq[c]), IF Head(sendq[c]) = Control THEN seen[c]
                                                                     ELSE Head(sendq[c]), seq)
          BY <1>1, <1>5, <3>1, <3>3, TailKeepsOrder
        <4>2. sendq'[c] = Tail(sendq[c])
          BY <1>1, <1>5
        <4>3. \/ seen'[c] = seen[c]
              \/ seen'[c] = IF Head(sendq[c]) = Control THEN seen[c] ELSE Head(sendq[c])
          BY <1>1, <1>5
        <4>4. QED
          BY <3>3, <4>1, <4>2, <4>3
      <3>4. QED
        BY <3>2, <3>3
    <2>2. QED
      BY <1>5, <2>1 DEF AllOrdered
  <1>6. ASSUME NEW rooms, BroadcastTo(rooms) PROVE AllOrdered'
    <2>1. PICK served : /\ sendq' = [c \in Conns |-> IF c \in served
                                                       THEN Offer(sendq[c], seq + 1)
                                                       ELSE sendq[c]]
                        /\ seq' = seq + 1 /\ seen' = seen
      BY <1>6 DEF BroadcastTo, connVars
    <2>2. ASSUME NEW d \in Conns PROVE Ordered(sendq'[d], seen'[d], seq')
      <3>1. sendq[d] \in Seq(Nat) /\ seen[d] \in Nat /\ Ordered(sendq[d], seen[d], seq)
        BY <1>1, <1>2
      <3>2. /\ Ordered(Offer(sendq[d], seq + 1), seen[d], seq + 1)
            /\ Ordered(sendq[d], seen[d], seq + 1)
        BY <1>1, <3>1, OfferKeepsOrder
      <3>3. QED
        BY <2>1, <3>2
    <2>3. QED
      BY <2>2 DEF AllOrdered
  <1>7. ASSUME NEW c \in Conns, Welcome(c) PROVE AllOrdered'
    BY <1>3, <1>4, <1>7 DEF Welcome
  <1>8. ASSUME NEW c \in Conns, SendReply(c) PROVE AllOrdered'
    BY <1>3, <1>4, <1>8 DEF SendReply
  <1>9. ASSUME NEW c \in Conns, WriteMessage(c) \/ WriteFails(c) PROVE AllOrdered'
    BY <1>3, <1>5, <1>9 DEF WriteMessage, WriteFails
  <1>10. ASSUME NEW c \in Conns,
                \/ ClientStep(c)
                \/ ReadFails(c) \/ SessionLeaves(c) \/ Unregister(c)
                \/ WriteClose(c)
         PROVE  AllOrdered'
    BY <1>3, <1>10 DEF ClientStep, Connect, Subscribe, Unsubscribe, OtherCommand, ReadFails,
       SessionLeaves, Unregister, WriteClose, PeerGone, chanVars
  <1>11. CASE Close \/ UNCHANGED vars
    BY <1>3, <1>11 DEF Close, vars, chanVars, connVars
  <1>12. QED
    BY <1>6, <1>7, <1>8, <1>9, <1>10, <1>11
       DEF Next, ReaderStep, WriterStep, Broadcast, BroadcastToOrganization

(* Every client is handed each broadcast at most once and in the order in  *)
(* which the broadcasts were made, whatever a full buffer made it miss.    *)
THEOREM DeliveryInOrder == Spec => []EventsInOrder
  <1>1. Init => AllOrdered
    BY DEF Init, AllOrdered, Ordered, InOrder, Numbered
  <1>2. TypeOK /\ AllOrdered /\ [Next]_vars => AllOrdered'
    BY NextOrdered
  <1>3. AllOrdered => EventsInOrder
    BY DEF AllOrdered, Ordered, EventsInOrder
  <1>4. QED
    BY <1>1, <1>2, <1>3, TypeCorrect, PTL DEF Spec
=============================================================================
