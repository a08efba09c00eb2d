-------------------------------- MODULE Hub --------------------------------
(***************************************************************************)
(* The in-memory WebSocket hub of the NavGo API: registration, rooms,      *)
(* broadcasts and the two goroutines ("pumps") of every connection.        *)
(*                                                                         *)
(* One action is one critical section of the hub's mutex, or one step of a *)
(* connection's handler, reader or writer goroutine between two of them.   *)
(* A connection is served through two client objects that share the send   *)
(* channel: the one Register stores in the hub, and the one Session.Start  *)
(* builds for the pumps.  Each has its own rooms map and its own "closed"  *)
(* flag, so both are part of the state.                                    *)
(***************************************************************************)
EXTENDS Naturals, Sequences, FiniteSets

CONSTANTS
    Conns,           \* connections; an id is a fresh UUID, so each connects once
    Apps,            \* applications
    Orgs,            \* organizations
    OrgOf,           \* the organization each application belongs to
    AppOf,           \* the application each connection is made for
    Channels,        \* channel names the clients and the event bridge use
    DefaultChannel,  \* "events", the room every client starts in
    MaxConnections,  \* capacity of the hub
    SendBuffer,      \* capacity of a client's send channel (64 in Connect)
    MaxBroadcasts,   \* bound: broadcasts in a behaviour
    MaxCommands      \* bound: client commands handled per connection

ASSUME HubAssumption ==
    /\ IsFiniteSet(Conns)
    /\ OrgOf \in [Apps -> Orgs]
    /\ AppOf \in [Conns -> Apps]
    /\ DefaultChannel \in Channels
    /\ MaxConnections \in Nat \ {0}
    /\ SendBuffer \in Nat \ {0}
    /\ MaxBroadcasts \in Nat
    /\ MaxCommands \in Nat

VARIABLES
    hubClosed,  \* Hub.closed
    clients,    \* keys of Hub.clients
    members,    \* Hub.rooms: room -> ids of the hub's client objects in it
    subs,       \* rooms map of each hub client object
    ended,      \* the client objects of a connection whose "closed" flag is set
    closes,     \* how often the send channel has been closed
    sendq,      \* what the send channel buffers
    conn,       \* the TCP connection
    handler,    \* program counter of Handler.Connect
    reader,     \* program counter of readPump and its deferred calls
    commands,   \* commands handled so far, per connection
    writer,     \* program counter of writePump
    seen,       \* the last event written to the peer
    seq,        \* broadcasts so far
    crashed     \* a panic outside an HTTP handler ended the process

hubVars == <<hubClosed, clients, members, subs>>
chanVars == <<ended, closes, sendq>>
connVars == <<conn, handler, reader, commands, writer, seen>>
vars == <<hubVars, chanVars, connVars, seq, crashed>>

Rooms == Apps \X Channels
NoRooms == [r \in Rooms |-> {}]

\* A message is the number of the broadcast it carries, or Control: a welcome, an
\* acknowledgement, a pong or an error, whose text no property depends on.
Control == 0

ClientObjects == {"hub", "session"}

HubType ==
    /\ hubClosed \in BOOLEAN
    /\ clients \subseteq Conns
    /\ members \in [Rooms -> SUBSET Conns]
    /\ subs \in [Conns -> SUBSET Rooms]

ChanType ==
    /\ ended \in [Conns -> SUBSET ClientObjects]
    /\ closes \in [Conns -> Nat]
    /\ sendq \in [Conns -> Seq(Nat)]

ConnType ==
    /\ conn \in [Conns -> {"none", "open", "closed"}]
    /\ handler \in [Conns -> {"idle", "started", "done", "panicked"}]
    /\ reader \in [Conns -> {"off", "reading", "replying", "leaving", "unregistering", "done"}]
    /\ commands \in [Conns -> Nat]
    /\ writer \in [Conns -> {"off", "pumping", "done"}]
    /\ seen \in [Conns -> Nat]

TypeOK ==
    /\ HubType
    /\ ChanType
    /\ ConnType
    /\ seq \in Nat
    /\ crashed \in BOOLEAN

Init ==
    /\ hubClosed = FALSE
    /\ clients = {}
    /\ members = NoRooms
    /\ subs = [c \in Conns |-> {}]
    /\ ended = [c \in Conns |-> {}]
    /\ closes = [c \in Conns |-> 0]
    /\ sendq = [c \in Conns |-> <<>>]
    /\ conn = [c \in Conns |-> "none"]
    /\ handler = [c \in Conns |-> "idle"]
    /\ reader = [c \in Conns |-> "off"]
    /\ commands = [c \in Conns |-> 0]
    /\ writer = [c \in Conns |-> "off"]
    /\ seen = [c \in Conns |-> 0]
    /\ seq = 0
    /\ crashed = FALSE

-----------------------------------------------------------------------------
(* Channels.                                                               *)

IsOpen(c) == closes[c] = 0

\* Mutant of Offer: the message goes in front of those already queued.
OfferInFront(q, p) == IF Len(q) < SendBuffer THEN <<p>> \o q ELSE q

\* select { case send <- p: default: } on a channel that is still open.
Offer(q, p) == IF Len(q) < SendBuffer THEN Append(q, p) ELSE q

\* client.closeSend: each client object closes the channel at most once.
CloseSend(c, object) ==
    IF object \in ended[c]
      THEN UNCHANGED <<ended, closes>>
      ELSE /\ ended' = [ended EXCEPT ![c] = @ \cup {object}]
           /\ closes' = [closes EXCEPT ![c] = @ + 1]

-----------------------------------------------------------------------------
(* The handler of GET /ws: upgrade, register, start the pumps, welcome.    *)

\* Register on a closed hub returns a no-op and leaves the channel open.
RegisterClosed ==
    /\ hubClosed
    /\ UNCHANGED <<clients, members, subs, closes>>

\* Mutant of RegisterFull: the return after close(send) is missing.
RegisterFullFallsThrough(c) ==
    /\ ~hubClosed
    /\ Cardinality(clients) >= MaxConnections
    /\ closes' = [closes EXCEPT ![c] = @ + 1]
    /\ clients' = clients \cup {c}
    /\ members' = [members EXCEPT ![<<AppOf[c], DefaultChannel>>] = @ \cup {c}]
    /\ subs' = [subs EXCEPT ![c] = @ \cup {<<AppOf[c], DefaultChannel>>}]

\* Register at capacity closes the channel it was given.
RegisterFull(c) ==
    /\ ~hubClosed
    /\ Cardinality(clients) >= MaxConnections
    /\ closes' = [closes EXCEPT ![c] = @ + 1]
    /\ UNCHANGED <<clients, members, subs>>

\* Mutant of RegisterAdd: the capacity is compared with ">" instead of ">=".
RegisterAddOneTooMany(c) ==
    /\ ~hubClosed
    /\ Cardinality(clients) <= MaxConnections
    /\ clients' = clients \cup {c}
    /\ members' = [members EXCEPT ![<<AppOf[c], DefaultChannel>>] = @ \cup {c}]
    /\ subs' = [subs EXCEPT ![c] = @ \cup {<<AppOf[c], DefaultChannel>>}]
    /\ UNCHANGED closes

\* Mutant of RegisterAdd: addToRoomLocked forgets c.subscribe(room).
RegisterAddUnrecorded(c) ==
    /\ ~hubClosed
    /\ Cardinality(clients) < MaxConnections
    /\ clients' = clients \cup {c}
    /\ members' = [members EXCEPT ![<<AppOf[c], DefaultChannel>>] = @ \cup {c}]
    /\ UNCHANGED <<subs, closes>>

\* Register otherwise adds the client to the hub and to its default room.
RegisterAdd(c) ==
    /\ ~hubClosed
    /\ Cardinality(clients) < MaxConnections
    /\ clients' = clients \cup {c}
    /\ members' = [members EXCEPT ![<<AppOf[c], DefaultChannel>>] = @ \cup {c}]
    /\ subs' = [subs EXCEPT ![c] = @ \cup {<<AppOf[c], DefaultChannel>>}]
    /\ UNCHANGED closes

\* Upgrade, Register and Session.Start, whatever Register did.
Connect(c) ==
    /\ handler[c] = "idle"
    /\ RegisterClosed \/ RegisterFull(c) \/ RegisterAdd(c)
    /\ conn' = [conn EXCEPT ![c] = "open"]
    /\ handler' = [handler EXCEPT ![c] = "started"]
    /\ reader' = [reader EXCEPT ![c] = "reading"]
    /\ writer' = [writer EXCEPT ![c] = "pumping"]
    /\ UNCHANGED <<hubClosed, ended, sendq, commands, seen, seq, crashed>>

\* The welcome goes to the channel itself, without the hub's lock; a closed one
\* panics, and the Recoverer middleware ends only this handler.
Welcome(c) ==
    /\ handler[c] = "started"
    /\ \/ /\ IsOpen(c)
          /\ sendq' = [sendq EXCEPT ![c] = Offer(@, Control)]
          /\ handler' = [handler EXCEPT ![c] = "done"]
       \/ /\ ~IsOpen(c)
          /\ handler' = [handler EXCEPT ![c] = "panicked"]
          /\ UNCHANGED sendq
    /\ UNCHANGED <<hubVars, ended, closes, conn, reader, commands, writer,
                   seen, seq, crashed>>

-----------------------------------------------------------------------------
(* The reader goroutine: readPump, handleClientAction, and on exit         *)
(* removeClient of the session's client object, then unregister.           *)

\* A command was handled and what remains is to send the reply.
WithReply(c) ==
    /\ commands' = [commands EXCEPT ![c] = @ + 1]
    /\ reader' = [reader EXCEPT ![c] = "replying"]

\* A command was handled and needs no reply.
NoReply(c) ==
    /\ commands' = [commands EXCEPT ![c] = @ + 1]
    /\ UNCHANGED reader

Reading(c) ==
    /\ reader[c] = "reading"
    /\ conn[c] = "open"
    /\ commands[c] < MaxCommands

Subscribe(c, ch) ==
    /\ Reading(c)
    /\ IF c \in clients
         THEN /\ members' = [members EXCEPT ![<<AppOf[c], ch>>] = @ \cup {c}]
              /\ subs' = [subs EXCEPT ![c] = @ \cup {<<AppOf[c], ch>>}]
         ELSE UNCHANGED <<members, subs>>
    /\ WithReply(c)
    /\ UNCHANGED <<hubClosed, clients, chanVars, conn, handler, writer, seen,
                   seq, crashed>>

Unsubscribe(c, ch) ==
    /\ Reading(c)
    /\ IF c \in clients
         THEN /\ members' = [members EXCEPT ![<<AppOf[c], ch>>] = @ \ {c}]
              /\ subs' = [subs EXCEPT ![c] = @ \ {<<AppOf[c], ch>>}]
              /\ NoReply(c)
         ELSE WithReply(c) /\ UNCHANGED <<members, subs>>
    /\ UNCHANGED <<hubClosed, clients, chanVars, conn, handler, writer, seen,
                   seq, crashed>>

\* A ping, or a message that is malformed, unknown or names an invalid channel.
OtherCommand(c) ==
    /\ Reading(c)
    /\ WithReply(c)
    /\ UNCHANGED <<hubVars, chanVars, conn, handler, writer, seen, seq, crashed>>

\* Mutant of SendReply: the send has no default case and waits for room.
SendReplyBlocks(c) ==
    /\ reader[c] = "replying"
    /\ c \in clients => Len(sendq[c]) < SendBuffer
    /\ reader' = [reader EXCEPT ![c] = "reading"]
    /\ sendq' = IF c \in clients THEN [sendq EXCEPT ![c] = Append(@, Control)] ELSE sendq
    /\ UNCHANGED <<hubVars, ended, closes, conn, handler, commands, writer,
                   seen, seq, crashed>>

\* SendToClient: the reply is dropped when the client is gone or its buffer is full.
SendReply(c) ==
    /\ reader[c] = "replying"
    /\ reader' = [reader EXCEPT ![c] = "reading"]
    /\ IF c \in clients /\ ~hubClosed
         THEN IF IsOpen(c)
                THEN /\ sendq' = [sendq EXCEPT ![c] = Offer(@, Control)]
                     /\ UNCHANGED crashed
                ELSE crashed' = TRUE /\ UNCHANGED sendq
         ELSE UNCHANGED <<sendq, crashed>>
    /\ UNCHANGED <<hubVars, ended, closes, conn, handler, commands, writer,
                   seen, seq>>

ReadFails(c) ==
    /\ reader[c] = "reading"
    /\ conn[c] = "closed"
    /\ reader' = [reader EXCEPT ![c] = "leaving"]
    /\ UNCHANGED <<hubVars, chanVars, conn, handler, commands, writer, seen,
                   seq, crashed>>

\* Mutant of RemoveClient: no check that the client is still registered.
RemoveClientUnchecked(c, object, objectRooms) ==
    /\ clients' = clients \ {c}
    /\ members' = [r \in Rooms |-> IF r \in objectRooms THEN members[r] \ {c}
                                                        ELSE members[r]]
    /\ CloseSend(c, object)

\* Hub.removeClient called on one of the connection's client objects; only that
\* object's own rooms map is walked.
RemoveClient(c, object, objectRooms) ==
    IF c \in clients
      THEN /\ clients' = clients \ {c}
           /\ members' = [r \in Rooms |-> IF r \in objectRooms THEN members[r] \ {c}
                                                               ELSE members[r]]
           /\ CloseSend(c, object)
      ELSE UNCHANGED <<clients, members, ended, closes>>

\* The deferred removeClient of readPump: the session's object was never put in a
\* room, so its rooms map is empty.
SessionLeaves(c) ==
    /\ reader[c] = "leaving"
    /\ RemoveClient(c, "session", {})
    /\ reader' = [reader EXCEPT ![c] = "unregistering"]
    /\ UNCHANGED <<hubClosed, subs, sendq, conn, handler, commands, writer,
                   seen, seq, crashed>>

\* The unregister function Register returned.
Unregister(c) ==
    /\ reader[c] = "unregistering"
    /\ RemoveClient(c, "hub", subs[c])
    /\ reader' = [reader EXCEPT ![c] = "done"]
    /\ UNCHANGED <<hubClosed, subs, sendq, conn, handler, commands, writer,
                   seen, seq, crashed>>

-----------------------------------------------------------------------------
(* The writer goroutine.                                                   *)

WriteMessage(c) ==
    /\ writer[c] = "pumping"
    /\ conn[c] = "open"
    /\ sendq[c] # <<>>
    /\ seen' = [seen EXCEPT ![c] = IF Head(sendq[c]) = Control THEN @ ELSE Head(sendq[c])]
    /\ sendq' = [sendq EXCEPT ![c] = Tail(@)]
    /\ UNCHANGED <<hubVars, ended, closes, conn, handler, reader, commands,
                   writer, seq, crashed>>

\* A message or a ping cannot be written.
WriteFails(c) ==
    /\ writer[c] = "pumping"
    /\ conn[c] = "closed"
    /\ \/ sendq[c] # <<>> /\ sendq' = [sendq EXCEPT ![c] = Tail(@)]
       \/ UNCHANGED sendq
    /\ writer' = [writer EXCEPT ![c] = "done"]
    /\ UNCHANGED <<hubVars, ended, closes, conn, handler, reader, commands,
                   seen, seq, crashed>>

\* Mutant of WriteClose: the deferred conn.Close is missing.
WriteCloseKeepsConn(c) ==
    /\ writer[c] = "pumping"
    /\ ~IsOpen(c)
    /\ sendq[c] = <<>>
    /\ writer' = [writer EXCEPT ![c] = "done"]
    /\ UNCHANGED <<hubVars, chanVars, conn, handler, reader, commands, seen,
                   seq, crashed>>

\* The send channel is closed and drained: close frame, then conn.Close.
WriteClose(c) ==
    /\ writer[c] = "pumping"
    /\ ~IsOpen(c)
    /\ sendq[c] = <<>>
    /\ writer' = [writer EXCEPT ![c] = "done"]
    /\ conn' = [conn EXCEPT ![c] = "closed"]
    /\ UNCHANGED <<hubVars, chanVars, handler, reader, commands, seen,
                   seq, crashed>>

-----------------------------------------------------------------------------
(* Broadcasts, which the event bridge makes from the bus's goroutine.      *)

\* broadcastLocked over some rooms of one channel: the range over a room's map has
\* no order, and the first client whose channel is closed panics the goroutine,
\* after any part of the others has been served.
BroadcastTo(rooms) ==
    LET targets == IF hubClosed THEN {} ELSE UNION {members[r] : r \in rooms}
        open    == {c \in targets : IsOpen(c)}
    IN  /\ seq' = seq + 1
        /\ \E served \in SUBSET open :
             /\ open = targets => served = open
             /\ sendq' = [c \in Conns |-> IF c \in served
                                            THEN Offer(sendq[c], seq + 1)
                                            ELSE sendq[c]]
        /\ crashed' = (open # targets)
        /\ UNCHANGED <<hubVars, ended, closes, connVars>>

Broadcast(a, ch) == seq < MaxBroadcasts /\ BroadcastTo({<<a, ch>>})

OrgRooms(o, ch) == {r \in Rooms : OrgOf[r[1]] = o /\ r[2] = ch}

BroadcastToOrganization(o, ch) ==
    seq < MaxBroadcasts /\ BroadcastTo(OrgRooms(o, ch))

-----------------------------------------------------------------------------

\* Mutant of Close: the clients map is not replaced.
CloseKeepsClients ==
    /\ hubClosed' = TRUE
    /\ ended' = [c \in Conns |-> IF c \in clients THEN ended[c] \cup {"hub"} ELSE ended[c]]
    /\ closes' = [c \in Conns |-> IF c \in clients /\ "hub" \notin ended[c]
                                    THEN closes[c] + 1 ELSE closes[c]]
    /\ members' = NoRooms
    /\ UNCHANGED <<clients, subs, sendq, connVars, seq, crashed>>

\* Mutant of Close: the rooms become a nil map.
CloseNilRooms ==
    /\ hubClosed' = TRUE
    /\ clients' = {}
    /\ members' = [r \in {} |-> {}]
    /\ UNCHANGED <<subs, chanVars, connVars, seq, crashed>>

\* Hub.Close closes every registered client's channel and empties both maps.
Close ==
    /\ hubClosed' = TRUE
    /\ ended' = [c \in Conns |-> IF c \in clients THEN ended[c] \cup {"hub"} ELSE ended[c]]
    /\ closes' = [c \in Conns |-> IF c \in clients /\ "hub" \notin ended[c]
                                    THEN closes[c] + 1 ELSE closes[c]]
    /\ clients' = {}
    /\ members' = NoRooms
    /\ UNCHANGED <<subs, sendq, connVars, seq, crashed>>

\* The peer leaves, the network fails, or no pong came within the read deadline.
PeerGone(c) ==
    /\ conn[c] = "open"
    /\ conn' = [conn EXCEPT ![c] = "closed"]
    /\ UNCHANGED <<hubVars, chanVars, handler, reader, commands, writer,
                   seen, seq, crashed>>

-----------------------------------------------------------------------------

ReaderStep(c) ==
    \/ SendReply(c)
    \/ ReadFails(c)
    \/ SessionLeaves(c)
    \/ Unregister(c)

WriterStep(c) == WriteMessage(c) \/ WriteFails(c) \/ WriteClose(c)

ClientStep(c) ==
    \/ Connect(c)
    \/ \E ch \in Channels : Subscribe(c, ch) \/ Unsubscribe(c, ch)
    \/ OtherCommand(c)
    \/ PeerGone(c)

Next ==
    /\ ~crashed
    /\ \/ \E c \in Conns : ClientStep(c) \/ Welcome(c) \/ ReaderStep(c) \/ WriterStep(c)
       \/ \E a \in Apps, ch \in Channels : Broadcast(a, ch)
       \/ \E o \in Orgs, ch \in Channels : BroadcastToOrganization(o, ch)
       \/ Close

\* Goroutines are scheduled: a handler, reader or writer that can step does.
Fairness ==
    \A c \in Conns :
        /\ WF_vars(~crashed /\ Welcome(c))
        /\ WF_vars(~crashed /\ ReaderStep(c))
        /\ WF_vars(~crashed /\ WriterStep(c))

Spec == Init /\ [][Next]_vars /\ Fairness

-----------------------------------------------------------------------------
(* Properties.                                                             *)

\* No send channel is closed twice (close of a closed channel panics): capacity
\* refusal, the two deferred removals and Hub.Close never both reach one channel.
NoDoubleClose == \A c \in Conns : closes[c] <= 1

\* A client the hub would send to by id has an open channel, so SendToClient
\* under the read lock cannot panic, and a closed hub has no clients.
RegisteredIsOpen == \A c \in clients : IsOpen(c) /\ ~hubClosed

\* Admission never exceeds the configured number of connections.
CapacityRespected == Cardinality(clients) <= MaxConnections

\* For registered clients the room index and each client's own set of rooms tell
\* the same story, and both stay within the application the client connected for.
MembershipAgrees ==
    \A c \in clients :
        /\ \A r \in Rooms : c \in members[r] <=> r \in subs[c]
        /\ \A r \in subs[c] : r[1] = AppOf[c]

\* Each connection is handed every broadcast at most once and in broadcast order,
\* whatever was dropped on full buffers in between.
InOrder(q, last) ==
    /\ \A i \in DOMAIN q : q[i] # Control => q[i] > last
    /\ \A i, j \in DOMAIN q : i < j /\ q[i] # Control /\ q[j] # Control => q[i] < q[j]

EventsInOrder == \A c \in Conns : InOrder(sendq[c], seen[c])

\* A connection whose TCP side has failed is let go: both goroutines end and its
\* place in the hub is free again.
FailedConnIsReleased ==
    \A c \in Conns :
        conn[c] = "closed" ~>
            \/ crashed
            \/ reader[c] = "done" /\ writer[c] = "done" /\ c \notin clients

\* Closing a client's channel, by capacity refusal or by Hub.Close, ends with its
\* connection closed even when messages were still queued.
ClosedSendDisconnects ==
    \A c \in Conns : ~IsOpen(c) ~> (crashed \/ conn[c] = "closed")

\* Only one thing can make a broadcast panic: a client that has left the hub and is
\* still listed in a room.  Capacity refusals and Hub.Close cannot.
PanicOnlyFromStaleMember ==
    crashed => \E c \in Conns \ clients : \E r \in Rooms : c \in members[r]

\* What hub.go:117 says of Broadcast: it "sends a message to all clients subscribed
\* to a room"; it does not bring the process down.
BroadcastDoesNotPanic == ~crashed
=============================================================================
