------------------------------ MODULE Realtime ------------------------------
(***************************************************************************)
(* Real-time delivery end to end: requests publish on the in-process bus,  *)
(* its dispatch goroutine runs the log handler and the event bridge, and   *)
(* the bridge broadcasts to the rooms of the WebSocket hub.                *)
(*                                                                         *)
(* The composition replaces RunHandler of EventBus by what the two         *)
(* handlers of a topic do, and the free broadcasts of Hub by the bridge's. *)
(* A panic of the dispatch goroutine and the end of run() stop everything. *)
(* Hub.Close is left out: the server never calls it.                       *)
(***************************************************************************)
EXTENDS EventBus, Hub

CONSTANTS
    Scope,        \* how extractRoutes routes each request's event
    EventOrg,     \* OrganizationID of the event, where it has one
    EventApp,     \* AppID of the event, where it has one
    TopicChannel, \* the channel the bridge was registered with for each topic
    DatabaseFails \* whether the bridge's lookups may fail although their context is live

\* "none":   no route (user registered, role assigned outside an organization)
\* "org":    role assigned, organization or workspace created
\* "app":    app created or updated
\* "lookup": endpoint created, retired or activated: an app, but no organization
Scopes == {"none", "org", "app", "lookup"}

ASSUME RealtimeAssumption ==
    /\ Handlers = [t \in Topics |-> 2]
    /\ Scope \in [Requests -> Scopes]
    /\ EventOrg \in [Requests -> Orgs]
    /\ EventApp \in [Requests -> Apps]
    /\ TopicChannel \in [Topics -> Channels]
    /\ DatabaseFails \in BOOLEAN

VARIABLES
    pending, \* channels the bridge has still to broadcast the current event to
    sent     \* history: the request whose event each broadcast carried

bridgeVars == <<pending, sent>>
realtimeVars == <<busVars, vars, bridgeVars>>

RealtimeTypeOK ==
    /\ BusTypeOK
    /\ TypeOK
    /\ pending \in Seq(Channels)
    /\ sent \in Seq(Requests)

RealtimeInit ==
    /\ BusInit
    /\ Init
    /\ pending = <<>>
    /\ sent = <<>>

-----------------------------------------------------------------------------
(* The handlers of the current event, in the order main subscribed them.   *)

\* The handler that logs the event.
LogEvent ==
    /\ handlersRun = 0
    /\ RunHandler
    /\ UNCHANGED <<vars, bridgeVars>>

Bridging == Handling /\ handlersRun = 1

\* Mutant of BridgeChannels: the topic's name instead of the channel's.
BridgeTopics(r) == <<DefaultChannel, TopicOf[r]>>

\* "events" and the topic's own channel, once if they are the same.
BridgeChannels(r) ==
    LET ch == TopicChannel[TopicOf[r]]
    IN  IF ch = DefaultChannel THEN <<ch>> ELSE <<DefaultChannel, ch>>

\* Mutant of BridgeSkips: the handler gives up on every cancelled context.
BridgeSkipsCancelled ==
    /\ Bridging
    /\ pending = <<>>
    /\ Scope[current[1]] = "none" \/ current[1] \notin live
    /\ RunHandler
    /\ UNCHANGED <<vars, bridgeVars>>

\* The event has no route, or its app cannot be looked up: the handler returns nil.
\* The lookup uses the context of the request, which is cancelled when the request
\* is over.
BridgeSkips ==
    /\ Bridging
    /\ pending = <<>>
    /\ \/ Scope[current[1]] = "none"
       \/ Scope[current[1]] = "lookup" /\ (current[1] \notin live \/ DatabaseFails)
    /\ RunHandler
    /\ UNCHANGED <<vars, bridgeVars>>

BridgeRoutes ==
    /\ Bridging
    /\ pending = <<>>
    /\ \/ Scope[current[1]] \in {"org", "app"}
       \/ Scope[current[1]] = "lookup" /\ current[1] \in live
    /\ pending' = BridgeChannels(current[1])
    /\ UNCHANGED <<busVars, vars, sent>>

\* Mutant of BridgeBroadcasts: an application's event goes to its organization.
BridgeBroadcastsWide ==
    LET r == current[1] IN
    /\ Bridging
    /\ pending # <<>>
    /\ BroadcastToOrganization(OrgOf[EventApp[r]], Head(pending))
    /\ pending' = Tail(pending)
    /\ sent' = Append(sent, r)
    /\ IF Tail(pending) = <<>> THEN RunHandler ELSE UNCHANGED busVars

\* One broadcast; after the last one the handler returns.
BridgeBroadcasts ==
    LET r == current[1] IN
    /\ Bridging
    /\ pending # <<>>
    /\ IF Scope[r] = "org"
         THEN BroadcastToOrganization(EventOrg[r], Head(pending))
         ELSE Broadcast(EventApp[r], Head(pending))
    /\ pending' = Tail(pending)
    /\ sent' = Append(sent, r)
    /\ IF Tail(pending) = <<>> THEN RunHandler ELSE UNCHANGED busVars

Bridge == LogEvent \/ BridgeSkips \/ BridgeRoutes \/ BridgeBroadcasts

-----------------------------------------------------------------------------

BusStep ==
    /\ \/ \E r \in Requests : Begin(r) \/ RequestStep(r) \/ Abandon(r)
       \/ Receive \/ FinishEvent \/ DispatcherStops
       \/ Signal \/ ServeFails \/ ShutdownStep
    /\ UNCHANGED <<vars, bridgeVars>>

HubStep ==
    /\ \E c \in Conns : ClientStep(c) \/ Welcome(c) \/ ReaderStep(c) \/ WriterStep(c)
    /\ UNCHANGED <<busVars, bridgeVars>>

Running == Up /\ ~crashed

RealtimeNext == Running /\ (BusStep \/ HubStep \/ Bridge)

RealtimeSpec == RealtimeInit /\ [][RealtimeNext]_realtimeVars

-----------------------------------------------------------------------------
(* Properties.                                                             *)

\* The clients an event is meant for.
Audience(r) ==
    {c \in Conns : IF Scope[r] = "org" THEN OrgOf[AppOf[c]] = EventOrg[r]
                                       ELSE AppOf[c] = EventApp[r]}

\* Every event on its way to a client, or handed to it, is one of its own application
\* or organization, whatever rooms it asked for and whoever left or was refused.
TenantIsolation ==
    \A c \in Conns :
        /\ \A i \in DOMAIN sendq[c] : sendq[c][i] # Control => c \in Audience(sent[sendq[c][i]])
        /\ seen[c] # Control => c \in Audience(sent[seen[c]])

Copies(r) == Cardinality({n \in DOMAIN sent : sent[n] = r})

\* Where accepted events are in the bus's order.
Place(r) == CHOOSE i \in DOMAIN accepted : accepted[i] = r

\* Broadcasts follow the bus: in the order events were accepted, no more than one
\* per channel, and an event that is through had all of its broadcasts if its scope
\* needs no lookup.
BroadcastsFollowTheBus ==
    /\ \A m, n \in DOMAIN sent : m < n => Place(sent[m]) <= Place(sent[n])
    /\ \A r \in Requests : Copies(r) <= Len(BridgeChannels(r))
    /\ \A i \in 1..handled :
         Scope[accepted[i]] \in {"org", "app"}
            => Copies(accepted[i]) = Len(BridgeChannels(accepted[i]))

\* What docs/WEBSOCKET.md:56 says: the api-management channel has "Endpoint created,
\* retired, activated"; so an endpoint event that is through was broadcast.
EndpointEventsAreBroadcast ==
    \A i \in 1..handled : Scope[accepted[i]] = "lookup" => Copies(accepted[i]) > 0
=============================================================================
