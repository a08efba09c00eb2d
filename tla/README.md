# A verification project for NavGo

NavGo is a Go server (`masterfabric-go`: accounts, tenants, API management, trips,
real-time events) with a Flutter app (`mobile`) and a web front end (`frontend`).
This directory holds TLA+ models of the parts whose correctness depends on the
order of steps, the TLC configurations that check them on small instances, and
proofs, checked by TLAPS, of what holds for every instance.

Paths below are relative to `src/masterfabric-go/internal` unless they start with
`cmd`, `mobile` or `frontend`.

## 1. Inventory

| Component | State | Operations | Hard behaviour | Correct when |
|---|---|---|---|---|
| Real-time hub (`infrastructure/websocket/hub.go`, `client.go`, `session.go`) | clients, rooms, send channels, two goroutines per connection | Register, Subscribe, Unsubscribe, SendToClient, Broadcast, Close, the pumps | goroutines interleave between critical sections; a channel closed twice, or written after it is closed, panics | no double close, capacity, the two room indexes agree, order of delivery, departed clients are released |
| WebSocket handler (`infrastructure/http/handler/realtime`) | none of its own | Connect, client commands | the welcome is sent without the hub's lock | a refused connection harms nobody else |
| In-process bus (`shared/events`) | a bounded channel, a dispatch goroutine | Publish, Subscribe, Close | drop on full, close while publishing | in order, at most once, accepted means handled |
| Event bridge (`infrastructure/websocket/event_bridge.go`) | none of its own | route an event to rooms | runs on the bus's goroutine with the publisher's context | right audience, no event lost for want of a context |
| Server life cycle (`cmd/server/main.go`) | run()'s progress | serve, signal, Shutdown, deferred closes | a deadline races requests that still publish; the database's pool waits for its connections | the process ends, with accepted events handled, unless a request keeps a connection |
| Sign-in (`application/security`, `infrastructure/postgres/security`) | auth_handshakes, auth_magic_links | handshake, request and verify a link, bind | check and update are apart, rows expire, requests race and fail half-way | one session per handshake, one sign-in per link |
| Accounts and tokens (`application/iam`, `infrastructure/auth/jwt_service.go`, `shared/middleware`) | users, signed tokens | register, login, validate | check-then-insert | one account per address, sessions start with a sign-in |
| Kafka bus (`infrastructure/kafka`) | offsets of a consumer group | publish, consume, commit, start, close | failed handlers, restarts, rebalances under a message in hand, start before subscribe | at-least-once delivery as its comment says |
| Roles and permission cache (`infrastructure/auth/rbac_service.go`) | user_roles, a Redis key per user | HasPermission, AssignRole | a fill races an invalidation | a revoked or new permission is seen after the TTL at the latest |
| Rate limiters (`shared/middleware/rate_limit.go`, `gateway/pipeline.go`) | windows in memory and in Redis | Allow | INCR and EXPIRE apart, window edges | no more than the limit in a window; only a failed EXPIRE leaves a window without an end |
| Router and middleware (`infrastructure/http/router`, `shared/middleware`) | none of its own | token, principal, tenant, permission, kill switch | four sources of an organization: header, token, subdomain, path | a request acts in the organization its token names |
| API gateway (`gateway`, `infrastructure/gateway/interceptors`) | the tables of the generic handler | lookup, policy, limit, interceptors, proxy or generic handler | order of checks, lookups that fail open, columns the body names | no handler before its policy, no row of another tenant |
| API management (`application/apimanagement`) | app_endpoints, endpoint_policies | define, retire, activate, update policy | read-modify-write of whole rows | a call is answered by the status and the policy in force |
| Tenants (`application/tenant`) | organizations, apps, workspaces, keys | create, update, list | check-then-insert of slugs | slugs unique in their scope |
| Trips and places (`application/trip`, `infrastructure/places`) | itineraries, places_cache, place_search_cache | search, route, save, plan a day | expiring cache, fixtures left by a server without a key, upstream retries, reordering | every stored stop is vouched for, stops follow the route |
| LLM service (`application/llm`, `infrastructure/llm`) | none of its own | intent, pick stops, day cards, route card | free text from outside, a conversation that is cut to fit | only valid, distinct choices get through, a conversation stays in its city |
| Audit (`shared/middleware/audit.go`) | audit_logs | one insert after the response | uses a context that is over | a row per request of an organization |
| Mobile app (`mobile/lib`) | the planner's state, the thread of a chat, tokens | plan, retry, reset, chat, sign in | each call uses the answers before it; overlapping asynchronous handlers | the stops shown are those of the route shown |
| MCP server (`cmd/mcp`) | the identity it was started with | the trip service's operations as tools | no router in front | acts for one user only |
| Web front end, edge deployment, security scans, configuration, migrations, health, telemetry, documents | - | - | pure I/O, presentation or start-up data | - |

How they interact: use cases write to the database and publish on the bus; the
bus's one dispatch goroutine runs the log handler and the bridge in turn; the
bridge calls the hub, which writes to the clients' channels; `run()` stops the
HTTP server, then closes the bus and then the database's pool. Sign-in is a conversation of a client with
four use cases through two tables and signed tokens. Every other request goes
through the router's middleware, or through the gateway if it names an app, to a
use case and its tables; roles, permission cache, counters and the kill switch are
shared by all of them. A phone plans a day in four calls (intent, search, pick,
route), each made from the answer before it; the places it gets come from a cache
that outlives the server's configuration.

## 2. Modules

| Module | Models | Composed of |
|---|---|---|
| `Hub` | hub, handler from the upgrade on, both pumps | - |
| `EventFeed` | what a bus promises (abstract) | - |
| `EventBus` | in-process bus, publishing requests, run() | implements `EventFeed` |
| `Realtime` | event bridge | `EventBus`, `Hub` |
| `Access` | handshakes, accounts, login, magic links, bind | - |
| `KafkaBus` | the Kafka bus: broker, group, loops, Close, crashes, rebalances | - |
| `Requests` | a request in flight: its steps, middleware, admission | - |
| `Rbac`, `Tenants`, `Endpoints`, `RateLimits` | permission checks, the tables of tenants and of endpoints, counters | `Requests` |
| `Gateway` | the pipeline and its backends | `Endpoints`, `Rbac`, `RateLimits` |
| `Platform` | all requests of the platform side by side | `Gateway` with all of these |
| `Places`, `Routes`, `Trips` | the places cache and clients, routes, itineraries and day plans | `Requests`, one on the other |
| `Assistant` | the LLM service | `Requests` |
| `Phone` | the planner and the chat of the app | `Trips`, `Assistant` |
| `Planning` | phones, HTTP clients and the MCP server side by side | `Phone` |
| `HubProofs`, `EventBusProofs`, `AccessProofs`, `KafkaBusProofs` | theorems | the module they are about |
| `RealtimeProofs` | theorems | `Realtime` and the proofs of its parts |
| `PlatformProofs`, `TenantProofs` | theorems about `Platform` | `TenantProofs` rests on `PlatformProofs` |
| `PlanningProofs` | theorems | `Planning` |
| `MCHub`, `MCEventBus`, `MCRealtime`, `MCAccess`, `MCKafkaBus`, `MCPlatform`, `MCPlanning` | the instances TLC checks | the module they are about |

**Hub.** One action per critical section of `Hub.mu`, or per step of a goroutine
between two of them. A connection has two `client` objects with one send channel:
the one `Register` stores (`"hub"`) and the one `Session.Start` builds
(`"session"`); `ended` holds the objects whose `closed` flag is set and `closes`
counts `close(send)`. `Connect` is one step: the connection's id is fresh and its
goroutines exist only after it. `readPump` with its two deferred calls is the
program counter `reader` (reading, replying, leaving, unregistering, done). A
message is the number of its broadcast, or `Control`. `BroadcastTo` walks the
members in any order and panics at the first closed channel, after any part of the
others has been served. Deadlines and failures of TCP are `PeerGone`; a ping that
cannot be written is `WriteFails` without a message.

The server as it stands cannot complete an upgrade: the logging and audit
wrappers of `http.ResponseWriter` do not implement `http.Hijacker`. The model is
of the hub once the upgrade works. Nothing calls `Hub.Close` either: `Hub` has it
because the interface promises it, `Realtime` leaves it out.

**EventBus.** A request stands for one use case that commits a write and
publishes one event with its own context; `live` are the requests whose context is
not cancelled. `Publish` has the three outcomes of its `select`. The dispatch
goroutine holds at most one envelope. `server` follows `run()`: serving, then
draining (`Shutdown`), drained or forced (`srv.Close` after 30 s), or failed (the
listener broke); then the deferred calls: `eventBus.Close` closes the channel
(`CloseBus`) and waits for the dispatcher, and `db.Close` closes the pool
(`ClosePool`) and waits for the connections in use before the process ends (`Exit`). A
request has one while it is "writing"; a request that needs one afterwards fails. The
close of Redis between the two waits for nobody and is part of `ClosePool`.
`accepted`, `dropped` and `handled` are history variables for the refinement:
`EventBus` implements `EventFeed` under `taken <- accepted`, `lost <- dropped`.

**Realtime.** Replaces the bus's abstract handler by the two of `main.go` and the
hub's free broadcasts by those of the bridge. The lookup of an application
succeeds only while the publishing request's context is live.

**Access.** A request is one run of a use case; its steps are its reads and writes
of the database. `Fail` covers a check that fails, a database error, a crash and a
caller that leaves. A barrier is known only to the device of its handshake, so
`StartBind` needs no argument for it. Accounts are named by the exact spelling
of their address. `tokens` keeps every token ever signed. No use case changes or
deletes an account, so `Inactive` is a constant.

**KafkaBus.** `log` and `committed` are the broker's and survive; everything else
is the process's. `position` is the reader's own place, which runs ahead of the
committed offset; `inHand` is the message a topic's goroutine is busy with, the
handlers it has left and whether all succeeded so far. `MayCommit` is the call whose
error is only logged. `Publish` may leave a message twice, since the writer tries
again after a lost acknowledgement. `order` is how the program boots: `main.go`
starts the bus first; the other order is the one its comment describes. A reader
belongs to a group, so it may have to begin anew behind the committed offset at any time
(`Rebalance`: another reader joined, left, or was not heard of), while its goroutine goes
on with the message in hand; that message's commit may then fail, or come after that of a
lower offset and the reverse, so the group's offset may also go back. `settled` is a
history of what the reader may not give out again: what the offset had passed when the
reader last began, and what it has given out since. The partitions stay with this one
process: what other members of the group do with theirs is not modelled.

**Requests** and the modules over it. A request is one goroutine: `at` says between
which two calls of a database, of Redis or of an upstream it is, `local` what it
remembers, `answer` what it answered. Every module adds steps that move a request
from one point to the next, so requests interleave between any two calls. `work` is
what was asked for, with a flag `faulty` under which any call of it may fail. Text,
paths and payloads are model values.

**Rbac.** `HasPermission` is three steps (cache, tables, fill), so an assignment and
its invalidation can fall between them. **Tenants**, **Endpoints**: one step per
statement; `WorkspaceSlugFree` and its kin are the UNIQUE constraints of the
migrations. Whole-row updates write what was read. **RateLimits**: `INCR` and
`EXPIRE` are two steps; `passed` is a history of who was let through. **Gateway**:
`Enforce`, `ApplyPolicy`, the check of `Rbac`, the counter, `Intercept` and a
backend, in the order of `Pipeline.Enforce`; one table stands for those of the
generic handler. The handler sets id, organization and app itself and leaves these keys of
the body out if they are spelled as it spells them; the database compares names in any
case. `Respelled` are the columns a body names in another spelling: an insert then names
a column twice and is refused, an update writes it (`Rewritten`), unless the table refuses
the value.

**Places.** A row has an author (mock, Google) and is fresh or not; a search row
holds ids, as in the table, so it is read through the rows of places. `Attempt` is
the retry loop of `doGoogleRequest`. `RestartWithKey` changes the provider and keeps
the tables. **Routes**: `ComputeRoutes` is any answer of the Routes API to the points
asked for; what the client does with it (best route, order of way points, addresses of
legs, walking where there is no bicycle route, leg by leg in TRANSIT) is translated
step by step. Places lie on a line. **Trips**: the service's four operations, with
`resolve` as a loop of one place at a time and three purposes. **Assistant**: one
step per operation; the model's reply is any of a set (no answer, prose, JSON with
indices out of range and repeated, cards of other cities), cities and hints are found
by tables `CitiesIn`, `Mentions` and `Hints`. **Phone**: a phone has one request at a
time, whose `work` is replaced by the next call; `phone` is its screen.

## 3. Runs

All bounds are constants of the configurations.

| Run | Instance | Shows |
|---|---|---|
| `hub` | 2 connections, 2 applications of 1 organization, 2 channels, capacity 1, buffer 2, 2 broadcasts, 1 command each | safety of the hub with `Hub.Close` at any time |
| `hub_live` | 2 connections of 1 application, capacity 1, buffer 1, 1 broadcast, 1 command each, fairness | released connections, closed channels end in closed connections |
| `hub_panic` | 2 connections of 1 application, capacity 2, 1 broadcast | **violation**: a broadcast panics after a client left |
| `bus` | 3 requests, 2 topics with 2 and 1 handlers, buffer 1, fairness | the bus implements the feed; shutdown drains, and ends unless a request keeps a connection |
| `realtime` | 2 requests (organization and endpoint event), 1 connection, 2 applications | tenant isolation, order and multiplicity end to end |
| `realtime_endpoint` | the same, the database never fails | **violation**: an endpoint event is not broadcast |
| `access` | 3 requests, 2 handshakes, 1 link, 4 addresses (two spellings of one, one of an inactive account), clock 0..2 | uniqueness of sessions, accounts, sign-ins |
| `kafka` | 1 topic of 1 partition with 3 messages, 2 handlers, 1 restart, 2 rebalances, both boot orders, fairness | what commits mean across failures, rebalances and crashes; what is not handled again; Close; progress |
| `kafka_start` | 2 partitions with 2 messages each, 2 handlers, 1 restart, 1 rebalance, booting as `main.go` does | **violation**: subscribers are never served |
| `platform` | 24 groups of 3 requests over 2 organizations, with and without Redis, 1 window that ends, LLM limit 2, fairness | permissions, limits, slugs, tenants, the permission cache |
| `planning` | 33 groups of 2 requests: clients, MCP tools, phones; 3 places and 3 fixtures, 4 attempts, 1 stale row at a time, 1 restart | grounding, order of stops and legs, the assistant |
| `access_address` | the same as `access` | **violation**: the link of a mixed-case account is refused |

Why the bounds are enough. *hub*: a place for one of two connections makes one
refused and one follow the other; a buffer of two is full after a welcome and an
event, or holds two broadcasts that could be out of order; one command is a subscription that outlives its
client. *bus*: with three requests one event is in hand, one queued and one
refused. *access*: two requests race for a row and a third one failed or came
before; lifetimes of one tick on a clock of two can end between any two steps.
Requests and handshakes of `Access` are interchangeable, which its symmetry set
uses. *realtime* has one connection: what one client sees does not depend on
others, except through the panic `hub_panic` shows. *kafka*: three messages in
a partition let a commit skip one and the offset go back over another, one crash restarts
from a committed offset with and without messages behind it, one rebalance takes the
reader back from under a message in hand and a second one does so after the group's offset
has gone back; two handlers can disagree. Partitions of a topic share nothing but the one
hand of its goroutine, so the run has one of them; the theorems are about any number.
*platform*: three requests are the two that race and one that sees the result or
failed; each group names the race it is there for, since the full product of
operations adds only independent ones. *planning*: three places are the least with a
point in between to reorder; two requests share the cache; `MaxAttempts` is the
code's own, `MaxTurns` is 4 where the code has 16, with threads long enough to be cut.
The groups are the constants `MCWorkloads`.

Fairness. `Hub`: weak fairness of each connection's welcome, reader steps after a
command or an error, and writer, because the Go runtime schedules runnable
goroutines; none of the peer. `EventBus`: weak fairness of the dispatch goroutine
and of run(), whose timer expires; nothing of requests, which may hang for ever, so
`ShutdownCompletes` allows one that keeps its connection after a shutdown that was
not graceful.
`KafkaBus`: weak fairness of each loop and of Close, since handlers return; none of
publishers, restarts, rebalances or boot: a group that rebalances for ever reads nothing, so
that there are finitely many of them (`MaxRebalances`) is assumed. `Platform`: weak fairness of every request's goroutine
and of the end of each cached entry's time to live (Redis removes it); none of the
windows of counters or of the switch. `Planning` states no liveness.
Deadlock checking is off where a system may stop: connections are gone, the
process has ended, or the bounds are used up.

### What the violations mean

* `hub_panic`: `readPump` removes the session's own client object, whose `rooms`
  map is empty, so the id leaves `h.clients` but the hub's object stays in
  `h.rooms`; the unregister after it finds nothing to do. The next broadcast to
  that room sends on a closed channel and panics the dispatch goroutine, which
  has no recover. `PanicOnlyFromStaleMember` shows it is the only way: refusing
  at capacity and `Hub.Close` cannot do it.
* `realtime_endpoint`: endpoint events carry no organization, so the bridge looks
  the application up with the context of a request that may be over.
* `access_address`: links store the lower-case address, accounts the address as
  typed, and the comparison is exact.

* `kafka_start`: `initEventBus` starts the bus and `buildDependencies`, called
  later, subscribes. `Consumer.Start` makes readers for the topics it knows, which
  are none, and nothing starts it again: with Kafka enabled, the log handlers and the
  bridge get no event. `EveryMessageIsTried`, which is about topics that are read,
  holds in both orders.

### What the properties do not say

* `CommitsFollowHandling` is weaker than at-least-once delivery: a failed message is
  skipped for good by the commit after it, until a restart or a rebalance finds an older
  offset.
* `SettledIsNotHandledAgain` is about one run of a reader: the same message may be handled
  again after every rebalance and restart, as at-least-once delivery allows, even one that
  has been committed meanwhile if a later commit took the offset back.
* `ShutdownCompletes` says nothing of a process whose request hangs with a connection:
  `db.Close` waits for it without a deadline.
* `LimitIsPerWindow`: the limiter's key is the remote address with its port, so a
  client has as many windows as connections; `rate_limit.go:87` calls it the client's IP.
* `AssignmentTakesEffect` is eventual: a stale entry denies for a TTL at most. Since
  nothing takes a role away, stale entries cannot admit anyone (`AccessIsGranted`).
* `PlansFollowTheirRoute` leaves out the addresses of legs of a route with a starting
  point, where `google_routes.go:348` and `:368` take them from shifted positions.
* `PlansAreGrounded`: a fixture a server without a key wrote still passes
  `ensureGrounded` after a restart with one, while its row is fresh; its details are
  then the client's.
* `TenantsAreKeptApart` says of a record that is changed only that it was the
  organization's before: an update whose body names the columns of the tenant in another
  spelling (`dynamic_handler.go:460`) leaves the record where the body puts it. Keys of a
  body that are no names at all change the statement itself and are not modelled.
* `TenantsAreKeptApart` is about rows written and about lists of workspaces and records;
  an app, a key or an endpoint is read and changed by its id alone, with the permission
  checked in the token's organization.
* `TenantIsolation`: the instance of `realtime` has one organization of two applications;
  that events do not cross organizations rests on the theorem `TenantsAreIsolated`.
* Conversations: the fallback card compares the city with the previous card only
  (`service.go:763`), so it may say the city has changed where it has not.

## 4. Proofs

`HubProofs`, for every number of connections, applications, rooms and every
capacity and buffer, from `HubAssumption` alone. The safety properties are not
inductive: that no channel is closed twice needs to know which of the two client
objects has closed it and that a connection that has not connected has nothing
anywhere. The invariant is

    HubIInv == TypeOK /\ Fresh /\ Untouched /\ NoDoubleClose /\ RegisteredIsOpen /\ MembershipAgrees

where `Fresh` says that a connection whose handler is idle is in no client set,
room or channel, and `Untouched` that a registered client has no closed object.
`NextHubIInv` has one step per action; `Frame` covers the actions that leave the
hub's state alone. `CapacityRespected` and `PanicOnlyFromStaleMember` follow from
it step by step; `EventsInOrder` has an induction of its own (`AllOrdered`), since
queues are ordered below the broadcast counter.

`EventBusProofs`, for every number of requests, topics and handlers and every
capacity, without an assumption. The invariant is

    BusIInv == BusTypeOK /\ Accounted /\ Published /\ Shutdown /\ OnlyForcedShutdownFailsRequests

`Accounted` is `Conservation` element by element, the form in which a step can be
compared with the state before; `Published` says that a request that has not
published has no event anywhere, without which an event could be taken twice;
`Shutdown` says what each stage of run() excludes, down to the pool being closed only
behind a dispatcher that is done, which `ExitDrains` needs.
`QuietStep` lists the actions that touch neither channel, dispatcher nor history.
`BusRefinesFeed` is the refinement without its fairness: the bus starts as the
feed does, and a step of it is a `Take`, `Lose` or `HandleNext` or leaves the feed
alone.

`AccessProofs`, for every number of requests, handshakes, links and addresses and
all lifetimes, from `AccessAssumption` and `NoRowAssumption` (the marker of a
missing row is not a row). The invariant is

    IInv == AccessTypeOK /\ Locals /\ Sessions /\ LinkTokens /\ SignIns /\ Accounts

The code reads a row, checks it and updates it in separate statements, and signs
the token after the update. So the properties about tokens depend on who is in
between: `Sessions` says that a handshake once bound belongs to the one request
about to sign for it, then to that one token, and `LinkTokens` the same of a spent
link. `Locals` says what a request holds at each step, `SignIns` that whoever binds
has a user token, `Accounts` that registration adds one account per address.
`BindingsAreFinal` and `LinksAreSpentOnce` follow step by step.

`RealtimeProofs`, from the assumptions of bus, hub and bridge. A step of the whole is
a step or a stutter of each part (`PartSteps`), so the invariants of the two modules
above hold of the server without another proof (`CompositionImplementsParts`). Two
properties need both parts at once:

    IsolationIInv == PartsOK /\ RoomsOfTenants /\ NumbersTell /\ TenantIsolation
    OrderIInv     == PartsOK /\ AcceptedOnce /\ SentWasReceived /\ SentInOrder
                     /\ HandProgress /\ ThroughIsSent

`RoomsOfTenants`: a room lists clients of its application only, those included that
have left and are still listed (see `hub_panic`). `HandProgress` adds up what the
bridge has broadcast of the event in hand and what is pending, `ThroughIsSent` says
the same of the events behind it; from them the order of broadcasts is that of the bus.

`KafkaBusProofs`, for every number of topics, partitions, handlers, messages,
restarts and rebalances, from `KafkaAssumption`. The invariant is

    IInv == KafkaTypeOK /\ HandsOK /\ PassedIsTried /\ PositionsOK /\ FailedAreEvents
            /\ LifeOK /\ CommitsFollowHandling

A commit names one message and covers all before it, so what it means depends on what
the reader passed on the way there: `PassedIsTried` says that everything up to the
reader's position was tried or is in the hand of the topic's goroutine, and `HandsOK`
that everything before the message in hand was tried. The second is said of the hand and
not of the position, because a rebalance takes the position back to the committed offset
while the hand keeps its message, which may then lie beyond the position, at it or before
it. A restart takes the position back as well, to an offset that `CommitsFollowHandling`
covers. `PositionsOK` says that the reader has passed all that is settled, from which
`SettledIsNotHandledAgain` follows step by step, since a message is only given out
behind the position; `ClosedIsQuiet` follows from `LifeOK`.

`PlatformProofs` and `TenantProofs`, for any requests, users, tables, windows and
limits, from three assumptions. `InputsAssumption`: a request's limit is a number, a
role is assigned in an organization, and the body of a workspace update has neither id
nor organization (its DTO has no such field). `TablesAssumption`: the tables at the
start satisfy the constraints of the migrations. `LLMLimitAssumption`: the limit is
positive. The first part shows once what a step may do to its request: `Path(r)` lists
the moves from every point, and `Moved(r)` says that nobody else's memory or answer
changes. The invariants of the properties then go along these moves:

    AccessIInv == BaseOK /\ CacheOK /\ ... /\ AccessIsGranted
    RowsIInv   == BaseOK /\ TablesOK /\ UniqueOK /\ RowOf, EndpointOf, CreatedOf of each request
    LimitIInv  == RowsIInv /\ CountsOK /\ WindowOK of each counter /\ PolicyOf of each request
    ApartIInv  == RowsIInv /\ AccessIInv /\ RolesOK /\ RecordsOK /\ ApartOf of each request

`CacheOK` says that the permission cache never has more than the roles grant; a read
that another request's assignment overtakes fills it with less, never with more.
`RowOf` says what a request may hold between its check and its insert, when the table
can change: that it is the row to be made, of the token's organization, or one with the
id of a row that exists. That a slug stays unique needs it, because a whole-row update
writes what was read, and so does "created means created". `CountsOK` compares the
history with the counter, `Within` stating "at most n" by a numbering, since `INCR`
and the pass are two steps. `RecordsOK` says that records have an id,
an organization and an app, whatever bodies have written into them: the handler's filter
looks at the row as it is. `ApartOf` follows the organization from the token to the
row and says that a token without one gets to no table, for no role is in no
organization (`RolesOK`).

`PlanningProofs`, for any requests, phones, places, conversations and attempts, from four
assumptions. `PlacesAssumption`: fixtures are no places of Google's and differ, an alias is
the id of no place and names one of Google's, a search answers with some of these, each
once. `WhereAssumption`: every place is somewhere. `AskedAssumption`: the numbers of a
request are numbers, its lists are lists, and a plan the server makes has no starting point
of its own; ids, texts and turns may be anything. `RepliesAssumption`: the same
of the model's answers, as the parser leaves them; picks may lie outside the list, cards
may be about any city. The first invariant is

    PlanIInv == ShapeOK /\ TablesOK /\ ItinerariesOK /\ HandOK, AnswerOK of each request

`HandOK` follows a place from the client or the cache that vouches for it through the
three purposes of `resolve` to the stored stop: while a route is asked for, everything
resolved is known to somebody; while a save is grounded, each stop is either in the list
still to look up or known; and with a key, nothing that is resolved for a route is a
fixture, though the tables (`TablesOK`) may be full of them. Loops over lists (`Keep`,
which selects the ids no row vouches for) are folds. The library's induction theorems
cannot be used here, so `Induction` derives induction over a set of numbers from the
well-foundedness of `<`, `FoldExists` and the lemmas after it give the value of a fold as
a sequence of steps, and `KeepSteps` what `Keep` keeps.

The second invariant is about the assistant and the phones,

    AssistIInv == PlanIInv /\ Asked, Replied, Held of each request

`Replied` says that what was answered fits what was asked (`Fits`), and that only a save
or a plan looks places up in order to store them. The phone needs that: it puts the number
of an intent into its next request, and would compute with anything if a 201 could be the
answer to `ParseIntent`. So every step of the server is shown to be one of four kinds
(`TripMove`: go on, fail, tell, store). `Held` says that the card a phone revises is the one its
last request quoted, and that every card of a thread is in its city, through failures and
retries. `PicksBounded` says of an answer to `PickStops` that it picks two to six different places
of the list, and no more than asked for. `PickedIsBounded` and `FilteredIsBounded` are about the folds over a model's
answer, `CompactKeeps` and `HistoryIsBounded` about any thread of a request, not only
one of the app's.

The third invariant is about the route of a plan,

    FollowIInv == AssistIInv /\ no id twice in a search row /\ Stored of each itinerary
                  /\ Traced, Told, Shown of each request

The order of stops is lost where two lists are put side by side that were reordered at
different places, so `Traced` says at every point how the lists in the hand of the
goroutine belong together: what is resolved is a prefix of what was asked for (`Advance`),
the legs got so far run forwards along the points (`Runs`, for the loop of TRANSIT routes),
and the route answered is a permutation of the ids with legs along it (`Follows`). Each of
the ways to a route is shown to end in `Follows`: the answer that names an order
(`IndexFollows`), the plain one (`PlainFollows`), leg by leg (`RunsFollow`) and the mock's
nearest place next. `Told` and `Shown` carry it to the phone, through its own choice of
stops: a walk to the nearest place next visits each place once (`WalkGoesOn`, by induction
on its length), and so selecting and ordering keep places different (`Selecting`,
`ClusterIsDifferent`). `Stored` ties a row to the route its request answered.

Each of these invariants was checked by TLC on the instance of its run before it was
proved, and the statements above are all of them inductive.

Only model-checked: liveness, which the prover cannot express: `FailedConnIsReleased`,
`ClosedSendDisconnects`, `ShutdownCompletes`, `EveryMessageIsTried`,
`AssignmentTakesEffect` and the fairness half of `ImplementsFeed`.

Every invariant and every other action property of the passing runs is a theorem. No module
declares a RECURSIVE operator.

## 5. Plan

Done: `Hub`, `EventBus` with `EventFeed`, `Realtime`, `Access`, `KafkaBus`, the
platform modules and the planning modules; the proofs of all of them. Next, the most
important first:

1. `Phone`: overlapping events of one planner (a reset or a second plan while one
   runs), with a screen shared by two running handlers.
2. The bridge over Kafka, once its handlers can read what Kafka gives them.

### Not modelled

* Gateway: registered handlers (none is registered), the request transformer and the
  interceptors of responses: `Pipeline.Enforce` returns before its step 9, so
  nothing masks a response.
* The workspace a request names: it is put into the context and read by no one. API
  keys are made, listed and revoked; no request is authenticated by one. Roles and
  role assignments are never removed by a caller of the server.
* LLM routes of a server without a model: they do not exist. The kill switch is
  modelled, the texts of prompts are not.
* Mobile and web: overlapping planner events (see the plan), sign-in screens,
  navigation, storage, the map; the web front end's planner follows the same calls.
* Audit rows (one insert, with the race of `realtime_endpoint`), security scans,
  health, telemetry, configuration, migrations beyond the constraints used.
* Wording of messages, HTTP parsing, SQL text, generated translations, widgets and
  styling: I/O or presentation.
