------------------------------ MODULE EventBus ------------------------------
(***************************************************************************)
(* The in-process event bus, the HTTP requests that publish on it and the  *)
(* shutdown sequence of the server that closes it and the database's pool. *)
(*                                                                         *)
(* A request stands for one use case that writes to the database and then  *)
(* publishes one event with the request's own context (AssignRole,         *)
(* CreateOrg, CreateApp, CreateWorkspace, DefineEndpoint, RetireEndpoint,  *)
(* ActivateEndpoint, Register), so the event carries the request's name.   *)
(***************************************************************************)
EXTENDS Naturals, Sequences

CONSTANTS
    Requests,  \* HTTP requests that publish
    Topics,    \* navgo.iam, navgo.tenant, navgo.api-management (topics.go)
    TopicOf,   \* the topic each request publishes on
    Handlers,  \* topic -> number of handlers subscribed at start-up
    Buffer     \* capacity of the bus's channel (256 in initEventBus)

ASSUME BusAssumption ==
    /\ TopicOf \in [Requests -> Topics]
    /\ Handlers \in [Topics -> Nat]
    /\ Buffer \in Nat \ {0}

VARIABLES
    request,    \* program counter of each request
    live,       \* requests whose context has not been cancelled
    queue,      \* the bus's buffered channel
    busClosed,  \* the channel has been closed
    current,    \* the envelope the dispatch goroutine holds, at most one
    handlersRun, \* handlers already run for it
    dispatcher, \* program counter of the dispatch goroutine
    server,     \* where run() is in the shutdown sequence
    dbClosed,   \* the pool of database connections is closed to new queries
    accepted,   \* history: events put in the channel, in order
    dropped,    \* history: events Publish gave up
    handled     \* history: how many events are through all their handlers

reqVars == <<request, live>>
chVars == <<queue, busClosed>>
dispVars == <<current, handlersRun, dispatcher>>
histVars == <<accepted, dropped, handled>>
serverVars == <<server, dbClosed>>
busVars == <<reqVars, chVars, dispVars, serverVars, histVars>>

InFlight == {"running", "writing", "saved", "published"}

ReqType ==
    /\ request \in [Requests -> {"idle", "returned", "failed"} \cup InFlight]
    /\ live \subseteq Requests

QueueType ==
    /\ queue \in Seq(Requests)
    /\ busClosed \in BOOLEAN
    /\ current \in Seq(Requests) /\ Len(current) <= 1
    /\ handlersRun \in Nat
    /\ dispatcher \in {"running", "done"}

HistType ==
    /\ server \in {"serving", "failed", "draining", "drained", "forced", "exited"}
    /\ dbClosed \in BOOLEAN
    /\ accepted \in Seq(Requests)
    /\ dropped \subseteq Requests
    /\ handled \in Nat

BusTypeOK == ReqType /\ QueueType /\ HistType

BusInit ==
    /\ request = [r \in Requests |-> "idle"]
    /\ live = {}
    /\ queue = <<>>
    /\ busClosed = FALSE
    /\ current = <<>>
    /\ handlersRun = 0
    /\ dispatcher = "running"
    /\ server = "serving"
    /\ dbClosed = FALSE
    /\ accepted = <<>>
    /\ dropped = {}
    /\ handled = 0

Up == server # "exited"

-----------------------------------------------------------------------------
(* Requests.                                                               *)

\* After Serve has failed the connections it accepted are still served.
Begin(r) ==
    /\ server \in {"serving", "failed"}
    /\ request[r] = "idle"
    /\ request' = [request EXCEPT ![r] = "running"]
    /\ live' = live \cup {r}
    /\ UNCHANGED <<chVars, dispVars, serverVars, histVars>>

\* The use case's write takes a connection of the pool, if that is still open.
Acquire(r) ==
    /\ Up
    /\ request[r] = "running"
    /\ r \in live
    /\ ~dbClosed
    /\ request' = [request EXCEPT ![r] = "writing"]
    /\ UNCHANGED <<live, chVars, dispVars, serverVars, histVars>>

\* The write is committed, and its connection goes back to the pool.
Save(r) ==
    /\ Up
    /\ request[r] = "writing"
    /\ r \in live
    /\ request' = [request EXCEPT ![r] = "saved"]
    /\ UNCHANGED <<live, chVars, dispVars, serverVars, histVars>>

\* Validation or the write fails: the use case returns without publishing.
SaveFails(r) ==
    /\ Up
    /\ request[r] \in {"running", "writing"}
    /\ request' = [request EXCEPT ![r] = "returned"]
    /\ live' = live \ {r}
    /\ UNCHANGED <<chVars, dispVars, serverVars, histVars>>

\* Publish never blocks: a full channel drops the event.  A send on the closed
\* channel panics; the Recoverer middleware answers 500 in the request's name.
Publish(r) ==
    /\ Up
    /\ request[r] = "saved"
    /\ \/ /\ busClosed
          /\ request' = [request EXCEPT ![r] = "failed"]
          /\ live' = live \ {r}
          /\ dropped' = dropped \cup {r}
          /\ UNCHANGED <<queue, accepted>>
       \/ /\ ~busClosed
          /\ Len(queue) < Buffer
          /\ request' = [request EXCEPT ![r] = "published"]
          /\ queue' = Append(queue, r)
          /\ accepted' = Append(accepted, r)
          /\ UNCHANGED <<live, dropped>>
       \/ /\ ~busClosed
          /\ Len(queue) >= Buffer
          /\ request' = [request EXCEPT ![r] = "published"]
          /\ dropped' = dropped \cup {r}
          /\ UNCHANGED <<live, queue, accepted>>
    /\ UNCHANGED <<busClosed, dispVars, serverVars, handled>>

\* ServeHTTP returns and net/http cancels the request's context.
Return(r) ==
    /\ Up
    /\ request[r] = "published"
    /\ request' = [request EXCEPT ![r] = "returned"]
    /\ live' = live \ {r}
    /\ UNCHANGED <<chVars, dispVars, serverVars, histVars>>

\* The caller goes away while its request is being served.
Abandon(r) ==
    /\ Up
    /\ request[r] \in InFlight
    /\ r \in live
    /\ live' = live \ {r}
    /\ UNCHANGED <<request, chVars, dispVars, serverVars, histVars>>

-----------------------------------------------------------------------------
(* The dispatch goroutine.                                                 *)

\* Mutant of Receive: the next envelope is taken before the handlers are done.
ReceiveAhead ==
    /\ Up
    /\ dispatcher = "running"
    /\ queue # <<>>
    /\ current' = Append(current, Head(queue))
    /\ queue' = Tail(queue)
    /\ handlersRun' = 0
    /\ UNCHANGED <<reqVars, busClosed, dispatcher, serverVars, histVars>>

\* for env := range b.ch
Receive ==
    /\ Up
    /\ dispatcher = "running"
    /\ current = <<>>
    /\ queue # <<>>
    /\ current' = <<Head(queue)>>
    /\ queue' = Tail(queue)
    /\ handlersRun' = 0
    /\ UNCHANGED <<reqVars, busClosed, dispatcher, serverVars, histVars>>

Handling ==
    /\ Up
    /\ current # <<>>

HandlersLeft == handlersRun < Handlers[TopicOf[current[1]]]

\* One handler returns; its error, if any, is only logged.
RunHandler ==
    /\ Handling
    /\ HandlersLeft
    /\ handlersRun' = handlersRun + 1
    /\ UNCHANGED <<reqVars, chVars, current, dispatcher, serverVars, histVars>>

\* Mutant of FinishEvent: the envelope stays in hand and is finished again.
FinishEventAgain ==
    /\ Handling
    /\ ~HandlersLeft
    /\ handled' = handled + 1
    /\ UNCHANGED <<reqVars, chVars, dispVars, serverVars, accepted, dropped>>

\* All handlers of the topic have run for the envelope.
FinishEvent ==
    /\ Handling
    /\ ~HandlersLeft
    /\ current' = <<>>
    /\ handled' = handled + 1
    /\ UNCHANGED <<reqVars, chVars, handlersRun, dispatcher, serverVars, accepted, dropped>>

\* Mutant of DispatcherStops: the loop ends on the close, whatever is queued.
DispatcherStopsEarly ==
    /\ Up
    /\ dispatcher = "running"
    /\ current = <<>>
    /\ busClosed
    /\ dispatcher' = "done"
    /\ UNCHANGED <<reqVars, chVars, current, handlersRun, serverVars, histVars>>

\* The channel is closed and drained: close(b.done).
DispatcherStops ==
    /\ Up
    /\ dispatcher = "running"
    /\ current = <<>>
    /\ queue = <<>>
    /\ busClosed
    /\ dispatcher' = "done"
    /\ UNCHANGED <<reqVars, chVars, current, handlersRun, serverVars, histVars>>

-----------------------------------------------------------------------------
(* run(): waiting for a signal, srv.Shutdown, the deferred eventBus.Close.  *)

Signal ==
    /\ server = "serving"
    /\ server' = "draining"
    /\ UNCHANGED <<dbClosed, reqVars, chVars, dispVars, histVars>>

\* ListenAndServe returns an error: run returns at once and cancels nothing.
ServeFails ==
    /\ server = "serving"
    /\ server' = "failed"
    /\ UNCHANGED <<dbClosed, reqVars, chVars, dispVars, histVars>>

\* Mutant of Drained: run does not wait for the requests being served.
DrainedEarly ==
    /\ server = "draining"
    /\ server' = "drained"
    /\ UNCHANGED <<dbClosed, reqVars, chVars, dispVars, histVars>>

\* Shutdown returns once no request is being served.
Drained ==
    /\ server = "draining"
    /\ \A r \in Requests : request[r] \notin InFlight
    /\ server' = "drained"
    /\ UNCHANGED <<dbClosed, reqVars, chVars, dispVars, histVars>>

\* The 30 s of Shutdown are over: srv.Close cancels the contexts of the requests,
\* and run returns while their handlers are still running.
ShutdownTimesOut ==
    /\ server = "draining"
    /\ \E r \in Requests : request[r] \in InFlight
    /\ server' = "forced"
    /\ live' = {}
    /\ UNCHANGED <<dbClosed, request, chVars, dispVars, histVars>>

Closing == server \in {"drained", "forced", "failed"}

\* Mutant of CloseBus: what is queued is thrown away.
CloseBusDiscards ==
    /\ Closing
    /\ ~busClosed
    /\ busClosed' = TRUE
    /\ queue' = <<>>
    /\ UNCHANGED <<reqVars, dispVars, serverVars, histVars>>

\* Mutant of CloseBus: the bus is closed after a graceful shutdown only.
CloseBusGracefulOnly ==
    /\ server = "drained"
    /\ ~busClosed
    /\ busClosed' = TRUE
    /\ UNCHANGED <<reqVars, queue, dispVars, serverVars, histVars>>

\* eventBus.Close, first half: close(b.ch).
CloseBus ==
    /\ Closing
    /\ ~busClosed
    /\ busClosed' = TRUE
    /\ UNCHANGED <<reqVars, queue, dispVars, serverVars, histVars>>

\* eventBus.Close, second half: <-b.done.  The deferred closes of Redis and of the
\* database follow: the pool gives out no connection any more.
ClosePool ==
    /\ Closing
    /\ busClosed
    /\ dispatcher = "done"
    /\ ~dbClosed
    /\ dbClosed' = TRUE
    /\ UNCHANGED <<reqVars, chVars, dispVars, server, histVars>>

\* db.Close waits for the connections that are in use; then the process ends.
Exit ==
    /\ Closing
    /\ dbClosed
    /\ \A r \in Requests : request[r] # "writing"
    /\ server' = "exited"
    /\ UNCHANGED <<dbClosed, reqVars, chVars, dispVars, histVars>>

-----------------------------------------------------------------------------

RequestStep(r) == Acquire(r) \/ Save(r) \/ SaveFails(r) \/ Publish(r) \/ Return(r)

DispatchStep == Receive \/ RunHandler \/ FinishEvent \/ DispatcherStops

ShutdownStep == Drained \/ ShutdownTimesOut \/ CloseBus \/ ClosePool \/ Exit

BusNext ==
    \/ \E r \in Requests : Begin(r) \/ RequestStep(r) \/ Abandon(r)
    \/ DispatchStep
    \/ Signal \/ ServeFails \/ ShutdownStep

\* The runtime schedules the dispatch goroutine and run(), and the timer of
\* Shutdown expires.  Nothing is assumed of requests: they may hang for ever.
BusFairness == WF_busVars(DispatchStep) /\ WF_busVars(ShutdownStep)

BusSpec == BusInit /\ [][BusNext]_busVars /\ BusFairness

-----------------------------------------------------------------------------
(* Properties.                                                             *)

\* The bus implements the abstract feed: in order, at most once, nothing but
\* accepted events, and every accepted event is handled in the end.
Feed == INSTANCE EventFeed WITH
            Events <- Requests, taken <- accepted, lost <- dropped, handled <- handled

ImplementsFeed == Feed!FeedSpec

\* The channel, the envelope in hand and what is done account for every accepted
\* event: none is skipped or handled twice across a full channel or the close.
Conservation == accepted = SubSeq(accepted, 1, handled) \o current \o queue

\* A process that ends through Close has handled everything that was accepted,
\* even when the shutdown was forced while requests were still publishing.
ExitDrains == server = "exited" => handled = Len(accepted)

\* Publishing fails a request ("Fire-and-forget" otherwise, bus.go:47) only when
\* run() gave up on requests: a graceful shutdown closes the bus after the last one.
OnlyForcedShutdownFailsRequests ==
    (\E r \in Requests : request[r] = "failed") => server \in {"forced", "failed", "exited"}

\* Once it has stopped serving, the process ends whatever its requests do, unless
\* one of them keeps a connection of the database for ever (main.go:106), which no
\* request can do that a graceful shutdown has waited for.
ShutdownCompletes ==
    server # "serving" ~>
        \/ server = "exited"
        \/ server # "drained" /\ \E r \in Requests : [](request[r] = "writing")
=============================================================================
