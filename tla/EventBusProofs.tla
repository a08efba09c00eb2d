--------------------------- MODULE EventBusProofs ---------------------------
(***************************************************************************)
(* The in-process bus for every number of requests, topics and handlers    *)
(* and every capacity: it accounts for each accepted event, drains before  *)
(* the process ends, and every step of it is a step of the abstract feed.  *)
(***************************************************************************)
EXTENDS EventBus, SequenceTheorems, TLAPS

(* Conservation, element by element, in a form a step can be compared in.  *)
Accounted ==
    /\ Len(accepted) = handled + Len(current) + Len(queue)
    /\ \A i \in 1..Len(current) : accepted[handled + i] = current[i]
    /\ \A i \in 1..Len(queue) : accepted[handled + Len(current) + i] = queue[i]

(* An event is accepted or dropped only by the Publish of its request.     *)
Published ==
    \A r \in Requests : request[r] \in {"idle", "running", "writing", "saved"} =>
        r \notin dropped /\ \A i \in 1..Len(accepted) : accepted[i] # r

(* How far run() is bounds what the bus and the requests can be doing.     *)
Shutdown ==
    /\ dispatcher = "done" => busClosed /\ queue = <<>> /\ current = <<>>
    /\ dbClosed => dispatcher = "done"
    /\ server = "exited" => dbClosed
    /\ busClosed => server \notin {"serving", "draining"}
    /\ server = "drained" => \A r \in Requests : request[r] \notin InFlight

BusIInv ==
    /\ BusTypeOK
    /\ Accounted
    /\ Published
    /\ Shutdown
    /\ OnlyForcedShutdownFailsRequests

(* The dispatch goroutine holds one envelope at a time.                    *)
LEMMA OneInHand ==
    ASSUME current \in Seq(Requests), Len(current) <= 1, current # <<>>
    PROVE  Len(current) = 1
  <1> DEFINE n == Len(current)
  <1>1. n \in Nat \ {0} /\ n <= 1
    BY EmptySeq
  <1> HIDE DEF n
  <1>2. n = 1
    BY <1>1
  <1>3. QED
    BY <1>2 DEF n

LEMMA InitBusIInv == BusInit => BusIInv
  <1> SUFFICES ASSUME BusInit PROVE BusIInv
    OBVIOUS
  <1>1. BusTypeOK
    <2>1. ReqType
      BY DEF BusInit, ReqType
    <2>2. QueueType
      <3>1. <<>> \in Seq(Requests) /\ Len(<<>>) = 0
        BY EmptySeq
      <3>2. queue = <<>> /\ current = <<>> /\ Len(current) <= 1
        BY <3>1 DEF BusInit
      <3>3. handlersRun \in Nat /\ busClosed \in BOOLEAN /\ dispatcher \in {"running", "done"}
        BY DEF BusInit
      <3>4. QED
        BY <3>1, <3>2, <3>3 DEF QueueType
    <2>3. HistType
      <3>1. <<>> \in Seq(Requests) /\ accepted = <<>>
        BY EmptySeq DEF BusInit
      <3>2. dbClosed \in BOOLEAN
        BY DEF BusInit
      <3>3. QED
        BY <3>1, <3>2 DEF BusInit, HistType
    <2>4. QED
      BY <2>1, <2>2, <2>3 DEF BusTypeOK
  <1>2. Accounted /\ Published /\ Shutdown
    BY DEF BusInit, Accounted, Published, Shutdown
  <1>3. OnlyForcedShutdownFailsRequests
    BY DEF BusInit, OnlyForcedShutdownFailsRequests
  <1>4. QED
    BY <1>1, <1>2, <1>3 DEF BusIInv

(* The actions that leave the channel, the dispatcher and the history alone *)
(* change only a request, its context, or the server's progress.           *)
Quiet == UNCHANGED <<chVars, dispVars, histVars>>

LEMMA QuietStep ==
    ASSUME BusNext
    PROVE  \/ Quiet
           \/ \E r \in Requests : Publish(r)
           \/ Receive \/ RunHandler \/ FinishEvent \/ DispatcherStops \/ CloseBus
  BY DEF BusNext, RequestStep, DispatchStep, ShutdownStep, Begin, Acquire, Save, SaveFails, Return,
         Abandon, Signal, ServeFails, Drained, ShutdownTimesOut, ClosePool, Exit, Quiet

(* Types.                                                                  *)
LEMMA NextBusTypeOK == BusIInv /\ [BusNext]_busVars => BusTypeOK'
  <1> SUFFICES ASSUME BusIInv, [BusNext]_busVars PROVE BusTypeOK'
    OBVIOUS
  <1> USE DEF BusTypeOK, ReqType, QueueType, HistType, reqVars, chVars, dispVars, serverVars, histVars
  <1>0. BusTypeOK
    BY DEF BusIInv
  <1>1. ASSUME NEW r \in Requests,
               Begin(r) \/ Acquire(r) \/ Save(r) \/ SaveFails(r) \/ Return(r) \/ Abandon(r)
        PROVE  BusTypeOK'
    BY <1>0, <1>1 DEF Begin, Acquire, Save, SaveFails, Return, Abandon, InFlight
  <1>2. ASSUME NEW r \in Requests, Publish(r) PROVE BusTypeOK'
    <2>1. ReqType'
      BY <1>0, <1>2 DEF Publish, InFlight
    <2>2. QueueType'
      <3>1. queue' = queue \/ queue' = Append(queue, r)
        BY <1>2 DEF Publish
      <3>2. queue' \in Seq(Requests)
        <4>1. queue \in Seq(Requests)
          BY <1>0
        <4>2. QED
          BY <3>1, <4>1, AppendProperties
      <3>3. QED
        BY <1>0, <1>2, <3>2 DEF Publish
    <2>3. HistType'
      <3>1. accepted' = accepted \/ accepted' = Append(accepted, r)
        BY <1>2 DEF Publish
      <3>2. accepted' \in Seq(Requests)
        <4>1. accepted \in Seq(Requests)
          BY <1>0
        <4>2. QED
          BY <3>1, <4>1, AppendProperties
      <3>3. dbClosed' \in BOOLEAN
        BY <1>0, <1>2 DEF Publish
      <3>4. QED
        BY <1>0, <1>2, <3>2, <3>3 DEF Publish
    <2>4. QED
      BY <2>1, <2>2, <2>3
  <1>3. CASE Receive
    BY <1>0, <1>3 DEF Receive
  <1>4. CASE RunHandler
    BY <1>0, <1>4 DEF RunHandler
  <1>5. CASE FinishEvent
    BY <1>0, <1>5 DEF FinishEvent
  <1>6. CASE DispatcherStops
    BY <1>0, <1>6 DEF DispatcherStops
  <1>7. CASE Signal \/ ServeFails \/ Drained \/ ShutdownTimesOut \/ ClosePool \/ Exit
    BY <1>0, <1>7 DEF Signal, ServeFails, Drained, ShutdownTimesOut, ClosePool, Exit
  <1>8. CASE CloseBus
    BY <1>0, <1>8 DEF CloseBus
  <1>9. CASE UNCHANGED busVars
    BY <1>0, <1>9 DEF busVars
  <1>10. QED
    BY <1>1, <1>2, <1>3, <1>4, <1>5, <1>6, <1>7, <1>8, <1>9
       DEF BusNext, RequestStep, DispatchStep, ShutdownStep

(* Nothing is lost between the channel, the dispatcher's hand and handled. *)
LEMMA NextAccounted == BusIInv /\ [BusNext]_busVars => Accounted'
  <1> SUFFICES ASSUME BusIInv, [BusNext]_busVars PROVE Accounted'
    OBVIOUS
  <1>0. /\ Accounted
        /\ queue \in Seq(Requests) /\ accepted \in Seq(Requests) /\ handled \in Nat
        /\ current \in Seq(Requests) /\ Len(current) <= 1
    BY DEF BusIInv, BusTypeOK, QueueType, HistType
  <1>1. CASE UNCHANGED <<queue, current, accepted, handled>>
    BY <1>0, <1>1 DEF Accounted
  <1>2. ASSUME NEW r \in Requests, queue' = Append(queue, r), accepted' = Append(accepted, r),
               UNCHANGED <<current, handled>>
        PROVE  Accounted'
    <2>1. Len(queue') = Len(queue) + 1 /\ Len(accepted') = Len(accepted) + 1
      BY <1>0, <1>2
    <2>2. \A i \in 1..Len(queue') : queue'[i] = IF i = Len(queue) + 1 THEN r ELSE queue[i]
      BY <1>0, <1>2
    <2>3. \A i \in 1..Len(accepted') : accepted'[i] = IF i = Len(accepted) + 1 THEN r ELSE accepted[i]
      BY <1>0, <1>2
    <2>4. Len(queue) \in Nat /\ Len(current) \in Nat /\ Len(accepted) \in Nat
      BY <1>0
    <2>5. Len(accepted') = handled' + Len(current') + Len(queue')
      BY <1>0, <1>2, <2>1, <2>4 DEF Accounted
    <2>6. \A i \in 1..Len(current') : accepted'[handled' + i] = current'[i]
      <3> SUFFICES ASSUME NEW i \in 1..Len(current) PROVE accepted'[handled + i] = current[i]
        BY <1>2
      <3>1. handled + i \in 1..Len(accepted)
        BY <1>0, <2>4 DEF Accounted
      <3>2. accepted'[handled + i] = accepted[handled + i]
        BY <2>1, <2>3, <2>4, <3>1
      <3>3. QED
        BY <1>0, <3>2 DEF Accounted
    <2>7. \A i \in 1..Len(queue') : accepted'[handled' + Len(current') + i] = queue'[i]
      <3> SUFFICES ASSUME NEW i \in 1..(Len(queue) + 1)
                   PROVE  accepted'[handled + Len(current) + i] = queue'[i]
        BY <1>2, <2>1
      <3> DEFINE k == handled + Len(current) + i
      <3>1. k \in 1..(Len(accepted) + 1) /\ (k = Len(accepted) + 1 <=> i = Len(queue) + 1)
        BY <1>0, <2>4 DEF Accounted
      <3>2. CASE i = Len(queue) + 1
        BY <2>1, <2>2, <2>3, <2>4, <3>1, <3>2
      <3>3. CASE i # Len(queue) + 1
        <4>1. i \in 1..Len(queue)
          BY <2>4, <3>3
        <4>2. queue'[i] = queue[i] /\ accepted[k] = queue[i]
          BY <1>0, <2>1, <2>2, <3>3, <4>1 DEF Accounted
        <4>3. accepted'[k] = accepted[k]
          BY <2>1, <2>3, <3>1, <3>3
        <4>4. QED
          BY <4>2, <4>3
      <3>4. QED
        BY <3>2, <3>3
    <2>8. QED
      BY <2>5, <2>6, <2>7 DEF Accounted
  <1>3. CASE Receive
    <2>1. /\ current = <<>> /\ queue # <<>>
          /\ current' = <<Head(queue)>> /\ queue' = Tail(queue)
          /\ UNCHANGED <<accepted, handled>>
      BY <1>3 DEF Receive, histVars
    <2>2. /\ Len(current) = 0 /\ Len(current') = 1 /\ current'[1] = queue[1]
          /\ Len(queue) \in Nat /\ Len(queue) > 0 /\ Len(queue') = Len(queue) - 1
          /\ \A i \in 1..Len(queue') : queue'[i] = queue[i + 1]
      BY <1>0, <2>1
    <2>3. /\ Len(accepted) = handled + Len(queue)
          /\ \A i \in 1..Len(queue) : accepted[handled + i] = queue[i]
      BY <1>0, <2>2 DEF Accounted
    <2>4. \A i \in 1..Len(current') : accepted[handled + i] = current'[i]
      <3>1. 1 \in 1..Len(queue)
        BY <2>2
      <3>2. accepted[handled + 1] = queue[1]
        BY <2>3, <3>1
      <3>3. QED
        BY <2>2, <3>2
    <2>5. \A i \in 1..Len(queue') : accepted[handled + Len(current') + i] = queue'[i]
      <3> SUFFICES ASSUME NEW i \in 1..Len(queue')
                   PROVE  accepted[handled + Len(current') + i] = queue'[i]
        OBVIOUS
      <3>1. i + 1 \in 1..Len(queue) /\ queue'[i] = queue[i + 1]
        BY <2>2
      <3>2. accepted[handled + (i + 1)] = queue[i + 1]
        BY <2>3, <3>1
      <3>3. handled + Len(current') + i = handled + (i + 1)
        BY <1>0, <2>2
      <3>4. QED
        BY <3>1, <3>2, <3>3
    <2>6. Len(accepted) = handled + Len(current') + Len(queue')
      BY <1>0, <2>2, <2>3
    <2>7. accepted' = accepted /\ handled' = handled
      BY <2>1
    <2>8. QED
      BY <2>4, <2>5, <2>6, <2>7 DEF Accounted
  <1>4. CASE FinishEvent
    <2>1. /\ current # <<>> /\ current' = <<>> /\ handled' = handled + 1
          /\ UNCHANGED <<queue, accepted>>
      BY <1>4 DEF FinishEvent, Handling, chVars
    <2>2. Len(current) = 1 /\ Len(current') = 0 /\ Len(queue) \in Nat
      BY <1>0, <2>1, OneInHand, EmptySeq
    <2>3. QED
      BY <1>0, <2>1, <2>2 DEF Accounted
  <1>5. ASSUME NEW r \in Requests, Publish(r) PROVE Accounted'
    BY <1>1, <1>2, <1>5 DEF Publish, dispVars
  <1>6. CASE Quiet \/ RunHandler \/ DispatcherStops \/ CloseBus \/ UNCHANGED busVars
    BY <1>1, <1>6 DEF Quiet, RunHandler, DispatcherStops, CloseBus, busVars, chVars, dispVars, serverVars, histVars
  <1>7. QED
    BY <1>3, <1>4, <1>5, <1>6, QuietStep

(* A request that has not published has no event anywhere.                 *)
LEMMA NextPublished == BusIInv /\ [BusNext]_busVars => Published'
  <1> SUFFICES ASSUME BusIInv, [BusNext]_busVars PROVE Published'
    OBVIOUS
  <1>0. /\ Published
        /\ accepted \in Seq(Requests)
        /\ request \in [Requests -> {"idle", "returned", "failed"} \cup InFlight]
    BY DEF BusIInv, BusTypeOK, ReqType, HistType
  <1> USE DEF reqVars, serverVars, histVars
  <1>1. ASSUME UNCHANGED <<accepted, dropped>>,
               \A r \in Requests : request'[r] \in {"idle", "running", "writing", "saved"}
                                    => request[r] \in {"idle", "running", "writing", "saved"}
        PROVE  Published'
    BY <1>0, <1>1 DEF Published
  <1>2. ASSUME NEW r \in Requests,
               Begin(r) \/ Acquire(r) \/ Save(r) \/ SaveFails(r) \/ Return(r) \/ Abandon(r)
        PROVE  Published'
    BY <1>0, <1>1, <1>2 DEF Begin, Acquire, Save, SaveFails, Return, Abandon
  <1>3. ASSUME NEW r \in Requests, Publish(r) PROVE Published'
    <2>1. \/ /\ UNCHANGED accepted /\ dropped' = dropped \cup {r}
          \/ /\ accepted' = Append(accepted, r) /\ UNCHANGED dropped
      BY <1>3 DEF Publish
    <2>2. request' = [request EXCEPT ![r] = "failed"] \/ request' = [request EXCEPT ![r] = "published"]
      BY <1>3 DEF Publish
    <2>3. \A s \in Requests : request'[s] \in {"idle", "running", "writing", "saved"} =>
             s # r /\ request[s] \in {"idle", "running", "writing", "saved"}
      BY <1>0, <2>2
    <2>4. \A i \in 1..Len(accepted') : accepted'[i] = r \/ (i \in 1..Len(accepted) /\ accepted'[i] = accepted[i])
      BY <1>0, <2>1
    <2>5. QED
      BY <1>0, <2>1, <2>3, <2>4 DEF Published
  <1>4. CASE DispatchStep
    BY <1>1, <1>4 DEF DispatchStep, Receive, RunHandler, FinishEvent, DispatcherStops
  <1>5. CASE Signal \/ ServeFails \/ ShutdownStep
    BY <1>1, <1>5 DEF Signal, ServeFails, ShutdownStep, Drained, ShutdownTimesOut, CloseBus, ClosePool, Exit
  <1>6. CASE UNCHANGED busVars
    BY <1>1, <1>6 DEF busVars
  <1>7. QED
    BY <1>2, <1>3, <1>4, <1>5, <1>6 DEF BusNext, RequestStep

(* The order of run(): requests, then the bus, then the process.           *)
LEMMA NextShutdown == BusIInv /\ [BusNext]_busVars => Shutdown' /\ OnlyForcedShutdownFailsRequests'
  <1> SUFFICES ASSUME BusIInv, [BusNext]_busVars
               PROVE  Shutdown' /\ OnlyForcedShutdownFailsRequests'
    OBVIOUS
  <1>0. /\ Shutdown /\ OnlyForcedShutdownFailsRequests
        /\ request \in [Requests -> {"idle", "returned", "failed"} \cup InFlight]
        /\ server \in {"serving", "failed", "draining", "drained", "forced", "exited"}
    BY DEF BusIInv, BusTypeOK, ReqType, HistType
  <1> USE DEF reqVars, chVars, dispVars, serverVars, histVars, Shutdown, OnlyForcedShutdownFailsRequests
  <1>1. ASSUME NEW r \in Requests,
               Begin(r) \/ Acquire(r) \/ Save(r) \/ SaveFails(r) \/ Return(r) \/ Abandon(r)
        PROVE  Shutdown' /\ OnlyForcedShutdownFailsRequests'
    BY <1>0, <1>1 DEF Begin, Acquire, Save, SaveFails, Return, Abandon, InFlight
  <1>2. ASSUME NEW r \in Requests, Publish(r)
        PROVE  Shutdown' /\ OnlyForcedShutdownFailsRequests'
    <2>1. server # "drained" /\ server # "exited" /\ UNCHANGED <<busClosed, current, dispatcher, server, dbClosed>>
      BY <1>0, <1>2 DEF Publish, InFlight, Up
    <2>2. \/ busClosed /\ request' = [request EXCEPT ![r] = "failed"] /\ UNCHANGED queue
          \/ ~busClosed /\ request' = [request EXCEPT ![r] = "published"]
      BY <1>2 DEF Publish
    <2>3. QED
      BY <1>0, <2>1, <2>2
  <1>3. CASE DispatchStep
    BY <1>0, <1>3 DEF DispatchStep, Receive, RunHandler, FinishEvent, DispatcherStops, Up, Handling
  <1>4. CASE Signal \/ ServeFails
    BY <1>0, <1>4 DEF Signal, ServeFails
  <1>5. CASE ShutdownStep
    BY <1>0, <1>5 DEF ShutdownStep, Drained, ShutdownTimesOut, CloseBus, ClosePool, Exit, Closing
  <1>6. CASE UNCHANGED busVars
    BY <1>0, <1>6 DEF busVars
  <1>7. QED
    BY <1>1, <1>2, <1>3, <1>4, <1>5, <1>6 DEF BusNext, RequestStep

LEMMA NextBusIInv == BusIInv /\ [BusNext]_busVars => BusIInv'
  BY NextBusTypeOK, NextAccounted, NextPublished, NextShutdown DEF BusIInv

LEMMA SpecBusIInv == BusSpec => []BusIInv
  BY InitBusIInv, NextBusIInv, PTL DEF BusSpec

-----------------------------------------------------------------------------

(* Every variable of EventBus keeps its type.                              *)
THEOREM BusTypeCorrect == BusSpec => []BusTypeOK
  <1>1. BusIInv => BusTypeOK
    BY DEF BusIInv
  <1>2. QED
    BY <1>1, SpecBusIInv, PTL

(* Publish, dispatch and Close: each accepted event is handled, in hand or *)
(* queued, in the order of acceptance.                                     *)
THEOREM NothingIsLost == BusSpec => []Conservation
  <1>1. BusIInv => Conservation
    <2> SUFFICES ASSUME BusIInv PROVE Conservation
      OBVIOUS
    <2>1. /\ Accounted
          /\ queue \in Seq(Requests) /\ accepted \in Seq(Requests) /\ handled \in Nat
          /\ current \in Seq(Requests) /\ Len(current) <= 1
      BY DEF BusIInv, BusTypeOK, QueueType, HistType
    <2> DEFINE done == SubSeq(accepted, 1, handled)
               all == done \o current \o queue
    <2>2. done \in Seq(Requests) /\ Len(done) = handled
          /\ \A i \in 1..handled : done[i] = accepted[i]
      BY <2>1 DEF Accounted
    <2> HIDE DEF done
    <2> DEFINE front == done \o current
    <2>3. /\ front \in Seq(Requests) /\ Len(front) = handled + Len(current)
          /\ \A i \in 1..Len(front) : front[i] =
               IF i <= handled THEN done[i] ELSE current[i - handled]
      BY <2>1, <2>2
    <2>4. Len(current) \in Nat /\ Len(queue) \in Nat
      BY <2>1
    <2>5. \A i \in 1..Len(front) : front[i] = accepted[i]
      <3> SUFFICES ASSUME NEW i \in 1..(handled + Len(current)) PROVE front[i] = accepted[i]
        BY <2>3
      <3>1. CASE i <= handled
        BY <2>1, <2>2, <2>3, <2>4, <3>1
      <3>2. CASE ~(i <= handled)
        <4>1. i - handled \in 1..Len(current) /\ handled + (i - handled) = i
          BY <2>1, <2>4, <3>2
        <4>2. accepted[handled + (i - handled)] = current[i - handled]
          BY <2>1, <4>1 DEF Accounted
        <4>3. QED
          BY <2>3, <3>2, <4>1, <4>2
      <3>3. QED
        BY <3>1, <3>2
    <2> HIDE DEF front
    <2>6. /\ front \o queue \in Seq(Requests)
          /\ Len(front \o queue) = Len(front) + Len(queue)
          /\ \A i \in 1..(Len(front) + Len(queue)) : (front \o queue)[i] =
               IF i <= Len(front) THEN front[i] ELSE queue[i - Len(front)]
      <3>1. front \in Seq(Requests) /\ queue \in Seq(Requests)
        BY <2>1, <2>3
      <3>2. QED
        BY <3>1, ConcatProperties
    <2>7. all \in Seq(Requests) /\ Len(all) = Len(accepted)
      BY <2>1, <2>3, <2>6 DEF Accounted, front
    <2>8. \A i \in 1..Len(accepted) : all[i] = accepted[i]
      <3> SUFFICES ASSUME NEW i \in 1..Len(accepted) PROVE (front \o queue)[i] = accepted[i]
        BY DEF front
      <3>0. i \in 1..(Len(front) + Len(queue)) /\ Len(front) \in Nat
        BY <2>1, <2>3, <2>4 DEF Accounted
      <3>1. CASE i <= Len(front)
        BY <2>5, <2>6, <3>0, <3>1
      <3>2. CASE ~(i <= Len(front))
        <4>1. i - Len(front) \in 1..Len(queue) /\ Len(front) + (i - Len(front)) = i
          BY <2>4, <3>0, <3>2
        <4>2. accepted[Len(front) + (i - Len(front))] = queue[i - Len(front)]
          BY <2>1, <2>3, <4>1 DEF Accounted
        <4>3. QED
          BY <2>6, <3>0, <3>2, <4>1, <4>2
      <3>3. QED
        BY <3>1, <3>2
    <2> HIDE DEF all
    <2>9. all = accepted
      BY <2>1, <2>7, <2>8
    <2>10. QED
      BY <2>9 DEF Conservation, all, front, done
  <1>2. QED
    BY <1>1, SpecBusIInv, PTL

(* run() and Close: the process does not end with an accepted event that   *)
(* has not been through its handlers.                                      *)
THEOREM ProcessDrains == BusSpec => []ExitDrains
  <1>1. BusIInv => ExitDrains
    BY DEF BusIInv, BusTypeOK, QueueType, HistType, Shutdown, Accounted, ExitDrains
  <1>2. QED
    BY <1>1, SpecBusIInv, PTL

(* Publish on a closed bus needs a request that outlived the shutdown.     *)
THEOREM GracefulShutdownFailsNobody == BusSpec => []OnlyForcedShutdownFailsRequests
  <1>1. BusIInv => OnlyForcedShutdownFailsRequests
    BY DEF BusIInv
  <1>2. QED
    BY <1>1, SpecBusIInv, PTL

(* The safety half of ImplementsFeed: the bus starts as the feed does and   *)
(* every step of it is a step of the feed or leaves the feed as it is.     *)
THEOREM BusRefinesFeed == BusSpec => Feed!FeedInit /\ [][Feed!FeedNext]_(Feed!feedVars)
  <1> USE DEF Feed!feedVars, reqVars, chVars, dispVars, serverVars, histVars
  <1>1. BusInit => Feed!FeedInit
    BY DEF BusInit, Feed!FeedInit
  <1>2. BusIInv /\ [BusNext]_busVars => [Feed!FeedNext]_(Feed!feedVars)
    <2> SUFFICES ASSUME BusIInv, [BusNext]_busVars PROVE [Feed!FeedNext]_(Feed!feedVars)
      OBVIOUS
    <2>1. CASE UNCHANGED <<accepted, dropped, handled>>
      BY <2>1
    <2>2. ASSUME NEW r \in Requests, Publish(r) PROVE Feed!FeedNext
      <3>1. Feed!New(r)
        BY <2>2 DEF BusIInv, Published, Publish, Feed!New
      <3>2. Feed!Take(r) \/ Feed!Lose(r)
        BY <2>2, <3>1 DEF Publish, Feed!Take, Feed!Lose
      <3>3. QED
        BY <3>2 DEF Feed!FeedNext
    <2>3. CASE FinishEvent
      <3>1. Len(current) = 1
        BY <2>3, OneInHand DEF BusIInv, BusTypeOK, QueueType, FinishEvent, Handling
      <3>2. handled < Len(accepted)
        BY <3>1 DEF BusIInv, BusTypeOK, QueueType, HistType, Accounted
      <3>3. QED
        BY <2>3, <3>2 DEF FinishEvent, Feed!FeedNext, Feed!HandleNext
    <2>4. CASE Quiet \/ Receive \/ RunHandler \/ DispatcherStops \/ CloseBus \/ UNCHANGED busVars
      BY <2>1, <2>4 DEF Quiet, Receive, RunHandler, DispatcherStops, CloseBus, busVars
    <2>5. QED
      BY <2>2, <2>3, <2>4, QuietStep
  <1>3. QED
    BY <1>1, <1>2, SpecBusIInv, PTL DEF BusSpec
=============================================================================
