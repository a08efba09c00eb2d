------------------------------ MODULE Planning ------------------------------
(***************************************************************************)
(* The planning side of the server: places, routes, itineraries and the    *)
(* assistant, for phones, other HTTP clients and the MCP server.           *)
(***************************************************************************)
EXTENDS Phone

vars == <<requestVars, placesVars, itineraries, phone>>

CONSTANT MaxStale      \* rows past their time at once

\* What a request of any kind has: a user, numbers that are numbers, and lists.
\* A plan that the server makes starts at its first stop.
AskedFields == {"user", "app", "op", "stops", "ids", "optimize", "max", "wish", "places", "prompt",
                "base", "thread", "previous", "origin"}
Asked(q) ==
    /\ AskedFields \subseteq DOMAIN q
    /\ q.stops \in Seq(Range(q.stops)) /\ q.thread \in Seq(Range(q.thread))
    /\ q.max \in Int /\ q.wish \in Int /\ q.places \in Nat /\ q.origin \in BOOLEAN

ASSUME AskedAssumption ==
    \A w \in Workloads :
        /\ DOMAIN w = Requests
        /\ \A r \in Requests : Asked(w[r]) /\ (w[r].op = "PlanDay" => ~w[r].origin)

\* Every phone starts on its home screen; all other requests are on their way.
PlanningInit ==
    /\ work \in Workloads
    /\ redis = FALSE
    /\ at = [r \in Requests |-> IF work[r].app = "none" THEN "arrived" ELSE "idle"]
    /\ local = [r \in Requests |-> Memory]
    /\ answer = [r \in Requests |-> NoAnswer]
    /\ published = {}
    /\ provider \in {"mock", "google"}
    /\ placeRows = <<>> /\ searchRows = <<>>
    /\ itineraries = {}
    /\ phone = [r \in Requests |-> [Screen EXCEPT !.step = IF work[r].app = "none" THEN "none" ELSE "ready"]]

Serve(r) ==
    \/ TripStep(r) /\ UNCHANGED phone
    \/ (AssistantStep(r) \/ RefuseInput(r)) /\ UNCHANGED <<placesVars, itineraries, phone>>
    \/ PhoneStep(r) /\ UNCHANGED <<placesVars, itineraries>>

\* Rows run out while a request is on its way.
Stale == {id \in DOMAIN placeRows : ~placeRows[id].fresh}
Expire ==
    /\ \E r \in Requests : at[r] \notin {"idle", "done", "lost"}
    /\ \/ Cardinality(Stale) < MaxStale /\ \E id \in DOMAIN placeRows : ExpirePlace(id)
       \/ \E key \in DOMAIN searchRows : ExpireSearch(key)
    /\ UNCHANGED <<itineraries, phone>>

Restart == RestartWithKey /\ UNCHANGED <<itineraries, phone>>

PlanningNext == (\E r \in Requests : Serve(r)) \/ Expire \/ Restart

PlanningSpec == PlanningInit /\ [][PlanningNext]_vars

-----------------------------------------------------------------------------
(* Properties.                                                             *)

ServerPoints == {"arrived", "handler", "search", "call search", "store search", "found", "resolve",
                 "call get", "route", "call route", "call again", "call leg", "routed", "ground"}

\* Requests are at known points, an answer is given exactly once a request is
\* done, and a request gives up on Google after MaxAttempts calls of a kind
\* (httpclient.go:77); a row of the caches has no time but its own.
PlanningTypeOK ==
    /\ at \in [Requests -> ServerPoints \cup {"idle", "done", "lost"}]
    /\ \A r \in Requests : (answer[r].status # 0) <=> at[r] = "done"
    /\ \A r \in Requests : local[r].tries < MaxAttempts
    /\ \A id \in DOMAIN placeRows : id \in Known \cup Fixtures
    /\ \A key \in DOMAIN searchRows : Range(searchRows[key].ids) \subseteq Known \cup Fixtures

Places0 == Known \cup Fixtures

\* Every stop of a stored itinerary is a place some provider has vouched for,
\* whatever id the client made up, whichever lookup failed and whenever the
\* rows ran out (service.go:247); it is the requester's; and a server with a
\* key answers with no fixture, though the caches may be full of them
\* (caching_client.go:45, :66, :91).
PlansAreGrounded ==
    /\ \A it \in itineraries :
          /\ it.user = work[it.id].user
          /\ \A i \in DOMAIN it.stops : Canon(it.stops[i].id) \in Places0
    /\ \A r \in Requests :
          /\ (at[r] = "done" /\ work[r].op = "SearchPlaces" /\ answer[r].status = 200) =>
                (answer[r].rows.provider = "google" =>
                    Range(answer[r].rows.places) \cap Fixtures = {})
          /\ (at[r] = "done" /\ work[r].op \in {"BuildRoute", "PlanDay"} /\ answer[r].status = 200) =>
                (answer[r].rows.provider = "google" =>
                    Range(answer[r].rows.places) \cap Fixtures = {})

\* Legs run along stops: each from one stop to the next, forwards, and with
\* the addresses of these stops unless the route starts somewhere else.
Along(legs, stops, somewhere) ==
    LET points == (IF somewhere THEN <<Here>> ELSE <<>>) \o stops
    IN  \E f \in [DOMAIN legs -> 1..(Len(points) - 1)] :
          /\ \A i, j \in DOMAIN legs : i < j => f[i] < f[j]
          /\ \A i \in DOMAIN legs :
                /\ legs[i].from = points[f[i]] /\ legs[i].to = points[f[i] + 1]
                /\ ~somewhere => legs[i].start = legs[i].from /\ legs[i].end = legs[i].to

\* The stops of a stored plan are numbered in the order in which the answered
\* route visits them, and so are those a phone shows: through the reordering
\* by the provider, by the server and by the phone (service.go:158,
\* google_routes.go:465 and :368, planner_view_model.dart:211).
PlansFollowTheirRoute ==
    /\ \A it \in {it \in itineraries : work[it.id].op = "PlanDay"} :
          LET route == local[it.id].route
          IN  /\ \A i \in DOMAIN it.stops : it.stops[i].order = i
              /\ Along(route.legs, Ids(it.stops), FALSE)
              /\ at[it.id] = "done" => answer[it.id].rows = route
    /\ \A r \in Requests : phone[r].step = "shown" =>
          /\ Range(phone[r].stops) \subseteq Range(phone[r].places)
          /\ IsInjective(phone[r].stops)
          /\ Along(phone[r].route.legs, phone[r].stops,
                   work[r].origin /\ phone[r].route.provider = "google")

\* Whatever the model answers: picked stops are places of the list, each once,
\* two to six and no more than asked for, unless that is fewer than two; cards
\* differ in intent and name no other city; a card that revises another one stays
\* in its city unless the user names a place; and the model sees a bounded thread,
\* with the first words of the user and the last card, unless many turns have
\* followed it
\* (service.go:125, :903, :519, :687).
AssistantIsBounded ==
    /\ \A r \in Requests : (at[r] = "done" /\ answer[r].status = 200) =>
          LET rows == answer[r].rows
          IN  /\ work[r].op = "ParseIntent" => rows.area # None /\ rows.stops \in 3..6
              /\ work[r].op = "PickStops" =>
                    /\ IsInjective(rows) /\ Len(rows) \in 2..6
                    /\ Len(rows) <= work[r].max \/ Len(rows) = 2
                    /\ Range(rows) \subseteq 0..(work[r].places - 1)
              /\ work[r].op = "SuggestDayCards" =>
                    /\ Len(rows) <= 4
                    /\ \A i, j \in DOMAIN rows : rows[i].intent = rows[j].intent => i = j
                    /\ \A i \in DOMAIN rows : rows[i].cities \subseteq
                          {SessionCity(work[r].area)} \cup Mentions[work[r].area]
    /\ \A r \in Requests : \A i \in Cards(phone[r].items) :
          LET card == phone[r].items[i]
              named == CityFromPrompt(card.text)
          IN  /\ named # None => card.area = named
              /\ (named = None /\ card.base # 0 /\ phone[r].items[card.base].area # None) =>
                    card.area \in {phone[r].items[card.base].area} \cup Mentions[card.text]
    /\ \A r \in Requests : (at[r] = "handler" /\ work[r].op = "SuggestRouteCard") =>
          LET thread == work[r].thread
              n == Len(thread)
              words == {i \in 1..(n - 1) : thread[i].role = "user"}
              cards == Cards(thread)
              sent == Range(HistoryTurns(r))
          IN  /\ Len(HistoryTurns(r)) <= MaxTurns
              /\ words # {} => thread[Min(words)] \in sent
              /\ (cards # {} /\ n - Max(cards) < MaxTurns - 1) => thread[Max(cards)] \in sent
=============================================================================
