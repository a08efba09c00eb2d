------------------------------- MODULE Trips --------------------------------
(***************************************************************************)
(* Searches, routes, itineraries and whole day plans, asked for over HTTP  *)
(* or through the MCP server, which speaks for one user.  No stop is       *)
(* stored that neither the cache nor the provider vouches for.             *)
(***************************************************************************)
EXTENDS Routes

VARIABLES itineraries    \* rows: id, user, stops in order

tripVars == <<placesVars, itineraries>>

\* The router's groups of trip and of LLM routes; the MCP server has no router.
EnterPlanning(r) ==
    /\ at[r] = "arrived"
    /\ IF work[r].token = "mcp" THEN Go(r, "handler")
       ELSE IF ~TokenAccepted(r) THEN Finish(r, 401)
       ELSE IF work[r].token # "blended" THEN Finish(r, 403)
       ELSE Go(r, "handler")

-----------------------------------------------------------------------------
(* The handlers, and the checks with which the service begins.             *)

SearchPlaces(r) == Handling(r, "SearchPlaces") /\ work[r].valid /\ Go(r, "search")

ResolveAll(r, ids, purpose) ==
    GoWith(r, "resolve", [local[r] EXCEPT !.todo = ids, !.got = <<>>, !.purpose = purpose])

BuildRoute(r) ==
    /\ Handling(r, "BuildRoute") /\ work[r].valid
    /\ IF Len(work[r].ids) < MinPlaces(r) THEN Finish(r, 422)
       ELSE ResolveAll(r, work[r].ids, "route")

SaveItinerary(r) ==
    /\ Handling(r, "SaveItinerary") /\ work[r].valid
    /\ GoWith(r, "ground", [local[r] EXCEPT !.stops = work[r].stops])

PlanDay(r) == Handling(r, "PlanDay") /\ work[r].valid /\ Go(r, "search")

-----------------------------------------------------------------------------
(* Service.SearchPlaces and the beginning of PlanDay.                      *)

SearchReturns(r) ==
    /\ at[r] = "found" /\ work[r].op = "SearchPlaces"
    /\ Return(r, [provider |-> provider, places |-> Ids(local[r].list)])

\* A plan needs two places; they are resolved again, one by one.
PlanFinds(r) ==
    /\ at[r] = "found" /\ work[r].op = "PlanDay"
    /\ IF Len(local[r].list) < 2 THEN Finish(r, 422)
       ELSE ResolveAll(r, Ids(local[r].list), "route")

\* resolvePlaceIDs is done.
AllResolved(r) ==
    /\ at[r] = "resolve" /\ local[r].todo = <<>> /\ local[r].purpose = "route"
    /\ Go(r, "route")

\* A place that cannot be resolved fails the route, and the grounding; where
\* only its details are missing, the client's own are stored.
Unresolved(r) ==
    IF local[r].purpose = "details" THEN Resolve(r, Place(Head(local[r].todo), "client"))
    ELSE Finish(r, 422)

-----------------------------------------------------------------------------
(* PlanDay once it has its route.                                          *)

RouteReturns(r) ==
    /\ at[r] = "routed"
    /\ work[r].op = "BuildRoute" \/ (work[r].op = "PlanDay" /\ ~work[r].save)
    /\ Return(r, local[r].route)

\* The stops in the order of the route, numbered from 1.
PlanStops(r) ==
    LET list == local[r].list
        way == local[r].route.order
        order == IF Len(way) = Len(list) THEN way ELSE Identity(Len(list))
    IN  [i \in DOMAIN list |-> [id |-> list[order[i]].id, order |-> i]]

PlanSaves(r) ==
    /\ at[r] = "routed" /\ work[r].op = "PlanDay" /\ work[r].save
    /\ GoWith(r, "ground", [local[r] EXCEPT !.stops = PlanStops(r)])

-----------------------------------------------------------------------------
(* Service.SaveItinerary.                                                  *)

\* Mutant of EnsureGrounded: a failing database vouches for everything.
EnsureGroundedUnlessDown(r) ==
    /\ at[r] = "ground"
    /\ LET ids == Ids(local[r].stops)
       IN  \E ok \in Outcomes(r) :
             ResolveAll(r, IF ok THEN Keep(ids, Range(ids) \ ExistsPlaceIDs(ids)) ELSE <<>>, "ground")

\* ensureGrounded: what no fresh row vouches for is looked up.
EnsureGrounded(r) ==
    /\ at[r] = "ground"
    /\ LET ids == Ids(local[r].stops)
       IN  \E ok \in Outcomes(r) :
             IF ok THEN ResolveAll(r, Keep(ids, Range(ids) \ ExistsPlaceIDs(ids)), "ground")
             ELSE Finish(r, 500)

\* Then every stop is looked up for its details.
Grounded(r) ==
    /\ at[r] = "resolve" /\ local[r].todo = <<>> /\ local[r].purpose = "ground"
    /\ ResolveAll(r, Ids(local[r].stops), "details")

\* A stop without an order gets its position.
StopOrder(stop, i) == IF stop.order = 0 THEN i ELSE stop.order

\* The row is written; a plan answers with its route all the same.
CreateItinerary(r) ==
    /\ at[r] = "resolve" /\ local[r].todo = <<>> /\ local[r].purpose = "details"
    /\ \E ok \in Outcomes(r) :
         IF ~ok THEN Finish(r, 500) /\ UNCHANGED itineraries
         ELSE /\ itineraries' = itineraries \cup
                   {[id |-> r, user |-> work[r].user,
                     stops |-> [i \in DOMAIN local[r].got |->
                                  [id |-> local[r].got[i].id, from |-> local[r].got[i].from,
                                   order |-> StopOrder(local[r].stops[i], i)]]]}
              /\ IF work[r].op = "PlanDay" THEN Return(r, local[r].route)
                 ELSE Finish(r, 201)

-----------------------------------------------------------------------------
(* Reading itineraries.                                                    *)

ItineraryById(id) == {it \in itineraries : it.id = id}
ItinerariesOf(user) == {it \in itineraries : it.user = user}

GetItinerary(r) ==
    /\ Handling(r, "GetItinerary") /\ work[r].valid
    /\ \E ok \in Outcomes(r) :
         LET found == ItineraryById(work[r].id)
         IN  IF ~ok THEN Finish(r, 500)
             ELSE IF found = {} THEN Finish(r, 404)
             ELSE IF \E it \in found : it.user # work[r].user THEN Finish(r, 403)
             ELSE Return(r, found)

ListItineraries(r) ==
    /\ Handling(r, "ListItineraries") /\ work[r].valid
    /\ \E ok \in Outcomes(r) :
         IF ok THEN Return(r, ItinerariesOf(work[r].user)) ELSE Finish(r, 500)

-----------------------------------------------------------------------------
TripStep(r) ==
    \/ /\ \/ EnterPlanning(r) \/ SearchPlaces(r) \/ BuildRoute(r) \/ SaveItinerary(r) \/ PlanDay(r)
          \/ SearchReturns(r) \/ PlanFinds(r) \/ AllResolved(r) \/ RouteReturns(r) \/ PlanSaves(r)
          \/ EnsureGrounded(r) \/ Grounded(r) \/ GetItinerary(r) \/ ListItineraries(r)
       /\ UNCHANGED tripVars
    \/ /\ \/ ReadSearchCache(r) \/ CallSearch(r) \/ StoreSearch(r)
          \/ ReadPlaceCache(r) \/ CallPlace(r, Unresolved(r))
          \/ GoogleRouteStep(r) \/ MockRoute(r)
       /\ UNCHANGED itineraries
    \/ CreateItinerary(r) /\ UNCHANGED placesVars
=============================================================================
