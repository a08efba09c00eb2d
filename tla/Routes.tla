------------------------------- MODULE Routes -------------------------------
(***************************************************************************)
(* Routes between resolved places: from the Routes API, in one call or, by *)
(* public transport over more than two points, leg by leg; or from the     *)
(* mock, which walks to the nearest place next.                            *)
(***************************************************************************)
EXTENDS Places

CONSTANTS
    Here,      \* the point a caller may start from
    Where      \* the positions of places on a line, a function to Nat

ASSUME WhereAssumption ==
    Where \in [DOMAIN Where -> Nat] /\ {Here} \cup Known \cup Fixtures \subseteq DOMAIN Where

MapTravelMode(mode) == IF mode \in {"DRIVE", "BICYCLE", "TRANSIT"} THEN mode ELSE "WALK"

MinPlaces(r) == IF work[r].origin THEN 1 ELSE 2

Distance(a, b) == IF Where[a] > Where[b] THEN Where[a] - Where[b] ELSE Where[b] - Where[a]

\* The first n steps of a walk from a point, each to the nearest place left,
\* the first of the list where several are; as positions in the list.
Walk(start, ids, n) ==
    LET Next(w) ==
            LET from == IF w = <<>> THEN start ELSE ids[Last(w)]
                left == DOMAIN ids \ Range(w)
            IN  CHOOSE i \in left : \A j \in left :
                    \/ Distance(from, ids[i]) < Distance(from, ids[j])
                    \/ Distance(from, ids[i]) = Distance(from, ids[j]) /\ i <= j
    IN  FoldLeft(LAMBDA w, k : Append(w, Next(w)), <<>>, [k \in 1..n |-> k])

Identity(n) == [i \in 1..n |-> i]
Orders(n) == {o \in [1..n -> 1..n] : \A i, j \in 1..n : o[i] = o[j] => i = j}

\* Origin, intermediate points and destination.
Points(r) == (IF work[r].origin THEN <<Here>> ELSE <<>>) \o Ids(local[r].got)

\* Only the points between two places may change their order.
Optimize(r, mode) ==
    work[r].optimize /\ Len(local[r].got) > 2 /\ ~work[r].origin /\ mode # "TRANSIT"

-----------------------------------------------------------------------------
(* computeRoutes, as the Routes API answers it.                            *)

\* A route visits the points in the order asked for, or in the better order
\* it reports as index; each leg may have a ride if the mode is TRANSIT.
ApiRoute(points, index, rides) ==
    LET n == Len(points)
        via == IF index = <<>> THEN points
               ELSE [i \in 1..n |-> IF i \in {1, n} THEN points[i] ELSE points[index[i - 1] + 1]]
    IN  [legs |-> [i \in 1..(n - 1) |-> [from |-> via[i], to |-> via[i + 1], ride |-> rides]],
         index |-> index]

ComputeRoutes(points, mode, optimize) ==
    LET routes == {ApiRoute(points, index, rides) :
                     index \in IF optimize THEN Orders(Len(points) - 2) ELSE {<<>>},
                     rides \in IF mode = "TRANSIT" THEN BOOLEAN ELSE {FALSE}}
    IN  {<<>>} \cup {<<a>> : a \in routes}
          \cup {<<a, b>> : a \in routes, b \in IF mode = "TRANSIT" THEN routes ELSE {}}

-----------------------------------------------------------------------------
(* What the client makes of the answer.                                    *)

RouteHasTransit(route) == \E i \in DOMAIN route.legs : route.legs[i].ride

PickBestRoute(routes) ==
    LET rides == {i \in DOMAIN routes : RouteHasTransit(routes[i])}
    IN  IF rides # {} THEN routes[Min(rides)] ELSE routes[1]

\* The leg's addresses are those of the places the order names for it.
ParseRouteLegs(legs, ids, order) ==
    LET Address(i) == IF i <= Len(order) /\ order[i] <= Len(ids) THEN ids[order[i]] ELSE None
    IN  [i \in DOMAIN legs |->
           [from |-> legs[i].from, to |-> legs[i].to, ride |-> legs[i].ride,
            start |-> IF i < Len(order) THEN Address(i) ELSE None,
            end |-> IF i < Len(order) THEN Address(i + 1) ELSE None]]

\* Mutant of WaypointOrder: the provider's index counts from 0.
WaypointOrderOffByOne(r, route) ==
    LET n == Len(local[r].got)
    IN  IF ~work[r].origin /\ route.index # <<>>
        THEN <<1>> \o route.index \o <<n>>
        ELSE Identity(n)

\* WaypointOrder: first and last stay, the optimized index is in between.
WaypointOrder(r, route) ==
    LET n == Len(local[r].got)
    IN  IF ~work[r].origin /\ route.index # <<>>
        THEN <<1>> \o [i \in DOMAIN route.index |-> route.index[i] + 1] \o <<n>>
        ELSE Identity(n)

Routed(r, legs, order) ==
    GoWith(r, "routed", [local[r] EXCEPT !.tries = 0,
        !.route = [provider |-> provider, order |-> order, legs |-> legs,
                   places |-> Ids(local[r].got)]])

\* A call whose answer is an error, or is none.
Refused(r) == (\E status \in {400, 500} : Finish(r, status)) /\ UNCHANGED placesVars

-----------------------------------------------------------------------------
(* GoogleRoutesClient.BuildRoute.                                          *)

Sequential(r) == MapTravelMode(work[r].mode) = "TRANSIT" /\ Len(Points(r)) > 2

StartGoogleRoute(r) ==
    /\ at[r] = "route" /\ provider = "google"
    /\ IF Len(local[r].got) < MinPlaces(r) THEN Finish(r, 422)
       ELSE GoWith(r, IF Sequential(r) THEN "call leg" ELSE "call route",
                   [local[r] EXCEPT !.mode = MapTravelMode(work[r].mode), !.legs = <<>>])
    /\ UNCHANGED placesVars

\* The best of the routes, described in the terms of the places asked for.
Describe(r, route) ==
    LET order == WaypointOrder(r, route)
    IN  Routed(r, ParseRouteLegs(route.legs, Ids(local[r].got), order), order)

\* One call; a bicycle for which there is no route walks, and a transit route
\* without a ride is asked for once more.
CallRoute(r) ==
    /\ at[r] = "call route"
    /\ LET mode == local[r].mode
           Answer(routes) ==
             /\ IF routes = <<>>
                THEN IF mode = "BICYCLE" THEN GoWith(r, "call route", [local[r] EXCEPT !.mode = "WALK", !.tries = 0])
                     ELSE Finish(r, 404)
                ELSE LET best == PickBestRoute(routes)
                     IN  IF mode = "TRANSIT" /\ ~RouteHasTransit(best)
                         THEN GoWith(r, "call again", [local[r] EXCEPT !.legs = <<best>>, !.tries = 0])
                         ELSE Describe(r, best)
             /\ UNCHANGED placesVars
       IN  Attempt(r, \E routes \in ComputeRoutes(Points(r), mode, Optimize(r, mode)) : Answer(routes),
                      Refused(r))

\* The second answer counts only if it has a ride.
CallAlternative(r) ==
    /\ at[r] = "call again"
    /\ LET first == local[r].legs[1]
       IN  Attempt(r, \E routes \in ComputeRoutes(Points(r), "TRANSIT", FALSE) :
                        /\ Describe(r, IF routes # <<>> /\ RouteHasTransit(PickBestRoute(routes))
                                       THEN PickBestRoute(routes) ELSE first)
                        /\ UNCHANGED placesVars,
                      Describe(r, first) /\ UNCHANGED placesVars)

\* buildSequentialRoute: a call per pair of points; a pair without a route is
\* left out.  The pair's addresses are those of the places at its position,
\* also where a starting point has shifted the positions.
CallLeg(r) ==
    /\ at[r] = "call leg"
    /\ LET points == Points(r)
           i == local[r].leg + 1
           Pair(routes) ==
               IF routes = <<>> THEN <<>>
               ELSE ParseRouteLegs(PickBestRoute(routes).legs, Ids(local[r].got), <<i, i + 1>>)
           Take(legs) ==
               IF i + 1 = Len(points) THEN Routed(r, legs, Identity(Len(local[r].got)))
               ELSE GoWith(r, "call leg", [local[r] EXCEPT !.legs = legs, !.leg = i, !.tries = 0])
       IN  Attempt(r, \E routes \in ComputeRoutes(<<points[i], points[i + 1]>>, "TRANSIT", FALSE) :
                        Take(local[r].legs \o Pair(routes)) /\ UNCHANGED placesVars,
                      Refused(r))

GoogleRouteStep(r) == StartGoogleRoute(r) \/ CallRoute(r) \/ CallAlternative(r) \/ CallLeg(r)

-----------------------------------------------------------------------------
(* MockDirectionsClient.BuildRoute: no origin, no calls.                   *)

\* From the first place on.
NearestNeighborOrder(ids) == Walk(ids[1], ids, Len(ids))

MockRoute(r) ==
    /\ at[r] = "route" /\ provider = "mock"
    /\ LET ids == Ids(local[r].got)
           order == IF work[r].optimize /\ Len(ids) > 2 THEN NearestNeighborOrder(ids)
                    ELSE Identity(Len(ids))
       IN  IF Len(ids) < 2 THEN Finish(r, 500)
           ELSE Routed(r, [i \in 1..(Len(ids) - 1) |->
                             [from |-> ids[order[i]], to |-> ids[order[i + 1]], ride |-> FALSE,
                              start |-> ids[order[i]], end |-> ids[order[i + 1]]]], order)
    /\ UNCHANGED placesVars
=============================================================================
