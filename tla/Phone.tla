------------------------------- MODULE Phone --------------------------------
(***************************************************************************)
(* The app on a phone, which plans a day in a sequence of calls of the     *)
(* server, each with what the answer before it said, and keeps the thread  *)
(* of a conversation about a route.  A phone has one request at a time.    *)
(***************************************************************************)
EXTENDS Trips, Assistant

CONSTANT Radius    \* how far from the first stop of a plan the others may be

VARIABLES phone    \* per request: what its screen keeps

Screen == [step |-> "none", retries |-> 0, max |-> 0, places |-> <<>>, stops |-> <<>>,
           route |-> None, items |-> <<>>]

\* The next call of the phone, what it asks for, and its screen then.
CallServer(r, asked, screen) ==
    /\ work' = [work EXCEPT ![r] = asked]
    /\ at' = [at EXCEPT ![r] = "arrived"]
    /\ answer' = [answer EXCEPT ![r] = NoAnswer]
    /\ local' = [local EXCEPT ![r] = Memory]
    /\ phone' = [phone EXCEPT ![r] = screen]
    /\ UNCHANGED <<redis, published>>

Show(r, screen) == phone' = [phone EXCEPT ![r] = screen] /\ UNCHANGED requestVars

\* A call has returned, or has failed with the server.
Returned(r, step) == phone[r].step = step /\ at[r] \in {"done", "lost"}
Succeeded(r) == at[r] = "done" /\ answer[r].status \in 200..299

-----------------------------------------------------------------------------
(* PlannerViewModel._onPlanDay.                                            *)

Fail(r) == Show(r, [phone[r] EXCEPT !.step = "failed"])

\* Without a session there is no plan.
StartPlan(r) ==
    /\ work[r].app = "plan" /\ phone[r].step = "ready"
    /\ \/ CallServer(r, [work[r] EXCEPT !.op = "ParseIntent"],
                     [phone[r] EXCEPT !.step = "intent", !.max = work[r].wish])
       \/ work[r].faulty /\ Fail(r)

\* Without an intent the plan goes on with what its card says.
IntentArrives(r) ==
    /\ work[r].app = "plan" /\ Returned(r, "intent")
    /\ LET max == IF Succeeded(r) THEN Clamp(answer[r].rows.stops, 3, 7) ELSE phone[r].max
       IN  IF work[r].default = None /\ ~Succeeded(r) THEN Fail(r)
           ELSE CallServer(r, [work[r] EXCEPT !.op = "SearchPlaces", !.max = Clamp(2 * max, 6, 12)],
                           [phone[r] EXCEPT !.step = "search", !.max = max])

PlacesArrive(r) ==
    /\ work[r].app = "plan" /\ Returned(r, "search")
    /\ IF ~Succeeded(r) \/ Len(answer[r].rows.places) < 2 THEN Fail(r)
       ELSE LET places == answer[r].rows.places
            IN  CallServer(r, [work[r] EXCEPT !.op = "PickStops", !.places = Len(places),
                                               !.max = Clamp(phone[r].max, 2, Len(places))],
                           [phone[r] EXCEPT !.step = "pick", !.places = places])

\* orderStopsFromUser.
OrderFromUser(stops) == [i \in DOMAIN stops |-> stops[Walk(Here, stops, Len(stops))[i]]]

\* compactClusterNearUser: the place nearest to the user and, one by one, the
\* nearest of those around it; all candidates where nothing else is around it.
ClusterNearUser(places, max) ==
    LET cap == Clamp(max, 1, Len(places))
        seed == places[Walk(Here, places, 1)[1]]
        around == Keep(places, {p \in Range(places) : Distance(seed, p) <= Radius})
        cluster == Walk(seed, around, IF cap < Len(around) THEN cap ELSE Len(around))
    IN  OrderFromUser(IF Len(cluster) < 2 THEN SubSeq(places, 1, cap)
                      ELSE [i \in DOMAIN cluster |-> around[cluster[i]]])

\* The picked places, or as many of the first ones; near the user, if known.
StopsArrive(r) ==
    /\ work[r].app = "plan" /\ Returned(r, "pick")
    /\ LET places == phone[r].places
           max == Clamp(phone[r].max, 2, Len(places))
           picked == IF Succeeded(r) /\ Len(answer[r].rows) >= 2
                     THEN [i \in DOMAIN answer[r].rows |-> places[answer[r].rows[i] + 1]]
                     ELSE SubSeq(places, 1, max)
           stops == IF work[r].origin THEN ClusterNearUser(picked, max) ELSE picked
       IN  CallServer(r, [work[r] EXCEPT !.op = "BuildRoute", !.ids = stops, !.optimize = FALSE],
                      [phone[r] EXCEPT !.step = "route", !.stops = stops])

\* RouteModel.orderedStops.
OrderedStops(stops, order) ==
    IF Len(order) # Len(stops) THEN stops ELSE [i \in DOMAIN order |-> stops[order[i]]]

RouteArrives(r) ==
    /\ work[r].app = "plan" /\ Returned(r, "route")
    /\ IF ~Succeeded(r) THEN Fail(r)
       ELSE Show(r, [phone[r] EXCEPT !.step = "shown", !.route = answer[r].rows,
                                     !.stops = OrderedStops(@, answer[r].rows.order)])

\* The whole plan again.
RetryPlan(r) ==
    /\ work[r].app = "plan" /\ phone[r].step = "failed" /\ phone[r].retries < work[r].patience
    /\ Show(r, [Screen EXCEPT !.step = "ready", !.retries = phone[r].retries + 1])

-----------------------------------------------------------------------------
(* The chat: its items are the turns of the thread.                        *)

UserTurn(text) ==
    [role |-> "user", text |-> text, area |-> None, intent |-> None, base |-> 0]
CardTurn(text, card, base) ==
    [role |-> "assistant", text |-> text, area |-> card.area, intent |-> card.intent, base |-> base]

Cards(items) == {i \in DOMAIN items : items[i].role = "assistant"}

Ask(r, prompt, base, items, retries) ==
    CallServer(r, [work[r] EXCEPT !.op = "SuggestRouteCard", !.prompt = prompt, !.base = base,
                     !.thread = items, !.previous = IF base = 0 THEN <<>> ELSE <<items[base]>>],
               [phone[r] EXCEPT !.step = "sent", !.items = items, !.retries = retries])

\* The prompt revises the card the user quotes, or else the last one.  It may
\* also be written below the bubble of a failure, which leaves the thread with
\* two turns of the user in a row.
Send(r) ==
    /\ work[r].app = "chat"
    /\ LET items == phone[r].items
           next == Cardinality(Cards(items)) + 1
           anew == phone[r].step = "failed" /\ phone[r].retries < work[r].patience
       IN  /\ phone[r].step = "ready" \/ anew
           /\ next <= Len(work[r].prompts)
           /\ \E base \in IF Cards(items) = {} THEN {0} ELSE Cards(items) :
                 Ask(r, work[r].prompts[next], base,
                     Append(items, UserTurn(work[r].prompts[next])),
                     phone[r].retries + (IF anew THEN 1 ELSE 0))

CardArrives(r) ==
    /\ work[r].app = "chat" /\ Returned(r, "sent")
    /\ IF ~Succeeded(r) THEN Fail(r)
       ELSE Show(r, [phone[r] EXCEPT !.step = "ready",
                       !.items = Append(@, CardTurn(work[r].prompt, answer[r].rows, work[r].base))])

\* The bubble of the user is there already.
RetryChat(r) ==
    /\ work[r].app = "chat" /\ phone[r].step = "failed" /\ phone[r].retries < work[r].patience
    /\ Ask(r, work[r].prompt, work[r].base, phone[r].items, phone[r].retries + 1)

-----------------------------------------------------------------------------
PhoneStep(r) ==
    \/ StartPlan(r) \/ IntentArrives(r) \/ PlacesArrive(r) \/ StopsArrive(r) \/ RouteArrives(r)
    \/ RetryPlan(r)
    \/ Send(r) \/ CardArrives(r) \/ RetryChat(r)
=============================================================================
