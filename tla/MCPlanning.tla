----------------------------- MODULE MCPlanning -----------------------------
(* Three places of Google's, three fixtures, and two requests at a time in   *)
(* the combinations below.                                                   *)
EXTENDS Planning

CONSTANTS r1, r2, u1, u2, g1, g2, g3, f1, f2, f3, alias

MCRequests == {r1, r2}
MCCatalog == <<f1, f2, f3>>
MCKnown == {g1, g2, g3}
MCAliases == alias :> g1
MCResults == {<<>>, <<g1>>, <<g2, g1>>, <<g1, g3, g2>>}

\* The fixtures and Google's places lie on the same line, off their order.
MCWhere == (Here :> 0) @@ (f1 :> 1) @@ (f2 :> 4) @@ (f3 :> 2) @@ (g1 :> 1) @@ (g2 :> 9) @@ (g3 :> 2)

-----------------------------------------------------------------------------
(* Texts and the model's answers.  "a" and "b" are known cities, "old town"  *)
(* is an area that no list knows.                                            *)

Texts == {"a", "b", "old town", "more", "b then a", "to old town"}
MCCitiesIn == [t \in Texts |-> CASE t = "a" -> <<"a">> [] t = "b" -> <<"b">>
                                 [] t = "b then a" -> <<"b", "a">> [] OTHER -> <<>>]
MCMentions == [t \in Texts |-> CASE t = "a" -> {"a"} [] t = "b" -> {"b"}
                                 [] t = "b then a" -> {"a", "b"}
                                 [] t \in {"old town", "to old town"} -> {"old town"}
                                 [] OTHER -> {}]

MCHints == {"slow"}

Card(titled, cities, intent, icon) ==
    [titled |-> titled, cities |-> cities, intent |-> intent, icon |-> icon]
Reply(kind, area, stops, picks, cards) ==
    [kind |-> kind, area |-> area, stops |-> stops, picks |-> picks, cards |-> cards]
MCReplies == {
    Reply("failed", None, 0, <<>>, <<>>),
    Reply("text", None, 0, <<>>, <<>>),
    Reply("json", None, 0, <<1>>, <<Card(FALSE, {}, "slow", "coffee")>>),
    Reply("json", "b", 9, <<2, 2, 7, 0, -1, 1>>,
          <<Card(TRUE, {}, "odd", "odd"), Card(TRUE, {"b"}, "food", "bazaar"),
            Card(TRUE, {"a"}, "odd", "parks"), Card(TRUE, {}, "first_day", "odd"),
            Card(TRUE, {}, "slow", "odd"), Card(TRUE, {}, "photo", "viewpoints"),
            Card(TRUE, {}, "evening", "odd")>>),
    Reply("json", "old town", 3, <<1, 0, 7, 3, 6, 2, 5, 4>>, <<Card(TRUE, {"a"}, "shop", "museum")>>)}

-----------------------------------------------------------------------------
Base == [app |-> "none", op |-> "none", user |-> u1, token |-> "blended", valid |-> TRUE,
         faulty |-> FALSE, query |-> "q", max |-> 0, ids |-> <<>>, mode |-> "WALK",
         optimize |-> FALSE, origin |-> FALSE, stops |-> <<>>, save |-> FALSE, id |-> None,
         default |-> None, places |-> 0, area |-> "a", prompt |-> "a", base |-> 0, thread |-> <<>>,
         previous |-> <<>>, prompts |-> <<>>, wish |-> 3,
         patience |-> 0]
Faulty(q) == [q EXCEPT !.faulty = TRUE]
Mcp(q) == [q EXCEPT !.token = "mcp", !.user = u2]
From(q) == [q EXCEPT !.origin = TRUE]
By(mode, q) == [q EXCEPT !.mode = mode]
Search(max) == [Base EXCEPT !.op = "SearchPlaces", !.max = max]
Route(ids) == [Base EXCEPT !.op = "BuildRoute", !.ids = ids]
Day(max) == [Base EXCEPT !.op = "PlanDay", !.max = max, !.save = TRUE, !.optimize = TRUE]
Stop(id) == [id |-> id, order |-> 0]
Save(ids) == [Base EXCEPT !.op = "SaveItinerary", !.stops = [i \in DOMAIN ids |-> Stop(ids[i])]]
Read(op, id) == [Base EXCEPT !.op = op, !.id = id]
Assist(op) == [Base EXCEPT !.op = op]
Pick(n, max) == [Assist("PickStops") EXCEPT !.places = n, !.max = max]
PhonePlan == [Base EXCEPT !.app = "plan", !.default = "a"]
Chat(prompts) == [Base EXCEPT !.app = "chat", !.prompts = prompts, !.default = "old town"]

Two(a, b) == (r1 :> a) @@ (r2 :> b)
One(a) == Two(a, [Base EXCEPT !.token = "none"])

MCWorkloads == {
    \* searches and what they leave in the cache
    Two(Search(2), Faulty(Search(2))),
    Two(Search(0), Save(<<f1, g1>>)),
    \* routes
    Two(Route(<<f1, f2, f3>>), Route(<<alias, g2>>)),
    One([Route(<<g2, f2, g1, g3>>) EXCEPT !.optimize = TRUE]),
    One([Route(<<f1, f2, f3>>) EXCEPT !.optimize = TRUE]),
    One(By("BICYCLE", Faulty(Route(<<g1, g2, g3>>)))),
    One(By("TRANSIT", From(Route(<<g1, g2>>)))),
    One(By("TRANSIT", Faulty(Route(<<g1, g2>>)))), One(By("TRANSIT", Faulty(Route(<<g1, g2, g3>>)))),
    One(From(Route(<<g1>>))), One(Route(<<g1>>)), One(From(Route(<<f1>>))),
    \* plans
    Two(Day(0), Mcp(Read("ListItineraries", None))),
    One(Faulty(Day(2))), Two(Day(3), Faulty(Search(3))), Two(Day(2), Save(<<g2, f1>>)),
    One(By("TRANSIT", Day(3))),
    One([Day(3) EXCEPT !.save = FALSE]),
    \* itineraries
    Two(Save(<<alias, "made up">>), Mcp(Read("GetItinerary", r1))),
    Two(Mcp(Save(<<alias, g3>>)), Mcp(Faulty(Read("GetItinerary", r1)))),
    Two(Faulty(Save(<<g1, "made up">>)), Search(2)),
    Two(Save(<<f1, f2>>), Read("GetItinerary", r1)),
    Two(Save(<<g1, g2>>), Mcp(Read("GetItinerary", r1))),
    \* the assistant
    Two(Assist("ParseIntent"), Assist("SuggestDayCards")),
    Two(Pick(4, 9), Pick(3, 1)), Two(Pick(1, 2), Pick(8, 8)), One(Pick(8, 9)),
    Two([Assist("SuggestDayCards") EXCEPT !.area = "old town"],
        [Assist("ParseIntent") EXCEPT !.valid = FALSE]),
    \* phones
    One(PhonePlan), One(From(PhonePlan)),
    Two([PhonePlan EXCEPT !.default = None, !.patience = 1],
        [Assist("ParseIntent") EXCEPT !.token = "user"]),
    Two(Faulty([PhonePlan EXCEPT !.default = None]), Assist("PickStops")),
    One([Chat(<<"b then a", "more", "to old town">>) EXCEPT !.patience = 1]),
    One(Chat(<<"more", "a", "more">>))}
=============================================================================
