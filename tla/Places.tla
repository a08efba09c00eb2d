------------------------------- MODULE Places -------------------------------
(***************************************************************************)
(* Places of the outside world, behind a cache of two tables: rows of      *)
(* places and rows of searches, each with a time to live of six hours.     *)
(* Without an API key the places are a catalog of fixtures; with one they  *)
(* are Google's.  The tables outlive the process, and so the change of key.*)
(***************************************************************************)
EXTENDS Requests, Sequences, SequencesExt

CONSTANTS
    Catalog,       \* the fixtures of the mock client, in its order
    Known,         \* the places Google knows
    Aliases,       \* other ids of a known place ("places/..."), a function
    Results,       \* the lists of ids Google may answer a search with
    MaxAttempts    \* calls of one request to Google

\* A fixture is no place of Google's, an alias is the id of no place and names
\* one of Google's, and a search answers with some of them, each once.  The
\* assistant, which counts in the same place, makes up to three attempts.
ASSUME PlacesAssumption ==
    /\ Catalog \in Seq(Range(Catalog)) /\ IsInjective(Catalog) /\ Range(Catalog) \cap Known = {}
    /\ \A id \in DOMAIN Aliases : Aliases[id] \in Known /\ id \notin Known \cup Range(Catalog)
    /\ Results \subseteq Seq(Known) /\ \A ids \in Results : IsInjective(ids)
    /\ MaxAttempts \in Nat /\ MaxAttempts >= 3

VARIABLES
    provider,      \* "mock" or "google"
    placeRows,     \* places_cache: id -> who gave the details, whether fresh
    searchRows     \* place_search_cache: key -> ids, whether fresh

placesVars == <<provider, placeRows, searchRows>>

Fixtures == Range(Catalog)
IsFixture(id) == id \in Fixtures
Canon(id) == IF id \in DOMAIN Aliases THEN Aliases[id] ELSE id

Place(id, from) == [id |-> id, from |-> from]
Ids(list) == [i \in DOMAIN list |-> list[i].id]

\* What of a list is in a set, in its order.
Keep(list, S) == FoldLeft(LAMBDA kept, x : IF x \in S THEN Append(kept, x) ELSE kept, <<>>, list)

\* What a goroutine remembers of the lists it is busy with.
Memory == [list |-> <<>>, todo |-> <<>>, got |-> <<>>, stops |-> <<>>, legs |-> <<>>, leg |-> 0,
           tries |-> 0, down |-> FALSE, purpose |-> None, mode |-> None, route |-> None]

-----------------------------------------------------------------------------
(* The tables: what is past its expires_at is not there.                   *)

GetPlace(id) == id \in DOMAIN placeRows /\ placeRows[id].fresh
CachedPlace(id) == Place(id, placeRows[id].from)

GetSearch(key) ==
    IF key \in DOMAIN searchRows /\ searchRows[key].fresh
    THEN LET ids == Keep(searchRows[key].ids, {id \in DOMAIN placeRows : GetPlace(id)})
         IN  [i \in DOMAIN ids |-> CachedPlace(ids[i])]
    ELSE <<>>

PutPlaces(ids) ==
    placeRows' = [id \in ids \cup DOMAIN placeRows |->
                    IF id \in ids THEN [from |-> provider, fresh |-> TRUE] ELSE placeRows[id]]

PutSearch(key, ids) ==
    searchRows' = [k \in {key} \cup DOMAIN searchRows |->
                     IF k = key THEN [ids |-> ids, fresh |-> TRUE] ELSE searchRows[k]]

\* The ids among these that a row still vouches for, whoever wrote it.
ExistsPlaceIDs(ids) == {id \in Range(ids) : GetPlace(id)}

-----------------------------------------------------------------------------
(* Calls to Google: at most MaxAttempts, and another one only after a      *)
(* failure of the transport and while the caller waits.                    *)

\* Mutant of Attempt: one call too many.
AttemptForEver(r, Good, Bad) ==
    \/ Good
    \/ work[r].faulty /\ Bad
    \/ /\ work[r].faulty /\ local[r].tries <= MaxAttempts
       /\ GoWith(r, at[r], [local[r] EXCEPT !.tries = @ + 1])
       /\ UNCHANGED placesVars

Attempt(r, Good, Bad) ==
    \/ Good
    \/ work[r].faulty /\ Bad
    \/ /\ work[r].faulty /\ local[r].tries + 1 < MaxAttempts
       /\ GoWith(r, at[r], [local[r] EXCEPT !.tries = @ + 1])
       /\ UNCHANGED placesVars

-----------------------------------------------------------------------------
(* CachingPlacesClient.Search.                                             *)

\* A plan asks for five places where it does not say how many.
Wanted(r) == IF work[r].op = "PlanDay" /\ work[r].max = 0 THEN 5 ELSE work[r].max

SearchKey(r) == <<provider, work[r].query, Wanted(r)>>

Usable(list) ==
    /\ list # <<>>
    /\ provider = "google" => \A id \in Range(Ids(list)) : ~IsFixture(id)

\* A list from the cache, unless it cannot be read or used.
ReadSearchCache(r) ==
    /\ at[r] = "search"
    /\ \E ok \in Outcomes(r) :
         IF ok /\ Usable(GetSearch(SearchKey(r)))
         THEN GoWith(r, "found", [local[r] EXCEPT !.list = GetSearch(SearchKey(r))])
         ELSE Go(r, "call search")
    /\ UNCHANGED placesVars

\* The catalog answers every search with its first entries.
SearchMock(max) ==
    LET n == IF max \in 1..Len(Catalog) THEN max ELSE Len(Catalog)
    IN  [i \in 1..n |-> Place(Catalog[i], "mock")]

\* Google answers with at most the number of places asked for, 8 by default.
SearchGoogle(max) ==
    {[i \in DOMAIN ids |-> Place(ids[i], "google")] :
        ids \in {ids \in Results : Len(ids) <= IF max = 0 THEN 8 ELSE max}}

CallSearch(r) ==
    /\ at[r] = "call search"
    /\ LET Found(list) == /\ GoWith(r, "store search", [local[r] EXCEPT !.list = list, !.tries = 0])
                          /\ UNCHANGED placesVars
       IN  IF provider = "mock" THEN Found(SearchMock(Wanted(r)))
           ELSE Attempt(r, \E list \in SearchGoogle(Wanted(r)) : Found(list),
                           Finish(r, 500) /\ UNCHANGED placesVars)

\* What was found is written to both tables; what cannot be written is not.
StoreSearch(r) ==
    /\ at[r] = "store search"
    /\ LET found == Range(Ids(local[r].list))
       IN  \E lost \in (IF work[r].faulty THEN SUBSET found ELSE {{}}) : PutPlaces(found \ lost)
    /\ \E ok \in Outcomes(r) :
         IF ok THEN PutSearch(SearchKey(r), Ids(local[r].list)) ELSE UNCHANGED searchRows
    /\ Go(r, "found")
    /\ UNCHANGED provider

-----------------------------------------------------------------------------
(* CachingPlacesClient.GetByPlaceID, for the first of the ids to do.       *)

Resolve(r, place) ==
    GoWith(r, "resolve", [local[r] EXCEPT !.todo = Tail(@), !.got = Append(@, place), !.tries = 0])

\* A fixture's row is not for a server that has a key.
ReadPlaceCache(r) ==
    /\ at[r] = "resolve" /\ local[r].todo # <<>>
    /\ LET id == Head(local[r].todo)
       IN  \E ok \in Outcomes(r) :
             IF ok /\ GetPlace(id) /\ (provider = "google" => ~IsFixture(id))
             THEN Resolve(r, CachedPlace(id))
             ELSE Go(r, "call get")
    /\ UNCHANGED placesVars

\* The provider's answer, under the id the provider gives it, goes to the
\* cache; for a place it does not have, the caller fails or makes do.
CallPlace(r, Unresolved) ==
    /\ at[r] = "call get"
    /\ LET id == Canon(Head(local[r].todo))
           Answered == /\ Resolve(r, Place(id, provider))
                       /\ \E ok \in Outcomes(r) :
                            IF ok THEN PutPlaces({id}) ELSE UNCHANGED placeRows
                       /\ UNCHANGED <<provider, searchRows>>
           Without == Unresolved /\ UNCHANGED placesVars
       IN  IF provider = "mock"
           THEN IF Head(local[r].todo) \in Fixtures THEN Answered ELSE Without
           ELSE Attempt(r, IF id \in Known THEN Answered ELSE Without, Without)

-----------------------------------------------------------------------------
(* Time, and a restart with a key where there was none.                    *)

ExpirePlace(id) ==
    /\ GetPlace(id)
    /\ placeRows' = [placeRows EXCEPT ![id].fresh = FALSE]
    /\ UNCHANGED <<requestVars, provider, searchRows>>

ExpireSearch(key) ==
    /\ key \in DOMAIN searchRows /\ searchRows[key].fresh
    /\ searchRows' = [searchRows EXCEPT ![key].fresh = FALSE]
    /\ UNCHANGED <<requestVars, provider, placeRows>>

\* Requests in flight are lost with the old process.
RestartWithKey ==
    /\ provider = "mock" /\ provider' = "google"
    /\ at' = [r \in Requests |-> IF at[r] \in {"idle", "arrived", "done"} THEN at[r] ELSE "lost"]
    /\ UNCHANGED <<work, redis, local, answer, published, placeRows, searchRows>>
=============================================================================
