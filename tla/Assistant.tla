----------------------------- MODULE Assistant ------------------------------
(***************************************************************************)
(* What the server makes of a language model's answers: an intent, stops   *)
(* picked from a list, cards for a day, and the card of a conversation.    *)
(* The model may answer anything, or not at all.                           *)
(***************************************************************************)
EXTENDS Requests, Integers, Sequences, SequencesExt

CONSTANTS
    Replies,       \* what the model may answer with
    CitiesIn,      \* text -> the known cities it names, in order, a function
    Mentions,      \* text -> the areas it contains, a function
    Hints,         \* intents that words of a prompt or of a card may suggest
    DefaultCity,   \* the area of an intent that has none
    MaxTurns       \* turns of a conversation the model gets to see

\* Numbers are numbers and lists are lists, as the parser of an answer has them;
\* all else in an answer may be anything.
ASSUME RepliesAssumption ==
    /\ DefaultCity # None
    /\ MaxTurns \in Nat /\ MaxTurns >= 2
    /\ \A reply \in Replies :
          /\ reply.stops \in Int
          /\ reply.picks \in Seq(Range(reply.picks)) /\ reply.cards \in Seq(Range(reply.cards))
          /\ \A card \in Range(reply.cards) : {"cities", "intent", "icon"} \subseteq DOMAIN card

Clamp(n, low, high) == IF n < low THEN low ELSE IF n > high THEN high ELSE n

-----------------------------------------------------------------------------
(* Calls of the model.                                                     *)

\* The status of a call that failed: 503 if the model cannot be reached or
\* says so, 500 for an answer that cannot be read or is empty.
Failures == {503, 500}

Answered(reply) == reply.kind # "failed"

\* extractJSONObject and the parser accept it.
Json(reply) == reply.kind = "json"

-----------------------------------------------------------------------------
(* ParseIntent.                                                            *)

ParseIntent(r) ==
    /\ Handling(r, "ParseIntent") /\ work[r].valid
    /\ \E reply \in Replies :
         IF ~Answered(reply) THEN \E status \in Failures : Finish(r, status)
         ELSE IF ~Json(reply) THEN Finish(r, 500)
         ELSE Return(r, [area |-> IF reply.area # None THEN reply.area
                                  ELSE IF work[r].default # None THEN work[r].default
                                  ELSE DefaultCity,
                         stops |-> Clamp(reply.stops, 3, 6)])

-----------------------------------------------------------------------------
(* PickStops.                                                              *)

\* Mutant of PickLimit: a wish for more than the list has is not cut to six.
PickLimitOfList(r) ==
    LET atLeast == IF work[r].max < 2 THEN 2 ELSE work[r].max
    IN  IF atLeast > work[r].places THEN work[r].places ELSE IF atLeast > 6 THEN 6 ELSE atLeast

\* At least two, no more than there are, and never more than six.
PickLimit(r) ==
    LET atLeast == IF work[r].max < 2 THEN 2 ELSE work[r].max
        listed == IF atLeast > work[r].places THEN work[r].places ELSE atLeast
    IN  IF listed > 6 THEN 6 ELSE listed

FallbackIndices(limit) == [i \in 1..limit |-> i - 1]

\* The indices that are in the list, each once, up to the limit.
Picked(picks, n, limit) ==
    FoldLeft(LAMBDA out, i : IF i \in 0..(n - 1) /\ i \notin Range(out) /\ Len(out) < limit
                             THEN Append(out, i) ELSE out,
             <<>>, picks)

PickStops(r) ==
    /\ Handling(r, "PickStops") /\ work[r].valid
    /\ LET limit == PickLimit(r)
           Indices(reply) == LET out == Picked(reply.picks, work[r].places, limit)
                             IN  IF Json(reply) /\ Len(out) >= 2 THEN out ELSE FallbackIndices(limit)
       IN  IF work[r].places < 2 THEN Finish(r, 422)
           ELSE \E reply \in Replies :
                  IF Answered(reply) THEN Return(r, Indices(reply))
                  ELSE \E status \in Failures : Finish(r, status)

-----------------------------------------------------------------------------
(* Cards: icon and intent are mended, a card without title or query, or    *)
(* about another city, is dropped.                                         *)

Icons == {"historic", "waterfront", "coffee", "museum", "parks", "bazaar", "viewpoints", "modern"}
Intents == {"first_day", "slow", "culture", "food", "shop", "photo", "family", "evening"}

IconForIntent(intent) ==
    CASE intent = "slow" -> "coffee"
      [] intent = "culture" -> "museum"
      [] intent \in {"food", "shop"} -> "bazaar"
      [] intent = "photo" -> "viewpoints"
      [] intent = "family" -> "parks"
      [] OTHER -> "modern"

IntentForIcon(icon) ==
    CASE icon \in {"historic", "museum"} -> "culture"
      [] icon \in {"coffee", "waterfront"} -> "slow"
      [] icon = "parks" -> "family"
      [] icon = "bazaar" -> "food"
      [] icon = "viewpoints" -> "photo"
      [] OTHER -> "first_day"

\* normalizeDayCard, of a card that has a title and a query.
Normalized(card) ==
    LET intent == IF card.intent \in Intents THEN card.intent
                  ELSE IF card.icon \in Icons THEN IntentForIcon(card.icon) ELSE "first_day"
    IN  [card EXCEPT !.intent = intent,
                     !.icon = IF @ \in Icons THEN @ ELSE IconForIntent(intent)]

\* The first known city of a text.
CityFromPrompt(text) ==
    IF text # None /\ CitiesIn[text] # <<>> THEN CitiesIn[text][1] ELSE None

SessionCity(area) == IF CityFromPrompt(area) # None THEN CityFromPrompt(area) ELSE area

CardConflictsWithArea(card, area) ==
    \E city \in card.cities : city # SessionCity(area) /\ city \notin Mentions[area]

\* At most four cards, one for each intent.
FilterDayCards(cards, area) ==
    LET Usable(card) == card.titled /\ ~CardConflictsWithArea(card, area)
        New(out, card) == \A i \in DOMAIN out : out[i].intent # Normalized(card).intent
    IN  FoldLeft(LAMBDA out, card : IF Len(out) < 4 /\ Usable(card) /\ New(out, card)
                                    THEN Append(out, Normalized(card)) ELSE out,
                 <<>>, cards)

\* Three attempts; without a usable card the list is empty, unless the last
\* failed call was one of a model that is not available.
SuggestDayCards(r) ==
    /\ Handling(r, "SuggestDayCards") /\ work[r].valid
    /\ LET Again(down) ==
             IF local[r].tries < 2
             THEN GoWith(r, "handler", [local[r] EXCEPT !.tries = @ + 1, !.down = down])
             ELSE IF down THEN Finish(r, 503) ELSE Return(r, <<>>)
       IN  \E reply \in Replies :
             IF ~Answered(reply) THEN \E status \in Failures : Again(status = 503)
             ELSE LET cards == FilterDayCards(reply.cards, work[r].area)
                  IN  IF Json(reply) /\ cards # <<>> THEN Return(r, cards) ELSE Again(local[r].down)

-----------------------------------------------------------------------------
(* SuggestRouteCard: one card for a conversation, whose city it keeps.     *)

\* conversationArea: of the card to revise, or the last one in the thread.
ConversationArea(r) ==
    LET areas == SelectSeq(work[r].thread, LAMBDA turn : turn.area # None)
    IN  IF work[r].previous # <<>> /\ work[r].previous[1].area # None THEN work[r].previous[1].area
        ELSE IF areas # <<>> THEN Last(areas).area
        ELSE None

\* The first turn of the user and the latest ones.
CompactTurns(turns) ==
    LET n == Len(turns)
        tail == n - MaxTurns + 2
        users == {i \in 1..n : turns[i].role = "user"}
    IN  IF n <= MaxTurns THEN turns
        ELSE IF \E i \in users : i < tail
        THEN <<turns[Min(users)]>> \o SubSeq(turns, tail, n)
        ELSE SubSeq(turns, n - MaxTurns + 1, n)

\* What the model sees of the thread: not the turn that repeats the prompt.
HistoryTurns(r) ==
    LET turns == CompactTurns(work[r].thread)
    IN  IF turns # <<>> /\ Last(turns).role = "user" /\ Last(turns).text = work[r].prompt
        THEN Front(turns) ELSE turns

\* Mutant of LockArea: the model's area always wins.
LockAreaToModel(session, area, prompt) == IF area = None THEN session ELSE area

\* The city the user names now, else the session's, whatever the model says;
\* an area the model adds counts if the user's words contain it.
LockArea(session, area, prompt) ==
    IF CityFromPrompt(prompt) # None THEN CityFromPrompt(prompt)
    ELSE IF session = None THEN area
    ELSE IF area # None /\ area \in Mentions[prompt] THEN area
    ELSE session

\* The card made of the request alone.  The words of the prompt and of the
\* card it revises may decide the intent, else the revised card does.
FallbackRouteCard(r) ==
    LET named == CityFromPrompt(work[r].prompt)
        session == IF named # None THEN named ELSE ConversationArea(r)
        previous == work[r].previous
        kept == IF previous # <<>> /\ (named = None \/ named = previous[1].area)
                THEN {previous[1].intent} ELSE {"first_day"}
    IN  {[area |-> IF session # None THEN session ELSE work[r].default,
          intent |-> Normalized([intent |-> intent, icon |-> IconForIntent(intent)]).intent] :
            intent \in kept \cup Hints}

SuggestRouteCard(r) ==
    /\ Handling(r, "SuggestRouteCard") /\ work[r].valid
    /\ LET named == CityFromPrompt(work[r].prompt)
           session == IF named # None THEN named ELSE ConversationArea(r)
           Card(reply) ==
               LET area == LockArea(session, reply.area, work[r].prompt)
               IN  [area |-> IF area # None THEN area ELSE work[r].default,
                    intent |-> Normalized(reply.cards[1]).intent]
       IN  \E reply \in Replies :
             IF Json(reply) /\ reply.cards # <<>> /\ reply.cards[1].titled
             THEN Return(r, Card(reply))
             ELSE \E card \in FallbackRouteCard(r) : Return(r, card)

-----------------------------------------------------------------------------
AssistantStep(r) ==
    ParseIntent(r) \/ PickStops(r) \/ SuggestDayCards(r) \/ SuggestRouteCard(r)
=============================================================================
