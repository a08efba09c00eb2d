----------------------------- MODULE EventFeed -----------------------------
(***************************************************************************)
(* What the event bus promises its users, whatever carries the events: a   *)
(* published event is taken or lost for good, and the handlers see the     *)
(* taken ones in the order they were taken, each of them once.             *)
(***************************************************************************)
EXTENDS Naturals, Sequences

CONSTANT Events

VARIABLES
    taken,   \* events the bus has accepted, in order
    lost,    \* events it was given and will never hand to a handler
    handled  \* how many of the accepted events the handlers are done with

feedVars == <<taken, lost, handled>>

New(e) == e \notin lost /\ \A i \in 1..Len(taken) : taken[i] # e

FeedInit ==
    /\ taken = <<>>
    /\ lost = {}
    /\ handled = 0

Take(e) ==
    /\ New(e)
    /\ taken' = Append(taken, e)
    /\ UNCHANGED <<lost, handled>>

Lose(e) ==
    /\ New(e)
    /\ lost' = lost \cup {e}
    /\ UNCHANGED <<taken, handled>>

HandleNext ==
    /\ handled < Len(taken)
    /\ handled' = handled + 1
    /\ UNCHANGED <<taken, lost>>

FeedNext == (\E e \in Events : Take(e) \/ Lose(e)) \/ HandleNext

FeedSpec == FeedInit /\ [][FeedNext]_feedVars /\ WF_feedVars(HandleNext)
=============================================================================
