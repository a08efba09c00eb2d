----------------------------- MODULE RateLimits -----------------------------
(***************************************************************************)
(* The rate limits: the LLM routes' limiter, over Redis or in the memory   *)
(* of the server, and the counters of the gateway, which are in Redis.     *)
(***************************************************************************)
EXTENDS Requests, FiniteSetsExt

CONSTANTS
    LLMLimit,    \* requests of one client a window lets through
    MaxWindows   \* bound on the windows that pass

ASSUME LLMLimitAssumption == LLMLimit \in Nat \ {0}

VARIABLES
    counters,   \* the counter of each key that has one, and whether it ends
    passed,     \* history: who was let through in the window of each counter
    windows     \* windows that have passed

limitVars == <<counters, passed, windows>>

Count(key) == IF key \in DOMAIN counters THEN counters[key].n ELSE 0
Ends(key) == key \in DOMAIN counters /\ counters[key].ends

Set(f, key, value) == [k \in DOMAIN f \cup {key} |-> IF k = key THEN value ELSE f[k]]

\* Mutant of WithinLimit: one request too many.
WithinLimitOrNext(n, limit) == n <= limit + 1

WithinLimit(n, limit) == n <= limit

LetThrough(key, r, limit) ==
    passed' = Set(passed, key,
                  (IF key \in DOMAIN passed THEN passed[key] ELSE {}) \cup {<<r, limit>>})

\* INCR: one step of Redis, which creates the counter, with no end to it.
Increment(key) == counters' = Set(counters, key, [n |-> Count(key) + 1, ends |-> Ends(key)])

\* EXPIRE on the first request of a window.  Its error is not looked at: then
\* the window never ends.
StartWindow(r, key) ==
    /\ \E ok \in Outcomes(r) :
         counters' = IF ok /\ key \in DOMAIN counters
                     THEN Set(counters, key, [n |-> Count(key), ends |-> TRUE])
                     ELSE counters

-----------------------------------------------------------------------------
(* The middleware RateLimit in front of the LLM routes.                    *)

LLMKey(r) == <<"llm", work[r].remote>>

\* MemoryRateLimiter.Allow, one step under its mutex: the count stops at the
\* limit, and a new window begins with the first request after the old one.
AllowInMemory(r) ==
    /\ at[r] = "llm limit" /\ ~redis
    /\ LET key == LLMKey(r)
       IN  IF WithinLimit(Count(key) + 1, LLMLimit)
           THEN /\ counters' = Set(counters, key, [n |-> Count(key) + 1, ends |-> TRUE])
                /\ LetThrough(key, r, LLMLimit)
                /\ Finish(r, 200)
           ELSE UNCHANGED <<counters, passed>> /\ Finish(r, 429)
    /\ UNCHANGED windows

\* RedisRateLimiter.Allow: when Redis does not answer, the request may pass.
AllowInRedis(r) ==
    /\ at[r] = "llm limit" /\ redis
    /\ LET key == LLMKey(r)
           n == Count(key) + 1
       IN  \E ok \in Outcomes(r) :
             IF ~ok THEN UNCHANGED <<counters, passed>> /\ Finish(r, 200)
             ELSE /\ Increment(key)
                  /\ IF n = 1 /\ WithinLimit(n, LLMLimit)
                     THEN LetThrough(key, r, LLMLimit) /\ Go(r, "llm window")
                     ELSE IF WithinLimit(n, LLMLimit)
                     THEN LetThrough(key, r, LLMLimit) /\ Finish(r, 200)
                     ELSE UNCHANGED passed /\ Finish(r, 429)
    /\ UNCHANGED windows

StartLLMWindow(r) ==
    /\ at[r] = "llm window"
    /\ StartWindow(r, LLMKey(r))
    /\ Finish(r, 200)
    /\ UNCHANGED <<passed, windows>>

-----------------------------------------------------------------------------
(* Pipeline.checkRateLimit.                                                *)

EndpointKey(r) == <<work[r].app, local[r].endpoint.id>>

Limited(r) == local[r].policy # None /\ local[r].policy.limit > 0 /\ redis

\* No limit, or no Redis to count in.
SkipLimit(r) ==
    /\ at[r] = "limit" /\ ~Limited(r)
    /\ Go(r, "intercept")
    /\ UNCHANGED limitVars

\* When Redis does not answer, the request is refused.
CheckRateLimit(r) ==
    /\ at[r] = "limit" /\ Limited(r)
    /\ LET key == EndpointKey(r)
           n == Count(key) + 1
           limit == local[r].policy.limit
       IN  \E ok \in Outcomes(r) :
             IF ~ok THEN UNCHANGED <<counters, passed>> /\ Finish(r, 429)
             ELSE /\ Increment(key)
                  /\ IF WithinLimit(n, limit)
                     THEN /\ LetThrough(key, r, limit)
                          /\ Go(r, IF n = 1 THEN "window" ELSE "intercept")
                     ELSE UNCHANGED passed /\ Finish(r, 429)
    /\ UNCHANGED windows

StartEndpointWindow(r) ==
    /\ at[r] = "window"
    /\ StartWindow(r, EndpointKey(r))
    /\ Go(r, "intercept")
    /\ UNCHANGED <<passed, windows>>

\* The window of a counter passes.
EndWindow(key) ==
    /\ Ends(key) /\ windows < MaxWindows
    /\ windows' = windows + 1
    /\ counters' = [k \in DOMAIN counters \ {key} |-> counters[k]]
    /\ passed' = [k \in DOMAIN passed \ {key} |-> passed[k]]
    /\ UNCHANGED requestVars

LimitStep(r) ==
    \/ AllowInMemory(r) \/ AllowInRedis(r) \/ StartLLMWindow(r)
    \/ SkipLimit(r) \/ CheckRateLimit(r) \/ StartEndpointWindow(r)
=============================================================================
