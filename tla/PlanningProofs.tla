--------------------------- MODULE PlanningProofs ---------------------------
(***************************************************************************)
(* Proofs about the planning side for every number of requests, places and *)
(* attempts: that requests keep to their points, and that no itinerary has *)
(* a stop which nobody vouches for.                                        *)
(***************************************************************************)
EXTENDS Planning, SequenceTheorems, FiniteSetTheorems, WellFoundedInduction, TLAPS

-----------------------------------------------------------------------------
(* Induction, for sets: a least number outside of S would have a smaller   *)
(* one before it.                                                          *)

LEMMA Induction ==
    ASSUME NEW S, 0 \in S, \A n \in Nat : n \in S => n + 1 \in S
    PROVE  \A n \in Nat : n \in S
<1> DEFINE T == Nat \ S
<1>1. SUFFICES ASSUME T # {} PROVE FALSE
  OBVIOUS
<1>2. \E x \in T : \A y \in T : <<y, x>> \notin OpToRel(<, Nat)
  BY <1>1, WFMin, NatLessThanWellFounded
<1>3. \E x \in T : \A y \in T : ~(y < x)
  BY <1>2 DEF OpToRel
<1> QED
  BY <1>3

\* The same up to a bound.
LEMMA InductionUpTo ==
    ASSUME NEW m \in Nat, NEW S, 0 \in S, \A n \in 0..(m - 1) : n \in S => n + 1 \in S
    PROVE  \A n \in 0..m : n \in S
<1> DEFINE T == {n \in Nat : n <= m => n \in S}
<1>1. 0 \in T /\ \A n \in Nat : n \in T => n + 1 \in T
  OBVIOUS
<1>2. \A n \in Nat : n \in T
  BY <1>1, Induction
<1> QED
  BY <1>2

LEMMA MaxOfSome ==
    ASSUME NEW n \in Nat, NEW s \in SUBSET (1..n), s # {}
    PROVE  Max(s) \in s /\ \A i \in s : i <= Max(s)
<1> DEFINE P == {m \in Nat : \A t \in SUBSET (1..m) : t # {} => \E x \in t : \A i \in t : x >= i}
<1>1. 0 \in P
  <2>1. \A t \in SUBSET (1..0) : t = {}
    OBVIOUS
  <2> QED
    BY <2>1
<1>2. ASSUME NEW m \in Nat, m \in P PROVE m + 1 \in P
  <2>1. SUFFICES ASSUME NEW t \in SUBSET (1..(m + 1)), t # {} PROVE \E x \in t : \A i \in t : x >= i
    OBVIOUS
  <2>2. CASE m + 1 \in t
    BY <2>2
  <2>3. CASE m + 1 \notin t
    <3>1. t \in SUBSET (1..m)
      BY <2>3
    <3> QED
      BY <3>1, <2>1, <1>2
  <2> QED
    BY <2>2, <2>3
<1>3. n \in P
  BY <1>1, <1>2, Induction
<1>4. \E x \in s : \A i \in s : x >= i
  BY <1>3
<1>5. Max(s) \in s /\ \A i \in s : Max(s) >= i
  BY <1>4 DEF Max
<1>6. \A i \in s : i \in 1..n
  OBVIOUS
<1> HIDE DEF P
<1>7. Max(s) \in 1..n
  BY <1>5, <1>6
<1> QED
  BY <1>5, <1>6, <1>7

-----------------------------------------------------------------------------
(* Folds over lists: there is a function as the library's fold asks for,   *)
(* so its value is that of the last of a sequence of steps.                *)

Folds(A, a0, n, step, h) ==
    /\ h \in [SUBSET (1..n) -> A]
    /\ \A s \in SUBSET (1..n) : h[s] = IF s = {} THEN a0 ELSE step[<<Max(s), h[s \ {Max(s)}]>>]

LEMMA FoldExists ==
    ASSUME NEW A, NEW a0 \in A, NEW n \in Nat, NEW step \in [(1..n) \X A -> A]
    PROVE  \E h : Folds(A, a0, n, step, h)
<1> DEFINE P == {m \in Nat : \E h : Folds(A, a0, m, step, h)}
<1>1. 0 \in P
  <2> DEFINE h0 == [s \in SUBSET (1..0) |-> a0]
  <2>1. \A s \in SUBSET (1..0) : s = {}
    OBVIOUS
  <2>2. Folds(A, a0, 0, step, h0)
    <3>1. h0 \in [SUBSET (1..0) -> A] /\ \A s \in SUBSET (1..0) : h0[s] = a0
      OBVIOUS
    <3> HIDE DEF h0
    <3> QED
      BY <2>1, <3>1 DEF Folds
  <2> QED
    BY <2>2
<1>2. ASSUME NEW m \in 0..(n - 1), m \in P PROVE m + 1 \in P
  <2>1. PICK h : Folds(A, a0, m, step, h)
    BY <1>2
  <2> DEFINE g == [s \in SUBSET (1..(m + 1)) |->
                     IF m + 1 \in s THEN step[<<m + 1, h[s \ {m + 1}]>>] ELSE h[s]]
  <2>2. ASSUME NEW s \in SUBSET (1..(m + 1)), m + 1 \in s
        PROVE  g[s] \in A /\ g[s] = step[<<Max(s), g[s \ {Max(s)}]>>]
    <3>1. Max(s) = m + 1
      <4>1. m + 1 \in Nat /\ s # {}
        BY <2>2
      <4>2. Max(s) \in s /\ \A i \in s : i <= Max(s)
        BY <4>1, MaxOfSome
      <4>3. Max(s) \in 1..(m + 1) /\ m + 1 <= Max(s)
        BY <2>2, <4>2
      <4> QED
        BY <4>3
    <3>2. s \ {m + 1} \in SUBSET (1..m)
      BY <2>2
    <3>3. s \ {m + 1} \in SUBSET (1..(m + 1))
      OBVIOUS
    <3>4. g[s \ {m + 1}] = h[s \ {m + 1}]
      BY <3>3
    <3>5. h[s \ {m + 1}] \in A
      BY <3>2, <2>1 DEF Folds
    <3>6. m + 1 \in 1..n
      OBVIOUS
    <3> QED
      BY <3>1, <3>4, <3>5, <3>6, <2>2
  <2>3. ASSUME NEW s \in SUBSET (1..(m + 1)), m + 1 \notin s
        PROVE  g[s] \in A /\ g[s] = IF s = {} THEN a0 ELSE step[<<Max(s), g[s \ {Max(s)}]>>]
    <3>1. s \in SUBSET (1..m) /\ s \ {Max(s)} \in SUBSET (1..m)
      <4>1. \A i \in s : i \in 1..m
        BY <2>3
      <4> QED
        BY <4>1
    <3>2. g[s] = h[s] /\ g[s \ {Max(s)}] = h[s \ {Max(s)}]
      BY <2>3, <3>1
    <3>3. h[s] \in A /\ h[s] = IF s = {} THEN a0 ELSE step[<<Max(s), h[s \ {Max(s)}]>>]
      BY <3>1, <2>1 DEF Folds
    <3> QED
      BY <3>2, <3>3
  <2>4. ASSUME NEW s \in SUBSET (1..(m + 1))
        PROVE  g[s] \in A /\ g[s] = IF s = {} THEN a0 ELSE step[<<Max(s), g[s \ {Max(s)}]>>]
    BY <2>2, <2>3
  <2>5. m + 1 \in Nat
    OBVIOUS
  <2>6. Folds(A, a0, m + 1, step, g)
    <3> HIDE DEF g
    <3>1. g = [s \in SUBSET (1..(m + 1)) |-> g[s]]
      BY DEF g
    <3>2. g \in [SUBSET (1..(m + 1)) -> A]
      BY <3>1, <2>4
    <3> QED
      BY <3>2, <2>4 DEF Folds
  <2> HIDE DEF g
  <2> QED
    BY <2>5, <2>6
<1>3. n \in P
  <2> HIDE DEF P
  <2>1. \A m \in 0..n : m \in P
    BY <1>1, <1>2, InductionUpTo
  <2> QED
    BY <2>1
<1> QED
  BY <1>3

\* The prefix before the prefix of k elements.
LEMMA PrefixBefore ==
    ASSUME NEW k \in Nat, k # 0
    PROVE  1..k # {} /\ Max(1..k) = k /\ (1..k) \ {Max(1..k)} = 1..(k - 1)
<1>1. 1..k \in SUBSET (1..k) /\ k \in 1..k
  OBVIOUS
<1>2. Max(1..k) \in 1..k /\ \A i \in 1..k : i <= Max(1..k)
  BY <1>1, MaxOfSome
<1> QED
  BY <1>1, <1>2

LEMMA AppendRange ==
    ASSUME NEW T, NEW q \in Seq(T), NEW x
    PROVE  Range(Append(q, x)) = Range(q) \cup {x}
<1>1. DOMAIN q = 1..Len(q) /\ Len(q) \in Nat
  BY LenProperties
<1>2. DOMAIN Append(q, x) = 1..(Len(q) + 1) /\ Append(q, x)[Len(q) + 1] = x
      /\ \A i \in 1..Len(q) : Append(q, x)[i] = q[i]
  BY <1>1
<1> QED
  BY <1>1, <1>2 DEF Range

\* Keep, one element after the other: kept[k] is what is kept of the first k.
LEMMA KeepSteps ==
    ASSUME NEW T, NEW list \in Seq(T), NEW S
    PROVE  \E kept \in [0..Len(list) -> Seq(T)] :
              /\ kept[0] = <<>> /\ Keep(list, S) = kept[Len(list)]
              /\ \A k \in 1..Len(list) :
                    kept[k] = IF list[k] \in S THEN Append(kept[k - 1], list[k]) ELSE kept[k - 1]
<1> DEFINE n == Len(list)
           step == [p \in (1..n) \X Seq(T) |->
                      IF list[p[1]] \in S THEN Append(p[2], list[p[1]]) ELSE p[2]]
           F(h) == [s \in SUBSET DOMAIN list |->
                      IF s = {} THEN <<>>
                      ELSE IF list[Max(s)] \in S THEN Append(h[s \ {Max(s)}], list[Max(s)])
                           ELSE h[s \ {Max(s)}]]
<1>1. n \in Nat /\ DOMAIN list = 1..n /\ \A i \in 1..n : list[i] \in T
  BY LenProperties, ElementOfSeq
<1>2. step \in [(1..n) \X Seq(T) -> Seq(T)]
  BY <1>1, AppendProperties
<1>3. <<>> \in Seq(T)
  BY EmptySeq
<1>4. \A i \in 1..n, q \in Seq(T) :
         step[<<i, q>>] = IF list[i] \in S THEN Append(q, list[i]) ELSE q
  OBVIOUS
<1> HIDE DEF step, n
<1>5. \E h : h = F(h)
  <2>1. PICK h : Folds(Seq(T), <<>>, n, step, h)
    BY <1>1, <1>2, <1>3, FoldExists
  <2>2. ASSUME NEW s \in SUBSET (1..n)
        PROVE  h[s] = IF s = {} THEN <<>>
                      ELSE IF list[Max(s)] \in S THEN Append(h[s \ {Max(s)}], list[Max(s)])
                           ELSE h[s \ {Max(s)}]
    <3>1. CASE s = {}
      BY <2>1, <3>1 DEF Folds
    <3>2. CASE s # {}
      <4>1. Max(s) \in 1..n
        BY <1>1, <3>2, MaxOfSome
      <4>2. h[s \ {Max(s)}] \in Seq(T)
        BY <2>1 DEF Folds
      <4> QED
        BY <2>1, <3>2, <4>1, <4>2, <1>4 DEF Folds
    <3> QED
      BY <3>1, <3>2
  <2>3. h = [s \in SUBSET (1..n) |-> h[s]]
    BY <2>1 DEF Folds
  <2> QED
    BY <2>2, <2>3, <1>1, ZenonT(40)
<1>6. PICK h : h = F(h) /\ Keep(list, S) = h[DOMAIN list]
  <2>1. Keep(list, S) = (CHOOSE h : h = F(h))[DOMAIN list]
    BY DEF Keep, FoldLeft, MapThenFoldSet
  <2> QED
    BY <1>5, <2>1
<1>7. h[1..0] = <<>>
  <2>1. 1..0 = {} /\ {} \in SUBSET DOMAIN list
    OBVIOUS
  <2> QED
    BY <1>6, <2>1
<1>8. \A k \in 1..n : h[1..k] = IF list[k] \in S THEN Append(h[1..(k - 1)], list[k])
                                ELSE h[1..(k - 1)]
  <2>1. SUFFICES ASSUME NEW k \in 1..n
                 PROVE  h[1..k] = IF list[k] \in S THEN Append(h[1..(k - 1)], list[k])
                                  ELSE h[1..(k - 1)]
    OBVIOUS
  <2>2. 1..k \in SUBSET DOMAIN list /\ k \in Nat /\ k # 0
    BY <1>1
  <2>3. 1..k # {} /\ Max(1..k) = k /\ (1..k) \ {Max(1..k)} = 1..(k - 1)
    BY <2>2, PrefixBefore
  <2> QED
    BY <1>6, <2>2, <2>3
<1>9. \A k \in 0..n : h[1..k] \in Seq(T)
  <2> DEFINE P == {k \in 0..n : h[1..k] \in Seq(T)}
  <2>1. 0 \in P
    <3>1. 0 \in 0..n /\ h[1..0] \in Seq(T)
      BY <1>1, <1>3, <1>7
    <3> QED
      BY <3>1
  <2>2. ASSUME NEW k \in 0..(n - 1), k \in P PROVE k + 1 \in P
    <3>1. k + 1 \in 1..n /\ (k + 1) - 1 = k /\ h[1..k] \in Seq(T) /\ list[k + 1] \in T
      BY <1>1, <2>2
    <3>2. h[1..(k + 1)] = IF list[k + 1] \in S THEN Append(h[1..k], list[k + 1]) ELSE h[1..k]
      BY <1>8, <3>1
    <3>3. h[1..(k + 1)] \in Seq(T)
      BY <3>1, <3>2, AppendProperties
    <3> QED
      BY <3>1, <3>3
  <2> HIDE DEF P
  <2>3. \A k \in 0..n : k \in P
    BY <1>1, <2>1, <2>2, InductionUpTo
  <2> QED
    BY <2>3 DEF P
<1> DEFINE kept == [k \in 0..n |-> h[1..k]]
<1>10. kept \in [0..n -> Seq(T)]
  BY <1>9
<1>11. kept[0] = <<>> /\ Keep(list, S) = kept[n]
  BY <1>1, <1>6, <1>7
<1>12. \A k \in 1..n : kept[k] = IF list[k] \in S THEN Append(kept[k - 1], list[k]) ELSE kept[k - 1]
  BY <1>1, <1>8
<1> HIDE DEF kept
<1> QED
  BY <1>10, <1>11, <1>12 DEF n

\* What is kept is a list of what is in the list and in the set.
LEMMA Keeps ==
    ASSUME NEW T, NEW list \in Seq(T), NEW S
    PROVE  Keep(list, S) \in Seq(T) /\ Range(Keep(list, S)) = Range(list) \cap S
<1> DEFINE n == Len(list)
<1>1. PICK kept \in [0..n -> Seq(T)] :
              /\ kept[0] = <<>> /\ Keep(list, S) = kept[n]
              /\ \A k \in 1..n :
                    kept[k] = IF list[k] \in S THEN Append(kept[k - 1], list[k]) ELSE kept[k - 1]
  BY KeepSteps
<1>2. n \in Nat /\ DOMAIN list = 1..n
  BY LenProperties
<1> HIDE DEF n
<1> DEFINE P == {k \in 0..n : Range(kept[k]) = {list[i] : i \in 1..k} \cap S}
<1>3. 0 \in P
  <2>1. Range(<<>>) = {} /\ 0 \in 0..n
    BY <1>2 DEF Range
  <2>2. {list[i] : i \in 1..0} = {}
    OBVIOUS
  <2> QED
    BY <1>1, <2>1, <2>2
<1>4. ASSUME NEW k \in 0..(n - 1), k \in P PROVE k + 1 \in P
  <2>1. k + 1 \in 1..n /\ (k + 1) - 1 = k /\ k \in 0..n /\ k + 1 \in 0..n
    BY <1>2
  <2>2. kept[k + 1] = IF list[k + 1] \in S THEN Append(kept[k], list[k + 1]) ELSE kept[k]
    BY <1>1, <2>1
  <2>3. {list[i] : i \in 1..(k + 1)} = {list[i] : i \in 1..k} \cup {list[k + 1]}
    <3>1. 1..(k + 1) = (1..k) \cup {k + 1}
      BY <2>1
    <3> QED
      BY <3>1
  <2>4. Range(Append(kept[k], list[k + 1])) = Range(kept[k]) \cup {list[k + 1]}
    BY <2>1, AppendRange
  <2> QED
    BY <1>4, <2>1, <2>2, <2>3, <2>4
<1>5. n \in P
  <2> HIDE DEF P
  <2>1. \A k \in 0..n : k \in P
    BY <1>2, <1>3, <1>4, InductionUpTo
  <2> QED
    BY <1>2, <2>1
<1>6. Range(kept[n]) = {list[i] : i \in 1..n} \cap S
  BY <1>5
<1>7. Range(list) = {list[i] : i \in 1..n}
  BY <1>2 DEF Range
<1> QED
  BY <1>1, <1>2, <1>6, <1>7

-----------------------------------------------------------------------------
(* Lists, whatever their elements.                                         *)

IsList(s) == s \in Seq(Range(s))

LEMMA ListOf ==
    ASSUME NEW T, NEW s \in Seq(T)
    PROVE  IsList(s) /\ Range(s) \subseteq T
<1>1. Range(s) \subseteq T
  BY LenProperties, ElementOfSeq DEF Range
<1> QED
  BY <1>1, SeqOfRange DEF IsList

LEMMA ListDomain ==
    ASSUME NEW s, IsList(s)
    PROVE  Len(s) \in Nat /\ DOMAIN s = 1..Len(s) /\ \A i \in DOMAIN s : s[i] \in Range(s)
BY LenProperties DEF IsList, Range

LEMMA FunctionIsList ==
    ASSUME NEW n \in Nat, NEW T, NEW f \in [1..n -> T]
    PROVE  IsList(f) /\ f \in Seq(T)
<1>1. f \in Seq(T)
  OBVIOUS
<1> QED
  BY <1>1, ListOf

LEMMA EmptyList == IsList(<<>>) /\ Range(<<>>) = {} /\ Range(Ids(<<>>)) = {}
BY EmptySeq DEF IsList, Range, Ids

LEMMA IdsOf ==
    ASSUME NEW list, IsList(list)
    PROVE  /\ IsList(Ids(list)) /\ DOMAIN Ids(list) = DOMAIN list
           /\ Range(Ids(list)) = {p.id : p \in Range(list)}
<1>1. Len(list) \in Nat /\ DOMAIN list = 1..Len(list)
  BY ListDomain
<1>2. Ids(list) \in [1..Len(list) -> {p.id : p \in Range(list)}]
  BY <1>1 DEF Ids, Range
<1>3. IsList(Ids(list))
  BY <1>1, <1>2, FunctionIsList
<1> QED
  BY <1>3 DEF Ids, Range

LEMMA AppendList ==
    ASSUME NEW q, IsList(q), NEW x
    PROVE  /\ IsList(Append(q, x)) /\ Range(Append(q, x)) = Range(q) \cup {x}
           /\ Range(Ids(Append(q, x))) = Range(Ids(q)) \cup {x.id}
<1>1. Range(Append(q, x)) = Range(q) \cup {x}
  BY AppendRange DEF IsList
<1>2. q \in Seq(Range(q) \cup {x})
  BY SeqMonotonic DEF IsList
<1>3. Append(q, x) \in Seq(Range(q) \cup {x})
  BY <1>2, AppendProperties
<1>4. IsList(Append(q, x))
  BY <1>3, ListOf
<1>5. Range(Ids(Append(q, x))) = {p.id : p \in Range(q) \cup {x}} /\ Range(Ids(q)) = {p.id : p \in Range(q)}
  BY <1>1, <1>4, IdsOf
<1> QED
  BY <1>1, <1>4, <1>5

LEMMA TailList ==
    ASSUME NEW q, IsList(q), q # <<>>
    PROVE  IsList(Tail(q)) /\ Range(q) = {Head(q)} \cup Range(Tail(q))
<1>1. /\ Len(q) \in Nat /\ Len(q) # 0 /\ DOMAIN q = 1..Len(q) /\ Head(q) = q[1]
      /\ Tail(q) \in Seq(Range(q)) /\ Len(Tail(q)) = Len(q) - 1
      /\ \A i \in 1..Len(Tail(q)) : Tail(q)[i] = q[i + 1]
  BY EmptySeq, LenProperties DEF IsList
<1>2. DOMAIN Tail(q) = 1..(Len(q) - 1)
  BY <1>1, LenProperties
<1>3. ASSUME NEW x \in Range(q) PROVE x = Head(q) \/ x \in Range(Tail(q))
  <2>1. PICK i \in 1..Len(q) : x = q[i]
    BY <1>1 DEF Range
  <2>2. CASE i = 1
    BY <1>1, <2>1, <2>2
  <2>3. CASE i # 1
    <3>1. i - 1 \in DOMAIN Tail(q) /\ Tail(q)[i - 1] = q[i]
      BY <1>1, <1>2, <2>3
    <3> QED
      BY <2>1, <3>1 DEF Range
  <2> QED
    BY <2>2, <2>3
<1>4. IsList(Tail(q)) /\ Range(Tail(q)) \subseteq Range(q)
  BY <1>1, ListOf
<1>5. Head(q) \in Range(q)
  BY <1>1 DEF Range
<1> QED
  BY <1>3, <1>4, <1>5

-----------------------------------------------------------------------------
(* The invariant.                                                          *)

\* A request has been answered, or is on its way, or asks for nothing yet.
ShapeOK ==
    /\ at \in [Requests -> ServerPoints \cup {"idle", "done", "lost"}]
    /\ DOMAIN local = Requests /\ DOMAIN answer = Requests /\ DOMAIN work = Requests
    /\ provider \in {"mock", "google"}
    /\ \A r \in Requests : /\ {"user", "stops"} \subseteq DOMAIN work[r]
                          /\ IsList(work[r].stops)
                          /\ (answer[r].status # 0 <=> at[r] = "done")

TablesOK ==
    /\ DOMAIN placeRows \subseteq Places0
    /\ \A key \in DOMAIN searchRows :
          /\ {"ids", "fresh"} \subseteq DOMAIN searchRows[key]
          /\ IsList(searchRows[key].ids) /\ Range(searchRows[key].ids) \subseteq Places0

NoFixtures(ids) == provider = "google" => Range(ids) \cap Fixtures = {}
Vouched(route) == route.provider = "google" => Range(route.places) \cap Fixtures = {}

\* The places of a route are looked up, or the stops of an itinerary.
Resolving(p) == p \in {"resolve", "call get"}
Routing(p, m) ==
    \/ Resolving(p) /\ m.purpose = "route"
    \/ p \in {"route", "call route", "call again", "call leg"}
Storing(p, m) == p = "ground" \/ (Resolving(p) /\ m.purpose \in {"ground", "details"})

\* What the goroutine of r remembers, m, when it is at p.
HandOK(r, p, m) ==
    /\ DOMAIN m = DOMAIN Memory /\ m.tries \in 0..(MaxAttempts - 1)
    /\ IsList(m.list) /\ IsList(m.stops) /\ IsList(m.got)
    /\ p \in {"store search", "found"} => NoFixtures(Ids(m.list))
    /\ p = "store search" => Range(Ids(m.list)) \subseteq Places0
    /\ p = "call get" => m.todo # <<>>
    /\ Routing(p, m) => NoFixtures(Ids(m.got))
    /\ (Resolving(p) /\ m.purpose = "ground") =>
          /\ IsList(m.todo)
          /\ \A id \in Range(Ids(m.stops)) : Canon(id) \in Places0 \/ id \in Range(m.todo)
    /\ (Resolving(p) /\ m.purpose = "details") =>
          /\ IsList(m.todo)
          /\ \A id \in Range(m.todo) \cup Range(Ids(m.got)) : Canon(id) \in Places0
    /\ p = "routed" \/ (Storing(p, m) /\ work[r].op = "PlanDay") => Vouched(m.route)

AnswerOK(r) ==
    (/\ at[r] = "done" /\ answer[r].status = 200
     /\ work[r].op \in {"SearchPlaces", "BuildRoute", "PlanDay"}) => Vouched(answer[r].rows)

ItinerariesOK ==
    \A it \in itineraries :
        /\ it.id \in Requests /\ it.user = work[it.id].user
        /\ \A i \in DOMAIN it.stops : Canon(it.stops[i].id) \in Places0

PlanIInv ==
    /\ ShapeOK /\ TablesOK /\ ItinerariesOK
    /\ \A r \in Requests : HandOK(r, at[r], local[r]) /\ AnswerOK(r)

\* Going from here to there.
LEMMA PlanTypes == ASSUME PlanIInv PROVE PlanningTypeOK
<1>1. ASSUME NEW r \in Requests PROVE local[r].tries < MaxAttempts
  <2>1. local[r].tries \in 0..(MaxAttempts - 1)
    BY <1>1 DEF PlanIInv, HandOK
  <2>2. MaxAttempts \in Nat
    BY PlacesAssumption
  <2> QED
    BY <2>1, <2>2
<1>2. at \in [Requests -> ServerPoints \cup {"idle", "done", "lost"}]
      /\ \A r \in Requests : (answer[r].status # 0) <=> at[r] = "done"
  BY DEF PlanIInv, ShapeOK
<1>3. /\ \A id \in DOMAIN placeRows : id \in Known \cup Fixtures
      /\ \A key \in DOMAIN searchRows : Range(searchRows[key].ids) \subseteq Known \cup Fixtures
  BY DEF PlanIInv, TablesOK, Places0
<1> QED
  BY <1>1, <1>2, <1>3 DEF PlanningTypeOK

LEMMA PlanGrounded == ASSUME PlanIInv PROVE PlansAreGrounded
BY DEF PlanIInv, ItinerariesOK, AnswerOK, Vouched, PlansAreGrounded

LEMMA EmptyMemory ==
    ASSUME NEW r, NEW p \in {"arrived", "idle"}
    PROVE  HandOK(r, p, Memory)
<1>1. Memory.list = <<>> /\ Memory.stops = <<>> /\ Memory.got = <<>> /\ Memory.tries = 0
  BY DEF Memory
<1>2. Memory.tries \in 0..(MaxAttempts - 1)
  BY <1>1, PlacesAssumption
<1> QED
  BY <1>1, <1>2, EmptyList DEF HandOK, Routing, Resolving, Storing

LEMMA PlanInitOK == PlanningInit => PlanIInv
<1> SUFFICES ASSUME PlanningInit PROVE PlanIInv
  OBVIOUS
<1>1. ShapeOK
  <2>1. \A r \in Requests : answer[r].status = 0 /\ at[r] \in {"arrived", "idle"}
    BY DEF PlanningInit, NoAnswer
  <2>2. DOMAIN work = Requests /\ \A r \in Requests : {"user", "stops"} \subseteq DOMAIN work[r] /\ IsList(work[r].stops)
    BY AskedAssumption DEF PlanningInit, IsList, Asked, AskedFields
  <2> QED
    BY <2>1, <2>2 DEF PlanningInit, ShapeOK, ServerPoints
<1>2. TablesOK /\ ItinerariesOK
  <2>1. DOMAIN placeRows = {} /\ DOMAIN searchRows = {}
    BY EmptySeq, LenProperties DEF PlanningInit
  <2> QED
    BY <2>1 DEF PlanningInit, TablesOK, ItinerariesOK
<1>3. ASSUME NEW r \in Requests PROVE HandOK(r, at[r], local[r]) /\ AnswerOK(r)
  <2>1. at[r] \in {"arrived", "idle"} /\ local[r] = Memory
    BY DEF PlanningInit
  <2> QED
    BY <2>1, EmptyMemory DEF AnswerOK
<1> QED
  BY <1>1, <1>2, <1>3 DEF PlanIInv

-----------------------------------------------------------------------------
(* Steps of one request.                                                   *)

LEMMA OnlyOne ==
    ASSUME PlanIInv, NEW r \in Requests, provider' = provider,
           \A q \in Requests \ {r} : /\ at'[q] = at[q] /\ local'[q] = local[q]
                                     /\ answer'[q] = answer[q] /\ work'[q] = work[q],
           ShapeOK', TablesOK', ItinerariesOK',
           HandOK(r, at[r], local[r])', AnswerOK(r)'
    PROVE  PlanIInv'
<1>1. ASSUME NEW q \in Requests \ {r} PROVE HandOK(q, at[q], local[q])' /\ AnswerOK(q)'
  <2>1. HandOK(q, at[q], local[q]) /\ AnswerOK(q)
    BY DEF PlanIInv
  <2>2. HandOK(q, at[q], local[q])'
    BY <2>1 DEF HandOK, Routing, Resolving, Storing, NoFixtures, Vouched
  <2>3. AnswerOK(q)'
    BY <2>1 DEF AnswerOK, Vouched
  <2> QED
    BY <2>2, <2>3
<1>2. \A q \in Requests : HandOK(q, at[q], local[q])' /\ AnswerOK(q)'
  BY <1>1
<1> QED
  BY <1>2 DEF PlanIInv

LEMMA SameTables ==
    ASSUME TablesOK, UNCHANGED placesVars PROVE TablesOK'
BY DEF TablesOK, placesVars

LEMMA SameItineraries ==
    ASSUME ItinerariesOK, UNCHANGED <<work, itineraries>> PROVE ItinerariesOK'
BY DEF ItinerariesOK

LEMMA Going ==
    ASSUME PlanIInv, NEW r \in Requests, at[r] \in ServerPoints, NEW p \in ServerPoints, NEW m,
           GoWith(r, p, m), HandOK(r, p, m), TablesOK', UNCHANGED <<provider, itineraries>>
    PROVE  PlanIInv'
<1>1. at'[r] = p /\ local'[r] = m /\ at' \in [Requests -> ServerPoints \cup {"idle", "done", "lost"}]
      /\ UNCHANGED <<work, redis, answer, published>> /\ DOMAIN local' = Requests
  BY DEF GoWith, PlanIInv, ShapeOK
<1>2. \A q \in Requests \ {r} : at'[q] = at[q] /\ local'[q] = local[q]
  BY DEF GoWith, PlanIInv, ShapeOK
<1>3. p # "done" /\ at[r] # "done" /\ answer[r].status = 0
  <2>1. p # "done" /\ at[r] # "done"
    BY DEF ServerPoints
  <2>2. (answer[r].status # 0) <=> at[r] = "done"
    BY DEF PlanIInv, ShapeOK
  <2> QED
    BY <2>1, <2>2
<1>4. ShapeOK'
  BY <1>1, <1>2, <1>3 DEF PlanIInv, ShapeOK
<1>5. ItinerariesOK'
  BY <1>1, SameItineraries DEF PlanIInv
<1>6. HandOK(r, at[r], local[r])'
  BY <1>1 DEF HandOK, Routing, Resolving, Storing, NoFixtures, Vouched
<1>7. AnswerOK(r)'
  BY <1>1, <1>3 DEF AnswerOK
<1> QED
  BY <1>1, <1>2, <1>4, <1>5, <1>6, <1>7, OnlyOne

LEMMA GoingOn ==
    ASSUME PlanIInv, NEW r \in Requests, at[r] \in ServerPoints, NEW p \in ServerPoints, NEW m,
           GoWith(r, p, m), HandOK(r, p, m), UNCHANGED <<placesVars, itineraries>>
    PROVE  PlanIInv'
BY Going, SameTables DEF placesVars, PlanIInv

LEMMA Answering ==
    ASSUME PlanIInv, NEW r \in Requests, at[r] \in ServerPoints, NEW a, a.status # 0,
           (a.status = 200 /\ work[r].op \in {"SearchPlaces", "BuildRoute", "PlanDay"}) =>
               Vouched(a.rows),
           at' = [at EXCEPT ![r] = "done"], answer' = [answer EXCEPT ![r] = a],
           UNCHANGED <<work, local, placesVars>>, ItinerariesOK'
    PROVE  PlanIInv'
<1>1. at'[r] = "done" /\ answer'[r] = a /\ DOMAIN answer' = Requests
      /\ at' \in [Requests -> ServerPoints \cup {"idle", "done", "lost"}]
  BY DEF PlanIInv, ShapeOK
<1>2. \A q \in Requests \ {r} : at'[q] = at[q] /\ answer'[q] = answer[q]
  BY DEF PlanIInv, ShapeOK
<1>3. ShapeOK'
  <2>1. \A q \in Requests : (answer'[q].status # 0) <=> at'[q] = "done"
    BY <1>1, <1>2 DEF PlanIInv, ShapeOK
  <2> QED
    BY <1>1, <2>1 DEF PlanIInv, ShapeOK, placesVars
<1>4. TablesOK'
  BY SameTables DEF PlanIInv
<1>5. HandOK(r, at[r], local[r])'
  BY <1>1 DEF PlanIInv, HandOK, Routing, Resolving, Storing
<1>6. AnswerOK(r)'
  BY <1>1 DEF AnswerOK, Vouched
<1> QED
  BY <1>1, <1>2, <1>3, <1>4, <1>5, <1>6, OnlyOne DEF placesVars

LEMMA Ending ==
    ASSUME PlanIInv, NEW r \in Requests, at[r] \in ServerPoints, NEW status, status \notin {0, 200},
           Finish(r, status), UNCHANGED placesVars, ItinerariesOK'
    PROVE  PlanIInv'
<1> DEFINE a == [status |-> status, rows |-> {}]
<1>1. a.status = status
  OBVIOUS
<1>2. answer' = [answer EXCEPT ![r] = a]
  BY DEF Finish
<1> HIDE DEF a
<1> QED
  BY <1>1, <1>2, Answering DEF Finish

LEMMA Refusing ==
    ASSUME PlanIInv, NEW r \in Requests, at[r] \in ServerPoints, NEW status, status \notin {0, 200},
           Finish(r, status), UNCHANGED <<placesVars, itineraries>>
    PROVE  PlanIInv'
<1>1. UNCHANGED <<work, itineraries>>
  BY DEF Finish
<1>2. ItinerariesOK'
  BY <1>1, SameItineraries DEF PlanIInv
<1> QED
  BY <1>2, Ending

LEMMA Returning ==
    ASSUME PlanIInv, NEW r \in Requests, at[r] \in ServerPoints, NEW rows, Return(r, rows),
           work[r].op \in {"SearchPlaces", "BuildRoute", "PlanDay"} => Vouched(rows),
           UNCHANGED placesVars, ItinerariesOK'
    PROVE  PlanIInv'
<1> DEFINE a == [status |-> 200, rows |-> rows]
<1>1. a.status = 200 /\ a.rows = rows
  OBVIOUS
<1>2. answer' = [answer EXCEPT ![r] = a]
  BY DEF Return
<1> HIDE DEF a
<1>3. at' = [at EXCEPT ![r] = "done"] /\ UNCHANGED <<work, local, placesVars>>
  BY DEF Return
<1>4. a.status # 0
  BY <1>1
<1>5. (a.status = 200 /\ work[r].op \in {"SearchPlaces", "BuildRoute", "PlanDay"}) =>
         Vouched(a.rows)
  BY <1>1
<1> QED
  BY <1>2, <1>3, <1>4, <1>5, Answering

\* Going on with the same memory, or with lists to resolve.
LEMMA GoingAhead ==
    ASSUME PlanIInv, NEW r \in Requests, at[r] \in ServerPoints, NEW p \in ServerPoints,
           Go(r, p), HandOK(r, p, local[r]), UNCHANGED <<placesVars, itineraries>>
    PROVE  PlanIInv'
BY GoingOn DEF Go

LEMMA ResolvingAll ==
    ASSUME PlanIInv, NEW r \in Requests, at[r] \in ServerPoints, NEW ids, NEW purpose,
           ResolveAll(r, ids, purpose), UNCHANGED <<placesVars, itineraries>>,
           purpose = "ground" =>
              /\ IsList(ids)
              /\ \A id \in Range(Ids(local[r].stops)) : Canon(id) \in Places0 \/ id \in Range(ids),
           purpose = "details" => IsList(ids) /\ \A id \in Range(ids) : Canon(id) \in Places0,
           (purpose \in {"ground", "details"} /\ work[r].op = "PlanDay") => Vouched(local[r].route)
    PROVE  PlanIInv'
<1> DEFINE m == [local[r] EXCEPT !.todo = ids, !.got = <<>>, !.purpose = purpose]
<1>1. HandOK(r, at[r], local[r])
  BY DEF PlanIInv
<1>2. {"todo", "got", "purpose"} \subseteq DOMAIN local[r]
  BY <1>1 DEF HandOK, Memory
<1>3. /\ DOMAIN m = DOMAIN local[r] /\ m.todo = ids /\ m.got = <<>> /\ m.purpose = purpose
      /\ m.tries = local[r].tries /\ m.list = local[r].list /\ m.stops = local[r].stops
      /\ m.route = local[r].route
  BY <1>2
<1>4. GoWith(r, "resolve", m)
  BY DEF ResolveAll
<1> HIDE DEF m
<1>5. HandOK(r, "resolve", m)
  BY <1>1, <1>3, EmptyList DEF HandOK, Routing, Resolving, Storing, NoFixtures
<1> QED
  BY <1>4, <1>5, GoingOn DEF ServerPoints

-----------------------------------------------------------------------------
(* The handlers and the beginnings of the service.                         *)

LEMMA EnterOK ==
    ASSUME PlanIInv, NEW r \in Requests, EnterPlanning(r), UNCHANGED tripVars PROVE PlanIInv'
<1>1. at[r] \in ServerPoints /\ UNCHANGED <<placesVars, itineraries>>
  BY DEF EnterPlanning, ServerPoints, tripVars
<1>2. CASE Go(r, "handler")
  <2>1. HandOK(r, "handler", local[r])
    BY DEF PlanIInv, HandOK, Routing, Resolving, Storing
  <2> QED
    BY <1>1, <1>2, <2>1, GoingAhead DEF ServerPoints
<1>3. ASSUME NEW status \in {401, 403}, Finish(r, status) PROVE PlanIInv'
  BY <1>1, <1>3, Refusing
<1> QED
  BY <1>2, <1>3 DEF EnterPlanning

LEMMA HandlersOK ==
    ASSUME PlanIInv, NEW r \in Requests, UNCHANGED tripVars,
           SearchPlaces(r) \/ BuildRoute(r) \/ SaveItinerary(r) \/ PlanDay(r)
    PROVE  PlanIInv'
<1>1. at[r] = "handler" /\ at[r] \in ServerPoints /\ UNCHANGED <<placesVars, itineraries>>
  BY DEF SearchPlaces, BuildRoute, SaveItinerary, PlanDay, Handling, ServerPoints, tripVars
<1>2. HandOK(r, at[r], local[r])
  BY DEF PlanIInv
<1>3. CASE SearchPlaces(r) \/ PlanDay(r)
  <2>1. Go(r, "search")
    BY <1>3 DEF SearchPlaces, PlanDay
  <2>2. HandOK(r, "search", local[r])
    BY <1>2 DEF HandOK, Routing, Resolving, Storing
  <2> QED
    BY <1>1, <2>1, <2>2, GoingAhead DEF ServerPoints
<1>4. CASE BuildRoute(r)
  <2>1. CASE Finish(r, 422)
    BY <1>1, <2>1, Refusing
  <2>2. CASE ResolveAll(r, work[r].ids, "route")
    BY <1>1, <2>2, ResolvingAll
  <2> QED
    BY <1>4, <2>1, <2>2 DEF BuildRoute
<1>5. CASE SaveItinerary(r)
  <2> DEFINE m == [local[r] EXCEPT !.stops = work[r].stops]
  <2>1. GoWith(r, "ground", m)
    BY <1>5 DEF SaveItinerary
  <2>2. "stops" \in DOMAIN local[r]
    BY <1>2 DEF HandOK, Memory
  <2>3. /\ DOMAIN m = DOMAIN local[r] /\ m.stops = work[r].stops /\ m.got = local[r].got
        /\ m.tries = local[r].tries /\ m.list = local[r].list
    BY <2>2
  <2> HIDE DEF m
  <2>4. IsList(work[r].stops) /\ work[r].op # "PlanDay"
    BY <1>5 DEF PlanIInv, ShapeOK, SaveItinerary, Handling
  <2>5. HandOK(r, "ground", m)
    BY <1>2, <2>3, <2>4 DEF HandOK, Routing, Resolving, Storing
  <2> QED
    BY <1>1, <2>1, <2>5, GoingOn DEF ServerPoints
<1> QED
  BY <1>3, <1>4, <1>5

LEMMA FoundOK ==
    ASSUME PlanIInv, NEW r \in Requests, UNCHANGED tripVars, SearchReturns(r) \/ PlanFinds(r)
    PROVE  PlanIInv'
<1>1. at[r] = "found" /\ at[r] \in ServerPoints /\ UNCHANGED <<placesVars, itineraries>>
  BY DEF SearchReturns, PlanFinds, ServerPoints, tripVars
<1>2. CASE SearchReturns(r)
  <2> DEFINE rows == [provider |-> provider, places |-> Ids(local[r].list)]
  <2>1. Return(r, rows)
    BY <1>2 DEF SearchReturns
  <2>2. NoFixtures(Ids(local[r].list))
    BY <1>1 DEF PlanIInv, HandOK
  <2>3. Vouched(rows)
    BY <2>2 DEF Vouched, NoFixtures
  <2>4. ItinerariesOK'
    BY <1>1, <2>1, SameItineraries DEF Return, PlanIInv
  <2> HIDE DEF rows
  <2> QED
    BY <1>1, <2>1, <2>3, <2>4, Returning
<1>3. CASE PlanFinds(r)
  <2>1. CASE Finish(r, 422)
    BY <1>1, <2>1, Refusing
  <2>2. CASE ResolveAll(r, Ids(local[r].list), "route")
    BY <1>1, <2>2, ResolvingAll
  <2> QED
    BY <1>3, <2>1, <2>2 DEF PlanFinds
<1> QED
  BY <1>2, <1>3

LEMMA RouteDone ==
    ASSUME PlanIInv, NEW r \in Requests, UNCHANGED tripVars,
           AllResolved(r) \/ RouteReturns(r) \/ PlanSaves(r)
    PROVE  PlanIInv'
<1>1. at[r] \in ServerPoints /\ UNCHANGED <<placesVars, itineraries>> /\ HandOK(r, at[r], local[r])
  BY DEF AllResolved, RouteReturns, PlanSaves, ServerPoints, tripVars, PlanIInv
<1>2. CASE AllResolved(r)
  <2>1. HandOK(r, "route", local[r])
    BY <1>1, <1>2 DEF AllResolved, HandOK, Routing, Resolving, Storing
  <2> QED
    BY <1>1, <1>2, <2>1, GoingAhead DEF AllResolved, ServerPoints
<1>3. CASE RouteReturns(r)
  <2>1. Return(r, local[r].route) /\ at[r] = "routed"
    BY <1>3 DEF RouteReturns
  <2>2. Vouched(local[r].route)
    BY <1>1, <2>1 DEF HandOK
  <2>3. ItinerariesOK'
    BY <1>1, <2>1, SameItineraries DEF Return, PlanIInv
  <2> QED
    BY <1>1, <2>1, <2>2, <2>3, Returning
<1>4. CASE PlanSaves(r)
  <2> DEFINE m == [local[r] EXCEPT !.stops = PlanStops(r)]
  <2>1. GoWith(r, "ground", m) /\ at[r] = "routed"
    BY <1>4 DEF PlanSaves
  <2>2. "stops" \in DOMAIN local[r]
    BY <1>1 DEF HandOK, Memory
  <2>3. /\ DOMAIN m = DOMAIN local[r] /\ m.stops = PlanStops(r) /\ m.got = local[r].got
        /\ m.tries = local[r].tries /\ m.list = local[r].list /\ m.route = local[r].route
    BY <2>2
  <2> HIDE DEF m
  <2>4. IsList(PlanStops(r))
    <3>1. DOMAIN PlanStops(r) = DOMAIN local[r].list /\ PlanStops(r) = [i \in DOMAIN PlanStops(r) |-> PlanStops(r)[i]]
      BY DEF PlanStops
    <3>2. DOMAIN local[r].list = 1..Len(local[r].list) /\ Len(local[r].list) \in Nat
      BY <1>1, ListDomain DEF HandOK
    <3>3. PlanStops(r) \in [1..Len(local[r].list) -> Range(PlanStops(r))]
      BY <3>1, <3>2 DEF Range
    <3> QED
      BY <3>2, <3>3, FunctionIsList
  <2>5. HandOK(r, "ground", m)
    BY <1>1, <2>1, <2>3, <2>4 DEF HandOK, Routing, Resolving, Storing
  <2> QED
    BY <1>1, <2>1, <2>5, GoingOn DEF ServerPoints
<1> QED
  BY <1>2, <1>3, <1>4

-----------------------------------------------------------------------------
(* Grounding, and the row that is written when it is over.                 *)

LEMMA CanonTwice == \A id \in Places0 : Canon(id) \in Places0
BY PlacesAssumption DEF Canon, Places0

LEMMA GroundOK ==
    ASSUME PlanIInv, NEW r \in Requests, UNCHANGED tripVars, EnsureGrounded(r) PROVE PlanIInv'
<1> DEFINE ids == Ids(local[r].stops)
           missing == Keep(ids, Range(ids) \ ExistsPlaceIDs(ids))
<1>1. at[r] = "ground" /\ at[r] \in ServerPoints /\ UNCHANGED <<placesVars, itineraries>>
      /\ HandOK(r, at[r], local[r])
  BY DEF EnsureGrounded, ServerPoints, tripVars, PlanIInv
<1>2. CASE Finish(r, 500)
  BY <1>1, <1>2, Refusing
<1>3. CASE ResolveAll(r, missing, "ground")
  <2>1. IsList(ids)
    BY <1>1, IdsOf DEF HandOK
  <2>2. missing \in Seq(Range(ids)) /\ Range(missing) = Range(ids) \cap (Range(ids) \ ExistsPlaceIDs(ids))
    BY <2>1, Keeps DEF IsList
  <2>3. IsList(missing)
    BY <2>2, ListOf
  <2>4. ASSUME NEW id \in Range(ids), id \notin Range(missing) PROVE Canon(id) \in Places0
    <3>1. id \in ExistsPlaceIDs(ids)
      BY <2>2, <2>4
    <3>2. id \in Places0
      BY <3>1 DEF ExistsPlaceIDs, GetPlace, PlanIInv, TablesOK
    <3> QED
      BY <3>2, CanonTwice
  <2>5. work[r].op = "PlanDay" => Vouched(local[r].route)
    BY <1>1 DEF HandOK, Storing
  <2>6. \A id \in Range(ids) : Canon(id) \in Places0 \/ id \in Range(missing)
    BY <2>4
  <2> HIDE DEF missing
  <2> QED
    BY <1>1, <1>3, <2>3, <2>5, <2>6, ResolvingAll
<1> QED
  BY <1>2, <1>3 DEF EnsureGrounded

LEMMA GroundedOK ==
    ASSUME PlanIInv, NEW r \in Requests, UNCHANGED tripVars, Grounded(r) PROVE PlanIInv'
<1> DEFINE ids == Ids(local[r].stops)
<1>1. /\ at[r] = "resolve" /\ local[r].todo = <<>> /\ local[r].purpose = "ground"
      /\ at[r] \in ServerPoints /\ UNCHANGED <<placesVars, itineraries>>
      /\ HandOK(r, at[r], local[r]) /\ ResolveAll(r, ids, "details")
  BY DEF Grounded, ServerPoints, tripVars, PlanIInv
<1>2. IsList(ids)
  BY <1>1, IdsOf DEF HandOK
<1>3. \A id \in Range(ids) : Canon(id) \in Places0
  BY <1>1, EmptyList DEF HandOK, Resolving
<1>4. work[r].op = "PlanDay" => Vouched(local[r].route)
  BY <1>1 DEF HandOK, Storing, Resolving
<1> QED
  BY <1>1, <1>2, <1>3, <1>4, ResolvingAll

LEMMA CreateOK ==
    ASSUME PlanIInv, NEW r \in Requests, CreateItinerary(r), UNCHANGED placesVars PROVE PlanIInv'
<1> DEFINE it == [id |-> r, user |-> work[r].user,
                  stops |-> [i \in DOMAIN local[r].got |->
                               [id |-> local[r].got[i].id, from |-> local[r].got[i].from,
                                order |-> StopOrder(local[r].stops[i], i)]]]
<1>1. /\ at[r] = "resolve" /\ local[r].todo = <<>> /\ local[r].purpose = "details"
      /\ at[r] \in ServerPoints /\ HandOK(r, at[r], local[r])
  BY DEF CreateItinerary, ServerPoints, PlanIInv
<1>2. CASE Finish(r, 500) /\ UNCHANGED itineraries
  BY <1>1, <1>2, Refusing
<1>3. CASE /\ itineraries' = itineraries \cup {it}
           /\ IF work[r].op = "PlanDay" THEN Return(r, local[r].route) ELSE Finish(r, 201)
  <2>1. work' = work
    BY <1>3 DEF Return, Finish
  <2>2. \A i \in DOMAIN local[r].got : Canon(local[r].got[i].id) \in Places0
    <3>1. \A i \in DOMAIN local[r].got : local[r].got[i].id \in Range(Ids(local[r].got))
      BY DEF Ids, Range
    <3>2. \A id \in Range(Ids(local[r].got)) : Canon(id) \in Places0
      BY <1>1 DEF HandOK, Resolving
    <3> QED
      BY <3>1, <3>2
  <2>3. it.id = r /\ it.user = work[r].user /\ \A i \in DOMAIN it.stops : Canon(it.stops[i].id) \in Places0
    BY <2>2
  <2> HIDE DEF it
  <2>4. ItinerariesOK'
    BY <1>3, <2>1, <2>3 DEF PlanIInv, ItinerariesOK, Canon
  <2>5. CASE work[r].op = "PlanDay"
    <3>1. Vouched(local[r].route)
      BY <1>1, <2>5 DEF HandOK, Storing, Resolving
    <3> QED
      BY <1>1, <1>3, <2>4, <2>5, <3>1, Returning
  <2>6. CASE work[r].op # "PlanDay"
    BY <1>1, <1>3, <2>4, <2>6, Ending
  <2> QED
    BY <2>5, <2>6
<1> QED
  BY <1>2, <1>3 DEF CreateItinerary

LEMMA ReadingOK ==
    ASSUME PlanIInv, NEW r \in Requests, UNCHANGED tripVars, GetItinerary(r) \/ ListItineraries(r)
    PROVE  PlanIInv'
<1>1. /\ at[r] \in ServerPoints /\ work[r].op \in {"GetItinerary", "ListItineraries"}
      /\ UNCHANGED <<placesVars, itineraries>>
  BY DEF GetItinerary, ListItineraries, Handling, ServerPoints, tripVars
<1>2. ASSUME NEW status \in {403, 404, 500}, Finish(r, status) PROVE PlanIInv'
  BY <1>1, <1>2, Refusing
<1>3. ASSUME NEW rows, Return(r, rows) PROVE PlanIInv'
  <2>1. UNCHANGED <<work, itineraries>>
    BY <1>1, <1>3 DEF Return
  <2>2. ItinerariesOK'
    BY <2>1, SameItineraries DEF PlanIInv
  <2> QED
    BY <1>1, <1>3, <2>2, Returning
<1> QED
  BY <1>2, <1>3 DEF GetItinerary, ListItineraries

-----------------------------------------------------------------------------
(* The tables.                                                             *)

LEMMA PutPlacesOK ==
    ASSUME TablesOK, NEW ids, PutPlaces(ids), ids \subseteq Places0
    PROVE  DOMAIN placeRows' \subseteq Places0
BY DEF PutPlaces, TablesOK

LEMMA PutSearchOK ==
    ASSUME TablesOK, NEW key, NEW ids, PutSearch(key, ids), IsList(ids), Range(ids) \subseteq Places0
    PROVE  \A k \in DOMAIN searchRows' :
              /\ {"ids", "fresh"} \subseteq DOMAIN searchRows'[k]
              /\ IsList(searchRows'[k].ids) /\ Range(searchRows'[k].ids) \subseteq Places0
<1> DEFINE row == [ids |-> ids, fresh |-> TRUE]
<1>1. {"ids", "fresh"} \subseteq DOMAIN row /\ IsList(row.ids) /\ Range(row.ids) \subseteq Places0
  OBVIOUS
<1>2. \A k \in DOMAIN searchRows' : searchRows'[k] = row \/ (k \in DOMAIN searchRows /\ searchRows'[k] = searchRows[k])
  BY DEF PutSearch
<1> HIDE DEF row
<1> QED
  BY <1>1, <1>2 DEF TablesOK

LEMMA GetSearchList ==
    ASSUME TablesOK, NEW key
    PROVE  IsList(GetSearch(key))
<1>1. CASE GetSearch(key) = <<>>
  BY <1>1, EmptyList
<1>2. CASE GetSearch(key) # <<>>
  <2> DEFINE S == {id \in DOMAIN placeRows : GetPlace(id)}
             ids == Keep(searchRows[key].ids, S)
  <2>1. key \in DOMAIN searchRows /\ GetSearch(key) = [i \in DOMAIN ids |-> CachedPlace(ids[i])]
    BY <1>2 DEF GetSearch
  <2>2. ids \in Seq(Range(searchRows[key].ids))
    BY <2>1, Keeps DEF TablesOK, IsList
  <2>3. DOMAIN ids = 1..Len(ids) /\ Len(ids) \in Nat
    BY <2>2, LenProperties
  <2> HIDE DEF ids
  <2>4. GetSearch(key) \in [1..Len(ids) -> Range(GetSearch(key))]
    BY <2>1, <2>3 DEF Range
  <2> QED
    BY <2>3, <2>4, FunctionIsList
<1> QED
  BY <1>1, <1>2

-----------------------------------------------------------------------------
(* Searches.                                                               *)

LEMMA NoTries == 0 \in 0..(MaxAttempts - 1)
BY PlacesAssumption

\* Another attempt, as long as there are some.
LEMMA AttemptOK ==
    ASSUME PlanIInv, NEW r \in Requests, at[r] \in ServerPoints, local[r].tries + 1 < MaxAttempts,
           GoWith(r, at[r], [local[r] EXCEPT !.tries = @ + 1]), UNCHANGED <<placesVars, itineraries>>
    PROVE  PlanIInv'
<1> DEFINE m == [local[r] EXCEPT !.tries = @ + 1]
<1>1. HandOK(r, at[r], local[r]) /\ "tries" \in DOMAIN local[r]
  BY DEF PlanIInv, HandOK, Memory
<1>2. /\ DOMAIN m = DOMAIN local[r] /\ m.tries = local[r].tries + 1
      /\ m.list = local[r].list /\ m.stops = local[r].stops /\ m.got = local[r].got
      /\ m.todo = local[r].todo /\ m.purpose = local[r].purpose /\ m.route = local[r].route
  BY <1>1
<1>3. m.tries \in 0..(MaxAttempts - 1)
  <2>1. local[r].tries \in 0..(MaxAttempts - 1)
    BY <1>1 DEF HandOK
  <2> QED
    BY <1>2, <2>1, PlacesAssumption
<1>4. GoWith(r, at[r], m)
  OBVIOUS
<1> HIDE DEF m
<1>5. HandOK(r, at[r], m)
  BY <1>1, <1>2, <1>3 DEF HandOK, Routing, Resolving, Storing
<1> QED
  BY <1>4, <1>5, GoingOn

\* A list in the hand.
LEMMA ListInHand ==
    ASSUME PlanIInv, NEW r \in Requests, at[r] \in {"search", "call search"},
           NEW p \in {"found", "store search"}, NEW m,
           DOMAIN m = DOMAIN local[r], m.tries \in {0, local[r].tries},
           m.stops = local[r].stops, m.got = local[r].got,
           IsList(m.list), NoFixtures(Ids(m.list)),
           p = "store search" => Range(Ids(m.list)) \subseteq Places0,
           GoWith(r, p, m), UNCHANGED <<placesVars, itineraries>>
    PROVE  PlanIInv'
<1>1. HandOK(r, at[r], local[r])
  BY DEF PlanIInv
<1>2. m.tries \in 0..(MaxAttempts - 1)
  BY <1>1, NoTries DEF HandOK
<1>3. HandOK(r, p, m)
  BY <1>1, <1>2 DEF HandOK, Routing, Resolving, Storing
<1>4. at[r] \in ServerPoints /\ p \in ServerPoints
  BY DEF ServerPoints
<1> QED
  BY <1>3, <1>4, GoingOn

\* The fields that a list in the hand does not touch.
LEMMA Fields ==
    ASSUME PlanIInv, NEW r \in Requests
    PROVE  DOMAIN local[r] = DOMAIN Memory
BY DEF PlanIInv, HandOK

LEMMA ReadSearchOK ==
    ASSUME PlanIInv, NEW r \in Requests, ReadSearchCache(r), UNCHANGED itineraries PROVE PlanIInv'
<1> DEFINE list == GetSearch(SearchKey(r))
           m == [local[r] EXCEPT !.list = list]
<1>1. at[r] = "search" /\ at[r] \in ServerPoints /\ UNCHANGED <<placesVars, itineraries>>
  BY DEF ReadSearchCache, ServerPoints
<1>2. CASE Usable(list) /\ GoWith(r, "found", m)
  <2>1. IsList(list)
    BY GetSearchList DEF PlanIInv
  <2>2. NoFixtures(Ids(list))
    BY <1>2 DEF Usable, IsFixture, NoFixtures
  <2>3. "list" \in DOMAIN local[r]
    BY Fields DEF Memory
  <2>4. /\ DOMAIN m = DOMAIN local[r] /\ m.list = list /\ m.tries = local[r].tries
        /\ m.stops = local[r].stops /\ m.got = local[r].got
    BY <2>3
  <2> HIDE DEF list, m
  <2> QED
    BY <1>1, <1>2, <2>1, <2>2, <2>4, ListInHand
<1>3. CASE Go(r, "call search")
  <2>1. HandOK(r, "call search", local[r])
    BY <1>1 DEF PlanIInv, HandOK, Routing, Resolving, Storing
  <2> QED
    BY <1>1, <1>3, <2>1, GoingAhead DEF ServerPoints
<1> QED
  BY <1>2, <1>3 DEF ReadSearchCache

LEMMA SearchMockList ==
    ASSUME NEW max
    PROVE  IsList(SearchMock(max)) /\ Range(Ids(SearchMock(max))) \subseteq Fixtures
<1>1. Len(Catalog) \in Nat /\ DOMAIN Catalog = 1..Len(Catalog)
      /\ \A i \in 1..Len(Catalog) : Catalog[i] \in Fixtures
  BY PlacesAssumption, LenProperties DEF Fixtures, Range
<1>2. PICK n \in 0..Len(Catalog) : SearchMock(max) = [i \in 1..n |-> Place(Catalog[i], "mock")]
  BY <1>1 DEF SearchMock
<1>3. SearchMock(max) \in [1..n -> {Place(id, "mock") : id \in Fixtures}]
  BY <1>1, <1>2
<1>4. IsList(SearchMock(max)) /\ SearchMock(max) \in Seq({Place(id, "mock") : id \in Fixtures})
  BY <1>3, FunctionIsList
<1>5. Range(SearchMock(max)) \subseteq {Place(id, "mock") : id \in Fixtures}
  BY <1>4, ListOf
<1>6. \A id \in Fixtures : Place(id, "mock").id = id
  BY DEF Place
<1> QED
  BY <1>4, <1>5, <1>6, IdsOf

LEMMA SearchGoogleList ==
    ASSUME NEW max, NEW list \in SearchGoogle(max)
    PROVE  IsList(list) /\ Range(Ids(list)) \subseteq Known
<1>1. PICK ids \in Results : list = [i \in DOMAIN ids |-> Place(ids[i], "google")]
  BY DEF SearchGoogle
<1>2. ids \in Seq(Known)
  BY PlacesAssumption
<1>3. Len(ids) \in Nat /\ DOMAIN ids = 1..Len(ids) /\ \A i \in 1..Len(ids) : ids[i] \in Known
  BY <1>2, LenProperties, ElementOfSeq
<1>4. list \in [1..Len(ids) -> {Place(id, "google") : id \in Known}]
  BY <1>1, <1>3
<1>5. IsList(list) /\ list \in Seq({Place(id, "google") : id \in Known})
  BY <1>3, <1>4, FunctionIsList
<1>6. Range(list) \subseteq {Place(id, "google") : id \in Known}
  BY <1>5, ListOf
<1>7. \A id \in Known : Place(id, "google").id = id
  BY DEF Place
<1> QED
  BY <1>5, <1>6, <1>7, IdsOf

LEMMA CallSearchOK ==
    ASSUME PlanIInv, NEW r \in Requests, CallSearch(r), UNCHANGED itineraries PROVE PlanIInv'
<1> DEFINE Hold(list) == [local[r] EXCEPT !.list = list, !.tries = 0]
<1>1. at[r] \in ServerPoints
  BY DEF CallSearch, ServerPoints
<1>2. \/ provider = "mock" /\ GoWith(r, "store search", Hold(SearchMock(Wanted(r)))) /\ UNCHANGED placesVars
      \/ \E list \in SearchGoogle(Wanted(r)) :
            GoWith(r, "store search", Hold(list)) /\ UNCHANGED placesVars
      \/ Finish(r, 500) /\ UNCHANGED placesVars
      \/ /\ local[r].tries + 1 < MaxAttempts /\ UNCHANGED placesVars
         /\ GoWith(r, at[r], [local[r] EXCEPT !.tries = @ + 1])
  BY DEF CallSearch, Attempt
<1>3. \A list : LET m == Hold(list)
                IN  /\ DOMAIN m = DOMAIN local[r] /\ m.list = list /\ m.tries = 0
                    /\ m.stops = local[r].stops /\ m.got = local[r].got
  <2>1. {"list", "tries"} \subseteq DOMAIN local[r]
    BY Fields DEF Memory
  <2> QED
    BY <2>1
<1> HIDE DEF Hold
<1>4. ASSUME NEW list, IsList(list), Range(Ids(list)) \subseteq Places0, NoFixtures(Ids(list)),
             GoWith(r, "store search", Hold(list)), UNCHANGED placesVars
      PROVE  PlanIInv'
  <2>1. at[r] \in {"search", "call search"}
    BY DEF CallSearch
  <2>2. UNCHANGED <<placesVars, itineraries>>
    BY <1>4
  <2> QED
    BY <1>3, <1>4, <2>1, <2>2, ListInHand
<1>5. CASE provider = "mock" /\ GoWith(r, "store search", Hold(SearchMock(Wanted(r)))) /\ UNCHANGED placesVars
  <2> DEFINE list == SearchMock(Wanted(r))
  <2>1. IsList(list) /\ Range(Ids(list)) \subseteq Places0 /\ NoFixtures(Ids(list))
    BY <1>5, SearchMockList DEF Places0, NoFixtures
  <2>2. GoWith(r, "store search", Hold(list)) /\ UNCHANGED placesVars
    BY <1>5
  <2> HIDE DEF list
  <2> QED
    BY <1>4, <2>1, <2>2
<1>6. ASSUME NEW list \in SearchGoogle(Wanted(r)),
             GoWith(r, "store search", Hold(list)), UNCHANGED placesVars
      PROVE  PlanIInv'
  <2>1. IsList(list) /\ Range(Ids(list)) \subseteq Known
    BY SearchGoogleList
  <2>2. Range(Ids(list)) \subseteq Places0 /\ NoFixtures(Ids(list))
    BY <2>1, PlacesAssumption DEF Places0, NoFixtures, Fixtures
  <2> QED
    BY <1>4, <1>6, <2>1, <2>2
<1>7. CASE UNCHANGED placesVars /\ Finish(r, 500)
  <2>1. UNCHANGED <<placesVars, itineraries>>
    BY <1>7
  <2> QED
    BY <1>1, <1>7, <2>1, Refusing
<1>8. CASE /\ local[r].tries + 1 < MaxAttempts /\ UNCHANGED placesVars
           /\ GoWith(r, at[r], [local[r] EXCEPT !.tries = @ + 1])
  BY <1>1, <1>8, AttemptOK
<1> QED
  BY <1>2, <1>5, <1>6, <1>7, <1>8

LEMMA StoreSearchOK ==
    ASSUME PlanIInv, NEW r \in Requests, StoreSearch(r), UNCHANGED itineraries PROVE PlanIInv'
<1> DEFINE ids == Ids(local[r].list)
<1>1. /\ at[r] = "store search" /\ at[r] \in ServerPoints /\ Go(r, "found")
      /\ UNCHANGED <<provider, itineraries>>
  BY DEF StoreSearch, ServerPoints
<1>2. HandOK(r, at[r], local[r])
  BY DEF PlanIInv
<1>3. IsList(ids) /\ Range(ids) \subseteq Places0
  BY <1>1, <1>2, IdsOf DEF HandOK
<1>4. DOMAIN placeRows' \subseteq Places0
  <2>1. PICK lost \in SUBSET Range(ids) : PutPlaces(Range(ids) \ lost)
    BY DEF StoreSearch
  <2> QED
    BY <1>3, <2>1, PutPlacesOK DEF PlanIInv
<1>5. TablesOK'
  <2>1. CASE PutSearch(SearchKey(r), ids)
    <3>1. \A k \in DOMAIN searchRows' :
              /\ {"ids", "fresh"} \subseteq DOMAIN searchRows'[k]
              /\ IsList(searchRows'[k].ids) /\ Range(searchRows'[k].ids) \subseteq Places0
      BY <1>3, <2>1, PutSearchOK DEF PlanIInv
    <3> QED
      BY <1>4, <3>1 DEF TablesOK
  <2>2. CASE UNCHANGED searchRows
    BY <1>4, <2>2 DEF PlanIInv, TablesOK
  <2> QED
    BY <2>1, <2>2 DEF StoreSearch
<1>6. HandOK(r, "found", local[r])
  BY <1>1, <1>2 DEF HandOK, Routing, Resolving, Storing
<1> QED
  BY <1>1, <1>5, <1>6, Going DEF Go, ServerPoints

-----------------------------------------------------------------------------
(* Places.                                                                 *)

LEMMA ResolveOK ==
    ASSUME PlanIInv, NEW r \in Requests, Resolving(at[r]), local[r].todo # <<>>,
           NEW place, Resolve(r, place), TablesOK', UNCHANGED <<provider, itineraries>>,
           (local[r].purpose = "route" /\ provider = "google") => place.id \notin Fixtures,
           local[r].purpose = "ground" => Canon(Head(local[r].todo)) \in Places0,
           local[r].purpose = "details" => Canon(place.id) \in Places0
    PROVE  PlanIInv'
<1> DEFINE m == [local[r] EXCEPT !.todo = Tail(@), !.got = Append(@, place), !.tries = 0]
<1>1. GoWith(r, "resolve", m)
  BY DEF Resolve
<1>2. {"todo", "got", "tries"} \subseteq DOMAIN local[r]
  BY Fields DEF Memory
<1>3. /\ DOMAIN m = DOMAIN local[r] /\ m.todo = Tail(local[r].todo)
      /\ m.got = Append(local[r].got, place) /\ m.tries = 0 /\ m.list = local[r].list
      /\ m.stops = local[r].stops /\ m.purpose = local[r].purpose /\ m.route = local[r].route
  BY <1>2
<1> HIDE DEF m
<1>4. HandOK(r, at[r], local[r])
  BY DEF PlanIInv
<1>5. IsList(m.got) /\ Range(Ids(m.got)) = Range(Ids(local[r].got)) \cup {place.id}
  <2>1. IsList(local[r].got)
    BY <1>4 DEF HandOK
  <2> QED
    BY <1>3, <2>1, AppendList, SMTT(30)
<1>6. m.purpose = "route" => NoFixtures(Ids(m.got))
  BY <1>3, <1>4, <1>5 DEF HandOK, Routing, NoFixtures
<1>7. IsList(local[r].todo) =>
         IsList(m.todo) /\ Range(local[r].todo) = {Head(local[r].todo)} \cup Range(m.todo)
  BY <1>3, TailList
<1>8. m.purpose = "ground" =>
         /\ IsList(m.todo)
         /\ \A id \in Range(Ids(m.stops)) : Canon(id) \in Places0 \/ id \in Range(m.todo)
  BY <1>3, <1>4, <1>7 DEF HandOK
<1>9. m.purpose = "details" =>
         /\ IsList(m.todo)
         /\ \A id \in Range(m.todo) \cup Range(Ids(m.got)) : Canon(id) \in Places0
  BY <1>3, <1>4, <1>5, <1>7 DEF HandOK
<1>10. m.tries \in 0..(MaxAttempts - 1) /\ IsList(m.list) /\ IsList(m.stops) /\ DOMAIN m = DOMAIN Memory
  BY <1>3, <1>4, NoTries DEF HandOK
<1>11. (m.purpose \in {"ground", "details"} /\ work[r].op = "PlanDay") => Vouched(m.route)
  BY <1>3, <1>4 DEF HandOK, Storing
<1>12. HandOK(r, "resolve", m)
  BY <1>5, <1>6, <1>8, <1>9, <1>10, <1>11 DEF HandOK, Routing, Resolving, Storing
<1>13. at[r] \in ServerPoints /\ "resolve" \in ServerPoints
  BY DEF ServerPoints, Resolving
<1> QED
  BY <1>1, <1>12, <1>13, Going

LEMMA ReadPlaceOK ==
    ASSUME PlanIInv, NEW r \in Requests, ReadPlaceCache(r), UNCHANGED itineraries PROVE PlanIInv'
<1> DEFINE id == Head(local[r].todo)
<1>1. at[r] = "resolve" /\ local[r].todo # <<>> /\ UNCHANGED <<placesVars, itineraries>>
  BY DEF ReadPlaceCache
<1>2. HandOK(r, at[r], local[r]) /\ TablesOK /\ TablesOK' /\ provider' = provider
  BY <1>1, SameTables DEF PlanIInv, placesVars
<1>3. CASE GetPlace(id) /\ (provider = "google" => ~IsFixture(id)) /\ Resolve(r, CachedPlace(id))
  <2>1. Canon(id) \in Places0
    BY <1>2, <1>3, CanonTwice DEF GetPlace, TablesOK
  <2>2. CachedPlace(id).id = id
    BY DEF CachedPlace, Place
  <2>3. provider = "google" => id \notin Fixtures
    BY <1>3 DEF IsFixture
  <2> HIDE DEF id
  <2>4. Canon(CachedPlace(id).id) \in Places0
    BY <2>1, <2>2
  <2>5. Resolve(r, CachedPlace(id)) /\ UNCHANGED <<provider, itineraries>>
    BY <1>1, <1>2, <1>3
  <2>6. Canon(Head(local[r].todo)) \in Places0
    BY <2>1 DEF id
  <2> QED
    BY <1>1, <1>2, <2>2, <2>3, <2>4, <2>5, <2>6, ResolveOK DEF Resolving
<1>4. CASE Go(r, "call get")
  <2>1. HandOK(r, "call get", local[r])
    BY <1>1, <1>2 DEF HandOK, Routing, Resolving, Storing
  <2> QED
    BY <1>1, <1>4, <2>1, GoingAhead DEF ServerPoints
<1> QED
  BY <1>3, <1>4 DEF ReadPlaceCache

LEMMA UnresolvedOK ==
    ASSUME PlanIInv, NEW r \in Requests, Resolving(at[r]), local[r].todo # <<>>, Unresolved(r),
           UNCHANGED <<placesVars, itineraries>>
    PROVE  PlanIInv'
<1>1. HandOK(r, at[r], local[r]) /\ TablesOK' /\ UNCHANGED <<provider, itineraries>>
  BY SameTables DEF PlanIInv, placesVars
<1>2. CASE local[r].purpose = "details" /\ Resolve(r, Place(Head(local[r].todo), "client"))
  <2>1. IsList(local[r].todo)
    BY <1>1, <1>2 DEF HandOK
  <2>2. Head(local[r].todo) \in Range(local[r].todo)
    BY <2>1, TailList
  <2>3. Canon(Head(local[r].todo)) \in Places0
    BY <1>1, <1>2, <2>2 DEF HandOK
  <2>4. Canon(Place(Head(local[r].todo), "client").id) \in Places0
    BY <2>3 DEF Place
  <2> QED
    BY <1>1, <1>2, <2>1, <2>4, ResolveOK
<1>3. CASE Finish(r, 422)
  <2>1. at[r] \in ServerPoints
    BY DEF ServerPoints, Resolving
  <2> QED
    BY <1>3, <2>1, Refusing
<1> QED
  BY <1>2, <1>3 DEF Unresolved

LEMMA AnsweredOK ==
    ASSUME PlanIInv, NEW r \in Requests, Resolving(at[r]), local[r].todo # <<>>, NEW id, id = Canon(Head(local[r].todo)),
           id \in Places0, provider = "google" => id \notin Fixtures,
           Resolve(r, Place(id, provider)), PutPlaces({id}) \/ UNCHANGED placeRows,
           UNCHANGED <<provider, searchRows, itineraries>>
    PROVE  PlanIInv'
<1>1. TablesOK
  BY DEF PlanIInv
<1>2. DOMAIN placeRows' \subseteq Places0
  <2>1. CASE PutPlaces({id})
    BY <1>1, <2>1, PutPlacesOK
  <2>2. CASE UNCHANGED placeRows
    BY <1>1, <2>2 DEF TablesOK
  <2> QED
    BY <2>1, <2>2
<1>3. TablesOK'
  BY <1>1, <1>2 DEF TablesOK
<1>4. Place(id, provider).id = id
  BY DEF Place
<1>5. Canon(id) \in Places0
  BY CanonTwice
<1>6. Canon(Place(id, provider).id) \in Places0 /\ Canon(Head(local[r].todo)) \in Places0
      /\ (provider = "google" => Place(id, provider).id \notin Fixtures)
  BY <1>4, <1>5
<1>7. UNCHANGED <<provider, itineraries>>
  OBVIOUS
<1> QED
  BY <1>1, <1>3, <1>6, <1>7, ResolveOK

LEMMA CallPlaceOK ==
    ASSUME PlanIInv, NEW r \in Requests, CallPlace(r, Unresolved(r)), UNCHANGED itineraries
    PROVE  PlanIInv'
<1> DEFINE id == Canon(Head(local[r].todo))
           Answered0 == /\ Resolve(r, Place(id, provider))
                        /\ PutPlaces({id}) \/ UNCHANGED placeRows
                        /\ UNCHANGED <<provider, searchRows>>
<1>1. Resolving(at[r]) /\ at[r] \in ServerPoints /\ local[r].todo # <<>>
  BY DEF CallPlace, Resolving, ServerPoints, PlanIInv, HandOK
<1>2. \/ provider = "mock" /\ Head(local[r].todo) \in Fixtures /\ Answered0
      \/ provider # "mock" /\ id \in Known /\ Answered0
      \/ Unresolved(r) /\ UNCHANGED placesVars
      \/ /\ local[r].tries + 1 < MaxAttempts /\ UNCHANGED placesVars
         /\ GoWith(r, at[r], [local[r] EXCEPT !.tries = @ + 1])
  BY DEF CallPlace, Attempt
<1>3. ASSUME id \in Places0, provider = "google" => id \notin Fixtures, Answered0
      PROVE  PlanIInv'
  <2>1. UNCHANGED <<provider, searchRows, itineraries>>
    BY <1>3
  <2> HIDE DEF id
  <2> QED
    BY <1>1, <1>3, <2>1, AnsweredOK DEF id
<1>4. CASE provider = "mock" /\ Head(local[r].todo) \in Fixtures /\ Answered0
  <2>1. id \in Places0
    BY <1>4, CanonTwice DEF Places0
  <2> QED
    BY <1>3, <1>4, <2>1
<1>5. CASE provider # "mock" /\ id \in Known /\ Answered0
  <2>1. id \in Places0 /\ id \notin Fixtures
    BY <1>5, PlacesAssumption DEF Places0, Fixtures
  <2> QED
    BY <1>3, <1>5, <2>1
<1>6. CASE Unresolved(r) /\ UNCHANGED placesVars
  <2>1. UNCHANGED <<placesVars, itineraries>>
    BY <1>6
  <2> QED
    BY <1>1, <1>6, <2>1, UnresolvedOK
<1>7. CASE /\ local[r].tries + 1 < MaxAttempts /\ UNCHANGED placesVars
           /\ GoWith(r, at[r], [local[r] EXCEPT !.tries = @ + 1])
  BY <1>1, <1>7, AttemptOK
<1> HIDE DEF id, Answered0
<1> QED
  BY <1>2, <1>4, <1>5, <1>6, <1>7

-----------------------------------------------------------------------------
(* Routes.                                                                 *)

\* The points at which a route is asked for, and a step to the next of them.
Asking(p) == p \in {"route", "call route", "call again", "call leg"}

LEMMA AskingOn ==
    ASSUME PlanIInv, NEW r \in Requests, Asking(at[r]), NEW p, Asking(p), NEW m,
           DOMAIN m = DOMAIN local[r], m.tries \in {0, local[r].tries},
           m.list = local[r].list, m.stops = local[r].stops, m.got = local[r].got,
           GoWith(r, p, m), UNCHANGED <<placesVars, itineraries>>
    PROVE  PlanIInv'
<1>1. HandOK(r, at[r], local[r])
  BY DEF PlanIInv
<1>2. local[r].tries \in 0..(MaxAttempts - 1)
  BY <1>1 DEF HandOK
<1>3. m.tries \in 0..(MaxAttempts - 1)
  BY <1>2, NoTries
<1>4. HandOK(r, p, m)
  BY <1>1, <1>3 DEF HandOK, Routing, Resolving, Storing, Asking
<1>5. at[r] \in ServerPoints /\ p \in ServerPoints
  BY DEF ServerPoints, Asking
<1> QED
  BY <1>4, <1>5, GoingOn

LEMMA RoutedOK ==
    ASSUME PlanIInv, NEW r \in Requests, Asking(at[r]), NEW legs, NEW order, Routed(r, legs, order),
           UNCHANGED <<placesVars, itineraries>>
    PROVE  PlanIInv'
<1> DEFINE route == [provider |-> provider, order |-> order, legs |-> legs,
                     places |-> Ids(local[r].got)]
           m == [local[r] EXCEPT !.tries = 0, !.route = route]
<1>1. GoWith(r, "routed", m)
  BY DEF Routed
<1>2. {"tries", "route"} \subseteq DOMAIN local[r]
  BY Fields DEF Memory
<1>3. HandOK(r, at[r], local[r])
  BY DEF PlanIInv
<1>4. Vouched(route)
  <2>1. NoFixtures(Ids(local[r].got))
    BY <1>3 DEF HandOK, Routing, Asking
  <2> QED
    BY <2>1 DEF NoFixtures, Vouched
<1> HIDE DEF route
<1>5. /\ DOMAIN m = DOMAIN local[r] /\ m.tries = 0 /\ m.route = route /\ m.list = local[r].list
      /\ m.stops = local[r].stops /\ m.got = local[r].got
  BY <1>2
<1> HIDE DEF m
<1>6. HandOK(r, "routed", m)
  BY <1>3, <1>4, <1>5, NoTries DEF HandOK, Routing, Resolving, Storing
<1>7. at[r] \in ServerPoints /\ "routed" \in ServerPoints
  BY DEF ServerPoints, Asking
<1> QED
  BY <1>1, <1>6, <1>7, GoingOn

LEMMA DescribeOK ==
    ASSUME PlanIInv, NEW r \in Requests, Asking(at[r]), NEW route, Describe(r, route),
           UNCHANGED <<placesVars, itineraries>>
    PROVE  PlanIInv'
<1>1. \E legs, order : Routed(r, legs, order)
  BY DEF Describe
<1> QED
  BY <1>1, RoutedOK

LEMMA RefusedOK ==
    ASSUME PlanIInv, NEW r \in Requests, Asking(at[r]),
           NEW status \in {400, 404, 422, 500}, Finish(r, status), UNCHANGED <<placesVars, itineraries>>
    PROVE  PlanIInv'
<1>1. at[r] \in ServerPoints
  BY DEF ServerPoints, Asking
<1>2. status \notin {0, 200}
  OBVIOUS
<1> QED
  BY <1>1, <1>2, Refusing

LEMMA TryAgainOK ==
    ASSUME PlanIInv, NEW r \in Requests, Asking(at[r]), local[r].tries + 1 < MaxAttempts,
           GoWith(r, at[r], [local[r] EXCEPT !.tries = @ + 1]), UNCHANGED <<placesVars, itineraries>>
    PROVE  PlanIInv'
<1>1. at[r] \in ServerPoints
  BY DEF ServerPoints, Asking
<1> QED
  BY <1>1, AttemptOK

LEMMA MockRouteOK ==
    ASSUME PlanIInv, NEW r \in Requests, MockRoute(r), UNCHANGED itineraries PROVE PlanIInv'
<1>1. Asking(at[r]) /\ UNCHANGED <<placesVars, itineraries>>
  BY DEF MockRoute, Asking
<1>2. Finish(r, 500) \/ \E legs, order : Routed(r, legs, order)
  BY DEF MockRoute
<1> QED
  BY <1>1, <1>2, RoutedOK, RefusedOK

LEMMA StartRouteOK ==
    ASSUME PlanIInv, NEW r \in Requests, StartGoogleRoute(r), UNCHANGED itineraries PROVE PlanIInv'
<1> DEFINE m == [local[r] EXCEPT !.mode = MapTravelMode(work[r].mode), !.legs = <<>>]
           p == IF Sequential(r) THEN "call leg" ELSE "call route"
<1>1. Asking(at[r]) /\ UNCHANGED <<placesVars, itineraries>>
  BY DEF StartGoogleRoute, Asking
<1>2. Finish(r, 422) \/ GoWith(r, p, m)
  BY DEF StartGoogleRoute
<1>3. Asking(p)
  BY DEF Asking
<1>4. {"mode", "legs"} \subseteq DOMAIN local[r]
  BY Fields DEF Memory
<1>5. /\ DOMAIN m = DOMAIN local[r] /\ m.tries = local[r].tries
      /\ m.list = local[r].list /\ m.stops = local[r].stops /\ m.got = local[r].got
  BY <1>4
<1> HIDE DEF m, p
<1> QED
  BY <1>1, <1>2, <1>3, <1>5, AskingOn, RefusedOK

LEMMA CallRouteOK ==
    ASSUME PlanIInv, NEW r \in Requests, CallRoute(r), UNCHANGED itineraries PROVE PlanIInv'
<1> DEFINE walk == [local[r] EXCEPT !.mode = "WALK", !.tries = 0]
           once(best) == [local[r] EXCEPT !.legs = <<best>>, !.tries = 0]
           again == local[r].tries + 1 < MaxAttempts
                    /\ GoWith(r, at[r], [local[r] EXCEPT !.tries = @ + 1])
<1>1. Asking(at[r])
  BY DEF CallRoute, Asking
<1>2. UNCHANGED <<placesVars, itineraries>>
  BY DEF CallRoute, Attempt, Refused
<1>3. \/ GoWith(r, "call route", walk)
      \/ \E status \in {400, 404, 500} : Finish(r, status)
      \/ \E best : GoWith(r, "call again", once(best)) \/ Describe(r, best)
      \/ again
  <2> DEFINE Best(best) == IF local[r].mode = "TRANSIT" /\ ~RouteHasTransit(best)
                           THEN GoWith(r, "call again", once(best)) ELSE Describe(r, best)
             Answer(routes) == IF routes = <<>>
                               THEN IF local[r].mode = "BICYCLE" THEN GoWith(r, "call route", walk)
                                    ELSE Finish(r, 404)
                               ELSE Best(PickBestRoute(routes))
  <2>1. (\E routes : Answer(routes)) \/ (\E status \in {400, 500} : Finish(r, status)) \/ again
    BY DEF CallRoute, Attempt, Refused
  <2> HIDE DEF walk, once, again
  <2>2. \A best : Best(best) => GoWith(r, "call again", once(best)) \/ Describe(r, best)
    OBVIOUS
  <2>3. \A routes : Answer(routes) =>
           GoWith(r, "call route", walk) \/ Finish(r, 404) \/ Best(PickBestRoute(routes))
    OBVIOUS
  <2> HIDE DEF Best, Answer
  <2>4. Finish(r, 404) => \E status \in {400, 404, 500} : Finish(r, status)
    OBVIOUS
  <2>5. (\E status \in {400, 500} : Finish(r, status)) => \E status \in {400, 404, 500} : Finish(r, status)
    OBVIOUS
  <2> QED
    BY <2>1, <2>2, <2>3, <2>4, <2>5, ZenonT(40)
<1>4. {"mode", "legs", "tries"} \subseteq DOMAIN local[r]
  BY Fields DEF Memory
<1>5. /\ DOMAIN walk = DOMAIN local[r] /\ walk.tries = 0
      /\ walk.list = local[r].list /\ walk.stops = local[r].stops /\ walk.got = local[r].got
  BY <1>4
<1>6. \A best : LET m == once(best)
                IN  /\ DOMAIN m = DOMAIN local[r] /\ m.tries = 0
                    /\ m.list = local[r].list /\ m.stops = local[r].stops /\ m.got = local[r].got
  BY <1>4
<1>7. Asking("call route") /\ Asking("call again")
  BY DEF Asking
<1> HIDE DEF walk, once, again
<1>8. CASE GoWith(r, "call route", walk)
  BY <1>1, <1>2, <1>5, <1>7, <1>8, AskingOn
<1>9. ASSUME NEW best, GoWith(r, "call again", once(best)) PROVE PlanIInv'
  BY <1>1, <1>2, <1>6, <1>7, <1>9, AskingOn
<1>10. ASSUME NEW best, Describe(r, best) PROVE PlanIInv'
  BY <1>1, <1>2, <1>10, DescribeOK
<1>11. ASSUME NEW status \in {400, 404, 500}, Finish(r, status) PROVE PlanIInv'
  BY <1>1, <1>2, <1>11, RefusedOK
<1>12. CASE again
  BY <1>1, <1>2, <1>12, TryAgainOK DEF again
<1> QED
  BY <1>3, <1>8, <1>9, <1>10, <1>11, <1>12, ZenonT(40)

LEMMA CallAlternativeOK ==
    ASSUME PlanIInv, NEW r \in Requests, CallAlternative(r), UNCHANGED itineraries PROVE PlanIInv'
<1>1. Asking(at[r])
  BY DEF CallAlternative, Asking
<1>2. UNCHANGED <<placesVars, itineraries>>
  BY DEF CallAlternative, Attempt
<1>3. \/ \E best : Describe(r, best)
      \/ local[r].tries + 1 < MaxAttempts /\ GoWith(r, at[r], [local[r] EXCEPT !.tries = @ + 1])
  BY DEF CallAlternative, Attempt
<1> QED
  BY <1>1, <1>2, <1>3, DescribeOK, TryAgainOK

LEMMA CallLegOK ==
    ASSUME PlanIInv, NEW r \in Requests, CallLeg(r), UNCHANGED itineraries PROVE PlanIInv'
<1> DEFINE next(legs) == [local[r] EXCEPT !.legs = legs, !.leg = local[r].leg + 1, !.tries = 0]
<1>1. Asking(at[r])
  BY DEF CallLeg, Asking
<1>2. UNCHANGED <<placesVars, itineraries>>
  BY DEF CallLeg, Attempt, Refused
<1>3. \/ \E legs, order : Routed(r, legs, order)
      \/ \E legs : GoWith(r, "call leg", next(legs))
      \/ \E status \in {400, 500} : Finish(r, status)
      \/ local[r].tries + 1 < MaxAttempts /\ GoWith(r, at[r], [local[r] EXCEPT !.tries = @ + 1])
  BY DEF CallLeg, Attempt, Refused
<1>4. {"leg", "legs", "tries"} \subseteq DOMAIN local[r]
  BY Fields DEF Memory
<1>5. \A legs : LET m == next(legs)
                IN  /\ DOMAIN m = DOMAIN local[r] /\ m.tries = 0
                    /\ m.list = local[r].list /\ m.stops = local[r].stops /\ m.got = local[r].got
  BY <1>4
<1>6. Asking("call leg")
  BY DEF Asking
<1> HIDE DEF next
<1>7. ASSUME NEW legs, GoWith(r, "call leg", next(legs)) PROVE PlanIInv'
  BY <1>1, <1>2, <1>5, <1>6, <1>7, AskingOn
<1>8. ASSUME NEW legs, NEW order, Routed(r, legs, order) PROVE PlanIInv'
  BY <1>1, <1>2, <1>8, RoutedOK
<1>9. ASSUME NEW status \in {400, 500}, Finish(r, status) PROVE PlanIInv'
  BY <1>1, <1>2, <1>9, RefusedOK
<1>10. CASE local[r].tries + 1 < MaxAttempts /\ GoWith(r, at[r], [local[r] EXCEPT !.tries = @ + 1])
  BY <1>1, <1>2, <1>10, TryAgainOK
<1> QED
  BY <1>3, <1>7, <1>8, <1>9, <1>10, ZenonT(40)

-----------------------------------------------------------------------------
(* All steps of the trips.                                                 *)

LEMMA TripOK ==
    ASSUME PlanIInv, NEW r \in Requests, TripStep(r) PROVE PlanIInv'
<1>1. CASE UNCHANGED tripVars /\ ( \/ EnterPlanning(r) \/ SearchPlaces(r) \/ BuildRoute(r)
                                   \/ SaveItinerary(r) \/ PlanDay(r))
  BY <1>1, EnterOK, HandlersOK
<1>2. CASE UNCHANGED tripVars /\ ( \/ SearchReturns(r) \/ PlanFinds(r) \/ AllResolved(r)
                                   \/ RouteReturns(r) \/ PlanSaves(r))
  BY <1>2, FoundOK, RouteDone
<1>3. CASE UNCHANGED tripVars /\ ( \/ EnsureGrounded(r) \/ Grounded(r) \/ GetItinerary(r)
                                   \/ ListItineraries(r))
  BY <1>3, GroundOK, GroundedOK, ReadingOK
<1>4. CASE UNCHANGED itineraries /\ ( \/ ReadSearchCache(r) \/ CallSearch(r) \/ StoreSearch(r)
                                      \/ ReadPlaceCache(r) \/ CallPlace(r, Unresolved(r)))
  BY <1>4, ReadSearchOK, CallSearchOK, StoreSearchOK, ReadPlaceOK, CallPlaceOK
<1>5. CASE UNCHANGED itineraries /\ (GoogleRouteStep(r) \/ MockRoute(r))
  BY <1>5, StartRouteOK, CallRouteOK, CallAlternativeOK, CallLegOK, MockRouteOK DEF GoogleRouteStep
<1>6. CASE CreateItinerary(r) /\ UNCHANGED placesVars
  BY <1>6, CreateOK
<1> QED
  BY <1>1, <1>2, <1>3, <1>4, <1>5, <1>6 DEF TripStep

-----------------------------------------------------------------------------
(* The assistant, the phones, time and the restart.                        *)

\* Answers of the assistant are none of those that name places.
LEMMA AssistantAnswers ==
    ASSUME PlanIInv, NEW r \in Requests, UNCHANGED <<placesVars, itineraries>>, at[r] = "handler",
           work[r].op \notin {"SearchPlaces", "BuildRoute", "PlanDay"},
           (\E rows : Return(r, rows)) \/ (\E status \in {400, 422, 500, 503} : Finish(r, status))
    PROVE  PlanIInv'
<1>1. at[r] \in ServerPoints
  BY DEF ServerPoints
<1>2. ASSUME NEW rows, Return(r, rows) PROVE PlanIInv'
  <2>1. UNCHANGED <<work, itineraries>>
    BY <1>2 DEF Return
  <2>2. ItinerariesOK'
    BY <2>1, SameItineraries DEF PlanIInv
  <2> QED
    BY <1>1, <1>2, <2>2, Returning
<1>3. ASSUME NEW status \in {400, 422, 500, 503}, Finish(r, status) PROVE PlanIInv'
  <2>1. status \notin {0, 200}
    OBVIOUS
  <2> QED
    BY <1>1, <1>3, <2>1, Refusing
<1> QED
  BY <1>2, <1>3

LEMMA RefuseInputOK ==
    ASSUME PlanIInv, NEW r \in Requests, RefuseInput(r), UNCHANGED <<placesVars, itineraries>>
    PROVE  PlanIInv'
<1>1. at[r] \in ServerPoints /\ Finish(r, 400)
  BY DEF RefuseInput, ServerPoints
<1> QED
  BY <1>1, Refusing

LEMMA DayCardsOK ==
    ASSUME PlanIInv, NEW r \in Requests, SuggestDayCards(r), UNCHANGED <<placesVars, itineraries>>
    PROVE  PlanIInv'
<1> DEFINE m(down) == [local[r] EXCEPT !.tries = @ + 1, !.down = down]
<1>1. at[r] = "handler" /\ work[r].op = "SuggestDayCards"
  BY DEF SuggestDayCards, Handling
<1>2. \/ \E rows : Return(r, rows)
      \/ \E status \in {503} : Finish(r, status)
      \/ \E down : local[r].tries < 2 /\ GoWith(r, "handler", m(down))
  BY DEF SuggestDayCards
<1>3. HandOK(r, at[r], local[r]) /\ {"tries", "down"} \subseteq DOMAIN local[r]
  BY Fields DEF PlanIInv, Memory
<1>4. ASSUME NEW down, local[r].tries < 2, GoWith(r, "handler", m(down)) PROVE PlanIInv'
  <2> DEFINE n == m(down)
  <2>1. /\ DOMAIN n = DOMAIN local[r] /\ n.tries = local[r].tries + 1
        /\ n.list = local[r].list /\ n.stops = local[r].stops /\ n.got = local[r].got
    BY <1>3
  <2>2. GoWith(r, "handler", n)
    BY <1>4
  <2> HIDE DEF m, n
  <2>3. local[r].tries \in Nat
    <3>1. local[r].tries \in 0..(MaxAttempts - 1)
      BY <1>3 DEF HandOK
    <3> QED
      BY <3>1, PlacesAssumption
  <2>4. n.tries \in 0..(MaxAttempts - 1)
    BY <1>4, <2>1, <2>3, PlacesAssumption
  <2>5. HandOK(r, "handler", n)
    BY <1>1, <1>3, <2>1, <2>4 DEF HandOK, Routing, Resolving, Storing
  <2>6. at[r] \in ServerPoints /\ "handler" \in ServerPoints
    BY <1>1 DEF ServerPoints
  <2> QED
    BY <2>2, <2>5, <2>6, GoingOn
<1> HIDE DEF m
<1>5. CASE (\E rows : Return(r, rows)) \/ \E status \in {503} : Finish(r, status)
  <2>1. (\E rows : Return(r, rows)) \/ \E status \in {400, 422, 500, 503} : Finish(r, status)
    BY <1>5
  <2>2. work[r].op \notin {"SearchPlaces", "BuildRoute", "PlanDay"}
    BY <1>1
  <2> QED
    BY <1>1, <2>1, <2>2, AssistantAnswers
<1> QED
  BY <1>2, <1>4, <1>5

LEMMA AssistantOK ==
    ASSUME PlanIInv, NEW r \in Requests, AssistantStep(r), UNCHANGED <<placesVars, itineraries>>
    PROVE  PlanIInv'
<1>1. ASSUME ParseIntent(r) \/ PickStops(r) \/ SuggestRouteCard(r) PROVE PlanIInv'
  <2>1. at[r] = "handler" /\ work[r].op \in {"ParseIntent", "PickStops", "SuggestRouteCard"}
    BY <1>1 DEF ParseIntent, PickStops, SuggestRouteCard, Handling
  <2>2. ParseIntent(r) => (\E rows : Return(r, rows)) \/ \E status \in {500, 503} : Finish(r, status)
    BY DEF ParseIntent, Failures
  <2>3. PickStops(r) => (\E rows : Return(r, rows)) \/ \E status \in {422, 500, 503} : Finish(r, status)
    BY DEF PickStops, Failures
  <2>4. SuggestRouteCard(r) => \E rows : Return(r, rows)
    BY DEF SuggestRouteCard
  <2>5. (\E rows : Return(r, rows)) \/ \E status \in {400, 422, 500, 503} : Finish(r, status)
    BY <1>1, <2>2, <2>3, <2>4
  <2>6. work[r].op \notin {"SearchPlaces", "BuildRoute", "PlanDay"}
    BY <2>1
  <2> QED
    BY <2>1, <2>5, <2>6, AssistantAnswers
<1> QED
  BY <1>1, DayCardsOK DEF AssistantStep

LEMMA CallServerOK ==
    ASSUME PlanIInv, NEW r \in Requests, UNCHANGED <<placesVars, itineraries>>,
           NEW asked, NEW screen, CallServer(r, asked, screen),
           DOMAIN asked = DOMAIN work[r], asked.user = work[r].user, asked.stops = work[r].stops
    PROVE  PlanIInv'
<1>1. /\ work'[r] = asked /\ at'[r] = "arrived" /\ answer'[r] = NoAnswer /\ local'[r] = Memory
      /\ DOMAIN work' = Requests /\ DOMAIN answer' = Requests /\ DOMAIN local' = Requests
      /\ at' \in [Requests -> ServerPoints \cup {"idle", "done", "lost"}]
  <2>1. "arrived" \in ServerPoints
    BY DEF ServerPoints
  <2> QED
    BY <2>1 DEF CallServer, PlanIInv, ShapeOK
<1>2. \A q \in Requests \ {r} : /\ at'[q] = at[q] /\ local'[q] = local[q]
                                /\ answer'[q] = answer[q] /\ work'[q] = work[q]
  BY DEF CallServer, PlanIInv, ShapeOK
<1>3. answer'[r].status = 0 /\ at'[r] # "done"
  BY <1>1 DEF NoAnswer
<1>4. ShapeOK'
  <2>1. provider' = provider
    BY DEF placesVars
  <2>2. \A q \in Requests : (answer'[q].status # 0) <=> at'[q] = "done"
    BY <1>2, <1>3 DEF PlanIInv, ShapeOK
  <2>3. \A q \in Requests : {"user", "stops"} \subseteq DOMAIN work'[q] /\ IsList(work'[q].stops)
    BY <1>1, <1>2 DEF PlanIInv, ShapeOK
  <2> QED
    BY <1>1, <2>1, <2>2, <2>3 DEF PlanIInv, ShapeOK
<1>5. TablesOK' /\ provider' = provider
  BY SameTables DEF PlanIInv, placesVars
<1>6. ItinerariesOK'
  <2>1. \A q \in Requests : work'[q].user = work[q].user
    BY <1>1, <1>2
  <2> QED
    BY <2>1 DEF PlanIInv, ItinerariesOK
<1>7. HandOK(r, at[r], local[r])'
  <2>1. HandOK(r, "arrived", Memory)
    BY EmptyMemory
  <2> QED
    BY <1>1, <2>1 DEF HandOK, Routing, Resolving, Storing
<1>8. AnswerOK(r)'
  BY <1>3 DEF AnswerOK
<1> QED
  BY <1>2, <1>4, <1>5, <1>6, <1>7, <1>8, OnlyOne

LEMMA Unmoved ==
    ASSUME PlanIInv, UNCHANGED <<requestVars, provider, itineraries>>, TablesOK' PROVE PlanIInv'
<1>1. UNCHANGED <<work, at, local, answer, provider, itineraries>>
  BY DEF requestVars
<1>2. ShapeOK' /\ ItinerariesOK'
  BY <1>1 DEF PlanIInv, ShapeOK, ItinerariesOK
<1>3. ASSUME NEW r \in Requests PROVE HandOK(r, at[r], local[r])' /\ AnswerOK(r)'
  <2>1. HandOK(r, at[r], local[r]) /\ AnswerOK(r)
    BY DEF PlanIInv
  <2>2. HandOK(r, at[r], local[r])'
    BY <1>1, <2>1 DEF HandOK, Routing, Resolving, Storing, NoFixtures, Vouched
  <2>3. AnswerOK(r)'
    BY <1>1, <2>1 DEF AnswerOK, Vouched
  <2> QED
    BY <2>2, <2>3
<1> QED
  BY <1>2, <1>3 DEF PlanIInv

LEMMA PhoneOK ==
    ASSUME PlanIInv, NEW r \in Requests, PhoneStep(r), UNCHANGED <<placesVars, itineraries>>
    PROVE  PlanIInv'
<1> DEFINE SameUser(asked) == /\ DOMAIN asked = DOMAIN work[r]
                              /\ asked.user = work[r].user /\ asked.stops = work[r].stops
           intent == [work[r] EXCEPT !.op = "ParseIntent"]
           search(max) == [work[r] EXCEPT !.op = "SearchPlaces", !.max = max]
           pick(n, max) == [work[r] EXCEPT !.op = "PickStops", !.places = n, !.max = max]
           build(ids) == [work[r] EXCEPT !.op = "BuildRoute", !.ids = ids, !.optimize = FALSE]
           card(prompt, base, items, prev) ==
               [work[r] EXCEPT !.op = "SuggestRouteCard", !.prompt = prompt, !.base = base,
                               !.thread = items, !.previous = prev]
           Calls == \E asked, screen : CallServer(r, asked, screen) /\ SameUser(asked)
<1>1. SameUser(intent)
  OBVIOUS
<1>2. \A max : SameUser(search(max))
  OBVIOUS
<1>3. \A n, max : SameUser(pick(n, max))
  OBVIOUS
<1>4. \A ids : SameUser(build(ids))
  OBVIOUS
<1>5. \A prompt, base, items, prev : SameUser(card(prompt, base, items, prev))
  OBVIOUS
<1> HIDE DEF SameUser
<1>6. ASSUME StartPlan(r) PROVE UNCHANGED requestVars \/ Calls
  <2>1. UNCHANGED requestVars \/ \E screen : CallServer(r, intent, screen)
    BY <1>6 DEF StartPlan, Fail, Show
  <2> QED
    BY <1>1, <2>1
<1>7. ASSUME IntentArrives(r) PROVE UNCHANGED requestVars \/ Calls
  <2>1. UNCHANGED requestVars \/ \E max, screen : CallServer(r, search(max), screen)
    BY <1>7 DEF IntentArrives, Fail, Show
  <2> HIDE DEF search
  <2> QED
    BY <1>2, <2>1
<1>8. ASSUME PlacesArrive(r) PROVE UNCHANGED requestVars \/ Calls
  <2>1. UNCHANGED requestVars \/ \E n, max, screen : CallServer(r, pick(n, max), screen)
    BY <1>8 DEF PlacesArrive, Fail, Show
  <2> HIDE DEF pick
  <2> QED
    BY <1>3, <2>1
<1>9. ASSUME StopsArrive(r) PROVE UNCHANGED requestVars \/ Calls
  <2>1. \E ids, screen : CallServer(r, build(ids), screen)
    BY <1>9 DEF StopsArrive
  <2> HIDE DEF build
  <2> QED
    BY <1>4, <2>1
<1>10. ASSUME Send(r) \/ RetryChat(r) PROVE UNCHANGED requestVars \/ Calls
  <2>1. \E prompt, base, items, retries : Ask(r, prompt, base, items, retries)
    BY <1>10 DEF Send, RetryChat
  <2>2. \E prompt, base, items, prev, screen : CallServer(r, card(prompt, base, items, prev), screen)
    BY <2>1 DEF Ask
  <2> HIDE DEF card
  <2> QED
    BY <1>5, <2>2
<1>11. ASSUME RouteArrives(r) \/ RetryPlan(r) \/ CardArrives(r) PROVE UNCHANGED requestVars \/ Calls
  BY <1>11 DEF RouteArrives, RetryPlan, CardArrives, Fail, Show
<1>12. UNCHANGED requestVars \/ Calls
  BY <1>6, <1>7, <1>8, <1>9, <1>10, <1>11 DEF PhoneStep
<1>13. UNCHANGED provider /\ TablesOK'
  BY SameTables DEF placesVars, PlanIInv
<1>14. CASE UNCHANGED requestVars
  BY <1>13, <1>14, Unmoved
<1>15. CASE Calls
  BY <1>15, CallServerOK DEF SameUser
<1> QED
  BY <1>12, <1>14, <1>15

LEMMA ExpireOK ==
    ASSUME PlanIInv, Expire PROVE PlanIInv'
<1>1. UNCHANGED <<requestVars, provider, itineraries>>
  BY DEF Expire, ExpirePlace, ExpireSearch
<1>2. CASE \E id \in DOMAIN placeRows : ExpirePlace(id)
  <2>1. DOMAIN placeRows' = DOMAIN placeRows /\ UNCHANGED searchRows
    BY <1>2 DEF ExpirePlace
  <2>2. TablesOK'
    BY <2>1 DEF PlanIInv, TablesOK
  <2> QED
    BY <1>1, <2>2, Unmoved
<1>3. CASE \E key \in DOMAIN searchRows : ExpireSearch(key)
  <2>1. PICK key \in DOMAIN searchRows : ExpireSearch(key)
    BY <1>3
  <2>2. DOMAIN searchRows' = DOMAIN searchRows /\ UNCHANGED placeRows
        /\ searchRows'[key] = [searchRows[key] EXCEPT !.fresh = FALSE]
        /\ \A k \in DOMAIN searchRows : k # key => searchRows'[k] = searchRows[k]
    BY <2>1 DEF ExpireSearch
  <2>3. \A k \in DOMAIN searchRows : DOMAIN searchRows'[k] = DOMAIN searchRows[k]
                                     /\ searchRows'[k].ids = searchRows[k].ids
    BY <2>2 DEF PlanIInv, TablesOK
  <2>4. TablesOK'
    BY <2>2, <2>3 DEF PlanIInv, TablesOK
  <2> QED
    BY <1>1, <2>4, Unmoved
<1> QED
  BY <1>2, <1>3 DEF Expire

LEMMA RestartOK ==
    ASSUME PlanIInv, Restart PROVE PlanIInv'
<1>1. /\ provider' = "google" /\ UNCHANGED <<work, local, answer, placeRows, searchRows, itineraries>>
      /\ at' = [r \in Requests |-> IF at[r] \in {"idle", "arrived", "done"} THEN at[r] ELSE "lost"]
  BY DEF Restart, RestartWithKey
<1>2. \A r \in Requests : /\ at'[r] \in {"idle", "arrived", "done", "lost"}
                          /\ at'[r] = "done" <=> at[r] = "done"
  BY <1>1
<1>3. TablesOK' /\ ItinerariesOK'
  BY <1>1 DEF PlanIInv, TablesOK, ItinerariesOK
<1>4. ShapeOK'
  <2>1. at' \in [Requests -> ServerPoints \cup {"idle", "done", "lost"}]
    BY <1>1, <1>2 DEF ServerPoints
  <2>2. \A r \in Requests : (answer'[r].status # 0) <=> at'[r] = "done"
    BY <1>1, <1>2 DEF PlanIInv, ShapeOK
  <2> QED
    BY <1>1, <2>1, <2>2 DEF PlanIInv, ShapeOK
<1>5. ASSUME NEW r \in Requests PROVE HandOK(r, at[r], local[r])' /\ AnswerOK(r)'
  <2>1. HandOK(r, at[r], local[r]) /\ AnswerOK(r)
    BY DEF PlanIInv
  <2>2. HandOK(r, at[r], local[r])'
    BY <1>1, <1>2, <2>1 DEF HandOK, Routing, Resolving, Storing
  <2>3. AnswerOK(r)'
    BY <1>1, <1>2, <2>1 DEF AnswerOK, Vouched
  <2> QED
    BY <2>2, <2>3
<1> QED
  BY <1>3, <1>4, <1>5 DEF PlanIInv

-----------------------------------------------------------------------------
(* The theorems.                                                           *)

LEMMA PlanStep == PlanIInv /\ [PlanningNext]_vars => PlanIInv'
<1> SUFFICES ASSUME PlanIInv, [PlanningNext]_vars PROVE PlanIInv'
  OBVIOUS
<1>1. ASSUME NEW r \in Requests, Serve(r) PROVE PlanIInv'
  BY <1>1, TripOK, AssistantOK, RefuseInputOK, PhoneOK DEF Serve
<1>2. CASE UNCHANGED vars
  <2>1. UNCHANGED <<requestVars, placesVars, itineraries>>
    BY <1>2 DEF vars
  <2>2. UNCHANGED provider /\ TablesOK'
    BY <2>1, SameTables DEF placesVars, PlanIInv
  <2> QED
    BY <2>1, <2>2, Unmoved
<1> QED
  BY <1>1, <1>2, ExpireOK, RestartOK DEF PlanningNext

\* The invariant that both theorems follow from.
THEOREM PlanningIsInductive == PlanningSpec => []PlanIInv
BY PlanInitOK, PlanStep, PTL DEF PlanningSpec

\* Every request is at one of the points of the code and has an answer exactly
\* when it is done, and none calls Google more often than MaxAttempts times.
THEOREM PlanningTypes == PlanningSpec => []PlanningTypeOK
BY PlanningIsInductive, PlanTypes, PTL

\* No itinerary has a stop that nobody vouches for, each is its requester's,
\* and no answer of a server with a key has a fixture in it: whatever the
\* caches hold, the lookups that fail and the rows that run out.
THEOREM PlansStayGrounded == PlanningSpec => []PlansAreGrounded
BY PlanningIsInductive, PlanGrounded, PTL

-----------------------------------------------------------------------------
(* Loops that build a list one element at a time: what holds of the list   *)
(* at first and is kept by each round holds of it in the end.              *)

LEMMA FoldStays ==
    ASSUME NEW A, NEW n \in Nat, NEW h, h[1..0] \in A,
           \A k \in 1..n : h[1..(k - 1)] \in A => h[1..k] \in A
    PROVE  h[1..n] \in A
<1> DEFINE P == {k \in 0..n : h[1..k] \in A}
<1>1. 0 \in P
  BY 0 \in 0..n
<1>2. ASSUME NEW k \in 0..(n - 1), k \in P PROVE k + 1 \in P
  <2>1. k + 1 \in 1..n /\ k + 1 \in 0..n /\ (k + 1) - 1 = k
    OBVIOUS
  <2>2. h[1..((k + 1) - 1)] \in A
    BY <1>2, <2>1
  <2>3. h[1..(k + 1)] \in A
    BY <2>1, <2>2
  <2> QED
    BY <2>1, <2>3
<1> HIDE DEF P
<1>3. \A k \in 0..n : k \in P
  BY <1>1, <1>2, InductionUpTo
<1> QED
  BY <1>3 DEF P

\* One more, if it is new, keeps a list free of repetitions.
LEMMA InjectiveAppend ==
    ASSUME NEW T, NEW q \in Seq(T), IsInjective(q), NEW x \in T, x \notin Range(q)
    PROVE  Append(q, x) \in Seq(T) /\ IsInjective(Append(q, x)) /\ Len(Append(q, x)) = Len(q) + 1
<1>1. /\ Len(q) \in Nat /\ DOMAIN q = 1..Len(q)
      /\ Append(q, x) \in Seq(T) /\ Len(Append(q, x)) = Len(q) + 1
      /\ DOMAIN Append(q, x) = 1..(Len(q) + 1)
      /\ Append(q, x)[Len(q) + 1] = x /\ \A i \in 1..Len(q) : Append(q, x)[i] = q[i]
  BY LenProperties, AppendProperties
<1>2. \A i \in 1..Len(q) : q[i] # x
  BY <1>1 DEF Range
<1>3. \A a, b \in 1..(Len(q) + 1) : Append(q, x)[a] = Append(q, x)[b] => a = b
  <2>1. \A a \in 1..(Len(q) + 1) : a = Len(q) + 1 \/ a \in 1..Len(q)
    BY <1>1
  <2>2. \A a, b \in 1..Len(q) : q[a] = q[b] => a = b
    BY <1>1 DEF IsInjective
  <2> QED
    BY <1>1, <1>2, <2>1, <2>2
<1> QED
  BY <1>1, <1>3 DEF IsInjective

LEMMA PickedIsBounded ==
    ASSUME NEW picks, IsList(picks), NEW n \in Nat, NEW limit \in Nat
    PROVE  /\ Picked(picks, n, limit) \in Seq(0..(n - 1))
           /\ IsInjective(Picked(picks, n, limit)) /\ Len(Picked(picks, n, limit)) <= limit
<1> DEFINE m == Len(picks)
           A == {q \in Seq(0..(n - 1)) : IsInjective(q) /\ Len(q) <= limit}
           Taken(q, i) == IF i \in 0..(n - 1) /\ i \notin Range(q) /\ Len(q) < limit
                          THEN Append(q, i) ELSE q
           step == [p \in (1..m) \X A |-> Taken(p[2], picks[p[1]])]
           F(h) == [s \in SUBSET DOMAIN picks |->
                      IF s = {} THEN <<>> ELSE Taken(h[s \ {Max(s)}], picks[Max(s)])]
<1>1. m \in Nat /\ DOMAIN picks = 1..m
  BY ListDomain
<1>2. ASSUME NEW q \in A, NEW i PROVE Taken(q, i) \in A
  <2>1. CASE i \in 0..(n - 1) /\ i \notin Range(q) /\ Len(q) < limit
    <3>1. Append(q, i) \in Seq(0..(n - 1)) /\ IsInjective(Append(q, i)) /\ Len(Append(q, i)) = Len(q) + 1
      BY <2>1, InjectiveAppend
    <3>2. Len(q) \in Nat
      BY LenProperties
    <3>3. Append(q, i) \in A
      BY <2>1, <3>1, <3>2
    <3> QED
      BY <2>1, <3>3
  <2> QED
    BY <2>1
<1>3. <<>> \in A
  <2>1. <<>> \in Seq(0..(n - 1)) /\ DOMAIN <<>> = {} /\ Len(<<>>) = 0
    BY EmptySeq
  <2> QED
    BY <2>1 DEF IsInjective
<1> HIDE DEF A, Taken, m
<1>4. step \in [(1..m) \X A -> A]
  BY <1>2
<1>5. \A i \in 1..m, q \in A : step[<<i, q>>] = Taken(q, picks[i])
  OBVIOUS
<1> HIDE DEF step
<1>6. \E h : h = F(h)
  <2>1. PICK h : Folds(A, <<>>, m, step, h)
    BY <1>1, <1>3, <1>4, FoldExists
  <2>2. ASSUME NEW s \in SUBSET (1..m)
        PROVE  h[s] = IF s = {} THEN <<>> ELSE Taken(h[s \ {Max(s)}], picks[Max(s)])
    <3>1. CASE s = {}
      BY <2>1, <3>1 DEF Folds
    <3>2. CASE s # {}
      <4>1. Max(s) \in 1..m
        BY <1>1, <3>2, MaxOfSome
      <4>2. h[s \ {Max(s)}] \in A
        BY <2>1 DEF Folds
      <4> QED
        BY <2>1, <3>2, <4>1, <4>2, <1>5 DEF Folds
    <3> QED
      BY <3>1, <3>2
  <2>3. h = [s \in SUBSET (1..m) |-> h[s]]
    BY <2>1 DEF Folds
  <2> QED
    BY <2>2, <2>3, <1>1
<1>7. PICK h : h = F(h) /\ Picked(picks, n, limit) = h[DOMAIN picks]
  <2>1. Picked(picks, n, limit) = (CHOOSE h : h = F(h))[DOMAIN picks]
    BY DEF Picked, FoldLeft, MapThenFoldSet, Taken
  <2> QED
    BY <1>6, <2>1
<1>8. h[1..0] \in A
  <2>1. 1..0 = {} /\ {} \in SUBSET DOMAIN picks
    OBVIOUS
  <2> QED
    BY <1>3, <1>7, <2>1
<1>9. ASSUME NEW k \in 1..m, h[1..(k - 1)] \in A PROVE h[1..k] \in A
  <2>1. 1..k \in SUBSET DOMAIN picks /\ k \in Nat /\ k # 0
    BY <1>1
  <2>2. 1..k # {} /\ Max(1..k) = k /\ (1..k) \ {Max(1..k)} = 1..(k - 1)
    BY <2>1, PrefixBefore
  <2>3. h[1..k] = Taken(h[1..(k - 1)], picks[k])
    BY <1>7, <2>1, <2>2
  <2> QED
    BY <1>2, <1>9, <2>3
<1>10. h[1..m] \in A
  BY <1>1, <1>8, <1>9, FoldStays
<1> QED
  BY <1>1, <1>7, <1>10 DEF A

\* Mending a card leaves its cities alone.
LEMMA NormalizedCities ==
    ASSUME NEW card, {"cities", "intent", "icon"} \subseteq DOMAIN card
    PROVE  Normalized(card).cities = card.cities
BY DEF Normalized

Bounded(q, area) ==
    /\ Len(q) <= 4
    /\ \A i, j \in DOMAIN q : q[i].intent = q[j].intent => i = j
    /\ \A i \in DOMAIN q : q[i].cities \subseteq {SessionCity(area)} \cup Mentions[area]

LEMMA BoundedAppend ==
    ASSUME NEW T, NEW q \in Seq(T), NEW area, Bounded(q, area), Len(q) < 4, NEW x \in T,
           x.cities \subseteq {SessionCity(area)} \cup Mentions[area],
           \A i \in DOMAIN q : q[i].intent # x.intent
    PROVE  Append(q, x) \in Seq(T) /\ Bounded(Append(q, x), area)
<1> DEFINE new == Append(q, x)
<1>1. /\ Len(q) \in Nat /\ DOMAIN q = 1..Len(q)
      /\ new \in Seq(T) /\ Len(new) = Len(q) + 1 /\ DOMAIN new = 1..(Len(q) + 1)
      /\ new[Len(q) + 1] = x /\ \A i \in 1..Len(q) : new[i] = q[i]
  BY LenProperties, AppendProperties
<1> HIDE DEF new
<1>2. \A a \in 1..(Len(q) + 1) : a = Len(q) + 1 \/ a \in 1..Len(q)
  BY <1>1
<1>3. \A i, j \in DOMAIN new : new[i].intent = new[j].intent => i = j
  BY <1>1, <1>2 DEF Bounded
<1>4. \A i \in DOMAIN new : new[i].cities \subseteq {SessionCity(area)} \cup Mentions[area]
  BY <1>1, <1>2 DEF Bounded
<1>5. Len(new) <= 4
  BY <1>1
<1>6. new \in Seq(T) /\ Bounded(new, area)
  BY <1>1, <1>3, <1>4, <1>5 DEF Bounded
<1> QED
  BY <1>6 DEF new

LEMMA FilteredIsBounded ==
    ASSUME NEW cards, IsList(cards), NEW area,
           \A card \in Range(cards) : {"cities", "intent", "icon"} \subseteq DOMAIN card
    PROVE  Bounded(FilterDayCards(cards, area), area)
<1> DEFINE m == Len(cards)
           T == {Normalized(card) : card \in Range(cards)}
           A == {q \in Seq(T) : Bounded(q, area)}
           Good(card) == card.titled /\ ~CardConflictsWithArea(card, area)
           Taken(q, card) ==
               IF Len(q) < 4 /\ Good(card) /\ \A i \in DOMAIN q : q[i].intent # Normalized(card).intent
               THEN Append(q, Normalized(card)) ELSE q
           step == [p \in (1..m) \X A |-> Taken(p[2], cards[p[1]])]
           F(h) == [s \in SUBSET DOMAIN cards |->
                      IF s = {} THEN <<>> ELSE Taken(h[s \ {Max(s)}], cards[Max(s)])]
<1>1. m \in Nat /\ DOMAIN cards = 1..m /\ \A i \in 1..m : cards[i] \in Range(cards)
  BY ListDomain
<1>2. ASSUME NEW q \in A, NEW card \in Range(cards) PROVE Taken(q, card) \in A
  <2>1. ASSUME Len(q) < 4, Good(card), \A i \in DOMAIN q : q[i].intent # Normalized(card).intent
        PROVE  Append(q, Normalized(card)) \in A
    <3>1. card.cities \subseteq {SessionCity(area)} \cup Mentions[area]
      BY <2>1 DEF CardConflictsWithArea
    <3>2. Normalized(card).cities = card.cities
      BY NormalizedCities
    <3> QED
      BY <2>1, <3>1, <3>2, BoundedAppend
  <2> HIDE DEF Good, A
  <2> QED
    BY <2>1
<1>3. <<>> \in A
  <2>1. <<>> \in Seq(T) /\ DOMAIN <<>> = {} /\ Len(<<>>) = 0
    BY EmptySeq
  <2> QED
    BY <2>1 DEF Bounded
<1> HIDE DEF A, Taken, m
<1>5. step \in [(1..m) \X A -> A]
  BY <1>1, <1>2
<1>6. \A i \in 1..m, q \in A : step[<<i, q>>] = Taken(q, cards[i])
  OBVIOUS
<1> HIDE DEF step
<1>7. \E h : h = F(h)
  <2>1. PICK h : Folds(A, <<>>, m, step, h)
    BY <1>1, <1>3, <1>5, FoldExists
  <2>2. ASSUME NEW s \in SUBSET (1..m)
        PROVE  h[s] = IF s = {} THEN <<>> ELSE Taken(h[s \ {Max(s)}], cards[Max(s)])
    <3>1. CASE s = {}
      BY <2>1, <3>1 DEF Folds
    <3>2. CASE s # {}
      <4>1. Max(s) \in 1..m
        BY <1>1, <3>2, MaxOfSome
      <4>2. h[s \ {Max(s)}] \in A
        BY <2>1 DEF Folds
      <4> QED
        BY <2>1, <3>2, <4>1, <4>2, <1>6 DEF Folds
    <3> QED
      BY <3>1, <3>2
  <2>3. h = [s \in SUBSET (1..m) |-> h[s]]
    BY <2>1 DEF Folds
  <2> QED
    BY <2>2, <2>3, <1>1
<1>8. PICK h : h = F(h) /\ FilterDayCards(cards, area) = h[DOMAIN cards]
  <2>1. FilterDayCards(cards, area) = (CHOOSE h : h = F(h))[DOMAIN cards]
    BY DEF FilterDayCards, FoldLeft, MapThenFoldSet, Taken
  <2> QED
    BY <1>7, <2>1
<1>9. h[1..0] \in A
  <2>1. 1..0 = {} /\ {} \in SUBSET DOMAIN cards
    OBVIOUS
  <2> QED
    BY <1>3, <1>8, <2>1
<1>10. ASSUME NEW k \in 1..m, h[1..(k - 1)] \in A PROVE h[1..k] \in A
  <2>1. 1..k \in SUBSET DOMAIN cards /\ k \in Nat /\ k # 0
    BY <1>1
  <2>2. 1..k # {} /\ Max(1..k) = k /\ (1..k) \ {Max(1..k)} = 1..(k - 1)
    BY <2>1, PrefixBefore
  <2>3. h[1..k] = Taken(h[1..(k - 1)], cards[k])
    BY <1>8, <2>1, <2>2
  <2> QED
    BY <1>1, <1>2, <1>10, <2>3
<1>11. h[1..m] \in A
  BY <1>1, <1>9, <1>10, FoldStays
<1> QED
  BY <1>1, <1>8, <1>11 DEF A

-----------------------------------------------------------------------------
(* What the model sees of a thread.                                        *)

LEMMA MinOfSome ==
    ASSUME NEW n \in Nat, NEW s \in SUBSET (1..n), s # {}
    PROVE  Min(s) \in s /\ \A i \in s : Min(s) <= i
<1>1. s \subseteq Nat /\ s # {}
  OBVIOUS
<1>2. \E x \in s : \A y \in s : <<y, x>> \notin OpToRel(<, Nat)
  BY <1>1, WFMin, NatLessThanWellFounded, Zenon
<1>3. \E x \in s : \A y \in s : ~(y < x)
  BY <1>1, <1>2 DEF OpToRel
<1>4. \E x \in s : \A y \in s : x =< y
  BY <1>1, <1>3
<1> QED
  BY <1>4 DEF Min

\* A turn of the thread that is not its last one and is among the latest, or
\* the user's first.
Kept(t, i) ==
    \/ i >= Len(t) - MaxTurns + 2
    \/ t[i].role = "user" /\ \A j \in 1..(i - 1) : t[j].role # "user"

LEMMA CompactKeeps ==
    ASSUME NEW t, IsList(t), t # <<>>
    PROVE  /\ IsList(CompactTurns(t)) /\ Len(CompactTurns(t)) \in 1..MaxTurns
           /\ CompactTurns(t)[Len(CompactTurns(t))] = t[Len(t)]
           /\ \A i \in 1..(Len(t) - 1) :
                 Kept(t, i) => \E k \in 1..(Len(CompactTurns(t)) - 1) : CompactTurns(t)[k] = t[i]
<1> DEFINE n == Len(t)
           tail == n - MaxTurns + 2
           users == {i \in 1..n : t[i].role = "user"}
           T == Range(t)
           c == CompactTurns(t)
           Good(q) == /\ q \in Seq(T) /\ Len(q) \in 1..MaxTurns /\ q[Len(q)] = t[n]
                      /\ \A i \in 1..(n - 1) : Kept(t, i) => \E k \in 1..(Len(q) - 1) : q[k] = t[i]
<1>1. n \in Nat /\ n >= 1 /\ DOMAIN t = 1..n /\ t \in Seq(T) /\ \A i \in 1..n : t[i] \in T
  <2>1. n \in Nat /\ DOMAIN t = 1..n /\ t \in Seq(T) /\ \A i \in 1..n : t[i] \in T
    BY ListDomain DEF IsList
  <2>2. n # 0
    BY <2>1, EmptySeq
  <2> QED
    BY <2>1, <2>2
<1>2. MaxTurns \in Nat /\ MaxTurns >= 2
  BY RepliesAssumption
<1>3. CASE n <= MaxTurns
  <2>1. c = t
    BY <1>3 DEF CompactTurns
  <2> QED
    BY <1>1, <1>2, <1>3, <2>1
<1>4. CASE n > MaxTurns /\ \E i \in users : i < tail
  <2> DEFINE first == Min(users)
             late == SubSeq(t, tail, n)
             q == <<t[first]>> \o late
  <2>1. c = q
    BY <1>1, <1>2, <1>4 DEF CompactTurns
  <2>2. first \in users /\ \A i \in users : first <= i
    BY <1>1, <1>4, MinOfSome
  <2>3. first \in 1..n /\ first < tail /\ tail \in 1..n
    BY <1>1, <1>2, <1>4, <2>2
  <2>4. \A i \in tail..n : t[i] \in T
    BY <1>1, <2>3
  <2>5. late \in Seq(T) /\ Len(late) = n - tail + 1 /\ \A i \in 1..(n - tail + 1) : late[i] = t[tail + i - 1]
    BY <1>1, <2>3, <2>4, SubSeqProperties
  <2>6. <<t[first]>> \in Seq(T) /\ Len(<<t[first]>>) = 1 /\ <<t[first]>>[1] = t[first]
    <3>1. t[first] \in T
      BY <1>1, <2>3
    <3> HIDE DEF T, first
    <3> QED
      BY <3>1
  <2>7. /\ q \in Seq(T) /\ Len(q) = 1 + (n - tail + 1) /\ q[1] = t[first]
        /\ \A i \in 2..(1 + (n - tail + 1)) : q[i] = late[i - 1]
    <3> HIDE DEF late
    <3>1. q \in Seq(T) /\ Len(q) = Len(<<t[first]>>) + Len(late)
          /\ \A i \in 1..(Len(<<t[first]>>) + Len(late)) :
                q[i] = IF i <= Len(<<t[first]>>) THEN <<t[first]>>[i] ELSE late[i - Len(<<t[first]>>)]
      BY <2>5, <2>6, ConcatProperties
    <3> QED
      BY <1>1, <2>3, <2>5, <2>6, <3>1
  <2> HIDE DEF q, late, first
  <2>8. Len(q) = MaxTurns
    BY <1>1, <1>2, <2>7
  <2>9. \A i \in tail..n : i - tail + 2 \in 2..MaxTurns /\ q[i - tail + 2] = t[i]
    <3>1. SUFFICES ASSUME NEW i \in tail..n PROVE i - tail + 2 \in 2..MaxTurns /\ q[i - tail + 2] = t[i]
      OBVIOUS
    <3>2. i - tail + 2 \in 2..MaxTurns /\ i - tail + 2 \in 2..(1 + (n - tail + 1))
      BY <1>1, <1>2, <2>3
    <3>3. q[i - tail + 2] = late[(i - tail + 2) - 1]
      BY <2>7, <3>2
    <3>4. (i - tail + 2) - 1 \in 1..(n - tail + 1) /\ tail + ((i - tail + 2) - 1) - 1 = i
      BY <1>1, <1>2, <2>3
    <3>5. late[(i - tail + 2) - 1] = t[tail + ((i - tail + 2) - 1) - 1]
      BY <2>5, <3>4
    <3> QED
      BY <3>2, <3>3, <3>4, <3>5
  <2>10. q[Len(q)] = t[n]
    <3>1. n \in tail..n /\ n - tail + 2 = MaxTurns
      BY <1>1, <1>2, <2>3
    <3> QED
      BY <2>8, <2>9, <3>1
  <2>11. ASSUME NEW i \in 1..(n - 1), Kept(t, i) PROVE \E k \in 1..(Len(q) - 1) : q[k] = t[i]
    <3>1. CASE i >= tail
      <4>1. i \in tail..n /\ i - tail + 2 \in 1..(MaxTurns - 1)
        BY <1>1, <1>2, <2>3, <3>1
      <4> QED
        BY <2>8, <2>9, <4>1
    <3>2. CASE ~(i >= tail)
      <4>1. i \in users /\ \A j \in 1..(i - 1) : j \notin users
        BY <1>1, <2>11, <3>2 DEF Kept
      <4>2. first = i
        <5>1. first <= i /\ first \in Nat /\ first >= 1
          BY <2>2, <2>3, <4>1, <1>1
        <5>2. ~(first \in 1..(i - 1))
          BY <2>2, <4>1
        <5> QED
          BY <5>1, <5>2, <1>1
      <4>3. 1 \in 1..(Len(q) - 1)
        BY <1>2, <2>8
      <4> QED
        BY <2>7, <4>2, <4>3
    <3> QED
      BY <3>1, <3>2
  <2>12. Good(q)
    BY <1>2, <2>7, <2>8, <2>10, <2>11
  <2> HIDE DEF n, T, Good, c
  <2>13. Good(c)
    BY <2>1, <2>12
  <2> QED
    BY <2>13, ListOf DEF Good, n, T, c
<1>5. CASE n > MaxTurns /\ ~\E i \in users : i < tail
  <2> DEFINE from == n - MaxTurns + 1
             q == SubSeq(t, from, n)
  <2>1. c = q
    BY <1>1, <1>2, <1>5 DEF CompactTurns
  <2>2. from \in 1..n /\ n - from + 1 = MaxTurns
    BY <1>1, <1>2, <1>5
  <2>3. \A i \in from..n : t[i] \in T
    BY <1>1, <2>2
  <2>4. q \in Seq(T) /\ Len(q) = n - from + 1 /\ \A i \in 1..(n - from + 1) : q[i] = t[from + i - 1]
    BY <1>1, <2>2, <2>3, SubSeqProperties
  <2> HIDE DEF q
  <2>5. Len(q) = MaxTurns /\ \A i \in 1..MaxTurns : q[i] = t[from + i - 1]
    BY <2>2, <2>4
  <2>6. q[Len(q)] = t[n]
    <3>1. MaxTurns \in 1..MaxTurns /\ from + MaxTurns - 1 = n
      BY <1>1, <1>2
    <3> QED
      BY <2>5, <3>1
  <2>7. ASSUME NEW i \in 1..(n - 1), Kept(t, i) PROVE \E k \in 1..(Len(q) - 1) : q[k] = t[i]
    <3>1. i >= tail
      <4>1. CASE ~(i >= tail)
        <5>1. i \in users /\ i < tail
          BY <1>1, <1>2, <2>7, <4>1 DEF Kept
        <5> QED
          BY <1>5, <5>1
      <4> QED
        BY <4>1
    <3>2. i - from + 1 \in 1..(MaxTurns - 1) /\ from + (i - from + 1) - 1 = i
      BY <1>1, <1>2, <2>2, <3>1
    <3>3. q[i - from + 1] = t[i]
      BY <1>2, <2>5, <3>2
    <3> QED
      BY <2>5, <3>2, <3>3
  <2>8. Good(q)
    BY <1>2, <2>4, <2>5, <2>6, <2>7
  <2> HIDE DEF n, T, Good, c
  <2>9. Good(c)
    BY <2>1, <2>8
  <2> QED
    BY <2>9, ListOf DEF Good, n, T, c
<1> QED
  BY <1>1, <1>2, <1>3, <1>4, <1>5

LEMMA HistoryIsBounded ==
    ASSUME NEW r, IsList(work[r].thread)
    PROVE  LET thread == work[r].thread
               n == Len(thread)
               words == {i \in 1..(n - 1) : thread[i].role = "user"}
               cards == Cards(thread)
               sent == Range(HistoryTurns(r))
           IN  /\ Len(HistoryTurns(r)) <= MaxTurns
               /\ words # {} => thread[Min(words)] \in sent
               /\ (cards # {} /\ n - Max(cards) < MaxTurns - 1) => thread[Max(cards)] \in sent
<1> DEFINE t == work[r].thread
           n == Len(t)
           words == {i \in 1..(n - 1) : t[i].role = "user"}
           cards == Cards(t)
           c == CompactTurns(t)
           h == HistoryTurns(r)
<1>1. n \in Nat /\ DOMAIN t = 1..n /\ MaxTurns \in Nat /\ MaxTurns >= 2 /\ IsList(t)
  BY ListDomain, RepliesAssumption
<1>2. CASE t = <<>>
  <2>1. c = <<>>
    BY <1>1, <1>2 DEF CompactTurns
  <2>2. h = <<>>
    BY <2>1 DEF HistoryTurns
  <2>3. words = {} /\ cards = {}
    BY <1>1, <1>2 DEF Cards
  <2> QED
    BY <1>1, <2>2, <2>3
<1>3. CASE t # <<>>
  <2>1. /\ IsList(c) /\ Len(c) \in 1..MaxTurns /\ c[Len(c)] = t[n]
        /\ \A i \in 1..(n - 1) : Kept(t, i) => \E k \in 1..(Len(c) - 1) : c[k] = t[i]
    BY <1>1, <1>3, CompactKeeps
  <2>2. h = c \/ (h = Front(c) /\ t[n].role = "user")
    BY <2>1 DEF HistoryTurns, Last
  <2> HIDE DEF c, h
  <2>3. /\ Len(h) <= MaxTurns /\ \A k \in 1..(Len(c) - 1) : c[k] \in Range(h)
        /\ t[n].role # "user" => t[n] \in Range(h)
    <3>1. Len(c) \in Nat /\ DOMAIN c = 1..Len(c) /\ \A i \in 1..Len(c) : c[i] \in Range(c)
      BY <2>1, ListDomain
    <3>2. CASE h = c
      BY <1>1, <2>1, <3>1, <3>2
    <3>3. CASE h = Front(c) /\ t[n].role = "user"
      <4>1. /\ h \in Seq(Range(c)) /\ Len(h) = IF 1 <= Len(c) - 1 THEN (Len(c) - 1) - 1 + 1 ELSE 0
            /\ \A i \in 1..((Len(c) - 1) - 1 + 1) : h[i] = c[1 + i - 1]
        <5>1. \A i \in 1..(Len(c) - 1) : c[i] \in Range(c)
          BY <3>1
        <5> QED
          BY <3>1, <3>3, <5>1, SubSeqProperties DEF Front
      <4>2. Len(h) = Len(c) - 1 /\ DOMAIN h = 1..(Len(c) - 1) /\ \A i \in 1..(Len(c) - 1) : h[i] = c[i]
        <5>1. Len(c) \in Nat /\ Len(c) >= 1 /\ (Len(c) - 1) - 1 + 1 = Len(c) - 1
              /\ \A i \in 1..(Len(c) - 1) : 1 + i - 1 = i
          BY <2>1, <3>1
        <5>2. Len(h) = Len(c) - 1
          <6>1. Len(h) = IF 1 <= Len(c) - 1 THEN Len(c) - 1 ELSE 0
            BY <4>1, <5>1, Zenon
          <6>2. CASE Len(c) = 1
            <7>1. ~(1 <= Len(c) - 1)
              BY <6>2
            <7> QED
              BY <6>1, <6>2, <7>1
          <6>3. CASE Len(c) # 1
            <7>1. 1 <= Len(c) - 1
              BY <5>1, <6>3
            <7> QED
              BY <6>1, <7>1
          <6> QED
            BY <6>2, <6>3
        <5>3. ASSUME NEW i \in 1..(Len(c) - 1) PROVE h[i] = c[i]
          <6>1. i \in 1..((Len(c) - 1) - 1 + 1) /\ 1 + i - 1 = i
            BY <5>1
          <6>2. h[i] = c[1 + i - 1]
            BY <4>1, <6>1
          <6> QED
            BY <6>1, <6>2
        <5> QED
          BY <4>1, <5>2, <5>3, LenProperties
      <4> QED
        BY <1>1, <2>1, <3>3, <4>2 DEF Range
    <3> QED
      BY <2>2, <3>2, <3>3
  <2>4. \A i \in 1..(n - 1) : Kept(t, i) => t[i] \in Range(h)
    BY <2>1, <2>3
  <2>5. ASSUME words # {} PROVE t[Min(words)] \in Range(h)
    <3>1. n - 1 \in Nat
      BY <1>1, <2>5
    <3>2. Min(words) \in words /\ \A i \in words : Min(words) <= i
      BY <2>5, <3>1, MinOfSome
    <3>3. \A j \in 1..(Min(words) - 1) : t[j].role # "user"
      <4>1. SUFFICES ASSUME NEW j \in 1..(Min(words) - 1), j \in words PROVE FALSE
        BY <1>1, <3>2
      <4> QED
        BY <1>1, <3>2, <4>1
    <3>4. Kept(t, Min(words))
      BY <3>2, <3>3 DEF Kept
    <3> QED
      BY <2>4, <3>2, <3>4
  <2>6. ASSUME cards # {}, n - Max(cards) < MaxTurns - 1 PROVE t[Max(cards)] \in Range(h)
    <3>1. cards \in SUBSET (1..n) /\ \A i \in cards : t[i].role = "assistant"
      BY <1>1 DEF Cards
    <3> HIDE DEF cards
    <3>2. Max(cards) \in cards
      BY <1>1, <2>6, <3>1, MaxOfSome
    <3>3. CASE Max(cards) = n
      BY <2>3, <3>1, <3>2, <3>3
    <3>4. CASE Max(cards) # n
      <4>1. Max(cards) \in 1..(n - 1) /\ Max(cards) >= n - MaxTurns + 2
        <5> DEFINE last == Max(cards)
        <5>1. last \in 1..n /\ last # n /\ n - last < MaxTurns - 1
          BY <2>6, <3>1, <3>2, <3>4
        <5> HIDE DEF last, n
        <5>2. last \in 1..(n - 1) /\ last >= n - MaxTurns + 2
          BY <1>1, <5>1
        <5> QED
          BY <5>2 DEF last
      <4>2. Kept(t, Max(cards))
        BY <4>1 DEF Kept
      <4> QED
        BY <2>4, <4>1, <4>2
    <3> QED
      BY <3>3, <3>4
  <2> QED
    BY <2>3, <2>5, <2>6 DEF h
<1> QED
  BY <1>2, <1>3

-----------------------------------------------------------------------------
(* What a step on the way of a trip may do: go on, fail, answer a read or a *)
(* plan, or store.                                                         *)

Trips0 == {"SearchPlaces", "BuildRoute", "PlanDay", "GetItinerary", "ListItineraries"}
Errors == {400, 401, 403, 404, 422, 500, 503}

\* Points at which nothing is looked up to be stored.
Free(p) == p \in ServerPoints /\ p # "ground" /\ ~Resolving(p)

Goes(r) == \E p, m :
              /\ p \in ServerPoints /\ GoWith(r, p, m)
              /\ Storing(p, m) => \/ Storing(at[r], local[r])
                                  \/ work[r].op \in {"SaveItinerary", "PlanDay"}
Ends(r) == \E status \in Errors : Finish(r, status)
Tells(r) == \E rows : /\ Return(r, rows) /\ work[r].op \in Trips0
                      /\ work[r].op = "SearchPlaces" => IsList(rows.places)
Stores(r) == Finish(r, 201) /\ Storing(at[r], local[r]) /\ work[r].op # "PlanDay"
TripMove(r) == Goes(r) \/ Ends(r) \/ Tells(r) \/ Stores(r)

LEMMA FreeGoes ==
    ASSUME NEW r, NEW p, Free(p), NEW m, GoWith(r, p, m) PROVE Goes(r)
<1>1. p \in ServerPoints /\ p # "ground" /\ ~Resolving(p)
  BY DEF Free
<1>2. ~Storing(p, m)
  BY <1>1 DEF Storing
<1> QED
  BY <1>1, <1>2 DEF Goes

LEMMA FailsEnds == ASSUME NEW r, NEW status \in Errors, Finish(r, status) PROVE Ends(r)
BY DEF Ends

LEMMA HandlersMove ==
    ASSUME PlanIInv, NEW r \in Requests,
           \/ EnterPlanning(r) \/ SearchPlaces(r) \/ BuildRoute(r) \/ SaveItinerary(r) \/ PlanDay(r)
    PROVE  TripMove(r)
<1>0. Free("handler") /\ Free("search") /\ "ground" \in ServerPoints /\ "resolve" \in ServerPoints
  BY DEF Free, ServerPoints, Resolving
<1>1. CASE EnterPlanning(r)
  <2>1. Go(r, "handler") \/ Finish(r, 401) \/ Finish(r, 403)
    BY <1>1 DEF EnterPlanning
  <2>2. 401 \in Errors /\ 403 \in Errors
    BY DEF Errors
  <2> QED
    BY <1>0, <2>1, <2>2, FreeGoes, FailsEnds DEF Go, TripMove
<1>2. CASE SearchPlaces(r) \/ PlanDay(r)
  <2>1. Go(r, "search")
    BY <1>2 DEF SearchPlaces, PlanDay
  <2> QED
    BY <1>0, <2>1, FreeGoes DEF Go, TripMove
<1>3. CASE BuildRoute(r)
  <2>1. Finish(r, 422) \/ ResolveAll(r, work[r].ids, "route")
    BY <1>3 DEF BuildRoute
  <2>2. work[r].op = "BuildRoute" /\ 422 \in Errors
    BY <1>3 DEF BuildRoute, Handling, Errors
  <2>3. ASSUME ResolveAll(r, work[r].ids, "route") PROVE Goes(r)
    <3> DEFINE m == [local[r] EXCEPT !.todo = work[r].ids, !.got = <<>>, !.purpose = "route"]
    <3>1. GoWith(r, "resolve", m)
      BY <2>3 DEF ResolveAll
    <3>2. m.purpose = "route"
      <4>1. "purpose" \in DOMAIN local[r]
        BY Fields DEF Memory
      <4> QED
        BY <4>1
    <3> HIDE DEF m
    <3>3. ~Storing("resolve", m)
      BY <3>2 DEF Storing, Resolving
    <3> QED
      BY <1>0, <3>1, <3>3 DEF Goes
  <2> QED
    BY <2>1, <2>2, <2>3, FailsEnds DEF TripMove
<1>4. CASE SaveItinerary(r)
  <2>1. \E m : GoWith(r, "ground", m)
    BY <1>4 DEF SaveItinerary
  <2>2. work[r].op = "SaveItinerary"
    BY <1>4 DEF SaveItinerary, Handling
  <2> QED
    BY <1>0, <2>1, <2>2 DEF Goes, TripMove
<1> QED
  BY <1>1, <1>2, <1>3, <1>4

LEMMA ListHeld == ASSUME PlanIInv, NEW r \in Requests PROVE IsList(local[r].list)
<1>1. HandOK(r, at[r], local[r])
  BY DEF PlanIInv
<1> QED
  BY <1>1, Zenon DEF HandOK

LEMMA PlansMove ==
    ASSUME PlanIInv, NEW r \in Requests,
           \/ SearchReturns(r) \/ PlanFinds(r) \/ AllResolved(r) \/ RouteReturns(r) \/ PlanSaves(r)
    PROVE  TripMove(r)
<1>0. Free("route") /\ "ground" \in ServerPoints /\ "resolve" \in ServerPoints
  BY DEF Free, ServerPoints, Resolving
<1>1. CASE SearchReturns(r)
  <2> DEFINE rows == [provider |-> provider, places |-> Ids(local[r].list)]
  <2>1. Return(r, rows) /\ work[r].op = "SearchPlaces"
    BY <1>1 DEF SearchReturns
  <2>2. IsList(rows.places)
    <3>1. IsList(local[r].list)
      BY ListHeld
    <3> QED
      BY <3>1, IdsOf
  <2> HIDE DEF rows
  <2> QED
    BY <2>1, <2>2 DEF TripMove, Tells, Trips0
<1>2. CASE PlanFinds(r)
  <2>1. Finish(r, 422) \/ ResolveAll(r, Ids(local[r].list), "route")
    BY <1>2 DEF PlanFinds
  <2>2. work[r].op = "PlanDay" /\ 422 \in Errors
    BY <1>2 DEF PlanFinds, Errors
  <2>3. ResolveAll(r, Ids(local[r].list), "route") => \E m : GoWith(r, "resolve", m)
    BY DEF ResolveAll
  <2>4. (\E m : GoWith(r, "resolve", m)) => Goes(r)
    BY <1>0, <2>2 DEF Goes
  <2> QED
    BY <2>1, <2>2, <2>3, <2>4, FailsEnds DEF TripMove
<1>3. CASE AllResolved(r)
  <2>1. GoWith(r, "route", local[r])
    BY <1>3 DEF AllResolved, Go
  <2> QED
    BY <1>0, <2>1, FreeGoes DEF TripMove
<1>4. CASE RouteReturns(r)
  <2>1. Return(r, local[r].route) /\ work[r].op \in {"BuildRoute", "PlanDay"}
    BY <1>4 DEF RouteReturns
  <2> QED
    BY <2>1 DEF TripMove, Tells, Trips0
<1>5. CASE PlanSaves(r)
  <2>1. (\E m : GoWith(r, "ground", m)) /\ work[r].op = "PlanDay"
    BY <1>5 DEF PlanSaves
  <2> QED
    BY <1>0, <2>1 DEF Goes, TripMove
<1> QED
  BY <1>1, <1>2, <1>3, <1>4, <1>5

LEMMA SavesMove ==
    ASSUME PlanIInv, NEW r \in Requests,
           \/ EnsureGrounded(r) \/ Grounded(r) \/ GetItinerary(r) \/ ListItineraries(r)
           \/ CreateItinerary(r)
    PROVE  TripMove(r)
<1>0. "resolve" \in ServerPoints /\ {403, 404, 500} \subseteq Errors
  BY DEF ServerPoints, Errors
<1>1. CASE EnsureGrounded(r) \/ Grounded(r)
  <2>1. Storing(at[r], local[r])
    <3>1. at[r] = "ground" \/ (at[r] = "resolve" /\ local[r].purpose = "ground")
      BY <1>1 DEF EnsureGrounded, Grounded
    <3>2. Resolving("resolve")
      BY DEF Resolving
    <3> QED
      BY <3>1, <3>2 DEF Storing
  <2>2. Finish(r, 500) \/ \E m : GoWith(r, "resolve", m)
    BY <1>1 DEF EnsureGrounded, Grounded, ResolveAll
  <2> QED
    BY <1>0, <2>1, <2>2, FailsEnds DEF Goes, TripMove
<1>2. CASE GetItinerary(r) \/ ListItineraries(r)
  <2>1. (\E rows : Return(r, rows)) \/ \E status \in {403, 404, 500} : Finish(r, status)
    BY <1>2 DEF GetItinerary, ListItineraries
  <2>2. work[r].op \in {"GetItinerary", "ListItineraries"}
    BY <1>2 DEF GetItinerary, ListItineraries, Handling
  <2>3. work[r].op \in Trips0 /\ work[r].op # "SearchPlaces"
    BY <2>2 DEF Trips0
  <2> QED
    BY <1>0, <2>1, <2>3, FailsEnds DEF Tells, TripMove
<1>3. CASE CreateItinerary(r)
  <2>1. Storing(at[r], local[r])
    BY <1>3 DEF CreateItinerary, Storing, Resolving
  <2>2. \/ Finish(r, 500)
        \/ work[r].op = "PlanDay" /\ Return(r, local[r].route)
        \/ work[r].op # "PlanDay" /\ Finish(r, 201)
    BY <1>3 DEF CreateItinerary
  <2>3. work[r].op = "PlanDay" => work[r].op \in Trips0 /\ work[r].op # "SearchPlaces"
    BY DEF Trips0
  <2> QED
    BY <1>0, <2>1, <2>2, <2>3, FailsEnds DEF Tells, Stores, TripMove
<1> QED
  BY <1>1, <1>2, <1>3

LEMMA ResolvesOn ==
    ASSUME PlanIInv, NEW r \in Requests, Resolving(at[r]), NEW place, Resolve(r, place) PROVE Goes(r)
<1> DEFINE m == [local[r] EXCEPT !.todo = Tail(@), !.got = Append(@, place), !.tries = 0]
<1>1. GoWith(r, "resolve", m) /\ "resolve" \in ServerPoints
  BY DEF Resolve, ServerPoints
<1>2. m.purpose = local[r].purpose
  <2>1. {"todo", "got", "tries", "purpose"} \subseteq DOMAIN local[r]
    BY Fields DEF Memory
  <2> QED
    BY <2>1
<1> HIDE DEF m
<1>3. Storing("resolve", m) => Storing(at[r], local[r])
  BY <1>2 DEF Storing
<1> QED
  BY <1>1, <1>3 DEF Goes

LEMMA TriesOn ==
    ASSUME PlanIInv, NEW r \in Requests, at[r] \in ServerPoints,
           GoWith(r, at[r], [local[r] EXCEPT !.tries = @ + 1])
    PROVE  Goes(r)
<1> DEFINE m == [local[r] EXCEPT !.tries = @ + 1]
<1>1. m.purpose = local[r].purpose
  <2>1. {"tries", "purpose"} \subseteq DOMAIN local[r]
    BY Fields DEF Memory
  <2> QED
    BY <2>1
<1>2. GoWith(r, at[r], m)
  OBVIOUS
<1> HIDE DEF m
<1>3. Storing(at[r], m) => Storing(at[r], local[r])
  BY <1>1 DEF Storing
<1> QED
  BY <1>2, <1>3 DEF Goes

\* Going on to a point at which nothing is stored, and going there as one is.
LEMMA GoesFree ==
    ASSUME NEW r, NEW p, Free(p), Go(r, p) PROVE Goes(r)
BY FreeGoes DEF Go

LEMMA SearchesMove ==
    ASSUME PlanIInv, NEW r \in Requests, ReadSearchCache(r) \/ CallSearch(r) \/ StoreSearch(r)
    PROVE  TripMove(r)
<1>0. Free("found") /\ Free("call search") /\ Free("store search")
  BY DEF Free, ServerPoints, Resolving
<1>1. CASE ReadSearchCache(r)
  <2> DEFINE m == [local[r] EXCEPT !.list = GetSearch(SearchKey(r))]
  <2>1. GoWith(r, "found", m) \/ Go(r, "call search")
    BY <1>1, Zenon DEF ReadSearchCache
  <2> HIDE DEF m
  <2>2. CASE GoWith(r, "found", m)
    BY <1>0, <2>2, FreeGoes, Zenon DEF TripMove
  <2>3. CASE Go(r, "call search")
    BY <1>0, <2>3, GoesFree, Zenon DEF TripMove
  <2> QED
    BY <2>1, <2>2, <2>3, Zenon
<1>2. CASE CallSearch(r)
  <2> DEFINE Hold(list) == [local[r] EXCEPT !.list = list, !.tries = 0]
  <2>1. \/ \E list : GoWith(r, "store search", Hold(list))
        \/ Finish(r, 500)
        \/ GoWith(r, at[r], [local[r] EXCEPT !.tries = @ + 1])
    <3>1. \/ GoWith(r, "store search", Hold(SearchMock(Wanted(r))))
          \/ \E list \in SearchGoogle(Wanted(r)) : GoWith(r, "store search", Hold(list))
          \/ Finish(r, 500)
          \/ GoWith(r, at[r], [local[r] EXCEPT !.tries = @ + 1])
      BY <1>2, Zenon DEF CallSearch, Attempt
    <3> HIDE DEF Hold
    <3> QED
      BY <3>1, Zenon
  <2>2. at[r] \in ServerPoints
    BY <1>2, Zenon DEF CallSearch, ServerPoints
  <2> HIDE DEF Hold
  <2>3. ASSUME NEW list, GoWith(r, "store search", Hold(list)) PROVE TripMove(r)
    BY <1>0, <2>3, FreeGoes, Zenon DEF TripMove
  <2>4. CASE Finish(r, 500)
    <3>1. 500 \in Errors
      BY DEF Errors
    <3> QED
      BY <2>4, <3>1, FailsEnds DEF TripMove
  <2>5. CASE GoWith(r, at[r], [local[r] EXCEPT !.tries = @ + 1])
    BY <2>2, <2>5, TriesOn DEF TripMove
  <2> QED
    BY <2>1, <2>3, <2>4, <2>5, Zenon
<1>3. CASE StoreSearch(r)
  <2>1. Go(r, "found")
    BY <1>3, Zenon DEF StoreSearch
  <2> QED
    BY <1>0, <2>1, GoesFree, Zenon DEF TripMove
<1> QED
  BY <1>1, <1>2, <1>3

LEMMA PlacesMove ==
    ASSUME PlanIInv, NEW r \in Requests, ReadPlaceCache(r) \/ CallPlace(r, Unresolved(r))
    PROVE  TripMove(r)
<1>1. Resolving(at[r]) /\ at[r] \in ServerPoints
  BY Zenon DEF ReadPlaceCache, CallPlace, Resolving, ServerPoints
<1>2. \/ \E place : Resolve(r, place)
      \/ Go(r, "call get")
      \/ Finish(r, 422)
      \/ GoWith(r, at[r], [local[r] EXCEPT !.tries = @ + 1])
  <2>1. CASE ReadPlaceCache(r)
    BY <2>1, Zenon DEF ReadPlaceCache
  <2>2. Unresolved(r) => (\E place : Resolve(r, place)) \/ Finish(r, 422)
    BY DEF Unresolved
  <2>3. CASE CallPlace(r, Unresolved(r))
    <3>1. \/ Resolve(r, Place(Canon(Head(local[r].todo)), provider))
          \/ Unresolved(r)
          \/ GoWith(r, at[r], [local[r] EXCEPT !.tries = @ + 1])
      BY <2>3, Zenon DEF CallPlace, Attempt
    <3> QED
      BY <2>2, <3>1, Zenon
  <2> QED
    BY <2>1, <2>3, Zenon
<1>3. ASSUME Go(r, "call get") PROVE Goes(r)
  <2>1. "call get" \in ServerPoints
    BY Zenon DEF ServerPoints
  <2>2. Storing("call get", local[r]) => Storing(at[r], local[r])
    BY <1>1, Zenon DEF Storing
  <2>3. GoWith(r, "call get", local[r])
    BY <1>3, Zenon DEF Go
  <2> QED
    BY <2>1, <2>2, <2>3, Zenon DEF Goes
<1>4. 422 \in Errors
  BY DEF Errors
<1>5. (\E place : Resolve(r, place)) => Goes(r)
  BY <1>1, ResolvesOn
<1>6. Finish(r, 422) => Ends(r)
  BY <1>4, FailsEnds
<1>7. GoWith(r, at[r], [local[r] EXCEPT !.tries = @ + 1]) => Goes(r)
  BY <1>1, TriesOn
<1> QED
  BY <1>2, <1>3, <1>5, <1>6, <1>7, Zenon DEF TripMove

LEMMA RoutesMove ==
    ASSUME PlanIInv, NEW r \in Requests, GoogleRouteStep(r) \/ MockRoute(r)
    PROVE  TripMove(r)
<1> DEFINE again == GoWith(r, at[r], [local[r] EXCEPT !.tries = @ + 1])
           Asks == \E p, m : (Asking(p) \/ p = "routed") /\ GoWith(r, p, m)
           Fails == \E status \in {400, 404, 422, 500} : Finish(r, status)
<1>1. at[r] \in ServerPoints
  <2>1. at[r] \in {"route", "call route", "call again", "call leg"}
    BY Zenon DEF GoogleRouteStep, StartGoogleRoute, CallRoute, CallAlternative, CallLeg, MockRoute
  <2> QED
    BY <2>1, Zenon DEF ServerPoints
<1>2. \A p : Asking(p) \/ p = "routed" => Free(p)
  BY Zenon DEF Free, ServerPoints, Resolving, Asking
<1>3. Asking("call route") /\ Asking("call again") /\ Asking("call leg")
  BY Zenon DEF Asking
<1>4. \A status \in {400, 404, 422, 500} : status \in Errors
  BY DEF Errors
<1>5. again => Goes(r)
  BY <1>1, TriesOn
<1>6. Asks => Goes(r)
  BY <1>2, FreeGoes, Zenon
<1>7. Fails => Ends(r)
  BY <1>4, FailsEnds
<1>8. \A legs, order : Routed(r, legs, order) => Asks
  BY Zenon DEF Routed
<1>9. \A route : Describe(r, route) => Asks
  BY <1>8, Zenon DEF Describe
<1>10. \A m : (GoWith(r, "call route", m) => Asks) /\ (GoWith(r, "call again", m) => Asks)
              /\ (GoWith(r, "call leg", m) => Asks)
  BY <1>3, Zenon
<1>11. \A status \in {400, 404, 422, 500} : Finish(r, status) => Fails
  OBVIOUS
<1>12. Refused(r) => Fails
  BY DEF Refused
<1>13. Goes(r) => TripMove(r)
  BY DEF TripMove
<1>14. Ends(r) => TripMove(r)
  BY DEF TripMove
<1>15. /\ Finish(r, 400) => Fails
       /\ Finish(r, 404) => Fails
       /\ Finish(r, 422) => Fails
       /\ Finish(r, 500) => Fails
  BY <1>11
<1> HIDE DEF again, Asks, Fails
<1>16. CASE StartGoogleRoute(r)
  <2> DEFINE m == [local[r] EXCEPT !.mode = MapTravelMode(work[r].mode), !.legs = <<>>]
  <2>1. Finish(r, 422) \/ GoWith(r, "call leg", m) \/ GoWith(r, "call route", m)
    BY <1>16, Zenon DEF StartGoogleRoute
  <2> HIDE DEF m
  <2>2. Asks \/ Fails
    BY <1>10, <1>15, <2>1, Zenon
  <2> QED
    BY <1>6, <1>7, <1>13, <1>14, <2>2, Zenon
<1>17. CASE CallRoute(r)
  <2> DEFINE walk == [local[r] EXCEPT !.mode = "WALK", !.tries = 0]
             once(best) == [local[r] EXCEPT !.legs = <<best>>, !.tries = 0]
             Best(best) == IF local[r].mode = "TRANSIT" /\ ~RouteHasTransit(best)
                           THEN GoWith(r, "call again", once(best)) ELSE Describe(r, best)
             Answer(routes) == IF routes = <<>>
                               THEN IF local[r].mode = "BICYCLE" THEN GoWith(r, "call route", walk)
                                    ELSE Finish(r, 404)
                               ELSE Best(PickBestRoute(routes))
  <2>1. (\E routes : Answer(routes)) \/ Refused(r) \/ again
    BY <1>17, Zenon DEF CallRoute, Attempt, again
  <2> HIDE DEF walk, once
  <2>2. \A best : Best(best) => GoWith(r, "call again", once(best)) \/ Describe(r, best)
    BY Zenon
  <2>3. \A routes : Answer(routes) =>
           GoWith(r, "call route", walk) \/ Finish(r, 404) \/ Best(PickBestRoute(routes))
    BY Zenon
  <2> HIDE DEF Best, Answer
  <2>4. \A best : Best(best) => Asks
    BY <1>9, <1>10, <2>2, Zenon
  <2>5. \A routes : Answer(routes) => Asks \/ Fails
    BY <1>10, <1>15, <2>3, <2>4, Zenon
  <2> QED
    BY <1>5, <1>6, <1>7, <1>12, <1>13, <1>14, <2>1, <2>5, Zenon
<1>18. CASE CallAlternative(r)
  <2>1. (\E best : Describe(r, best)) \/ again
    BY <1>18, Zenon DEF CallAlternative, Attempt, again
  <2> QED
    BY <1>5, <1>6, <1>9, <1>13, <2>1, Zenon
<1>19. CASE CallLeg(r)
  <2> DEFINE next(legs) == [local[r] EXCEPT !.legs = legs, !.leg = local[r].leg + 1, !.tries = 0]
             order == Identity(Len(local[r].got))
             Take(legs) == IF local[r].leg + 1 + 1 = Len(Points(r)) THEN Routed(r, legs, order)
                           ELSE GoWith(r, "call leg", next(legs))
  <2>1. (\E legs : Take(legs)) \/ Refused(r) \/ again
    BY <1>19, Zenon DEF CallLeg, Attempt, again
  <2> HIDE DEF next, order
  <2>2. \A legs : Take(legs) => Routed(r, legs, order) \/ GoWith(r, "call leg", next(legs))
    BY Zenon
  <2> HIDE DEF Take
  <2>3. \A legs : Take(legs) => Asks
    BY <1>8, <1>10, <2>2, Zenon
  <2> QED
    BY <1>5, <1>6, <1>7, <1>12, <1>13, <1>14, <2>1, <2>3, Zenon
<1>20. CASE MockRoute(r)
  <2>1. (\E legs, order : Routed(r, legs, order)) \/ Finish(r, 500)
    BY <1>20 DEF MockRoute
  <2> QED
    BY <1>6, <1>7, <1>8, <1>13, <1>14, <1>15, <2>1, Zenon
<1> QED
  BY <1>16, <1>17, <1>18, <1>19, <1>20, Zenon DEF GoogleRouteStep

LEMMA TripsMove ==
    ASSUME PlanIInv, NEW r \in Requests, TripStep(r) PROVE TripMove(r)
BY HandlersMove, PlansMove, SavesMove, SearchesMove, PlacesMove, RoutesMove DEF TripStep

-----------------------------------------------------------------------------
(* The second invariant: what was answered fits what was asked, and what a *)
(* phone shows fits what it asked.                                         *)

IntentBounded(rows) == rows.area # None /\ rows.stops \in 3..6

PicksBounded(r, rows) ==
    /\ IsList(rows) /\ IsInjective(rows) /\ Len(rows) \in 2..6
    /\ Len(rows) <= work[r].max \/ Len(rows) = 2
    /\ Range(rows) \subseteq 0..(work[r].places - 1)

\* The area of a card for a prompt, by the card it revises, if any.
InCity(area, prompt, previous) ==
    LET named == CityFromPrompt(prompt)
    IN  /\ named # None => area = named
        /\ (named = None /\ previous # <<>> /\ previous[1].area # None) =>
              area \in {previous[1].area} \cup Mentions[prompt]

Fits(r, rows) ==
    /\ work[r].op = "SearchPlaces" => IsList(rows.places)
    /\ work[r].op = "ParseIntent" => IntentBounded(rows)
    /\ work[r].op = "PickStops" => PicksBounded(r, rows)
    /\ work[r].op = "SuggestDayCards" => Bounded(rows, work[r].area)
    /\ work[r].op = "SuggestRouteCard" => InCity(rows.area, work[r].prompt, work[r].previous)

Replied(r) ==
    /\ Storing(at[r], local[r]) => work[r].op \in {"SaveItinerary", "PlanDay"}
    /\ at[r] = "done" => \/ answer[r].status = 200 /\ Fits(r, answer[r].rows)
                         \/ answer[r].status = 201 /\ work[r].op = "SaveItinerary"
                         \/ answer[r].status \in Errors

\* The card that the request of a chat revises is one of its items.
Based(q, items) ==
    /\ q.base \in {0} \cup Cards(items)
    /\ q.previous = IF q.base = 0 THEN <<>> ELSE <<items[q.base]>>

CardsInCity(items) ==
    \A i \in Cards(items) :
        /\ items[i].base \in {0} \cup DOMAIN items
        /\ InCity(items[i].area, items[i].text,
                  IF items[i].base = 0 THEN <<>> ELSE <<items[items[i].base]>>)

Held(q, screen) ==
    /\ DOMAIN screen = DOMAIN Screen /\ screen.max \in Int /\ IsList(screen.items)
    /\ screen.step = "intent" => q.op = "ParseIntent"
    /\ screen.step = "search" => q.op = "SearchPlaces"
    /\ screen.step = "sent" => q.op = "SuggestRouteCard"
    /\ (q.app = "chat" /\ screen.step \in {"sent", "failed"}) => Based(q, screen.items)
    /\ CardsInCity(screen.items)

AssistIInv ==
    /\ PlanIInv /\ DOMAIN phone = Requests
    /\ \A r \in Requests : Asked(work[r]) /\ Replied(r) /\ Held(work[r], phone[r])

LEMMA AssistBounded == ASSUME AssistIInv PROVE AssistantIsBounded
<1>1. ASSUME NEW r \in Requests, at[r] = "done", answer[r].status = 200
      PROVE  Fits(r, answer[r].rows)
  <2>1. 200 \notin Errors
    BY DEF Errors
  <2> QED
    BY <1>1, <2>1 DEF AssistIInv, Replied
<1>2. ASSUME NEW r \in Requests, NEW i \in Cards(phone[r].items)
      PROVE  LET card == phone[r].items[i]
                 named == CityFromPrompt(card.text)
             IN  /\ named # None => card.area = named
                 /\ (named = None /\ card.base # 0 /\ phone[r].items[card.base].area # None) =>
                       card.area \in {phone[r].items[card.base].area} \cup Mentions[card.text]
  <2> DEFINE card == phone[r].items[i]
             base == phone[r].items[card.base]
  <2>1. InCity(card.area, card.text, IF card.base = 0 THEN <<>> ELSE <<base>>)
    BY <1>2 DEF AssistIInv, Held, CardsInCity
  <2> HIDE DEF base
  <2>2. <<base>> # <<>> /\ <<base>>[1] = base
    OBVIOUS
  <2> QED
    BY <2>1, <2>2 DEF InCity, base
<1>3. ASSUME NEW r \in Requests PROVE IsList(work[r].thread)
  BY <1>3 DEF AssistIInv, Asked, IsList
<1>4. ASSUME NEW r \in Requests
      PROVE  LET thread == work[r].thread
                 n == Len(thread)
                 words == {i \in 1..(n - 1) : thread[i].role = "user"}
                 cards == Cards(thread)
                 sent == Range(HistoryTurns(r))
             IN  /\ Len(HistoryTurns(r)) <= MaxTurns
                 /\ words # {} => thread[Min(words)] \in sent
                 /\ (cards # {} /\ n - Max(cards) < MaxTurns - 1) => thread[Max(cards)] \in sent
  BY <1>3, HistoryIsBounded
<1> QED
  BY <1>1, <1>2, <1>4 DEF AssistantIsBounded, Fits, IntentBounded, PicksBounded, Bounded

-----------------------------------------------------------------------------
(* Requests under way.                                                     *)

Others(r) ==
    /\ UNCHANGED work
    /\ \A q \in Requests \ {r} : at'[q] = at[q] /\ local'[q] = local[q] /\ answer'[q] = answer[q]

LEMMA WhatGoes ==
    ASSUME PlanIInv, NEW r \in Requests, NEW p, NEW m, GoWith(r, p, m)
    PROVE  Others(r) /\ at'[r] = p /\ local'[r] = m /\ answer' = answer
BY DEF GoWith, PlanIInv, ShapeOK, Others

LEMMA WhatEnds ==
    ASSUME PlanIInv, NEW r \in Requests, NEW status, Finish(r, status)
    PROVE  Others(r) /\ at'[r] = "done" /\ local' = local /\ answer'[r].status = status
BY DEF Finish, PlanIInv, ShapeOK, Others

LEMMA WhatReturns ==
    ASSUME PlanIInv, NEW r \in Requests, NEW rows, Return(r, rows)
    PROVE  Others(r) /\ at'[r] = "done" /\ local' = local /\ answer'[r].status = 200 /\ answer'[r].rows = rows
BY DEF Return, PlanIInv, ShapeOK, Others

LEMMA NotStoring == \A m : ~Storing("done", m) /\ ~Storing("handler", m) /\ ~Storing("arrived", m) /\ ~Storing("lost", m)
BY Zenon DEF Storing, Resolving

LEMMA GoingReplied ==
    ASSUME PlanIInv, NEW r \in Requests, Replied(r), Goes(r) PROVE Others(r) /\ Replied(r)'
<1>1. PICK p, m : /\ p \in ServerPoints /\ GoWith(r, p, m)
                  /\ Storing(p, m) => \/ Storing(at[r], local[r])
                                      \/ work[r].op \in {"SaveItinerary", "PlanDay"}
  BY DEF Goes
<1>2. Others(r) /\ at'[r] = p /\ local'[r] = m /\ work' = work
  BY <1>1, WhatGoes DEF Others
<1>3. p # "done"
  BY <1>1, Zenon DEF ServerPoints
<1> QED
  BY <1>1, <1>2, <1>3 DEF Replied, Storing

LEMMA EndingReplied ==
    ASSUME PlanIInv, NEW r \in Requests, Ends(r) PROVE Others(r) /\ Replied(r)'
<1>1. PICK status \in Errors : Finish(r, status)
  BY DEF Ends
<1>2. Others(r) /\ at'[r] = "done" /\ answer'[r].status \in Errors
  BY <1>1, WhatEnds
<1>3. ~Storing(at[r], local[r])'
  BY <1>2, NotStoring DEF Storing, Resolving
<1> QED
  BY <1>2, <1>3 DEF Replied

LEMMA ReturningReplied ==
    ASSUME PlanIInv, NEW r \in Requests, NEW rows, Return(r, rows), Fits(r, rows)
    PROVE  Others(r) /\ Replied(r)'
<1>1. Others(r) /\ at'[r] = "done" /\ answer'[r].status = 200 /\ answer'[r].rows = rows /\ work' = work
  BY WhatReturns DEF Others
<1>2. ~Storing(at[r], local[r])'
  BY <1>1, NotStoring DEF Storing, Resolving
<1>3. Fits(r, answer[r].rows)'
  BY <1>1 DEF Fits, PicksBounded
<1> QED
  BY <1>1, <1>2, <1>3 DEF Replied

LEMMA TripReplied ==
    ASSUME PlanIInv, NEW r \in Requests, Replied(r), TripMove(r) PROVE Others(r) /\ Replied(r)'
<1>1. ASSUME Tells(r) PROVE Others(r) /\ Replied(r)'
  <2>1. PICK rows : /\ Return(r, rows) /\ work[r].op \in Trips0
                    /\ work[r].op = "SearchPlaces" => IsList(rows.places)
    BY <1>1 DEF Tells
  <2>2. Fits(r, rows)
    BY <2>1 DEF Fits, Trips0
  <2> QED
    BY <2>1, <2>2, ReturningReplied
<1>2. ASSUME Stores(r) PROVE Others(r) /\ Replied(r)'
  <2>1. work[r].op = "SaveItinerary" /\ Finish(r, 201)
    BY <1>2 DEF Stores, Replied
  <2>2. Others(r) /\ at'[r] = "done" /\ answer'[r].status = 201 /\ work' = work
    BY <2>1, WhatEnds DEF Others
  <2>3. ~Storing(at[r], local[r])'
    BY <2>2, NotStoring DEF Storing, Resolving
  <2> QED
    BY <2>1, <2>2, <2>3 DEF Replied
<1> QED
  BY <1>1, <1>2, GoingReplied, EndingReplied DEF TripMove

LEMMA ClampInside ==
    ASSUME NEW n \in Int, NEW low \in Int, NEW high \in Int, low <= high
    PROVE  Clamp(n, low, high) \in low..high
BY DEF Clamp

LEMMA ParseReplied ==
    ASSUME PlanIInv, NEW r \in Requests, ParseIntent(r) PROVE Others(r) /\ Replied(r)'
<1>1. work[r].op = "ParseIntent"
  BY DEF ParseIntent, Handling
<1>2. PICK reply \in Replies :
         \/ \E status \in Failures \cup {500} : Finish(r, status)
         \/ \E area : area # None /\ Return(r, [area |-> area, stops |-> Clamp(reply.stops, 3, 6)])
  <2>1. DefaultCity # None
    BY RepliesAssumption
  <2> QED
    BY <2>1, ZenonT(40) DEF ParseIntent
<1>3. ASSUME NEW area, area # None, Return(r, [area |-> area, stops |-> Clamp(reply.stops, 3, 6)])
      PROVE  Others(r) /\ Replied(r)'
  <2> DEFINE rows == [area |-> area, stops |-> Clamp(reply.stops, 3, 6)]
  <2>1. rows.area # None /\ rows.stops \in 3..6
    <3>1. reply.stops \in Int
      BY RepliesAssumption
    <3>2. Clamp(reply.stops, 3, 6) \in 3..6
      BY <3>1 DEF Clamp
    <3> QED
      BY <1>3, <3>2
  <2>2. Return(r, rows)
    BY <1>3
  <2> HIDE DEF rows
  <2>3. Fits(r, rows)
    BY <1>1, <2>1 DEF Fits, IntentBounded
  <2> QED
    BY <2>2, <2>3, ReturningReplied
<1>4. ASSUME NEW status \in Failures \cup {500}, Finish(r, status) PROVE Others(r) /\ Replied(r)'
  <2>1. status \in Errors
    BY <1>4 DEF Failures, Errors
  <2> QED
    BY <1>4, <2>1, FailsEnds, EndingReplied
<1> QED
  BY <1>2, <1>3, <1>4

LEMMA FallbackFits ==
    ASSUME NEW limit \in Nat
    PROVE  /\ FallbackIndices(limit) \in Seq(0..(limit - 1)) /\ Len(FallbackIndices(limit)) = limit
           /\ IsInjective(FallbackIndices(limit))
<1> DEFINE f == FallbackIndices(limit)
<1>1. f = [i \in 1..limit |-> i - 1]
  BY DEF FallbackIndices
<1>2. f \in Seq(0..(limit - 1))
  BY <1>1
<1>3. Len(f) = limit
  <2> DEFINE n == Len(f)
  <2>1. 1..n = 1..limit /\ n \in Nat
    BY <1>1, <1>2, LenProperties
  <2> HIDE DEF n
  <2>2. n = limit
    BY <2>1
  <2> QED
    BY <2>2 DEF n
<1>4. IsInjective(f)
  BY <1>1 DEF IsInjective
<1> QED
  BY <1>2, <1>3, <1>4

LEMMA PickReplied ==
    ASSUME PlanIInv, NEW r \in Requests, Asked(work[r]), PickStops(r) PROVE Others(r) /\ Replied(r)'
<1> DEFINE n == work[r].places
           limit == PickLimit(r)
           out(reply) == Picked(reply.picks, n, limit)
           Chosen(reply) == IF Json(reply) /\ Len(out(reply)) >= 2 THEN out(reply) ELSE FallbackIndices(limit)
<1>1. work[r].op = "PickStops" /\ n \in Nat /\ work[r].max \in Int
  BY DEF PickStops, Handling, Asked
<1>2. \/ n >= 2 /\ \E reply \in Replies : Return(r, Chosen(reply))
      \/ \E status \in Failures \cup {422} : Finish(r, status)
  BY <1>1 DEF PickStops
<1>3. /\ limit \in Nat /\ (n >= 2 => limit >= 2) /\ limit <= n
      /\ limit <= 6 /\ (limit <= work[r].max \/ limit <= 2)
  BY <1>1 DEF PickLimit
<1>4. ASSUME n >= 2, NEW reply \in Replies, Return(r, Chosen(reply)) PROVE Others(r) /\ Replied(r)'
  <2>1. IsList(reply.picks)
    BY RepliesAssumption DEF IsList
  <2>2. out(reply) \in Seq(0..(n - 1)) /\ IsInjective(out(reply)) /\ Len(out(reply)) <= limit
    BY <1>1, <1>3, <2>1, PickedIsBounded
  <2>3. /\ FallbackIndices(limit) \in Seq(0..(limit - 1)) /\ Len(FallbackIndices(limit)) = limit
        /\ IsInjective(FallbackIndices(limit))
    BY <1>3, FallbackFits
  <2> HIDE DEF out, limit, n
  <2>4. 0..(limit - 1) \subseteq 0..(n - 1)
    BY <1>1, <1>3
  <2>5. FallbackIndices(limit) \in Seq(0..(n - 1))
    BY <2>3, <2>4, SeqMonotonic
  <2>6. /\ Chosen(reply) \in Seq(0..(n - 1)) /\ IsInjective(Chosen(reply))
        /\ Len(Chosen(reply)) >= 2 /\ Len(Chosen(reply)) <= limit
    BY <1>3, <1>4, <2>2, <2>3, <2>5
  <2> HIDE DEF Chosen
  <2>7. IsList(Chosen(reply)) /\ Range(Chosen(reply)) \subseteq 0..(n - 1) /\ Len(Chosen(reply)) \in Nat
    BY <2>6, ListOf, LenProperties
  <2>8. /\ Len(Chosen(reply)) \in 2..6
        /\ Len(Chosen(reply)) <= work[r].max \/ Len(Chosen(reply)) = 2
    <3> DEFINE picked == Len(Chosen(reply))
               max == work[r].max
    <3>1. /\ picked \in Nat /\ picked >= 2 /\ picked <= limit
          /\ limit \in Nat /\ limit <= 6 /\ (limit <= max \/ limit <= 2) /\ max \in Int
      BY <1>1, <1>3, <2>6, <2>7
    <3> HIDE DEF picked, max
    <3>2. picked \in 2..6 /\ (picked <= max \/ picked = 2)
      BY <3>1
    <3> QED
      BY <3>2 DEF picked, max
  <2>9. Fits(r, Chosen(reply))
    BY <1>1, <2>6, <2>7, <2>8 DEF Fits, PicksBounded, n
  <2> QED
    BY <1>4, <2>9, ReturningReplied
<1>5. ASSUME NEW status \in Failures \cup {422}, Finish(r, status) PROVE Others(r) /\ Replied(r)'
  <2>1. status \in Errors
    BY <1>5 DEF Failures, Errors
  <2> QED
    BY <1>5, <2>1, FailsEnds, EndingReplied
<1> QED
  BY <1>2, <1>4, <1>5

LEMMA DayCardsReplied ==
    ASSUME PlanIInv, NEW r \in Requests, Replied(r), SuggestDayCards(r) PROVE Others(r) /\ Replied(r)'
<1> DEFINE cards(reply) == FilterDayCards(reply.cards, work[r].area)
<1>1. work[r].op = "SuggestDayCards"
  BY DEF SuggestDayCards, Handling
<1>2. \/ \E m : GoWith(r, "handler", m)
      \/ Finish(r, 503) \/ Return(r, <<>>)
      \/ \E reply \in Replies : Return(r, cards(reply))
  BY DEF SuggestDayCards
<1>3. ASSUME NEW m, GoWith(r, "handler", m) PROVE Others(r) /\ Replied(r)'
  <2>1. Free("handler")
    BY DEF Free, ServerPoints, Resolving
  <2> QED
    BY <1>3, <2>1, FreeGoes, GoingReplied
<1>4. ASSUME Finish(r, 503) PROVE Others(r) /\ Replied(r)'
  <2>1. 503 \in Errors
    BY DEF Errors
  <2> QED
    BY <1>4, <2>1, FailsEnds, EndingReplied
<1>5. ASSUME NEW rows, Return(r, rows), Bounded(rows, work[r].area) PROVE Others(r) /\ Replied(r)'
  <2>1. Fits(r, rows)
    BY <1>1, <1>5 DEF Fits
  <2> QED
    BY <1>5, <2>1, ReturningReplied
<1>6. Bounded(<<>>, work[r].area)
  <2>1. DOMAIN <<>> = {} /\ Len(<<>>) = 0
    BY EmptySeq
  <2> QED
    BY <2>1 DEF Bounded
<1>7. \A reply \in Replies : Bounded(cards(reply), work[r].area)
  BY FilteredIsBounded, RepliesAssumption DEF IsList
<1> QED
  BY <1>2, <1>3, <1>4, <1>5, <1>6, <1>7

LEMMA RouteCardReplied ==
    ASSUME PlanIInv, NEW r \in Requests, SuggestRouteCard(r) PROVE Others(r) /\ Replied(r)'
<1> DEFINE prompt == work[r].prompt
           previous == work[r].previous
           named == CityFromPrompt(prompt)
           session == IF named # None THEN named ELSE ConversationArea(r)
           locked(area) == LockArea(session, area, prompt)
<1>1. work[r].op = "SuggestRouteCard"
  BY DEF SuggestRouteCard, Handling
<1>2. \E rows : /\ Return(r, rows)
                /\ \/ \E area : rows.area = IF locked(area) # None THEN locked(area) ELSE work[r].default
                   \/ rows.area = IF session # None THEN session ELSE work[r].default
  <2>1. (\E reply \in Replies : Return(r, [area |-> IF locked(reply.area) # None THEN locked(reply.area)
                                                    ELSE work[r].default,
                                           intent |-> Normalized(reply.cards[1]).intent]))
        \/ \E card \in FallbackRouteCard(r) : Return(r, card)
    BY DEF SuggestRouteCard
  <2>2. ASSUME NEW card \in FallbackRouteCard(r)
        PROVE  card.area = IF session # None THEN session ELSE work[r].default
    <3>1. PICK intent : card = [area |-> IF session # None THEN session ELSE work[r].default, intent |-> intent]
      BY DEF FallbackRouteCard
    <3> HIDE DEF session
    <3> QED
      BY <3>1
  <2> HIDE DEF locked, session
  <2>3. ASSUME NEW area, NEW intent,
               Return(r, [area |-> IF locked(area) # None THEN locked(area) ELSE work[r].default,
                          intent |-> intent])
        PROVE  \E rows : Return(r, rows) /\ \E a : rows.area = IF locked(a) # None THEN locked(a)
                                                              ELSE work[r].default
    <3> DEFINE rows == [area |-> IF locked(area) # None THEN locked(area) ELSE work[r].default,
                        intent |-> intent]
    <3>1. Return(r, rows) /\ rows.area = IF locked(area) # None THEN locked(area) ELSE work[r].default
      BY <2>3
    <3> HIDE DEF rows
    <3> QED
      BY <3>1
  <2> QED
    BY <2>1, <2>2, <2>3, Zenon
<1>3. session # None =>
         /\ named # None => session = named
         /\ (named = None /\ previous # <<>> /\ previous[1].area # None) => session = previous[1].area
  BY DEF ConversationArea
<1>4. (named # None \/ (previous # <<>> /\ previous[1].area # None)) => session # None
  BY DEF ConversationArea
<1>5. ASSUME NEW area
      PROVE  /\ named # None => locked(area) = named
             /\ (named = None /\ session # None) =>
                   /\ locked(area) = session \/ locked(area) \in Mentions[prompt]
                   /\ locked(area) # None
  BY DEF LockArea
<1> HIDE DEF locked, session
<1>6. ASSUME NEW rows, Return(r, rows),
             \/ \E area : rows.area = IF locked(area) # None THEN locked(area) ELSE work[r].default
             \/ rows.area = IF session # None THEN session ELSE work[r].default
      PROVE  Others(r) /\ Replied(r)'
  <2>1. InCity(rows.area, prompt, previous)
    BY <1>3, <1>4, <1>5, <1>6 DEF InCity
  <2>2. Fits(r, rows)
    BY <1>1, <2>1 DEF Fits
  <2> QED
    BY <1>6, <2>2, ReturningReplied
<1> QED
  BY <1>2, <1>6

LEMMA AssistantReplied ==
    ASSUME PlanIInv, NEW r \in Requests, Asked(work[r]), Replied(r), AssistantStep(r) \/ RefuseInput(r)
    PROVE  Others(r) /\ Replied(r)'
<1>1. CASE RefuseInput(r)
  <2>1. 400 \in Errors /\ Finish(r, 400)
    BY <1>1 DEF Errors, RefuseInput
  <2> QED
    BY <2>1, FailsEnds, EndingReplied
<1> QED
  BY <1>1, ParseReplied, PickReplied, DayCardsReplied, RouteCardReplied DEF AssistantStep

LEMMA ReplyStands ==
    ASSUME NEW q, Replied(q), work'[q] = work[q], at'[q] = at[q], local'[q] = local[q],
           answer'[q] = answer[q]
    PROVE  Replied(q)'
BY DEF Replied, Fits, PicksBounded

\* A step of the server for one request.
LEMMA ServerServes ==
    ASSUME AssistIInv, PlanIInv', NEW r \in Requests, Others(r), Replied(r)', UNCHANGED phone
    PROVE  AssistIInv'
<1>1. ASSUME NEW q \in Requests PROVE Replied(q)'
  <2>1. CASE q = r
    BY <2>1
  <2>2. CASE q # r
    <3>1. Replied(q) /\ work'[q] = work[q] /\ at'[q] = at[q] /\ local'[q] = local[q] /\ answer'[q] = answer[q]
      BY <2>2 DEF AssistIInv, Others
    <3> QED
      BY <3>1, ReplyStands
  <2> QED
    BY <2>1, <2>2
<1>2. UNCHANGED work
  BY DEF Others
<1>3. ASSUME NEW q \in Requests PROVE Asked(work[q])' /\ Held(work[q], phone[q])'
  <2>1. Asked(work[q]) /\ Held(work[q], phone[q])
    BY DEF AssistIInv
  <2>2. work'[q] = work[q] /\ phone'[q] = phone[q]
    BY <1>2
  <2>3. Asked(work'[q]) /\ Held(work'[q], phone'[q])
    BY <2>1, <2>2
  <2> QED
    BY <2>3 DEF Asked, Held
<1>4. (DOMAIN phone = Requests)'
  BY DEF AssistIInv
<1> QED
  BY <1>1, <1>3, <1>4 DEF AssistIInv

\* The phone shows something else.
LEMMA PhoneShows ==
    ASSUME AssistIInv, PlanIInv', NEW r \in Requests, NEW screen, Show(r, screen), Held(work[r], screen)
    PROVE  AssistIInv'
<1>1. UNCHANGED <<work, at, local, answer>> /\ phone' = [phone EXCEPT ![r] = screen]
  BY DEF Show, requestVars
<1>2. DOMAIN phone = Requests
  BY DEF AssistIInv
<1>3. ASSUME NEW q \in Requests PROVE Asked(work[q])' /\ Replied(q)' /\ Held(work[q], phone[q])'
  <2>1. Asked(work[q]) /\ Replied(q) /\ Held(work[q], phone'[q])
    BY <1>1, <1>2 DEF AssistIInv
  <2>2. Replied(q)'
    BY <1>1, <2>1, ReplyStands
  <2>3. work'[q] = work[q]
    BY <1>1
  <2>4. Asked(work'[q]) /\ Held(work'[q], phone'[q])
    BY <2>1, <2>3
  <2> QED
    BY <2>2, <2>4 DEF Asked, Held
<1>4. (DOMAIN phone = Requests)'
  BY <1>1, <1>2
<1> QED
  BY <1>3, <1>4 DEF AssistIInv

\* The phone calls the server.
LEMMA PhoneCalls ==
    ASSUME AssistIInv, PlanIInv', NEW r \in Requests, NEW asked, NEW screen,
           CallServer(r, asked, screen), Asked(asked), Held(asked, screen)
    PROVE  AssistIInv'
<1>1. DOMAIN phone = Requests /\ ShapeOK
  BY DEF AssistIInv, PlanIInv
<1>2. /\ work'[r] = asked /\ at'[r] = "arrived" /\ phone'[r] = screen
      /\ DOMAIN phone' = Requests
      /\ \A q \in Requests \ {r} : /\ work'[q] = work[q] /\ at'[q] = at[q] /\ local'[q] = local[q]
                                   /\ answer'[q] = answer[q] /\ phone'[q] = phone[q]
  BY <1>1 DEF CallServer, ShapeOK
<1>3. ASSUME NEW q \in Requests PROVE Replied(q)'
  <2>1. CASE q = r
    <3>1. ~Storing(at[q], local[q])'
      BY <1>2, <2>1, NotStoring DEF Storing, Resolving
    <3>2. at'[q] # "done"
      BY <1>2, <2>1
    <3> QED
      BY <3>1, <3>2 DEF Replied
  <2>2. CASE q # r
    BY <1>2, <2>2, ReplyStands DEF AssistIInv
  <2> QED
    BY <2>1, <2>2
<1>4. ASSUME NEW q \in Requests PROVE Asked(work[q])' /\ Held(work[q], phone[q])'
  <2>1. Asked(work'[q]) /\ Held(work'[q], phone'[q])
    BY <1>2 DEF AssistIInv
  <2> QED
    BY <2>1 DEF Asked, Held
<1> QED
  BY <1>2, <1>3, <1>4 DEF AssistIInv

-----------------------------------------------------------------------------
(* Steps of a phone.                                                       *)

\* What is asked next is of the same kind.
LEMMA AskedAnew ==
    ASSUME NEW q, Asked(q), NEW a, DOMAIN a = DOMAIN q, a.stops = q.stops, IsList(a.thread),
           a.max \in Int, a.wish = q.wish /\ a.origin = q.origin, a.places \in Nat
    PROVE  Asked(a)
BY DEF Asked, IsList

\* A screen of a plan keeps no conversation of its own.
LEMMA PlanScreens ==
    ASSUME NEW q, NEW screen, Held(q, screen), NEW a, a.app # "chat", NEW s,
           DOMAIN s = DOMAIN Screen, s.items = screen.items, s.max \in Int, s.step # "sent",
           s.step = "intent" => a.op = "ParseIntent", s.step = "search" => a.op = "SearchPlaces"
    PROVE  Held(a, s)
BY DEF Held

LEMMA SucceededFits ==
    ASSUME AssistIInv, NEW r \in Requests, Succeeded(r), work[r].op # "SaveItinerary"
    PROVE  Fits(r, answer[r].rows)
<1>1. at[r] = "done" /\ answer[r].status \in 200..299 /\ Replied(r)
  BY DEF Succeeded, AssistIInv
<1>2. \A status \in Errors : status \notin 200..299
  BY DEF Errors
<1> QED
  BY <1>1, <1>2 DEF Replied

LEMMA FailShown ==
    ASSUME AssistIInv, PlanIInv', NEW r \in Requests, Fail(r),
           work[r].app # "chat" \/ phone[r].step = "sent"
    PROVE  AssistIInv'
<1> DEFINE q == work[r]
           screen == phone[r]
           f == [screen EXCEPT !.step = "failed"]
<1>1. Held(q, screen)
  BY DEF AssistIInv
<1>2. DOMAIN screen = DOMAIN Screen /\ "step" \in DOMAIN screen
  BY <1>1 DEF Held, Screen
<1>3. /\ DOMAIN f = DOMAIN Screen /\ f.step = "failed" /\ f.max = screen.max
      /\ f.items = screen.items
  BY <1>2
<1>4. Show(r, f)
  BY DEF Fail
<1>5. q.app # "chat" \/ screen.step = "sent"
  OBVIOUS
<1> HIDE DEF q, screen, f
<1>6. Held(q, f)
  BY <1>1, <1>3, <1>5 DEF Held
<1> QED
  BY <1>4, <1>6, PhoneShows DEF q

LEMMA StartPlanHeld ==
    ASSUME AssistIInv, PlanIInv', NEW r \in Requests, StartPlan(r) PROVE AssistIInv'
<1> DEFINE q == work[r]
           screen == phone[r]
           a == [q EXCEPT !.op = "ParseIntent"]
           s == [screen EXCEPT !.step = "intent", !.max = q.wish]
<1>1. Asked(q) /\ Held(q, screen) /\ q.app = "plan"
  BY DEF AssistIInv, StartPlan
<1>2. CallServer(r, a, s) \/ Fail(r)
  BY DEF StartPlan
<1>3. /\ DOMAIN a = DOMAIN q /\ a.op = "ParseIntent" /\ a.app = q.app /\ a.stops = q.stops
      /\ a.thread = q.thread /\ a.max = q.max /\ a.wish = q.wish /\ a.origin = q.origin /\ a.places = q.places
  BY <1>1 DEF Asked, AskedFields
<1>4. DOMAIN screen = DOMAIN Screen /\ {"step", "max", "items"} \subseteq DOMAIN screen
  BY <1>1 DEF Held, Screen
<1>5. DOMAIN s = DOMAIN Screen /\ s.step = "intent" /\ s.max = q.wish /\ s.items = screen.items
  BY <1>4
<1>6. q.wish \in Int /\ q.max \in Int /\ q.places \in Nat /\ IsList(q.thread)
  BY <1>1 DEF Asked, IsList
<1> HIDE DEF a, s
<1>7. Asked(a)
  BY <1>1, <1>3, <1>6, AskedAnew
<1>8. Held(a, s)
  BY <1>1, <1>3, <1>5, <1>6, PlanScreens
<1> QED
  BY <1>1, <1>2, <1>7, <1>8, PhoneCalls, FailShown

LEMMA IntentHeld ==
    ASSUME AssistIInv, PlanIInv', NEW r \in Requests, IntentArrives(r) PROVE AssistIInv'
<1> DEFINE q == work[r]
           screen == phone[r]
           max == IF Succeeded(r) THEN Clamp(answer[r].rows.stops, 3, 7) ELSE screen.max
           a == [q EXCEPT !.op = "SearchPlaces", !.max = Clamp(2 * max, 6, 12)]
           s == [screen EXCEPT !.step = "search", !.max = max]
<1>1. Asked(q) /\ Held(q, screen) /\ q.app = "plan" /\ screen.step = "intent"
  BY DEF AssistIInv, IntentArrives, Returned
<1>2. CallServer(r, a, s) \/ Fail(r)
  BY DEF IntentArrives
<1>3. max \in Int
  <2>1. screen.max \in Int /\ q.op = "ParseIntent"
    BY <1>1 DEF Held
  <2>2. Succeeded(r) => answer[r].rows.stops \in 3..6
    BY <2>1, SucceededFits DEF Fits, IntentBounded
  <2>3. Succeeded(r) => Clamp(answer[r].rows.stops, 3, 7) \in Int
    BY <2>2 DEF Clamp
  <2> QED
    BY <2>1, <2>3
<1> HIDE DEF max
<1>4. Clamp(2 * max, 6, 12) \in Int
  BY <1>3 DEF Clamp
<1>5. /\ DOMAIN a = DOMAIN q /\ a.op = "SearchPlaces" /\ a.app = q.app /\ a.stops = q.stops
      /\ a.thread = q.thread /\ a.max = Clamp(2 * max, 6, 12) /\ a.wish = q.wish /\ a.origin = q.origin /\ a.places = q.places
  BY <1>1 DEF Asked, AskedFields
<1>6. DOMAIN screen = DOMAIN Screen /\ {"step", "max", "items"} \subseteq DOMAIN screen
  BY <1>1 DEF Held, Screen
<1>7. DOMAIN s = DOMAIN Screen /\ s.step = "search" /\ s.max = max /\ s.items = screen.items
  BY <1>6
<1>8. q.places \in Nat /\ IsList(q.thread)
  BY <1>1 DEF Asked, IsList
<1> HIDE DEF a, s
<1>9. Asked(a)
  BY <1>1, <1>4, <1>5, <1>8, AskedAnew
<1>10. Held(a, s)
  BY <1>1, <1>3, <1>5, <1>7, PlanScreens
<1> QED
  BY <1>1, <1>2, <1>9, <1>10, PhoneCalls, FailShown

LEMMA PlacesHeld ==
    ASSUME AssistIInv, PlanIInv', NEW r \in Requests, PlacesArrive(r) PROVE AssistIInv'
<1> DEFINE q == work[r]
           screen == phone[r]
           places == answer[r].rows.places
           n == Len(places)
           max == Clamp(screen.max, 2, n)
           a == [q EXCEPT !.op = "PickStops", !.places = n, !.max = max]
           s == [screen EXCEPT !.step = "pick", !.places = places]
<1>1. Asked(q) /\ Held(q, screen) /\ q.app = "plan" /\ screen.step = "search"
  BY DEF AssistIInv, PlacesArrive, Returned
<1>2. (Succeeded(r) /\ CallServer(r, a, s)) \/ Fail(r)
  BY DEF PlacesArrive
<1>3. screen.max \in Int /\ q.op = "SearchPlaces"
  BY <1>1 DEF Held
<1>4. Succeeded(r) => n \in Nat
  BY <1>3, SucceededFits, ListDomain DEF Fits
<1> HIDE DEF n, places
<1>5. Succeeded(r) => max \in Int
  BY <1>3, <1>4 DEF Clamp
<1> HIDE DEF max
<1>6. /\ DOMAIN a = DOMAIN q /\ a.op = "PickStops" /\ a.app = q.app /\ a.stops = q.stops
      /\ a.thread = q.thread /\ a.max = max /\ a.wish = q.wish /\ a.origin = q.origin /\ a.places = n
  BY <1>1 DEF Asked, AskedFields
<1>7. DOMAIN screen = DOMAIN Screen /\ {"step", "max", "items", "places"} \subseteq DOMAIN screen
  BY <1>1 DEF Held, Screen
<1>8. DOMAIN s = DOMAIN Screen /\ s.step = "pick" /\ s.max = screen.max /\ s.items = screen.items
  BY <1>7
<1>9. IsList(q.thread)
  BY <1>1 DEF Asked, IsList
<1> HIDE DEF a, s
<1>10. Succeeded(r) => Asked(a)
  BY <1>1, <1>4, <1>5, <1>6, <1>9, AskedAnew
<1>11. Held(a, s)
  BY <1>1, <1>3, <1>6, <1>8, PlanScreens
<1> QED
  BY <1>1, <1>2, <1>10, <1>11, PhoneCalls, FailShown

LEMMA StopsHeld ==
    ASSUME AssistIInv, PlanIInv', NEW r \in Requests, StopsArrive(r) PROVE AssistIInv'
<1> DEFINE q == work[r]
           screen == phone[r]
           a(stops) == [q EXCEPT !.op = "BuildRoute", !.ids = stops, !.optimize = FALSE]
           s(stops) == [screen EXCEPT !.step = "route", !.stops = stops]
<1>1. Asked(q) /\ Held(q, screen) /\ q.app = "plan"
  BY DEF AssistIInv, StopsArrive
<1>2. \E stops : CallServer(r, a(stops), s(stops))
  BY DEF StopsArrive
<1>3. ASSUME NEW stops, CallServer(r, a(stops), s(stops)) PROVE AssistIInv'
  <2> DEFINE b == a(stops)
             t == s(stops)
  <2>1. /\ DOMAIN b = DOMAIN q /\ b.op = "BuildRoute" /\ b.app = q.app /\ b.stops = q.stops
        /\ b.thread = q.thread /\ b.max = q.max /\ b.wish = q.wish /\ b.origin = q.origin /\ b.places = q.places
    BY <1>1 DEF Asked, AskedFields
  <2>2. DOMAIN screen = DOMAIN Screen /\ {"step", "stops"} \subseteq DOMAIN screen /\ screen.max \in Int
    BY <1>1 DEF Held, Screen
  <2>3. DOMAIN t = DOMAIN Screen /\ t.step = "route" /\ t.max = screen.max /\ t.items = screen.items
    BY <2>2
  <2>4. q.max \in Int /\ q.places \in Nat /\ IsList(q.thread)
    BY <1>1 DEF Asked, IsList
  <2>5. CallServer(r, b, t)
    BY <1>3
  <2> HIDE DEF a, s, b, t
  <2>6. Asked(b)
    BY <1>1, <2>1, <2>4, AskedAnew
  <2>7. Held(b, t)
    BY <1>1, <2>1, <2>2, <2>3, PlanScreens
  <2> QED
    BY <2>5, <2>6, <2>7, PhoneCalls
<1> HIDE DEF a, s
<1> QED
  BY <1>2, <1>3

LEMMA RouteHeld ==
    ASSUME AssistIInv, PlanIInv', NEW r \in Requests, RouteArrives(r) \/ RetryPlan(r) PROVE AssistIInv'
<1> DEFINE q == work[r]
           screen == phone[r]
           shown(route, stops) == [screen EXCEPT !.step = "shown", !.route = route, !.stops = stops]
           again(n) == [Screen EXCEPT !.step = "ready", !.retries = n]
<1>1. Held(q, screen) /\ q.app = "plan"
  BY DEF AssistIInv, RouteArrives, RetryPlan
<1>2. \/ Fail(r)
      \/ \E route, stops : Show(r, shown(route, stops))
      \/ \E n : Show(r, again(n))
  BY DEF RouteArrives, RetryPlan
<1>3. DOMAIN screen = DOMAIN Screen /\ {"step", "route", "stops"} \subseteq DOMAIN screen /\ screen.max \in Int
  BY <1>1 DEF Held, Screen
<1>4. ASSUME NEW route, NEW stops PROVE Held(q, shown(route, stops))
  <2> DEFINE s == shown(route, stops)
  <2>1. DOMAIN s = DOMAIN Screen /\ s.step = "shown" /\ s.max = screen.max /\ s.items = screen.items
    BY <1>3
  <2> HIDE DEF shown, s
  <2>2. Held(q, s)
    BY <1>1, <1>3, <2>1, PlanScreens
  <2> QED
    BY <2>2 DEF s
<1>5. ASSUME NEW n PROVE Held(q, again(n))
  <2> DEFINE s == again(n)
  <2>1. DOMAIN s = DOMAIN Screen /\ s.step = "ready" /\ s.max = 0 /\ s.items = <<>>
    BY DEF Screen
  <2> HIDE DEF again, s
  <2>2. IsList(<<>>) /\ Cards(<<>>) = {}
    BY EmptyList, EmptySeq DEF Cards
  <2>3. Held(q, s)
    BY <1>1, <2>1, <2>2 DEF Held, CardsInCity
  <2> QED
    BY <2>3 DEF s
<1> HIDE DEF shown, again
<1> QED
  BY <1>1, <1>2, <1>4, <1>5, PhoneShows, FailShown

\* A turn more leaves the cards that are there as they are.
LEMMA TurnAdded ==
    ASSUME NEW items, IsList(items), CardsInCity(items), NEW x,
           x.role = "assistant" =>
              /\ x.base \in {0} \cup DOMAIN items
              /\ InCity(x.area, x.text, IF x.base = 0 THEN <<>> ELSE <<items[x.base]>>)
    PROVE  /\ IsList(Append(items, x)) /\ CardsInCity(Append(items, x))
           /\ Cards(items) \subseteq Cards(Append(items, x))
<1> DEFINE n == Len(items)
           new == Append(items, x)
<1>1. n \in Nat /\ DOMAIN items = 1..n
  BY ListDomain
<1>2. IsList(new)
  BY AppendList
<1>3. /\ DOMAIN new = 1..(n + 1) /\ new[n + 1] = x /\ \A i \in 1..n : new[i] = items[i]
  <2>1. items \in Seq(Range(items) \cup {x})
    BY SeqMonotonic DEF IsList
  <2> QED
    BY <2>1, AppendProperties, LenProperties
<1> HIDE DEF n, new
<1>4. \A i \in 1..(n + 1) : i = n + 1 \/ i \in 1..n
  BY <1>1
<1>5. 1..n \subseteq 1..(n + 1) /\ n + 1 \in 1..(n + 1) /\ 0 \notin 1..n
  BY <1>1
<1>6. Cards(items) \subseteq Cards(new)
  BY <1>1, <1>3, <1>5 DEF Cards
<1>7. ASSUME NEW i \in Cards(new)
      PROVE  /\ new[i].base \in {0} \cup DOMAIN new
             /\ InCity(new[i].area, new[i].text,
                       IF new[i].base = 0 THEN <<>> ELSE <<new[new[i].base]>>)
  <2>1. i \in 1..(n + 1) /\ new[i].role = "assistant"
    BY <1>3 DEF Cards
  <2>2. /\ new[i].base \in {0} \cup DOMAIN items
        /\ InCity(new[i].area, new[i].text,
                  IF new[i].base = 0 THEN <<>> ELSE <<items[new[i].base]>>)
    <3>1. CASE i = n + 1
      BY <1>3, <2>1, <3>1
    <3>2. CASE i \in 1..n
      <4>1. new[i] = items[i] /\ i \in Cards(items)
        BY <1>1, <1>3, <2>1, <3>2 DEF Cards
      <4> QED
        BY <4>1 DEF CardsInCity
    <3> QED
      BY <1>4, <2>1, <3>1, <3>2
  <2>3. new[i].base # 0 => new[new[i].base] = items[new[i].base]
    BY <1>1, <1>3, <2>2
  <2>4. new[i].base \in {0} \cup DOMAIN new
    BY <1>1, <1>3, <1>5, <2>2
  <2>5. CASE new[i].base = 0
    BY <2>2, <2>4, <2>5
  <2>6. CASE new[i].base # 0
    BY <2>2, <2>3, <2>4, <2>6
  <2> QED
    BY <2>5, <2>6
<1>8. CardsInCity(new)
  BY <1>7 DEF CardsInCity
<1> QED
  BY <1>2, <1>6, <1>8 DEF new

LEMMA AskHeld ==
    ASSUME AssistIInv, PlanIInv', NEW r \in Requests, NEW prompt, NEW base, NEW items, NEW retries,
           Ask(r, prompt, base, items, retries), IsList(items), CardsInCity(items),
           base \in {0} \cup Cards(items)
    PROVE  AssistIInv'
<1> DEFINE q == work[r]
           screen == phone[r]
           previous == IF base = 0 THEN <<>> ELSE <<items[base]>>
           a == [q EXCEPT !.op = "SuggestRouteCard", !.prompt = prompt, !.base = base,
                          !.thread = items, !.previous = previous]
           s == [screen EXCEPT !.step = "sent", !.items = items, !.retries = retries]
<1>1. Asked(q) /\ Held(q, screen)
  BY DEF AssistIInv
<1>2. CallServer(r, a, s)
  BY DEF Ask
<1> HIDE DEF previous
<1>3. /\ DOMAIN a = DOMAIN q /\ a.op = "SuggestRouteCard" /\ a.stops = q.stops /\ a.thread = items
      /\ a.max = q.max /\ a.wish = q.wish /\ a.origin = q.origin /\ a.places = q.places
      /\ a.base = base /\ a.previous = previous
  BY <1>1 DEF Asked, AskedFields
<1>4. DOMAIN screen = DOMAIN Screen /\ {"step", "items", "retries"} \subseteq DOMAIN screen /\ screen.max \in Int
  BY <1>1 DEF Held, Screen
<1>5. DOMAIN s = DOMAIN Screen /\ s.step = "sent" /\ s.max = screen.max /\ s.items = items
  BY <1>4
<1>6. q.max \in Int /\ q.places \in Nat
  BY <1>1 DEF Asked
<1> HIDE DEF a, s
<1>7. Asked(a)
  BY <1>1, <1>3, <1>6, AskedAnew
<1>8. Based(a, items)
  BY <1>3 DEF Based, previous
<1>9. Held(a, s)
  BY <1>3, <1>4, <1>5, <1>8 DEF Held
<1> QED
  BY <1>2, <1>7, <1>9, PhoneCalls

LEMMA SendHeld ==
    ASSUME AssistIInv, PlanIInv', NEW r \in Requests, Send(r) PROVE AssistIInv'
<1> DEFINE items == phone[r].items
           turn(prompt) == UserTurn(prompt)
<1>1. IsList(items) /\ CardsInCity(items)
  BY DEF AssistIInv, Held
<1>2. \E prompt, base, retries : /\ base \in {0} \cup Cards(items)
                                 /\ Ask(r, prompt, base, Append(items, turn(prompt)), retries)
  BY Zenon DEF Send
<1>3. ASSUME NEW prompt
      PROVE  LET new == Append(items, turn(prompt))
             IN  IsList(new) /\ CardsInCity(new) /\ Cards(items) \subseteq Cards(new)
  <2>1. turn(prompt).role # "assistant"
    BY DEF UserTurn
  <2> HIDE DEF turn
  <2> QED
    BY <1>1, <2>1, TurnAdded
<1> HIDE DEF items, turn
<1>4. PICK prompt, base, retries : /\ base \in {0} \cup Cards(items)
                                   /\ Ask(r, prompt, base, Append(items, turn(prompt)), retries)
  BY <1>2
<1> DEFINE new == Append(items, turn(prompt))
<1>5. IsList(new) /\ CardsInCity(new) /\ base \in {0} \cup Cards(new)
  BY <1>3, <1>4
<1>6. Ask(r, prompt, base, new, retries)
  BY <1>4
<1> HIDE DEF new
<1> QED
  BY <1>5, <1>6, AskHeld

LEMMA CardHeld ==
    ASSUME AssistIInv, PlanIInv', NEW r \in Requests, CardArrives(r) PROVE AssistIInv'
<1> DEFINE q == work[r]
           screen == phone[r]
           rows == answer[r].rows
           turn == CardTurn(q.prompt, rows, q.base)
           new == Append(screen.items, turn)
           s == [screen EXCEPT !.step = "ready", !.items = new]
<1>1. Held(q, screen) /\ q.app = "chat" /\ screen.step = "sent"
  BY DEF AssistIInv, CardArrives, Returned
<1>2. (Succeeded(r) /\ Show(r, s)) \/ Fail(r)
  BY <1>1 DEF CardArrives, Held, Screen
<1>3. /\ IsList(screen.items) /\ CardsInCity(screen.items) /\ Based(q, screen.items)
      /\ q.op = "SuggestRouteCard" /\ screen.max \in Int
  BY <1>1 DEF Held
<1>4. ASSUME Succeeded(r) PROVE IsList(new) /\ CardsInCity(new)
  <2>1. InCity(rows.area, q.prompt, q.previous)
    BY <1>3, <1>4, SucceededFits DEF Fits
  <2>2. turn.area = rows.area /\ turn.text = q.prompt /\ turn.base = q.base
    BY DEF CardTurn
  <2>3. /\ q.base \in {0} \cup DOMAIN screen.items
        /\ q.previous = IF q.base = 0 THEN <<>> ELSE <<screen.items[q.base]>>
    BY <1>3 DEF Based, Cards
  <2> HIDE DEF q, screen, rows, turn
  <2> QED
    BY <1>3, <2>1, <2>2, <2>3, TurnAdded
<1>5. DOMAIN screen = DOMAIN Screen /\ {"step", "items"} \subseteq DOMAIN screen
  BY <1>1 DEF Held, Screen
<1> HIDE DEF new
<1>6. DOMAIN s = DOMAIN Screen /\ s.step = "ready" /\ s.max = screen.max /\ s.items = new
  BY <1>5
<1> HIDE DEF s
<1>7. Succeeded(r) => Held(q, s)
  BY <1>3, <1>4, <1>6 DEF Held
<1> QED
  BY <1>1, <1>2, <1>7, PhoneShows, FailShown

LEMMA RetryChatHeld ==
    ASSUME AssistIInv, PlanIInv', NEW r \in Requests, RetryChat(r) PROVE AssistIInv'
<1>1. Held(work[r], phone[r]) /\ work[r].app = "chat" /\ phone[r].step = "failed"
  BY DEF AssistIInv, RetryChat
<1>2. Ask(r, work[r].prompt, work[r].base, phone[r].items, phone[r].retries + 1)
  BY DEF RetryChat
<1>3. /\ IsList(phone[r].items) /\ CardsInCity(phone[r].items)
      /\ work[r].base \in {0} \cup Cards(phone[r].items)
  BY <1>1 DEF Held, Based
<1> QED
  BY <1>2, <1>3, AskHeld

-----------------------------------------------------------------------------
(* The theorem.                                                            *)

LEMMA AssistInitOK == PlanningInit => AssistIInv
<1> SUFFICES ASSUME PlanningInit PROVE AssistIInv
  OBVIOUS
<1>1. DOMAIN phone = Requests
  BY DEF PlanningInit
<1>2. ASSUME NEW r \in Requests PROVE Asked(work[r])
  BY AskedAssumption DEF PlanningInit
<1>3. ASSUME NEW r \in Requests PROVE Replied(r)
  <2>1. at[r] \in {"arrived", "idle"}
    BY DEF PlanningInit
  <2> QED
    BY <2>1 DEF Replied, Storing, Resolving
<1>4. ASSUME NEW r \in Requests PROVE Held(work[r], phone[r])
  <2>1. PICK step \in {"none", "ready"} : phone[r] = [Screen EXCEPT !.step = step]
    BY DEF PlanningInit
  <2>2. /\ DOMAIN phone[r] = DOMAIN Screen /\ phone[r].step = step
        /\ phone[r].max = 0 /\ phone[r].items = <<>>
    BY <2>1 DEF Screen
  <2>3. IsList(<<>>) /\ Cards(<<>>) = {}
    BY EmptyList, EmptySeq DEF Cards
  <2> QED
    BY <2>2, <2>3 DEF Held, CardsInCity
<1> QED
  BY <1>1, <1>2, <1>3, <1>4, PlanInitOK DEF AssistIInv

\* Nothing is asked and no phone moves.
LEMMA PhonesStand ==
    ASSUME AssistIInv, PlanIInv', UNCHANGED <<work, local, answer, phone>>,
           \A r \in Requests : at'[r] = at[r] \/ (at'[r] = "lost" /\ at[r] # "done")
    PROVE  AssistIInv'
<1>1. ASSUME NEW r \in Requests PROVE Replied(r)'
  <2>1. Replied(r)
    BY DEF AssistIInv
  <2>2. CASE at'[r] = at[r]
    BY <2>1, <2>2, ReplyStands
  <2>3. CASE at'[r] = "lost"
    <3>1. ~Storing(at[r], local[r])'
      BY <2>3, NotStoring DEF Storing, Resolving
    <3> QED
      BY <2>3, <3>1 DEF Replied
  <2> QED
    BY <2>2, <2>3
<1>2. ASSUME NEW r \in Requests PROVE Asked(work[r])' /\ Held(work[r], phone[r])'
  <2>1. Asked(work'[r]) /\ Held(work'[r], phone'[r])
    BY DEF AssistIInv
  <2> QED
    BY <2>1 DEF Asked, Held
<1>3. (DOMAIN phone = Requests)'
  BY DEF AssistIInv
<1> QED
  BY <1>1, <1>2, <1>3 DEF AssistIInv

LEMMA AssistStep == AssistIInv /\ [PlanningNext]_vars => AssistIInv'
<1> SUFFICES ASSUME AssistIInv, [PlanningNext]_vars PROVE AssistIInv'
  OBVIOUS
<1>1. PlanIInv /\ PlanIInv' /\ \A r \in Requests : Asked(work[r]) /\ Replied(r)
  BY PlanStep DEF AssistIInv
<1>2. ASSUME NEW r \in Requests, TripStep(r), UNCHANGED phone PROVE AssistIInv'
  BY <1>1, <1>2, TripsMove, TripReplied, ServerServes
<1>3. ASSUME NEW r \in Requests, AssistantStep(r) \/ RefuseInput(r), UNCHANGED phone PROVE AssistIInv'
  BY <1>1, <1>3, AssistantReplied, ServerServes
<1>4. ASSUME NEW r \in Requests, PhoneStep(r) PROVE AssistIInv'
  BY <1>1, <1>4, StartPlanHeld, IntentHeld, PlacesHeld, StopsHeld, RouteHeld, SendHeld, CardHeld,
     RetryChatHeld DEF PhoneStep
<1>5. ASSUME NEW r \in Requests, Serve(r) PROVE AssistIInv'
  BY <1>2, <1>3, <1>4, <1>5 DEF Serve
<1>6. CASE Expire \/ UNCHANGED vars
  <2>1. UNCHANGED <<work, at, local, answer, phone>>
    BY <1>6 DEF Expire, ExpirePlace, ExpireSearch, requestVars, vars
  <2> QED
    BY <1>1, <2>1, PhonesStand
<1>7. CASE Restart
  <2>1. /\ UNCHANGED <<work, local, answer, phone>>
        /\ \A r \in Requests : at'[r] = at[r] \/ (at'[r] = "lost" /\ at[r] # "done")
    BY <1>7 DEF Restart, RestartWithKey
  <2> QED
    BY <1>1, <2>1, PhonesStand
<1> QED
  BY <1>5, <1>6, <1>7 DEF PlanningNext

\* The invariant the next theorem follows from: what was answered fits what was
\* asked, and what a phone shows fits what it asked, through every retry.
THEOREM AssistantIsInductive == PlanningSpec => []AssistIInv
BY AssistInitOK, AssistStep, PTL DEF PlanningSpec

\* Whatever the model answers, an intent has an area and 3 to 6 stops, picked
\* stops are different places of the list, cards of a day differ in intent and
\* name no other city, a revised card stays in the city of the card it revises
\* unless the user names a place, and the model sees a bounded thread with the
\* first words of the user and the last card, unless many turns have followed
\* it (service.go:125, :903, :519, :687).
THEOREM AssistantStaysBounded == PlanningSpec => []AssistantIsBounded
BY AssistantIsInductive, AssistBounded, PTL

-----------------------------------------------------------------------------
(* Lists of different places: walks, selections and reorderings.           *)

\* A list of different places that somebody knows.
Different(ids) == IsList(ids) /\ IsInjective(ids) /\ Range(ids) \subseteq Places0

Permutation(order, n) == order \in Seq(1..n) /\ Len(order) = n /\ IsInjective(order)

LEMMA LeastOf ==
    ASSUME NEW s \in SUBSET Nat, s # {}
    PROVE  \E x \in s : \A y \in s : x <= y
<1>1. \E x \in s : \A y \in s : <<y, x>> \notin OpToRel(<, Nat)
  BY WFMin, NatLessThanWellFounded, Zenon
<1>2. \E x \in s : \A y \in s : ~(y < x)
  BY <1>1 DEF OpToRel
<1> QED
  BY <1>2

LEMMA IdentityPermutes ==
    ASSUME NEW n \in Nat PROVE Permutation(Identity(n), n)
<1>1. Identity(n) \in Seq(1..n) /\ Identity(n) = [i \in 1..n |-> i]
  BY DEF Identity
<1>2. Len(Identity(n)) = n
  <2> DEFINE k == Len(Identity(n))
  <2>1. 1..k = 1..n /\ k \in Nat
    BY <1>1, LenProperties
  <2> HIDE DEF k
  <2>2. k = n
    BY <2>1
  <2> QED
    BY <2>2 DEF k
<1> QED
  BY <1>1, <1>2 DEF Permutation, IsInjective

\* A list of distinct positions that is too short leaves one out.
LEMMA SomeLeft ==
    ASSUME NEW n \in Nat, NEW w \in Seq(1..n), Len(w) < n
    PROVE  (1..n) \ Range(w) # {}
<1>1. Len(w) \in Nat /\ w \in Surjection(1..Len(w), Range(w)) /\ Range(w) \subseteq 1..n
  <2>1. Len(w) \in Nat /\ DOMAIN w = 1..Len(w) /\ w \in [1..Len(w) -> 1..n]
    BY LenProperties
  <2> QED
    BY <2>1 DEF Surjection, Range
<1>2. IsFiniteSet(1..Len(w)) /\ Cardinality(1..Len(w)) = Len(w) /\ Cardinality(1..n) = n
  <2>1. IsFiniteSet(1..Len(w)) /\ Cardinality(1..Len(w)) = IF 1 > Len(w) THEN 0 ELSE Len(w) - 1 + 1
    <3>1. Len(w) \in Int /\ 1 \in Int
      BY LenProperties
    <3> QED
      BY <3>1, FS_Interval, Zenon
  <2>2. Cardinality(1..n) = IF 1 > n THEN 0 ELSE n - 1 + 1
    BY FS_Interval
  <2> QED
    BY <1>1, <2>1, <2>2
<1>3. Cardinality(Range(w)) <= Len(w)
  BY <1>1, <1>2, FS_Surjection
<1>4. CASE Range(w) = 1..n
  BY <1>1, <1>2, <1>3, <1>4
<1> QED
  BY <1>1, <1>4

\* Of the places left there is a nearest one that is the first such.
LEMMA NearestThere ==
    ASSUME NEW from \in DOMAIN Where, NEW ids, NEW n \in Nat, DOMAIN ids = 1..n, Range(ids) \subseteq DOMAIN Where,
           NEW left \in SUBSET (1..n), left # {}
    PROVE  \E i \in left : \A j \in left :
              \/ Distance(from, ids[i]) < Distance(from, ids[j])
              \/ Distance(from, ids[i]) = Distance(from, ids[j]) /\ i <= j
<1> DEFINE D(i) == Distance(from, ids[i])
           far == {D(i) : i \in left}
<1>1. \A i \in left : D(i) \in Nat
  <2>1. \A i \in left : Where[ids[i]] \in Nat /\ Where[from] \in Nat
    BY WhereAssumption DEF Range
  <2> QED
    BY <2>1 DEF Distance
<1> HIDE DEF D
<1>2. PICK d \in far : \A e \in far : d <= e
  <2>1. far \in SUBSET Nat /\ far # {}
    BY <1>1
  <2> HIDE DEF far
  <2> QED
    BY <2>1, LeastOf
<1>3. PICK i \in {i \in left : D(i) = d} : \A j \in {j \in left : D(j) = d} : i <= j
  <2> DEFINE near == {j \in left : D(j) = d}
  <2>1. near \in SUBSET Nat /\ near # {}
    BY <1>2
  <2> HIDE DEF near
  <2>2. \E j \in near : \A k \in near : j <= k
    BY <2>1, LeastOf
  <2> QED
    BY <2>2 DEF near
<1>4. \A j \in left : D(i) < D(j) \/ (D(i) = D(j) /\ i <= j)
  <2>1. ASSUME NEW j \in left PROVE D(i) < D(j) \/ (D(i) = D(j) /\ i <= j)
    <3>1. d <= D(j) /\ d \in Nat /\ D(j) \in Nat /\ D(i) = d
      BY <1>1, <1>2, <1>3
    <3> QED
      BY <1>3, <3>1
  <2> QED
    BY <2>1
<1> QED
  BY <1>3, <1>4 DEF D

\* A walk goes to different places, one for each step.
LEMMA WalkGoesOn ==
    ASSUME NEW start \in DOMAIN Where, NEW ids, IsList(ids), Range(ids) \subseteq DOMAIN Where,
           NEW n \in Nat, n <= Len(ids)
    PROVE  /\ Walk(start, ids, n) \in Seq(1..Len(ids)) /\ IsInjective(Walk(start, ids, n))
           /\ Len(Walk(start, ids, n)) = n
<1> DEFINE top == Len(ids)
           steps == [k \in 1..n |-> k]
           Next(w) ==
               LET from == IF w = <<>> THEN start ELSE ids[Last(w)]
                   left == DOMAIN ids \ Range(w)
               IN  CHOOSE i \in left : \A j \in left :
                       \/ Distance(from, ids[i]) < Distance(from, ids[j])
                       \/ Distance(from, ids[i]) = Distance(from, ids[j]) /\ i <= j
           All == {w \in Seq(1..top) : IsInjective(w)}
           Taken(w) == IF Len(w) < top THEN Append(w, Next(w)) ELSE w
           step == [p \in (1..n) \X All |-> Taken(p[2])]
           F(h) == [s \in SUBSET DOMAIN steps |->
                      IF s = {} THEN <<>> ELSE Append(h[s \ {Max(s)}], Next(h[s \ {Max(s)}]))]
<1>1. top \in Nat /\ DOMAIN ids = 1..top /\ \A i \in 1..top : ids[i] \in DOMAIN Where
  BY ListDomain
<1>2. ASSUME NEW w \in All, Len(w) < top
      PROVE  Append(w, Next(w)) \in All /\ Len(Append(w, Next(w))) = Len(w) + 1
  <2> DEFINE from == IF w = <<>> THEN start ELSE ids[Last(w)]
             left == DOMAIN ids \ Range(w)
  <2>1. w \in Seq(1..top) /\ IsInjective(w) /\ Len(w) < top
    BY <1>2
  <2>2. left # {} /\ left \in SUBSET (1..top)
    BY <1>1, <2>1, SomeLeft
  <2>3. from \in DOMAIN Where
    <3>1. CASE w = <<>>
      BY <3>1
    <3>2. CASE w # <<>>
      <4>1. Last(w) \in 1..top
        <5>1. Len(w) \in DOMAIN w
          BY <2>1, <3>2, LenProperties, EmptySeq
        <5> QED
          BY <2>1, <5>1, ElementOfSeq, LenProperties DEF Last
      <4> QED
        BY <1>1, <3>2, <4>1
    <3> QED
      BY <3>1, <3>2
  <2> HIDE DEF from, left, top
  <2>4. \E i \in left : \A j \in left :
              \/ Distance(from, ids[i]) < Distance(from, ids[j])
              \/ Distance(from, ids[i]) = Distance(from, ids[j]) /\ i <= j
    BY <1>1, <2>2, <2>3, NearestThere
  <2>5. Next(w) \in left
    BY <2>4 DEF from, left
  <2> HIDE DEF Next
  <2>6. Next(w) \in 1..top /\ Next(w) \notin Range(w)
    BY <2>2, <2>5 DEF left
  <2>7. Append(w, Next(w)) \in Seq(1..top) /\ IsInjective(Append(w, Next(w)))
        /\ Len(Append(w, Next(w))) = Len(w) + 1
    BY <2>1, <2>6, InjectiveAppend
  <2> QED
    BY <2>7 DEF top
<1> HIDE DEF Next
<1>3. <<>> \in All /\ Len(<<>>) = 0
  <2>1. <<>> \in Seq(1..top) /\ Len(<<>>) = 0 /\ DOMAIN <<>> = {}
    BY EmptySeq
  <2> QED
    BY <2>1 DEF IsInjective
<1>4. \A w \in All : Taken(w) \in All /\ Len(w) \in Nat
  BY <1>2, LenProperties
<1>5. \A w \in All : Len(w) < top => Taken(w) = Append(w, Next(w)) /\ Len(Taken(w)) = Len(w) + 1
  BY <1>2
<1> HIDE DEF All, Taken, top
<1>6. step \in [(1..n) \X All -> All]
  BY <1>4
<1>7. \A i \in 1..n, w \in All : step[<<i, w>>] = Taken(w)
  OBVIOUS
<1> HIDE DEF step
<1>8. DOMAIN steps = 1..n
  OBVIOUS
<1>9. \E h : h = F(h)
  <2>1. PICK h : Folds(All, <<>>, n, step, h)
    BY <1>3, <1>6, FoldExists
  <2>2. \A s \in SUBSET (1..n) : h[s] \in All
    BY <2>1 DEF Folds
  <2>3. ASSUME NEW s \in SUBSET (1..n), s # {}
        PROVE  Max(s) \in s /\ (\A i \in s : i <= Max(s)) /\ s \ {Max(s)} \in SUBSET (1..n)
               /\ h[s] = Taken(h[s \ {Max(s)}])
    <3>1. Max(s) \in s /\ \A i \in s : i <= Max(s)
      BY <2>3, MaxOfSome
    <3> QED
      BY <2>1, <2>2, <2>3, <3>1, <1>7 DEF Folds
  <2>4. h[{}] = <<>>
    BY <2>1 DEF Folds
  <2> DEFINE P == {k \in 0..n : \A s \in SUBSET (1..k) : Len(h[s]) <= k}
  <2>5. 0 \in P
    <3>1. \A s \in SUBSET (1..0) : s = {}
      OBVIOUS
    <3>2. 0 \in 0..n /\ 0 <= 0
      OBVIOUS
    <3>3. Len(h[{}]) = 0
      BY <2>4, <1>3
    <3>4. ASSUME NEW s \in SUBSET (1..0) PROVE Len(h[s]) <= 0
      <4>1. s = {}
        BY <3>1
      <4> QED
        BY <3>2, <3>3, <4>1
    <3> QED
      BY <3>2, <3>4
  <2>6. ASSUME NEW k \in 0..(n - 1), k \in P PROVE k + 1 \in P
    <3>1. ASSUME NEW s \in SUBSET (1..(k + 1)) PROVE Len(h[s]) <= k + 1
      <4>1. CASE s = {}
        BY <2>4, <1>3, <4>1
      <4>2. CASE s # {}
        <5>1. s \in SUBSET (1..n)
          OBVIOUS
        <5>2. Max(s) \in s /\ (\A i \in s : i <= Max(s)) /\ h[s] = Taken(h[s \ {Max(s)}])
          BY <2>3, <4>2, <5>1
        <5>3. s \ {Max(s)} \in SUBSET (1..k)
          <6>1. \A i \in s \ {Max(s)} : i \in 1..k
            <7>1. Max(s) \in 1..(k + 1)
              BY <5>2
            <7>2. \A i \in s : i \in 1..(k + 1) /\ i <= Max(s)
              BY <5>2
            <7> QED
              BY <7>1, <7>2
          <6> QED
            BY <6>1
        <5>4. Len(h[s \ {Max(s)}]) <= k /\ h[s \ {Max(s)}] \in All /\ k < n
          <6>1. \A t \in SUBSET (1..k) : Len(h[t]) <= k
            BY <2>6
          <6>2. s \ {Max(s)} \in SUBSET (1..n)
            BY <5>1
          <6> QED
            BY <2>2, <5>3, <6>1, <6>2
        <5> QED
          BY <1>1, <1>4, <1>5, <5>2, <5>4 DEF top
      <4> QED
        BY <4>1, <4>2
    <3> QED
      BY <3>1
  <2> HIDE DEF P
  <2>7. \A k \in 0..n : k \in P
    BY <2>5, <2>6, InductionUpTo
  <2>8. ASSUME NEW s \in SUBSET (1..n), s # {}
        PROVE  h[s] = Append(h[s \ {Max(s)}], Next(h[s \ {Max(s)}]))
    <3>1. Max(s) \in 1..n /\ (\A i \in s : i <= Max(s)) /\ h[s] = Taken(h[s \ {Max(s)}])
          /\ s \ {Max(s)} \in SUBSET (1..n)
      BY <2>3, <2>8
    <3>2. PICK k \in 0..n : k = Max(s) - 1
      BY <3>1
    <3>3. s \ {Max(s)} \in SUBSET (1..k)
      <4>1. \A i \in s \ {Max(s)} : i \in 1..k
        <5>1. \A i \in s : i \in 1..n /\ i <= Max(s)
          BY <3>1
        <5> QED
          BY <3>1, <3>2, <5>1
      <4> QED
        BY <4>1
    <3>4. Len(h[s \ {Max(s)}]) <= k /\ k < n
      <4>1. \A t \in SUBSET (1..k) : Len(h[t]) <= k
        BY <2>7, <3>2 DEF P
      <4> QED
        BY <3>1, <3>2, <3>3, <4>1
    <3>5. h[s \ {Max(s)}] \in All
      BY <2>2, <3>1
    <3>6. Len(h[s \ {Max(s)}]) \in Nat
      BY <1>4, <3>5
    <3>7. Len(h[s \ {Max(s)}]) < top
      BY <1>1, <3>2, <3>4, <3>6 DEF top
    <3> QED
      BY <1>5, <3>1, <3>5, <3>7
  <2>9. h = F(h)
    <3>1. h = [s \in SUBSET (1..n) |-> h[s]]
      BY <2>1 DEF Folds
    <3> QED
      BY <1>8, <2>4, <2>8, <3>1
  <2> QED
    BY <2>9
<1>10. PICK h : h = F(h) /\ Walk(start, ids, n) = h[DOMAIN steps]
  <2>1. Walk(start, ids, n) = (CHOOSE h : h = F(h))[DOMAIN steps]
    BY DEF Walk, FoldLeft, MapThenFoldSet, Next
  <2> QED
    BY <1>9, <2>1
<1>11. h[1..0] = <<>>
  <2>1. 1..0 = {} /\ {} \in SUBSET DOMAIN steps
    OBVIOUS
  <2> QED
    BY <1>10, <2>1
<1>12. ASSUME NEW k \in 1..n PROVE h[1..k] = Append(h[1..(k - 1)], Next(h[1..(k - 1)]))
  <2>1. 1..k # {} /\ Max(1..k) = k /\ (1..k) \ {Max(1..k)} = 1..(k - 1)
    BY PrefixBefore
  <2>2. 1..k \in SUBSET DOMAIN steps
    BY <1>8
  <2> QED
    BY <1>10, <2>1, <2>2
<1> DEFINE P == {k \in 0..n : h[1..k] \in All /\ Len(h[1..k]) = k}
<1>13. 0 \in P
  BY <1>3, <1>11
<1>14. ASSUME NEW k \in 0..(n - 1), k \in P PROVE k + 1 \in P
  <2>1. k + 1 \in 1..n /\ (k + 1) - 1 = k /\ k < top /\ k + 1 \in 0..n
    BY <1>1 DEF top
  <2>2. h[1..k] \in All /\ Len(h[1..k]) = k
    BY <1>14
  <2>3. h[1..(k + 1)] = Append(h[1..k], Next(h[1..k]))
    BY <1>12, <2>1
  <2> QED
    BY <1>2, <2>1, <2>2, <2>3
<1> HIDE DEF P
<1>15. \A k \in 0..n : k \in P
  BY <1>13, <1>14, InductionUpTo
<1>16. n \in 0..n
  OBVIOUS
<1>17. h[1..n] \in All /\ Len(h[1..n]) = n
  BY <1>15, <1>16 DEF P
<1> QED
  BY <1>8, <1>10, <1>17 DEF All, top

\* Some of a list, each once and in any order.
LEMMA Selecting ==
    ASSUME NEW ids, Different(ids), NEW order, order \in Seq(1..Len(ids)), IsInjective(order)
    PROVE  LET some == [i \in DOMAIN order |-> ids[order[i]]]
           IN  /\ Different(some) /\ Range(some) \subseteq Range(ids)
               /\ DOMAIN some = 1..Len(order) /\ Len(some) = Len(order)
<1> DEFINE some == [i \in DOMAIN order |-> ids[order[i]]]
           n == Len(order)
<1>1. n \in Nat /\ DOMAIN order = 1..n /\ \A i \in 1..n : order[i] \in 1..Len(ids)
  BY LenProperties, ElementOfSeq
<1>2. Len(ids) \in Nat /\ DOMAIN ids = 1..Len(ids) /\ \A i \in 1..Len(ids) : ids[i] \in Range(ids)
  BY ListDomain DEF Different
<1> HIDE DEF n
<1>3. some \in [1..n -> Range(ids)]
  BY <1>1, <1>2
<1>4. IsList(some) /\ some \in Seq(Range(ids))
  BY <1>1, <1>3, FunctionIsList
<1>5. Range(some) \subseteq Range(ids)
  BY <1>4, ListOf
<1>6. Len(some) = n /\ DOMAIN some = 1..n
  BY <1>1, <1>3, <1>4, LenProperties
<1>7. ASSUME NEW i \in DOMAIN some, NEW j \in DOMAIN some, some[i] = some[j] PROVE i = j
  <2>1. some[i] = ids[order[i]] /\ some[j] = ids[order[j]] /\ i \in DOMAIN order /\ j \in DOMAIN order
    OBVIOUS
  <2>2. order[i] \in DOMAIN ids /\ order[j] \in DOMAIN ids
    BY <1>1, <1>2, <2>1
  <2>3. order[i] = order[j]
    BY <1>7, <2>1, <2>2 DEF Different, IsInjective
  <2> QED
    BY <2>1, <2>3 DEF IsInjective
<1>8. IsInjective(some)
  BY <1>7 DEF IsInjective
<1>9. Different(some)
  BY <1>4, <1>5, <1>8 DEF Different
<1> HIDE DEF some
<1> QED
  BY <1>5, <1>6, <1>9 DEF some, n

LEMMA FirstOnes ==
    ASSUME NEW ids, Different(ids), NEW n \in Nat, n <= Len(ids)
    PROVE  /\ Different(SubSeq(ids, 1, n)) /\ Range(SubSeq(ids, 1, n)) \subseteq Range(ids)
           /\ Len(SubSeq(ids, 1, n)) = n
<1> DEFINE order == [i \in 1..n |-> i]
           some == [i \in DOMAIN order |-> ids[order[i]]]
<1>1. Len(ids) \in Nat
  BY ListDomain DEF Different
<1>2. order \in Seq(1..Len(ids)) /\ IsInjective(order)
  BY <1>1 DEF IsInjective
<1>3. SubSeq(ids, 1, n) = some
  <2>1. SubSeq(ids, 1, n) = [i \in 1..n |-> ids[i]]
    BY DEF SubSeq
  <2> QED
    BY <2>1
<1>4. Len(order) = n
  <2>1. order \in Seq(Nat) /\ DOMAIN order = 1..n
    OBVIOUS
  <2> DEFINE k == Len(order)
  <2>2. 1..k = 1..n /\ k \in Nat
    BY <2>1, LenProperties
  <2> HIDE DEF k
  <2>3. k = n
    BY <2>2
  <2> QED
    BY <2>3 DEF k
<1> HIDE DEF order
<1>5. Different(some) /\ Range(some) \subseteq Range(ids) /\ Len(some) = Len(order)
  BY <1>2, Selecting
<1> HIDE DEF some
<1> QED
  BY <1>3, <1>4, <1>5

\* What is kept of different places are different places.
LEMMA KeepsInjective ==
    ASSUME NEW T, NEW list \in Seq(T), NEW S
    PROVE  IsInjective(list) => IsInjective(Keep(list, S))
<1> DEFINE n == Len(list)
<1>1. PICK kept \in [0..n -> Seq(T)] :
              /\ kept[0] = <<>> /\ Keep(list, S) = kept[n]
              /\ \A k \in 1..n :
                    kept[k] = IF list[k] \in S THEN Append(kept[k - 1], list[k]) ELSE kept[k - 1]
  BY KeepSteps
<1>2. n \in Nat /\ DOMAIN list = 1..n /\ \A i \in 1..n : list[i] \in T
  BY LenProperties, ElementOfSeq
<1> HIDE DEF n
<1> HAVE IsInjective(list)
<1> DEFINE P == {k \in 0..n : IsInjective(kept[k]) /\ Range(kept[k]) \subseteq {list[i] : i \in 1..k}}
<1>3. 0 \in P
  <2>1. 0 \in 0..n /\ DOMAIN <<>> = {} /\ Range(<<>>) = {}
    BY <1>2 DEF Range
  <2>2. IsInjective(<<>>)
    BY <2>1 DEF IsInjective
  <2> QED
    BY <1>1, <2>1, <2>2
<1>4. ASSUME NEW k \in 0..(n - 1), k \in P PROVE k + 1 \in P
  <2>1. k + 1 \in 1..n /\ (k + 1) - 1 = k /\ k \in 0..n /\ k + 1 \in 0..n
    BY <1>2
  <2>2. kept[k + 1] = IF list[k + 1] \in S THEN Append(kept[k], list[k + 1]) ELSE kept[k]
    BY <1>1, <2>1
  <2>3. IsInjective(kept[k]) /\ Range(kept[k]) \subseteq {list[i] : i \in 1..k} /\ kept[k] \in Seq(T)
    BY <1>4, <2>1, <1>1
  <2>4. list[k + 1] \notin {list[i] : i \in 1..k}
    <3>1. \A i \in 1..k : i \in 1..n /\ i # k + 1
      BY <1>2, <2>1
    <3> QED
      BY <1>2, <2>1, <3>1 DEF IsInjective
  <2>5. {list[i] : i \in 1..k} \cup {list[k + 1]} \subseteq {list[i] : i \in 1..(k + 1)}
    <3>1. 1..k \subseteq 1..(k + 1) /\ k + 1 \in 1..(k + 1)
      BY <2>1
    <3> QED
      BY <3>1
  <2>6. Range(Append(kept[k], list[k + 1])) = Range(kept[k]) \cup {list[k + 1]}
    BY <2>3, AppendRange
  <2>7. IsInjective(Append(kept[k], list[k + 1]))
    BY <1>2, <2>1, <2>3, <2>4, InjectiveAppend
  <2>8. IsInjective(kept[k + 1]) /\ Range(kept[k + 1]) \subseteq {list[i] : i \in 1..(k + 1)}
    BY <2>2, <2>3, <2>5, <2>6, <2>7
  <2> QED
    BY <2>1, <2>8
<1> HIDE DEF P
<1>5. \A k \in 0..n : k \in P
  BY <1>2, <1>3, <1>4, InductionUpTo
<1> QED
  BY <1>2, <1>1, <1>5 DEF P

LEMMA KeepsDifferent ==
    ASSUME NEW ids, Different(ids), NEW S
    PROVE  Different(Keep(ids, S)) /\ Range(Keep(ids, S)) = Range(ids) \cap S
<1>1. ids \in Seq(Range(ids)) /\ IsInjective(ids) /\ Range(ids) \subseteq Places0
  BY DEF Different, IsList
<1>2. Keep(ids, S) \in Seq(Range(ids)) /\ Range(Keep(ids, S)) = Range(ids) \cap S
  BY <1>1, Keeps
<1>3. IsInjective(Keep(ids, S))
  BY <1>1, KeepsInjective
<1>4. IsList(Keep(ids, S))
  BY <1>2, ListOf
<1> QED
  BY <1>1, <1>2, <1>3, <1>4 DEF Different

\* A walk through different places.
LEMMA Walking ==
    ASSUME NEW start \in DOMAIN Where, NEW ids, Different(ids), NEW n \in Nat, n <= Len(ids)
    PROVE  LET walk == Walk(start, ids, n)
               visited == [i \in DOMAIN walk |-> ids[walk[i]]]
           IN  /\ Len(walk) = n /\ \A i \in 1..n : walk[i] \in 1..Len(ids)
               /\ Different(visited) /\ Range(visited) \subseteq Range(ids) /\ Len(visited) = n
<1>1. IsList(ids) /\ Range(ids) \subseteq DOMAIN Where
  BY WhereAssumption DEF Different, Places0
<1> DEFINE walk == Walk(start, ids, n)
<1>2. walk \in Seq(1..Len(ids)) /\ IsInjective(walk) /\ Len(walk) = n
  BY <1>1, WalkGoesOn
<1> HIDE DEF walk
<1>3. \A i \in 1..n : walk[i] \in 1..Len(ids)
  BY <1>2, ElementOfSeq
<1> DEFINE visited == [i \in DOMAIN walk |-> ids[walk[i]]]
<1>4. Different(visited) /\ Range(visited) \subseteq Range(ids) /\ Len(visited) = n
  BY <1>2, Selecting
<1> QED
  BY <1>2, <1>3, <1>4 DEF walk

LEMMA OrderedFromUser ==
    ASSUME NEW stops, Different(stops)
    PROVE  Different(OrderFromUser(stops)) /\ Range(OrderFromUser(stops)) \subseteq Range(stops)
<1> DEFINE walk == Walk(Here, stops, Len(stops))
           visited == [i \in DOMAIN walk |-> stops[walk[i]]]
<1>1. Here \in DOMAIN Where /\ Len(stops) \in Nat /\ DOMAIN stops = 1..Len(stops) /\ Len(stops) <= Len(stops)
  BY ListDomain, WhereAssumption DEF Different
<1>2. IsList(stops) /\ Range(stops) \subseteq DOMAIN Where
  BY WhereAssumption DEF Different, Places0
<1>3. walk \in Seq(1..Len(stops)) /\ Len(walk) = Len(stops)
  BY <1>1, <1>2, WalkGoesOn
<1>4. Different(visited) /\ Range(visited) \subseteq Range(stops)
  BY <1>1, Walking
<1>5. DOMAIN walk = DOMAIN stops
  BY <1>1, <1>3, LenProperties
<1>6. OrderFromUser(stops) = visited
  BY <1>5 DEF OrderFromUser
<1> QED
  BY <1>4, <1>6

LEMMA ClusterIsDifferent ==
    ASSUME NEW places, Different(places), Len(places) >= 1, NEW max \in Int
    PROVE  /\ Different(ClusterNearUser(places, max))
           /\ Range(ClusterNearUser(places, max)) \subseteq Range(places)
<1> DEFINE cap == Clamp(max, 1, Len(places))
           seed == places[Walk(Here, places, 1)[1]]
           around == Keep(places, {p \in Range(places) : Distance(seed, p) <= Radius})
           size == IF cap < Len(around) THEN cap ELSE Len(around)
           cluster == Walk(seed, around, size)
           near == [i \in DOMAIN cluster |-> around[cluster[i]]]
           some == IF Len(cluster) < 2 THEN SubSeq(places, 1, cap) ELSE near
<1>1. Len(places) \in Nat /\ DOMAIN places = 1..Len(places) /\ \A i \in DOMAIN places : places[i] \in Range(places)
  BY ListDomain DEF Different
<1>2. cap \in Nat /\ cap <= Len(places)
  BY <1>1 DEF Clamp
<1>3. seed \in DOMAIN Where
  <2>1. Here \in DOMAIN Where /\ 1 \in Nat /\ 1 \in 1..1
    BY WhereAssumption
  <2>2. Walk(Here, places, 1)[1] \in 1..Len(places)
    BY <2>1, Walking
  <2> QED
    BY <1>1, <2>2, WhereAssumption DEF Different, Places0
<1>4. Different(around) /\ Range(around) \subseteq Range(places)
  BY KeepsDifferent
<1> HIDE DEF cap, seed, around
<1>5. Len(around) \in Nat
  BY <1>4, ListDomain DEF Different
<1>6. size \in Nat /\ size <= Len(around)
  BY <1>2, <1>5
<1> HIDE DEF size
<1>7. Different(near) /\ Range(near) \subseteq Range(around)
  BY <1>3, <1>4, <1>6, Walking
<1>8. Different(SubSeq(places, 1, cap)) /\ Range(SubSeq(places, 1, cap)) \subseteq Range(places)
  BY <1>2, FirstOnes
<1> HIDE DEF near, cluster
<1>9. Different(some) /\ Range(some) \subseteq Range(places)
  BY <1>4, <1>7, <1>8
<1>10. ClusterNearUser(places, max) = OrderFromUser(some)
  BY DEF ClusterNearUser, some, near, cluster, size, around, seed, cap
<1> HIDE DEF some
<1> QED
  BY <1>9, <1>10, OrderedFromUser

-----------------------------------------------------------------------------
(* A plan follows its route: what each step must know of the request, of   *)
(* what was resolved so far, of the legs and of the order.                 *)

\* A route that is answered to a phone or stored: by which ids.
Planned(q) == q.op = "PlanDay" \/ (q.op = "BuildRoute" /\ q.app = "plan")
Way(q, m) == IF q.op = "PlanDay" THEN Ids(m.list) ELSE q.ids

\* todo is what is left of the list once got is resolved.
Advance(got, todo, list) ==
    /\ IsList(got) /\ IsList(todo) /\ Len(got) + Len(todo) = Len(list)
    /\ \A i \in DOMAIN got : got[i].id = list[i]
    /\ \A i \in DOMAIN todo : todo[i] = list[Len(got) + i]

PointsFrom(q, ids) == (IF q.origin THEN <<Here>> ELSE <<>>) \o ids

\* Legs along the first of the points, forwards, with the addresses of theirs.
Runs(legs, points, k, somewhere) ==
    /\ IsList(legs)
    /\ \E f \in [DOMAIN legs -> 1..k] :
          /\ \A i, j \in DOMAIN legs : i < j => f[i] < f[j]
          /\ \A i \in DOMAIN legs :
                /\ legs[i].from = points[f[i]] /\ legs[i].to = points[f[i] + 1]
                /\ ~somewhere => legs[i].start = legs[i].from /\ legs[i].end = legs[i].to

Follows(route, ids, origin) ==
    /\ Permutation(route.order, Len(ids))
    /\ Along(route.legs, [i \in DOMAIN ids |-> ids[route.order[i]]], origin /\ route.provider = "google")

Numbered(m) ==
    /\ IsList(m.stops) /\ Range(Ids(m.stops)) \subseteq Places0
    /\ \A i \in DOMAIN m.stops : m.stops[i].order = i
    /\ Along(m.route.legs, Ids(m.stops), FALSE)

Calls == {"call route", "call again", "call leg"}

\* No leg has been asked for.
Early(p, m) ==
    \/ p \in {"arrived", "handler", "search", "call search", "store search", "found", "route", "call route",
              "call again"}
    \/ Resolving(p) /\ m.purpose = "route"

\* What was asked for: no phone asks for a whole plan.
Begun(q, p) ==
    /\ q.op = "PlanDay" => ~q.origin
    /\ (q.op = "PlanDay" /\ q.app \in {"plan", "chat"}) => p = "idle"
    /\ (Planned(q) /\ q.op = "BuildRoute" /\ p # "idle") => Different(q.ids)

\* What the goroutine of such a request has in its hand at its point.
Traced(q, p, m) ==
    /\ Begun(q, p)
    /\ Early(p, m) => m.leg = 0
    /\ p \in {"store search", "found"} => Different(Ids(m.list))
    /\ (q.op = "PlanDay" /\ (Routing(p, m) \/ p = "routed")) => Different(Ids(m.list))
    /\ (Planned(q) /\ Resolving(p) /\ m.purpose = "route") => Advance(m.got, m.todo, Way(q, m))
    /\ (Planned(q) /\ Asking(p)) => Ids(m.got) = Way(q, m)
    /\ (Planned(q) /\ p = "call again") =>
          \E rides \in BOOLEAN : m.legs = <<ApiRoute(PointsFrom(q, Way(q, m)), <<>>, rides)>>
    /\ (Planned(q) /\ p = "call leg") =>
          /\ m.leg \in Nat /\ m.leg + 1 < Len(PointsFrom(q, Way(q, m)))
          /\ Runs(m.legs, PointsFrom(q, Way(q, m)), m.leg, q.origin)
    /\ (Planned(q) /\ p = "routed") => Follows(m.route, Way(q, m), q.origin)
    /\ (q.op = "PlanDay" /\ Storing(p, m)) => Numbered(m)
    /\ (q.op = "PlanDay" /\ Resolving(p) /\ m.purpose = "details") =>
          Advance(m.got, m.todo, Ids(m.stops))

\* What a client is told, and what of it is stored.
Told(r) ==
    (at[r] = "done" /\ answer[r].status = 200) =>
        /\ work[r].op = "SearchPlaces" => Different(answer[r].rows.places)
        /\ (work[r].op = "BuildRoute" /\ work[r].app = "plan") =>
              Follows(answer[r].rows, work[r].ids, work[r].origin)

Stored(it) ==
    work[it.id].op = "PlanDay" =>
        /\ at[it.id] = "done" /\ answer[it.id].rows = local[it.id].route
        /\ \A i \in DOMAIN it.stops : it.stops[i].order = i
        /\ Along(local[it.id].route.legs, Ids(it.stops), FALSE)

Shown(q, screen) ==
    /\ screen.step = "pick" =>
          /\ q.op = "PickStops" /\ Different(screen.places)
          /\ q.places = Len(screen.places) /\ q.places >= 2
    /\ screen.step = "route" =>
          /\ q.op = "BuildRoute" /\ q.app = "plan" /\ q.ids = screen.stops
          /\ Different(screen.stops) /\ Range(screen.stops) \subseteq Range(screen.places)
    /\ screen.step = "shown" =>
          /\ Range(screen.stops) \subseteq Range(screen.places) /\ IsInjective(screen.stops)
          /\ Along(screen.route.legs, screen.stops, q.origin /\ screen.route.provider = "google")

FollowIInv ==
    /\ AssistIInv
    /\ \A key \in DOMAIN searchRows : IsInjective(searchRows[key].ids)
    /\ \A it \in itineraries : Stored(it)
    /\ \A r \in Requests :
          /\ at[r] \in Calls => provider = "google"
          /\ Traced(work[r], at[r], local[r]) /\ Told(r) /\ Shown(work[r], phone[r])

LEMMA BegunStays ==
    ASSUME NEW q, NEW p \in ServerPoints, Begun(q, p), NEW p2 \in ServerPoints \cup {"done", "lost"}
    PROVE  Begun(q, p2)
<1>1. p # "idle" /\ p2 # "idle"
  BY Zenon DEF ServerPoints
<1> QED
  BY <1>1, Zenon DEF Begun

LEMMA TracedOver ==
    ASSUME NEW q, NEW p \in {"done", "lost", "idle"}, NEW m, Begun(q, p) PROVE Traced(q, p, m)
BY Zenon DEF Traced, Early, Resolving, Routing, Asking, Storing

LEMMA TracedFirst ==
    ASSUME NEW q, NEW p \in {"arrived", "handler", "search", "call search"}, NEW m, Begun(q, p), m.leg = 0
    PROVE  Traced(q, p, m)
BY Zenon DEF Traced, Early, Resolving, Routing, Asking, Storing

LEMMA TracedFound ==
    ASSUME NEW q, NEW p \in {"store search", "found"}, NEW m, Begun(q, p), m.leg = 0,
           Different(Ids(m.list))
    PROVE  Traced(q, p, m)
BY Zenon DEF Traced, Early, Resolving, Routing, Asking, Storing

LEMMA TracedResolving ==
    ASSUME NEW q, NEW p, Resolving(p), NEW m, m.purpose = "route", Begun(q, p), m.leg = 0,
           q.op = "PlanDay" => Different(Ids(m.list)),
           Planned(q) => Advance(m.got, m.todo, Way(q, m))
    PROVE  Traced(q, p, m)
BY Zenon DEF Traced, Early, Resolving, Routing, Asking, Storing

LEMMA TracedStoring ==
    ASSUME NEW q, NEW p, NEW m, Storing(p, m), Begun(q, p),
           q.op = "PlanDay" => Numbered(m),
           (q.op = "PlanDay" /\ m.purpose = "details" /\ Resolving(p)) =>
               Advance(m.got, m.todo, Ids(m.stops))
    PROVE  Traced(q, p, m)
BY Zenon DEF Traced, Early, Resolving, Routing, Asking, Storing

LEMMA TracedAsking ==
    ASSUME NEW q, NEW p \in {"route", "call route"}, NEW m, Begun(q, p), m.leg = 0,
           q.op = "PlanDay" => Different(Ids(m.list)), Planned(q) => Ids(m.got) = Way(q, m)
    PROVE  Traced(q, p, m)
BY Zenon DEF Traced, Early, Resolving, Routing, Asking, Storing

LEMMA TracedAgain ==
    ASSUME NEW q, NEW m, Begun(q, "call again"), m.leg = 0,
           q.op = "PlanDay" => Different(Ids(m.list)), Planned(q) => Ids(m.got) = Way(q, m),
           Planned(q) => \E rides \in BOOLEAN : m.legs = <<ApiRoute(PointsFrom(q, Way(q, m)), <<>>, rides)>>
    PROVE  Traced(q, "call again", m)
BY Zenon DEF Traced, Early, Resolving, Routing, Asking, Storing

LEMMA TracedLeg ==
    ASSUME NEW q, NEW m, Begun(q, "call leg"),
           q.op = "PlanDay" => Different(Ids(m.list)), Planned(q) => Ids(m.got) = Way(q, m),
           Planned(q) => /\ m.leg \in Nat /\ m.leg + 1 < Len(PointsFrom(q, Way(q, m)))
                         /\ Runs(m.legs, PointsFrom(q, Way(q, m)), m.leg, q.origin)
    PROVE  Traced(q, "call leg", m)
BY Zenon DEF Traced, Early, Resolving, Routing, Asking, Storing

LEMMA TracedRouted ==
    ASSUME NEW q, NEW m, Begun(q, "routed"),
           q.op = "PlanDay" => Different(Ids(m.list)),
           Planned(q) => Follows(m.route, Way(q, m), q.origin)
    PROVE  Traced(q, "routed", m)
BY Zenon DEF Traced, Early, Resolving, Routing, Asking, Storing

\* A request whose goroutine does not move.
LEMMA Standing ==
    ASSUME FollowIInv, NEW q \in Requests, work'[q] = work[q], at'[q] = at[q], local'[q] = local[q],
           answer'[q] = answer[q], phone'[q] = phone[q]
    PROVE  /\ Traced(work'[q], at'[q], local'[q]) /\ Told(q)' /\ Shown(work'[q], phone'[q])
           /\ \A it : (it.id = q /\ Stored(it)) => Stored(it)'
<1>1. Traced(work[q], at[q], local[q]) /\ Told(q) /\ Shown(work[q], phone[q])
  BY DEF FollowIInv
<1>2. Traced(work'[q], at'[q], local'[q]) /\ Shown(work'[q], phone'[q])
  BY <1>1
<1>3. Told(q)'
  BY <1>1 DEF Told
<1>4. ASSUME NEW it, it.id = q, Stored(it) PROVE Stored(it)'
  BY <1>4 DEF Stored
<1> QED
  BY <1>2, <1>3, <1>4

\* The plans of others and the screens stay as they are when a server moves.
LEMMA FollowServes ==
    ASSUME FollowIInv, AssistIInv', NEW r \in Requests, at[r] \in ServerPoints, Others(r),
           UNCHANGED <<phone, provider>>,
           \A key \in DOMAIN searchRows' : IsInjective(searchRows'[key].ids),
           \A it \in itineraries' : it \in itineraries \/ Stored(it)',
           Traced(work[r], at'[r], local'[r]), Told(r)', at'[r] \in Calls => provider = "google"
    PROVE  FollowIInv'
<1>1. UNCHANGED <<work, phone, provider>>
  BY DEF Others
<1>2. ASSUME NEW q \in Requests
      PROVE  /\ at'[q] \in Calls => provider' = "google"
             /\ Traced(work'[q], at'[q], local'[q]) /\ Told(q)' /\ Shown(work'[q], phone'[q])
  <2>1. CASE q = r
    <3>1. Shown(work[q], phone[q])
      BY DEF FollowIInv
    <3> QED
      BY <1>1, <2>1, <3>1
  <2>2. CASE q # r
    <3>1. at'[q] = at[q] /\ local'[q] = local[q] /\ answer'[q] = answer[q]
      BY <2>2 DEF Others
    <3>2. at[q] \in Calls => provider = "google"
      BY DEF FollowIInv
    <3> QED
      BY <1>1, <3>1, <3>2, Standing
  <2> QED
    BY <2>1, <2>2
<1>3. ASSUME NEW it \in itineraries' PROVE Stored(it)'
  <2>1. CASE it \in itineraries
    <3>1. Stored(it) /\ it.id \in Requests
      BY <2>1 DEF FollowIInv, AssistIInv, PlanIInv, ItinerariesOK
    <3>2. CASE it.id # r
      <4>1. at'[it.id] = at[it.id] /\ local'[it.id] = local[it.id] /\ answer'[it.id] = answer[it.id]
        BY <3>1, <3>2 DEF Others
      <4> QED
        BY <1>1, <3>1, <4>1, Standing
    <3>3. CASE it.id = r
      <4>1. at[r] # "done"
        BY Zenon DEF ServerPoints
      <4>2. work'[it.id].op # "PlanDay"
        BY <1>1, <3>1, <3>3, <4>1 DEF Stored
      <4> QED
        BY <4>2 DEF Stored
    <3> QED
      BY <3>2, <3>3
  <2> QED
    BY <2>1
<1> QED
  BY <1>2, <1>3 DEF FollowIInv

LEMMA FollowGoes ==
    ASSUME FollowIInv, AssistIInv', NEW r \in Requests, at[r] \in ServerPoints, NEW p \in ServerPoints, NEW m,
           GoWith(r, p, m), UNCHANGED <<phone, provider, itineraries>>,
           \A key \in DOMAIN searchRows' : IsInjective(searchRows'[key].ids),
           Traced(work[r], p, m), p \in Calls => provider = "google"
    PROVE  FollowIInv'
<1>1. Others(r) /\ at'[r] = p /\ local'[r] = m
  BY WhatGoes DEF FollowIInv, AssistIInv
<1>2. Told(r)'
  <2>1. p # "done"
    BY Zenon DEF ServerPoints
  <2> QED
    BY <1>1, <2>1 DEF Told
<1> QED
  BY <1>1, <1>2, FollowServes

\* The request as it was when it is at a point of the server.
LEMMA TracedHere ==
    ASSUME FollowIInv, NEW r \in Requests
    PROVE  /\ Traced(work[r], at[r], local[r]) /\ Begun(work[r], at[r]) /\ PlanIInv /\ AssistIInv
           /\ HandOK(r, at[r], local[r]) /\ Asked(work[r]) /\ DOMAIN local[r] = DOMAIN Memory
           /\ at[r] \in Calls => provider = "google"
           /\ \A key \in DOMAIN searchRows : IsInjective(searchRows[key].ids)
<1>1. /\ Traced(work[r], at[r], local[r]) /\ PlanIInv /\ AssistIInv
      /\ at[r] \in Calls => provider = "google"
      /\ \A key \in DOMAIN searchRows : IsInjective(searchRows[key].ids)
  BY DEF FollowIInv, AssistIInv
<1>2. Begun(work[r], at[r])
  BY <1>1 DEF Traced
<1>3. HandOK(r, at[r], local[r]) /\ Asked(work[r])
  BY <1>1 DEF PlanIInv, AssistIInv
<1> QED
  BY <1>1, <1>2, <1>3 DEF HandOK

LEMMA FollowGoesOn ==
    ASSUME FollowIInv, AssistIInv', NEW r \in Requests, at[r] \in ServerPoints, NEW p \in ServerPoints, NEW m,
           GoWith(r, p, m), UNCHANGED <<phone, placesVars, itineraries>>,
           Traced(work[r], p, m), p \in Calls => provider = "google"
    PROVE  FollowIInv'
<1>1. \A key \in DOMAIN searchRows' : IsInjective(searchRows'[key].ids)
  BY TracedHere DEF placesVars
<1> QED
  BY <1>1, FollowGoes DEF placesVars

\* An answer that is none to follow.
LEMMA FollowEnds ==
    ASSUME FollowIInv, AssistIInv', NEW r \in Requests, at[r] \in ServerPoints, NEW status, status # 200,
           Finish(r, status), UNCHANGED <<phone, placesVars>>,
           \A it \in itineraries' : it \in itineraries \/ Stored(it)'
    PROVE  FollowIInv'
<1>1. Others(r) /\ at'[r] = "done" /\ local' = local /\ answer'[r].status = status
  BY WhatEnds, TracedHere
<1>2. Told(r)'
  BY <1>1 DEF Told
<1>3. Traced(work[r], "done", local[r])
  BY TracedHere, BegunStays, TracedOver
<1>4. "done" \notin Calls
  BY Zenon DEF Calls
<1>5. \A key \in DOMAIN searchRows' : IsInjective(searchRows'[key].ids)
  BY TracedHere DEF placesVars
<1> QED
  BY <1>1, <1>2, <1>3, <1>4, <1>5, FollowServes DEF placesVars

LEMMA FollowReturns ==
    ASSUME FollowIInv, AssistIInv', NEW r \in Requests, at[r] \in ServerPoints, NEW rows, Return(r, rows),
           UNCHANGED <<phone, placesVars>>,
           \A it \in itineraries' : it \in itineraries \/ Stored(it)',
           work[r].op = "SearchPlaces" => Different(rows.places),
           (work[r].op = "BuildRoute" /\ work[r].app = "plan") =>
               Follows(rows, work[r].ids, work[r].origin)
    PROVE  FollowIInv'
<1>1. Others(r) /\ at'[r] = "done" /\ local' = local /\ answer'[r].status = 200 /\ answer'[r].rows = rows
  BY WhatReturns, TracedHere
<1>2. Told(r)'
  BY <1>1 DEF Told, Others
<1>3. Traced(work[r], "done", local[r])
  BY TracedHere, BegunStays, TracedOver
<1>4. "done" \notin Calls
  BY Zenon DEF Calls
<1>5. \A key \in DOMAIN searchRows' : IsInjective(searchRows'[key].ids)
  BY TracedHere DEF placesVars
<1> QED
  BY <1>1, <1>2, <1>3, <1>4, <1>5, FollowServes DEF placesVars

-----------------------------------------------------------------------------
(* The handlers and the searches.                                          *)

LEMMA FollowEnter ==
    ASSUME FollowIInv, AssistIInv', NEW r \in Requests, EnterPlanning(r), UNCHANGED <<phone, tripVars>>
    PROVE  FollowIInv'
<1>1. at[r] = "arrived" /\ at[r] \in ServerPoints /\ "handler" \in ServerPoints
      /\ UNCHANGED <<phone, placesVars, itineraries>>
  BY DEF EnterPlanning, ServerPoints, tripVars
<1>2. CASE Go(r, "handler")
  <2>1. local[r].leg = 0
    BY <1>1, TracedHere DEF Traced, Early
  <2>2. Traced(work[r], "handler", local[r])
    BY <1>1, <2>1, TracedHere, BegunStays, TracedFirst
  <2>3. "handler" \notin Calls
    BY Zenon DEF Calls
  <2> QED
    BY <1>1, <1>2, <2>2, <2>3, FollowGoesOn DEF Go
<1>3. ASSUME NEW status \in {401, 403}, Finish(r, status) PROVE FollowIInv'
  BY <1>1, <1>3, FollowEnds
<1> QED
  BY <1>2, <1>3 DEF EnterPlanning

\* Nothing is resolved yet.
LEMMA AdvanceStarts ==
    ASSUME NEW list, IsList(list) PROVE Advance(<<>>, list, list)
<1>1. Len(list) \in Nat /\ Len(<<>>) = 0 /\ DOMAIN <<>> = {} /\ IsList(<<>>)
  BY ListDomain, EmptyList, EmptySeq
<1>2. \A i \in DOMAIN list : 0 + i = i
  BY ListDomain
<1> QED
  BY <1>1, <1>2 DEF Advance

LEMMA Resolved ==
    ASSUME NEW m, DOMAIN m = DOMAIN Memory, NEW ids, NEW purpose
    PROVE  LET n == [m EXCEPT !.todo = ids, !.got = <<>>, !.purpose = purpose]
           IN  /\ DOMAIN n = DOMAIN m /\ n.todo = ids /\ n.got = <<>> /\ n.purpose = purpose
               /\ n.list = m.list /\ n.stops = m.stops /\ n.leg = m.leg /\ n.legs = m.legs
               /\ n.route = m.route /\ n.tries = m.tries
<1>1. {"todo", "got", "purpose"} \subseteq DOMAIN m
  BY DEF Memory
<1> QED
  BY <1>1

\* All of the way is to be resolved.
LEMMA FollowResolves ==
    ASSUME FollowIInv, AssistIInv', NEW r \in Requests, at[r] \in ServerPoints, NEW ids,
           ResolveAll(r, ids, "route"), UNCHANGED <<phone, placesVars, itineraries>>, local[r].leg = 0,
           work[r].op = "PlanDay" => Different(Ids(local[r].list)),
           Planned(work[r]) => IsList(ids) /\ ids = Way(work[r], local[r])
    PROVE  FollowIInv'
<1> DEFINE m == [local[r] EXCEPT !.todo = ids, !.got = <<>>, !.purpose = "route"]
<1>1. GoWith(r, "resolve", m)
  BY DEF ResolveAll
<1>2. DOMAIN local[r] = DOMAIN Memory
  BY TracedHere
<1>3. m.todo = ids /\ m.got = <<>> /\ m.purpose = "route" /\ m.list = local[r].list /\ m.leg = local[r].leg
  BY <1>2, Resolved
<1> HIDE DEF m
<1>4. Resolving("resolve") /\ "resolve" \in ServerPoints /\ "resolve" \notin Calls
  BY Zenon DEF Resolving, ServerPoints, Calls
<1>5. Planned(work[r]) => Advance(m.got, m.todo, Way(work[r], m))
  <2>1. Way(work[r], m) = Way(work[r], local[r])
    BY <1>3 DEF Way
  <2> QED
    BY <1>3, <2>1, AdvanceStarts
<1>6. Begun(work[r], "resolve")
  BY <1>4, TracedHere, BegunStays
<1>7. Traced(work[r], "resolve", m)
  BY <1>3, <1>4, <1>5, <1>6, TracedResolving
<1> QED
  BY <1>1, <1>4, <1>7, FollowGoesOn

LEMMA FollowHandlers ==
    ASSUME FollowIInv, AssistIInv', NEW r \in Requests, UNCHANGED <<phone, tripVars>>,
           SearchPlaces(r) \/ BuildRoute(r) \/ SaveItinerary(r) \/ PlanDay(r)
    PROVE  FollowIInv'
<1>1. at[r] = "handler" /\ at[r] \in ServerPoints /\ UNCHANGED <<phone, placesVars, itineraries>>
  BY DEF SearchPlaces, BuildRoute, SaveItinerary, PlanDay, Handling, ServerPoints, tripVars
<1>2. local[r].leg = 0
  BY <1>1, TracedHere DEF Traced, Early
<1>3. CASE SearchPlaces(r) \/ PlanDay(r)
  <2>1. GoWith(r, "search", local[r])
    BY <1>3 DEF SearchPlaces, PlanDay, Go
  <2>2. "search" \in ServerPoints /\ "search" \notin Calls
    BY Zenon DEF ServerPoints, Calls
  <2>3. Traced(work[r], "search", local[r])
    BY <1>1, <1>2, <2>2, TracedHere, BegunStays, TracedFirst
  <2> QED
    BY <1>1, <2>1, <2>2, <2>3, FollowGoesOn
<1>4. CASE BuildRoute(r)
  <2>1. CASE Finish(r, 422)
    BY <1>1, <2>1, FollowEnds
  <2>2. CASE ResolveAll(r, work[r].ids, "route")
    <3>1. work[r].op = "BuildRoute" /\ work[r].op # "PlanDay"
      BY <1>4 DEF BuildRoute, Handling
    <3>2. Planned(work[r]) => Different(work[r].ids)
      BY <1>1, <3>1, TracedHere DEF Begun
    <3>3. Planned(work[r]) => IsList(work[r].ids) /\ work[r].ids = Way(work[r], local[r])
      BY <3>1, <3>2 DEF Way, Different
    <3> QED
      BY <1>1, <1>2, <2>2, <3>1, <3>3, FollowResolves
  <2> QED
    BY <1>4, <2>1, <2>2 DEF BuildRoute
<1>5. CASE SaveItinerary(r)
  <2> DEFINE m == [local[r] EXCEPT !.stops = work[r].stops]
  <2>1. GoWith(r, "ground", m) /\ work[r].op # "PlanDay"
    BY <1>5 DEF SaveItinerary, Handling
  <2> HIDE DEF m
  <2>2. Storing("ground", m) /\ "ground" \in ServerPoints /\ "ground" \notin Calls
    BY Zenon DEF Storing, ServerPoints, Calls
  <2>3. Traced(work[r], "ground", m)
    BY <1>1, <2>1, <2>2, TracedHere, BegunStays, TracedStoring
  <2> QED
    BY <1>1, <2>1, <2>2, <2>3, FollowGoesOn
<1> QED
  BY <1>3, <1>4, <1>5

\* Another attempt, with the same in the hand.
LEMMA TracedSame ==
    ASSUME NEW q, NEW p, NEW m, Traced(q, p, m), NEW n,
           n.list = m.list, n.todo = m.todo, n.got = m.got, n.stops = m.stops, n.legs = m.legs,
           n.leg = m.leg, n.purpose = m.purpose, n.route = m.route
    PROVE  Traced(q, p, n)
<1>1. /\ Early(p, n) = Early(p, m) /\ Routing(p, n) = Routing(p, m) /\ Storing(p, n) = Storing(p, m)
      /\ Way(q, n) = Way(q, m) /\ Numbered(n) = Numbered(m)
  BY DEF Early, Routing, Storing, Way, Numbered
<1> QED
  BY <1>1 DEF Traced

LEMMA FollowTries ==
    ASSUME FollowIInv, AssistIInv', NEW r \in Requests, at[r] \in ServerPoints,
           GoWith(r, at[r], [local[r] EXCEPT !.tries = @ + 1]), UNCHANGED <<phone, placesVars, itineraries>>
    PROVE  FollowIInv'
<1> DEFINE m == [local[r] EXCEPT !.tries = @ + 1]
<1>1. GoWith(r, at[r], m)
  OBVIOUS
<1>2. "tries" \in DOMAIN local[r]
  BY TracedHere DEF Memory
<1>3. /\ m.list = local[r].list /\ m.todo = local[r].todo /\ m.got = local[r].got /\ m.stops = local[r].stops
      /\ m.legs = local[r].legs /\ m.leg = local[r].leg /\ m.purpose = local[r].purpose
      /\ m.route = local[r].route
  BY <1>2
<1> HIDE DEF m
<1>4. Traced(work[r], at[r], m)
  BY <1>3, TracedHere, TracedSame
<1>5. at[r] \in Calls => provider = "google"
  BY TracedHere
<1> QED
  BY <1>1, <1>4, <1>5, FollowGoesOn

\* Searches answer with different places: from the catalog, from Google, and
\* from what either of them has left in the tables.
LEMMA MockFinds ==
    ASSUME NEW max PROVE Different(Ids(SearchMock(max)))
<1> DEFINE list == SearchMock(max)
<1>1. IsList(list) /\ Range(Ids(list)) \subseteq Fixtures
  BY SearchMockList
<1>2. IsList(Ids(list)) /\ DOMAIN Ids(list) = DOMAIN list
  BY <1>1, IdsOf
<1>3. Len(Catalog) \in Nat /\ DOMAIN Catalog = 1..Len(Catalog)
  BY PlacesAssumption, LenProperties
<1>4. PICK n \in 0..Len(Catalog) : list = [i \in 1..n |-> Place(Catalog[i], "mock")]
  BY <1>3 DEF SearchMock
<1>5. Ids(list) = [i \in 1..n |-> Catalog[i]]
  BY <1>4 DEF Ids, Place
<1> HIDE DEF list
<1>6. IsInjective(Ids(list))
  <2>1. \A i \in 1..n : i \in DOMAIN Catalog
    BY <1>3
  <2>2. IsInjective(Catalog)
    BY PlacesAssumption
  <2> QED
    BY <1>5, <2>1, <2>2 DEF IsInjective
<1>7. Different(Ids(list))
  BY <1>1, <1>2, <1>6 DEF Different, Places0
<1> QED
  BY <1>7 DEF list

LEMMA GoogleFinds ==
    ASSUME NEW max, NEW list \in SearchGoogle(max) PROVE Different(Ids(list))
<1>1. IsList(list) /\ Range(Ids(list)) \subseteq Known
  BY SearchGoogleList
<1>2. IsList(Ids(list))
  BY <1>1, IdsOf
<1>3. PICK ids \in Results : list = [i \in DOMAIN ids |-> Place(ids[i], "google")]
  BY DEF SearchGoogle
<1>4. Ids(list) = [i \in DOMAIN ids |-> ids[i]] /\ IsInjective(ids)
  BY <1>3, PlacesAssumption DEF Ids, Place
<1>5. IsInjective(Ids(list))
  BY <1>4 DEF IsInjective
<1> QED
  BY <1>1, <1>2, <1>5 DEF Different, Places0

LEMMA TablesFind ==
    ASSUME TablesOK, NEW key, \A k \in DOMAIN searchRows : IsInjective(searchRows[k].ids)
    PROVE  Different(Ids(GetSearch(key)))
<1>1. CASE GetSearch(key) = <<>>
  <2>1. Ids(<<>>) = <<>> /\ DOMAIN <<>> = {}
    BY DEF Ids
  <2> QED
    BY <1>1, <2>1, EmptyList DEF Different, IsInjective
<1>2. CASE GetSearch(key) # <<>>
  <2> DEFINE S == {id \in DOMAIN placeRows : GetPlace(id)}
             ids == Keep(searchRows[key].ids, S)
  <2>1. key \in DOMAIN searchRows /\ GetSearch(key) = [i \in DOMAIN ids |-> CachedPlace(ids[i])]
    BY <1>2 DEF GetSearch
  <2>2. Different(searchRows[key].ids)
    BY <2>1 DEF TablesOK, Different
  <2>3. Different(ids)
    BY <2>2, KeepsDifferent
  <2> HIDE DEF ids
  <2>4. Ids(GetSearch(key)) = [i \in DOMAIN ids |-> ids[i]]
    BY <2>1 DEF Ids, CachedPlace, Place
  <2>5. ids = [i \in DOMAIN ids |-> ids[i]]
    BY <2>3 DEF Different, IsList
  <2> QED
    BY <2>3, <2>4, <2>5
<1> QED
  BY <1>1, <1>2

\* The request holds a list that was found.
LEMMA FollowFinds ==
    ASSUME FollowIInv, AssistIInv', NEW r \in Requests, at[r] \in {"search", "call search"},
           NEW p \in {"found", "store search"}, NEW m, m.leg = local[r].leg, Different(Ids(m.list)),
           GoWith(r, p, m), UNCHANGED <<phone, placesVars, itineraries>>
    PROVE  FollowIInv'
<1>1. at[r] \in ServerPoints /\ p \in ServerPoints /\ p \notin Calls
  BY Zenon DEF ServerPoints, Calls
<1>2. local[r].leg = 0
  BY Zenon, TracedHere DEF Traced, Early
<1>3. Traced(work[r], p, m)
  BY <1>1, <1>2, TracedHere, BegunStays, TracedFound
<1> QED
  BY <1>1, <1>3, FollowGoesOn

LEMMA FollowReadsSearch ==
    ASSUME FollowIInv, AssistIInv', NEW r \in Requests, ReadSearchCache(r), UNCHANGED <<phone, itineraries>>
    PROVE  FollowIInv'
<1> DEFINE list == GetSearch(SearchKey(r))
           m == [local[r] EXCEPT !.list = list]
<1>1. at[r] = "search" /\ at[r] \in {"search", "call search"} /\ UNCHANGED <<phone, placesVars, itineraries>>
  BY DEF ReadSearchCache
<1>2. CASE GoWith(r, "found", m)
  <2>1. Different(Ids(list))
    BY TablesFind, TracedHere DEF PlanIInv
  <2>2. "list" \in DOMAIN local[r]
    BY TracedHere DEF Memory
  <2>3. m.list = list /\ m.leg = local[r].leg
    BY <2>2
  <2> HIDE DEF list, m
  <2> QED
    BY <1>1, <1>2, <2>1, <2>3, FollowFinds
<1>3. CASE Go(r, "call search")
  <2>1. at[r] \in ServerPoints /\ "call search" \in ServerPoints /\ "call search" \notin Calls
    BY <1>1, Zenon DEF ServerPoints, Calls
  <2>2. local[r].leg = 0
    BY <1>1, Zenon, TracedHere DEF Traced, Early
  <2>3. Traced(work[r], "call search", local[r])
    BY <2>1, <2>2, TracedHere, BegunStays, TracedFirst
  <2> QED
    BY <1>1, <1>3, <2>1, <2>3, FollowGoesOn DEF Go
<1> QED
  BY <1>2, <1>3 DEF ReadSearchCache

LEMMA FollowCallsSearch ==
    ASSUME FollowIInv, AssistIInv', NEW r \in Requests, CallSearch(r), UNCHANGED <<phone, itineraries>>
    PROVE  FollowIInv'
<1> DEFINE Hold(list) == [local[r] EXCEPT !.list = list, !.tries = 0]
<1>1. at[r] = "call search" /\ at[r] \in ServerPoints /\ at[r] \in {"search", "call search"}
  BY DEF CallSearch, ServerPoints
<1>2. \/ provider = "mock" /\ GoWith(r, "store search", Hold(SearchMock(Wanted(r)))) /\ UNCHANGED placesVars
      \/ \E list \in SearchGoogle(Wanted(r)) :
            GoWith(r, "store search", Hold(list)) /\ UNCHANGED placesVars
      \/ Finish(r, 500) /\ UNCHANGED placesVars
      \/ GoWith(r, at[r], [local[r] EXCEPT !.tries = @ + 1]) /\ UNCHANGED placesVars
  BY DEF CallSearch, Attempt
<1>3. \A list : Hold(list).list = list /\ Hold(list).leg = local[r].leg
  <2>1. {"list", "tries"} \subseteq DOMAIN local[r]
    BY TracedHere DEF Memory
  <2> QED
    BY <2>1
<1> HIDE DEF Hold
<1>4. ASSUME NEW list, Different(Ids(list)), GoWith(r, "store search", Hold(list)), UNCHANGED placesVars
      PROVE  FollowIInv'
  <2>1. Different(Ids(Hold(list).list)) /\ Hold(list).leg = local[r].leg
    BY <1>3, <1>4
  <2>2. UNCHANGED <<phone, placesVars, itineraries>>
    BY <1>4
  <2> QED
    BY <1>1, <1>4, <2>1, <2>2, FollowFinds
<1>5. ASSUME NEW list \in SearchGoogle(Wanted(r)),
             GoWith(r, "store search", Hold(list)), UNCHANGED placesVars
      PROVE  FollowIInv'
  BY <1>4, <1>5, GoogleFinds
<1>6. CASE Finish(r, 500) /\ UNCHANGED placesVars
  <2>1. UNCHANGED <<phone, placesVars>> /\ 500 # 200
    BY <1>6
  <2>2. \A it \in itineraries' : it \in itineraries \/ Stored(it)'
    OBVIOUS
  <2>3. at[r] \in ServerPoints /\ Finish(r, 500)
    BY <1>1, <1>6
  <2> QED
    BY <2>1, <2>2, <2>3, FollowEnds, SMTT(20)
<1>7. CASE GoWith(r, at[r], [local[r] EXCEPT !.tries = @ + 1]) /\ UNCHANGED placesVars
  <2>1. UNCHANGED <<phone, placesVars, itineraries>>
    BY <1>7
  <2> QED
    BY <1>1, <1>7, <2>1, FollowTries
<1>8. CASE GoWith(r, "store search", Hold(SearchMock(Wanted(r)))) /\ UNCHANGED placesVars
  BY <1>4, <1>8, MockFinds
<1> QED
  BY <1>2, <1>5, <1>6, <1>7, <1>8

LEMMA FollowStoresSearch ==
    ASSUME FollowIInv, AssistIInv', NEW r \in Requests, StoreSearch(r), UNCHANGED <<phone, itineraries>>
    PROVE  FollowIInv'
<1> DEFINE ids == Ids(local[r].list)
<1>1. /\ at[r] = "store search" /\ at[r] \in ServerPoints /\ GoWith(r, "found", local[r])
      /\ UNCHANGED <<phone, provider, itineraries>> /\ "found" \in ServerPoints /\ "found" \notin Calls
  BY Zenon DEF StoreSearch, ServerPoints, Go, Calls
<1>2. Different(ids) /\ local[r].leg = 0
  BY <1>1, TracedHere, Zenon DEF Traced, Early
<1>3. Traced(work[r], "found", local[r])
  BY <1>1, <1>2, TracedHere, BegunStays, TracedFound
<1>4. \A key \in DOMAIN searchRows' : IsInjective(searchRows'[key].ids)
  <2>1. CASE UNCHANGED searchRows
    BY <2>1, TracedHere
  <2>2. CASE PutSearch(SearchKey(r), ids)
    <3>1. IsInjective(ids)
      BY <1>2 DEF Different
    <3> HIDE DEF ids
    <3> QED
      BY <2>2, <3>1, TracedHere DEF PutSearch
  <2> QED
    BY <2>1, <2>2 DEF StoreSearch
<1> QED
  BY <1>1, <1>3, <1>4, FollowGoes

LEMMA FollowFound ==
    ASSUME FollowIInv, AssistIInv', NEW r \in Requests, UNCHANGED <<phone, tripVars>>,
           SearchReturns(r) \/ PlanFinds(r)
    PROVE  FollowIInv'
<1>1. at[r] = "found" /\ at[r] \in ServerPoints /\ UNCHANGED <<phone, placesVars, itineraries>>
  BY DEF SearchReturns, PlanFinds, ServerPoints, tripVars
<1>2. Different(Ids(local[r].list)) /\ local[r].leg = 0
  BY <1>1, TracedHere, Zenon DEF Traced, Early
<1>3. CASE SearchReturns(r)
  <2> DEFINE rows == [provider |-> provider, places |-> Ids(local[r].list)]
  <2>1. Return(r, rows) /\ Different(rows.places) /\ work[r].op = "SearchPlaces"
    BY <1>2, <1>3 DEF SearchReturns
  <2> HIDE DEF rows
  <2> QED
    BY <1>1, <2>1, FollowReturns
<1>4. CASE PlanFinds(r)
  <2>1. CASE Finish(r, 422)
    BY <1>1, <2>1, FollowEnds
  <2>2. CASE ResolveAll(r, Ids(local[r].list), "route")
    <3>1. work[r].op = "PlanDay"
      BY <1>4 DEF PlanFinds
    <3>2. Ids(local[r].list) = Way(work[r], local[r]) /\ IsList(Ids(local[r].list))
      BY <1>2, <3>1 DEF Way, Different
    <3> QED
      BY <1>1, <1>2, <2>2, <3>2, FollowResolves
  <2> QED
    BY <1>4, <2>1, <2>2 DEF PlanFinds
<1> QED
  BY <1>3, <1>4

-----------------------------------------------------------------------------
(* Places are resolved in the order in which they were asked for.          *)

LEMMA CanonSame == \A id \in Places0 : Canon(id) = id
BY PlacesAssumption DEF Places0, Canon, Fixtures

LEMMA AdvanceOn ==
    ASSUME NEW got, NEW todo, NEW list, IsList(list), Advance(got, todo, list), todo # <<>>
    PROVE  /\ Head(todo) \in Range(list)
           /\ \A place : place.id = Head(todo) => Advance(Append(got, place), Tail(todo), list)
<1>1. /\ IsList(got) /\ IsList(todo) /\ Len(got) + Len(todo) = Len(list)
      /\ \A i \in DOMAIN got : got[i].id = list[i]
      /\ \A i \in DOMAIN todo : todo[i] = list[Len(got) + i]
  BY DEF Advance
<1>2. /\ Len(got) \in Nat /\ DOMAIN got = 1..Len(got) /\ Len(todo) \in Nat /\ DOMAIN todo = 1..Len(todo)
      /\ Len(list) \in Nat /\ DOMAIN list = 1..Len(list) /\ \A i \in DOMAIN list : list[i] \in Range(list)
  BY <1>1, ListDomain
<1>3. todo \in Seq(Range(todo)) /\ got \in Seq(Range(got))
  BY <1>1 DEF IsList
<1>4. Len(todo) >= 1 /\ Head(todo) = todo[1]
  BY <1>2, <1>3, EmptySeq, HeadTailProperties
<1>5. Head(todo) = list[Len(got) + 1] /\ Len(got) + 1 \in DOMAIN list
  BY <1>1, <1>2, <1>4
<1>6. Head(todo) \in Range(list)
  BY <1>2, <1>5
<1>7. ASSUME NEW place, place.id = Head(todo) PROVE Advance(Append(got, place), Tail(todo), list)
  <2> DEFINE g == Append(got, place)
             t == Tail(todo)
  <2>1. IsList(g) /\ IsList(t)
    BY <1>1, AppendList, TailList
  <2>2. /\ Len(g) = Len(got) + 1 /\ DOMAIN g = 1..(Len(got) + 1) /\ g[Len(got) + 1] = place
        /\ \A i \in 1..Len(got) : g[i] = got[i]
    BY <1>2, <1>3
  <2>3. Len(t) = Len(todo) - 1 /\ \A i \in 1..(Len(todo) - 1) : t[i] = todo[i + 1]
    BY <1>2, <1>3, <1>4, HeadTailProperties
  <2>4. DOMAIN t = 1..(Len(todo) - 1)
    BY <2>1, <2>3, ListDomain
  <2> HIDE DEF g, t
  <2>5. Len(g) + Len(t) = Len(list)
    <3>1. Len(got) + Len(todo) = Len(list) /\ Len(got) \in Nat /\ Len(todo) \in Nat
      BY <1>1, <1>2
    <3>2. Len(g) = Len(got) + 1 /\ Len(t) = Len(todo) - 1
      BY <2>2, <2>3
    <3> QED
      BY <3>1, <3>2
  <2>6. \A i \in DOMAIN g : g[i].id = list[i]
    <3>1. \A i \in 1..(Len(got) + 1) : i \in 1..Len(got) \/ i = Len(got) + 1
      BY <1>2
    <3> QED
      BY <1>1, <1>2, <1>5, <1>7, <2>2, <3>1
  <2>7. ASSUME NEW i \in DOMAIN t PROVE t[i] = list[Len(g) + i]
    <3>1. i \in 1..(Len(todo) - 1) /\ i + 1 \in DOMAIN todo
      BY <1>2, <2>4
    <3>2. t[i] = todo[i + 1] /\ todo[i + 1] = list[Len(got) + (i + 1)]
      BY <1>1, <2>3, <3>1
    <3>3. Len(got) + (i + 1) = Len(g) + i
      BY <1>2, <2>2, <3>1
    <3> QED
      BY <3>2, <3>3
  <2>8. Advance(g, t, list)
    BY <2>1, <2>5, <2>6, <2>7 DEF Advance
  <2> QED
    BY <2>8 DEF g, t
<1> QED
  BY <1>6, <1>7

LEMMA AdvanceEnds ==
    ASSUME NEW got, NEW list, IsList(list), Advance(got, <<>>, list)
    PROVE  Ids(got) = list /\ DOMAIN got = DOMAIN list
<1>1. IsList(got) /\ Len(got) + Len(<<>>) = Len(list) /\ \A i \in DOMAIN got : got[i].id = list[i]
  BY DEF Advance
<1>2. Len(<<>>) = 0
  BY EmptySeq
<1>3. Len(got) \in Nat /\ DOMAIN got = 1..Len(got) /\ Len(list) \in Nat /\ DOMAIN list = 1..Len(list)
  BY <1>1, ListDomain
<1>4. DOMAIN got = DOMAIN list
  BY <1>1, <1>2, <1>3
<1>5. Ids(got) = [i \in DOMAIN list |-> list[i]]
  BY <1>1, <1>4 DEF Ids
<1>6. list = [i \in DOMAIN list |-> list[i]]
  BY DEF IsList
<1> QED
  BY <1>4, <1>5, <1>6

LEMMA TracedElse ==
    ASSUME NEW q, NEW p, Resolving(p), NEW m, m.purpose \notin {"route", "ground", "details"}, Begun(q, p)
    PROVE  Traced(q, p, m)
BY Zenon DEF Traced, Early, Resolving, Routing, Asking, Storing

\* The places of a way are places that somebody knows.
Goal(q, m) == IF m.purpose = "route" THEN Way(q, m) ELSE Ids(m.stops)
Heeded(q, m) == (Planned(q) /\ m.purpose = "route") \/ (q.op = "PlanDay" /\ m.purpose = "details")

LEMMA WayIsKnown ==
    ASSUME FollowIInv, NEW r \in Requests, Resolving(at[r]), Heeded(work[r], local[r])
    PROVE  /\ IsList(Goal(work[r], local[r])) /\ Range(Goal(work[r], local[r])) \subseteq Places0
           /\ Advance(local[r].got, local[r].todo, Goal(work[r], local[r]))
<1> DEFINE q == work[r]
           m == local[r]
<1>1. Traced(q, at[r], m) /\ Begun(q, at[r]) /\ IsList(m.stops)
  BY TracedHere DEF HandOK
<1>2. CASE m.purpose = "route" /\ Planned(q)
  <2>1. Advance(m.got, m.todo, Way(q, m))
    BY <1>1, <1>2 DEF Traced
  <2>2. CASE q.op = "PlanDay"
    <3>1. Different(Ids(m.list))
      BY <1>1, <1>2, <2>2 DEF Traced, Routing
    <3> QED
      BY <1>2, <2>1, <2>2, <3>1 DEF Goal, Way, Different
  <2>3. CASE q.op # "PlanDay"
    <3>1. q.op = "BuildRoute" /\ at[r] # "idle"
      BY <1>2, <2>3 DEF Planned, Resolving
    <3>2. Different(q.ids)
      BY <1>1, <1>2, <3>1 DEF Begun
    <3> QED
      BY <1>2, <2>1, <2>3, <3>2 DEF Goal, Way, Different
  <2> QED
    BY <2>2, <2>3
<1>3. CASE m.purpose = "details" /\ q.op = "PlanDay"
  <2>1. Advance(m.got, m.todo, Ids(m.stops))
    BY <1>1, <1>3 DEF Traced
  <2>2. Numbered(m)
    BY <1>1, <1>3 DEF Traced, Storing
  <2>3. IsList(Ids(m.stops))
    BY <1>1, IdsOf
  <2> QED
    BY <1>3, <2>1, <2>2, <2>3 DEF Goal, Numbered
<1> QED
  BY <1>2, <1>3 DEF Heeded

LEMMA FollowResolve ==
    ASSUME FollowIInv, AssistIInv', NEW r \in Requests, Resolving(at[r]), local[r].todo # <<>>,
           NEW place, Resolve(r, place), UNCHANGED <<phone, provider, searchRows, itineraries>>,
           Heeded(work[r], local[r]) => place.id = Head(local[r].todo)
    PROVE  FollowIInv'
<1> DEFINE m == [local[r] EXCEPT !.todo = Tail(@), !.got = Append(@, place), !.tries = 0]
<1>1. GoWith(r, "resolve", m)
  BY DEF Resolve
<1>2. {"todo", "got", "tries"} \subseteq DOMAIN local[r]
  BY TracedHere DEF Memory
<1>3. /\ m.todo = Tail(local[r].todo) /\ m.got = Append(local[r].got, place) /\ m.list = local[r].list
      /\ m.stops = local[r].stops /\ m.purpose = local[r].purpose /\ m.route = local[r].route
      /\ m.leg = local[r].leg
  BY <1>2
<1> HIDE DEF m
<1>4. /\ at[r] \in ServerPoints /\ "resolve" \in ServerPoints /\ "resolve" \notin Calls
      /\ Resolving("resolve")
  BY Zenon DEF ServerPoints, Resolving, Calls
<1>5. Traced(work[r], at[r], local[r]) /\ Begun(work[r], "resolve")
  BY <1>4, TracedHere, BegunStays
<1>6. Way(work[r], m) = Way(work[r], local[r]) /\ Goal(work[r], m) = Goal(work[r], local[r])
  BY <1>3 DEF Way, Goal
<1>7. Heeded(work[r], local[r]) => Advance(m.got, m.todo, Goal(work[r], m))
  BY <1>3, <1>6, WayIsKnown, AdvanceOn
<1>8. ASSUME m.purpose = "route" PROVE Traced(work[r], "resolve", m)
  <2>1. local[r].leg = 0 /\ (work[r].op = "PlanDay" => Different(Ids(local[r].list)))
    BY <1>3, <1>5, <1>8 DEF Traced, Early, Routing
  <2>2. Planned(work[r]) => Advance(m.got, m.todo, Way(work[r], m))
    BY <1>3, <1>7, <1>8 DEF Heeded, Goal
  <2> QED
    BY <1>3, <1>4, <1>5, <1>8, <2>1, <2>2, TracedResolving
<1>9. ASSUME m.purpose \in {"ground", "details"} PROVE Traced(work[r], "resolve", m)
  <2>1. Storing("resolve", m)
    BY <1>4, <1>9 DEF Storing
  <2>2. work[r].op = "PlanDay" => Numbered(m)
    BY <1>3, <1>5, <1>9 DEF Traced, Storing, Numbered
  <2>3. (work[r].op = "PlanDay" /\ m.purpose = "details") => Advance(m.got, m.todo, Ids(m.stops))
    BY <1>3, <1>7 DEF Heeded, Goal
  <2> QED
    BY <1>5, <2>1, <2>2, <2>3, TracedStoring
<1>10. ASSUME m.purpose \notin {"route", "ground", "details"} PROVE Traced(work[r], "resolve", m)
  BY <1>4, <1>5, <1>10, TracedElse
<1>11. \A key \in DOMAIN searchRows' : IsInjective(searchRows'[key].ids)
  BY TracedHere
<1> QED
  BY <1>1, <1>4, <1>8, <1>9, <1>10, <1>11, FollowGoes

LEMMA FollowReadsPlace ==
    ASSUME FollowIInv, AssistIInv', NEW r \in Requests, ReadPlaceCache(r), UNCHANGED <<phone, itineraries>>
    PROVE  FollowIInv'
<1> DEFINE id == Head(local[r].todo)
<1>1. /\ at[r] = "resolve" /\ local[r].todo # <<>> /\ Resolving(at[r])
      /\ UNCHANGED <<phone, placesVars, itineraries>>
  BY DEF ReadPlaceCache, Resolving
<1>2. CASE Resolve(r, CachedPlace(id))
  <2>1. CachedPlace(id).id = id
    BY DEF CachedPlace, Place
  <2>2. UNCHANGED <<phone, provider, searchRows, itineraries>>
    BY <1>1 DEF placesVars
  <2> QED
    BY <1>1, <1>2, <2>1, <2>2, FollowResolve
<1>3. CASE Go(r, "call get")
  <2>1. /\ at[r] \in ServerPoints /\ "call get" \in ServerPoints /\ "call get" \notin Calls
        /\ Resolving("call get")
    BY <1>1, Zenon DEF ServerPoints, Calls, Resolving
  <2>2. Traced(work[r], at[r], local[r]) /\ Begun(work[r], "call get")
    BY <2>1, TracedHere, BegunStays
  <2>3. Traced(work[r], "call get", local[r])
    BY <1>1, <2>1, <2>2, Zenon DEF Traced, Early, Routing, Storing, Resolving, Asking
  <2> QED
    BY <1>1, <1>3, <2>1, <2>3, FollowGoesOn DEF Go
<1> HIDE DEF id
<1> QED
  BY <1>2, <1>3 DEF ReadPlaceCache, id

LEMMA FollowCallsPlace ==
    ASSUME FollowIInv, AssistIInv', NEW r \in Requests, CallPlace(r, Unresolved(r)),
           UNCHANGED <<phone, itineraries>>
    PROVE  FollowIInv'
<1> DEFINE id == Canon(Head(local[r].todo))
           Answered0 == Resolve(r, Place(id, provider)) /\ UNCHANGED <<provider, searchRows>>
<1>1. Resolving(at[r]) /\ at[r] \in ServerPoints
  BY DEF CallPlace, Resolving, ServerPoints
<1>2. local[r].todo # <<>>
  <2>1. at[r] = "call get" /\ HandOK(r, at[r], local[r])
    BY TracedHere DEF CallPlace
  <2> QED
    BY <2>1 DEF HandOK
<1>3. \/ Answered0
      \/ Unresolved(r) /\ UNCHANGED placesVars
      \/ GoWith(r, at[r], [local[r] EXCEPT !.tries = @ + 1]) /\ UNCHANGED placesVars
  BY DEF CallPlace, Attempt
<1>4. CASE Answered0
  <2>1. Heeded(work[r], local[r]) => Place(id, provider).id = Head(local[r].todo)
    <3>1. Place(id, provider).id = id
      BY DEF Place
    <3>2. Heeded(work[r], local[r]) => Head(local[r].todo) \in Places0
      BY <1>1, <1>2, WayIsKnown, AdvanceOn
    <3> QED
      BY <3>1, <3>2, CanonSame
  <2>2. UNCHANGED <<phone, provider, searchRows, itineraries>> /\ Resolve(r, Place(id, provider))
    BY <1>4
  <2> HIDE DEF id
  <2> QED
    BY <1>1, <1>2, <2>1, <2>2, FollowResolve
<1>5. CASE Unresolved(r) /\ UNCHANGED placesVars
  <2>1. CASE Resolve(r, Place(Head(local[r].todo), "client"))
    <3>1. Place(Head(local[r].todo), "client").id = Head(local[r].todo)
      BY DEF Place
    <3>2. UNCHANGED <<phone, provider, searchRows, itineraries>>
      BY <1>5 DEF placesVars
    <3> QED
      BY <1>1, <1>2, <2>1, <3>1, <3>2, FollowResolve
  <2>2. CASE Finish(r, 422)
    <3>1. UNCHANGED <<phone, placesVars>> /\ 422 # 200 /\ UNCHANGED itineraries
      BY <1>5
    <3> QED
      BY <1>1, <2>2, <3>1, FollowEnds, SMTT(20)
  <2> QED
    BY <1>5, <2>1, <2>2 DEF Unresolved
<1>6. CASE GoWith(r, at[r], [local[r] EXCEPT !.tries = @ + 1]) /\ UNCHANGED placesVars
  <2>1. UNCHANGED <<phone, placesVars, itineraries>>
    BY <1>6
  <2> QED
    BY <1>1, <1>6, <2>1, FollowTries
<1> HIDE DEF id, Answered0
<1> QED
  BY <1>3, <1>4, <1>5, <1>6

LEMMA FollowAllResolved ==
    ASSUME FollowIInv, AssistIInv', NEW r \in Requests, AllResolved(r), UNCHANGED <<phone, tripVars>>
    PROVE  FollowIInv'
<1>1. /\ at[r] = "resolve" /\ local[r].todo = <<>> /\ local[r].purpose = "route"
      /\ GoWith(r, "route", local[r]) /\ UNCHANGED <<phone, placesVars, itineraries>>
  BY DEF AllResolved, Go, tripVars
<1>2. Resolving(at[r]) /\ at[r] \in ServerPoints /\ "route" \in ServerPoints /\ "route" \notin Calls
  BY <1>1, Zenon DEF Resolving, ServerPoints, Calls
<1>3. local[r].leg = 0 /\ (work[r].op = "PlanDay" => Different(Ids(local[r].list)))
  BY <1>1, <1>2, TracedHere DEF Traced, Early, Routing
<1>4. Planned(work[r]) => Ids(local[r].got) = Way(work[r], local[r])
  <2>1. Planned(work[r]) =>
           /\ IsList(Way(work[r], local[r]))
           /\ Advance(local[r].got, <<>>, Way(work[r], local[r]))
    BY <1>1, <1>2, WayIsKnown DEF Heeded, Goal
  <2> QED
    BY <2>1, AdvanceEnds
<1>5. Begun(work[r], "route")
  BY <1>2, TracedHere, BegunStays
<1>6. Traced(work[r], "route", local[r])
  BY <1>3, <1>4, <1>5, TracedAsking
<1> QED
  BY <1>1, <1>2, <1>6, FollowGoesOn

-----------------------------------------------------------------------------
(* What is stored of a plan.                                               *)

\* The plan that is being stored, once it is as it should be.
LEMMA FollowStoring ==
    ASSUME FollowIInv, AssistIInv', NEW r \in Requests, at[r] \in ServerPoints, NEW p, NEW m,
           p = "ground" \/ (p = "resolve" /\ m.purpose \in {"ground", "details"}),
           GoWith(r, p, m), UNCHANGED <<phone, placesVars, itineraries>>,
           work[r].op = "PlanDay" => Numbered(m),
           (work[r].op = "PlanDay" /\ p = "resolve" /\ m.purpose = "details") =>
               Advance(m.got, m.todo, Ids(m.stops))
    PROVE  FollowIInv'
<1>1. p \in ServerPoints /\ p \notin Calls /\ Storing(p, m) /\ (Resolving(p) => p = "resolve")
  BY Zenon DEF ServerPoints, Calls, Storing, Resolving
<1>2. Begun(work[r], p)
  BY <1>1, TracedHere, BegunStays
<1>3. Traced(work[r], p, m)
  BY <1>1, <1>2, TracedStoring
<1> QED
  BY <1>1, <1>3, FollowGoesOn

LEMMA NumberedStays ==
    ASSUME NEW m, Numbered(m), NEW n, n.stops = m.stops, n.route = m.route PROVE Numbered(n)
BY DEF Numbered

LEMMA FollowGrounds ==
    ASSUME FollowIInv, AssistIInv', NEW r \in Requests, EnsureGrounded(r) \/ Grounded(r),
           UNCHANGED <<phone, tripVars>>
    PROVE  FollowIInv'
<1>1. at[r] \in ServerPoints /\ UNCHANGED <<phone, placesVars, itineraries>>
      /\ (at[r] = "ground" \/ (at[r] = "resolve" /\ local[r].purpose = "ground"))
  BY Zenon DEF EnsureGrounded, Grounded, ServerPoints, tripVars
<1>2. Storing(at[r], local[r])
  BY <1>1 DEF Storing, Resolving
<1>3. work[r].op = "PlanDay" => Numbered(local[r])
  BY <1>2, TracedHere DEF Traced
<1>4. CASE EnsureGrounded(r)
  <2>1. CASE Finish(r, 500)
    BY <1>1, <2>1, FollowEnds, SMTT(20)
  <2>2. ASSUME NEW ids, ResolveAll(r, ids, "ground") PROVE FollowIInv'
    <3> DEFINE m == [local[r] EXCEPT !.todo = ids, !.got = <<>>, !.purpose = "ground"]
    <3>1. GoWith(r, "resolve", m)
      BY <2>2 DEF ResolveAll
    <3>2. m.stops = local[r].stops /\ m.route = local[r].route /\ m.purpose = "ground"
      BY TracedHere, Resolved
    <3> HIDE DEF m
    <3>3. work[r].op = "PlanDay" => Numbered(m)
      BY <1>3, <3>2, NumberedStays
    <3> QED
      BY <1>1, <3>1, <3>2, <3>3, FollowStoring
  <2> QED
    BY <1>4, <2>1, <2>2 DEF EnsureGrounded
<1>5. CASE Grounded(r)
  <2> DEFINE ids == Ids(local[r].stops)
             m == [local[r] EXCEPT !.todo = ids, !.got = <<>>, !.purpose = "details"]
  <2>1. GoWith(r, "resolve", m)
    BY <1>5 DEF Grounded, ResolveAll
  <2>2. /\ m.stops = local[r].stops /\ m.route = local[r].route /\ m.purpose = "details"
        /\ m.todo = ids /\ m.got = <<>>
    BY TracedHere, Resolved
  <2>3. IsList(ids)
    BY TracedHere, IdsOf DEF HandOK
  <2> HIDE DEF m
  <2>4. work[r].op = "PlanDay" => Numbered(m)
    BY <1>3, <2>2, NumberedStays
  <2>5. Advance(m.got, m.todo, Ids(m.stops))
    BY <2>2, <2>3, AdvanceStarts
  <2> QED
    BY <1>1, <2>1, <2>2, <2>4, <2>5, FollowStoring
<1> QED
  BY <1>4, <1>5

LEMMA FollowSaves ==
    ASSUME FollowIInv, AssistIInv', NEW r \in Requests, PlanSaves(r), UNCHANGED <<phone, tripVars>>
    PROVE  FollowIInv'
<1> DEFINE list == local[r].list
           ids == Ids(list)
           way == local[r].route.order
           m == [local[r] EXCEPT !.stops = PlanStops(r)]
<1>1. /\ at[r] = "routed" /\ at[r] \in ServerPoints /\ work[r].op = "PlanDay" /\ GoWith(r, "ground", m)
      /\ UNCHANGED <<phone, placesVars, itineraries>>
  BY DEF PlanSaves, ServerPoints, tripVars
<1>2. Different(ids) /\ Follows(local[r].route, ids, work[r].origin) /\ ~work[r].origin /\ IsList(list)
  BY <1>1, TracedHere DEF Traced, Begun, Planned, Way, HandOK
<1>3. DOMAIN ids = DOMAIN list /\ IsList(ids) /\ Len(list) \in Nat /\ DOMAIN list = 1..Len(list)
      /\ Len(ids) \in Nat /\ DOMAIN ids = 1..Len(ids)
  BY <1>2, IdsOf, ListDomain
<1>4. Len(ids) = Len(list)
  BY <1>3
<1>5. /\ way \in Seq(1..Len(ids)) /\ Len(way) = Len(ids) /\ IsInjective(way)
      /\ Along(local[r].route.legs, [i \in DOMAIN ids |-> ids[way[i]]], FALSE)
  BY <1>2 DEF Follows, Permutation
<1>6. PlanStops(r) = [i \in DOMAIN list |-> [id |-> list[way[i]].id, order |-> i]]
  BY <1>4, <1>5 DEF PlanStops
<1>7. DOMAIN way = DOMAIN list /\ \A i \in DOMAIN list : way[i] \in DOMAIN list
  BY <1>3, <1>4, <1>5, LenProperties, ElementOfSeq
<1>8. /\ m.stops = PlanStops(r) /\ m.route = local[r].route
  BY TracedHere DEF Memory
<1>9. IsList(m.stops)
  <2>1. m.stops \in [1..Len(list) -> Range(m.stops)]
    BY <1>3, <1>6, <1>8 DEF Range
  <2> QED
    BY <1>3, <2>1, FunctionIsList
<1>10. Ids(m.stops) = [i \in DOMAIN ids |-> ids[way[i]]]
  <2> DEFINE t == m.stops
  <2>1. t = [i \in DOMAIN list |-> [id |-> list[way[i]].id, order |-> i]]
    BY <1>6, <1>8
  <2>2. \A i \in DOMAIN list : ids[way[i]] = list[way[i]].id
    BY <1>7 DEF Ids
  <2>3. DOMAIN ids = DOMAIN list
    BY <1>3
  <2> HIDE DEF ids, way, m, list
  <2>4. DOMAIN t = DOMAIN list /\ \A i \in DOMAIN list : t[i].id = ids[way[i]]
    BY <2>1, <2>2
  <2> HIDE DEF t
  <2>5. Ids(t) = [i \in DOMAIN ids |-> ids[way[i]]]
    BY <2>3, <2>4 DEF Ids
  <2> QED
    BY <2>5 DEF t
<1>11. \A i \in DOMAIN m.stops : m.stops[i].order = i
  BY <1>6, <1>8
<1>12. Range(Ids(m.stops)) \subseteq Places0
  <2>1. DOMAIN way = DOMAIN ids
    BY <1>3, <1>7
  <2>2. Ids(m.stops) = [i \in DOMAIN way |-> ids[way[i]]]
    BY <1>10, <2>1
  <2>3. Different([i \in DOMAIN way |-> ids[way[i]]])
    BY <1>2, <1>5, Selecting
  <2> QED
    BY <2>2, <2>3 DEF Different
<1> HIDE DEF m, list, ids, way
<1>13. Numbered(m)
  BY <1>5, <1>8, <1>9, <1>10, <1>11, <1>12 DEF Numbered
<1> QED
  BY <1>1, <1>13, FollowStoring

LEMMA FollowCreates ==
    ASSUME FollowIInv, AssistIInv', NEW r \in Requests, CreateItinerary(r), UNCHANGED <<phone, placesVars>>
    PROVE  FollowIInv'
<1> DEFINE m == local[r]
           it0 == [id |-> r, user |-> work[r].user,
                   stops |-> [i \in DOMAIN m.got |->
                                  [id |-> m.got[i].id, from |-> m.got[i].from,
                                   order |-> StopOrder(m.stops[i], i)]]]
<1>1. /\ at[r] = "resolve" /\ at[r] \in ServerPoints /\ m.todo = <<>> /\ m.purpose = "details"
      /\ Resolving(at[r])
  BY Zenon DEF CreateItinerary, ServerPoints, Resolving
<1>2. work[r].op = "PlanDay" =>
         /\ Ids(m.got) = Ids(m.stops) /\ DOMAIN m.got = DOMAIN m.stops /\ Numbered(m)
  <2>1. SUFFICES ASSUME work[r].op = "PlanDay"
                 PROVE  Ids(m.got) = Ids(m.stops) /\ DOMAIN m.got = DOMAIN m.stops /\ Numbered(m)
    OBVIOUS
  <2>2. Advance(m.got, <<>>, Ids(m.stops)) /\ IsList(Ids(m.stops))
    BY <1>1, <2>1, WayIsKnown DEF Heeded, Goal
  <2>3. DOMAIN Ids(m.stops) = DOMAIN m.stops
    BY DEF Ids
  <2>4. Numbered(m)
    BY <1>1, <2>1, TracedHere DEF Traced, Storing
  <2> QED
    BY <2>2, <2>3, <2>4, AdvanceEnds
<1>3. CASE Finish(r, 500) /\ UNCHANGED itineraries
  BY <1>1, <1>3, FollowEnds, SMTT(20)
<1>4. ASSUME itineraries' = itineraries \cup {it0}, work[r].op # "PlanDay", Finish(r, 201)
      PROVE  FollowIInv'
  <2>1. it0.id = r /\ work' = work
    BY <1>4 DEF Finish
  <2> HIDE DEF it0
  <2>2. ASSUME NEW it, it.id = r PROVE Stored(it)'
    BY <1>4, <2>1, <2>2 DEF Stored
  <2>3. \A it \in itineraries' : it \in itineraries \/ Stored(it)'
    BY <1>4, <2>1, <2>2
  <2> QED
    BY <1>1, <1>4, <2>3, FollowEnds, SMTT(20)
<1>5. ASSUME itineraries' = itineraries \cup {it0}, work[r].op = "PlanDay", Return(r, m.route)
      PROVE  FollowIInv'
  <2>1. at'[r] = "done" /\ local' = local /\ answer'[r].rows = m.route
    BY <1>5, WhatReturns, TracedHere
  <2>2. it0.id = r /\ DOMAIN it0.stops = DOMAIN m.got
        /\ \A i \in DOMAIN m.got : it0.stops[i].id = m.got[i].id /\ it0.stops[i].order = StopOrder(m.stops[i], i)
    OBVIOUS
  <2> HIDE DEF it0
  <2>3. \A i \in DOMAIN it0.stops : it0.stops[i].order = i
    BY <1>2, <1>5, <2>2 DEF StopOrder, Numbered
  <2>4. Ids(it0.stops) = Ids(m.stops)
    <3>1. Ids(it0.stops) = Ids(m.got)
      BY <2>2 DEF Ids
    <3> QED
      BY <1>2, <1>5, <3>1
  <2>5. Along(m.route.legs, Ids(it0.stops), FALSE)
    BY <1>2, <1>5, <2>4 DEF Numbered
  <2>6. m.route = local'[r].route /\ answer'[r].rows = local'[r].route
    BY <2>1
  <2>7. ASSUME NEW it \in itineraries', it \notin itineraries PROVE Stored(it)'
    <3>1. it = it0
      BY <1>5, <2>7
    <3>2. /\ it.id = r /\ \A i \in DOMAIN it.stops : it.stops[i].order = i
          /\ Along(local'[r].route.legs, Ids(it.stops), FALSE)
      BY <2>2, <2>3, <2>5, <2>6, <3>1
    <3> QED
      BY <2>1, <2>6, <3>2 DEF Stored
  <2>8. \A it \in itineraries' : it \in itineraries \/ Stored(it)'
    BY <2>7
  <2>9. work[r].op # "SearchPlaces" /\ work[r].op # "BuildRoute"
    BY <1>5
  <2> QED
    BY <1>1, <1>5, <2>8, <2>9, FollowReturns
<1> HIDE DEF it0, m
<1> QED
  BY <1>3, <1>4, <1>5 DEF CreateItinerary, it0, m

-----------------------------------------------------------------------------
(* Routes follow the places they were asked for.                           *)

LEMMA PointsAre ==
    ASSUME NEW ids, IsList(ids), NEW somewhere \in BOOLEAN
    PROVE  LET points == (IF somewhere THEN <<Here>> ELSE <<>>) \o ids
           IN  /\ ~somewhere => points = ids
               /\ somewhere => Len(points) = Len(ids) + 1
               /\ IsList(points) /\ Len(points) \in Nat /\ DOMAIN points = 1..Len(points)
<1>1. ids \in Seq(Range(ids)) /\ Len(ids) \in Nat
  BY ListDomain DEF IsList
<1>2. CASE ~somewhere
  <2>1. <<>> \o ids = ids
    BY <1>1, ConcatEmptySeq
  <2> QED
    BY <1>2, <2>1, ListDomain
<1>3. CASE somewhere
  <2> DEFINE T == Range(ids) \cup {Here}
             points == <<Here>> \o ids
  <2>1. <<Here>> \in Seq(T) /\ ids \in Seq(T) /\ Len(<<Here>>) = 1
    <3>1. Range(ids) \subseteq T /\ Here \in T
      OBVIOUS
    <3> HIDE DEF T
    <3>2. ids \in Seq(T)
      BY <1>1, <3>1, SeqMonotonic
    <3> QED
      BY <3>1, <3>2
  <2> HIDE DEF T
  <2>2. points \in Seq(T) /\ Len(points) = Len(ids) + 1
    BY <1>1, <2>1, ConcatProperties
  <2>3. IsList(points)
    BY <2>2, ListOf
  <2> HIDE DEF points
  <2>4. Len(points) \in Nat /\ DOMAIN points = 1..Len(points)
    BY <2>3, ListDomain
  <2> QED
    BY <1>3, <2>2, <2>3, <2>4 DEF points
<1> QED
  BY <1>2, <1>3

\* One leg for each step along the points.
LEMMA AlongEach ==
    ASSUME NEW stops, IsList(stops), NEW somewhere \in BOOLEAN, NEW points,
           points = (IF somewhere THEN <<Here>> ELSE <<>>) \o stops,
           NEW legs, DOMAIN legs = 1..(Len(points) - 1),
           \A i \in DOMAIN legs :
               /\ legs[i].from = points[i] /\ legs[i].to = points[i + 1]
               /\ ~somewhere => legs[i].start = legs[i].from /\ legs[i].end = legs[i].to
    PROVE  Along(legs, stops, somewhere)
<1> DEFINE f == [i \in DOMAIN legs |-> i]
<1>1. f \in [DOMAIN legs -> 1..(Len(points) - 1)]
  OBVIOUS
<1>2. \A i \in DOMAIN legs : f[i] = i
  OBVIOUS
<1> HIDE DEF f
<1>3. \A i, j \in DOMAIN legs : i < j => f[i] < f[j]
  BY <1>2
<1>4. \A i \in DOMAIN legs :
         /\ legs[i].from = points[f[i]] /\ legs[i].to = points[f[i] + 1]
         /\ ~somewhere => legs[i].start = legs[i].from /\ legs[i].end = legs[i].to
  BY <1>2
<1>5. \E g \in [DOMAIN legs -> 1..(Len(points) - 1)] :
         /\ \A i, j \in DOMAIN legs : i < j => g[i] < g[j]
         /\ \A i \in DOMAIN legs :
               /\ legs[i].from = points[g[i]] /\ legs[i].to = points[g[i] + 1]
               /\ ~somewhere => legs[i].start = legs[i].from /\ legs[i].end = legs[i].to
  BY <1>1, <1>3, <1>4
<1> QED
  BY <1>5 DEF Along

\* In the order asked for, the stops are the places themselves.
LEMMA IdentityKeeps ==
    ASSUME NEW ids, IsList(ids)
    PROVE  /\ Permutation(Identity(Len(ids)), Len(ids))
           /\ [i \in DOMAIN ids |-> ids[Identity(Len(ids))[i]]] = ids
           /\ Len(Identity(Len(ids))) = Len(ids)
           /\ \A i \in 1..Len(ids) : Identity(Len(ids))[i] = i
<1>1. Len(ids) \in Nat /\ DOMAIN ids = 1..Len(ids) /\ ids = [i \in DOMAIN ids |-> ids[i]]
  BY ListDomain DEF IsList
<1>2. Permutation(Identity(Len(ids)), Len(ids))
  BY <1>1, IdentityPermutes
<1>3. \A i \in 1..Len(ids) : Identity(Len(ids))[i] = i
  BY DEF Identity
<1>4. [i \in DOMAIN ids |-> ids[Identity(Len(ids))[i]]] = [i \in DOMAIN ids |-> ids[i]]
  BY <1>1, <1>3
<1> QED
  BY <1>1, <1>2, <1>3, <1>4 DEF Permutation

\* The answer of the Routes API, in the order asked for.
LEMMA PlainFollows ==
    ASSUME NEW ids, IsList(ids), NEW origin \in BOOLEAN, NEW points,
           points = (IF origin THEN <<Here>> ELSE <<>>) \o ids, NEW rides, NEW route,
           route.provider = "google", route.order = Identity(Len(ids)),
           route.legs = ParseRouteLegs(ApiRoute(points, <<>>, rides).legs, ids, Identity(Len(ids)))
    PROVE  Follows(route, ids, origin)
<1> DEFINE n == Len(ids)
           order == Identity(Len(ids))
           api == ApiRoute(points, <<>>, rides).legs
           legs == ParseRouteLegs(api, ids, order)
<1>1. n \in Nat /\ Len(points) \in Nat /\ (~origin => points = ids)
  BY ListDomain, PointsAre
<1>2. Len(order) = n /\ \A i \in 1..n : order[i] = i
  BY IdentityKeeps
<1>3. DOMAIN api = 1..(Len(points) - 1)
      /\ \A i \in DOMAIN api : api[i].from = points[i] /\ api[i].to = points[i + 1]
  BY DEF ApiRoute
<1> HIDE DEF api, order
<1>4. DOMAIN legs = DOMAIN api
      /\ \A i \in DOMAIN api : legs[i].from = api[i].from /\ legs[i].to = api[i].to
  BY DEF ParseRouteLegs
<1>5. ASSUME ~origin, NEW i \in DOMAIN legs PROVE legs[i].start = legs[i].from /\ legs[i].end = legs[i].to
  <2>1. i \in 1..(n - 1) /\ i < n /\ i \in 1..n /\ i + 1 \in 1..n
    BY <1>1, <1>3, <1>4, <1>5
  <2>2. i <= Len(order) /\ i + 1 <= Len(order) /\ i < Len(order) /\ order[i] = i /\ order[i + 1] = i + 1
    BY <1>1, <1>2, <2>1
  <2>3. order[i] <= Len(ids) /\ order[i + 1] <= Len(ids)
    BY <1>1, <2>1, <2>2
  <2>4. legs[i].start = ids[order[i]] /\ legs[i].end = ids[order[i + 1]]
    BY <1>4, <2>2, <2>3 DEF ParseRouteLegs
  <2>5. legs[i].from = ids[i] /\ legs[i].to = ids[i + 1]
    BY <1>1, <1>3, <1>4, <1>5
  <2> QED
    BY <2>2, <2>4, <2>5
<1> HIDE DEF legs
<1>6. /\ DOMAIN legs = 1..(Len(points) - 1)
      /\ \A i \in DOMAIN legs :
               /\ legs[i].from = points[i] /\ legs[i].to = points[i + 1]
               /\ ~origin => legs[i].start = legs[i].from /\ legs[i].end = legs[i].to
  BY <1>3, <1>4, <1>5
<1>7. Along(legs, ids, origin)
  BY <1>6, AlongEach
<1>8. route.legs = legs /\ (origin /\ route.provider = "google") = origin
  BY DEF legs, api, order
<1>9. Permutation(order, Len(ids)) /\ [i \in DOMAIN ids |-> ids[order[i]]] = ids
  BY IdentityKeeps DEF order
<1>10. route.order = order
  BY DEF order
<1> QED
  BY <1>7, <1>8, <1>9, <1>10 DEF Follows

\* The waypoint order of an answer that visits the places in between in another order.
LEMMA IndexOrder ==
    ASSUME NEW n \in Nat, n > 2, NEW index \in Orders(n - 2)
    PROVE  LET order == <<1>> \o [i \in DOMAIN index |-> index[i] + 1] \o <<n>>
           IN  /\ Permutation(order, n) /\ order[1] = 1 /\ order[n] = n
               /\ \A i \in 2..(n - 1) : order[i] = index[i - 1] + 1
<1> DEFINE mid == [i \in DOMAIN index |-> index[i] + 1]
           front == <<1>> \o mid
           order == front \o <<n>>
<1>1. /\ index \in [1..(n - 2) -> 1..(n - 2)] /\ DOMAIN index = 1..(n - 2) /\ n - 2 \in Nat
      /\ \A i, j \in 1..(n - 2) : index[i] = index[j] => i = j
  BY DEF Orders
<1>2. mid \in [1..(n - 2) -> 1..n] /\ \A i \in 1..(n - 2) : mid[i] = index[i] + 1
  <2>1. \A i \in 1..(n - 2) : index[i] \in 1..(n - 2) /\ index[i] + 1 \in 1..n
    BY <1>1
  <2> QED
    BY <1>1, <2>1
<1> HIDE DEF mid
<1>3. mid \in Seq(1..n) /\ Len(mid) = n - 2
  <2>1. mid \in Seq(1..n) /\ DOMAIN mid = 1..(n - 2)
    BY <1>1, <1>2, FunctionIsList
  <2> DEFINE k == Len(mid)
  <2>2. 1..k = 1..(n - 2) /\ k \in Nat
    BY <2>1, LenProperties
  <2> HIDE DEF k
  <2>3. k = n - 2
    BY <1>1, <2>2
  <2> QED
    BY <2>1, <2>3 DEF k
<1>4. <<1>> \in Seq(1..n) /\ <<n>> \in Seq(1..n) /\ Len(<<1>>) = 1 /\ Len(<<n>>) = 1
      /\ <<1>>[1] = 1 /\ <<n>>[1] = n
  <2>1. 1 \in 1..n /\ n \in 1..n
    OBVIOUS
  <2> QED
    BY <2>1
<1>5. /\ front \in Seq(1..n) /\ Len(front) = 1 + (n - 2)
      /\ \A i \in 1..(1 + (n - 2)) : front[i] = IF i <= 1 THEN <<1>>[i] ELSE mid[i - 1]
  BY <1>3, <1>4, ConcatProperties
<1> HIDE DEF front
<1>6. Len(front) = n - 1 /\ (n - 1) + 1 = n /\ 1 + (n - 2) = n - 1
  BY <1>5
<1>7. /\ order \in Seq(1..n) /\ Len(order) = n
      /\ \A i \in 1..n : order[i] = IF i <= n - 1 THEN front[i] ELSE <<n>>[i - (n - 1)]
  BY <1>4, <1>5, <1>6, ConcatProperties
<1> HIDE DEF order
<1>8. order[1] = 1
  <2>1. 1 \in 1..n /\ 1 <= n - 1 /\ 1 \in 1..(1 + (n - 2)) /\ 1 <= 1
    OBVIOUS
  <2> QED
    BY <1>4, <1>5, <1>7, <2>1
<1>9. order[n] = n
  <2>1. n \in 1..n /\ ~(n <= n - 1) /\ n - (n - 1) = 1
    OBVIOUS
  <2> QED
    BY <1>4, <1>7, <2>1
<1>10. ASSUME NEW i \in 2..(n - 1) PROVE order[i] = index[i - 1] + 1
  <2>1. i \in 1..n /\ i <= n - 1 /\ i \in 1..(1 + (n - 2)) /\ ~(i <= 1) /\ i - 1 \in 1..(n - 2)
    BY <1>10
  <2> QED
    BY <1>2, <1>5, <1>7, <2>1
<1>11. ASSUME NEW i \in 1..n, NEW j \in 1..n, order[i] = order[j] PROVE i = j
  <2>1. \A k \in 1..n : k = 1 \/ k = n \/ (k \in 2..(n - 1) /\ k - 1 \in 1..(n - 2))
    OBVIOUS
  <2>2. \A k \in 2..(n - 1) : order[k] # 1 /\ order[k] # n
    <3>1. ASSUME NEW k \in 2..(n - 1) PROVE order[k] # 1 /\ order[k] # n
      <4>1. k - 1 \in 1..(n - 2)
        BY <3>1
      <4>2. index[k - 1] \in 1..(n - 2)
        BY <1>1, <4>1
      <4> QED
        BY <1>10, <3>1, <4>2
    <3> QED
      BY <3>1
  <2>3. CASE i \in 2..(n - 1) /\ j \in 2..(n - 1)
    <3>1. i - 1 \in 1..(n - 2) /\ j - 1 \in 1..(n - 2)
      BY <2>3
    <3>2. index[i - 1] \in 1..(n - 2) /\ index[j - 1] \in 1..(n - 2)
      BY <1>1, <3>1
    <3>3. index[i - 1] + 1 = index[j - 1] + 1
      BY <1>10, <1>11, <2>3
    <3>4. index[i - 1] = index[j - 1]
      BY <3>2, <3>3
    <3>5. i - 1 = j - 1
      BY <1>1, <3>1, <3>4
    <3> QED
      BY <3>5
  <2>4. n # 1
    OBVIOUS
  <2> QED
    BY <1>8, <1>9, <1>11, <2>1, <2>2, <2>3, <2>4
<1>12. Permutation(order, n)
  <2>1. DOMAIN order = 1..n
    BY <1>7, LenProperties
  <2> QED
    BY <1>7, <1>11, <2>1 DEF Permutation, IsInjective
<1> QED
  BY <1>8, <1>9, <1>10, <1>12 DEF order, front, mid

\* Legs from each stop of the order to the next one.
LEMMA OrderFollows ==
    ASSUME NEW ids, IsList(ids), NEW order, Permutation(order, Len(ids)), NEW origin \in BOOLEAN, NEW route,
           route.order = order, ~(origin /\ route.provider = "google"),
           DOMAIN route.legs = 1..(Len(ids) - 1),
           \A i \in 1..(Len(ids) - 1) :
               /\ route.legs[i].from = ids[order[i]] /\ route.legs[i].to = ids[order[i + 1]]
               /\ route.legs[i].start = ids[order[i]] /\ route.legs[i].end = ids[order[i + 1]]
    PROVE  Follows(route, ids, origin)
<1> DEFINE stops == [i \in DOMAIN ids |-> ids[order[i]]]
           n == Len(ids)
           legs == route.legs
<1>1. n \in Nat /\ DOMAIN ids = 1..n /\ \A i \in DOMAIN ids : ids[i] \in Range(ids)
  BY ListDomain
<1>2. \A i \in 1..n : order[i] \in 1..n
  BY ElementOfSeq DEF Permutation
<1>3. stops \in [1..n -> Range(ids)]
  BY <1>1, <1>2
<1>4. IsList(stops) /\ DOMAIN stops = 1..n
  BY <1>1, <1>3, FunctionIsList
<1>5. Len(stops) = n
  <2> HIDE DEF stops
  <2> DEFINE k == Len(stops)
  <2>1. 1..k = 1..n /\ k \in Nat
    BY <1>4, ListDomain
  <2>2. n \in Nat
    BY <1>1
  <2> HIDE DEF k, n
  <2>3. k = n
    BY <2>1, <2>2
  <2> QED
    BY <2>3 DEF k
<1>6. \A i \in 1..(n - 1) : stops[i] = ids[order[i]] /\ stops[i + 1] = ids[order[i + 1]]
  <2>1. \A i \in 1..(n - 1) : i \in 1..n /\ i + 1 \in 1..n
    BY <1>1
  <2> QED
    BY <1>1, <2>1
<1> HIDE DEF stops, n
<1>7. DOMAIN legs = 1..(Len(stops) - 1)
  BY <1>5 DEF n
<1>8. \A i \in DOMAIN legs : /\ legs[i].from = stops[i] /\ legs[i].to = stops[i + 1]
                             /\ legs[i].start = legs[i].from /\ legs[i].end = legs[i].to
  BY <1>6 DEF n
<1> HIDE DEF legs
<1>9. stops = (IF FALSE THEN <<Here>> ELSE <<>>) \o stops
  BY <1>4, PointsAre
<1>10. FALSE \in BOOLEAN
  OBVIOUS
<1> DEFINE points == (IF FALSE THEN <<Here>> ELSE <<>>) \o stops
<1>11. points = stops
  BY <1>9
<1> HIDE DEF points
<1>12. /\ DOMAIN legs = 1..(Len(points) - 1)
       /\ \A i \in DOMAIN legs : /\ legs[i].from = points[i] /\ legs[i].to = points[i + 1]
                                 /\ ~FALSE => legs[i].start = legs[i].from /\ legs[i].end = legs[i].to
  BY <1>7, <1>8, <1>11
<1>13. Along(legs, stops, FALSE)
  BY <1>4, <1>10, <1>12, AlongEach DEF points
<1>14. (origin /\ route.provider = "google") = FALSE
  OBVIOUS
<1> QED
  BY <1>13, <1>14 DEF Follows, stops, legs

\* The answer of the Routes API that names an order.
LEMMA IndexFollows ==
    ASSUME NEW ids, IsList(ids), Len(ids) > 2, NEW index \in Orders(Len(ids) - 2), NEW rides, NEW order,
           order = << 1 >> \o [i \in DOMAIN index |-> index[i] + 1] \o <<Len(ids)>>, NEW route,
           route.order = order,
           route.legs = ParseRouteLegs(ApiRoute(ids, index, rides).legs, ids, order)
    PROVE  Follows(route, ids, FALSE)
<1> DEFINE n == Len(ids)
           via == [i \in 1..n |-> IF i \in {1, n} THEN ids[i] ELSE ids[index[i - 1] + 1]]
           api == ApiRoute(ids, index, rides).legs
           legs == ParseRouteLegs(api, ids, order)
<1>1. n \in Nat /\ n > 2
  BY ListDomain
<1>2. /\ Permutation(order, n) /\ order[1] = 1 /\ order[n] = n
      /\ \A i \in 2..(n - 1) : order[i] = index[i - 1] + 1
  <2> DEFINE way(m) == <<1>> \o [i \in DOMAIN index |-> index[i] + 1] \o <<m>>
  <2>1. \A m \in Nat : (m > 2 /\ index \in Orders(m - 2)) =>
            /\ Permutation(way(m), m) /\ way(m)[1] = 1 /\ way(m)[m] = m
            /\ \A i \in 2..(m - 1) : way(m)[i] = index[i - 1] + 1
    BY IndexOrder
  <2>2. order = way(n)
    OBVIOUS
  <2>3. n \in Nat /\ n > 2 /\ index \in Orders(n - 2)
    BY <1>1
  <2> HIDE DEF way, n
  <2>4. /\ Permutation(way(n), n) /\ way(n)[1] = 1 /\ way(n)[n] = n
        /\ \A i \in 2..(n - 1) : way(n)[i] = index[i - 1] + 1
    BY <2>1, <2>3
  <2> QED
    BY <2>2, <2>4, Zenon
<1>3. index # <<>>
  <2>1. DOMAIN index = 1..(n - 2) /\ 1 \in 1..(n - 2)
    BY <1>1 DEF Orders
  <2>2. DOMAIN <<>> = {}
    BY EmptySeq
  <2> QED
    BY <2>1, <2>2
<1>4. api = [i \in 1..(n - 1) |-> [from |-> via[i], to |-> via[i + 1], ride |-> rides]]
  BY <1>3 DEF ApiRoute
<1>5. \A i \in 1..n : via[i] = ids[order[i]]
  <2>1. \A i \in 1..n : i = 1 \/ i = n \/ (i \in 2..(n - 1) /\ i \notin {1, n})
    BY <1>1
  <2> QED
    BY <1>2, <2>1
<1> HIDE DEF via
<1>6. DOMAIN api = 1..(n - 1) /\ \A i \in 1..(n - 1) : api[i].from = via[i] /\ api[i].to = via[i + 1]
  BY <1>4
<1>7. \A i \in 1..(n - 1) : i \in 1..n /\ i + 1 \in 1..n /\ i < n
  BY <1>1
<1>8. \A i \in 1..n : order[i] \in 1..n /\ order[i] <= n /\ i <= Len(order)
  BY <1>1, <1>2, ElementOfSeq DEF Permutation
<1>9. Len(order) = n
  BY <1>2 DEF Permutation
<1> HIDE DEF api
<1>10. DOMAIN legs = 1..(n - 1)
  BY <1>6 DEF ParseRouteLegs
<1>11. \A i \in 1..(n - 1) :
          /\ legs[i].from = ids[order[i]] /\ legs[i].to = ids[order[i + 1]]
          /\ legs[i].start = ids[order[i]] /\ legs[i].end = ids[order[i + 1]]
  <2> SUFFICES ASSUME NEW i \in 1..(n - 1)
               PROVE  /\ legs[i].from = ids[order[i]] /\ legs[i].to = ids[order[i + 1]]
                      /\ legs[i].start = ids[order[i]] /\ legs[i].end = ids[order[i + 1]]
    OBVIOUS
  <2>1. legs[i].from = via[i] /\ legs[i].to = via[i + 1]
    BY <1>6 DEF ParseRouteLegs
  <2>2. via[i] = ids[order[i]] /\ via[i + 1] = ids[order[i + 1]]
    BY <1>5, <1>7
  <2>3. /\ i < Len(order) /\ i <= Len(order) /\ i + 1 <= Len(order)
        /\ order[i] <= Len(ids) /\ order[i + 1] <= Len(ids)
    BY <1>7, <1>8, <1>9
  <2>4. legs[i].start = ids[order[i]] /\ legs[i].end = ids[order[i + 1]]
    BY <1>6, <2>3 DEF ParseRouteLegs
  <2> QED
    BY <2>1, <2>2, <2>4
<1>12. route.legs = legs /\ FALSE \in BOOLEAN
  BY DEF api
<1> HIDE DEF legs, n
<1> QED
  BY <1>2, <1>10, <1>11, <1>12, OrderFollows DEF n

\* The best route is one of those in the answer.
LEMMA BestOf ==
    ASSUME NEW points, NEW mode, NEW optimize, NEW routes \in ComputeRoutes(points, mode, optimize),
           routes # <<>>
    PROVE  \E index \in IF optimize THEN Orders(Len(points) - 2) ELSE {<<>>}, rides \in BOOLEAN :
              PickBestRoute(routes) = ApiRoute(points, index, rides)
<1> DEFINE Some == IF optimize THEN Orders(Len(points) - 2) ELSE {<<>>}
           R == {ApiRoute(points, index, rides) :
                    index \in Some, rides \in IF mode = "TRANSIT" THEN BOOLEAN ELSE {FALSE}}
           some == {i \in DOMAIN routes : RouteHasTransit(routes[i])}
<1>1. (\E a \in R : routes = <<a>>) \/ (\E a, b \in R : routes = <<a, b>>)
  <2> DEFINE T == IF mode = "TRANSIT" THEN R ELSE {}
  <2>1. ComputeRoutes(points, mode, optimize) = {<<>>} \cup {<<a>> : a \in R} \cup {<<a, b>> : a \in R, b \in T}
    BY DEF ComputeRoutes
  <2> HIDE DEF R
  <2>2. T \subseteq R
    OBVIOUS
  <2> HIDE DEF T
  <2> QED
    BY <2>1, <2>2
<1>2. R \subseteq {ApiRoute(points, index, rides) : index \in Some, rides \in BOOLEAN}
  <2> DEFINE B == IF mode = "TRANSIT" THEN BOOLEAN ELSE {FALSE}
  <2>1. B \subseteq BOOLEAN
    OBVIOUS
  <2>2. R = {ApiRoute(points, index, rides) : index \in Some, rides \in B}
    OBVIOUS
  <2> HIDE DEF R, B, Some
  <2> QED
    BY <2>1, <2>2
<1> HIDE DEF R
<1>3. \E n \in 1..2 : DOMAIN routes = 1..n /\ \A i \in 1..n : routes[i] \in R
  <2>1. ASSUME NEW a \in R, routes = <<a>> PROVE DOMAIN routes = 1..1 /\ \A i \in 1..1 : routes[i] \in R
    BY <2>1
  <2>2. ASSUME NEW a \in R, NEW b \in R, routes = <<a, b>>
        PROVE  DOMAIN routes = 1..2 /\ \A i \in 1..2 : routes[i] \in R
    BY <2>2
  <2>3. 1 \in 1..2 /\ 2 \in 1..2
    OBVIOUS
  <2> QED
    BY <1>1, <2>1, <2>2, <2>3
<1>4. PICK n \in 1..2 : DOMAIN routes = 1..n /\ \A i \in 1..n : routes[i] \in R
  BY <1>3
<1>5. PickBestRoute(routes) \in R
  <2>1. CASE some # {}
    <3>1. n \in Nat /\ some \in SUBSET (1..n)
      BY <1>4
    <3> HIDE DEF some
    <3>2. Min(some) \in 1..n
      BY <2>1, <3>1, MinOfSome
    <3>3. PickBestRoute(routes) = routes[Min(some)]
      BY <2>1 DEF PickBestRoute, some
    <3> QED
      BY <1>4, <3>2, <3>3
  <2>2. CASE some = {}
    <3>1. 1 \in 1..n
      BY <1>4
    <3>2. PickBestRoute(routes) = routes[1]
      BY <2>2 DEF PickBestRoute
    <3> QED
      BY <1>4, <3>1, <3>2
  <2> QED
    BY <2>1, <2>2
<1> HIDE DEF some
<1> QED
  BY <1>2, <1>5

\* One of those in the order asked for.
LEMMA BestPlain ==
    ASSUME NEW points, NEW mode, NEW routes \in ComputeRoutes(points, mode, FALSE), routes # <<>>
    PROVE  \E rides \in BOOLEAN : PickBestRoute(routes) = ApiRoute(points, <<>>, rides)
<1> DEFINE no == FALSE
<1>1. routes \in ComputeRoutes(points, mode, no)
  OBVIOUS
<1>2. ~no
  OBVIOUS
<1> HIDE DEF no
<1>3. \E index \in IF no THEN Orders(Len(points) - 2) ELSE {<<>>}, rides \in BOOLEAN :
          PickBestRoute(routes) = ApiRoute(points, index, rides)
  BY <1>1, BestOf
<1> QED
  BY <1>2, <1>3

\* No leg yet.
LEMMA RunsFirst ==
    ASSUME NEW points, NEW somewhere PROVE Runs(<<>>, points, 0, somewhere)
<1>1. IsList(<<>>) /\ DOMAIN <<>> = {}
  BY EmptyList, EmptySeq
<1> DEFINE f == [i \in {} |-> 1]
<1>2. f \in [DOMAIN <<>> -> 1..0]
  BY <1>1
<1> HIDE DEF f
<1> QED
  BY <1>1, <1>2 DEF Runs

\* A step without a leg, and a step with one.
LEMMA RunsOn ==
    ASSUME NEW legs, NEW points, NEW k \in Nat, NEW somewhere \in BOOLEAN, Runs(legs, points, k, somewhere)
    PROVE  /\ Runs(legs, points, k + 1, somewhere)
           /\ \A leg : ( /\ leg.from = points[k + 1] /\ leg.to = points[(k + 1) + 1]
                         /\ ~somewhere => leg.start = leg.from /\ leg.end = leg.to) =>
                  Runs(Append(legs, leg), points, k + 1, somewhere)
<1> DEFINE Good(leg, j) == /\ leg.from = points[j] /\ leg.to = points[j + 1]
                           /\ ~somewhere => leg.start = leg.from /\ leg.end = leg.to
<1>1. PICK f \in [DOMAIN legs -> 1..k] :
          /\ \A i, j \in DOMAIN legs : i < j => f[i] < f[j]
          /\ \A i \in DOMAIN legs : Good(legs[i], f[i])
  BY DEF Runs
<1>2. IsList(legs) /\ Len(legs) \in Nat /\ DOMAIN legs = 1..Len(legs)
  BY ListDomain DEF Runs
<1>3. \A i \in DOMAIN legs : f[i] \in 1..k /\ f[i] \in 1..(k + 1) /\ f[i] < k + 1
  BY <1>1
<1> HIDE DEF Good
<1>4. Runs(legs, points, k + 1, somewhere)
  <2>1. f \in [DOMAIN legs -> 1..(k + 1)]
    BY <1>1, <1>3
  <2> QED
    BY <1>1, <1>2, <2>1 DEF Runs, Good
<1>5. ASSUME NEW leg, Good(leg, k + 1) PROVE Runs(Append(legs, leg), points, k + 1, somewhere)
  <2> DEFINE new == Append(legs, leg)
             n == Len(legs)
             g == [i \in 1..(n + 1) |-> IF i = n + 1 THEN k + 1 ELSE f[i]]
  <2>1. IsList(new)
    BY <1>2, AppendList
  <2>2. /\ DOMAIN new = 1..(n + 1) /\ new[n + 1] = leg /\ \A i \in 1..n : new[i] = legs[i]
    <3>1. legs \in Seq(Range(legs) \cup {leg})
      BY <1>2, SeqMonotonic DEF IsList
    <3> QED
      BY <3>1, AppendProperties, LenProperties
  <2> HIDE DEF new, n
  <2>3. n \in Nat /\ DOMAIN legs = 1..n
    BY <1>2 DEF n
  <2>4. \A i \in 1..(n + 1) : i = n + 1 \/ (i \in 1..n /\ i # n + 1)
    BY <2>3
  <2>5. g[n + 1] = k + 1 /\ \A i \in 1..n : g[i] = f[i]
    BY <2>3
  <2>6. g \in [1..(n + 1) -> 1..(k + 1)]
    BY <1>3, <2>3, <2>4
  <2> HIDE DEF g
  <2>7. ASSUME NEW i \in 1..(n + 1), NEW j \in 1..(n + 1), i < j PROVE g[i] < g[j]
    <3>1. i \in 1..n
      BY <2>3, <2>7
    <3>2. CASE j = n + 1
      BY <1>3, <2>3, <2>5, <3>1, <3>2
    <3>3. CASE j \in 1..n
      BY <1>1, <2>3, <2>5, <2>7, <3>1, <3>3
    <3> QED
      BY <2>4, <3>2, <3>3
  <2>8. \A i \in 1..(n + 1) : Good(new[i], g[i])
    BY <1>1, <1>5, <2>2, <2>3, <2>4, <2>5
  <2>9. \E h \in [DOMAIN new -> 1..(k + 1)] :
           /\ \A i, j \in DOMAIN new : i < j => h[i] < h[j]
           /\ \A i \in DOMAIN new : Good(new[i], h[i])
    BY <2>2, <2>6, <2>7, <2>8
  <2>10. Runs(new, points, k + 1, somewhere)
    BY <2>1, <2>9 DEF Runs, Good
  <2> QED
    BY <2>10 DEF new
<1> QED
  BY <1>4, <1>5 DEF Good

\* All steps have been made.
LEMMA RunsFollow ==
    ASSUME NEW ids, IsList(ids), NEW origin \in BOOLEAN, NEW legs, NEW points,
           points = (IF origin THEN <<Here>> ELSE <<>>) \o ids,
           Runs(legs, points, Len(points) - 1, origin), NEW route,
           route.provider = "google", route.order = Identity(Len(ids)), route.legs = legs
    PROVE  Follows(route, ids, origin)
<1>1. Permutation(Identity(Len(ids)), Len(ids)) /\ [i \in DOMAIN ids |-> ids[Identity(Len(ids))[i]]] = ids
  BY IdentityKeeps
<1> DEFINE all == (IF origin THEN <<Here>> ELSE <<>>) \o ids
<1>3. Along(legs, ids, origin)
  <2>1. points = all
    OBVIOUS
  <2> HIDE DEF all
  <2>2. Runs(legs, all, Len(all) - 1, origin)
    BY <2>1
  <2>3. \E f \in [DOMAIN legs -> 1..(Len(all) - 1)] :
          /\ \A i, j \in DOMAIN legs : i < j => f[i] < f[j]
          /\ \A i \in DOMAIN legs :
                /\ legs[i].from = all[f[i]] /\ legs[i].to = all[f[i] + 1]
                /\ ~origin => legs[i].start = legs[i].from /\ legs[i].end = legs[i].to
    BY <2>2 DEF Runs
  <2> QED
    BY <2>3 DEF Along, all
<1>4. (origin /\ route.provider = "google") = origin
  OBVIOUS
<1> QED
  BY <1>1, <1>3, <1>4 DEF Follows

-----------------------------------------------------------------------------
(* The steps that ask for a route.                                         *)

\* What is known of a request for a route.
LEMMA AskingHere ==
    ASSUME FollowIInv, NEW r \in Requests, Asking(at[r])
    PROVE  LET q == work[r]
               m == local[r]
           IN  /\ at[r] \in ServerPoints /\ q.origin \in BOOLEAN /\ (\A p \in ServerPoints : Begun(q, p))
               /\ q.op = "PlanDay" => Different(Ids(m.list))
               /\ Planned(q) => Ids(m.got) = Way(q, m) /\ Different(Way(q, m))
               /\ IsList(Ids(m.got)) /\ Len(Ids(m.got)) = Len(m.got)
               /\ Points(r) = PointsFrom(q, Ids(m.got))
               /\ at[r] # "call leg" => m.leg = 0
<1> DEFINE q == work[r]
           m == local[r]
<1>1. /\ Traced(q, at[r], m) /\ Begun(q, at[r]) /\ IsList(m.got) /\ q.origin \in BOOLEAN
  BY TracedHere DEF HandOK, Asked
<1>2. at[r] \in ServerPoints /\ at[r] # "idle"
  BY Zenon DEF Asking, ServerPoints
<1>3. \A p \in ServerPoints : Begun(q, p)
  BY <1>1, <1>2, BegunStays
<1>4. q.op = "PlanDay" => Different(Ids(m.list))
  BY <1>1 DEF Traced, Routing, Asking
<1>5. Planned(q) => Ids(m.got) = Way(q, m) /\ Different(Way(q, m))
  <2>1. Planned(q) => Ids(m.got) = Way(q, m)
    BY <1>1 DEF Traced
  <2>2. (Planned(q) /\ q.op # "PlanDay") => q.op = "BuildRoute" /\ Different(q.ids)
    BY <1>1, <1>2 DEF Begun, Planned
  <2> QED
    BY <1>4, <2>1, <2>2 DEF Way
<1>6. IsList(Ids(m.got)) /\ Len(Ids(m.got)) = Len(m.got)
  <2>1. IsList(Ids(m.got)) /\ DOMAIN Ids(m.got) = DOMAIN m.got
    BY <1>1, IdsOf
  <2> QED
    BY <1>1, <2>1, ListDomain
<1>7. Points(r) = PointsFrom(q, Ids(m.got))
  BY DEF Points, PointsFrom
<1>8. at[r] # "call leg" => m.leg = 0
  BY <1>1 DEF Traced, Asking, Early
<1> QED
  BY <1>1, <1>2, <1>3, <1>4, <1>5, <1>6, <1>7, <1>8

LEMMA FollowRouted ==
    ASSUME FollowIInv, AssistIInv', NEW r \in Requests, Asking(at[r]), NEW legs, NEW order,
           Routed(r, legs, order), UNCHANGED <<phone, placesVars, itineraries>>,
           \A route : (route.provider = provider /\ route.order = order /\ route.legs = legs) =>
               (Planned(work[r]) => Follows(route, Ids(local[r].got), work[r].origin))
    PROVE  FollowIInv'
<1> DEFINE route == [provider |-> provider, order |-> order, legs |-> legs,
                     places |-> Ids(local[r].got)]
           m == [local[r] EXCEPT !.tries = 0, !.route = route]
<1>1. GoWith(r, "routed", m)
  BY DEF Routed
<1>2. {"tries", "route"} \subseteq DOMAIN local[r]
  BY TracedHere DEF Memory
<1>3. route.provider = provider /\ route.order = order /\ route.legs = legs
  OBVIOUS
<1> HIDE DEF route
<1>4. m.route = route /\ m.list = local[r].list
  BY <1>2
<1> HIDE DEF m
<1>5. "routed" \in ServerPoints /\ "routed" \notin Calls
  BY Zenon DEF ServerPoints, Calls
<1>6. at[r] \in ServerPoints /\ Begun(work[r], "routed") /\ (work[r].op = "PlanDay" => Different(Ids(m.list)))
  BY <1>4, <1>5, AskingHere
<1>7. Planned(work[r]) => Follows(m.route, Way(work[r], m), work[r].origin)
  <2>1. Planned(work[r]) => Follows(route, Ids(local[r].got), work[r].origin)
    BY <1>3
  <2>2. Planned(work[r]) => Ids(local[r].got) = Way(work[r], local[r])
    BY AskingHere
  <2>3. Way(work[r], m) = Way(work[r], local[r])
    BY <1>4 DEF Way
  <2> QED
    BY <1>4, <2>1, <2>2, <2>3
<1>8. Traced(work[r], "routed", m)
  BY <1>6, <1>7, TracedRouted
<1> QED
  BY <1>1, <1>5, <1>6, <1>8, FollowGoesOn

LEMMA FollowMock ==
    ASSUME FollowIInv, AssistIInv', NEW r \in Requests, MockRoute(r), UNCHANGED <<phone, itineraries>>
    PROVE  FollowIInv'
<1> DEFINE ids == Ids(local[r].got)
           n == Len(ids)
           order == IF work[r].optimize /\ n > 2 THEN NearestNeighborOrder(ids) ELSE Identity(n)
           legs == [i \in 1..(n - 1) |->
                             [from |-> ids[order[i]], to |-> ids[order[i + 1]], ride |-> FALSE,
                              start |-> ids[order[i]], end |-> ids[order[i + 1]]]]
<1>1. /\ at[r] = "route" /\ provider = "mock" /\ Asking(at[r]) /\ UNCHANGED <<phone, placesVars, itineraries>>
      /\ at[r] \in ServerPoints
  BY Zenon DEF MockRoute, Asking, ServerPoints
<1>2. Finish(r, 500) \/ (~(n < 2) /\ Routed(r, legs, order))
  BY DEF MockRoute
<1>3. IsList(ids) /\ work[r].origin \in BOOLEAN /\ (Planned(work[r]) => Different(ids))
  BY <1>1, AskingHere
<1> HIDE DEF ids
<1>4. n \in Nat /\ DOMAIN ids = 1..n /\ \A i \in DOMAIN ids : ids[i] \in Range(ids)
  BY <1>3, ListDomain
<1>5. ASSUME Planned(work[r]), n >= 2 PROVE Permutation(order, n)
  <2>1. Different(ids)
    BY <1>3, <1>5
  <2>2. Range(ids) \subseteq DOMAIN Where /\ ids[1] \in DOMAIN Where
    <3>1. 1 \in DOMAIN ids
      BY <1>4, <1>5
    <3> QED
      BY <1>4, <2>1, <3>1, WhereAssumption DEF Different, Places0
  <2>3. Permutation(Walk(ids[1], ids, n), n)
    BY <1>3, <1>4, <2>2, WalkGoesOn DEF Permutation
  <2>4. Permutation(Identity(n), n)
    BY <1>4, IdentityPermutes
  <2> QED
    BY <2>3, <2>4 DEF NearestNeighborOrder
<1> HIDE DEF order
<1>6. DOMAIN legs = 1..(n - 1)
      /\ \A i \in 1..(n - 1) :
               /\ legs[i].from = ids[order[i]] /\ legs[i].to = ids[order[i + 1]]
               /\ legs[i].start = ids[order[i]] /\ legs[i].end = ids[order[i + 1]]
  OBVIOUS
<1> HIDE DEF legs
<1>7. ASSUME ~(n < 2), Routed(r, legs, order) PROVE FollowIInv'
  <2>1. ASSUME NEW route, route.provider = provider, route.order = order, route.legs = legs,
               Planned(work[r])
        PROVE  Follows(route, ids, work[r].origin)
    <3>1. Permutation(order, n) /\ ~(work[r].origin /\ route.provider = "google")
      BY <1>1, <1>4, <1>5, <1>7, <2>1
    <3> QED
      BY <1>3, <1>6, <2>1, <3>1, OrderFollows
  <2> QED
    BY <1>1, <1>7, <2>1, FollowRouted DEF ids
<1>8. CASE Finish(r, 500)
  BY <1>1, <1>8, FollowEnds, SMTT(20)
<1> QED
  BY <1>2, <1>7, <1>8

\* A route of the Routes API is described in the terms of the places asked for.
LEMMA FollowDescribed ==
    ASSUME FollowIInv, AssistIInv', NEW r \in Requests, Asking(at[r]), provider = "google", NEW mode,
           NEW index \in IF Optimize(r, mode) THEN Orders(Len(Points(r)) - 2) ELSE {<<>>}, NEW rides,
           NEW api, api = ApiRoute(Points(r), index, rides), Describe(r, api),
           UNCHANGED <<phone, placesVars, itineraries>>
    PROVE  FollowIInv'
<1> DEFINE ids == Ids(local[r].got)
           n == Len(ids)
           order == WaypointOrder(r, api)
           legs == ParseRouteLegs(api.legs, ids, order)
<1>1. Routed(r, legs, order)
  BY DEF Describe
<1>2. IsList(ids) /\ work[r].origin \in BOOLEAN /\ n = Len(local[r].got)
      /\ Points(r) = (IF work[r].origin THEN <<Here>> ELSE <<>>) \o ids
  BY AskingHere DEF PointsFrom
<1>3. api.index = index
  BY DEF ApiRoute
<1>4. ASSUME NEW route, route.provider = provider, route.order = order, route.legs = legs
      PROVE  Follows(route, ids, work[r].origin)
  <2>1. CASE Optimize(r, mode)
    <3>1. ~work[r].origin /\ n > 2 /\ Points(r) = ids /\ index \in Orders(n - 2)
      <4>1. ~work[r].origin /\ n > 2
        BY <1>2, <2>1 DEF Optimize
      <4>2. Points(r) = ids
        BY <1>2, <4>1, PointsAre
      <4>3. index \in Orders(Len(Points(r)) - 2)
        BY <2>1
      <4> QED
        BY <4>1, <4>2, <4>3
    <3>2. index # <<>>
      <4>1. DOMAIN index = 1..(n - 2) /\ 1 \in 1..(n - 2)
        BY <1>2, <3>1, ListDomain DEF Orders
      <4>2. DOMAIN <<>> = {}
        BY EmptySeq
      <4> QED
        BY <4>1, <4>2
    <3>3. order = <<1>> \o [i \in DOMAIN index |-> index[i] + 1] \o <<n>>
      BY <1>2, <1>3, <3>1, <3>2 DEF WaypointOrder
    <3>4. route.legs = ParseRouteLegs(ApiRoute(ids, index, rides).legs, ids, order)
      BY <1>4, <3>1
    <3> HIDE DEF ids, order, legs
    <3>5. Follows(route, ids, FALSE)
      BY <1>2, <1>4, <3>1, <3>3, <3>4, IndexFollows
    <3>6. work[r].origin = FALSE
      BY <1>2, <3>1
    <3> QED
      BY <3>5, <3>6
  <2>2. CASE ~Optimize(r, mode)
    <3>1. index = <<>>
      BY <2>2
    <3>2. order = Identity(n)
      BY <1>2, <1>3, <3>1 DEF WaypointOrder
    <3>3. route.legs = ParseRouteLegs(ApiRoute(Points(r), <<>>, rides).legs, ids, Identity(n))
      BY <1>4, <3>1, <3>2
    <3> HIDE DEF ids, order, legs
    <3> QED
      BY <1>2, <1>4, <3>2, <3>3, PlainFollows
  <2> QED
    BY <2>1, <2>2
<1> HIDE DEF legs, order
<1> QED
  BY <1>1, <1>4, FollowRouted

LEMMA FollowStartsRoute ==
    ASSUME FollowIInv, AssistIInv', NEW r \in Requests, StartGoogleRoute(r), UNCHANGED <<phone, itineraries>>
    PROVE  FollowIInv'
<1> DEFINE m == [local[r] EXCEPT !.mode = MapTravelMode(work[r].mode), !.legs = <<>>]
<1>1. /\ at[r] = "route" /\ provider = "google" /\ Asking(at[r]) /\ UNCHANGED <<phone, placesVars, itineraries>>
      /\ at[r] \in ServerPoints /\ at[r] # "call leg"
  BY Zenon DEF StartGoogleRoute, Asking, ServerPoints
<1>2. \/ Finish(r, 422)
      \/ Sequential(r) /\ GoWith(r, "call leg", m)
      \/ GoWith(r, "call route", m)
  BY DEF StartGoogleRoute
<1>3. {"mode", "legs"} \subseteq DOMAIN local[r]
  BY TracedHere DEF Memory
<1>4. m.legs = <<>> /\ m.list = local[r].list /\ m.got = local[r].got /\ m.leg = local[r].leg
  BY <1>3
<1> HIDE DEF m
<1>5. /\ work[r].origin \in BOOLEAN /\ Begun(work[r], "call leg") /\ Begun(work[r], "call route")
      /\ "call leg" \in ServerPoints /\ "call route" \in ServerPoints
  <2>1. "call leg" \in ServerPoints /\ "call route" \in ServerPoints
    BY Zenon DEF ServerPoints
  <2> QED
    BY <1>1, <2>1, AskingHere
<1>6. /\ work[r].op = "PlanDay" => Different(Ids(m.list))
      /\ Planned(work[r]) => Ids(m.got) = Way(work[r], m)
      /\ m.leg = 0 /\ (Planned(work[r]) => Points(r) = PointsFrom(work[r], Way(work[r], m)))
  <2>1. Way(work[r], m) = Way(work[r], local[r])
    BY <1>4 DEF Way
  <2> QED
    BY <1>1, <1>4, <2>1, AskingHere
<1>7. CASE Finish(r, 422)
  BY <1>1, <1>7, FollowEnds, SMTT(20)
<1>8. CASE Sequential(r) /\ GoWith(r, "call leg", m)
  <2>1. Len(Points(r)) > 2
    BY <1>8 DEF Sequential
  <2>2. ASSUME Planned(work[r])
        PROVE  /\ m.leg \in Nat /\ m.leg + 1 < Len(PointsFrom(work[r], Way(work[r], m)))
               /\ Runs(m.legs, PointsFrom(work[r], Way(work[r], m)), m.leg, work[r].origin)
    <3> DEFINE points == PointsFrom(work[r], Way(work[r], m))
    <3>1. Len(points) > 2 /\ Len(points) \in Nat
      <4>1. points = Points(r) /\ IsList(Ids(m.got))
        BY <1>1, <1>4, <1>6, <2>2, AskingHere
      <4>2. Len(points) \in Nat
        BY <1>5, <1>6, <2>2, <4>1, PointsAre DEF PointsFrom
      <4> QED
        BY <2>1, <4>1, <4>2
    <3> HIDE DEF points
    <3>2. Runs(m.legs, points, m.leg, work[r].origin)
      BY <1>4, <1>6, RunsFirst
    <3>3. m.leg \in Nat /\ m.leg + 1 < Len(points)
      BY <1>6, <3>1
    <3> QED
      BY <3>2, <3>3 DEF points
  <2>3. Traced(work[r], "call leg", m)
    BY <1>5, <1>6, <2>2, TracedLeg
  <2> QED
    BY <1>1, <1>5, <1>8, <2>3, FollowGoesOn
<1>9. CASE GoWith(r, "call route", m)
  <2>1. Traced(work[r], "call route", m)
    BY <1>5, <1>6, TracedAsking
  <2> QED
    BY <1>1, <1>5, <1>9, <2>1, FollowGoesOn
<1> QED
  BY <1>2, <1>7, <1>8, <1>9

LEMMA FollowCallsRoute ==
    ASSUME FollowIInv, AssistIInv', NEW r \in Requests, CallRoute(r), UNCHANGED <<phone, itineraries>>
    PROVE  FollowIInv'
<1> DEFINE walk == [local[r] EXCEPT !.mode = "WALK", !.tries = 0]
           once(best) == [local[r] EXCEPT !.legs = <<best>>, !.tries = 0]
           mode == local[r].mode
           again == GoWith(r, at[r], [local[r] EXCEPT !.tries = @ + 1])
           Some == IF Optimize(r, mode) THEN Orders(Len(Points(r)) - 2) ELSE {<<>>}
           Best(best) == \E index \in Some, rides \in BOOLEAN : best = ApiRoute(Points(r), index, rides)
<1>1. /\ at[r] = "call route" /\ Asking(at[r]) /\ UNCHANGED <<phone, placesVars, itineraries>>
      /\ at[r] \in ServerPoints /\ at[r] # "call leg" /\ at[r] \in Calls
  BY Zenon DEF CallRoute, Asking, ServerPoints, Attempt, Refused, Calls
<1>2. \/ GoWith(r, "call route", walk)
      \/ \E status \in {400, 404, 500} : Finish(r, status)
      \/ \E best : Best(best) /\ (\/ mode = "TRANSIT" /\ GoWith(r, "call again", once(best))
                                  \/ Describe(r, best))
      \/ again
  <2> DEFINE All == ComputeRoutes(Points(r), mode, Optimize(r, mode))
             Next(best) == IF mode = "TRANSIT" /\ ~RouteHasTransit(best)
                           THEN GoWith(r, "call again", once(best)) ELSE Describe(r, best)
             Answer(routes) == IF routes = <<>>
                               THEN IF mode = "BICYCLE" THEN GoWith(r, "call route", walk)
                                    ELSE Finish(r, 404)
                               ELSE Next(PickBestRoute(routes))
  <2>1. (\E routes \in All : Answer(routes)) \/ (\E status \in {400, 500} : Finish(r, status)) \/ again
    BY DEF CallRoute, Attempt, Refused
  <2>2. \A routes \in All : routes # <<>> => Best(PickBestRoute(routes))
    BY BestOf
  <2> HIDE DEF walk, once, again, All, mode, Best
  <2>3. \A best : Next(best) => (mode = "TRANSIT" /\ GoWith(r, "call again", once(best))) \/ Describe(r, best)
    OBVIOUS
  <2>4. \A routes : Answer(routes) =>
           GoWith(r, "call route", walk) \/ Finish(r, 404) \/ (routes # <<>> /\ Next(PickBestRoute(routes)))
    OBVIOUS
  <2> HIDE DEF Next, Answer
  <2>5. Finish(r, 404) => \E status \in {400, 404, 500} : Finish(r, status)
    OBVIOUS
  <2>6. (\E status \in {400, 500} : Finish(r, status)) => \E status \in {400, 404, 500} : Finish(r, status)
    OBVIOUS
  <2> QED
    BY <2>1, <2>2, <2>3, <2>4, <2>5, <2>6, ZenonT(40)
<1>3. {"mode", "legs", "tries"} \subseteq DOMAIN local[r]
  BY TracedHere DEF Memory
<1>4. walk.list = local[r].list /\ walk.got = local[r].got /\ walk.leg = local[r].leg
  BY <1>3
<1>5. \A best : LET m == once(best)
                IN  m.list = local[r].list /\ m.got = local[r].got /\ m.leg = local[r].leg /\ m.legs = <<best>>
  BY <1>3
<1>6. /\ "call route" \in ServerPoints /\ "call again" \in ServerPoints
      /\ Begun(work[r], "call route") /\ Begun(work[r], "call again") /\ provider = "google"
  <2>1. "call route" \in ServerPoints /\ "call again" \in ServerPoints
    BY Zenon DEF ServerPoints
  <2> QED
    BY <1>1, <2>1, AskingHere, TracedHere
<1>7. \A m : (m.list = local[r].list /\ m.got = local[r].got /\ m.leg = local[r].leg) =>
         /\ work[r].op = "PlanDay" => Different(Ids(m.list))
         /\ Planned(work[r]) => Ids(m.got) = Way(work[r], m)
         /\ m.leg = 0 /\ (Planned(work[r]) => Points(r) = PointsFrom(work[r], Way(work[r], m)))
  <2> SUFFICES ASSUME NEW m, m.list = local[r].list, m.got = local[r].got, m.leg = local[r].leg
               PROVE  /\ work[r].op = "PlanDay" => Different(Ids(m.list))
                      /\ Planned(work[r]) => Ids(m.got) = Way(work[r], m)
                      /\ m.leg = 0
                      /\ (Planned(work[r]) => Points(r) = PointsFrom(work[r], Way(work[r], m)))
    OBVIOUS
  <2>1. Way(work[r], m) = Way(work[r], local[r])
    BY DEF Way
  <2> QED
    BY <1>1, <2>1, AskingHere
<1> HIDE DEF walk, once, again
<1>8. CASE GoWith(r, "call route", walk)
  <2>1. Traced(work[r], "call route", walk)
    BY <1>4, <1>6, <1>7, TracedAsking
  <2> QED
    BY <1>1, <1>6, <1>8, <2>1, FollowGoesOn
<1>9. ASSUME NEW status \in {400, 404, 500}, Finish(r, status) PROVE FollowIInv'
  <2>1. status # 200
    OBVIOUS
  <2>2. at[r] \in ServerPoints /\ UNCHANGED <<phone, placesVars>>
    BY <1>1
  <2>3. \A it \in itineraries' : it \in itineraries \/ Stored(it)'
    BY <1>1
  <2> QED
    BY <1>9, <2>1, <2>2, <2>3, FollowEnds
<1>10. ASSUME NEW best, Best(best), mode = "TRANSIT", GoWith(r, "call again", once(best)) PROVE FollowIInv'
  <2> DEFINE m == once(best)
  <2>1. m.list = local[r].list /\ m.got = local[r].got /\ m.leg = local[r].leg /\ m.legs = <<best>>
    BY <1>5
  <2> HIDE DEF m
  <2>2. ~Optimize(r, mode)
    BY <1>10 DEF Optimize
  <2>3. \E rides \in BOOLEAN : best = ApiRoute(Points(r), <<>>, rides)
    BY <1>10, <2>2
  <2>4. Planned(work[r]) =>
           \E rides \in BOOLEAN : m.legs = <<ApiRoute(PointsFrom(work[r], Way(work[r], m)), <<>>, rides)>>
    BY <1>7, <2>1, <2>3
  <2>5. Traced(work[r], "call again", m)
    BY <1>6, <1>7, <2>1, <2>4, TracedAgain
  <2> QED
    BY <1>1, <1>6, <1>10, <2>5, FollowGoesOn DEF m
<1>11. ASSUME NEW best, Best(best), Describe(r, best) PROVE FollowIInv'
  <2>1. PICK index \in Some, rides \in BOOLEAN : best = ApiRoute(Points(r), index, rides)
    BY <1>11
  <2> QED
    BY <1>1, <1>6, <1>11, <2>1, FollowDescribed
<1>12. CASE again
  BY <1>1, <1>12, FollowTries DEF again
<1> HIDE DEF Best, Some
<1> QED
  BY <1>2, <1>8, <1>9, <1>10, <1>11, <1>12, ZenonT(40)

\* The route that was answered first is there, should the second answer be none.
LEMMA FollowCallsAgain ==
    ASSUME FollowIInv, AssistIInv', NEW r \in Requests, CallAlternative(r), UNCHANGED <<phone, itineraries>>
    PROVE  FollowIInv'
<1> DEFINE first == local[r].legs[1]
           again == GoWith(r, at[r], [local[r] EXCEPT !.tries = @ + 1])
           Plain(best) == \E rides \in BOOLEAN : best = ApiRoute(Points(r), <<>>, rides)
<1>1. /\ at[r] = "call again" /\ Asking(at[r]) /\ UNCHANGED <<phone, placesVars, itineraries>>
      /\ at[r] \in ServerPoints /\ at[r] \in Calls /\ provider = "google"
  <2>1. /\ at[r] = "call again" /\ Asking(at[r]) /\ UNCHANGED <<phone, placesVars, itineraries>>
        /\ at[r] \in ServerPoints /\ at[r] \in Calls
    BY Zenon DEF CallAlternative, Asking, ServerPoints, Attempt, Calls
  <2> QED
    BY <2>1, TracedHere
<1>2. \/ \E best : Plain(best) /\ Describe(r, best)
      \/ Describe(r, first)
      \/ again
  <2> DEFINE All == ComputeRoutes(Points(r), "TRANSIT", FALSE)
  <2>1. \A routes \in All : routes # <<>> => Plain(PickBestRoute(routes))
    BY BestPlain
  <2>2. \/ \E routes \in All : Describe(r, IF routes # <<>> /\ RouteHasTransit(PickBestRoute(routes))
                                            THEN PickBestRoute(routes) ELSE first)
        \/ Describe(r, first)
        \/ again
    BY DEF CallAlternative, Attempt
  <2> HIDE DEF All, Plain, first, again
  <2> QED
    BY <2>1, <2>2
<1>3. Planned(work[r]) => Plain(first)
  <2> SUFFICES ASSUME Planned(work[r]) PROVE Plain(first)
    OBVIOUS
  <2>1. Points(r) = PointsFrom(work[r], Way(work[r], local[r]))
    BY <1>1, AskingHere
  <2>2. \E rides \in BOOLEAN : local[r].legs = <<ApiRoute(Points(r), <<>>, rides)>>
    BY <1>1, <2>1, TracedHere DEF Traced
  <2> QED
    BY <2>2
<1>4. ~Optimize(r, "TRANSIT")
  BY DEF Optimize
<1>5. ASSUME NEW best, Plain(best), Describe(r, best) PROVE FollowIInv'
  <2>1. PICK rides \in BOOLEAN : best = ApiRoute(Points(r), <<>>, rides)
    BY <1>5
  <2>2. <<>> \in IF Optimize(r, "TRANSIT") THEN Orders(Len(Points(r)) - 2) ELSE {<<>>}
    BY <1>4
  <2> QED
    BY <1>1, <1>5, <2>1, <2>2, FollowDescribed
<1>6. ASSUME ~Planned(work[r]), Describe(r, first) PROVE FollowIInv'
  <2>1. \E legs, order : Routed(r, legs, order)
    BY <1>6 DEF Describe
  <2> QED
    BY <1>1, <1>6, <2>1, FollowRouted
<1>7. CASE again
  BY <1>1, <1>7, FollowTries DEF again
<1> HIDE DEF first, again, Plain
<1> QED
  BY <1>2, <1>3, <1>5, <1>6, <1>7

\* The legs of a route through two points, and a list of one.
LegsOf(two, ids, order, rides) == ParseRouteLegs(ApiRoute(two, <<>>, rides).legs, ids, order)
One(x) == <<x>>

\* The leg from one point to another, with the addresses of the places named.
LEMMA PairIsLeg ==
    ASSUME NEW two, Len(two) = 2, NEW order, Len(order) = 2, NEW ids, NEW rides
    PROVE  \E leg : /\ LegsOf(two, ids, order, rides) = One(leg)
                    /\ leg.from = two[1] /\ leg.to = two[2]
                    /\ (order[1] <= Len(ids) /\ order[2] <= Len(ids)) =>
                          leg.start = ids[order[1]] /\ leg.end = ids[order[2]]
<1> DEFINE legs == ApiRoute(two, <<>>, rides).legs
           parsed == ParseRouteLegs(legs, ids, order)
<1>1. legs = [j \in 1..1 |-> [from |-> two[j], to |-> two[j + 1], ride |-> rides]]
  <2>1. Len(two) - 1 = 1
    OBVIOUS
  <2>2. ApiRoute(two, <<>>, rides).legs =
            [j \in 1..(Len(two) - 1) |-> [from |-> two[j], to |-> two[j + 1], ride |-> rides]]
    BY DEF ApiRoute
  <2> QED
    BY <2>1, <2>2
<1>2. DOMAIN legs = 1..1 /\ legs[1].from = two[1] /\ legs[1].to = two[2]
  <2>1. 1 + 1 = 2 /\ 1 \in 1..1
    OBVIOUS
  <2> QED
    BY <1>1, <2>1
<1> HIDE DEF legs
<1>3. /\ DOMAIN parsed = 1..1 /\ parsed[1].from = legs[1].from /\ parsed[1].to = legs[1].to
      /\ parsed = [j \in 1..1 |-> parsed[j]]
  BY <1>2 DEF ParseRouteLegs
<1>4. ASSUME order[1] <= Len(ids), order[2] <= Len(ids)
      PROVE  parsed[1].start = ids[order[1]] /\ parsed[1].end = ids[order[2]]
  <2>1. 1 < Len(order) /\ 1 <= Len(order) /\ 1 + 1 <= Len(order) /\ 1 + 1 = 2
    OBVIOUS
  <2> QED
    BY <1>2, <1>4, <2>1 DEF ParseRouteLegs
<1> HIDE DEF parsed
<1> DEFINE leg == parsed[1]
<1>5. parsed = <<leg>>
  <2>1. \A j \in 1..1 : j = 1
    OBVIOUS
  <2>2. <<leg>> = [j \in 1..1 |-> leg]
    OBVIOUS
  <2> QED
    BY <1>3, <2>1, <2>2
<1>6. LegsOf(two, ids, order, rides) = One(leg)
  BY <1>5 DEF LegsOf, One, parsed, legs
<1> HIDE DEF leg
<1>7. leg.from = two[1] /\ leg.to = two[2]
  BY <1>2, <1>3 DEF leg
<1>8. (order[1] <= Len(ids) /\ order[2] <= Len(ids)) =>
         leg.start = ids[order[1]] /\ leg.end = ids[order[2]]
  BY <1>4 DEF leg
<1> QED
  BY <1>6, <1>7, <1>8

LEMMA FollowCallsLeg ==
    ASSUME FollowIInv, AssistIInv', NEW r \in Requests, CallLeg(r), UNCHANGED <<phone, itineraries>>
    PROVE  FollowIInv'
<1> DEFINE q == work[r]
           ids == Ids(local[r].got)
           points == Points(r)
           i == local[r].leg + 1
           pair(routes) == IF routes = <<>> THEN <<>>
                           ELSE ParseRouteLegs(PickBestRoute(routes).legs, ids, <<i, i + 1>>)
           next(legs) == [local[r] EXCEPT !.legs = legs, !.leg = i, !.tries = 0]
           again == GoWith(r, at[r], [local[r] EXCEPT !.tries = @ + 1])
           All == ComputeRoutes(<<points[i], points[i + 1]>>, "TRANSIT", FALSE)
           Good(legs) == Runs(legs, points, i, q.origin)
<1>1. /\ at[r] = "call leg" /\ Asking(at[r]) /\ UNCHANGED <<phone, placesVars, itineraries>>
      /\ at[r] \in ServerPoints /\ at[r] \in Calls /\ provider = "google"
  <2>1. /\ at[r] = "call leg" /\ Asking(at[r]) /\ UNCHANGED <<phone, placesVars, itineraries>>
        /\ at[r] \in ServerPoints /\ at[r] \in Calls
    BY Zenon DEF CallLeg, Asking, ServerPoints, Attempt, Refused, Calls
  <2> QED
    BY <2>1, TracedHere
<1>2. /\ IsList(ids) /\ q.origin \in BOOLEAN /\ Len(ids) = Len(local[r].got)
      /\ points = (IF q.origin THEN <<Here>> ELSE <<>>) \o ids
      /\ Len(points) \in Nat
  <2>1. /\ IsList(ids) /\ q.origin \in BOOLEAN /\ Len(ids) = Len(local[r].got)
        /\ points = (IF q.origin THEN <<Here>> ELSE <<>>) \o ids
    BY <1>1, AskingHere DEF PointsFrom
  <2> QED
    BY <2>1, PointsAre
<1>3. Planned(q) => /\ local[r].leg \in Nat /\ i < Len(points) /\ Runs(local[r].legs, points, local[r].leg, q.origin)
                    /\ Ids(local[r].got) = Way(q, local[r])
  <2>1. Planned(q) => points = PointsFrom(q, Way(q, local[r])) /\ Ids(local[r].got) = Way(q, local[r])
    BY <1>1, AskingHere
  <2> QED
    BY <1>1, <2>1, TracedHere DEF Traced
<1>4. \/ \E routes \in All :
            LET legs == local[r].legs \o pair(routes)
            IN  \/ i + 1 = Len(points) /\ Routed(r, legs, Identity(Len(local[r].got)))
                \/ i + 1 # Len(points) /\ GoWith(r, "call leg", next(legs))
      \/ \E status \in {400, 500} : Finish(r, status)
      \/ again
  BY DEF CallLeg, Attempt, Refused
<1>5. ASSUME NEW routes \in All, Planned(q) PROVE Good(local[r].legs \o pair(routes))
  <2>1. /\ local[r].leg \in Nat /\ i \in Nat /\ i >= 1 /\ i < Len(points)
        /\ Runs(local[r].legs, points, local[r].leg, q.origin)
    BY <1>3, <1>5
  <2>2. IsList(local[r].legs)
    BY <2>1 DEF Runs
  <2>3. CASE routes = <<>>
    <3>1. local[r].legs \o pair(routes) = local[r].legs
      <4>1. local[r].legs \o <<>> = local[r].legs
        BY <2>2, ConcatEmptySeq DEF IsList
      <4> QED
        BY <2>3, <4>1
    <3>2. Good(local[r].legs)
      BY <1>2, <2>1, RunsOn
    <3> QED
      BY <3>1, <3>2
  <2>4. CASE routes # <<>>
    <3>1. PICK leg : /\ pair(routes) = <<leg>>
                     /\ leg.from = points[i] /\ leg.to = points[i + 1]
                     /\ ~q.origin => leg.start = leg.from /\ leg.end = leg.to
      <4>1. routes \in ComputeRoutes(<<points[i], points[i + 1]>>, "TRANSIT", FALSE)
        BY <1>5
      <4>2. pair(routes) = ParseRouteLegs(PickBestRoute(routes).legs, ids, <<i, i + 1>>)
        BY <2>4
      <4>3. i \in Nat /\ i >= 1 /\ i < Len(points)
        BY <2>1
      <4> DEFINE two == <<points[i], points[i + 1]>>
                 order == <<i, i + 1>>
                 legs == PickBestRoute(routes).legs
                 origin == q.origin
      <4>4. Len(two) = 2 /\ two[1] = points[i] /\ two[2] = points[i + 1]
        OBVIOUS
      <4>5. Len(order) = 2 /\ order[1] = i /\ order[2] = i + 1
        OBVIOUS
      <4> HIDE DEF ids, points, i, pair, All, two, order
      <4>6. routes \in ComputeRoutes(two, "TRANSIT", FALSE)
        BY <4>1 DEF two
      <4>7. PICK rides : legs = ApiRoute(two, <<>>, rides).legs
        BY <2>4, <4>6, BestPlain
      <4>8. /\ IsList(ids) /\ origin \in BOOLEAN /\ points = (IF origin THEN <<Here>> ELSE <<>>) \o ids
        BY <1>2
      <4>9. pair(routes) = ParseRouteLegs(legs, ids, order)
        BY <4>2 DEF order
      <4> HIDE DEF legs, origin
      <4>10. PICK leg : /\ LegsOf(two, ids, order, rides) = One(leg)
                        /\ leg.from = two[1] /\ leg.to = two[2]
                        /\ (order[1] <= Len(ids) /\ order[2] <= Len(ids)) =>
                               leg.start = ids[order[1]] /\ leg.end = ids[order[2]]
        BY <4>4, <4>5, PairIsLeg
      <4>11. ~origin => points = ids /\ Len(ids) \in Nat
        BY <4>8, PointsAre, ListDomain
      <4>12. ~origin => order[1] <= Len(ids) /\ order[2] <= Len(ids)
        BY <4>3, <4>5, <4>11
      <4>13. ~origin => leg.start = leg.from /\ leg.end = leg.to
        BY <4>4, <4>5, <4>10, <4>11, <4>12
      <4>14. LegsOf(two, ids, order, rides) = pair(routes)
        BY <4>7, <4>9 DEF LegsOf
      <4>15. pair(routes) = <<leg>>
        BY <4>10, <4>14 DEF One
      <4> QED
        BY <4>4, <4>10, <4>13, <4>15 DEF origin
    <3>2. local[r].legs \o <<leg>> = Append(local[r].legs, leg)
      <4>1. local[r].legs \in Seq(Range(local[r].legs) \cup {leg})
        BY <2>2, SeqMonotonic DEF IsList
      <4> DEFINE T == Range(local[r].legs) \cup {leg}
      <4>2. leg \in T
        OBVIOUS
      <4> HIDE DEF T
      <4> QED
        BY <4>1, <4>2, AppendIsConcat DEF T
    <3>3. Good(Append(local[r].legs, leg))
      BY <1>2, <2>1, <3>1, RunsOn
    <3> QED
      BY <3>1, <3>2, <3>3
  <2> QED
    BY <2>3, <2>4
<1> HIDE DEF pair
<1>6. ASSUME NEW routes \in All, i + 1 = Len(points),
             Routed(r, local[r].legs \o pair(routes), Identity(Len(local[r].got)))
      PROVE  FollowIInv'
  <2> DEFINE legs == local[r].legs \o pair(routes)
  <2>1. ASSUME NEW route, route.provider = provider, route.order = Identity(Len(local[r].got)),
               route.legs = legs, Planned(q)
        PROVE  Follows(route, ids, q.origin)
    <3>1. Good(legs)
      BY <1>5, <1>6, <2>1
    <3>2. i = Len(points) - 1
      BY <1>2, <1>3, <1>6, <2>1
    <3>3. Runs(legs, points, Len(points) - 1, q.origin)
      BY <3>1, <3>2
    <3> HIDE DEF legs, points, ids, q
    <3> QED
      BY <1>1, <1>2, <2>1, <3>3, RunsFollow
  <2> HIDE DEF legs
  <2> QED
    BY <1>1, <1>6, <2>1, FollowRouted DEF legs
<1>7. ASSUME NEW routes \in All, i + 1 # Len(points),
             GoWith(r, "call leg", next(local[r].legs \o pair(routes)))
      PROVE  FollowIInv'
  <2> DEFINE legs == local[r].legs \o pair(routes)
             m == next(legs)
  <2>1. {"leg", "legs", "tries"} \subseteq DOMAIN local[r]
    BY TracedHere DEF Memory
  <2>2. m.list = local[r].list /\ m.got = local[r].got /\ m.leg = i /\ m.legs = legs
    BY <2>1
  <2> HIDE DEF m
  <2>3. "call leg" \in ServerPoints /\ Begun(q, "call leg") /\ (q.op = "PlanDay" => Different(Ids(m.list)))
        /\ (Planned(q) => Ids(m.got) = Way(q, m) /\ Way(q, m) = ids)
    <3>1. Way(q, m) = Way(q, local[r])
      BY <2>2 DEF Way
    <3> QED
      BY <1>1, <1>3, <2>2, <3>1, AskingHere
  <2>4. Planned(q) => /\ m.leg \in Nat /\ m.leg + 1 < Len(PointsFrom(q, Way(q, m)))
                      /\ Runs(m.legs, PointsFrom(q, Way(q, m)), m.leg, q.origin)
    <3> SUFFICES ASSUME Planned(q)
                 PROVE  /\ m.leg \in Nat /\ m.leg + 1 < Len(PointsFrom(q, Way(q, m)))
                        /\ Runs(m.legs, PointsFrom(q, Way(q, m)), m.leg, q.origin)
      OBVIOUS
    <3>1. Good(legs)
      BY <1>5, <1>7
    <3>2. PointsFrom(q, Way(q, m)) = points
      BY <1>2, <2>3 DEF PointsFrom
    <3>3. i \in Nat /\ i + 1 < Len(points)
      <4>1. local[r].leg \in Nat /\ i \in Nat /\ i < Len(points)
        BY <1>3
      <4>2. i + 1 # Len(points) /\ Len(points) \in Nat
        BY <1>2, <1>7
      <4> HIDE DEF i, points
      <4> QED
        BY <4>1, <4>2
    <3> QED
      BY <2>2, <3>1, <3>2, <3>3
  <2>5. Traced(q, "call leg", m)
    BY <2>3, <2>4, TracedLeg
  <2> QED
    BY <1>1, <1>7, <2>3, <2>5, FollowGoesOn DEF m
<1>8. ASSUME NEW status \in {400, 500}, Finish(r, status) PROVE FollowIInv'
  <2>1. status # 200
    OBVIOUS
  <2>2. at[r] \in ServerPoints /\ UNCHANGED <<phone, placesVars>>
    BY <1>1
  <2>3. \A it \in itineraries' : it \in itineraries \/ Stored(it)'
    BY <1>1
  <2> QED
    BY <1>8, <2>1, <2>2, <2>3, FollowEnds
<1>9. CASE again
  BY <1>1, <1>9, FollowTries
<1> HIDE DEF All, points, i, ids, again, next
<1> QED
  BY <1>4, <1>6, <1>7, <1>8, <1>9

-----------------------------------------------------------------------------
(* The server as a whole.                                                  *)

\* What is answered from the route in hand, and what reads itineraries.
LEMMA FollowRouteReturns ==
    ASSUME FollowIInv, AssistIInv', NEW r \in Requests, RouteReturns(r), UNCHANGED <<phone, tripVars>>
    PROVE  FollowIInv'
<1>1. /\ at[r] = "routed" /\ at[r] \in ServerPoints /\ UNCHANGED <<phone, placesVars, itineraries>>
      /\ Return(r, local[r].route) /\ work[r].op # "SearchPlaces"
  BY DEF RouteReturns, ServerPoints, tripVars
<1>2. ASSUME work[r].op = "BuildRoute", work[r].app = "plan"
      PROVE  Follows(local[r].route, work[r].ids, work[r].origin)
  <2>1. Planned(work[r]) /\ Way(work[r], local[r]) = work[r].ids
    BY <1>2 DEF Planned, Way
  <2> QED
    BY <1>1, <2>1, TracedHere DEF Traced
<1>3. \A it \in itineraries' : it \in itineraries \/ Stored(it)'
  BY <1>1
<1> DEFINE rows == local[r].route
<1> HIDE DEF rows
<1>4. Return(r, rows)
  BY <1>1 DEF rows
<1>5. (work[r].op = "BuildRoute" /\ work[r].app = "plan") => Follows(rows, work[r].ids, work[r].origin)
  BY <1>2 DEF rows
<1> QED
  BY <1>1, <1>3, <1>4, <1>5, FollowReturns

LEMMA FollowReads ==
    ASSUME FollowIInv, AssistIInv', NEW r \in Requests, GetItinerary(r) \/ ListItineraries(r),
           UNCHANGED <<phone, tripVars>>
    PROVE  FollowIInv'
<1>1. /\ at[r] = "handler" /\ at[r] \in ServerPoints /\ UNCHANGED <<phone, placesVars, itineraries>>
      /\ work[r].op \in {"GetItinerary", "ListItineraries"}
  BY DEF GetItinerary, ListItineraries, Handling, ServerPoints, tripVars
<1>2. \/ \E rows : Return(r, rows)
      \/ \E status \in {403, 404, 500} : Finish(r, status)
  BY DEF GetItinerary, ListItineraries
<1>3. \A it \in itineraries' : it \in itineraries \/ Stored(it)'
  BY <1>1
<1>4. ASSUME NEW status \in {403, 404, 500}, Finish(r, status) PROVE FollowIInv'
  <2>1. status # 200
    OBVIOUS
  <2> QED
    BY <1>1, <1>3, <1>4, <2>1, FollowEnds
<1>5. ASSUME NEW rows, Return(r, rows) PROVE FollowIInv'
  BY <1>1, <1>3, <1>5, FollowReturns
<1> QED
  BY <1>2, <1>4, <1>5

LEMMA FollowTrips ==
    ASSUME FollowIInv, AssistIInv', NEW r \in Requests, TripStep(r), UNCHANGED phone PROVE FollowIInv'
<1>1. CASE UNCHANGED tripVars /\ ( \/ EnterPlanning(r) \/ SearchPlaces(r) \/ BuildRoute(r)
                                   \/ SaveItinerary(r) \/ PlanDay(r))
  BY <1>1, FollowEnter, FollowHandlers
<1>2. CASE UNCHANGED tripVars /\ ( \/ SearchReturns(r) \/ PlanFinds(r) \/ AllResolved(r)
                                   \/ RouteReturns(r) \/ PlanSaves(r))
  BY <1>2, FollowFound, FollowAllResolved, FollowRouteReturns, FollowSaves
<1>3. CASE UNCHANGED tripVars /\ ( \/ EnsureGrounded(r) \/ Grounded(r) \/ GetItinerary(r)
                                   \/ ListItineraries(r))
  BY <1>3, FollowGrounds, FollowReads
<1>4. CASE UNCHANGED itineraries /\ ( \/ ReadSearchCache(r) \/ CallSearch(r) \/ StoreSearch(r)
                                      \/ ReadPlaceCache(r) \/ CallPlace(r, Unresolved(r)))
  BY <1>4, FollowReadsSearch, FollowCallsSearch, FollowStoresSearch, FollowReadsPlace, FollowCallsPlace
<1>5. CASE UNCHANGED itineraries /\ (GoogleRouteStep(r) \/ MockRoute(r))
  BY <1>5, FollowStartsRoute, FollowCallsRoute, FollowCallsAgain, FollowCallsLeg, FollowMock
     DEF GoogleRouteStep
<1>6. CASE CreateItinerary(r) /\ UNCHANGED placesVars
  BY <1>6, FollowCreates
<1> QED
  BY <1>1, <1>2, <1>3, <1>4, <1>5, <1>6 DEF TripStep

LEMMA FollowAssistant ==
    ASSUME FollowIInv, AssistIInv', NEW r \in Requests, AssistantStep(r) \/ RefuseInput(r),
           UNCHANGED <<placesVars, itineraries, phone>>
    PROVE  FollowIInv'
<1> DEFINE m(down) == [local[r] EXCEPT !.tries = @ + 1, !.down = down]
<1>1. at[r] = "handler" /\ at[r] \in ServerPoints
  BY DEF AssistantStep, RefuseInput, ParseIntent, PickStops, SuggestDayCards, SuggestRouteCard, Handling,
         ServerPoints
<1>2. \/ RefuseInput(r)
      \/ work[r].op \in {"ParseIntent", "PickStops", "SuggestDayCards", "SuggestRouteCard"}
  BY DEF AssistantStep, ParseIntent, PickStops, SuggestDayCards, SuggestRouteCard, Handling
<1>3. RefuseInput(r) => Finish(r, 400)
  BY DEF RefuseInput
<1>4. ParseIntent(r) => (\E rows : Return(r, rows)) \/ \E status \in {500, 503} : Finish(r, status)
  BY DEF ParseIntent, Failures
<1>5. PickStops(r) => (\E rows : Return(r, rows)) \/ \E status \in {422, 500, 503} : Finish(r, status)
  BY DEF PickStops, Failures
<1>6. SuggestRouteCard(r) => \E rows : Return(r, rows)
  BY DEF SuggestRouteCard
<1>7. SuggestDayCards(r) => \/ \E rows : Return(r, rows)
                            \/ \E status \in {503} : Finish(r, status)
                            \/ \E down : GoWith(r, "handler", m(down))
  BY DEF SuggestDayCards
<1>8. \A it \in itineraries' : it \in itineraries \/ Stored(it)'
  OBVIOUS
<1>9. ASSUME NEW status \in {400, 422, 500, 503}, Finish(r, status) PROVE FollowIInv'
  <2>1. status # 200
    OBVIOUS
  <2>2. at[r] \in ServerPoints /\ UNCHANGED <<phone, placesVars>>
    BY <1>1
  <2> QED
    BY <1>8, <1>9, <2>1, <2>2, FollowEnds
<1>10. ASSUME NEW rows, Return(r, rows), ~RefuseInput(r) PROVE FollowIInv'
  <2>1. work[r].op # "SearchPlaces" /\ work[r].op # "BuildRoute"
    BY <1>2, <1>10
  <2>2. at[r] \in ServerPoints /\ UNCHANGED <<phone, placesVars>>
    BY <1>1
  <2> QED
    BY <1>8, <1>10, <2>1, <2>2, FollowReturns
<1>11. ASSUME NEW down, GoWith(r, "handler", m(down)) PROVE FollowIInv'
  <2> DEFINE n == m(down)
  <2>1. {"tries", "down"} \subseteq DOMAIN local[r]
    BY TracedHere DEF Memory
  <2>2. /\ n.list = local[r].list /\ n.todo = local[r].todo /\ n.got = local[r].got
        /\ n.stops = local[r].stops /\ n.legs = local[r].legs /\ n.leg = local[r].leg
        /\ n.purpose = local[r].purpose /\ n.route = local[r].route
    BY <2>1
  <2>3. GoWith(r, "handler", n)
    BY <1>11
  <2> HIDE DEF m, n
  <2>4. Traced(work[r], "handler", local[r])
    BY <1>1, TracedHere
  <2>5. Traced(work[r], "handler", n)
    BY <2>2, <2>4, TracedSame
  <2>6. "handler" \in ServerPoints /\ "handler" \notin Calls
    BY DEF ServerPoints, Calls
  <2>7. UNCHANGED <<phone, placesVars, itineraries>>
    OBVIOUS
  <2> QED
    BY <1>1, <2>3, <2>5, <2>6, <2>7, FollowGoesOn
<1> HIDE DEF m
<1>12. CASE RefuseInput(r)
  BY <1>3, <1>9, <1>12
<1>13. CASE ~RefuseInput(r)
  <2>1. ParseIntent(r) \/ PickStops(r) \/ SuggestDayCards(r) \/ SuggestRouteCard(r)
    BY <1>13 DEF AssistantStep
  <2>2. \/ \E rows : Return(r, rows)
        \/ \E status \in {400, 422, 500, 503} : Finish(r, status)
        \/ \E down : GoWith(r, "handler", m(down))
    BY <2>1, <1>4, <1>5, <1>6, <1>7
  <2> QED
    BY <1>9, <1>10, <1>11, <1>13, <2>2
<1> QED
  BY <1>12, <1>13

-----------------------------------------------------------------------------
(* The phones.                                                             *)

\* The screen alone changes.
LEMMA FollowScreens ==
    ASSUME FollowIInv, AssistIInv', NEW r \in Requests, NEW screen, Show(r, screen),
           UNCHANGED <<placesVars, itineraries>>, Shown(work[r], screen)
    PROVE  FollowIInv'
<1>1. /\ UNCHANGED <<work, at, local, answer, provider, searchRows, itineraries>>
      /\ phone' = [phone EXCEPT ![r] = screen]
  BY DEF Show, requestVars, placesVars
<1>2. DOMAIN phone = Requests
  BY DEF FollowIInv, AssistIInv
<1>3. ASSUME NEW q \in Requests
      PROVE  /\ at'[q] \in Calls => provider' = "google"
             /\ Traced(work'[q], at'[q], local'[q]) /\ Told(q)' /\ Shown(work'[q], phone'[q])
  <2>1. /\ Traced(work[q], at[q], local[q]) /\ Told(q) /\ Shown(work[q], phone[q])
        /\ at[q] \in Calls => provider = "google"
    BY DEF FollowIInv
  <2>2. Traced(work'[q], at'[q], local'[q]) /\ (at'[q] \in Calls => provider' = "google")
    BY <1>1, <2>1
  <2>3. Told(q)'
    BY <1>1, <2>1 DEF Told
  <2>4. Shown(work[q], phone'[q])
    BY <1>1, <1>2, <2>1
  <2>5. Shown(work'[q], phone'[q])
    BY <1>1, <2>4
  <2> QED
    BY <2>2, <2>3, <2>5
<1>4. ASSUME NEW it \in itineraries' PROVE Stored(it)'
  BY <1>1 DEF FollowIInv, Stored
<1>5. \A key \in DOMAIN searchRows' : IsInjective(searchRows'[key].ids)
  BY <1>1 DEF FollowIInv
<1> QED
  BY <1>3, <1>4, <1>5 DEF FollowIInv

\* Something else is asked for: no phone asks for a whole plan.
LEMMA FollowAsks ==
    ASSUME FollowIInv, AssistIInv', NEW r \in Requests, NEW asked, NEW screen,
           CallServer(r, asked, screen), UNCHANGED <<placesVars, itineraries>>,
           asked.op # "PlanDay", Planned(asked) => Different(asked.ids), Shown(asked, screen)
    PROVE  FollowIInv'
<1>1. DOMAIN phone = Requests /\ ShapeOK
  BY DEF FollowIInv, AssistIInv, PlanIInv
<1>2. /\ work'[r] = asked /\ at'[r] = "arrived" /\ phone'[r] = screen /\ local'[r] = Memory
      /\ \A q \in Requests \ {r} : /\ work'[q] = work[q] /\ at'[q] = at[q] /\ local'[q] = local[q]
                                   /\ answer'[q] = answer[q] /\ phone'[q] = phone[q]
      /\ UNCHANGED <<provider, searchRows, itineraries>>
  BY <1>1 DEF CallServer, ShapeOK, placesVars
<1>3. Traced(asked, "arrived", Memory)
  <2>1. Begun(asked, "arrived")
    BY DEF Begun
  <2>2. Memory.leg = 0
    BY DEF Memory
  <2> QED
    BY <2>1, <2>2, TracedFirst
<1>4. ASSUME NEW q \in Requests
      PROVE  /\ at'[q] \in Calls => provider' = "google"
             /\ Traced(work'[q], at'[q], local'[q]) /\ Told(q)' /\ Shown(work'[q], phone'[q])
  <2>1. CASE q = r
    <3>1. at'[r] \notin Calls
      BY <1>2, Zenon DEF Calls
    <3>2. Told(r)'
      BY <1>2 DEF Told
    <3>3. Traced(work'[r], at'[r], local'[r]) /\ Shown(work'[r], phone'[r])
      BY <1>2, <1>3
    <3> QED
      BY <2>1, <3>1, <3>2, <3>3
  <2>2. CASE q # r
    <3>1. /\ work'[q] = work[q] /\ at'[q] = at[q] /\ local'[q] = local[q]
          /\ answer'[q] = answer[q] /\ phone'[q] = phone[q]
      BY <1>2, <2>2
    <3>2. at[q] \in Calls => provider = "google"
      BY DEF FollowIInv
    <3> QED
      BY <1>2, <3>1, <3>2, Standing
  <2> QED
    BY <2>1, <2>2
<1>5. ASSUME NEW it \in itineraries' PROVE Stored(it)'
  <2>1. Stored(it) /\ it.id \in Requests
    BY <1>2 DEF FollowIInv, AssistIInv, PlanIInv, ItinerariesOK
  <2>2. CASE it.id = r
    BY <1>2, <2>2 DEF Stored
  <2>3. CASE it.id # r
    BY <1>2, <2>1, <2>3, Standing
  <2> QED
    BY <2>2, <2>3
<1>6. \A key \in DOMAIN searchRows' : IsInjective(searchRows'[key].ids)
  BY <1>2 DEF FollowIInv
<1> QED
  BY <1>4, <1>5, <1>6 DEF FollowIInv

\* The screens on which nothing of a plan is seen.
LEMMA NotShown == ASSUME NEW q, NEW s, s.step \notin {"pick", "route", "shown"} PROVE Shown(q, s)
BY DEF Shown

LEMMA FollowFails ==
    ASSUME FollowIInv, AssistIInv', NEW r \in Requests, Fail(r), UNCHANGED <<placesVars, itineraries>>
    PROVE  FollowIInv'
<1> DEFINE s == [phone[r] EXCEPT !.step = "failed"]
<1>1. "step" \in DOMAIN phone[r]
  BY DEF FollowIInv, AssistIInv, Held, Screen
<1>2. s.step = "failed" /\ Show(r, s)
  BY <1>1 DEF Fail
<1> HIDE DEF s
<1> QED
  BY <1>2, NotShown, FollowScreens

\* What a request and a screen have.
LEMMA PhoneHere ==
    ASSUME FollowIInv, NEW r \in Requests
    PROVE  /\ AskedFields \subseteq DOMAIN work[r] /\ DOMAIN phone[r] = DOMAIN Screen
           /\ Asked(work[r]) /\ Held(work[r], phone[r]) /\ Shown(work[r], phone[r]) /\ Told(r) /\ AssistIInv
BY DEF FollowIInv, AssistIInv, Held, Asked

LEMMA SucceededTold ==
    ASSUME FollowIInv, NEW r \in Requests, Succeeded(r), work[r].op # "SaveItinerary"
    PROVE  at[r] = "done" /\ answer[r].status = 200 /\ Fits(r, answer[r].rows)
<1>1. at[r] = "done" /\ answer[r].status \in 200..299 /\ Replied(r)
  BY DEF Succeeded, FollowIInv, AssistIInv
<1>2. \A status \in Errors : status \notin 200..299
  BY DEF Errors
<1> QED
  BY <1>1, <1>2 DEF Replied

LEMMA FollowIntents ==
    ASSUME FollowIInv, AssistIInv', NEW r \in Requests, StartPlan(r) \/ IntentArrives(r),
           UNCHANGED <<placesVars, itineraries>>
    PROVE  FollowIInv'
<1> DEFINE q == work[r]
           screen == phone[r]
           first == [q EXCEPT !.op = "ParseIntent"]
           search(max) == [q EXCEPT !.op = "SearchPlaces", !.max = max]
           at1(max) == [screen EXCEPT !.step = "intent", !.max = max]
           at2(max) == [screen EXCEPT !.step = "search", !.max = max]
<1>1. {"op", "max"} \subseteq DOMAIN q /\ {"step", "max"} \subseteq DOMAIN screen
  BY PhoneHere DEF AskedFields, Screen
<1>2. \/ \E max : CallServer(r, first, at1(max))
      \/ \E max, most : CallServer(r, search(most), at2(max))
      \/ Fail(r)
  BY DEF StartPlan, IntentArrives
<1>3. ASSUME NEW max, CallServer(r, first, at1(max)) PROVE FollowIInv'
  <2> DEFINE a == first
             s == at1(max)
  <2>1. a.op = "ParseIntent" /\ s.step = "intent" /\ CallServer(r, a, s)
    BY <1>1, <1>3
  <2> HIDE DEF first, at1, a, s
  <2>2. a.op # "PlanDay" /\ ~Planned(a) /\ Shown(a, s)
    BY <2>1, NotShown DEF Planned
  <2> QED
    BY <2>1, <2>2, FollowAsks
<1>4. ASSUME NEW max, NEW most, CallServer(r, search(most), at2(max)) PROVE FollowIInv'
  <2> DEFINE a == search(most)
             s == at2(max)
  <2>1. a.op = "SearchPlaces" /\ s.step = "search" /\ CallServer(r, a, s)
    BY <1>1, <1>4
  <2> HIDE DEF search, at2, a, s
  <2>2. a.op # "PlanDay" /\ ~Planned(a) /\ Shown(a, s)
    BY <2>1, NotShown DEF Planned
  <2> QED
    BY <2>1, <2>2, FollowAsks
<1> HIDE DEF first, search, at1, at2
<1> QED
  BY <1>2, <1>3, <1>4, FollowFails

LEMMA FollowPlaces ==
    ASSUME FollowIInv, AssistIInv', NEW r \in Requests, PlacesArrive(r), UNCHANGED <<placesVars, itineraries>>
    PROVE  FollowIInv'
<1> DEFINE q == work[r]
           screen == phone[r]
           places == answer[r].rows.places
           n == Len(places)
           a(max) == [q EXCEPT !.op = "PickStops", !.places = n, !.max = max]
           s == [screen EXCEPT !.step = "pick", !.places = places]
<1>1. {"op", "places", "max"} \subseteq DOMAIN q /\ {"step", "places"} \subseteq DOMAIN screen
  BY PhoneHere DEF AskedFields, Screen
<1>2. Fail(r) \/ (Succeeded(r) /\ ~(n < 2) /\ \E max : CallServer(r, a(max), s))
  BY DEF PlacesArrive
<1>3. q.op = "SearchPlaces"
  BY PhoneHere DEF Held, PlacesArrive, Returned
<1>4. ASSUME Succeeded(r), ~(n < 2), NEW max, CallServer(r, a(max), s) PROVE FollowIInv'
  <2>1. Different(places)
    BY <1>3, <1>4, PhoneHere, SucceededTold DEF Told
  <2>2. n \in Nat /\ n >= 2
    <3>1. n \in Nat
      BY <2>1, ListDomain DEF Different
    <3> HIDE DEF n
    <3> QED
      BY <1>4, <3>1
  <2> DEFINE b == a(max)
  <2>3. /\ b.op = "PickStops" /\ b.places = n /\ s.step = "pick" /\ s.places = places
        /\ CallServer(r, b, s)
    BY <1>1, <1>4
  <2> HIDE DEF b, s, places, n
  <2>4. b.op # "PlanDay" /\ ~Planned(b)
    BY <2>3 DEF Planned
  <2>5. Shown(b, s)
    BY <2>1, <2>2, <2>3 DEF Shown, n
  <2> QED
    BY <2>3, <2>4, <2>5, FollowAsks
<1> HIDE DEF a, s, n
<1> QED
  BY <1>2, <1>4, FollowFails

\* The stops that a plan goes on with are places of its list, each once.
LEMMA FollowPicks ==
    ASSUME FollowIInv, AssistIInv', NEW r \in Requests, StopsArrive(r), UNCHANGED <<placesVars, itineraries>>
    PROVE  FollowIInv'
<1> DEFINE q == work[r]
           screen == phone[r]
           places == phone[r].places
           rows == answer[r].rows
           n == Len(places)
           max == Clamp(phone[r].max, 2, n)
           chosen == Succeeded(r) /\ Len(rows) >= 2
           picked == IF chosen THEN [i \in DOMAIN rows |-> places[rows[i] + 1]] ELSE SubSeq(places, 1, max)
           stops == IF q.origin THEN ClusterNearUser(picked, max) ELSE picked
           a == [q EXCEPT !.op = "BuildRoute", !.ids = stops, !.optimize = FALSE]
           s == [screen EXCEPT !.step = "route", !.stops = stops]
<1>1. CallServer(r, a, s) /\ q.app = "plan" /\ screen.step = "pick"
  BY DEF StopsArrive, Returned
<1>2. /\ {"op", "ids", "optimize"} \subseteq DOMAIN q /\ {"step", "stops"} \subseteq DOMAIN screen
      /\ phone[r].max \in Int
  BY PhoneHere DEF AskedFields, Screen, Held
<1>3. q.op = "PickStops" /\ Different(places) /\ q.places = n /\ q.places >= 2 /\ n \in Nat /\ n >= 2
  <2>1. q.op = "PickStops" /\ Different(places) /\ q.places = n /\ q.places >= 2
    BY <1>1, PhoneHere DEF Shown
  <2>2. n \in Nat
    BY <2>1, ListDomain DEF Different
  <2> QED
    BY <2>1, <2>2
<1> HIDE DEF n
<1>4. max \in Nat /\ max >= 2 /\ max <= n
  BY <1>2, <1>3 DEF Clamp
<1> HIDE DEF max, places, rows
<1>5. Different(picked) /\ Range(picked) \subseteq Range(places) /\ Len(picked) >= 1
  <2>1. CASE chosen
    <3> DEFINE order == [i \in DOMAIN rows |-> rows[i] + 1]
               some == [i \in DOMAIN order |-> places[order[i]]]
    <3>1. IsList(rows) /\ IsInjective(rows) /\ Range(rows) \subseteq 0..(n - 1)
      BY <1>3, <2>1, SucceededTold DEF Fits, PicksBounded, rows
    <3>2. DOMAIN rows = 1..Len(rows) /\ Len(rows) \in Nat /\ \A i \in DOMAIN rows : rows[i] \in 0..(n - 1)
      BY <3>1, ListDomain DEF Range
    <3>3. \A i \in DOMAIN rows : rows[i] \in Int /\ rows[i] + 1 \in 1..n
      BY <1>3, <3>2
    <3>4. order \in Seq(1..n) /\ Len(order) = Len(rows)
      <4> DEFINE k == Len(rows)
      <4>1. order \in [1..k -> 1..n] /\ k \in Nat
        BY <3>2, <3>3
      <4> HIDE DEF order, k
      <4>2. order \in Seq(1..n)
        BY <4>1, FunctionIsList
      <4>3. DOMAIN order = 1..Len(order) /\ Len(order) \in Nat
        BY <4>2, LenProperties
      <4>4. 1..Len(order) = 1..k
        BY <4>1, <4>3
      <4>5. Len(order) = k
        <5> DEFINE m == Len(order)
        <5>1. m \in Nat /\ k \in Nat /\ 1..m = 1..k
          BY <4>1, <4>3, <4>4
        <5> HIDE DEF m
        <5>2. m = k
          BY <5>1
        <5> QED
          BY <5>2 DEF m
      <4> QED
        BY <4>2, <4>5 DEF k
    <3>5. IsInjective(order)
      <4> SUFFICES ASSUME NEW i \in DOMAIN rows, NEW j \in DOMAIN rows, order[i] = order[j] PROVE i = j
        BY DEF IsInjective
      <4>1. rows[i] + 1 = rows[j] + 1
        OBVIOUS
      <4>2. rows[i] = rows[j]
        BY <3>3, <4>1
      <4> QED
        BY <3>1, <4>2 DEF IsInjective
    <3>6. DOMAIN order = DOMAIN rows /\ \A i \in DOMAIN rows : order[i] = rows[i] + 1
      OBVIOUS
    <3>7. picked = some
      BY <2>1, <3>6
    <3> HIDE DEF order, picked
    <3>8. Different(some) /\ Range(some) \subseteq Range(places) /\ Len(some) = Len(order)
      BY <1>3, <3>4, <3>5, Selecting DEF n
    <3>9. Len(order) >= 1
      BY <2>1, <3>2, <3>4
    <3> QED
      BY <3>7, <3>8, <3>9
  <2>2. CASE ~chosen
    <3>1. picked = SubSeq(places, 1, max)
      BY <2>2
    <3>2. /\ Different(SubSeq(places, 1, max)) /\ Range(SubSeq(places, 1, max)) \subseteq Range(places)
          /\ Len(SubSeq(places, 1, max)) = max
      BY <1>3, <1>4, FirstOnes DEF n
    <3> HIDE DEF picked
    <3>3. Different(picked) /\ Range(picked) \subseteq Range(places) /\ Len(picked) = max
      BY <3>1, <3>2
    <3> QED
      BY <1>4, <3>3
  <2> QED
    BY <2>1, <2>2
<1> HIDE DEF picked, chosen
<1>6. Different(stops) /\ Range(stops) \subseteq Range(places)
  <2>1. max \in Int
    BY <1>4
  <2>2. Different(ClusterNearUser(picked, max)) /\ Range(ClusterNearUser(picked, max)) \subseteq Range(picked)
    BY <1>5, <2>1, ClusterIsDifferent
  <2> QED
    BY <1>5, <2>2
<1> HIDE DEF stops
<1>7. /\ a.op = "BuildRoute" /\ a.app = q.app /\ a.ids = stops /\ a.origin = q.origin
      /\ s.step = "route" /\ s.stops = stops /\ s.places = places
  BY <1>2 DEF places
<1> HIDE DEF a, s
<1>8. Shown(a, s)
  BY <1>1, <1>6, <1>7 DEF Shown
<1>9. a.op # "PlanDay" /\ Different(a.ids)
  BY <1>6, <1>7
<1> QED
  BY <1>1, <1>8, <1>9, FollowAsks

\* The stops are shown in the order of the route that was answered.
LEMMA FollowShows ==
    ASSUME FollowIInv, AssistIInv', NEW r \in Requests, RouteArrives(r), UNCHANGED <<placesVars, itineraries>>
    PROVE  FollowIInv'
<1> DEFINE q == work[r]
           screen == phone[r]
           stops == phone[r].stops
           route == answer[r].rows
           ordered == OrderedStops(stops, route.order)
           s == [screen EXCEPT !.step = "shown", !.route = route, !.stops = ordered]
<1>1. {"step", "stops", "route"} \subseteq DOMAIN screen
  BY PhoneHere DEF Screen
<1>2. screen.step = "route" /\ (Fail(r) \/ (Succeeded(r) /\ Show(r, s)))
  BY <1>1 DEF RouteArrives, Returned
<1>3. /\ q.op = "BuildRoute" /\ q.app = "plan" /\ q.ids = stops /\ Different(stops)
      /\ Range(stops) \subseteq Range(screen.places)
  BY <1>2, PhoneHere DEF Shown
<1>4. ASSUME Succeeded(r), Show(r, s) PROVE FollowIInv'
  <2>1. Follows(route, stops, q.origin)
    BY <1>3, <1>4, PhoneHere, SucceededTold DEF Told
  <2> HIDE DEF route, stops
  <2> DEFINE order == route.order
             some == [i \in DOMAIN order |-> stops[order[i]]]
  <2>2. /\ order \in Seq(1..Len(stops)) /\ Len(order) = Len(stops) /\ IsInjective(order)
        /\ Along(route.legs, [i \in DOMAIN stops |-> stops[order[i]]], q.origin /\ route.provider = "google")
    BY <2>1 DEF Follows, Permutation
  <2>3. DOMAIN order = DOMAIN stops
    <3>1. DOMAIN stops = 1..Len(stops)
      BY <1>3, ListDomain DEF Different
    <3>2. DOMAIN order = 1..Len(order)
      BY <2>2, LenProperties
    <3> QED
      BY <2>2, <3>1, <3>2
  <2>4. ordered = some
    BY <2>2 DEF OrderedStops
  <2> HIDE DEF order
  <2>5. Different(some) /\ Range(some) \subseteq Range(stops)
    <3>1. Different(stops) /\ order \in Seq(1..Len(stops)) /\ IsInjective(order)
      BY <1>3, <2>2
    <3> QED
      BY <3>1, Selecting
  <2>6. Along(route.legs, some, q.origin /\ route.provider = "google")
    BY <2>2, <2>3
  <2> HIDE DEF some, ordered
  <2>7. s.step = "shown" /\ s.route = route /\ s.stops = ordered /\ s.places = screen.places
    BY <1>1
  <2>8. Show(r, s)
    BY <1>4
  <2> HIDE DEF s
  <2>9. Shown(q, s)
    BY <1>3, <2>4, <2>5, <2>6, <2>7 DEF Shown, Different
  <2> QED
    BY <2>8, <2>9, FollowScreens
<1> HIDE DEF s
<1> QED
  BY <1>2, <1>4, FollowFails

LEMMA FollowRetries ==
    ASSUME FollowIInv, AssistIInv', NEW r \in Requests, RetryPlan(r), UNCHANGED <<placesVars, itineraries>>
    PROVE  FollowIInv'
<1> DEFINE s == [Screen EXCEPT !.step = "ready", !.retries = phone[r].retries + 1]
<1>1. Show(r, s) /\ s.step = "ready"
  BY DEF RetryPlan, Screen
<1> HIDE DEF s
<1> QED
  BY <1>1, NotShown, FollowScreens

\* A chat shows no plan.
LEMMA FollowAsked ==
    ASSUME FollowIInv, AssistIInv', NEW r \in Requests, NEW prompt, NEW base, NEW items, NEW retries,
           Ask(r, prompt, base, items, retries), UNCHANGED <<placesVars, itineraries>>
    PROVE  FollowIInv'
<1> DEFINE previous == IF base = 0 THEN <<>> ELSE <<items[base]>>
           a == [work[r] EXCEPT !.op = "SuggestRouteCard", !.prompt = prompt, !.base = base,
                                !.thread = items, !.previous = previous]
           s == [phone[r] EXCEPT !.step = "sent", !.items = items, !.retries = retries]
<1>1. CallServer(r, a, s)
  BY DEF Ask
<1> HIDE DEF previous
<1>2. a.op = "SuggestRouteCard"
  BY PhoneHere DEF AskedFields
<1>3. s.step = "sent"
  BY PhoneHere DEF Screen
<1> HIDE DEF a, s
<1>4. a.op # "PlanDay" /\ ~Planned(a) /\ Shown(a, s)
  BY <1>2, <1>3, NotShown DEF Planned
<1> QED
  BY <1>1, <1>4, FollowAsks

LEMMA FollowChats ==
    ASSUME FollowIInv, AssistIInv', NEW r \in Requests, Send(r) \/ CardArrives(r) \/ RetryChat(r),
           UNCHANGED <<placesVars, itineraries>>
    PROVE  FollowIInv'
<1>1. CASE Send(r) \/ RetryChat(r)
  <2>1. \E prompt, base, items, retries : Ask(r, prompt, base, items, retries)
    BY <1>1, Zenon DEF Send, RetryChat
  <2> QED
    BY <2>1, FollowAsked
<1>2. CASE CardArrives(r)
  <2> DEFINE s(items) == [phone[r] EXCEPT !.step = "ready", !.items = items]
  <2>1. {"step", "items"} \subseteq DOMAIN phone[r]
    BY PhoneHere DEF Screen
  <2>2. Fail(r) \/ \E items : Show(r, s(items))
    BY <1>2, <2>1 DEF CardArrives
  <2>3. ASSUME NEW items, Show(r, s(items)) PROVE FollowIInv'
    <3> DEFINE t == s(items)
    <3>1. t.step = "ready" /\ Show(r, t)
      BY <2>1, <2>3
    <3> HIDE DEF s, t
    <3> QED
      BY <3>1, NotShown, FollowScreens
  <2> HIDE DEF s
  <2> QED
    BY <2>2, <2>3, FollowFails
<1> QED
  BY <1>1, <1>2

LEMMA FollowPhones ==
    ASSUME FollowIInv, AssistIInv', NEW r \in Requests, PhoneStep(r), UNCHANGED <<placesVars, itineraries>>
    PROVE  FollowIInv'
BY FollowIntents, FollowPlaces, FollowPicks, FollowShows, FollowRetries, FollowChats DEF PhoneStep

-----------------------------------------------------------------------------
(* Time, the restart and the theorem.                                      *)

\* No goroutine moves, or those in flight are lost.
LEMMA FollowStands ==
    ASSUME FollowIInv, AssistIInv', UNCHANGED <<work, local, answer, phone, itineraries>>,
           \A key \in DOMAIN searchRows' : IsInjective(searchRows'[key].ids),
           \A r \in Requests : \/ at'[r] = at[r] /\ (provider' = provider \/ at[r] \notin Calls)
                               \/ at'[r] = "lost" /\ at[r] \notin {"done", "idle"}
    PROVE  FollowIInv'
<1>1. ASSUME NEW r \in Requests
      PROVE  /\ at'[r] \in Calls => provider' = "google"
             /\ Traced(work'[r], at'[r], local'[r]) /\ Told(r)' /\ Shown(work'[r], phone'[r])
  <2>1. CASE at'[r] = at[r] /\ (provider' = provider \/ at[r] \notin Calls)
    <3>1. at[r] \in Calls => provider = "google"
      BY DEF FollowIInv
    <3> QED
      BY <2>1, <3>1, Standing
  <2>2. CASE at'[r] = "lost" /\ at[r] \notin {"done", "idle"}
    <3>1. Traced(work[r], at[r], local[r]) /\ Shown(work[r], phone[r]) /\ Begun(work[r], at[r])
      BY DEF FollowIInv, Traced
    <3>2. Begun(work[r], "lost")
      BY <2>2, <3>1, Zenon DEF Begun
    <3>3. Traced(work[r], "lost", local[r])
      BY <3>2, TracedOver
    <3>4. at'[r] \notin Calls
      BY <2>2, Zenon DEF Calls
    <3>5. Told(r)'
      BY <2>2 DEF Told
    <3> QED
      BY <2>2, <3>1, <3>3, <3>4, <3>5
  <2> QED
    BY <2>1, <2>2
<1>2. ASSUME NEW it \in itineraries' PROVE Stored(it)'
  <2>1. Stored(it) /\ it.id \in Requests
    BY DEF FollowIInv, AssistIInv, PlanIInv, ItinerariesOK
  <2>2. at[it.id] = "done" => at'[it.id] = "done"
    BY <2>1
  <2> QED
    BY <2>1, <2>2 DEF Stored
<1> QED
  BY <1>1, <1>2 DEF FollowIInv

LEMMA FollowExpires == ASSUME FollowIInv, AssistIInv', Expire PROVE FollowIInv'
<1>1. UNCHANGED <<work, at, local, answer, phone, itineraries, provider>>
  BY DEF Expire, ExpirePlace, ExpireSearch, requestVars
<1>2. \A key \in DOMAIN searchRows' : IsInjective(searchRows'[key].ids)
  <2>1. \A key \in DOMAIN searchRows : IsInjective(searchRows[key].ids)
    BY DEF FollowIInv
  <2>2. CASE UNCHANGED searchRows
    BY <2>1, <2>2
  <2>3. CASE \E key \in DOMAIN searchRows : ExpireSearch(key)
    <3>1. PICK key \in DOMAIN searchRows : ExpireSearch(key)
      BY <2>3
    <3>2. /\ DOMAIN searchRows' = DOMAIN searchRows
          /\ searchRows'[key] = [searchRows[key] EXCEPT !.fresh = FALSE]
          /\ \A k \in DOMAIN searchRows : k # key => searchRows'[k] = searchRows[k]
      BY <3>1 DEF ExpireSearch
    <3>3. \A k \in DOMAIN searchRows : searchRows'[k].ids = searchRows[k].ids
      BY <3>2 DEF FollowIInv, AssistIInv, PlanIInv, TablesOK
    <3> QED
      BY <2>1, <3>2, <3>3
  <2> QED
    BY <2>2, <2>3 DEF Expire, ExpirePlace
<1> QED
  BY <1>1, <1>2, FollowStands

LEMMA FollowRestarts == ASSUME FollowIInv, AssistIInv', Restart PROVE FollowIInv'
<1>1. /\ UNCHANGED <<work, local, answer, searchRows, itineraries, phone>>
      /\ at' = [r \in Requests |-> IF at[r] \in {"idle", "arrived", "done"} THEN at[r] ELSE "lost"]
  BY DEF Restart, RestartWithKey
<1>2. ASSUME NEW r \in Requests
      PROVE  \/ at'[r] = at[r] /\ at[r] \notin Calls
             \/ at'[r] = "lost" /\ at[r] \notin {"done", "idle"}
  <2>1. CASE at[r] \in {"idle", "arrived", "done"}
    <3>1. at'[r] = at[r]
      BY <1>1, <2>1
    <3>2. at[r] \notin Calls
      BY <2>1, Zenon DEF Calls
    <3> QED
      BY <3>1, <3>2
  <2>2. CASE at[r] \notin {"idle", "arrived", "done"}
    BY <1>1, <2>2
  <2> QED
    BY <2>1, <2>2
<1>3. \A key \in DOMAIN searchRows' : IsInjective(searchRows'[key].ids)
  BY <1>1 DEF FollowIInv
<1> QED
  BY <1>1, <1>2, <1>3, FollowStands

LEMMA FollowInitOK == PlanningInit => FollowIInv
<1> SUFFICES ASSUME PlanningInit PROVE FollowIInv
  OBVIOUS
<1>1. searchRows = <<>> /\ itineraries = {}
  BY DEF PlanningInit
<1>2. ASSUME NEW r \in Requests
      PROVE  /\ at[r] \in Calls => provider = "google"
             /\ Traced(work[r], at[r], local[r]) /\ Told(r) /\ Shown(work[r], phone[r])
  <2>1. /\ at[r] = (IF work[r].app = "none" THEN "arrived" ELSE "idle") /\ local[r] = Memory
        /\ \E step \in {"none", "ready"} : phone[r] = [Screen EXCEPT !.step = step]
    BY DEF PlanningInit
  <2>2. work[r].op = "PlanDay" => ~work[r].origin
    BY AskedAssumption DEF PlanningInit
  <2>3. Begun(work[r], at[r])
    BY <2>1, <2>2 DEF Begun, Planned
  <2>4. Memory.leg = 0
    BY DEF Memory
  <2>5. Traced(work[r], at[r], local[r])
    <3>1. CASE at[r] = "arrived"
      <4>1. Traced(work[r], "arrived", Memory)
        BY <2>3, <2>4, <3>1, TracedFirst
      <4> QED
        BY <2>1, <3>1, <4>1
    <3>2. CASE at[r] = "idle"
      BY <2>3, <3>2, TracedOver
    <3> QED
      BY <2>1, <3>1, <3>2
  <2>6. at[r] \notin Calls /\ at[r] # "done"
    BY <2>1, Zenon DEF Calls
  <2>7. Told(r)
    BY <2>6 DEF Told
  <2>8. Shown(work[r], phone[r])
    <3>1. phone[r].step \in {"none", "ready"}
      BY <2>1 DEF Screen
    <3>2. phone[r].step \notin {"pick", "route", "shown"}
      BY <3>1
    <3> QED
      BY <3>2, NotShown
  <2> QED
    BY <2>5, <2>6, <2>7, <2>8
<1>3. DOMAIN searchRows = {}
  BY <1>1, EmptySeq
<1> QED
  BY <1>1, <1>2, <1>3, AssistInitOK DEF FollowIInv

LEMMA FollowStep == FollowIInv /\ [PlanningNext]_vars => FollowIInv'
<1> SUFFICES ASSUME FollowIInv, [PlanningNext]_vars PROVE FollowIInv'
  OBVIOUS
<1>1. AssistIInv'
  BY AssistStep DEF FollowIInv
<1>2. ASSUME NEW r \in Requests, Serve(r) PROVE FollowIInv'
  BY <1>1, <1>2, FollowTrips, FollowAssistant, FollowPhones DEF Serve
<1>3. CASE UNCHANGED vars
  <2>1. UNCHANGED <<work, at, local, answer, phone, itineraries, provider, searchRows>>
    BY <1>3 DEF vars, requestVars, placesVars
  <2>2. \A key \in DOMAIN searchRows' : IsInjective(searchRows'[key].ids)
    BY <2>1 DEF FollowIInv
  <2> QED
    BY <1>1, <2>1, <2>2, FollowStands
<1> QED
  BY <1>1, <1>2, <1>3, FollowExpires, FollowRestarts DEF PlanningNext

LEMMA FollowKept == ASSUME FollowIInv PROVE PlansFollowTheirRoute
<1>1. ASSUME NEW it \in itineraries, work[it.id].op = "PlanDay"
      PROVE  /\ \A i \in DOMAIN it.stops : it.stops[i].order = i
             /\ Along(local[it.id].route.legs, Ids(it.stops), FALSE)
             /\ answer[it.id].rows = local[it.id].route
  BY <1>1 DEF FollowIInv, Stored
<1>2. ASSUME NEW r \in Requests, phone[r].step = "shown"
      PROVE  /\ Range(phone[r].stops) \subseteq Range(phone[r].places)
             /\ IsInjective(phone[r].stops)
             /\ Along(phone[r].route.legs, phone[r].stops,
                      work[r].origin /\ phone[r].route.provider = "google")
  <2>1. Shown(work[r], phone[r])
    BY DEF FollowIInv
  <2> QED
    BY <1>2, <2>1, Zenon DEF Shown
<1> QED
  BY <1>1, <1>2 DEF PlansFollowTheirRoute

\* The invariant that the next theorem follows from: at every point of a plan
\* its goroutine has resolved the places in the order asked for, and has legs
\* that run along what it has resolved.
THEOREM RoutesAreInductive == PlanningSpec => []FollowIInv
BY FollowInitOK, FollowStep, PTL DEF PlanningSpec

\* The stops of a stored plan are numbered in the order in which the answered
\* route visits them, and those a phone shows are places of its list, each
\* once, in the order of the legs below them: through the reordering by the
\* provider, by the server and by the phone (service.go:158,
\* google_routes.go:465 and :368, planner_view_model.dart:211).
THEOREM PlansKeepToTheirRoute == PlanningSpec => []PlansFollowTheirRoute
BY RoutesAreInductive, FollowKept, PTL
=============================================================================
