-------------------------- MODULE RouteTableProofs --------------------------
(* Theorems about RouteTable for any patterns, URLs and commands.           *)
EXTENDS RouteTable, SequenceTheorems, WellFoundedInduction, TLAPS

-----------------------------------------------------------------------------
(* Numbers and sequences.                                                   *)

LEMMA LeastElement ==
  ASSUME NEW T \in SUBSET Nat, T # {}
  PROVE  \E x \in T : \A y \in T : x <= y
<1>1. PICK x \in T : \A y \in T : <<y, x>> \notin OpToRel(<, Nat)
  BY WFMin, NatLessThanWellFounded, Zenon
<1>2. \A y \in T : ~(y < x)
  BY <1>1, Zenon DEF OpToRel
<1> QED BY <1>2

LEMMA MinOfNaturals ==
  ASSUME NEW T \in SUBSET Nat, T # {}
  PROVE  Min(T) \in T /\ \A y \in T : Min(T) <= y
BY LeastElement DEF Min

LEMMA InsertAtProperties ==
  ASSUME NEW S, NEW s \in Seq(S), NEW k \in 1..Len(s), NEW e \in S
  PROVE  /\ InsertAt(s, k, e) \in Seq(S)
         /\ Len(InsertAt(s, k, e)) = Len(s) + 1
         /\ \A i \in 1..(k - 1) : InsertAt(s, k, e)[i] = s[i]
         /\ InsertAt(s, k, e)[k] = e
         /\ \A i \in (k + 1)..(Len(s) + 1) : InsertAt(s, k, e)[i] = s[i - 1]
<1> DEFINE front == SubSeq(s, 1, k - 1)
           back  == SubSeq(s, k, Len(s))
<1>1. /\ front \in Seq(S) /\ Len(front) = k - 1
      /\ \A i \in 1..(k - 1) : front[i] = s[i]
  BY SubSeqProperties
<1>2. /\ back \in Seq(S) /\ Len(back) = Len(s) - k + 1
      /\ \A i \in 1..(Len(s) - k + 1) : back[i] = s[k + i - 1]
  BY SubSeqProperties
<1>3. /\ front \o <<e>> \in Seq(S) /\ Len(front \o <<e>>) = k
      /\ \A i \in 1..k : (front \o <<e>>)[i] = IF i < k THEN s[i] ELSE e
  BY <1>1, ConcatProperties
<1> HIDE DEF front, back
<1> DEFINE start == front \o <<e>>
<1>4. start \in Seq(S) /\ Len(start) = k
  BY <1>3
<1>5. \A i \in 1..k : start[i] = IF i < k THEN s[i] ELSE e
  BY <1>3
<1>6. InsertAt(s, k, e) = start \o back
  BY DEF InsertAt, start, front, back
<1> HIDE DEF start
<1>7. /\ start \o back \in Seq(S)
      /\ Len(start \o back) = Len(start) + Len(back)
      /\ \A i \in 1..(Len(start) + Len(back)) :
           (start \o back)[i] = IF i <= Len(start) THEN start[i] ELSE back[i - Len(start)]
  BY <1>2, <1>4, ConcatProperties
<1>8. Len(s) \in Nat /\ k \in Nat /\ Len(start) + Len(back) = Len(s) + 1
  BY <1>2, <1>4
<1>9. ASSUME NEW i \in 1..(Len(s) + 1)
      PROVE  (start \o back)[i] = IF i < k THEN s[i] ELSE IF i = k THEN e ELSE s[i - 1]
  <2>1. CASE i <= k
    BY <1>4, <1>5, <1>7, <1>8, <2>1
  <2>2. CASE i > k
    <3>1. (start \o back)[i] = back[i - k] /\ i - k \in 1..(Len(s) - k + 1)
      BY <1>4, <1>7, <1>8, <2>2
    <3>2. back[i - k] = s[i - 1]
      BY <1>2, <1>8, <3>1
    <3> QED BY <1>8, <2>2, <3>1, <3>2
  <2> QED BY <1>8, <2>1, <2>2
<1> QED BY <1>6, <1>7, <1>8, <1>9

LEMMA RemoveAtProperties ==
  ASSUME NEW S, NEW s \in Seq(S), NEW k \in 1..Len(s)
  PROVE  /\ RemoveAt(s, k) \in Seq(S)
         /\ Len(RemoveAt(s, k)) = Len(s) - 1
         /\ \A i \in 1..(Len(s) - 1) : RemoveAt(s, k)[i] = IF i < k THEN s[i] ELSE s[i + 1]
<1> DEFINE front == SubSeq(s, 1, k - 1)
           back  == SubSeq(s, k + 1, Len(s))
<1>1. /\ front \in Seq(S) /\ Len(front) = k - 1
      /\ \A i \in 1..(k - 1) : front[i] = s[i]
  BY SubSeqProperties
<1>2. /\ back \in Seq(S) /\ Len(back) = Len(s) - k
      /\ \A i \in 1..(Len(s) - k) : back[i] = s[k + i]
  BY SubSeqProperties
<1> HIDE DEF front, back
<1>3. /\ front \o back \in Seq(S)
      /\ Len(front \o back) = Len(front) + Len(back)
      /\ \A i \in 1..(Len(front) + Len(back)) :
           (front \o back)[i] = IF i <= Len(front) THEN front[i] ELSE back[i - Len(front)]
  BY <1>1, <1>2, ConcatProperties
<1>4. RemoveAt(s, k) = front \o back
  BY DEF RemoveAt, front, back
<1>5. Len(s) \in Nat /\ k \in Nat /\ Len(front) + Len(back) = Len(s) - 1
  BY <1>1, <1>2
<1>6. ASSUME NEW i \in 1..(Len(s) - 1)
      PROVE  (front \o back)[i] = IF i < k THEN s[i] ELSE s[i + 1]
  <2>1. CASE i < k
    BY <1>1, <1>3, <1>5, <2>1
  <2>2. CASE i >= k
    <3>1. (front \o back)[i] = back[i - k + 1] /\ i - k + 1 \in 1..(Len(s) - k)
      BY <1>1, <1>3, <1>5, <2>2
    <3>2. back[i - k + 1] = s[i + 1]
      BY <1>2, <1>5, <3>1
    <3> QED BY <1>5, <2>2, <3>1, <3>2
  <2> QED BY <1>5, <2>1, <2>2
<1> QED BY <1>3, <1>4, <1>5, <1>6

-----------------------------------------------------------------------------
(* CompareBestMatch.                                                        *)

PatternSeqs == Seq(Segments \cup {Star})

LEMMA FirstDifference ==
  ASSUME NEW p \in PatternSeqs, NEW q \in PatternSeqs, Len(p) = Len(q), p # q
  PROVE  \E i \in DOMAIN p : p[i] # q[i] /\ \A j \in 1..(i - 1) : p[j] = q[j]
<1> DEFINE T == {i \in 1..Len(p) : p[i] # q[i]}
<1>1. T # {} /\ T \in SUBSET Nat
  BY SeqEqual DEF PatternSeqs
<1>2. PICK i \in T : \A j \in T : i <= j
  BY <1>1, LeastElement
<1>3. \A j \in 1..(i - 1) : p[j] = q[j]
  BY <1>2 DEF PatternSeqs
<1> QED BY <1>2, <1>3 DEF PatternSeqs

(* A better match than a better match is a better match.                    *)
LEMMA BetterIsTransitive ==
  ASSUME NEW p \in PatternSeqs, NEW q \in PatternSeqs, NEW r \in PatternSeqs,
         CompareBestMatch(p, q), CompareBestMatch(q, r)
  PROVE  CompareBestMatch(p, r)
<1>1. PICK i \in DOMAIN p : /\ \A j \in 1..(i - 1) : p[j] = q[j]
                            /\ p[i] # q[i] /\ p[i] # Star /\ q[i] = Star
  BY DEF CompareBestMatch
<1>2. PICK k \in DOMAIN q : /\ \A j \in 1..(k - 1) : q[j] = r[j]
                            /\ q[k] # r[k] /\ q[k] # Star /\ r[k] = Star
  BY DEF CompareBestMatch
<1>3. /\ Len(p) = Len(q) /\ Len(q) = Len(r)
      /\ DOMAIN p = 1..Len(p) /\ DOMAIN q = 1..Len(p) /\ Len(p) \in Nat
  BY DEF CompareBestMatch, PatternSeqs
<1>4. CASE i < k
  BY <1>1, <1>2, <1>3, <1>4 DEF CompareBestMatch
<1>5. CASE k < i
  BY <1>1, <1>2, <1>3, <1>5 DEF CompareBestMatch
<1> QED BY <1>1, <1>2, <1>3, <1>4, <1>5

LEMMA BetterIsAsymmetric ==
  ASSUME NEW p \in PatternSeqs, NEW q \in PatternSeqs, CompareBestMatch(p, q)
  PROVE  p # q /\ ~ CompareBestMatch(q, p)
<1>1. \A r : ~ CompareBestMatch(r, r)
  BY DEF CompareBestMatch
<1> QED BY <1>1, BetterIsTransitive

(* Of two patterns that match the same URL, one is the better match.        *)
LEMMA MatchesAreComparable ==
  ASSUME NEW p \in PatternSeqs, NEW q \in PatternSeqs, p # q,
         NEW url, Matches(url, p), Matches(url, q)
  PROVE  CompareBestMatch(p, q) \/ CompareBestMatch(q, p)
<1>0. Len(p) = Len(q)
  BY Zenon DEF Matches
<1>1. Len(p) = Len(q) /\ DOMAIN p = DOMAIN q
  BY <1>0 DEF PatternSeqs
<1>2. PICK i \in DOMAIN p : p[i] # q[i] /\ \A j \in 1..(i - 1) : p[j] = q[j]
  BY <1>1, FirstDifference
<1>3. p[i] = Star \/ q[i] = Star
  BY <1>1, <1>2 DEF Matches
<1> QED BY <1>1, <1>2, <1>3 DEF CompareBestMatch

-----------------------------------------------------------------------------
(* A registered pattern is a sequence.                                      *)
LEMMA RoutePatterns ==
  ASSUME TypeOK, NEW k \in DOMAIN routes
  PROVE  /\ routes[k] \in Routes
         /\ routes[k].pattern \in Registrable
         /\ routes[k].pattern \in PatternSeqs
<1>1. routes \in Seq(Routes) /\ k \in 1..Len(routes)
  BY DEF TypeOK
<1>2. routes[k] \in Routes
  BY <1>1, ElementOfSeq
<1>3. routes[k].pattern \in Registrable
  BY <1>2 DEF Routes
<1>4. Registrable \subseteq PatternSeqs
  BY PathsAreSequences, RegistrableArePatterns DEF PatternSeqs
<1> QED BY <1>2, <1>3, <1>4

LEMMA NewRouteType ==
  ASSUME NEW p \in Registrable, NEW c \in Creators
  PROVE  [pattern |-> p, creator |-> c] \in Routes
BY DEF Routes

(* TypeOK: the vector holds registrable patterns only, with a creator each. *)
LEMMA TypeStep == TypeOK /\ [Next]_routes => TypeOK'
<1> SUFFICES ASSUME TypeOK, [Next]_routes PROVE TypeOK'
  OBVIOUS
<1> USE DEF TypeOK
<1>1. ASSUME NEW p \in Patterns, NEW c \in Creators, AddRoute(p, c) PROVE TypeOK'
  <2> DEFINE new == [pattern |-> p, creator |-> c]
  <2>1. CASE UNCHANGED routes
    BY <2>1
  <2>2. ASSUME NEW k \in DOMAIN routes, p \in Registrable,
               routes' = ReplaceAt(routes, k, new) \/ routes' = InsertAt(routes, k, new)
        PROVE  TypeOK'
    <3>1. new \in Routes /\ k \in 1..Len(routes)
      BY <2>2, NewRouteType
    <3> HIDE DEF new
    <3>2. InsertAt(routes, k, new) \in Seq(Routes)
      BY <3>1, InsertAtProperties
    <3>3. ReplaceAt(routes, k, new) \in Seq(Routes)
      BY <3>1, ExceptSeq DEF ReplaceAt
    <3> QED BY <2>2, <3>2, <3>3
  <2>3. CASE p \in Registrable /\ routes' = Append(routes, new)
    BY <2>3, NewRouteType
  <2> QED BY <1>1, <2>1, <2>2, <2>3 DEF AddRoute
<1>2. ASSUME NEW p \in Patterns, RemoveRoute(p) PROVE TypeOK'
  <2>1. ASSUME NEW k \in DOMAIN routes, routes' = RemoveAt(routes, k) PROVE TypeOK'
    <3>1. k \in 1..Len(routes)
      OBVIOUS
    <3> QED BY <2>1, <3>1, RemoveAtProperties
  <2> QED BY <1>2, <2>1 DEF RemoveRoute
<1>3. CASE ClearRoutes
  BY <1>3 DEF ClearRoutes
<1>4. CASE UNCHANGED routes
  BY <1>4
<1> QED BY <1>1, <1>2, <1>3, <1>4 DEF Next

THEOREM TypeCorrect == Spec => []TypeOK
<1>1. Init => TypeOK
  BY DEF Init, TypeOK
<1> QED BY <1>1, TypeStep, PTL DEF Spec

LEMMA InsertedRoutes ==
  ASSUME TypeOK, NEW k \in 1..Len(routes), NEW new \in Routes, routes' = InsertAt(routes, k, new)
  PROVE  /\ DOMAIN routes = 1..Len(routes) /\ Len(routes) \in Nat
         /\ DOMAIN routes' = 1..(Len(routes) + 1)
         /\ \A i \in 1..(Len(routes) + 1) :
              routes'[i] = IF i < k THEN routes[i] ELSE IF i = k THEN new ELSE routes[i - 1]
<1>1. routes \in Seq(Routes)
  BY DEF TypeOK
<1>2. /\ routes' \in Seq(Routes)
      /\ Len(routes') = Len(routes) + 1
      /\ \A i \in 1..(k - 1) : routes'[i] = routes[i]
      /\ routes'[k] = new
      /\ \A i \in (k + 1)..(Len(routes) + 1) : routes'[i] = routes[i - 1]
  BY <1>1, InsertAtProperties
<1> QED BY <1>1, <1>2

-----------------------------------------------------------------------------
(* AddRoute keeps the order: nothing before the place it stops at is equal  *)
(* to or worse than p; what comes after is not better than p, for it would  *)
(* be better than the route p is put in front of, and not equal to p, for   *)
(* p would be.                                                              *)
LEMMA InsertKeepsOrder ==
  ASSUME TypeOK, WellOrdered, NEW p \in Registrable, NEW c \in Creators,
         NEW k \in DOMAIN routes, StopsAt(p, k), routes[k].pattern # p,
         routes' = InsertAt(routes, k, [pattern |-> p, creator |-> c])
  PROVE  WellOrdered'
<1> DEFINE new == [pattern |-> p, creator |-> c]
<1>1. new \in Routes /\ k \in 1..Len(routes) /\ new.pattern = p /\ p \in PatternSeqs
  BY NewRouteType, PathsAreSequences, RegistrableArePatterns DEF TypeOK, PatternSeqs
<1> HIDE DEF new
<1>2. /\ DOMAIN routes = 1..Len(routes) /\ Len(routes) \in Nat
      /\ DOMAIN routes' = 1..(Len(routes) + 1)
      /\ \A i \in 1..(Len(routes) + 1) :
           routes'[i] = IF i < k THEN routes[i] ELSE IF i = k THEN new ELSE routes[i - 1]
  <2>1. routes' = InsertAt(routes, k, new)
    BY DEF new
  <2> QED BY <1>1, <2>1, InsertedRoutes, Zenon
<1>3. ASSUME NEW j \in 1..Len(routes), k <= j
      PROVE  routes[j].pattern # p /\ ~ CompareBestMatch(routes[j].pattern, p)
  <2>1. CompareBestMatch(p, routes[k].pattern)
    BY DEF StopsAt
  <2>2. CASE j = k
    BY <1>1, <2>1, <2>2, BetterIsAsymmetric, RoutePatterns
  <2>3. CASE k < j
    <3>1. ~ CompareBestMatch(routes[j].pattern, routes[k].pattern)
      BY <1>1, <1>2, <2>3 DEF WellOrdered
    <3> QED BY <1>1, <1>2, <2>1, <3>1, BetterIsTransitive, RoutePatterns
  <2> QED BY <1>1, <1>3, <2>2, <2>3
<1>4. ASSUME NEW i \in 1..(Len(routes) + 1), NEW j \in 1..(Len(routes) + 1), i < j
      PROVE  /\ routes'[i].pattern # routes'[j].pattern
             /\ ~ CompareBestMatch(routes'[j].pattern, routes'[i].pattern)
  <2>1. CASE j < k
    BY <1>1, <1>2, <1>4, <2>1 DEF WellOrdered
  <2>2. CASE j = k
    BY <1>1, <1>2, <1>4, <2>2 DEF StopsAt
  <2>3. CASE i < k /\ k < j
    <3>1. routes'[i] = routes[i] /\ routes'[j] = routes[j - 1]
      BY <1>1, <1>2, <1>4, <2>3
    <3>2. i \in DOMAIN routes /\ j - 1 \in DOMAIN routes /\ i < j - 1
      BY <1>1, <1>2, <1>4, <2>3
    <3> QED BY <3>1, <3>2 DEF WellOrdered
  <2>4. CASE i = k
    <3>1. routes'[i] = new /\ routes'[j] = routes[j - 1] /\ j - 1 \in 1..Len(routes) /\ k <= j - 1
      BY <1>1, <1>2, <1>4, <2>4
    <3> QED BY <1>1, <1>3, <3>1
  <2>5. CASE k < i
    <3>1. /\ routes'[i] = routes[i - 1] /\ i - 1 \in 1..Len(routes)
          /\ routes'[j] = routes[j - 1] /\ j - 1 \in 1..Len(routes) /\ i - 1 < j - 1
      BY <1>1, <1>2, <1>4, <2>5
    <3> QED BY <1>2, <3>1 DEF WellOrdered
  <2> QED BY <1>1, <1>4, <2>1, <2>2, <2>3, <2>4, <2>5
<1> QED BY <1>2, <1>4 DEF WellOrdered

LEMMA OrderStep == TypeOK /\ WellOrdered /\ [Next]_routes => WellOrdered'
<1> SUFFICES ASSUME TypeOK, WellOrdered, [Next]_routes PROVE WellOrdered'
  OBVIOUS
<1>0. DOMAIN routes = 1..Len(routes) /\ Len(routes) \in Nat
  BY DEF TypeOK
<1>1. ASSUME NEW p \in Patterns, NEW c \in Creators, AddRoute(p, c) PROVE WellOrdered'
  <2> DEFINE new == [pattern |-> p, creator |-> c]
  <2>1. CASE UNCHANGED routes
    BY <2>1 DEF WellOrdered
  <2>2. ASSUME NEW k \in DOMAIN routes, p \in Registrable, routes[k].pattern = p,
               routes' = ReplaceAt(routes, k, new)
        PROVE  WellOrdered'
    <3>1. new \in Routes /\ new.pattern = p /\ k \in 1..Len(routes)
      BY <1>0, <2>2, NewRouteType
    <3> HIDE DEF new
    <3>2. /\ DOMAIN routes' = DOMAIN routes
          /\ \A j \in DOMAIN routes : routes'[j] = IF j = k THEN new ELSE routes[j]
      BY <2>2, <3>1 DEF ReplaceAt, TypeOK
    <3>3. \A j \in DOMAIN routes : routes'[j].pattern = routes[j].pattern
      BY <2>2, <3>1, <3>2
    <3> QED BY <3>2, <3>3 DEF WellOrdered
  <2>3. ASSUME NEW k \in DOMAIN routes, p \in Registrable, StopsAt(p, k),
               routes[k].pattern # p, routes' = InsertAt(routes, k, new)
        PROVE  WellOrdered'
    BY <2>3, InsertKeepsOrder
  <2>4. ASSUME p \in Registrable, \A k \in DOMAIN routes : ~ StopsAt(p, k),
               routes' = Append(routes, new)
        PROVE  WellOrdered'
    <3>1. \A k \in DOMAIN routes : routes[k].pattern # p /\ ~ CompareBestMatch(p, routes[k].pattern)
      <4> DEFINE T == {k \in DOMAIN routes : \/ routes[k].pattern = p
                                             \/ CompareBestMatch(p, routes[k].pattern)}
      <4>1. ASSUME T # {} PROVE FALSE
        <5>1. T \in SUBSET Nat
          BY <1>0
        <5> HIDE DEF T
        <5>2. PICK k \in T : \A j \in T : k <= j
          BY <4>1, <5>1, LeastElement
        <5>3. StopsAt(p, k)
          BY <1>0, <5>2 DEF StopsAt, T
        <5> QED BY <2>4, <5>2, <5>3 DEF T
      <4> QED BY <4>1
    <3>2. new \in Routes /\ new.pattern = p
      BY <2>4, NewRouteType
    <3> HIDE DEF new
    <3>3. /\ DOMAIN routes' = 1..(Len(routes) + 1)
          /\ \A i \in 1..(Len(routes) + 1) :
               routes'[i] = IF i <= Len(routes) THEN routes[i] ELSE new
      BY <2>4, <3>2 DEF TypeOK
    <3> QED BY <1>0, <3>1, <3>2, <3>3 DEF WellOrdered
  <2> QED BY <1>1, <2>1, <2>2, <2>3, <2>4 DEF AddRoute
<1>2. ASSUME NEW p \in Patterns, RemoveRoute(p) PROVE WellOrdered'
  <2>1. ASSUME NEW k \in DOMAIN routes, routes' = RemoveAt(routes, k) PROVE WellOrdered'
    <3>1. /\ DOMAIN routes' = 1..(Len(routes) - 1)
          /\ \A i \in 1..(Len(routes) - 1) :
               routes'[i] = IF i < k THEN routes[i] ELSE routes[i + 1]
      <4>1. k \in 1..Len(routes) /\ routes \in Seq(Routes)
        BY <1>0, <2>1 DEF TypeOK
      <4>2. /\ RemoveAt(routes, k) \in Seq(Routes)
            /\ Len(RemoveAt(routes, k)) = Len(routes) - 1
            /\ \A i \in 1..(Len(routes) - 1) :
                 RemoveAt(routes, k)[i] = IF i < k THEN routes[i] ELSE routes[i + 1]
        BY <4>1, RemoveAtProperties
      <4> QED BY <2>1, <4>2
    <3> DEFINE was(i) == IF i < k THEN i ELSE i + 1
    <3>2. ASSUME NEW i \in DOMAIN routes', NEW j \in DOMAIN routes', i < j
          PROVE  /\ was(i) \in DOMAIN routes /\ was(j) \in DOMAIN routes /\ was(i) < was(j)
                 /\ routes'[i] = routes[was(i)] /\ routes'[j] = routes[was(j)]
      BY <1>0, <2>1, <3>1, <3>2
    <3> HIDE DEF was
    <3> QED BY <3>2 DEF WellOrdered
  <2>2. CASE UNCHANGED routes
    BY <2>2 DEF WellOrdered
  <2> QED BY <1>2, <2>1, <2>2 DEF RemoveRoute
<1>3. CASE ClearRoutes
  BY <1>3 DEF ClearRoutes, WellOrdered
<1>4. CASE UNCHANGED routes
  BY <1>4 DEF WellOrdered
<1> QED BY <1>1, <1>2, <1>3, <1>4 DEF Next

(* WellOrdered: no pattern is registered twice, and no route hides one that *)
(* is a better match, whatever the order of AddRoute, Remove and Clear.     *)
THEOREM TableIsWellOrdered == Spec => []WellOrdered
<1>1. Init => WellOrdered
  BY DEF Init, WellOrdered
<1> QED BY <1>1, TypeCorrect, OrderStep, PTL DEF Spec

(* BestMatchAnswers: GetRouteForURL answers with the one route that is a    *)
(* better match than every other route matching the URL.                    *)
THEOREM LookupFindsBestMatch == Spec => []BestMatchAnswers
<1>1. TypeOK /\ WellOrdered => BestMatchAnswers
  <2> SUFFICES ASSUME TypeOK, WellOrdered, NEW url \in Urls, Hits(url) # {}
               PROVE  \E i \in Hits(url) :
                        /\ GetRouteForURL(url) = routes[i].creator
                        /\ \A j \in Hits(url) \ {i} :
                             CompareBestMatch(routes[i].pattern, routes[j].pattern)
    BY DEF BestMatchAnswers
  <2>1. Hits(url) \in SUBSET DOMAIN routes /\ DOMAIN routes = 1..Len(routes) /\ Len(routes) \in Nat
    BY DEF Hits, TypeOK
  <2> DEFINE i == Min(Hits(url))
  <2>2. i \in Hits(url) /\ \A j \in Hits(url) : i <= j
    BY <2>1, MinOfNaturals
  <2>3. GetRouteForURL(url) = routes[i].creator
    BY DEF GetRouteForURL
  <2> HIDE DEF i
  <2>4. ASSUME NEW j \in Hits(url) \ {i}
        PROVE  CompareBestMatch(routes[i].pattern, routes[j].pattern)
    <3>1. i < j /\ i \in DOMAIN routes /\ j \in DOMAIN routes
      BY <2>1, <2>2
    <3>2. /\ routes[i].pattern # routes[j].pattern
          /\ ~ CompareBestMatch(routes[j].pattern, routes[i].pattern)
      BY <3>1 DEF WellOrdered
    <3>3. Matches(url, routes[i].pattern) /\ Matches(url, routes[j].pattern)
      BY <2>2 DEF Hits
    <3> QED BY <3>1, <3>2, <3>3, RoutePatterns, MatchesAreComparable
  <2> QED BY <2>2, <2>3, <2>4
<1> QED BY <1>1, TypeCorrect, TableIsWellOrdered, PTL

-----------------------------------------------------------------------------
(* The vector as a map.  A pattern stands in it once, so the route CHOOSE   *)
(* picks for it is the one that has it.                                     *)
LEMMA TheRoute ==
  ASSUME NEW rs, NEW k \in DOMAIN rs, NEW p, rs[k].pattern = p,
         \A i, j \in DOMAIN rs : rs[i].pattern = rs[j].pattern => i = j
  PROVE  rs[CHOOSE j \in DOMAIN rs : rs[j].pattern = p].creator = rs[k].creator
OBVIOUS

LEMMA NoneTwice ==
  ASSUME NEW rs \in Seq(Routes),
         \A i, j \in DOMAIN rs : i < j => rs[i].pattern # rs[j].pattern
  PROVE  \A i, j \in DOMAIN rs : rs[i].pattern = rs[j].pattern => i = j
<1>1. DOMAIN rs = 1..Len(rs) /\ Len(rs) \in Nat
  OBVIOUS
<1> QED BY <1>1

LEMMA Entries ==
  ASSUME TypeOK, WellOrdered, NEW k \in DOMAIN routes, NEW p, routes[k].pattern = p
  PROVE  HasRoute(p) /\ RegisteredAs(p) = routes[k].creator
<1>1. \A i, j \in DOMAIN routes : routes[i].pattern = routes[j].pattern => i = j
  BY NoneTwice DEF TypeOK, WellOrdered
<1>2. routes[CHOOSE j \in DOMAIN routes : routes[j].pattern = p].creator = routes[k].creator
  BY <1>1, TheRoute, Zenon
<1> QED BY <1>2 DEF HasRoute, RegisteredAs

LEMMA EntriesAfter ==
  ASSUME TypeOK', WellOrdered', NEW k \in DOMAIN routes', NEW p, routes'[k].pattern = p
  PROVE  HasRoute(p)' /\ RegisteredAs(p)' = routes'[k].creator
<1>1. \A i, j \in DOMAIN routes' : routes'[i].pattern = routes'[j].pattern => i = j
  BY NoneTwice DEF TypeOK, WellOrdered
<1>2. routes'[CHOOSE j \in DOMAIN routes' : routes'[j].pattern = p].creator = routes'[k].creator
  BY <1>1, TheRoute, Zenon
<1> QED BY <1>2 DEF HasRoute, RegisteredAs

(* When the routes of the patterns other than p are the same, so is the map *)
(* on them, wherever the routes stand in the vector.                        *)
SameBut(p) ==
  /\ \A k \in DOMAIN routes' : routes'[k].pattern # p =>
       \E j \in DOMAIN routes : routes[j] = routes'[k]
  /\ \A j \in DOMAIN routes : routes[j].pattern # p =>
       \E k \in DOMAIN routes' : routes'[k] = routes[j]

LEMMA SameElsewhere ==
  ASSUME TypeOK, WellOrdered, TypeOK', WellOrdered',
         NEW p, SameBut(p), NEW q \in Registrable \ {p}
  PROVE  /\ HasRoute(q)' <=> HasRoute(q)
         /\ HasRoute(q) => RegisteredAs(q)' = RegisteredAs(q)
<1>1. ASSUME HasRoute(q)' PROVE HasRoute(q)
  BY <1>1 DEF HasRoute, SameBut
<1>2. ASSUME HasRoute(q) PROVE HasRoute(q)' /\ RegisteredAs(q)' = RegisteredAs(q)
  <2>1. PICK j \in DOMAIN routes : routes[j].pattern = q
    BY <1>2 DEF HasRoute
  <2>2. PICK k \in DOMAIN routes' : routes'[k] = routes[j]
    BY <2>1 DEF SameBut
  <2>3. RegisteredAs(q) = routes[j].creator
    BY <2>1, Entries
  <2>4. HasRoute(q)' /\ RegisteredAs(q)' = routes'[k].creator
    BY <2>1, <2>2, EntriesAfter
  <2> QED BY <2>2, <2>3, <2>4
<1> QED BY <1>1, <1>2

(* AddRoute of a new creator for p.                                         *)
LEMMA Added ==
  ASSUME TypeOK, WellOrdered, TypeOK', WellOrdered', NEW p \in Registrable, NEW c, SameBut(p),
         NEW k \in DOMAIN routes', routes'[k] = [pattern |-> p, creator |-> c]
  PROVE  Map!Add(p, c)
<1>1. HasRoute(p)' /\ RegisteredAs(p)' = c
  BY EntriesAfter
<1>2. \A q \in Registrable \ {p} :
        /\ HasRoute(q)' <=> HasRoute(q)
        /\ HasRoute(q) => RegisteredAs(q)' = RegisteredAs(q)
  BY SameElsewhere
<1> QED BY <1>1, <1>2 DEF Map!Add, Table

LEMMA AddIsAdd ==
  ASSUME TypeOK, WellOrdered, TypeOK', WellOrdered',
         NEW p \in Registrable, NEW c \in Creators, AddRoute(p, c)
  PROVE  Map!Add(p, c)
<1> DEFINE new == [pattern |-> p, creator |-> c]
<1>1. new \in Routes /\ new.pattern = p
  BY NewRouteType
<1>2. DOMAIN routes = 1..Len(routes) /\ Len(routes) \in Nat
  BY DEF TypeOK
<1>3. \/ \E k \in DOMAIN routes : routes[k].pattern = p /\ routes' = ReplaceAt(routes, k, new)
      \/ \E k \in DOMAIN routes : routes' = InsertAt(routes, k, new)
      \/ routes' = Append(routes, new)
  BY DEF AddRoute
<1> HIDE DEF new
<1>4. ASSUME NEW k \in DOMAIN routes, routes[k].pattern = p, routes' = ReplaceAt(routes, k, new)
      PROVE  SameBut(p) /\ \E j \in DOMAIN routes' : routes'[j] = new
  <2>1. /\ DOMAIN routes' = DOMAIN routes
        /\ \A j \in DOMAIN routes : routes'[j] = IF j = k THEN new ELSE routes[j]
    BY <1>4 DEF ReplaceAt, TypeOK
  <2> QED BY <1>1, <1>4, <2>1 DEF SameBut
<1>5. ASSUME NEW k \in DOMAIN routes, routes' = InsertAt(routes, k, new)
      PROVE  SameBut(p) /\ \E j \in DOMAIN routes' : routes'[j] = new
  <2>1. /\ DOMAIN routes' = 1..(Len(routes) + 1)
        /\ \A i \in 1..(Len(routes) + 1) :
             routes'[i] = IF i < k THEN routes[i] ELSE IF i = k THEN new ELSE routes[i - 1]
    BY <1>1, <1>2, <1>5, InsertedRoutes
  <2>2. k \in DOMAIN routes' /\ routes'[k] = new
    BY <1>2, <2>1
  <2>3. ASSUME NEW i \in DOMAIN routes', routes'[i].pattern # p
        PROVE  \E j \in DOMAIN routes : routes[j] = routes'[i]
    <3>1. i < k \/ i > k
      BY <1>1, <1>2, <2>1, <2>3
    <3>2. IF i < k THEN i \in DOMAIN routes ELSE i - 1 \in DOMAIN routes
      BY <1>2, <2>1, <3>1
    <3> QED BY <1>2, <2>1, <3>1, <3>2
  <2>4. ASSUME NEW j \in DOMAIN routes
        PROVE  \E i \in DOMAIN routes' : routes'[i] = routes[j]
    <3>1. CASE j < k
      BY <1>2, <2>1, <3>1
    <3>2. CASE j >= k
      <4>1. j + 1 \in DOMAIN routes' /\ routes'[j + 1] = routes[j]
        BY <1>2, <2>1, <3>2
      <4> QED BY <4>1
    <3> QED BY <1>2, <3>1, <3>2
  <2> QED BY <2>2, <2>3, <2>4 DEF SameBut
<1>6. ASSUME routes' = Append(routes, new)
      PROVE  SameBut(p) /\ \E j \in DOMAIN routes' : routes'[j] = new
  <2>1. /\ DOMAIN routes' = 1..(Len(routes) + 1)
        /\ \A i \in DOMAIN routes : routes'[i] = routes[i]
        /\ routes'[Len(routes) + 1] = new
    BY <1>1, <1>2, <1>6, AppendProperties DEF TypeOK
  <2>2. \A i \in DOMAIN routes' : i = Len(routes) + 1 \/ i \in DOMAIN routes
    BY <1>2, <2>1
  <2>3. DOMAIN routes \subseteq DOMAIN routes' /\ Len(routes) + 1 \in DOMAIN routes'
    BY <1>2, <2>1
  <2> QED BY <1>1, <2>1, <2>2, <2>3 DEF SameBut
<1> QED BY <1>3, <1>4, <1>5, <1>6, Added DEF new

(* Remove leaves no route of the pattern behind: there was only one.        *)
LEMMA RemoveIsRemove ==
  ASSUME TypeOK, WellOrdered, TypeOK', WellOrdered',
         NEW p \in Registrable, RemoveRoute(p)
  PROVE  Map!Remove(p)
<1>1. DOMAIN routes = 1..Len(routes) /\ Len(routes) \in Nat
  BY DEF TypeOK
<1>2. ASSUME NEW k \in DOMAIN routes, routes[k].pattern = p, routes' = RemoveAt(routes, k)
      PROVE  SameBut(p) /\ ~HasRoute(p)'
  <2>1. /\ DOMAIN routes' = 1..(Len(routes) - 1)
        /\ \A i \in 1..(Len(routes) - 1) :
             routes'[i] = IF i < k THEN routes[i] ELSE routes[i + 1]
    <3>1. k \in 1..Len(routes) /\ routes \in Seq(Routes)
      BY <1>1, <1>2 DEF TypeOK
    <3>2. /\ RemoveAt(routes, k) \in Seq(Routes)
          /\ Len(RemoveAt(routes, k)) = Len(routes) - 1
          /\ \A i \in 1..(Len(routes) - 1) :
               RemoveAt(routes, k)[i] = IF i < k THEN routes[i] ELSE routes[i + 1]
      BY <3>1, RemoveAtProperties
    <3> QED BY <1>2, <3>2
  <2>2. ASSUME NEW i \in DOMAIN routes'
        PROVE  \E j \in DOMAIN routes \ {k} : routes'[i] = routes[j]
    <3>1. IF i < k THEN i \in DOMAIN routes \ {k} ELSE i + 1 \in DOMAIN routes \ {k}
      BY <1>1, <2>1
    <3> QED BY <2>1, <3>1
  <2>3. ASSUME NEW j \in DOMAIN routes \ {k}
        PROVE  \E i \in DOMAIN routes' : routes'[i] = routes[j]
    <3>1. CASE j < k
      <4>1. j \in DOMAIN routes' /\ routes'[j] = routes[j]
        BY <1>1, <2>1, <3>1
      <4> QED BY <4>1
    <3>2. CASE j > k
      <4>1. j - 1 \in DOMAIN routes' /\ routes'[j - 1] = routes[j]
        BY <1>1, <2>1, <3>2
      <4> QED BY <4>1
    <3> QED BY <1>1, <3>1, <3>2
  <2>4. \A j \in DOMAIN routes \ {k} : routes[j].pattern # p
    BY <1>1, <1>2 DEF WellOrdered
  <2> QED BY <1>2, <2>2, <2>3, <2>4 DEF SameBut, HasRoute
<1>3. CASE UNCHANGED routes /\ ~HasRoute(p)
  BY <1>3 DEF Map!Remove, Map!Restrict, Table, HasRoute, RegisteredAs
<1>4. ASSUME SameBut(p), ~HasRoute(p)' PROVE Map!Remove(p)
  <2>1. \A q \in Registrable \ {p} :
          /\ HasRoute(q)' <=> HasRoute(q)
          /\ HasRoute(q) => RegisteredAs(q)' = RegisteredAs(q)
    BY <1>4, SameElsewhere
  <2> QED BY <1>4, <2>1 DEF Map!Remove, Map!Restrict, Table
<1> QED BY <1>2, <1>3, <1>4 DEF RemoveRoute, HasRoute

LEMMA NoRoutes == routes = <<>> => Table = <<>>
BY DEF Table, HasRoute

LEMMA ClearIsClear == ClearRoutes => Map!Clear
<1> SUFFICES ASSUME ClearRoutes PROVE Table' = <<>>
  BY DEF Map!Clear
<1>1. \A q \in Registrable : ~HasRoute(q)'
  BY DEF ClearRoutes, HasRoute
<1>2. Table' = [q \in {} |-> routes]
  BY <1>1 DEF Table
<1> QED BY <1>2

(* IsRouteMap: for any patterns, creators and sequence of AddRoute, Remove  *)
(* and Clear, the vector is a map from patterns to creators, and each       *)
(* operation does to the map what its name says.                            *)
THEOREM TableIsAMap == Spec => IsRouteMap
<1>1. Init => Map!Init
  BY NoRoutes DEF Init, Map!Init
<1>2. ASSUME TypeOK, WellOrdered, [Next]_routes PROVE [Map!Next]_Table
  <2>1. TypeOK' /\ WellOrdered'
    BY <1>2, TypeStep, OrderStep
  <2>2. ASSUME NEW p \in Patterns, NEW c \in Creators, AddRoute(p, c) PROVE [Map!Next]_Table
    <3>1. CASE p \in Registrable
      BY <1>2, <2>1, <2>2, <3>1, AddIsAdd DEF Map!Next
    <3>2. CASE p \notin Registrable
      <4>1. UNCHANGED routes
        BY <2>2, <3>2 DEF AddRoute
      <4> QED BY <4>1 DEF Table, HasRoute, RegisteredAs
    <3> QED BY <3>1, <3>2
  <2>3. ASSUME NEW p \in Patterns, RemoveRoute(p) PROVE [Map!Next]_Table
    <3>1. CASE p \in Registrable
      BY <1>2, <2>1, <2>3, <3>1, RemoveIsRemove DEF Map!Next
    <3>2. CASE p \notin Registrable
      <4>1. UNCHANGED routes
        BY <1>2, <2>3, <3>2, RoutePatterns DEF RemoveRoute
      <4> QED BY <4>1 DEF Table, HasRoute, RegisteredAs
    <3> QED BY <3>1, <3>2
  <2>4. CASE ClearRoutes
    BY <2>4, ClearIsClear DEF Map!Next
  <2>5. CASE UNCHANGED routes
    BY <2>5 DEF Table, HasRoute, RegisteredAs
  <2> QED BY <1>2, <2>2, <2>3, <2>4, <2>5 DEF Next
<1> DEFINE Named ==
      /\ \A p \in Registrable, c \in Creators : AddRoute(p, c) => Map!Add(p, c)
      /\ \A p \in Registrable : RemoveRoute(p) => Map!Remove(p)
      /\ ClearRoutes => Map!Clear
<1>3. ASSUME TypeOK, WellOrdered, [Next]_routes PROVE [Named]_routes
  BY <1>3, TypeStep, OrderStep, AddIsAdd, RemoveIsRemove, ClearIsClear
<1> QED BY <1>1, <1>2, <1>3, TypeCorrect, TableIsWellOrdered, PTL
        DEF Spec, IsRouteMap, Map!Spec
=============================================================================
