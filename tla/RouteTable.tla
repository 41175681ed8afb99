----------------------------- MODULE RouteTable -----------------------------
(* RouteTable: a vector of routes, searched from the front.  A pattern is a *)
(* path whose segments may be `*', which stands for any segment; several    *)
(* patterns can match one URL, and the order of the vector decides which of *)
(* them answers.  AddRoute keeps the better matches in front.               *)
EXTENDS Naturals, Sequences, SequencesExt, FiniteSetsExt

CONSTANTS
  Segments,      \* the path segments
  Star,          \* the wildcard
  Urls,          \* the URLs requested, cut into segments
  Patterns,      \* the patterns somebody may try to register, cut into segments
  Registrable,   \* those that are standard or have a custom prefix
  Creators,      \* the command creators
  NoCreator      \* the null CommandCreatorPtr

ASSUME PathsAreSequences ==
  /\ Urls \subseteq Seq(Segments)
  /\ Patterns \subseteq Seq(Segments \cup {Star})
ASSUME RegistrableArePatterns == Registrable \subseteq Patterns
ASSUME NoCreatorIsNone == NoCreator \notin Creators

VARIABLE routes   \* routes_: the vector of RouteDetails

Routes == [pattern : Registrable, creator : Creators]

TypeOK == routes \in Seq(Routes)

Init == routes = <<>>

-----------------------------------------------------------------------------
(* MatchPattern.  A URL is a sequence of segments, none of them special.    *)
Matches(url, p) ==
  /\ Len(url) = Len(p)
  /\ \A i \in DOMAIN p : p[i] = Star \/ p[i] = url[i]

(* Mutant: a `*' compares equal to anything and the loop goes on.           *)
CompareSkippingStars(p, q) ==
  /\ Len(p) = Len(q)
  /\ \E i \in DOMAIN p :
       /\ \A j \in 1..(i - 1) : p[j] = q[j] \/ p[j] = Star
       /\ p[i] # q[i]
       /\ p[i] # Star
       /\ q[i] = Star

(* CompareBestMatch: at the first segment where the two differ, p has a     *)
(* segment where q has a `*'.                                               *)
CompareBestMatch(p, q) ==
  /\ Len(p) = Len(q)
  /\ \E i \in DOMAIN p :
       /\ \A j \in 1..(i - 1) : p[j] = q[j]
       /\ p[i] # q[i]
       /\ p[i] # Star
       /\ q[i] = Star

(* The route at k is where AddRoute stops: it has the pattern p, or p is a  *)
(* better match; the routes before it have not and are not.                 *)
StopsAt(p, k) ==
  /\ k \in DOMAIN routes
  /\ routes[k].pattern = p \/ CompareBestMatch(p, routes[k].pattern)
  /\ \A j \in 1..(k - 1) :
       routes[j].pattern # p /\ ~ CompareBestMatch(p, routes[j].pattern)

(* Mutant: a pattern is not looked for before it is inserted.               *)
AddRouteAgain(p, c) ==
  LET new == [pattern |-> p, creator |-> c]
      Better(k) == CompareBestMatch(p, routes[k].pattern)
  IN
  /\ p \in Registrable
  /\ \/ \E k \in DOMAIN routes :
          /\ Better(k) /\ \A j \in 1..(k - 1) : ~ Better(j)
          /\ routes' = InsertAt(routes, k, new)
     \/ /\ \A k \in DOMAIN routes : ~ Better(k)
        /\ routes' = Append(routes, new)

(* Mutant: a new pattern always goes to the end.                            *)
AddRouteAtEnd(p, c) ==
  LET new == [pattern |-> p, creator |-> c] IN
  /\ p \in Registrable
  /\ \/ \E k \in DOMAIN routes :
          /\ routes[k].pattern = p
          /\ routes' = ReplaceAt(routes, k, new)
     \/ /\ \A k \in DOMAIN routes : routes[k].pattern # p
        /\ routes' = Append(routes, new)

(* Mutant: the check of the custom prefix is lost.                          *)
AddRouteUnchecked(p, c) ==
  LET new == [pattern |-> p, creator |-> c] IN
  \/ \E k \in DOMAIN routes :
       /\ StopsAt(p, k)
       /\ routes' = IF routes[k].pattern = p
                    THEN ReplaceAt(routes, k, new)
                    ELSE InsertAt(routes, k, new)
  \/ /\ \A k \in DOMAIN routes : ~ StopsAt(p, k)
     /\ routes' = Append(routes, new)

(* AddRoute: refuses, replaces, inserts before the first worse match, or    *)
(* appends.                                                                 *)
AddRoute(p, c) ==
  LET new == [pattern |-> p, creator |-> c] IN
  \/ p \notin Registrable /\ UNCHANGED routes
  \/ \E k \in DOMAIN routes :
       /\ p \in Registrable
       /\ StopsAt(p, k)
       /\ \/ routes[k].pattern = p /\ routes' = ReplaceAt(routes, k, new)
          \/ routes[k].pattern # p /\ routes' = InsertAt(routes, k, new)
  \/ /\ p \in Registrable
     /\ \A k \in DOMAIN routes : ~ StopsAt(p, k)
     /\ routes' = Append(routes, new)

(* Remove: the first route with the pattern, if there is one.               *)
RemoveRoute(p) ==
  \/ \E k \in DOMAIN routes :
       /\ routes[k].pattern = p
       /\ \A j \in 1..(k - 1) : routes[j].pattern # p
       /\ routes' = RemoveAt(routes, k)
  \/ /\ \A k \in DOMAIN routes : routes[k].pattern # p
     /\ UNCHANGED routes

ClearRoutes == routes' = <<>>

HasRoute(p) == \E k \in DOMAIN routes : routes[k].pattern = p

(* GetRouteForURL: the first route that matches.                            *)
Hits(url) == {k \in DOMAIN routes : Matches(url, routes[k].pattern)}

GetRouteForURL(url) ==
  IF Hits(url) = {} THEN NoCreator ELSE routes[Min(Hits(url))].creator

Next ==
  \/ \E p \in Patterns : RemoveRoute(p) \/ \E c \in Creators : AddRoute(p, c)
  \/ ClearRoutes

Spec == Init /\ [][Next]_routes

-----------------------------------------------------------------------------
(* The vector holds a pattern once, and no route stands behind one that it  *)
(* matches better than: AddRoute stops at the first route that is equal or  *)
(* worse, and takes it that no equal one comes later.                       *)
WellOrdered ==
  \A i, j \in DOMAIN routes :
    i < j => /\ routes[i].pattern # routes[j].pattern
             /\ ~ CompareBestMatch(routes[j].pattern, routes[i].pattern)

(* A URL is answered by the best of the routes that match it, the one that  *)
(* is a better match than every other: what a URL means does not depend on  *)
(* the order in which the application registered its routes.                *)
BestMatchAnswers ==
  \A url \in Urls :
    Hits(url) # {} =>
      \E i \in Hits(url) :
        /\ GetRouteForURL(url) = routes[i].creator
        /\ \A j \in Hits(url) \ {i} :
             CompareBestMatch(routes[i].pattern, routes[j].pattern)

RegisteredAs(p) == routes[CHOOSE k \in DOMAIN routes : routes[k].pattern = p].creator

Table == [p \in {q \in Registrable : HasRoute(q)} |-> RegisteredAs(p)]

Map == INSTANCE RouteMap WITH Patterns <- Registrable, table <- Table

(* The table is a map from patterns to creators, and every operation does   *)
(* to the map what its name says: AddRoute makes the new creator the one of *)
(* its pattern and leaves the others, Remove and Clear leave nothing of     *)
(* what they remove behind in the vector.                                   *)
IsRouteMap ==
  /\ Map!Spec
  /\ [][/\ \A p \in Registrable, c \in Creators : AddRoute(p, c) => Map!Add(p, c)
        /\ \A p \in Registrable : RemoveRoute(p) => Map!Remove(p)
        /\ ClearRoutes => Map!Clear]_routes
=============================================================================
