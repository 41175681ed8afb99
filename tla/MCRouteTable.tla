---------------------------- MODULE MCRouteTable ----------------------------
(* An instance of RouteTable for TLC.                                       *)
EXTENDS RouteTable

CONSTANTS a, b   \* two segments

Paths == [1..3 -> {a, b}] \cup [1..2 -> {a, b}]

(* Patterns of three segments that match a common URL in every combination, *)
(* one that is shorter, and one without a custom prefix.                    *)
Allowed == {<<a, Star, Star>>, <<a, a, Star>>, <<Star, a, a>>, <<Star, Star, a>>,
            <<Star, Star, Star>>, <<Star, a>>}
Tried == Allowed \cup {<<b, b>>}
=============================================================================
