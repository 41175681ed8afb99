------------------------------ MODULE RouteMap ------------------------------
(* What a route table promises: a map from URL patterns to commands.  The   *)
(* order in which routes are added is not part of it.                       *)
EXTENDS Functions

CONSTANTS
  Patterns,   \* URL patterns
  Creators    \* what creates the command of a route

VARIABLE table   \* the commands of the registered patterns

Tables == UNION {[P -> Creators] : P \in SUBSET Patterns}

Init == table = <<>>

Add(p, c) ==
  table' = [q \in DOMAIN table \cup {p} |-> IF q = p THEN c ELSE table[q]]

Remove(p) == table' = Restrict(table, DOMAIN table \ {p})

Clear == table' = <<>>

Next ==
  \/ \E p \in Patterns : Remove(p) \/ \E c \in Creators : Add(p, c)
  \/ Clear

Spec == Init /\ [][Next]_table
=============================================================================
