----------------------------- MODULE SocketQueue -----------------------------
(***************************************************************************)
(* What the HTTP server may believe of the queue between the thread that   *)
(* accepts connections and its workers: it is bounded, first come first    *)
(* served, and hands every connection to one worker.                       *)
(***************************************************************************)
EXTENDS Naturals, Sequences

CONSTANTS Workers, Sockets, Capacity, NoSocket

VARIABLES
  line,   \* the accepted connections that wait for a worker, oldest first
  client  \* the connection each worker has taken, or NoSocket

vars == <<line, client>>

Waiting == {line[i] : i \in 1..Len(line)}
Taken   == {client[w] : w \in Workers} \ {NoSocket}

Init ==
  /\ line = <<>>
  /\ client = [w \in Workers |-> NoSocket]

Put(s) ==
  /\ Len(line) < Capacity
  /\ s \notin Waiting \cup Taken
  /\ line' = Append(line, s)
  /\ UNCHANGED client

Take(w) ==
  /\ client[w] = NoSocket
  /\ line # <<>>
  /\ client' = [client EXCEPT ![w] = Head(line)]
  /\ line' = Tail(line)

Release(w) ==
  /\ client[w] # NoSocket
  /\ client' = [client EXCEPT ![w] = NoSocket]
  /\ UNCHANGED line

(* The queue goes away with the server, once no worker has a connection.   *)
Discard ==
  /\ Taken = {}
  /\ line' = <<>>
  /\ UNCHANGED client

Next ==
  \/ \E s \in Sockets : Put(s)
  \/ \E w \in Workers : Take(w) \/ Release(w)
  \/ Discard

Spec == Init /\ [][Next]_vars
=============================================================================
