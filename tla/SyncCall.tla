------------------------------ MODULE SyncCall ------------------------------
(* What a command may believe of Session::RunSessionTask: it is a procedure *)
(* call whose body runs in the UI thread.  The calls on one session run one *)
(* at a time, in the order they were made; a call returns after its body    *)
(* has run, once; and bodies that run inside each other, because one of     *)
(* them spins an event loop, end innermost first.                           *)
EXTENDS Naturals, Sequences

CONSTANTS
  Workers,   \* the threads that call
  Sessions   \* the sessions they call on

VARIABLES
  phase,     \* how far each worker is with its call
  on,        \* the session a worker calls on
  line,      \* per session, the calls whose body has not begun, oldest first
  nest       \* the bodies that have begun and not ended, outermost first

vars == <<phase, on, line, nest>>

Init ==
  /\ phase = [w \in Workers |-> "none"]
  /\ on \in [Workers -> Sessions]
  /\ line = [s \in Sessions |-> <<>>]
  /\ nest = <<>>

Call(w, s) ==
  /\ phase[w] = "none"
  /\ phase' = [phase EXCEPT ![w] = "called"]
  /\ on' = [on EXCEPT ![w] = s]
  /\ line' = [line EXCEPT ![s] = Append(@, w)]
  /\ UNCHANGED nest

Enter(w) ==
  /\ phase[w] = "called"
  /\ w = Head(line[on[w]])
  /\ \A v \in Workers : phase[v] = "running" => on[v] # on[w]
  /\ phase' = [phase EXCEPT ![w] = "running"]
  /\ line' = [line EXCEPT ![on[w]] = Tail(@)]
  /\ nest' = Append(nest, w)
  /\ UNCHANGED on

Leave(w) ==
  /\ phase[w] = "running"
  /\ w = nest[Len(nest)]
  /\ phase' = [phase EXCEPT ![w] = "ran"]
  /\ nest' = SubSeq(nest, 1, Len(nest) - 1)
  /\ UNCHANGED <<on, line>>

Return(w) ==
  /\ phase[w] = "ran"
  /\ phase' = [phase EXCEPT ![w] = "none"]
  /\ UNCHANGED <<on, line, nest>>

Next ==
  \E w \in Workers :
    \/ \E s \in Sessions : Call(w, s)
    \/ Enter(w) \/ Leave(w) \/ Return(w)

Spec == Init /\ [][Next]_vars
=============================================================================
