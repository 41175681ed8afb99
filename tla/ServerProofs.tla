----------------------------- MODULE ServerProofs -----------------------------
(* Theorems about HttpPool, for any number of workers and connections and   *)
(* any size of the ring, and about Server, for any number of sessions too.  *)
EXTENDS Server, SequenceTheorems, TLAPS

-----------------------------------------------------------------------------
(* Arithmetic of the ring.                                                  *)

LEMMA SlotsAreInTheRing ==
  ASSUME NEW i \in Nat
  PROVE  Slot(i) \in 0..(QueueSize - 1)
BY PoolAssumption DEF Slot

(* The indices stay below twice the size of the ring.                       *)
LEMMA SlotValue ==
  ASSUME NEW i \in 0..(2 * QueueSize - 1)
  PROVE  Slot(i) = IF i < QueueSize THEN i ELSE i - QueueSize
<1> DEFINE Q == QueueSize
<1>1. Q \in Nat \ {0}
  BY PoolAssumption
<1>2. CASE i < Q
  BY <1>1, <1>2 DEF Slot
<1>3. CASE ~(i < Q)
  <2>1. i - Q \in 0..(Q - 1)
    BY <1>1, <1>3
  <2>2. i % Q = (i - Q) % Q
    BY <1>1, <1>3
  <2> QED BY <1>1, <1>3, <2>1, <2>2 DEF Slot
<1> QED BY <1>2, <1>3

-----------------------------------------------------------------------------
(* Types.                                                                   *)

LEMMA PushTypes ==
  ASSUME PoolTypeOK, HasRoom, NEW s \in Sockets \cup {NoSocket}, Push(s)
  PROVE  /\ queue' \in [0..(QueueSize - 1) -> Sockets \cup {NoSocket}]
         /\ sq_tail' \in 0..QueueSize
         /\ sq_head' \in sq_tail'..(sq_tail' + QueueSize)
<1> USE PoolAssumption DEF PoolTypeOK
<1>1. sq_head' = sq_head + 1 /\ sq_tail' = sq_tail
  BY DEF Push
<1>2. sq_tail \in Nat /\ sq_head \in Nat /\ QueueSize \in Nat /\ sq_head - sq_tail < QueueSize
  BY DEF HasRoom, Length
<1>3. queue' \in [0..(QueueSize - 1) -> Sockets \cup {NoSocket}]
  BY DEF Push
<1> QED BY <1>1, <1>2, <1>3

LEMMA PopTypes ==
  ASSUME PoolTypeOK, Length > 0, NEW w \in Workers, Pop(w)
  PROVE  /\ queue' \in [0..(QueueSize - 1) -> Sockets \cup {NoSocket}]
         /\ sq_tail' \in 0..QueueSize
         /\ sq_head' \in sq_tail'..(sq_tail' + QueueSize)
         /\ client' \in [Workers -> Sockets \cup {NoSocket}]
<1> USE PoolAssumption DEF PoolTypeOK
<1>1. sq_tail \in Nat
  OBVIOUS
<1>2. queue[Slot(sq_tail)] \in Sockets \cup {NoSocket}
  BY <1>1, SlotsAreInTheRing
<1>3. client' \in [Workers -> Sockets \cup {NoSocket}]
  BY <1>2 DEF Pop
<1>4. CASE sq_tail + 1 > QueueSize
  BY <1>3, <1>4 DEF Pop, Length
<1>5. CASE ~(sq_tail + 1 > QueueSize)
  BY <1>3, <1>5 DEF Pop, Length
<1> QED BY <1>4, <1>5

LEMMA SignalFullTypes ==
  ASSUME worker \in [Workers -> WorkerPcs], SignalFull
  PROVE  worker' \in [Workers -> WorkerPcs]
BY DEF SignalFull, WorkerPcs

LEMMA PoolTypeStep == PoolTypeOK /\ [PoolNext]_poolVars => PoolTypeOK'
<1> SUFFICES ASSUME PoolTypeOK, [PoolNext]_poolVars PROVE PoolTypeOK'
  OBVIOUS
<1> USE DEF PoolTypeOK, ringVars
<1>1. CASE StartPool
  BY <1>1, PoolAssumption DEF StartPool, MasterPcs, WorkerPcs
<1>2. CASE StopPool
  BY <1>2 DEF StopPool, RaiseStopFlag
<1>3. CASE FreeContext
  BY <1>3 DEF FreeContext
<1>4. ASSUME NEW s \in Sockets, Connect(s) \/ GiveUp(s) PROVE PoolTypeOK'
  BY <1>4 DEF Connect, GiveUp
<1>5. ASSUME NEW s \in Sockets, AcceptConnection(s) PROVE PoolTypeOK'
  BY <1>5 DEF AcceptConnection, MasterPcs
<1>6. CASE ProduceSocket
  <2>1. /\ queue' \in [0..(QueueSize - 1) -> Sockets \cup {NoSocket}]
        /\ sq_tail' \in 0..QueueSize
        /\ sq_head' \in sq_tail'..(sq_tail' + QueueSize)
    BY <1>6, PushTypes DEF ProduceSocket
  <2>2. worker' \in [Workers -> WorkerPcs]
    BY <1>6, SignalFullTypes DEF ProduceSocket
  <2> QED BY <1>6, <2>1, <2>2 DEF ProduceSocket, MasterPcs
<1>7. CASE WaitForRoom \/ LeaveLoop
  BY <1>7 DEF WaitForRoom, LeaveLoop, MasterPcs
<1>8. CASE StopWorkers
  BY <1>8 DEF StopWorkers, MasterPcs, WorkerPcs
<1>9. CASE JoinWorkers
  BY <1>9 DEF JoinWorkers, MasterPcs
<1>10. ASSUME NEW w \in Workers, ConsumeSocket(w) PROVE PoolTypeOK'
  <2>1. /\ queue' \in [0..(QueueSize - 1) -> Sockets \cup {NoSocket}]
        /\ sq_tail' \in 0..QueueSize
        /\ sq_head' \in sq_tail'..(sq_tail' + QueueSize)
        /\ client' \in [Workers -> Sockets \cup {NoSocket}]
    BY <1>10, PopTypes DEF ConsumeSocket
  <2> QED BY <1>10, <2>1 DEF ConsumeSocket, SignalEmpty, MasterPcs, WorkerPcs
<1>11. ASSUME NEW w \in Workers, FindNothing(w) \/ FallAsleep(w) \/ ExitWorker(w) PROVE PoolTypeOK'
  BY <1>11 DEF FindNothing, FallAsleep, ExitWorker, WorkerPcs
<1>12. ASSUME NEW w \in Workers, ServeOrLeave(w) PROVE PoolTypeOK'
  BY <1>12 DEF ServeOrLeave, WorkerPcs
<1>13. ASSUME NEW w \in Workers, CloseConnection(w) PROVE PoolTypeOK'
  BY <1>13 DEF CloseConnection, WorkerPcs
<1>14. CASE UNCHANGED poolVars
  BY <1>14 DEF poolVars
<1> QED
  BY <1>1, <1>2, <1>3, <1>4, <1>5, <1>6, <1>7, <1>8, <1>9, <1>10, <1>11, <1>12, <1>13, <1>14
  DEF PoolNext, Master, BetweenRequests

LEMMA PoolTypeInit == PoolInit => PoolTypeOK
<1> SUFFICES ASSUME PoolInit PROVE PoolTypeOK
  OBVIOUS
<1>1. sq_tail \in 0..QueueSize /\ sq_head \in sq_tail..(sq_tail + QueueSize)
  BY PoolAssumption DEF PoolInit
<1>2. /\ queue \in [0..(QueueSize - 1) -> Sockets \cup {NoSocket}]
      /\ worker \in [Workers -> WorkerPcs]
      /\ client \in [Workers -> Sockets \cup {NoSocket}]
      /\ sock \in [Sockets -> {"none", "backlog", "open", "lost"}]
  BY DEF PoolInit, WorkerPcs
<1>3. /\ live \in BOOLEAN /\ stop_flag \in 0..2 /\ master \in MasterPcs
      /\ accepted \in Sockets \cup {NoSocket}
  <2>1. live = FALSE /\ stop_flag = 2 /\ master = "ended" /\ accepted = NoSocket
    BY DEF PoolInit
  <2>2. live \in BOOLEAN
    BY <2>1, Zenon
  <2>3. stop_flag \in 0..2
    BY <2>1, SMT
  <2> QED BY <2>1, <2>2, <2>3 DEF MasterPcs
<1> QED BY <1>1, <1>2, <1>3 DEF PoolTypeOK

(* The ring's indices never run further apart than its size, nor the tail   *)
(* beyond its end, although consume_socket wraps them only now and then;    *)
(* and every field of the context keeps its type.                           *)
THEOREM PoolTypeCorrect == PoolSpec => []PoolTypeOK
BY PoolTypeInit, PoolTypeStep, PTL DEF PoolSpec

-----------------------------------------------------------------------------
(* The end of the pool.                                                     *)

LEMMA ContextInit == PoolInit => ContextOutlivesThreads
BY DEF PoolInit, ContextOutlivesThreads

(* Inductive with the types: once the master has ended the workers have,    *)
(* nobody is left to wake them.                                             *)
LEMMA ContextStep ==
  PoolTypeOK /\ ContextOutlivesThreads /\ [PoolNext]_poolVars => ContextOutlivesThreads'
<1> SUFFICES ASSUME PoolTypeOK, ContextOutlivesThreads, [PoolNext]_poolVars,
                    ~live' \/ stop_flag' = 2
             PROVE  master' = "ended" /\ \A w \in Workers : worker'[w] = "exited"
  BY DEF ContextOutlivesThreads
<1> DEFINE Over == master = "ended" /\ \A w \in Workers : worker[w] = "exited"
<1>1. ~live \/ stop_flag = 2 => Over
  BY DEF ContextOutlivesThreads
<1> USE DEF PoolTypeOK
<1>2. CASE StartPool
  BY <1>2 DEF StartPool
<1>3. CASE StopPool
  BY <1>3 DEF StopPool, RaiseStopFlag
<1>4. CASE FreeContext
  BY <1>1, <1>4 DEF FreeContext
<1>5. CASE JoinWorkers
  BY <1>5 DEF JoinWorkers, Running
<1>6. CASE \E s \in Sockets : Connect(s) \/ GiveUp(s) \/ AcceptConnection(s)
  BY <1>1, <1>6 DEF Connect, GiveUp, AcceptConnection
<1>7. CASE ProduceSocket \/ WaitForRoom \/ LeaveLoop \/ StopWorkers
  BY <1>1, <1>7 DEF ProduceSocket, WaitForRoom, LeaveLoop, StopWorkers
<1>8. CASE \E w \in Workers : BetweenRequests(w) \/ CloseConnection(w)
  BY <1>1, <1>8
  DEF BetweenRequests, ConsumeSocket, FindNothing, FallAsleep, ServeOrLeave, ExitWorker, CloseConnection
<1>9. CASE UNCHANGED poolVars
  BY <1>1, <1>9 DEF poolVars
<1> QED
  BY <1>2, <1>3, <1>4, <1>5, <1>6, <1>7, <1>8, <1>9 DEF PoolNext, Master

(* mg_stop frees the context, and the master destroys its locks, only when  *)
(* no thread of the pool can use them any more.                             *)
THEOREM ContextIsSafe == PoolSpec => []ContextOutlivesThreads
BY PoolTypeInit, PoolTypeStep, ContextInit, ContextStep, PTL DEF PoolSpec

-----------------------------------------------------------------------------
(* The owners of connections.                                               *)

(* The connections in the ring.                                              *)
InRing == {queue[Slot(i)] : i \in sq_tail..(sq_head - 1)}

LEMMA PushKeepsTheOthers ==
  ASSUME PoolTypeOK, HasRoom, NEW s \in Sockets \cup {NoSocket}, Push(s)
  PROVE  InRing \cup {s} \subseteq InRing'
<1> USE PoolAssumption DEF PoolTypeOK
<1>1. /\ QueueSize \in Nat \ {0} /\ sq_tail \in Nat /\ sq_head \in Nat
      /\ sq_tail <= QueueSize /\ sq_tail <= sq_head /\ sq_head < sq_tail + QueueSize
  BY DEF HasRoom, Length
<1>2. sq_head' = sq_head + 1 /\ sq_tail' = sq_tail
  BY DEF Push
<1>3. Slot(sq_head) \in 0..(QueueSize - 1)
  BY <1>1, SlotsAreInTheRing
<1>4. s \in InRing'
  <2>1. queue'[Slot(sq_head)] = s /\ sq_head \in sq_tail'..(sq_head' - 1)
    BY <1>1, <1>2, <1>3 DEF Push
  <2> QED BY <2>1 DEF InRing, Slot
<1>5. ASSUME NEW i \in sq_tail..(sq_head - 1) PROVE queue[Slot(i)] \in InRing'
  <2>1. Slot(i) # Slot(sq_head)
    <3>1. i \in 0..(2 * QueueSize - 1) /\ sq_head \in 0..(2 * QueueSize - 1)
      BY <1>1
    <3> HIDE DEF PoolTypeOK
    <3> QED BY <1>1, <3>1, SlotValue
  <2>2. queue'[Slot(i)] = queue[Slot(i)]
    BY <1>1, <2>1, SlotsAreInTheRing DEF Push
  <2>3. i \in sq_tail'..(sq_head' - 1)
    BY <1>1, <1>2
  <2> QED BY <2>2, <2>3 DEF InRing, Slot
<1> QED BY <1>4, <1>5 DEF InRing

LEMMA PopKeepsTheOthers ==
  ASSUME PoolTypeOK, Length > 0, NEW w \in Workers, Pop(w)
  PROVE  InRing \subseteq InRing' \cup {client'[w]}
<1> USE PoolAssumption DEF PoolTypeOK
<1> DEFINE wrap == IF sq_tail + 1 > QueueSize THEN QueueSize ELSE 0
<1>1. /\ QueueSize \in Nat \ {0} /\ sq_tail \in Nat /\ sq_head \in Nat
      /\ sq_tail <= QueueSize /\ sq_tail < sq_head /\ sq_head <= sq_tail + QueueSize
  BY DEF Length
<1>2. sq_tail' = sq_tail + 1 - wrap /\ sq_head' = sq_head - wrap /\ queue' = queue
  BY DEF Pop
<1>3. client'[w] = queue[Slot(sq_tail)]
  BY DEF Pop
<1>4. ASSUME NEW i \in sq_tail..(sq_head - 1), i # sq_tail PROVE queue[Slot(i)] \in InRing'
  <2>1. i - wrap \in sq_tail'..(sq_head' - 1)
    BY <1>1, <1>2, <1>4
  <2>2. Slot(i - wrap) = Slot(i)
    <3>1. i \in 0..(2 * QueueSize - 1) /\ i - wrap \in 0..(2 * QueueSize - 1)
      BY <1>1, <1>4
    <3>2. wrap = 0 \/ (wrap = QueueSize /\ i >= QueueSize /\ i - wrap < QueueSize)
      BY <1>1, <1>4
    <3> HIDE DEF wrap, PoolTypeOK
    <3> QED BY <1>1, <3>1, <3>2, SlotValue
  <2> QED BY <1>2, <2>1, <2>2 DEF InRing, Slot
<1> QED BY <1>3, <1>4 DEF InRing

(* Who has no socket: the master outside of produce_socket, a worker before *)
(* consume_socket has taken one; and no connection outlives the context.    *)
HandsAreEmpty ==
  /\ master \notin {"produce", "full"} => accepted = NoSocket
  /\ \A w \in Workers : worker[w] \in {"consume", "checked", "asleep"} => client[w] = NoSocket
  /\ ~live => \A s \in Sockets : ~Open(s)

(* Every open connection is somewhere.                                      *)
EveryConnectionIsHeld ==
  live /\ stop_flag = 0 =>
    \A s \in Sockets : Open(s) => s = accepted \/ s \in InRing \/ \E w \in Workers : client[w] = s

OwnersInv == PoolTypeOK /\ ContextOutlivesThreads /\ HandsAreEmpty /\ EveryConnectionIsHeld

LEMMA HandsInit == PoolInit => HandsAreEmpty /\ EveryConnectionIsHeld
BY DEF PoolInit, HandsAreEmpty, EveryConnectionIsHeld, Open

LEMMA HandsStep ==
  PoolTypeOK /\ ContextOutlivesThreads /\ HandsAreEmpty /\ [PoolNext]_poolVars => HandsAreEmpty'
<1> SUFFICES ASSUME PoolTypeOK, ContextOutlivesThreads, HandsAreEmpty, [PoolNext]_poolVars
             PROVE  HandsAreEmpty'
  OBVIOUS
<1> USE DEF PoolTypeOK, HandsAreEmpty, Open
<1>1. CASE StartPool
  BY <1>1 DEF StartPool
<1>2. CASE StopPool
  BY <1>2 DEF StopPool, RaiseStopFlag
<1>3. CASE FreeContext
  BY <1>3 DEF FreeContext
<1>4. CASE \E s \in Sockets : Connect(s) \/ GiveUp(s)
  BY <1>4 DEF Connect, GiveUp
<1>5. CASE \E s \in Sockets : AcceptConnection(s)
  BY <1>5 DEF AcceptConnection, ContextOutlivesThreads
<1>6. CASE ProduceSocket
  BY <1>6 DEF ProduceSocket, SignalFull
<1>7. CASE WaitForRoom \/ LeaveLoop \/ JoinWorkers
  BY <1>7 DEF WaitForRoom, LeaveLoop, JoinWorkers
<1>8. CASE StopWorkers
  BY <1>8 DEF StopWorkers
<1>9. ASSUME NEW w \in Workers, ConsumeSocket(w) PROVE HandsAreEmpty'
  BY <1>9 DEF ConsumeSocket, SignalEmpty, Pop
<1>10. ASSUME NEW w \in Workers, FindNothing(w) \/ FallAsleep(w) \/ ExitWorker(w) PROVE HandsAreEmpty'
  BY <1>10 DEF FindNothing, FallAsleep, ExitWorker
<1>11. ASSUME NEW w \in Workers, ServeOrLeave(w) PROVE HandsAreEmpty'
  BY <1>11 DEF ServeOrLeave
<1>12. ASSUME NEW w \in Workers, CloseConnection(w) PROVE HandsAreEmpty'
  BY <1>12, PoolAssumption DEF CloseConnection
<1>13. CASE UNCHANGED poolVars
  BY <1>13 DEF poolVars
<1> QED
  BY <1>1, <1>2, <1>3, <1>4, <1>5, <1>6, <1>7, <1>8, <1>9, <1>10, <1>11, <1>12, <1>13
  DEF PoolNext, Master, BetweenRequests

LEMMA OwnersStep == OwnersInv /\ [PoolNext]_poolVars => EveryConnectionIsHeld'
<1> SUFFICES ASSUME OwnersInv, [PoolNext]_poolVars, live', stop_flag' = 0,
                    NEW s \in Sockets, Open(s)'
             PROVE  \/ s = accepted'
                    \/ s \in InRing'
                    \/ \E w \in Workers : client'[w] = s
  BY DEF EveryConnectionIsHeld
<1> DEFINE Owned  == s = accepted \/ s \in InRing \/ \E w \in Workers : client[w] = s
           Owned1 == s = accepted' \/ s \in InRing' \/ \E w \in Workers : client'[w] = s
<1> USE DEF OwnersInv, PoolTypeOK, Open
<1>a. live /\ stop_flag = 0 /\ Open(s) => Owned
  BY DEF EveryConnectionIsHeld
<1>b. UNCHANGED ringVars => InRing' = InRing
  BY DEF ringVars, InRing, Slot
<1>c. s # NoSocket
  BY PoolAssumption
<1>1. CASE StartPool
  BY <1>1 DEF StartPool, HandsAreEmpty
<1>2. CASE StopPool \/ FreeContext
  BY <1>2 DEF StopPool, RaiseStopFlag, FreeContext
<1>3. CASE \E t \in Sockets : Connect(t) \/ GiveUp(t)
  BY <1>3, <1>a, <1>b DEF Connect, GiveUp
<1>4. ASSUME NEW t \in Sockets, AcceptConnection(t) PROVE Owned1
  <2>1. live /\ accepted = NoSocket
    BY <1>4 DEF AcceptConnection, HandsAreEmpty, ContextOutlivesThreads
  <2> QED BY <1>4, <1>a, <1>b, <1>c, <2>1 DEF AcceptConnection
<1>5. CASE ProduceSocket
  <2>1. Push(accepted) /\ HasRoom
    BY <1>5 DEF ProduceSocket
  <2>2. InRing \cup {accepted} \subseteq InRing'
    BY <2>1, PushKeepsTheOthers
  <2> QED BY <1>5, <1>a, <2>2 DEF ProduceSocket
<1>6. CASE WaitForRoom \/ LeaveLoop \/ StopWorkers \/ JoinWorkers
  <2>1. Open(s) /\ UNCHANGED <<accepted, ringVars, client, live>>
    BY <1>6 DEF WaitForRoom, LeaveLoop, StopWorkers, JoinWorkers
  <2>2. stop_flag = 0
    <3>1. ~JoinWorkers
      BY DEF JoinWorkers
    <3> QED BY <1>6, <3>1 DEF WaitForRoom, LeaveLoop, StopWorkers
  <2> QED BY <1>a, <1>b, <2>1, <2>2
<1>7. ASSUME NEW w \in Workers, ConsumeSocket(w) PROVE Owned1
  <2>1. Length > 0 /\ Pop(w)
    BY <1>7 DEF ConsumeSocket
  <2>2. InRing \subseteq InRing' \cup {client'[w]}
    BY <2>1, PopKeepsTheOthers
  <2>3. \A v \in Workers : v # w => client'[v] = client[v]
    BY <2>1 DEF Pop
  <2>4. client[w] = NoSocket
    BY <1>7 DEF ConsumeSocket, HandsAreEmpty
  <2> QED BY <1>7, <1>a, <1>c, <2>2, <2>3, <2>4 DEF ConsumeSocket
<1>8. ASSUME NEW w \in Workers, FindNothing(w) \/ FallAsleep(w) \/ ExitWorker(w) PROVE Owned1
  BY <1>8, <1>a, <1>b DEF FindNothing, FallAsleep, ExitWorker
<1>9. ASSUME NEW w \in Workers, ServeOrLeave(w) PROVE Owned1
  BY <1>9, <1>a, <1>b DEF ServeOrLeave
<1>10. ASSUME NEW w \in Workers, CloseConnection(w) PROVE Owned1
  <2>1. client[w] # s
    BY <1>10 DEF CloseConnection
  <2>2. \A v \in Workers : v # w => client'[v] = client[v]
    BY <1>10 DEF CloseConnection
  <2>3. Open(s)
    BY <1>10 DEF CloseConnection
  <2> QED BY <1>10, <1>a, <1>b, <2>1, <2>2, <2>3 DEF CloseConnection
<1>11. CASE UNCHANGED poolVars
  BY <1>11, <1>a, <1>b DEF poolVars
<1> QED
  BY <1>1, <1>2, <1>3, <1>4, <1>5, <1>6, <1>7, <1>8, <1>9, <1>10, <1>11
  DEF PoolNext, Master, BetweenRequests

-----------------------------------------------------------------------------
(* The ring as the sequence that SocketQueue sees.                          *)

LEMMA LineIsSequence ==
  ASSUME PoolTypeOK
  PROVE  /\ Length \in 0..QueueSize
         /\ Line \in Seq(Sockets \cup {NoSocket})
         /\ Len(Line) = Length
         /\ \A i \in 1..Length : Line[i] = queue[Slot(sq_tail + i - 1)]
<1>1. Length \in 0..QueueSize
  BY PoolAssumption DEF PoolTypeOK, Length
<1>2. ASSUME NEW i \in 1..Length PROVE queue[Slot(sq_tail + i - 1)] \in Sockets \cup {NoSocket}
  <2>1. sq_tail + i - 1 \in Nat
    BY <1>1, PoolAssumption DEF PoolTypeOK
  <2> QED BY <2>1, SlotsAreInTheRing DEF PoolTypeOK
<1>3. Length \in Nat
  BY <1>1, PoolAssumption
<1> QED BY <1>1, <1>2, <1>3 DEF Line

LEMMA PushLine ==
  ASSUME PoolTypeOK, HasRoom, NEW s \in Sockets \cup {NoSocket}, Push(s)
  PROVE  Line' = Append(Line, s)
<1>1. /\ QueueSize \in Nat \ {0} /\ sq_tail \in Nat /\ sq_head \in Nat
      /\ sq_tail <= QueueSize /\ sq_tail <= sq_head /\ sq_head < sq_tail + QueueSize
  BY PoolAssumption DEF PoolTypeOK, HasRoom, Length
<1>2. sq_head' = sq_head + 1 /\ sq_tail' = sq_tail /\ Length' = Length + 1 /\ Length \in Nat
  BY <1>1 DEF Push, Length
<1>3. ASSUME NEW i \in 1..Length PROVE queue'[Slot(sq_tail + i - 1)] = Line[i]
  <2>1. /\ sq_tail + i - 1 \in 0..(2 * QueueSize - 1) /\ sq_head \in 0..(2 * QueueSize - 1)
        /\ sq_tail + i - 1 < sq_head /\ sq_head - (sq_tail + i - 1) < QueueSize
    BY <1>1 DEF Length
  <2>2. Slot(sq_tail + i - 1) # Slot(sq_head)
    BY <1>1, <2>1, SlotValue
  <2>3. Slot(sq_tail + i - 1) \in 0..(QueueSize - 1)
    BY <2>1, SlotsAreInTheRing
  <2> QED BY <2>2, <2>3, LineIsSequence DEF Push, PoolTypeOK
<1>4. queue'[Slot(sq_tail + (Length + 1) - 1)] = s
  <2>1. sq_tail + (Length + 1) - 1 = sq_head /\ Slot(sq_head) \in 0..(QueueSize - 1)
    BY <1>1, SlotsAreInTheRing DEF Length
  <2> QED BY <2>1 DEF Push, PoolTypeOK
<1>5. Line' = [i \in 1..(Length + 1) |-> queue'[Slot(sq_tail + i - 1)]]
  BY <1>2 DEF Line, Slot
<1>6. Len(Line) = Length /\ Line \in Seq(Sockets \cup {NoSocket})
  BY LineIsSequence
<1> DEFINE T == Sockets \cup {NoSocket}
           A == Append(Line, s)
<1>7. A \in Seq(T) /\ Len(A) = Length + 1 /\ A[Length + 1] = s /\ \A i \in 1..Length : A[i] = Line[i]
  BY <1>6, AppendProperties
<1>8. A \in [1..(Length + 1) -> T]
  BY <1>7, LenProperties
<1>9. ASSUME NEW i \in 1..(Length + 1) PROVE A[i] = queue'[Slot(sq_tail + i - 1)]
  <2>1. i = Length + 1 \/ i \in 1..Length
    BY <1>2
  <2> QED BY <1>3, <1>4, <1>7, <2>1
<1> HIDE DEF A
<1>10. A = Line'
  BY <1>5, <1>8, <1>9
<1> QED BY <1>10 DEF A

LEMMA PopLine ==
  ASSUME PoolTypeOK, Length > 0, NEW w \in Workers, Pop(w)
  PROVE  Line # <<>> /\ client'[w] = Head(Line) /\ Line' = Tail(Line)
<1> DEFINE wrap == IF sq_tail + 1 > QueueSize THEN QueueSize ELSE 0
<1>1. /\ QueueSize \in Nat \ {0} /\ sq_tail \in Nat /\ sq_head \in Nat
      /\ sq_tail <= QueueSize /\ sq_tail < sq_head /\ sq_head <= sq_tail + QueueSize
  BY PoolAssumption DEF PoolTypeOK, Length
<1>2. sq_tail' = sq_tail + 1 - wrap /\ sq_head' = sq_head - wrap /\ queue' = queue
  BY DEF Pop
<1>3. Length' = Length - 1 /\ Length \in Nat
  BY <1>1, <1>2 DEF Length
<1>4. ASSUME NEW i \in 1..(Length - 1) PROVE Slot(sq_tail' + i - 1) = Slot(sq_tail + (i + 1) - 1)
  <2> DEFINE j == sq_tail + i
  <2>1. j \in 0..(2 * QueueSize - 1) /\ j - wrap \in 0..(2 * QueueSize - 1)
    BY <1>1 DEF Length
  <2>2. wrap = 0 \/ (wrap = QueueSize /\ j >= QueueSize /\ j - wrap < QueueSize)
    BY <1>1 DEF Length
  <2>3. sq_tail' + i - 1 = j - wrap /\ sq_tail + (i + 1) - 1 = j
    BY <1>1, <1>2
  <2> HIDE DEF wrap, j
  <2>4. Slot(j - wrap) = Slot(j)
    BY <1>1, <2>1, <2>2, SlotValue
  <2> QED BY <2>3, <2>4
<1>5. Len(Line) = Length /\ Line \in Seq(Sockets \cup {NoSocket})
      /\ \A i \in 1..Length : Line[i] = queue[Slot(sq_tail + i - 1)]
  BY LineIsSequence
<1>6. client'[w] = Line[1] /\ Line # <<>>
  BY <1>1, <1>3, <1>5 DEF Pop, PoolTypeOK
<1>7. Line' = [i \in 1..(Length - 1) |-> Line[i + 1]]
  <2>1. Line' = [i \in 1..(Length - 1) |-> queue[Slot(sq_tail' + i - 1)]]
    BY <1>2, <1>3 DEF Line, Slot
  <2>2. \A i \in 1..(Length - 1) : queue[Slot(sq_tail' + i - 1)] = Line[i + 1]
    BY <1>3, <1>4, <1>5
  <2> QED BY <2>1, <2>2
<1> DEFINE T == Tail(Line)
<1>8. /\ T \in Seq(Sockets \cup {NoSocket}) /\ Len(T) = Length - 1
      /\ \A i \in 1..(Length - 1) : T[i] = Line[i + 1]
  BY <1>5, <1>6, HeadTailProperties
<1>9. T \in [1..(Length - 1) -> Sockets \cup {NoSocket}]
  BY <1>8, LenProperties
<1> HIDE DEF T
<1>10. T = Line'
  BY <1>7, <1>8, <1>9
<1>11. Head(Line) = Line[1]
  BY <1>5, <1>6
<1> QED BY <1>6, <1>10, <1>11 DEF T

LEMMA LineFrame == UNCHANGED ringVars => Line' = Line
BY DEF ringVars, Line, Length, Slot

(* A connection in the pool is in one place only: a slot of the ring, the   *)
(* hand of the master or of one worker; and it is open, so that the kernel  *)
(* does not hand it out again.  A worker that leaves has none.              *)
InLine(s) == \E i \in 1..Len(Line) : Line[i] = s

OneHolder ==
  /\ \A i \in 1..Len(Line) : Open(Line[i])
  /\ \A i, j \in 1..Len(Line) : Line[i] = Line[j] => i = j
  /\ accepted # NoSocket => Open(accepted) /\ ~InLine(accepted)
  /\ \A w \in Workers : client[w] # NoSocket =>
       /\ Open(client[w]) /\ ~InLine(client[w]) /\ client[w] # accepted
       /\ \A v \in Workers : client[v] = client[w] => v = w

RingInv ==
  /\ Line \in Seq(Sockets)
  /\ master \in {"produce", "full"} => accepted \in Sockets
  /\ \A w \in Workers : worker[w] \in {"leaving", "exited"} => client[w] = NoSocket
  /\ live => OneHolder

QueueInv == PoolTypeOK /\ ContextOutlivesThreads /\ HandsAreEmpty /\ RingInv

LEMMA EmptyLine == Length = 0 => Line = <<>>
BY DEF Line

LEMMA RingInit == PoolInit => RingInv
<1> SUFFICES ASSUME PoolInit PROVE RingInv
  OBVIOUS
<1>1. Line = <<>>
  BY EmptyLine DEF PoolInit, Length
<1> QED BY <1>1 DEF PoolInit, RingInv

LEMMA RingStep ==
  ASSUME QueueInv, [PoolNext]_poolVars
  PROVE  RingInv'
<1>0. /\ PoolTypeOK /\ RingInv /\ NoSocket \notin Sockets
      /\ Line \in Seq(Sockets) /\ Len(Line) \in Nat /\ \A i \in 1..Len(Line) : Line[i] \in Sockets
  BY PoolAssumption DEF QueueInv, RingInv
<1>a. UNCHANGED ringVars => Line' = Line
  BY LineFrame
<1> USE DEF PoolTypeOK, RingInv, OneHolder, InLine, Open, ringVars
<1>1. CASE StartPool
  <2>1. Line' = <<>>
    <3>1. Length' = 0 /\ (Length' = 0 => Line' = <<>>)
      BY <1>1, EmptyLine DEF StartPool, Length, Line
    <3> QED BY <3>1
  <2>2. accepted' = NoSocket /\ master' = "select" /\ \A w \in Workers : client'[w] = NoSocket
    BY <1>1 DEF StartPool
  <2> QED BY <2>1, <2>2
<1>2. CASE StopPool \/ FreeContext
  BY <1>0, <1>a, <1>2 DEF StopPool, RaiseStopFlag, FreeContext
<1>3. ASSUME NEW s \in Sockets, Connect(s) \/ GiveUp(s) PROVE RingInv'
  <2>1. UNCHANGED <<live, ringVars, master, accepted, worker, client>>
    BY <1>3 DEF Connect, GiveUp
  <2>2. \A t \in Sockets : Open(t) => Open(t)'
    BY <1>0, <1>3 DEF Connect, GiveUp
  <2> QED BY <1>0, <1>a, <2>1, <2>2
<1>4. ASSUME NEW s \in Sockets, AcceptConnection(s) PROVE RingInv'
  <2>1. UNCHANGED <<live, ringVars, worker, client>> /\ accepted' = s /\ accepted = NoSocket
    BY <1>4 DEF AcceptConnection, QueueInv, HandsAreEmpty
  <2>2. ~Open(s) /\ Open(s)' /\ \A t \in Sockets : Open(t) => Open(t)'
    BY <1>0, <1>4 DEF AcceptConnection
  <2> QED BY <1>0, <1>a, <2>1, <2>2
<1>5. CASE ProduceSocket
  <2>1. /\ UNCHANGED <<live, client, sock>> /\ accepted' = NoSocket /\ master' = "select"
        /\ accepted \in Sockets
    BY <1>0, <1>5 DEF ProduceSocket
  <2>2. \A w \in Workers : worker'[w] \in {"leaving", "exited"} => worker[w] \in {"leaving", "exited"}
    BY <1>0, <1>5 DEF ProduceSocket, SignalFull
  <2>3. CASE UNCHANGED ringVars
    BY <1>0, <1>a, <2>1, <2>2, <2>3
  <2>4. CASE HasRoom /\ Push(accepted)
    <3>1. Line' = Append(Line, accepted)
      BY <1>0, <2>1, <2>4, PushLine
    <3>2. /\ Line' \in Seq(Sockets) /\ Len(Line') = Len(Line) + 1
          /\ \A i \in 1..Len(Line') :
               Line'[i] = IF i = Len(Line) + 1 THEN accepted ELSE Line[i]
      <4>1. accepted \in Sockets /\ Line \in Seq(Sockets)
        BY <1>0, <2>1
      <4> HIDE DEF PoolTypeOK, RingInv, OneHolder, InLine, Open, ringVars
      <4> QED BY <3>1, <4>1, AppendProperties
    <3>3. OneHolder => OneHolder'
      BY <1>0, <2>1, <3>2
    <3> QED BY <1>0, <2>1, <2>2, <3>2, <3>3
  <2> QED BY <1>5, <2>3, <2>4 DEF ProduceSocket
<1>6. CASE WaitForRoom \/ LeaveLoop \/ StopWorkers \/ JoinWorkers
  <2>1. /\ UNCHANGED <<live, ringVars, accepted, client>>
        /\ master' \in {"produce", "full"} => master \in {"produce", "full"}
    BY <1>6 DEF WaitForRoom, LeaveLoop, StopWorkers, JoinWorkers
  <2>2. /\ \A t \in Sockets : Open(t) => Open(t)'
        /\ \A w \in Workers : worker'[w] \in {"leaving", "exited"} => worker[w] \in {"leaving", "exited"}
    BY <1>0, <1>6 DEF WaitForRoom, LeaveLoop, StopWorkers, JoinWorkers
  <2> QED BY <1>0, <1>a, <2>1, <2>2
<1>7. ASSUME NEW w \in Workers, ConsumeSocket(w) PROVE RingInv'
  <2>1. /\ UNCHANGED <<live, accepted, sock>> /\ client[w] = NoSocket
        /\ master' \in {"produce", "full"} => master \in {"produce", "full"}
        /\ worker' = [worker EXCEPT ![w] = "taken"]
    BY <1>7 DEF ConsumeSocket, SignalEmpty, QueueInv, HandsAreEmpty
  <2>2. CASE UNCHANGED <<ringVars, client>>
    BY <1>0, <1>a, <2>1, <2>2
  <2>3. CASE Length > 0 /\ Pop(w)
    <3>1. Line # <<>> /\ client'[w] = Head(Line) /\ Line' = Tail(Line)
      BY <1>0, <2>3, PopLine
    <3>2. /\ Line' \in Seq(Sockets) /\ Len(Line') = Len(Line) - 1
          /\ \A i \in 1..Len(Line') : Line'[i] = Line[i + 1]
      <4>1. Line \in Seq(Sockets)
        BY <1>0
      <4> HIDE DEF PoolTypeOK, RingInv, OneHolder, InLine, Open, ringVars
      <4> QED BY <3>1, <4>1, HeadTailProperties
    <3>3. client'[w] = Line[1] /\ 1 \in 1..Len(Line)
      BY <1>0, <3>1
    <3>4. \A v \in Workers \ {w} : client'[v] = client[v]
      BY <1>0, <2>3 DEF Pop
    <3>5. OneHolder => OneHolder'
      <4> SUFFICES ASSUME OneHolder PROVE OneHolder'
        OBVIOUS
      <4>1. \A i \in 1..Len(Line') : i + 1 \in 1..Len(Line) /\ i + 1 # 1
        BY <1>0, <3>2
      <4>2. \A i \in 1..Len(Line') : /\ Line'[i] # Line[1]
                                    /\ \E j \in 1..Len(Line) : Line'[i] = Line[j]
        BY <1>0, <3>2, <3>3, <4>1
      <4>3. ASSUME NEW i \in 1..Len(Line'), NEW j \in 1..Len(Line'), Line'[i] = Line'[j]
            PROVE  i = j
        <5>1. Line[i + 1] = Line[j + 1]
          BY <3>2, <4>3
        <5>2. i + 1 = j + 1
          BY <4>1, <5>1
        <5> QED BY <5>2
      <4>4. \A i \in 1..Len(Line') : sock'[Line'[i]] = "open"
        BY <2>1, <4>2
      <4>5. accepted' # NoSocket => sock'[accepted'] = "open" /\ \A i \in 1..Len(Line') : Line'[i] # accepted'
        BY <2>1, <4>2
      <4>6. ASSUME NEW v \in Workers, client'[v] # NoSocket
            PROVE  /\ sock'[client'[v]] = "open" /\ \A i \in 1..Len(Line') : Line'[i] # client'[v]
                   /\ client'[v] # accepted'
                   /\ \A u \in Workers : client'[u] = client'[v] => u = v
        <5>1. CASE v = w
          <6>1. accepted' # Line[1] /\ sock'[Line[1]] = "open"
            BY <1>0, <2>1, <3>3
          <6>2. \A u \in Workers \ {w} : client'[u] # Line[1]
            BY <1>0, <3>3, <3>4
          <6> QED BY <3>3, <4>2, <5>1, <6>1, <6>2
        <5>2. CASE v # w
          <6>1. client'[v] = client[v] /\ client[v] # NoSocket /\ ~InLine(client[v])
            BY <3>4, <4>6, <5>2
          <6>2. client'[v] # client'[w]
            BY <3>3, <6>1
          <6>3. \A i \in 1..Len(Line') : Line'[i] # client'[v]
            BY <4>2, <6>1
          <6>4. \A u \in Workers : client'[u] = client'[v] => u = v
            BY <3>4, <6>1, <6>2
          <6> QED BY <2>1, <6>1, <6>3, <6>4
        <5> QED BY <5>1, <5>2
      <4> QED BY <4>3, <4>4, <4>5, <4>6
    <3>6. \A v \in Workers : worker'[v] \in {"leaving", "exited"} => client'[v] = NoSocket
      BY <1>0, <2>1, <3>4
    <3> QED BY <1>0, <2>1, <3>2, <3>5, <3>6
  <2> QED BY <1>7, <2>2, <2>3 DEF ConsumeSocket
<1>8. ASSUME NEW w \in Workers, FindNothing(w) \/ FallAsleep(w) \/ ExitWorker(w) PROVE RingInv'
  <2>1. UNCHANGED <<live, ringVars, master, accepted, client, sock>>
    BY <1>8 DEF FindNothing, FallAsleep, ExitWorker
  <2>2. \A v \in Workers : worker'[v] \in {"leaving", "exited"} => worker[v] \in {"leaving", "exited"}
    BY <1>0, <1>8 DEF FindNothing, FallAsleep, ExitWorker
  <2> QED BY <1>0, <1>a, <2>1, <2>2
<1>9. ASSUME NEW w \in Workers, ServeOrLeave(w) PROVE RingInv'
  <2>1. UNCHANGED <<live, ringVars, master, accepted, sock>>
    BY <1>9 DEF ServeOrLeave
  <2>2. /\ \A v \in Workers : client'[v] = NoSocket \/ client'[v] = client[v]
        /\ \A v \in Workers : worker'[v] \in {"leaving", "exited"} => client'[v] = NoSocket
    BY <1>0, <1>9 DEF ServeOrLeave
  <2> QED BY <1>0, <1>a, <2>1, <2>2
<1>10. ASSUME NEW w \in Workers, CloseConnection(w) PROVE RingInv'
  <2>1. UNCHANGED <<live, ringVars, master, accepted>>
    BY <1>10 DEF CloseConnection
  <2>2. /\ \A v \in Workers : client'[v] = IF v = w THEN NoSocket ELSE client[v]
        /\ \A v \in Workers : worker'[v] \in {"leaving", "exited"} => client'[v] = NoSocket
        /\ \A t \in Sockets : t # client[w] /\ Open(t) => Open(t)'
    BY <1>0, <1>10 DEF CloseConnection
  <2>3. OneHolder => OneHolder'
    BY <1>0, <1>a, <2>1, <2>2
  <2> QED BY <1>0, <1>a, <2>1, <2>2, <2>3
<1>11. CASE UNCHANGED poolVars
  BY <1>0, <1>a, <1>11 DEF poolVars
<1> QED
  BY <1>1, <1>2, <1>3, <1>4, <1>5, <1>6, <1>7, <1>8, <1>9, <1>10, <1>11
  DEF PoolNext, Master, BetweenRequests

(* A connection that is held, and has one holder, has one owner.            *)
LEMMA OneOwner == QueueInv /\ EveryConnectionIsHeld => EveryConnectionHasOneOwner
<1> SUFFICES ASSUME QueueInv, EveryConnectionIsHeld, live, stop_flag = 0, NEW s \in Sockets, Open(s)
             PROVE  HasOneOwner(s)
  BY DEF EveryConnectionHasOneOwner
<1>1. /\ PoolTypeOK /\ OneHolder /\ s # NoSocket /\ sq_tail \in Nat /\ sq_head \in Nat
      /\ s = accepted \/ s \in InRing \/ \E w \in Workers : client[w] = s
  BY PoolAssumption DEF QueueInv, RingInv, EveryConnectionIsHeld, PoolTypeOK
<1>2. ASSUME NEW i \in Slots(s)
      PROVE  /\ i \in Int /\ i - sq_tail + 1 \in 1..Len(Line)
             /\ Line[i - sq_tail + 1] = s
  <2>1. i \in sq_tail..(sq_head - 1) /\ queue[Slot(i)] = s
    BY DEF Slots
  <2>2. i - sq_tail + 1 \in 1..Length /\ sq_tail + (i - sq_tail + 1) - 1 = i
    BY <1>1, <2>1 DEF Length
  <2> QED BY <1>1, <2>1, <2>2, LineIsSequence
<1>3. \A i, j \in Slots(s) : i = j
  <2> SUFFICES ASSUME NEW i \in Slots(s), NEW j \in Slots(s) PROVE i = j
    OBVIOUS
  <2>1. i - sq_tail + 1 = j - sq_tail + 1
    BY <1>1, <1>2 DEF OneHolder
  <2> QED BY <1>1, <1>2, <2>1
<1>4. s = accepted => Slots(s) = {} /\ Holders(s) = {}
  BY <1>1, <1>2 DEF OneHolder, InLine, Holders
<1>5. Slots(s) # {} => Holders(s) = {}
  BY <1>1, <1>2 DEF OneHolder, InLine, Holders
<1>6. \A v, w \in Holders(s) : v = w
  BY <1>1 DEF OneHolder, Holders
<1>7. s = accepted \/ Slots(s) # {} \/ Holders(s) # {}
  BY <1>1 DEF InRing, Slots, Holders
<1>8. CASE s = accepted
  BY <1>4, <1>8 DEF HasOneOwner
<1>9. CASE s # accepted /\ Slots(s) # {}
  BY <1>3, <1>5, <1>9 DEF HasOneOwner
<1>10. CASE s # accepted /\ Slots(s) = {}
  BY <1>6, <1>7, <1>10 DEF HasOneOwner
<1> QED BY <1>8, <1>9, <1>10

(* produce_socket and consume_socket lose no connection and hand none out    *)
(* twice: each open one is the master's, or in exactly one slot of the ring, *)
(* or exactly one worker's.                                                  *)
THEOREM ConnectionsHaveOneOwner == PoolSpec => []EveryConnectionHasOneOwner
<1>1. PoolInit => QueueInv /\ EveryConnectionIsHeld
  BY PoolTypeInit, ContextInit, HandsInit, RingInit DEF QueueInv
<1>2. QueueInv /\ EveryConnectionIsHeld /\ [PoolNext]_poolVars => QueueInv' /\ EveryConnectionIsHeld'
  BY PoolTypeStep, ContextStep, HandsStep, RingStep, OwnersStep DEF QueueInv, OwnersInv
<1> QED BY <1>1, <1>2, OneOwner, PTL DEF PoolSpec

(* Every step of the pool is one of the queue or leaves it alone.           *)
LEMMA QueueStep ==
  ASSUME QueueInv, [PoolNext]_poolVars
  PROVE  [Ring!Next]_(Ring!vars)
<1>0. /\ PoolTypeOK /\ RingInv /\ HandsAreEmpty /\ NoSocket \notin Sockets
      /\ Line \in Seq(Sockets) /\ Len(Line) \in Nat /\ \A i \in 1..Len(Line) : Line[i] \in Sockets
  BY PoolAssumption DEF QueueInv, RingInv
<1>a. UNCHANGED ringVars => Line' = Line
  BY LineFrame
<1>b. ASSUME Line' = Line, client' = client PROVE [Ring!Next]_(Ring!vars)
  BY <1>b DEF Ring!vars
<1> USE DEF PoolTypeOK, ringVars
<1>1. CASE StartPool
  <2>1. Line' = <<>>
    <3>1. Length' = 0 /\ (Length' = 0 => Line' = <<>>)
      BY <1>1, EmptyLine DEF StartPool, Length, Line
    <3> QED BY <3>1
  <2>2. \A w \in Workers : client[w] = NoSocket
    BY <1>1 DEF StartPool, QueueInv, ContextOutlivesThreads, RingInv
  <2>3. client' = client
    BY <1>0, <1>1, <2>2 DEF StartPool
  <2>4. Ring!Discard
    BY <2>1, <2>2, <2>3 DEF Ring!Discard, Ring!Taken
  <2> QED BY <2>4 DEF Ring!Next
<1>2. CASE StopPool \/ FreeContext
  BY <1>a, <1>b, <1>2 DEF StopPool, RaiseStopFlag, FreeContext
<1>3. CASE \E s \in Sockets : Connect(s) \/ GiveUp(s) \/ AcceptConnection(s)
  BY <1>a, <1>b, <1>3 DEF Connect, GiveUp, AcceptConnection
<1>4. CASE ProduceSocket
  <2>1. accepted \in Sockets /\ UNCHANGED client
    BY <1>0, <1>4 DEF ProduceSocket, RingInv
  <2>2. CASE UNCHANGED ringVars
    BY <1>a, <1>b, <2>1, <2>2
  <2>3. CASE HasRoom /\ Push(accepted)
    <3>1. Line' = Append(Line, accepted)
      BY <1>0, <2>1, <2>3, PushLine
    <3>2. Len(Line) < QueueSize
      BY <1>0, <2>3, LineIsSequence DEF HasRoom
    <3>3. OneHolder
      BY <1>0, <1>4 DEF ProduceSocket, RingInv, QueueInv, ContextOutlivesThreads
    <3>4. accepted \notin Ring!Waiting \cup Ring!Taken
      BY <1>0, <2>1, <3>3 DEF OneHolder, InLine, Ring!Waiting, Ring!Taken
    <3>5. Ring!Put(accepted)
      BY <2>1, <3>1, <3>2, <3>4 DEF Ring!Put
    <3> QED BY <2>1, <3>5 DEF Ring!Next
  <2> QED BY <1>4, <2>2, <2>3 DEF ProduceSocket
<1>5. CASE WaitForRoom \/ LeaveLoop \/ StopWorkers \/ JoinWorkers
  BY <1>a, <1>b, <1>5 DEF WaitForRoom, LeaveLoop, StopWorkers, JoinWorkers
<1>6. ASSUME NEW w \in Workers, ConsumeSocket(w) PROVE [Ring!Next]_(Ring!vars)
  <2>1. client[w] = NoSocket
    BY <1>0, <1>6 DEF ConsumeSocket, HandsAreEmpty
  <2>2. CASE UNCHANGED <<ringVars, client>>
    BY <1>a, <1>b, <2>2
  <2>3. CASE Length > 0 /\ Pop(w)
    <3>1. Line # <<>> /\ client'[w] = Head(Line) /\ Line' = Tail(Line)
      BY <1>0, <2>3, PopLine
    <3>2. client' = [client EXCEPT ![w] = Head(Line)]
      BY <1>0, <2>3, <3>1 DEF Pop
    <3>3. Ring!Take(w)
      BY <2>1, <3>1, <3>2 DEF Ring!Take
    <3> QED BY <3>3 DEF Ring!Next
  <2> QED BY <1>6, <2>2, <2>3 DEF ConsumeSocket
<1>7. ASSUME NEW w \in Workers, FindNothing(w) \/ FallAsleep(w) \/ ExitWorker(w)
      PROVE  [Ring!Next]_(Ring!vars)
  BY <1>a, <1>b, <1>7 DEF FindNothing, FallAsleep, ExitWorker
<1>8. ASSUME NEW w \in Workers, ServeOrLeave(w) \/ CloseConnection(w) PROVE [Ring!Next]_(Ring!vars)
  <2>1. Line' = Line
    BY <1>a, <1>8 DEF ServeOrLeave, CloseConnection
  <2>2. client' = client \/ client' = [client EXCEPT ![w] = NoSocket]
    BY <1>8 DEF ServeOrLeave, CloseConnection
  <2>3. CASE client' = client
    BY <1>b, <2>1, <2>3
  <2>4. CASE client' = [client EXCEPT ![w] = NoSocket] /\ client[w] = NoSocket
    BY <1>0, <1>b, <2>1, <2>4
  <2>5. CASE client' = [client EXCEPT ![w] = NoSocket] /\ client[w] # NoSocket
    <3>1. Ring!Release(w)
      BY <2>1, <2>5 DEF Ring!Release
    <3> QED BY <3>1 DEF Ring!Next
  <2> QED BY <2>2, <2>3, <2>4, <2>5
<1>9. CASE UNCHANGED poolVars
  BY <1>a, <1>b, <1>9 DEF poolVars
<1> QED
  BY <1>1, <1>2, <1>3, <1>4, <1>5, <1>6, <1>7, <1>8, <1>9 DEF PoolNext, Master, BetweenRequests

(* IsSocketQueue: the ring, its wrapping indices and the critical sections   *)
(* of the master and the workers implement a bounded first-in first-out     *)
(* queue that hands every connection to one worker, for any size of the     *)
(* ring and any number of workers.                                          *)
THEOREM RingIsAQueue == PoolSpec => IsSocketQueue
<1>1. PoolInit => QueueInv
  BY PoolTypeInit, ContextInit, HandsInit, RingInit DEF QueueInv
<1>2. QueueInv /\ [PoolNext]_poolVars => QueueInv'
  BY PoolTypeStep, ContextStep, HandsStep, RingStep DEF QueueInv
<1>3. PoolInit => Ring!Init
  <2> SUFFICES ASSUME PoolInit PROVE Ring!Init
    OBVIOUS
  <2>1. Line = <<>>
    BY EmptyLine DEF PoolInit, Length
  <2> QED BY <2>1 DEF PoolInit, Ring!Init
<1>4. QueueInv /\ [PoolNext]_poolVars => [Ring!Next]_(Ring!vars)
  BY QueueStep
<1> QED BY <1>1, <1>2, <1>3, <1>4, PTL DEF PoolSpec, IsSocketQueue, Ring!Spec

-----------------------------------------------------------------------------
(* The server.                                                              *)

(* A handler runs in a worker that serves a connection, so the pool cannot  *)
(* end around it: a Stop that is called from a handler never returns.       *)
HandlersServe ==
  \A w \in Workers :
    /\ phase[w] # "none" => worker[w] = "serving"
    /\ stopPc[w] # "none" => phase[w] = "stop" /\ stopPc[w] # "closing"

(* What exists when: the context, the routes, and a Stop under way.         *)
Lifetimes ==
  /\ live => state_ = "RUNNING"
  /\ stopPc[App] = "closing" => ~live
  /\ state_ = "RUNNING" => live \/ stopPc[App] = "closing"
  /\ \A c \in Callers : stopPc[c] # "none" => state_ = "RUNNING"
  /\ live /\ stop_flag # 0 => \E c \in Callers : stopPc[c] = "joining"
  /\ master \in {"closing", "join"} => stop_flag # 0
  /\ state_ # "UNCONFIGURED" => routeTable_ # "null"

ServerInv == TypeOK /\ ContextOutlivesThreads /\ HandlersServe /\ Lifetimes

(* While a handler runs the pool lives, and its flag is not lowered.        *)
LEMMA ServingPool ==
  ASSUME ServerInv, NEW w \in Workers, phase[w] # "none"
  PROVE  live /\ stop_flag \in {0, 1} /\ stopPc[App] # "closing"
<1>1. worker[w] = "serving"
  BY DEF ServerInv, HandlersServe
<1>2. live /\ stop_flag # 2
  BY <1>1 DEF ServerInv, ContextOutlivesThreads
<1> QED BY <1>2 DEF ServerInv, Lifetimes, TypeOK, PoolTypeOK

(* What the pool does by itself.                                            *)
LEMMA PoolFrame ==
  ASSUME PoolStep
  PROVE  /\ UNCHANGED serverVars
         /\ live' = live
         /\ \/ stop_flag' = stop_flag
            \/ master = "join" /\ stop_flag' = 2
         /\ master' \in {"closing", "join"} => master \in {"closing", "join"} \/ stop_flag # 0
<1>1. CASE \E s \in Sockets : Connect(s) \/ GiveUp(s)
  BY <1>1 DEF PoolStep, Connect, GiveUp
<1>2. CASE Master
  BY <1>2 DEF PoolStep, Master, AcceptConnection, ProduceSocket, WaitForRoom, LeaveLoop, StopWorkers,
              JoinWorkers
<1>3. CASE \E w \in Workers : BetweenRequests(w)
  BY <1>3 DEF PoolStep, BetweenRequests, ConsumeSocket, SignalEmpty, FindNothing, FallAsleep,
              ServeOrLeave, ExitWorker
<1> QED BY <1>1, <1>2, <1>3 DEF PoolStep

(* Between requests nobody touches a worker that serves one.                *)
LEMMA ServingFrame ==
  ASSUME PoolTypeOK, PoolStep, NEW w \in Workers, worker[w] = "serving"
  PROVE  worker'[w] = "serving"
<1> USE DEF PoolTypeOK
<1>1. CASE \E s \in Sockets : Connect(s) \/ GiveUp(s)
  BY <1>1 DEF Connect, GiveUp
<1>2. CASE ProduceSocket
  BY <1>2 DEF ProduceSocket, SignalFull
<1>3. CASE StopWorkers
  BY <1>3 DEF StopWorkers
<1>4. CASE (\E s \in Sockets : AcceptConnection(s)) \/ WaitForRoom \/ LeaveLoop \/ JoinWorkers
  BY <1>4 DEF AcceptConnection, WaitForRoom, LeaveLoop, JoinWorkers
<1>5. CASE \E v \in Workers : BetweenRequests(v)
  BY <1>5 DEF BetweenRequests, ConsumeSocket, FindNothing, FallAsleep, ServeOrLeave, ExitWorker
<1> QED BY <1>1, <1>2, <1>3, <1>4, <1>5 DEF PoolStep, Master

-----------------------------------------------------------------------------
(* Server starts and stops its pool as HttpPool says: no second mg_start, a *)
(* stop flag that is raised on a live context only, one free_context.       *)
LEMMA UsesThePool ==
  ASSUME ServerInv, [Next]_vars
  PROVE  [PoolNext]_poolVars
<1>1. CASE PoolStep
  BY <1>1 DEF PoolStep, PoolNext
<1>2. CASE AppCalls
  BY <1>2 DEF AppCalls, Configure, Reset, SetRouteTable, Start, StopCalled, PoolNext
<1>3. ASSUME NEW c \in Callers, MgStop(c) PROVE [PoolNext]_poolVars
  <2>1. live /\ stop_flag \in {0, 1}
    <3>1. CASE c \in Workers
      BY <1>3, <3>1, ServingPool DEF MgStop, ServerInv, HandlersServe
    <3>2. CASE c = App
      <4>1. live /\ stop_flag \in 0..2
        BY <1>3, <3>2 DEF MgStop, ServerInv, Lifetimes, Callers, TypeOK, PoolTypeOK
      <4>2. ASSUME stop_flag = 2 PROVE FALSE
        <5>1. PICK d \in Callers : stopPc[d] = "joining"
          BY <4>1, <4>2 DEF ServerInv, Lifetimes
        <5>2. d \in Workers
          BY <1>3, <3>2, <5>1 DEF MgStop, Callers
        <5> QED BY <4>2, <5>1, <5>2, ServingPool DEF ServerInv, HandlersServe
      <4> QED BY <4>1, <4>2
    <3> QED BY <3>1, <3>2 DEF Callers
  <2> QED BY <1>3, <2>1 DEF MgStop, RaiseStopFlag, PoolNext, StopPool, poolVars
<1>4. ASSUME NEW c \in Callers, MgStopReturns(c) \/ CloseSession(c) \/ StopReturnsTo(c)
      PROVE  [PoolNext]_poolVars
  BY <1>4 DEF MgStopReturns, CloseSession, StopReturnsTo, PoolNext
<1>5. ASSUME NEW w \in Workers, Handle(w) \/ BodyArrives(w) PROVE [PoolNext]_poolVars
  BY <1>5 DEF Handle, CheckNoSession, BodyArrives, ExecuteQuick, ExecuteInSession, ExecuteCreate, ExecuteShutdown,
              RunTask, Respond, StopCalled, PoolNext
<1>6. ASSUME NEW w \in Workers, NEW k \in Jobs, NEW s \in Sessions \cup {NoSession}, Receive(w, k, s)
      PROVE  [PoolNext]_poolVars
  BY <1>6 DEF Receive
<1>7. CASE ProcessExit \/ UNCHANGED vars
  BY <1>7 DEF ProcessExit, vars
<1> QED BY <1>1, <1>2, <1>3, <1>4, <1>5, <1>6, <1>7 DEF Next, Stopping

-----------------------------------------------------------------------------
(* Types.                                                                   *)
LEMMA TypeStep ==
  ASSUME TypeOK, [PoolNext]_poolVars, [Next]_vars
  PROVE  TypeOK'
<1>0. PoolTypeOK'
  BY PoolTypeStep DEF TypeOK
<1>a. App \in Callers /\ Workers \subseteq Callers
  BY DEF Callers
<1>1. CASE PoolStep \/ UNCHANGED vars \/ ProcessExit
  BY <1>0, <1>1 DEF PoolStep, vars, ProcessExit, TypeOK, serverVars, configVars, optionVars,
                    handlerVars, stopVars, uiVars
<1> USE DEF TypeOK, configVars, optionVars, handlerVars, stopVars, uiVars, Goto, StopGoto
<1>2. ASSUME NEW o \in Options, Configure(o) PROVE TypeOK'
  BY <1>0, <1>2 DEF Configure, Options, States
<1>3. CASE Reset \/ SetRouteTable \/ Start
  BY <1>0, <1>3 DEF Reset, SetRouteTable, Start, States
<1>4. ASSUME NEW c \in Callers, NEW force \in BOOLEAN, StopCalled(c, force) PROVE TypeOK'
  <2>1. phase' \in [Workers -> Phases]
    BY <1>4 DEF StopCalled, StopAtOnce, CopySessions, Callers, Phases
  <2>2. stopPc' \in [Callers -> StopPcs] /\ snap' \in [Callers -> SUBSET (Sessions \cup {NoSession})]
    BY <1>4 DEF StopCalled, StopAtOnce, CopySessions, StopPcs
  <2>3. created' \in SUBSET Sessions
    BY <1>4 DEF StopCalled, StopAtOnce, CopySessions
  <2> QED BY <1>0, <1>4, <2>1, <2>2, <2>3 DEF StopCalled
<1>5. ASSUME NEW c \in Callers, MgStop(c) \/ MgStopReturns(c) PROVE TypeOK'
  BY <1>0, <1>5 DEF MgStop, MgStopReturns, StopPcs
<1>6. ASSUME NEW c \in Callers, CloseSession(c) PROVE TypeOK'
  BY <1>0, <1>6 DEF CloseSession
<1>7. ASSUME NEW c \in Callers, StopReturnsTo(c) PROVE TypeOK'
  BY <1>0, <1>7 DEF StopReturnsTo, StopPcs, States, Phases, Callers
<1>8. ASSUME NEW w \in Workers, NEW k \in Jobs, NEW s \in Sessions \cup {NoSession}, Receive(w, k, s)
      PROVE  TypeOK'
  BY <1>0, <1>8 DEF Receive, Phases
<1>9. ASSUME NEW w \in Workers, BodyArrives(w) \/ ExecuteQuick(w) \/ ExecuteInSession(w) \/ CheckNoSession(w)
      PROVE  TypeOK'
  BY <1>0, <1>9 DEF BodyArrives, ExecuteQuick, ExecuteInSession, CheckNoSession, Answer, Phases, Jobs
<1>10. ASSUME NEW w \in Workers, ExecuteCreate(w) PROVE TypeOK'
  BY <1>0, <1>10 DEF ExecuteCreate, Phases
<1>11. ASSUME NEW w \in Workers, ExecuteShutdown(w) PROVE TypeOK'
  BY <1>0, <1>11 DEF ExecuteShutdown, Phases
<1>12. ASSUME NEW w \in Workers, RunTask(w) PROVE TypeOK'
  <2>1. /\ sessions' \in SUBSET Sessions
        /\ snap' \in [Callers -> SUBSET (Sessions \cup {NoSession})]
        /\ created' \in SUBSET Sessions
    BY <1>12 DEF RunTask, DeleteSession
  <2> QED BY <1>0, <1>12, <2>1 DEF RunTask, Answer, Phases, Jobs
<1>13. ASSUME NEW w \in Workers, Respond(w) PROVE TypeOK'
  BY <1>0, <1>13 DEF Respond, Phases, Jobs
<1> QED
  BY <1>a, <1>1, <1>2, <1>3, <1>4, <1>5, <1>6, <1>7, <1>8, <1>9, <1>10, <1>11, <1>12, <1>13
  DEF Next, AppCalls, Stopping, Handle

-----------------------------------------------------------------------------
LEMMA HandlersStep ==
  ASSUME ServerInv, [Next]_vars
  PROVE  HandlersServe'
<1>0. TypeOK /\ HandlersServe /\ App \notin Workers
  BY ServerAssumption DEF ServerInv
<1> USE DEF TypeOK, PoolTypeOK, HandlersServe, configVars, handlerVars, stopVars, uiVars, Goto,
            StopGoto, Callers
<1>1. CASE PoolStep
  <2>1. UNCHANGED <<phase, stopPc>>
    BY <1>1, PoolFrame DEF serverVars
  <2>2. \A w \in Workers : worker[w] = "serving" => worker'[w] = "serving"
    BY <1>0, <1>1, ServingFrame
  <2> QED BY <1>0, <2>1, <2>2
<1>2. CASE (\E o \in Options : Configure(o)) \/ Reset \/ SetRouteTable
  BY <1>0, <1>2 DEF Configure, Reset, SetRouteTable, poolVars
<1>3. CASE Start
  <2>1. ~live
    BY <1>3 DEF Start, StartPool
  <2>2. \A w \in Workers : phase[w] = "none"
    BY <2>1, ServingPool
  <2> QED BY <1>0, <1>3, <2>2 DEF Start
<1>4. ASSUME NEW c \in Callers, NEW force \in BOOLEAN, StopCalled(c, force) PROVE HandlersServe'
  <2>1. UNCHANGED worker /\ (c \in Workers => phase[c] = "stop")
    BY <1>0, <1>4 DEF StopCalled, poolVars
  <2>2. CASE c = App
    BY <1>0, <1>4, <2>1, <2>2 DEF StopCalled, StopAtOnce, CopySessions
  <2>3. CASE c \in Workers
    <3>1. stopPc[c] = "none"
      BY <1>0, <1>4, <2>3 DEF StopCalled
    <3> QED BY <1>0, <1>4, <2>1, <2>3, <3>1 DEF StopCalled, StopAtOnce, CopySessions
  <2> QED BY <2>2, <2>3
<1>5. ASSUME NEW c \in Callers, MgStop(c) PROVE HandlersServe'
  BY <1>0, <1>5 DEF MgStop, RaiseStopFlag
<1>6. ASSUME NEW c \in Callers, MgStopReturns(c) PROVE HandlersServe'
  <2>1. stop_flag = 2 /\ stopPc' = [stopPc EXCEPT ![c] = "closing"] /\ UNCHANGED <<phase, worker>>
    BY <1>6 DEF MgStopReturns, FreeContext
  <2>2. c = App
    BY <1>0, <1>6, <2>1, ServingPool DEF MgStopReturns
  <2> QED BY <1>0, <2>1, <2>2
<1>7. ASSUME NEW c \in Callers, CloseSession(c) \/ StopReturnsTo(c) PROVE HandlersServe'
  <2>1. c = App
    BY <1>0, <1>7 DEF CloseSession, StopReturnsTo
  <2> QED BY <1>0, <1>7, <2>1 DEF CloseSession, StopReturnsTo, poolVars
<1>8. ASSUME NEW w \in Workers, NEW k \in Jobs, NEW s \in Sessions \cup {NoSession}, Receive(w, k, s)
      PROVE  HandlersServe'
  BY <1>0, <1>8 DEF Receive, poolVars
<1>9. ASSUME NEW w \in Workers,
             \/ BodyArrives(w) \/ ExecuteQuick(w) \/ ExecuteInSession(w) \/ ExecuteShutdown(w)
             \/ CheckNoSession(w)
             \/ ExecuteCreate(w) \/ RunTask(w)
      PROVE  HandlersServe'
  <2>1. /\ phase[w] \in {"reading", "execute", "creating", "task"}
        /\ UNCHANGED <<worker, stopPc>>
        /\ \E p \in Phases : phase' = [phase EXCEPT ![w] = p]
    BY <1>9 DEF Answer, CheckNoSession, BodyArrives, ExecuteQuick, ExecuteInSession, ExecuteShutdown, ExecuteCreate, RunTask,
                Phases, poolVars
  <2> QED BY <1>0, <2>1
<1>10. ASSUME NEW w \in Workers, Respond(w) PROVE HandlersServe'
  BY <1>0, <1>10 DEF Respond, CloseConnection
<1>11. CASE ProcessExit \/ UNCHANGED vars
  BY <1>0, <1>11 DEF ProcessExit, vars, serverVars, poolVars
<1> QED
  BY <1>1, <1>2, <1>3, <1>4, <1>5, <1>6, <1>7, <1>8, <1>9, <1>10, <1>11
  DEF Next, AppCalls, Stopping, Handle

LEMMA LifetimesStep ==
  ASSUME ServerInv, [Next]_vars
  PROVE  Lifetimes'
<1>0. TypeOK /\ Lifetimes /\ App \in Callers
  BY DEF ServerInv, Callers
<1> USE DEF TypeOK, PoolTypeOK, Lifetimes, configVars, handlerVars, stopVars, uiVars, Goto, StopGoto
<1>1. CASE PoolStep
  BY <1>0, <1>1, PoolFrame DEF serverVars
<1>2. CASE (\E o \in Options : Configure(o)) \/ Reset \/ SetRouteTable
  <2>1. \A c \in Callers : stopPc[c] = "none"
    BY <1>0, <1>2 DEF Configure, Reset, SetRouteTable
  <2> QED BY <1>0, <1>2, <2>1 DEF Configure, Reset, SetRouteTable, poolVars
<1>3. CASE Start
  <2>1. \A c \in Callers : stopPc[c] = "none"
    BY <1>0, <1>3 DEF Start
  <2>2. live' /\ stop_flag' = 0 /\ master' = "select" /\ state_' = "RUNNING"
    BY <1>3 DEF Start, StartPool
  <2> QED BY <1>0, <1>3, <2>1, <2>2 DEF Start
<1>4. ASSUME NEW c \in Callers, NEW force \in BOOLEAN, StopCalled(c, force) PROVE Lifetimes'
  <2>1. UNCHANGED <<live, stop_flag, master, state_, routeTable_>> /\ stopPc[c] = "none"
    BY <1>4 DEF StopCalled, AppReady, poolVars
  <2>2. \/ UNCHANGED stopPc
        \/ state_ = "RUNNING" /\ stopPc' = [stopPc EXCEPT ![c] = "copied"]
    BY <1>4 DEF StopCalled, StopAtOnce, CopySessions
  <2>3. CASE UNCHANGED stopPc
    BY <1>0, <2>1, <2>3
  <2>4. CASE state_ = "RUNNING" /\ stopPc' = [stopPc EXCEPT ![c] = "copied"]
    <3>1. \A d \in Callers : stopPc'[d] = IF d = c THEN "copied" ELSE stopPc[d]
      BY <1>0, <2>4
    <3> QED BY <1>0, <2>1, <2>4, <3>1
  <2> QED BY <2>2, <2>3, <2>4
<1>5. ASSUME NEW c \in Callers, MgStop(c) PROVE Lifetimes'
  <2>1. /\ stopPc[c] = "copied" /\ stop_flag' = 1 /\ UNCHANGED <<live, master, state_, routeTable_>>
        /\ \A d \in Callers : stopPc'[d] = IF d = c THEN "joining" ELSE stopPc[d]
    BY <1>0, <1>5 DEF MgStop, RaiseStopFlag
  <2> QED BY <1>0, <2>1
<1>6. ASSUME NEW c \in Callers, MgStopReturns(c) PROVE Lifetimes'
  <2>1. c = App
    BY <1>6, ServingPool DEF MgStopReturns, FreeContext, ServerInv, HandlersServe, Callers
  <2>2. /\ stopPc[c] = "joining" /\ ~live' /\ UNCHANGED <<stop_flag, master, state_, routeTable_>>
        /\ \A d \in Callers : stopPc'[d] = IF d = App THEN "closing" ELSE stopPc[d]
    BY <1>0, <1>6, <2>1 DEF MgStopReturns, FreeContext
  <2> QED BY <1>0, <2>1, <2>2
<1>7. ASSUME NEW c \in Callers, CloseSession(c) PROVE Lifetimes'
  BY <1>0, <1>7 DEF CloseSession, poolVars
<1>8. ASSUME NEW c \in Callers, StopReturnsTo(c) PROVE Lifetimes'
  <2>1. c = App
    BY <1>8 DEF StopReturnsTo, ServerInv, HandlersServe, Callers
  <2>2. ~live /\ \A w \in Workers : stopPc[w] = "none"
    BY <1>0, <1>8, <2>1, ServingPool DEF StopReturnsTo, ServerInv, HandlersServe
  <2>3. /\ UNCHANGED <<live, stop_flag, master, routeTable_>> /\ state_ = "RUNNING" /\ state_' = "IDLE"
        /\ \A d \in Callers : stopPc'[d] = "none"
    BY <1>0, <1>8, <2>1, <2>2 DEF StopReturnsTo, poolVars, Callers
  <2> QED BY <1>0, <2>2, <2>3
<1>9. ASSUME NEW w \in Workers,
             \/ BodyArrives(w) \/ ExecuteQuick(w) \/ ExecuteInSession(w) \/ ExecuteShutdown(w)
             \/ CheckNoSession(w)
             \/ ExecuteCreate(w) \/ RunTask(w) \/ Respond(w)
             \/ \E k \in Jobs, s \in Sessions \cup {NoSession} : Receive(w, k, s)
      PROVE  Lifetimes'
  <2>1. UNCHANGED <<live, stop_flag, master, state_, routeTable_, stopPc>>
    BY <1>9 DEF Answer, CheckNoSession, BodyArrives, ExecuteQuick, ExecuteInSession, ExecuteShutdown, ExecuteCreate, RunTask,
                Respond, CloseConnection, Receive, poolVars
  <2> QED BY <1>0, <2>1
<1>10. CASE ProcessExit \/ UNCHANGED vars
  BY <1>0, <1>10 DEF ProcessExit, vars, serverVars, poolVars
<1> QED
  BY <1>1, <1>2, <1>3, <1>4, <1>5, <1>6, <1>7, <1>8, <1>9, <1>10
  DEF Next, AppCalls, Stopping, Handle, Callers

LEMMA ServerInvariant == Spec => []ServerInv
<1>1. Init => ServerInv
  <2> SUFFICES ASSUME Init PROVE ServerInv
    OBVIOUS
  <2>1. PoolTypeOK /\ ContextOutlivesThreads
    BY PoolTypeInit, ContextInit DEF Init
  <2>2. TypeOK
    <3>1. given \in Options
      BY DEF Init, Options
    <3>2. /\ phase \in [Workers -> Phases] /\ job \in [Workers -> Jobs]
          /\ target \in [Workers -> Sessions \cup {NoSession}]
          /\ stopPc \in [Callers -> StopPcs]
          /\ snap \in [Callers -> SUBSET (Sessions \cup {NoSession})]
      BY DEF Init, Phases, Jobs, StopPcs
    <3>3. /\ state_ \in States /\ routeTable_ \in {"null", "default", "custom"}
          /\ url_base_ \in UrlBases \cup {NoBase} /\ accessList \in SUBSET Lists
          /\ sessions \in SUBSET Sessions /\ created \in SUBSET Sessions /\ ui \in {"running", "quit"}
      BY DEF Init, States
    <3>4. appIsUI \in BOOLEAN /\ ub \in BOOLEAN /\ exited \in BOOLEAN
      BY Zenon DEF Init
    <3> QED BY <2>1, <3>1, <3>2, <3>3, <3>4 DEF TypeOK
  <2>3. HandlersServe
    BY DEF Init, HandlersServe, Callers
  <2>4. Lifetimes
    BY DEF Init, PoolInit, Lifetimes, Callers
  <2> QED BY <2>1, <2>2, <2>3, <2>4 DEF ServerInv
<1>2. ServerInv /\ [Next]_vars => ServerInv'
  <2> SUFFICES ASSUME ServerInv, [Next]_vars PROVE ServerInv'
    OBVIOUS
  <2>1. [PoolNext]_poolVars
    BY UsesThePool
  <2>2. TypeOK'
    BY <2>1, TypeStep DEF ServerInv
  <2>3. ContextOutlivesThreads'
    BY <2>1, ContextStep DEF ServerInv, TypeOK
  <2> QED BY <2>2, <2>3, HandlersStep, LifetimesStep DEF ServerInv
<1> QED BY <1>1, <1>2, PTL DEF Spec

(* The variables of Server and of its pool keep their types, through every  *)
(* interleaving of Stop with the handlers.                                  *)
THEOREM TypeCorrect == Spec => []TypeOK
BY ServerInvariant, PTL DEF ServerInv

(* Server implements the environment that HttpPool assumes: it starts a pool *)
(* only when there is none, and raises the flag of a live one.  What is      *)
(* proved of the pool alone holds of the pool inside the server.             *)
THEOREM ServerRunsItsPool == Spec => PoolSpec
<1>1. Init => PoolInit
  BY DEF Init
<1>2. ServerInv /\ [Next]_vars => [PoolNext]_poolVars
  BY UsesThePool
<1> QED BY <1>1, <1>2, ServerInvariant, PTL DEF Spec, PoolSpec

(* RoutesOutliveRequests: Reset frees the route table that the workers read *)
(* without a lock only when no worker is in ProcessHttpRequest.  A handler   *)
(* runs in a serving worker, so its context lives, so the server is running, *)
(* which Reset refuses.                                                      *)
THEOREM RoutesOutlive == Spec => []RoutesOutliveRequests
<1>1. ServerInv => RoutesOutliveRequests
  <2> SUFFICES ASSUME ServerInv, NEW w \in Workers, phase[w] # "none" PROVE routeTable_ # "null"
    BY DEF RoutesOutliveRequests
  <2>1. live
    BY ServingPool
  <2> QED BY <2>1 DEF ServerInv, Lifetimes
<1> QED BY <1>1, ServerInvariant, PTL

(* StateMatchesPool: the server counts as running exactly while a context   *)
(* exists or a Stop still closes sessions.                                  *)
THEOREM StateIsThePools == Spec => []StateMatchesPool
<1>1. ServerInv => StateMatchesPool
  BY DEF ServerInv, HandlersServe, Lifetimes, StateMatchesPool, Callers
<1> QED BY <1>1, ServerInvariant, PTL

-----------------------------------------------------------------------------
(* The copy of the session map that Stop works on, taken before the workers *)
(* stopped: it misses no session but those registered since, and a pointer  *)
(* in it is dangling or one to a session.                                   *)
CopyIsGood ==
  /\ stopPc[App] # "none" => sessions \subseteq snap[App] \cup created
  /\ snap[App] \ {NoSession} \subseteq sessions

(* Only the application's Stop ever gets to close sessions: a handler's      *)
(* waits for the worker it runs in.                                          *)
LEMMA OnlyAppCloses ==
  ASSUME ServerInv, NEW c \in Callers, stopPc[c] = "closing"
  PROVE  c = App /\ \A w \in Workers : stopPc[w] = "none" /\ phase[w] = "none"
<1>1. c = App
  BY DEF ServerInv, HandlersServe, Callers
<1>2. ASSUME NEW w \in Workers PROVE phase[w] = "none"
  BY <1>1, ServingPool
<1> QED BY <1>1, <1>2 DEF ServerInv, HandlersServe

LEMMA CopyStep ==
  ASSUME ServerInv, CopyIsGood, [Next]_vars
  PROVE  CopyIsGood'
<1>0. TypeOK /\ App \in Callers /\ App \notin Workers
  BY ServerAssumption DEF ServerInv, Callers
<1> USE DEF TypeOK, CopyIsGood, configVars, handlerVars, stopVars, uiVars, Goto, StopGoto
<1>1. CASE PoolStep \/ ProcessExit \/ UNCHANGED vars
  <2>1. UNCHANGED <<stopPc, created, sessions, snap>>
    BY <1>1, PoolFrame DEF ProcessExit, vars, serverVars
  <2> QED BY <2>1
<1>2. CASE (\E o \in Options : Configure(o)) \/ Reset \/ SetRouteTable \/ Start
  BY <1>2 DEF Configure, Reset, SetRouteTable, Start
<1>3. ASSUME NEW c \in Callers, NEW force \in BOOLEAN, StopCalled(c, force) PROVE CopyIsGood'
  <2>1. UNCHANGED sessions
    BY <1>3 DEF StopCalled
  <2>2. \/ UNCHANGED <<stopPc, snap, created>>
        \/ /\ snap' = [snap EXCEPT ![c] = sessions]
           /\ stopPc' = [stopPc EXCEPT ![c] = "copied"]
           /\ created' = created
    BY <1>3 DEF StopCalled, StopAtOnce, CopySessions
  <2>3. CASE c = App
    BY <1>0, <2>1, <2>2, <2>3
  <2>4. CASE c # App
    BY <1>0, <2>1, <2>2, <2>4
  <2> QED BY <2>3, <2>4
<1>4. ASSUME NEW c \in Callers, MgStop(c) \/ MgStopReturns(c) PROVE CopyIsGood'
  <2>1. /\ stopPc[c] # "none" /\ UNCHANGED <<sessions, snap, created>>
        /\ \E p \in StopPcs : stopPc' = [stopPc EXCEPT ![c] = p]
    BY <1>4 DEF MgStop, MgStopReturns, StopPcs
  <2> QED BY <1>0, <2>1
<1>5. ASSUME NEW c \in Callers, CloseSession(c) PROVE CopyIsGood'
  <2>1. c = App
    BY <1>5, OnlyAppCloses DEF CloseSession
  <2>2. PICK s \in snap[App] :
          /\ snap' = [snap EXCEPT ![App] = @ \ {s}]
          /\ \/ s \in sessions /\ sessions' = sessions \ {s}
             \/ s \notin sessions /\ sessions' = sessions
    BY <1>5, <2>1 DEF CloseSession
  <2>3. snap'[App] = snap[App] \ {s} /\ UNCHANGED <<stopPc, created>>
    BY <1>0, <1>5, <2>2 DEF CloseSession
  <2> QED BY <2>2, <2>3
<1>6. ASSUME NEW c \in Callers, StopReturnsTo(c) PROVE CopyIsGood'
  <2>1. c = App
    BY <1>6, OnlyAppCloses DEF StopReturnsTo
  <2> QED BY <1>0, <1>6, <2>1 DEF StopReturnsTo
<1>7. ASSUME NEW w \in Workers,
             \/ BodyArrives(w) \/ ExecuteQuick(w) \/ ExecuteInSession(w) \/ ExecuteShutdown(w)
             \/ CheckNoSession(w)
             \/ Respond(w)
             \/ \E k \in Jobs, s \in Sessions \cup {NoSession} : Receive(w, k, s)
      PROVE  CopyIsGood'
  BY <1>7 DEF Answer, CheckNoSession, BodyArrives, ExecuteQuick, ExecuteInSession, ExecuteShutdown, Respond, Receive
<1>8. ASSUME NEW w \in Workers, ExecuteCreate(w) PROVE CopyIsGood'
  BY <1>0, <1>8 DEF ExecuteCreate, AppReady
<1>9. ASSUME NEW w \in Workers, RunTask(w) PROVE CopyIsGood'
  <2>1. UNCHANGED stopPc
    BY <1>9 DEF RunTask
  <2>2. CASE DeleteSession(target[w])
    <3>1. /\ created' = created \ {target[w]}
          /\ sessions' = sessions \ {target[w]}
          /\ snap'[App] = IF target[w] \in snap[App] THEN (snap[App] \ {target[w]}) \cup {NoSession}
                                                      ELSE snap[App]
      BY <1>0, <2>2 DEF DeleteSession
    <3> QED BY <2>1, <3>1
  <2>3. CASE UNCHANGED <<sessions, created, snap>>
    BY <2>1, <2>3
  <2> QED BY <1>9, <2>2, <2>3 DEF RunTask
<1> QED
  BY <1>1, <1>2, <1>3, <1>4, <1>5, <1>6, <1>7, <1>8, <1>9
  DEF Next, AppCalls, Stopping, Handle, Callers

LEMMA CopyInvariant == Spec => [](ServerInv /\ CopyIsGood)
<1>1. Init => CopyIsGood
  BY DEF Init, CopyIsGood, Callers
<1> QED BY <1>1, CopyStep, ServerInvariant, PTL DEF Spec

(* StopClosesSessions: a Stop that returns to the application leaves no      *)
(* session but those that were registered after it copied the map, however   *)
(* creations and deletions overlap it.                                       *)
THEOREM StopLeavesNoSession == Spec => StopClosesSessions
<1> DEFINE Closes == stopPc[App] = "closing" /\ stopPc'[App] = "none" => sessions' \subseteq created
<1>1. ServerInv /\ CopyIsGood /\ [Next]_vars => [Closes]_vars
  <2> SUFFICES ASSUME ServerInv, CopyIsGood, [Next]_vars,
                      stopPc[App] = "closing", stopPc'[App] = "none"
               PROVE  sessions' \subseteq created
    OBVIOUS
  <2>0. App \in Callers /\ App \notin Workers /\ TypeOK /\ stopPc' # stopPc
    BY ServerAssumption DEF ServerInv, Callers
  <2>1. ASSUME NEW c \in Callers, StopReturnsTo(c) PROVE sessions' \subseteq created
    <3>1. c = App
      BY <2>1, OnlyAppCloses DEF StopReturnsTo
    <3> QED BY <2>1, <3>1 DEF StopReturnsTo, CopyIsGood
  <2>2. ASSUME NEW c \in Callers, MgStop(c) \/ MgStopReturns(c) PROVE FALSE
    BY <2>0, <2>2 DEF MgStop, MgStopReturns, StopGoto, TypeOK
  <2>3. ASSUME NEW c \in Callers, NEW force \in BOOLEAN, StopCalled(c, force) PROVE FALSE
    BY <2>0, <2>3 DEF StopCalled, StopAtOnce, CopySessions, StopGoto, TypeOK, stopVars, AppReady
  <2>4. ASSUME NEW c \in Callers, CloseSession(c) PROVE FALSE
    BY <2>0, <2>4 DEF CloseSession
  <2>5. CASE PoolStep \/ ProcessExit \/ UNCHANGED vars
    BY <2>0, <2>5, PoolFrame DEF ProcessExit, vars, serverVars, stopVars
  <2>6. CASE (\E o \in Options : Configure(o)) \/ Reset \/ SetRouteTable \/ Start
    BY <2>0, <2>6 DEF Configure, Reset, SetRouteTable, Start, stopVars
  <2>7. ASSUME NEW w \in Workers,
               \/ BodyArrives(w) \/ ExecuteQuick(w) \/ ExecuteInSession(w) \/ ExecuteShutdown(w)
               \/ CheckNoSession(w)
               \/ ExecuteCreate(w) \/ RunTask(w) \/ Respond(w)
               \/ \E k \in Jobs, s \in Sessions \cup {NoSession} : Receive(w, k, s)
        PROVE  FALSE
    BY <2>0, <2>7 DEF Answer, CheckNoSession, BodyArrives, ExecuteQuick, ExecuteInSession, ExecuteShutdown, ExecuteCreate,
                      RunTask, Respond, Receive, stopVars
  <2> QED BY <2>1, <2>2, <2>3, <2>4, <2>5, <2>6, <2>7
          DEF Next, AppCalls, Stopping, Handle, Callers
<1> QED BY <1>1, CopyInvariant, PTL DEF Spec, StopClosesSessions

(* The ways a handler or the application leaves the states of a deadlock.   *)
LEMMA DeadlockStep ==
  ASSUME ServerInv, CopyIsGood, [Next]_vars
  PROVE  /\ StopFromThePool => StopFromThePool'
         /\ InStop /\ WaitsForUI /\ appIsUI => (InStop /\ WaitsForUI)'
         /\ ClosesFromUI /\ NoSession \notin snap[App] => ClosesFromUI'
<1> DEFINE Final == /\ StopFromThePool => StopFromThePool'
                    /\ InStop /\ WaitsForUI /\ appIsUI => (InStop /\ WaitsForUI)'
                    /\ ClosesFromUI /\ NoSession \notin snap[App] => ClosesFromUI'
<1>0. App \in Callers /\ App \notin Workers /\ TypeOK
  BY ServerAssumption DEF ServerInv, Callers
<1>a. appIsUI /\ InStop => ~UiRuns
  BY DEF UiRuns, AppReady, InStop
<1>b. ASSUME InStop', appIsUI' PROVE ~UiRuns'
  BY <1>b DEF UiRuns, AppReady, InStop
<1> USE DEF TypeOK, Goto, StopGoto, StopFromThePool, InStop, WaitsForUI, ClosesFromUI
<1>1. CASE PoolStep \/ ProcessExit \/ UNCHANGED vars
  <2>1. UNCHANGED <<stopPc, phase, appIsUI, ui, snap>>
    BY <1>1, PoolFrame DEF ProcessExit, vars, serverVars, stopVars, uiVars, handlerVars
  <2> QED BY <2>1 DEF UiRuns, AppReady
<1>2. CASE (\E o \in Options : Configure(o)) \/ Reset \/ SetRouteTable \/ Start
  <2>1. UNCHANGED <<stopPc, phase, appIsUI, ui, snap>>
    BY <1>2 DEF Configure, Reset, SetRouteTable, Start, stopVars, uiVars, handlerVars
  <2> QED BY <2>1 DEF UiRuns, AppReady
<1>3. ASSUME NEW c \in Callers, NEW force \in BOOLEAN, StopCalled(c, force) PROVE Final
  <2>1. /\ UNCHANGED <<appIsUI, ui>> /\ stopPc[c] = "none"
        /\ c \in Workers => phase[c] = "stop"
        /\ c = App => ~InStop
    BY <1>0, <1>3 DEF StopCalled, AppReady, uiVars
  <2>2. \/ UNCHANGED <<stopPc, snap>>
        \/ /\ stopPc' = [stopPc EXCEPT ![c] = "copied"]
           /\ snap' = [snap EXCEPT ![c] = sessions]
    BY <1>3 DEF StopCalled, StopAtOnce, CopySessions, stopVars
  <2>3. \/ UNCHANGED phase
        \/ c \in Workers /\ phase' = [phase EXCEPT ![c] = "respond"]
    <3>1. StopAtOnce(c, force) \/ CopySessions(c, force)
      BY <1>3 DEF StopCalled
    <3>2. CASE StopAtOnce(c, force)
      BY <3>2 DEF StopAtOnce, Callers
    <3>3. CASE CopySessions(c, force)
      BY <3>3 DEF CopySessions
    <3> QED BY <3>1, <3>2, <3>3
  <2>4. StopFromThePool => StopFromThePool'
    BY <1>0, <2>1, <2>2 DEF Callers
  <2>5. InStop => stopPc'[App] = stopPc[App] /\ snap'[App] = snap[App]
    BY <1>0, <2>1, <2>2 DEF Callers
  <2>6. \A w \in Workers : phase[w] = "task" => phase'[w] = "task"
    BY <1>0, <2>1, <2>3
  <2> QED BY <1>a, <1>b, <2>1, <2>4, <2>5, <2>6
<1>4. ASSUME NEW c \in Callers, MgStop(c) \/ MgStopReturns(c) PROVE Final
  <2>1. /\ stopPc[c] \in {"copied", "joining"} /\ UNCHANGED <<phase, appIsUI, ui, snap>>
        /\ \E p \in {"joining", "closing"} : stopPc' = [stopPc EXCEPT ![c] = p]
    BY <1>4 DEF MgStop, MgStopReturns, handlerVars, uiVars
  <2>2. InStop => InStop'
    BY <1>0, <2>1
  <2> QED BY <1>0, <1>b, <2>1, <2>2
<1>5. ASSUME NEW c \in Callers, CloseSession(c) PROVE Final
  <2>1. c = App /\ ~StopFromThePool /\ ~WaitsForUI
    BY <1>5, OnlyAppCloses DEF CloseSession
  <2>2. ASSUME appIsUI PROVE NoSession \in snap[App]
    BY <1>5, <2>1, <2>2 DEF CloseSession, CopyIsGood, UiRuns, AppReady
  <2> QED BY <2>1, <2>2
<1>6. ASSUME NEW c \in Callers, StopReturnsTo(c) PROVE Final
  <2>1. c = App /\ ~StopFromThePool /\ ~WaitsForUI /\ snap[App] = {}
    BY <1>6, OnlyAppCloses DEF StopReturnsTo
  <2> QED BY <2>1
<1>7. ASSUME NEW w \in Workers,
             \/ BodyArrives(w) \/ ExecuteQuick(w) \/ ExecuteInSession(w) \/ ExecuteShutdown(w)
             \/ CheckNoSession(w)
             \/ ExecuteCreate(w) \/ RunTask(w) \/ Respond(w)
             \/ \E k \in Jobs, s \in Sessions \cup {NoSession} : Receive(w, k, s)
      PROVE  Final
  <2>1. /\ UNCHANGED <<stopPc, appIsUI>>
        /\ \E p \in Phases : phase' = [phase EXCEPT ![w] = p]
        /\ phase[w] # "task" \/ UiRuns
    BY <1>7 DEF Answer, CheckNoSession, BodyArrives, ExecuteQuick, ExecuteInSession, ExecuteShutdown, ExecuteCreate, RunTask,
                Respond, Receive, stopVars, uiVars, Phases, PostJobs
  <2>2. snap[App] # {} => snap'[App] # {}
    <3>1. CASE RunTask(w)
      <4>1. \/ snap' = snap
            \/ snap'[App] = IF target[w] \in snap[App]
                            THEN (snap[App] \ {target[w]}) \cup {NoSession} ELSE snap[App]
        BY <1>0, <3>1 DEF RunTask, DeleteSession
      <4> QED BY <4>1
    <3>2. CASE ~RunTask(w)
      BY <1>7, <3>2 DEF Answer, CheckNoSession, BodyArrives, ExecuteQuick, ExecuteInSession, ExecuteShutdown, ExecuteCreate,
                        Respond, Receive, stopVars
    <3> QED BY <3>1, <3>2
  <2>3. InStop /\ WaitsForUI /\ appIsUI => (InStop /\ WaitsForUI)'
    <3> SUFFICES ASSUME InStop, appIsUI, NEW v \in Workers, phase[v] = "task"
                 PROVE  phase'[v] = "task" /\ InStop' /\ ~UiRuns'
      OBVIOUS
    <3>1. phase'[v] = "task"
      BY <1>0, <1>a, <2>1
    <3> QED BY <1>b, <2>1, <3>1
  <2> QED BY <2>1, <2>2, <2>3
<1> QED BY <1>1, <1>2, <1>3, <1>4, <1>5, <1>6, <1>7
        DEF Next, AppCalls, Stopping, Handle, Callers

(* DeadlocksAreFinal: a shutdown command that waits for its own pool, a      *)
(* handler whose task waits for the UI thread that is inside Stop, and a    *)
(* Stop that waits in the UI thread for the UI thread stay so, whatever the *)
(* application, the clients and the other workers do.                       *)
THEOREM DeadlocksStay == Spec => DeadlocksAreFinal
<1> DEFINE Final == /\ StopFromThePool => StopFromThePool'
                    /\ InStop /\ WaitsForUI /\ appIsUI => (InStop /\ WaitsForUI)'
                    /\ ClosesFromUI /\ NoSession \notin snap[App] => ClosesFromUI'
<1>1. ServerInv /\ CopyIsGood /\ [Next]_vars => [Final]_vars
  BY DeadlockStep
<1> QED BY <1>1, CopyInvariant, PTL DEF Spec, DeadlocksAreFinal
=============================================================================
