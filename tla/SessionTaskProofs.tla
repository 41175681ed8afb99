-------------------------- MODULE SessionTaskProofs --------------------------
(* Theorems about SessionTask for any number of workers and sessions.       *)
EXTENDS SessionTask, SequenceTheorems, FiniteSetTheorems, TLAPS

-----------------------------------------------------------------------------
(* The types alone.  TypeOK also bounds the depth of the stack, and that is *)
(* a consequence of how tasks nest, proved further down.                    *)
Shapes ==
  /\ waiting \in [Workers -> BOOLEAN]
  /\ target \in [Workers -> Sessions]
  /\ done \in [Workers -> BOOLEAN]
  /\ queue \in [Sessions -> Seq(Workers)]
  /\ cur \in [Sessions -> Workers \cup {NoWorker}]
  /\ thread \in [Sessions -> {"idle", "blocked", "woken"}]
  /\ events \in Seq(Sessions)
  /\ stack \in Seq(Frames)

LEMMA Ended ==
  ASSUME NEW st \in Seq(Frames), NEW i \in 1..Len(st)
  PROVE  [st EXCEPT ![i].loops = FALSE] \in Seq(Frames)
<1> DEFINE ended == [st[i] EXCEPT !.loops = FALSE]
<1>1. st[i] \in Frames
  BY ElementOfSeq
<1>2. ended \in Frames
  BY <1>1 DEF Frames
<1>3. [st EXCEPT ![i].loops = FALSE] = [st EXCEPT ![i] = ended]
  OBVIOUS
<1> HIDE DEF ended
<1> QED BY <1>2, <1>3, ExceptSeq

LEMMA ShapesStep == Shapes /\ [Next]_vars => Shapes'
<1> SUFFICES ASSUME Shapes, [Next]_vars PROVE Shapes'
  OBVIOUS
<1> USE DEF Shapes, workerVars, threadVars, uiVars
<1>1. ASSUME NEW w \in Workers, NEW s \in Sessions, PostTask(w, s) PROVE Shapes'
  BY <1>1 DEF PostTask
<1>2. ASSUME NEW w \in Workers, Return(w) PROVE Shapes'
  BY <1>2 DEF Return
<1>3. ASSUME NEW s \in Sessions, Invoke(s) PROVE Shapes'
  <2>1. queue[s] \in Seq(Workers) /\ queue[s] # <<>>
    BY <1>3 DEF Invoke
  <2>2. Head(queue[s]) \in Workers /\ Tail(queue[s]) \in Seq(Workers)
    BY <2>1, HeadTailProperties
  <2>3. Append(events, s) \in Seq(Sessions)
    BY AppendProperties
  <2> QED BY <1>3, <2>2, <2>3 DEF Invoke
<1>4. ASSUME NEW s \in Sessions, Signal(s) PROVE Shapes'
  BY <1>4 DEF Signal
<1>5. CASE RunTask
  <2>1. Head(events) \in Sessions /\ Tail(events) \in Seq(Sessions)
    BY <1>5, HeadTailProperties DEF RunTask
  <2>2. PICK b \in BOOLEAN : stack' = Append(stack, [session |-> Head(events), loops |-> b])
    BY <1>5 DEF RunTask
  <2>3. [session |-> Head(events), loops |-> b] \in Frames
    BY <2>1 DEF Frames
  <2>4. stack' \in Seq(Frames)
    BY <2>2, <2>3, AppendProperties
  <2> QED BY <1>5, <2>1, <2>4 DEF RunTask
<1>6. CASE FinishTask
  <2>1. stack \in Seq(Frames) /\ stack # <<>> /\ Len(stack) \in Nat \ {0}
    BY <1>6, EmptySeq DEF FinishTask
  <2>2. Front(stack) \in Seq(Frames)
    BY <2>1 DEF Front
  <2>3. stack' \in Seq(Frames)
    BY <1>6, <2>2 DEF FinishTask
  <2> QED BY <1>6, <2>3 DEF FinishTask
<1>7. ASSUME NEW i \in Depths, Quit(i) PROVE Shapes'
  <2>1. /\ stack \in Seq(Frames) /\ i \in 1..Len(stack)
        /\ stack' = [stack EXCEPT ![i].loops = FALSE]
    BY <1>7 DEF Quit
  <2>2. stack' \in Seq(Frames)
    BY <2>1, Ended
  <2> QED BY <1>7, <2>2 DEF Quit
<1>8. CASE UNCHANGED vars
  BY <1>8 DEF vars
<1> QED BY <1>1, <1>2, <1>3, <1>4, <1>5, <1>6, <1>7, <1>8
        DEF Next, Worker, SessionThread, UiThread

-----------------------------------------------------------------------------
(* What the actions do to the two queues of the UI thread.                  *)

LEMMA Posted ==
  ASSUME Shapes, NEW s \in Sessions, events' = Append(events, s)
  PROVE  /\ DOMAIN events = 1..Len(events) /\ Len(events) \in Nat
         /\ DOMAIN events' = 1..(Len(events) + 1)
         /\ \A i \in DOMAIN events : events'[i] = events[i]
         /\ events'[Len(events) + 1] = s
BY AppendProperties DEF Shapes

LEMMA Taken ==
  ASSUME Shapes, events # <<>>, events' = Tail(events)
  PROVE  /\ DOMAIN events = 1..Len(events) /\ Len(events) \in Nat \ {0}
         /\ DOMAIN events' = 1..(Len(events) - 1)
         /\ \A i \in DOMAIN events' : events'[i] = events[i + 1]
         /\ Head(events) = events[1]
<1>1. events \in Seq(Sessions)
  BY DEF Shapes
<1> QED BY <1>1, HeadTailProperties, EmptySeq

LEMMA Pushed ==
  ASSUME Shapes, NEW s \in Sessions, NEW b \in BOOLEAN,
         stack' = Append(stack, [session |-> s, loops |-> b])
  PROVE  /\ DOMAIN stack = 1..Len(stack) /\ Len(stack) \in Nat
         /\ DOMAIN stack' = 1..(Len(stack) + 1)
         /\ \A i \in DOMAIN stack : stack'[i].session = stack[i].session
         /\ stack'[Len(stack) + 1].session = s
<1> DEFINE frame == [session |-> s, loops |-> b]
<1>1. frame \in Frames /\ stack \in Seq(Frames) /\ frame.session = s
  BY DEF Frames, Shapes
<1>2. stack' = Append(stack, frame)
  OBVIOUS
<1> HIDE DEF frame
<1>3. /\ DOMAIN stack = 1..Len(stack) /\ Len(stack) \in Nat
      /\ DOMAIN stack' = 1..(Len(stack) + 1)
      /\ \A i \in DOMAIN stack : stack'[i] = stack[i]
      /\ stack'[Len(stack) + 1] = frame
  BY <1>1, <1>2, AppendProperties
<1> QED BY <1>1, <1>3

LEMMA Popped ==
  ASSUME Shapes, stack # <<>>, stack' = Front(stack)
  PROVE  /\ DOMAIN stack = 1..Len(stack) /\ Len(stack) \in Nat \ {0}
         /\ DOMAIN stack' = 1..(Len(stack) - 1)
         /\ \A i \in DOMAIN stack' : stack'[i] = stack[i]
<1>1. stack \in Seq(Frames) /\ Len(stack) \in Nat \ {0}
  BY EmptySeq DEF Shapes
<1> QED BY <1>1, SubSeqProperties DEF Front

-----------------------------------------------------------------------------
(* The inductive invariant: a session thread blocked in invokeMethod has    *)
(* one task in the UI thread, posted or on the stack, and the others none.  *)
(* So the session whose task is taken is not on the stack already, and the  *)
(* one whose task ends is woken out of the call it is blocked in.           *)
OneTaskEach == SessionTasksDoNotNest /\ BlockedUntilRun

LEMMA OneTaskInit == Init => Shapes /\ OneTaskEach
BY DEF Init, Shapes, OneTaskEach, SessionTasksDoNotNest, BlockedUntilRun, Pending, Running

LEMMA OneTaskFrame ==
  ASSUME OneTaskEach, UNCHANGED <<thread, uiVars>>
  PROVE  OneTaskEach'
BY DEF OneTaskEach, SessionTasksDoNotNest, BlockedUntilRun, Pending, Running, uiVars

(* The oldest event is the only one of its session.                        *)
LEMMA NextEvent ==
  ASSUME Shapes, BlockedUntilRun, events # <<>>, events' = Tail(events)
  PROVE  /\ Head(events) \in Sessions /\ Pending(Head(events))
         /\ \A t \in Sessions : Pending(t)' <=> Pending(t) /\ t # Head(events)
<1> DEFINE s == Head(events)
<1>1. s \in Sessions /\ s = events[1] /\ 1 \in DOMAIN events
  BY Taken, HeadTailProperties DEF Shapes
<1> HIDE DEF s
<1>2. ASSUME NEW t \in Sessions, Pending(t), t # s PROVE Pending(t)'
  <2>1. PICK i \in DOMAIN events : events[i] = t
    BY <1>2 DEF Pending
  <2>2. i - 1 \in DOMAIN events' /\ events'[i - 1] = t
    BY <1>1, <1>2, <2>1, Taken
  <2> QED BY <2>2 DEF Pending
<1>3. ASSUME NEW t \in Sessions, Pending(t)' PROVE Pending(t) /\ t # s
  <2>1. PICK i \in DOMAIN events' : events'[i] = t
    BY <1>3 DEF Pending
  <2>2. i + 1 \in DOMAIN events /\ events[i + 1] = t /\ i + 1 # 1
    BY <2>1, Taken
  <2> QED BY <1>1, <2>2 DEF Pending, BlockedUntilRun
<1>4. Pending(s)
  BY <1>1 DEF Pending
<1> QED BY <1>1, <1>2, <1>3, <1>4 DEF s

LEMMA OneTaskStep == Shapes /\ OneTaskEach /\ [Next]_vars => OneTaskEach'
<1> SUFFICES ASSUME Shapes, OneTaskEach, [Next]_vars PROVE OneTaskEach'
  OBVIOUS
<1> USE DEF OneTaskEach
<1>0. thread \in [Sessions -> {"idle", "blocked", "woken"}]
  BY DEF Shapes
<1>1. ASSUME NEW w \in Workers, NEW s \in Sessions, PostTask(w, s) PROVE OneTaskEach'
  BY <1>1, OneTaskFrame DEF PostTask
<1>2. ASSUME NEW w \in Workers, Return(w) PROVE OneTaskEach'
  BY <1>2, OneTaskFrame DEF Return, threadVars
<1>3. ASSUME NEW s \in Sessions, Invoke(s) PROVE OneTaskEach'
  <2>1. /\ thread[s] = "idle" /\ stack' = stack
        /\ events' = Append(events, s)
        /\ thread' = [thread EXCEPT ![s] = "blocked"]
    BY <1>3 DEF Invoke
  <2>2. ~ Pending(s) /\ ~ Running(s)
    BY <2>1 DEF BlockedUntilRun
  <2>3. \A t \in Sessions : Pending(t)' <=> Pending(t) \/ t = s
    BY <2>1, Posted DEF Pending
  <2>4. \A t \in Sessions : Running(t)' <=> Running(t)
    BY <2>1 DEF Running
  <2>5. \A i, j \in DOMAIN events' : events'[i] = events'[j] => i = j
    BY <2>1, <2>2, Posted DEF BlockedUntilRun, Pending
  <2>6. \A t \in Sessions : thread'[t] = "blocked" <=> thread[t] = "blocked" \/ t = s
    BY <1>0, <2>1
  <2>7. BlockedUntilRun'
    BY <2>2, <2>3, <2>4, <2>5, <2>6 DEF BlockedUntilRun
  <2> QED BY <2>1, <2>7 DEF SessionTasksDoNotNest
<1>4. ASSUME NEW s \in Sessions, Signal(s) PROVE OneTaskEach'
  <2>1. \A t \in Sessions : thread'[t] = "blocked" <=> thread[t] = "blocked"
    BY <1>0, <1>4 DEF Signal
  <2>2. UNCHANGED <<events, stack>>
    BY <1>4 DEF Signal, uiVars
  <2>3. \A t \in Sessions : (Pending(t)' <=> Pending(t)) /\ (Running(t)' <=> Running(t))
    BY <2>2 DEF Pending, Running
  <2> QED BY <2>1, <2>2, <2>3 DEF SessionTasksDoNotNest, BlockedUntilRun
<1>5. CASE RunTask
  <2> DEFINE s == Head(events)
  <2>1. s \in Sessions /\ events # <<>> /\ events' = Tail(events) /\ thread' = thread
    BY <1>5, HeadTailProperties DEF RunTask, Shapes, threadVars
  <2>2. PICK b \in BOOLEAN : stack' = Append(stack, [session |-> s, loops |-> b])
    BY <1>5 DEF RunTask
  <2>3. s = events[1]
    BY <2>1, Taken
  <2> HIDE DEF s
  <2>4. Pending(s) /\ ~ Running(s)
    BY <2>1, <2>3, Taken DEF BlockedUntilRun, Pending
  <2>5. \A t \in Sessions : Pending(t)' <=> Pending(t) /\ t # s
    BY <2>1, NextEvent DEF s
  <2>6. \A t \in Sessions : Running(t)' <=> Running(t) \/ t = s
    BY <2>1, <2>2, Pushed DEF Running
  <2>7. \A i, j \in DOMAIN events' : events'[i] = events'[j] => i = j
    BY <2>1, Taken DEF BlockedUntilRun
  <2>8. BlockedUntilRun'
    BY <2>1, <2>4, <2>5, <2>6, <2>7 DEF BlockedUntilRun
  <2>9. SessionTasksDoNotNest'
    BY <2>1, <2>2, <2>4, Pushed DEF SessionTasksDoNotNest, Running
  <2> QED BY <2>8, <2>9
<1>6. CASE FinishTask
  <2> DEFINE s == Last(stack).session
  <2>1. /\ stack # <<>> /\ stack' = Front(stack) /\ events' = events
        /\ thread' = [thread EXCEPT ![s] = "woken"]
    BY <1>6 DEF FinishTask
  <2>2. s = stack[Len(stack)].session /\ Len(stack) \in DOMAIN stack
    BY <2>1, Popped DEF Last
  <2>3. s \in Sessions
    <3>1. stack[Len(stack)] \in Frames
      BY <2>2 DEF Shapes
    <3> QED BY <2>2, <3>1 DEF Frames
  <2> HIDE DEF s
  <2>4. Running(s) /\ ~ Pending(s)
    BY <2>2, <2>3 DEF Running, BlockedUntilRun
  <2>5. \A t \in Sessions : Running(t)' <=> Running(t) /\ t # s
    <3>1. ASSUME NEW t \in Sessions, Running(t), t # s PROVE Running(t)'
      <4>1. PICK i \in DOMAIN stack : stack[i].session = t
        BY <3>1 DEF Running
      <4>2. i \in DOMAIN stack'
        BY <2>1, <2>2, <3>1, <4>1, Popped
      <4> QED BY <2>1, <4>1, <4>2, Popped DEF Running
    <3>2. ASSUME NEW t \in Sessions, Running(t)' PROVE Running(t) /\ t # s
      <4>1. PICK i \in DOMAIN stack' : stack'[i].session = t
        BY <3>2 DEF Running
      <4>2. i \in DOMAIN stack /\ stack[i].session = t /\ i # Len(stack)
        BY <2>1, <4>1, Popped
      <4> QED BY <2>2, <4>2 DEF Running, SessionTasksDoNotNest
    <3> QED BY <3>1, <3>2
  <2>6. \A t \in Sessions : Pending(t)' <=> Pending(t)
    BY <2>1 DEF Pending
  <2>7. \A t \in Sessions : thread'[t] = "blocked" <=> thread[t] = "blocked" /\ t # s
    BY <1>0, <2>1, <2>3
  <2>8. BlockedUntilRun'
    BY <2>1, <2>4, <2>5, <2>6, <2>7 DEF BlockedUntilRun
  <2>9. SessionTasksDoNotNest'
    BY <2>1, Popped DEF SessionTasksDoNotNest
  <2> QED BY <2>8, <2>9
<1>7. ASSUME NEW i \in Depths, Quit(i) PROVE OneTaskEach'
  <2>1. DOMAIN stack' = DOMAIN stack
    BY <1>7 DEF Quit
  <2>2. \A j \in DOMAIN stack : stack'[j].session = stack[j].session
    <3>1. \A j \in DOMAIN stack : stack[j] \in Frames
      BY DEF Shapes
    <3> QED BY <1>7, <3>1 DEF Quit, Frames
  <2>3. UNCHANGED <<thread, events>>
    BY <1>7 DEF Quit, threadVars
  <2>4. \A s \in Sessions : (Pending(s)' <=> Pending(s)) /\ (Running(s)' <=> Running(s))
    BY <2>1, <2>2, <2>3 DEF Pending, Running
  <2> QED BY <2>1, <2>2, <2>3, <2>4 DEF SessionTasksDoNotNest, BlockedUntilRun
<1>8. CASE UNCHANGED vars
  BY <1>8, OneTaskFrame DEF vars, threadVars
<1> QED BY <1>1, <1>2, <1>3, <1>4, <1>5, <1>6, <1>7, <1>8
        DEF Next, Worker, SessionThread, UiThread

LEMMA TaskInvariant == Spec => [](Shapes /\ OneTaskEach)
BY OneTaskInit, ShapesStep, OneTaskStep, PTL DEF Spec

-----------------------------------------------------------------------------
(* TypeOK: besides the types, tasks nest no deeper than there are sessions, *)
(* for the stack has a session at most once.                                *)
THEOREM TypeCorrect == Spec => []TypeOK
<1>1. Shapes /\ OneTaskEach => TypeOK
  <2> SUFFICES ASSUME Shapes, SessionTasksDoNotNest PROVE TypeOK
    BY DEF OneTaskEach
  <2>1. DOMAIN stack = 1..Len(stack) /\ Len(stack) \in Nat
    BY DEF Shapes
  <2> DEFINE f == [i \in 1..Len(stack) |-> stack[i].session]
  <2>2. \A i \in 1..Len(stack) : stack[i].session \in Sessions
    <3>1. \A i \in 1..Len(stack) : stack[i] \in Frames
      BY DEF Shapes
    <3> QED BY <3>1 DEF Frames
  <2>3. f \in [1..Len(stack) -> Sessions]
    BY <2>2
  <2>4. \A i, j \in 1..Len(stack) : f[i] = f[j] => i = j
    BY <2>1 DEF SessionTasksDoNotNest
  <2> HIDE DEF f
  <2>5. IsFiniteSet(1..Len(stack)) /\ Cardinality(1..Len(stack)) = Len(stack)
    <3>1. 1 \in Int /\ Len(stack) \in Int /\ (1 > Len(stack) => Len(stack) = 0)
      BY <2>1
    <3>2. /\ IsFiniteSet(1..Len(stack))
          /\ Cardinality(1..Len(stack)) = IF 1 > Len(stack) THEN 0 ELSE Len(stack) - 1 + 1
      BY <3>1, FS_Interval, Zenon
    <3> QED BY <3>1, <3>2
  <2>6. Cardinality(Sessions) \in Nat
    BY FinitelyManySessions, FS_CardinalityType
  <2>7. ~ (Cardinality(Sessions) < Cardinality(1..Len(stack)))
    BY <2>3, <2>4, <2>5, FinitelyManySessions, FS_PigeonHole
  <2>8. Len(stack) \in {0} \cup Depths
    BY <2>1, <2>5, <2>6, <2>7 DEF Depths
  <2> QED BY <2>8 DEF TypeOK, Shapes
<1> QED BY <1>1, TaskInvariant, PTL

(* SessionTasksDoNotNest: however the event loops nest, the UI thread is    *)
(* never inside two tasks of one session.                                   *)
THEOREM TasksDoNotNest == Spec => []SessionTasksDoNotNest
BY TaskInvariant, PTL DEF OneTaskEach

(* BlockedUntilRun: a session thread is blocked in invokeMethod exactly     *)
(* while the UI thread has a task of its session, and it has one at most.   *)
THEOREM ThreadsBlockUntilRun == Spec => []BlockedUntilRun
BY TaskInvariant, PTL DEF OneTaskEach

-----------------------------------------------------------------------------
(* A call as SyncCall sees it.                                              *)
LEMMA Prepended ==
  ASSUME NEW S, NEW q \in Seq(S), NEW x \in S
  PROVE  /\ <<x>> \o q # <<>>
         /\ Head(<<x>> \o q) = x /\ Tail(<<x>> \o q) = q
<1> DEFINE p == <<x>> \o q
<1>1. <<x>> \in Seq(S) /\ Len(<<x>>) = 1 /\ <<x>>[1] = x
  OBVIOUS
<1>2. /\ p \in Seq(S) /\ Len(p) = Len(q) + 1 /\ Len(q) \in Nat
      /\ \A i \in 1..(Len(q) + 1) : p[i] = IF i <= 1 THEN x ELSE q[i - 1]
  BY <1>1, ConcatProperties
<1> HIDE DEF p
<1>3. p # <<>>
  BY <1>2
<1>4. /\ Head(p) = p[1] /\ Tail(p) \in Seq(S) /\ Len(Tail(p)) = Len(q)
      /\ \A i \in 1..Len(q) : Tail(p)[i] = p[i + 1]
  BY <1>2, <1>3, HeadTailProperties
<1>5. \A i \in 1..Len(q) : Tail(p)[i] = q[i]
  BY <1>2, <1>4
<1>6. Tail(p) = q
  BY <1>4, <1>5, SeqEqual
<1> QED BY <1>2, <1>3, <1>4, <1>6 DEF p

LEMMA PrependedGrows ==
  ASSUME NEW S, NEW q \in Seq(S), NEW x \in S, NEW y \in S
  PROVE  <<x>> \o Append(q, y) = Append(<<x>> \o q, y)
<1>1. <<x>> \in Seq(S) /\ <<y>> \in Seq(S) /\ <<x>> \o q \in Seq(S)
  BY ConcatProperties
<1>2. Append(q, y) = q \o <<y>> /\ Append(<<x>> \o q, y) = (<<x>> \o q) \o <<y>>
  BY <1>1, AppendIsConcat
<1> QED BY <1>1, <1>2, ConcatAssociative

LEMMA HeadOnTail ==
  ASSUME NEW S, NEW q \in Seq(S), q # <<>>
  PROVE  <<Head(q)>> \o Tail(q) = q
<1> DEFINE x == Head(q)
           t == Tail(q)
           p == <<x>> \o t
<1>1. /\ Len(q) \in Nat \ {0} /\ x = q[1] /\ x \in S /\ t \in Seq(S) /\ Len(t) = Len(q) - 1
      /\ \A i \in 1..(Len(q) - 1) : t[i] = q[i + 1]
  BY HeadTailProperties, EmptySeq
<1> HIDE DEF x, t
<1>2. <<x>> \in Seq(S) /\ Len(<<x>>) = 1 /\ <<x>>[1] = x
  BY <1>1
<1>3. /\ p \in Seq(S) /\ Len(p) = Len(q)
      /\ \A i \in 1..Len(q) : p[i] = IF i <= 1 THEN x ELSE t[i - 1]
  BY <1>1, <1>2, ConcatProperties
<1> HIDE DEF p
<1>4. \A i \in 1..Len(q) : p[i] = q[i]
  BY <1>1, <1>3
<1>5. p = q
  BY <1>3, <1>4, SeqEqual
<1> QED BY <1>5 DEF p, x, t

(* The thread of a session has a call exactly while it is not idle, and     *)
(* that call, like those queued for the thread, is one its worker still     *)
(* waits for and whose event is not signalled; no worker stands twice.      *)
Awaited(w, s) == w \in Workers /\ waiting[w] /\ ~done[w] /\ target[w] = s

CallsOf(s) ==
  /\ cur[s] = NoWorker <=> thread[s] = "idle"
  /\ cur[s] # NoWorker => Awaited(cur[s], s)
  /\ \A i \in DOMAIN queue[s] : Awaited(queue[s][i], s) /\ queue[s][i] # cur[s]
  /\ \A i, j \in DOMAIN queue[s] : queue[s][i] = queue[s][j] => i = j

CallInv == \A s \in Sessions : CallsOf(s)

LEMMA CallInit == Init => CallInv
BY DEF Init, CallInv, CallsOf

LEMMA CallsKept ==
  ASSUME NEW s, CallsOf(s), UNCHANGED <<cur[s], queue[s]>>,
         thread'[s] = "idle" <=> thread[s] = "idle",
         \A w : Awaited(w, s) => Awaited(w, s)'
  PROVE  CallsOf(s)'
BY DEF CallsOf

LEMMA CallStep ==
  ASSUME Shapes, OneTaskEach, CallInv, [Next]_vars
  PROVE  CallInv'
<1> USE DEF CallInv, workerVars, threadVars, uiVars
<1>0. NoWorker \notin Workers /\ \A s \in Sessions : CallsOf(s)
  BY NoWorkerIsNone
<1>q. \A s \in Sessions : queue[s] \in Seq(Workers) /\ DOMAIN queue[s] = 1..Len(queue[s])
                          /\ Len(queue[s]) \in Nat
  BY DEF Shapes
<1>1. ASSUME NEW w \in Workers, NEW s \in Sessions, PostTask(w, s) PROVE CallInv'
  <2>1. /\ ~waiting[w] /\ UNCHANGED <<cur, thread>>
        /\ waiting' = [waiting EXCEPT ![w] = TRUE]
        /\ target' = [target EXCEPT ![w] = s]
        /\ done' = [done EXCEPT ![w] = FALSE]
        /\ queue' = [queue EXCEPT ![s] = Append(@, w)]
    BY <1>1 DEF PostTask
  <2>2. /\ \A v, t : Awaited(v, t) => Awaited(v, t)' /\ v # w
        /\ Awaited(w, s)'
    BY <2>1 DEF Awaited, Shapes
  <2>3. ASSUME NEW t \in Sessions \ {s} PROVE CallsOf(t)'
    BY <1>0, <2>1, <2>2, CallsKept DEF Shapes
  <2>4. /\ DOMAIN queue'[s] = 1..(Len(queue[s]) + 1)
        /\ \A i \in DOMAIN queue'[s] : i = Len(queue[s]) + 1 \/ i \in DOMAIN queue[s]
        /\ \A i \in DOMAIN queue[s] : queue'[s][i] = queue[s][i]
        /\ queue'[s][Len(queue[s]) + 1] = w
    <3>1. queue'[s] = Append(queue[s], w)
      BY <2>1 DEF Shapes
    <3> QED BY <1>q, <3>1, AppendProperties
  <2>5. CallsOf(s)'
    <3>1. CallsOf(s)
      BY <1>0
    <3>2. UNCHANGED <<cur[s], thread[s]>>
      BY <2>1
    <3> QED BY <1>0, <2>2, <2>4, <3>1, <3>2 DEF CallsOf
  <2> QED BY <2>3, <2>5
<1>2. ASSUME NEW w \in Workers, Return(w) PROVE CallInv'
  <2>1. \A v, t : Awaited(v, t) => Awaited(v, t)'
    BY <1>2 DEF Return, Awaited, Shapes
  <2> QED BY <1>2, <2>1, CallsKept DEF Return
<1>3. ASSUME NEW s \in Sessions, Invoke(s) PROVE CallInv'
  <2>1. /\ queue[s] # <<>> /\ thread[s] = "idle" /\ UNCHANGED workerVars
        /\ queue' = [queue EXCEPT ![s] = Tail(@)]
        /\ cur' = [cur EXCEPT ![s] = Head(queue[s])]
        /\ thread' = [thread EXCEPT ![s] = "blocked"]
    BY <1>3 DEF Invoke
  <2>2. \A v, t : Awaited(v, t)' <=> Awaited(v, t)
    BY <2>1 DEF Awaited
  <2>3. ASSUME NEW t \in Sessions \ {s} PROVE CallsOf(t)'
    BY <1>0, <2>1, <2>2, CallsKept DEF Shapes
  <2>4. /\ DOMAIN queue'[s] = 1..(Len(queue[s]) - 1)
        /\ \A i \in DOMAIN queue'[s] : /\ queue'[s][i] = queue[s][i + 1]
                                       /\ i + 1 \in DOMAIN queue[s] \ {1}
        /\ 1 \in DOMAIN queue[s] /\ cur'[s] = queue[s][1] /\ thread'[s] # "idle"
    <3>1. /\ queue[s] \in Seq(Workers) /\ queue'[s] = Tail(queue[s])
          /\ cur'[s] = Head(queue[s]) /\ thread'[s] # "idle"
      BY <2>1 DEF Shapes
    <3>2. Len(queue[s]) \in Nat \ {0} /\ cur'[s] = queue[s][1]
      BY <2>1, <3>1, EmptySeq
    <3>3. /\ queue'[s] \in Seq(Workers) /\ Len(queue'[s]) = Len(queue[s]) - 1
          /\ \A i \in 1..Len(queue'[s]) : queue'[s][i] = queue[s][i + 1]
      BY <2>1, <3>1, HeadTailProperties
    <3> QED BY <1>q, <3>1, <3>2, <3>3
  <2>5. PICK w : w = queue[s][1]
    OBVIOUS
  <2>6. w # NoWorker /\ Awaited(w, s)'
    <3>1. Awaited(w, s)
      BY <1>0, <2>4, <2>5 DEF CallsOf
    <3>2. w \in Workers
      BY <3>1 DEF Awaited
    <3> QED BY <1>0, <2>2, <3>1, <3>2
  <2>7. CallsOf(s)'
    <3>1. CallsOf(s) /\ cur'[s] = w
      BY <1>0, <2>4, <2>5
    <3>2. \A i \in DOMAIN queue'[s] : \E v : v = queue'[s][i] /\ v # w /\ Awaited(v, s)'
      BY <2>2, <2>4, <2>5, <3>1 DEF CallsOf
    <3>3. \A i, j \in DOMAIN queue'[s] : queue'[s][i] = queue'[s][j] => i = j
      BY <1>q, <2>4, <3>1 DEF CallsOf
    <3> QED BY <2>4, <2>6, <3>1, <3>2, <3>3 DEF CallsOf
  <2> QED BY <2>3, <2>7
<1>4. ASSUME NEW s \in Sessions, Signal(s) PROVE CallInv'
  <2>1. /\ thread[s] = "woken" /\ UNCHANGED <<waiting, target, queue>>
        /\ done' = [done EXCEPT ![cur[s]] = TRUE]
        /\ cur' = [cur EXCEPT ![s] = NoWorker]
        /\ thread' = [thread EXCEPT ![s] = "idle"]
    BY <1>4 DEF Signal
  <2>2. Awaited(cur[s], s)
    BY <1>0, <2>1 DEF CallsOf
  <2>3. \A v, t : Awaited(v, t) /\ v # cur[s] => Awaited(v, t)'
    BY <2>1 DEF Awaited, Shapes
  <2>4. \A t \in Sessions \ {s} : \A v : Awaited(v, t) => v # cur[s]
    BY <2>2 DEF Awaited
  <2>5. ASSUME NEW t \in Sessions \ {s} PROVE CallsOf(t)'
    BY <1>0, <2>1, <2>3, <2>4, CallsKept DEF Shapes
  <2>6. CallsOf(s)'
    <3>1. CallsOf(s) /\ queue'[s] = queue[s] /\ cur'[s] = NoWorker /\ thread'[s] = "idle"
      BY <1>0, <2>1 DEF Shapes
    <3>2. \A i \in DOMAIN queue[s] : Awaited(queue[s][i], s)' /\ queue[s][i] # NoWorker
      BY <1>0, <1>q, <2>3, <3>1 DEF CallsOf
    <3> QED BY <3>1, <3>2 DEF CallsOf
  <2> QED BY <2>5, <2>6
<1>5. ASSUME UNCHANGED <<workerVars, queue, cur>>,
             \A s \in Sessions : thread'[s] = "idle" <=> thread[s] = "idle"
      PROVE  CallInv'
  <2>1. \A v, t : Awaited(v, t) => Awaited(v, t)'
    BY <1>5 DEF Awaited
  <2> QED BY <1>0, <1>5, <2>1, CallsKept
<1>6. CASE RunTask
  BY <1>5, <1>6 DEF RunTask
<1>7. CASE FinishTask
  <2> DEFINE s == Last(stack).session
  <2>1. /\ stack # <<>> /\ UNCHANGED <<workerVars, queue, cur>>
        /\ thread' = [thread EXCEPT ![s] = "woken"]
    BY <1>7 DEF FinishTask
  <2>2. s = stack[Len(stack)].session /\ Len(stack) \in DOMAIN stack
    <3>1. Len(stack) \in Nat \ {0} /\ DOMAIN stack = 1..Len(stack)
      BY <2>1, EmptySeq DEF Shapes
    <3> QED BY <3>1 DEF Last
  <2> HIDE DEF s
  <2>3. s \in Sessions => thread[s] = "blocked"
    BY <2>2 DEF OneTaskEach, BlockedUntilRun, Running
  <2>4. \A t \in Sessions : thread'[t] = "idle" <=> thread[t] = "idle"
    BY <2>1, <2>3 DEF Shapes
  <2> QED BY <1>5, <2>1, <2>4
<1>8. ASSUME NEW i \in Depths, Quit(i) PROVE CallInv'
  BY <1>5, <1>8 DEF Quit
<1>9. CASE UNCHANGED vars
  BY <1>5, <1>9 DEF vars
<1> QED BY <1>1, <1>2, <1>3, <1>4, <1>6, <1>7, <1>8, <1>9
        DEF Next, Worker, SessionThread, UiThread

(* Which session's task ends, and that its thread is blocked on it.         *)
LEMMA LastTask ==
  ASSUME Shapes, OneTaskEach, stack # <<>>
  PROVE  /\ Last(stack) = stack[Len(stack)] /\ Len(stack) \in DOMAIN stack
         /\ Last(stack).session \in Sessions
         /\ thread[Last(stack).session] = "blocked" /\ ~Pending(Last(stack).session)
<1>1. Len(stack) \in Nat \ {0} /\ DOMAIN stack = 1..Len(stack) /\ Last(stack) = stack[Len(stack)]
  BY EmptySeq DEF Shapes, Last
<1>2. stack[Len(stack)] \in Frames
  BY <1>1 DEF Shapes
<1> DEFINE s == stack[Len(stack)].session
<1>3. s \in Sessions
  BY <1>2 DEF Frames
<1>4. Running(s)
  BY <1>1 DEF Running
<1> HIDE DEF s
<1>5. thread[s] = "blocked" /\ ~Pending(s)
  BY <1>3, <1>4 DEF OneTaskEach, BlockedUntilRun
<1> QED BY <1>1, <1>3, <1>5 DEF s

LEMMA PhaseKept ==
  ASSUME NEW w, UNCHANGED <<waiting[w], target[w], done[w]>>,
         cur'[target[w]] = w <=> cur[target[w]] = w,
         cur[target[w]] = w =>
           /\ thread'[target[w]] = "woken" <=> thread[target[w]] = "woken"
           /\ Pending(target[w])' <=> Pending(target[w])
  PROVE  Phase(w)' = Phase(w)
<1> PICK s : s = target[w] /\ s = target'[w]
  OBVIOUS
<1>1. Pending(target[w])' <=> Pending(s)'
  OBVIOUS
<1> QED BY <1>1 DEF Phase

LEMMA PendingFrame ==
  UNCHANGED events => \A s : Pending(s)' <=> Pending(s)
BY DEF Pending

LEMMA NestIsSequence ==
  ASSUME Shapes
  PROVE  /\ DOMAIN stack = 1..Len(stack) /\ Len(stack) \in Nat
         /\ Nest \in Seq(Workers \cup {NoWorker}) /\ Len(Nest) = Len(stack)
         /\ \A i \in DOMAIN stack : stack[i].session \in Sessions
         /\ \A i \in DOMAIN stack : Nest[i] = cur[stack[i].session]
<1>1. DOMAIN stack = 1..Len(stack) /\ Len(stack) \in Nat
  BY DEF Shapes
<1>2. ASSUME NEW i \in DOMAIN stack PROVE stack[i].session \in Sessions
  <2>1. stack[i] \in Frames
    BY DEF Shapes
  <2> QED BY <2>1 DEF Frames
<1>3. \A i \in DOMAIN stack : cur[stack[i].session] \in Workers \cup {NoWorker}
  BY <1>2 DEF Shapes
<1> QED BY <1>1, <1>2, <1>3 DEF Nest

LEMMA NestPushed ==
  ASSUME Shapes, NEW s \in Sessions, NEW b \in BOOLEAN, UNCHANGED cur,
         stack' = Append(stack, [session |-> s, loops |-> b])
  PROVE  Nest' = Append(Nest, cur[s])
<1> DEFINE A == Append(Nest, cur[s])
<1>1. cur[s] \in Workers \cup {NoWorker} /\ Nest \in Seq(Workers \cup {NoWorker})
      /\ Len(Nest) = Len(stack) /\ Len(stack) \in Nat
  BY NestIsSequence DEF Shapes
<1>2. /\ A \in Seq(Workers \cup {NoWorker}) /\ Len(A) = Len(stack) + 1
      /\ \A i \in 1..Len(stack) : A[i] = Nest[i]
      /\ A[Len(stack) + 1] = cur[s]
  BY <1>1, AppendProperties
<1> HIDE DEF A
<1>3. ASSUME NEW i \in 1..(Len(stack) + 1) PROVE A[i] = cur[stack'[i].session]
  <2>1. i = Len(stack) + 1 \/ i \in DOMAIN stack
    BY <1>1, NestIsSequence
  <2> QED BY <1>2, <2>1, NestIsSequence, Pushed
<1>4. Nest' = [i \in 1..(Len(stack) + 1) |-> cur[stack'[i].session]]
  BY Pushed DEF Nest
<1>5. A \in [1..(Len(stack) + 1) -> Workers \cup {NoWorker}]
  BY <1>2
<1>6. A = Nest'
  BY <1>3, <1>4, <1>5
<1> QED BY <1>6 DEF A

LEMMA NestPopped ==
  ASSUME Shapes, stack # <<>>, UNCHANGED cur, stack' = Front(stack)
  PROVE  Nest' = SubSeq(Nest, 1, Len(Nest) - 1)
<1> DEFINE F == SubSeq(Nest, 1, Len(Nest) - 1)
<1>1. Nest \in Seq(Workers \cup {NoWorker}) /\ Len(Nest) = Len(stack) /\ Len(stack) \in Nat \ {0}
  BY NestIsSequence, Popped
<1>2. /\ F \in Seq(Workers \cup {NoWorker}) /\ Len(F) = Len(stack) - 1
      /\ \A i \in 1..(Len(stack) - 1) : F[i] = Nest[i]
  BY <1>1, SubSeqProperties
<1> HIDE DEF F
<1>3. ASSUME NEW i \in 1..(Len(stack) - 1) PROVE F[i] = cur[stack'[i].session]
  <2>1. i \in DOMAIN stack /\ stack'[i] = stack[i]
    BY <1>1, Popped
  <2> QED BY <1>2, <2>1, NestIsSequence
<1>4. Nest' = [i \in 1..(Len(stack) - 1) |-> cur[stack'[i].session]]
  BY Popped DEF Nest
<1>5. F \in [1..(Len(stack) - 1) -> Workers \cup {NoWorker}]
  BY <1>2
<1>6. F = Nest'
  BY <1>3, <1>4, <1>5
<1> QED BY <1>6 DEF F

LEMMA SyncStep ==
  ASSUME Shapes, OneTaskEach, CallInv, [Next]_vars
  PROVE  [Call!Next]_(Call!vars)
<1> USE DEF workerVars, threadVars, uiVars
<1>0. /\ NoWorker \notin Workers /\ \A s \in Sessions : CallsOf(s)
      /\ cur \in [Sessions -> Workers \cup {NoWorker}]
      /\ target \in [Workers -> Sessions] /\ waiting \in [Workers -> BOOLEAN]
      /\ done \in [Workers -> BOOLEAN] /\ thread \in [Sessions -> {"idle", "blocked", "woken"}]
      /\ \A s \in Sessions : queue[s] \in Seq(Workers)
      /\ queue \in [Sessions -> Seq(Workers)]
  BY NoWorkerIsNone DEF Shapes, CallInv
<1>a. \A w \in Workers, s \in Sessions : cur[s] = w => Awaited(w, s)
  BY <1>0 DEF CallsOf
<1>1. ASSUME NEW w \in Workers, NEW s \in Sessions, PostTask(w, s)
      PROVE  Call!Call(w, s)
  <2>1. /\ ~waiting[w] /\ UNCHANGED <<cur, thread, events, stack>>
        /\ waiting' = [waiting EXCEPT ![w] = TRUE]
        /\ target' = [target EXCEPT ![w] = s]
        /\ done' = [done EXCEPT ![w] = FALSE]
        /\ queue' = [queue EXCEPT ![s] = Append(@, w)]
    BY <1>1 DEF PostTask
  <2>2. \A t \in Sessions : cur[t] # w
    BY <1>a, <2>1 DEF Awaited
  <2>3. Phase(w) = "none" /\ Phase(w)' = "called"
    BY <1>0, <2>1, <2>2 DEF Phase
  <2>4. ASSUME NEW v \in Workers \ {w} PROVE Phase(v)' = Phase(v)
    BY <1>0, <2>1, PhaseKept, PendingFrame
  <2>5. Phases' = [Phases EXCEPT ![w] = "called"]
    BY <2>3, <2>4 DEF Phases
  <2>6. \A t \in Sessions : Lines'[t] = IF t = s THEN Append(Lines[s], w) ELSE Lines[t]
    <3>1. ASSUME NEW t \in Sessions PROVE Pending(t)' <=> Pending(t)
      BY <2>1, PendingFrame
    <3>2. \A t \in Sessions \ {s} : queue'[t] = queue[t]
      BY <2>1
    <3>3. queue'[s] = Append(queue[s], w)
      BY <1>0, <2>1
    <3>4. Pending(s) => cur[s] \in Workers
      BY <1>0 DEF CallsOf, OneTaskEach, BlockedUntilRun
    <3>5. Pending(s) => <<cur[s]>> \o Append(queue[s], w) = Append(<<cur[s]>> \o queue[s], w)
      BY <1>0, <3>4, PrependedGrows
    <3>6. Lines'[s] = Append(Lines[s], w)
      BY <2>1, <3>1, <3>3, <3>5 DEF Lines
    <3>7. ASSUME NEW t \in Sessions \ {s} PROVE Lines'[t] = Lines[t]
      BY <2>1, <3>1, <3>2 DEF Lines
    <3> QED BY <3>6, <3>7
  <2>7. Lines' = [Lines EXCEPT ![s] = Append(@, w)]
    BY <2>6 DEF Lines
  <2>8. UNCHANGED Nest
    BY <2>1 DEF Nest
  <2> QED BY <2>1, <2>3, <2>5, <2>7, <2>8 DEF Call!Call, Phases
<1>2. ASSUME NEW w \in Workers, Return(w) PROVE Call!Return(w)
  <2>1. /\ waiting[w] /\ done[w] /\ UNCHANGED <<target, queue, cur, thread, events, stack>>
        /\ waiting' = [waiting EXCEPT ![w] = FALSE]
        /\ done' = [done EXCEPT ![w] = FALSE]
    BY <1>2 DEF Return
  <2>2. Phase(w) = "ran" /\ Phase(w)' = "none"
    BY <1>0, <2>1 DEF Phase
  <2>3. ASSUME NEW v \in Workers \ {w} PROVE Phase(v)' = Phase(v)
    BY <1>0, <2>1, PhaseKept, PendingFrame
  <2>4. Phases' = [Phases EXCEPT ![w] = "none"]
    BY <2>2, <2>3 DEF Phases
  <2>5. UNCHANGED <<Lines, Nest>>
    BY <2>1 DEF Lines, Nest, Pending
  <2> QED BY <2>1, <2>2, <2>4, <2>5 DEF Call!Return, Phases
<1>3. ASSUME NEW s \in Sessions, Invoke(s) PROVE UNCHANGED Call!vars
  <2>1. /\ queue[s] # <<>> /\ thread[s] = "idle" /\ UNCHANGED <<waiting, target, done, stack>>
        /\ queue' = [queue EXCEPT ![s] = Tail(@)]
        /\ cur' = [cur EXCEPT ![s] = Head(queue[s])]
        /\ thread' = [thread EXCEPT ![s] = "blocked"]
        /\ events' = Append(events, s)
    BY <1>3 DEF Invoke
  <2>2. cur[s] = NoWorker /\ ~Pending(s) /\ ~Running(s)
    BY <1>0, <2>1 DEF CallsOf, OneTaskEach, BlockedUntilRun
  <2>3. \A t \in Sessions : Pending(t)' <=> Pending(t) \/ t = s
    BY <2>1, Posted DEF Pending
  <2>4. PICK h : h = Head(queue[s]) /\ h \in Workers /\ Awaited(h, s)
    <3>1. queue[s] \in Seq(Workers) /\ Head(queue[s]) = queue[s][1] /\ 1 \in DOMAIN queue[s]
      BY <1>0, <2>1, EmptySeq
    <3>2. Awaited(queue[s][1], s)
      BY <1>0, <3>1 DEF CallsOf
    <3> QED BY <3>1, <3>2 DEF Awaited
  <2>5. ASSUME NEW w \in Workers PROVE Phase(w)' = Phase(w)
    <3>1. CASE w = h
      BY <1>0, <2>1, <2>2, <2>3, <2>4, <3>1 DEF Phase, Awaited
    <3>2. CASE w # h
      <4>1. cur'[target[w]] = w <=> cur[target[w]] = w
        BY <1>0, <2>1, <2>2, <2>4, <3>2
      <4>2. cur[target[w]] = w => target[w] # s
        BY <1>0, <2>2
      <4>3. target[w] # s => /\ thread'[target[w]] = thread[target[w]]
                             /\ Pending(target[w])' <=> Pending(target[w])
        BY <1>0, <2>1, <2>3
      <4> QED BY <2>1, <4>1, <4>2, <4>3, PhaseKept
    <3> QED BY <3>1, <3>2
  <2>6. ASSUME NEW t \in Sessions PROVE Lines'[t] = Lines[t]
    <3>1. CASE t = s
      <4>1. Lines[s] = queue[s]
        BY <2>2 DEF Lines
      <4>2. Lines'[s] = <<h>> \o Tail(queue[s])
        BY <1>0, <2>1, <2>3, <2>4 DEF Lines
      <4> QED BY <1>0, <2>1, <2>4, <3>1, <4>1, <4>2, HeadOnTail
    <3>2. CASE t # s
      BY <1>0, <2>1, <2>3, <3>2 DEF Lines
    <3> QED BY <3>1, <3>2
  <2>7. \A i \in DOMAIN stack : cur'[stack[i].session] = cur[stack[i].session]
    BY <1>0, <2>1, <2>2, NestIsSequence DEF Running
  <2> QED BY <2>1, <2>5, <2>6, <2>7 DEF Call!vars, Phases, Lines, Nest
<1>4. ASSUME NEW s \in Sessions, Signal(s) PROVE UNCHANGED Call!vars
  <2>1. /\ thread[s] = "woken" /\ UNCHANGED <<waiting, target, queue, events, stack>>
        /\ done' = [done EXCEPT ![cur[s]] = TRUE]
        /\ cur' = [cur EXCEPT ![s] = NoWorker]
        /\ thread' = [thread EXCEPT ![s] = "idle"]
    BY <1>4 DEF Signal
  <2>2. ~Pending(s) /\ ~Running(s) /\ Awaited(cur[s], s)
    BY <1>0, <2>1 DEF CallsOf, OneTaskEach, BlockedUntilRun
  <2>3. ASSUME NEW w \in Workers PROVE Phase(w)' = Phase(w)
    <3>1. CASE w = cur[s]
      BY <1>0, <2>1, <2>2, <3>1 DEF Phase, Awaited
    <3>2. CASE w # cur[s]
      <4>1. cur'[target[w]] = w <=> cur[target[w]] = w
        BY <1>0, <2>1, <3>2
      <4>2. cur[target[w]] = w => thread'[target[w]] = thread[target[w]]
        BY <1>0, <2>1, <3>2
      <4> QED BY <1>0, <2>1, <3>2, <4>1, <4>2, PhaseKept, PendingFrame
    <3> QED BY <3>1, <3>2
  <2>4. ASSUME NEW t \in Sessions PROVE Lines'[t] = Lines[t]
    BY <1>0, <2>1, <2>2, PendingFrame DEF Lines
  <2>5. \A i \in DOMAIN stack : cur'[stack[i].session] = cur[stack[i].session]
    BY <1>0, <2>1, <2>2, NestIsSequence DEF Running
  <2> QED BY <2>1, <2>3, <2>4, <2>5 DEF Call!vars, Phases, Lines, Nest
<1>5. CASE RunTask
  <2> PICK s : s = Head(events)
    OBVIOUS
  <2>1. /\ events # <<>> /\ events' = Tail(events)
        /\ UNCHANGED <<waiting, target, done, queue, cur, thread>>
    BY <1>5 DEF RunTask
  <2>2. /\ s \in Sessions /\ Pending(s)
        /\ \A t \in Sessions : Pending(t)' <=> Pending(t) /\ t # s
    BY <2>1, NextEvent DEF OneTaskEach
  <2>3. PICK w : w = cur[s]
    OBVIOUS
  <2>4. w \in Workers /\ Awaited(w, s) /\ thread[s] = "blocked"
    BY <1>0, <2>2, <2>3 DEF CallsOf, OneTaskEach, BlockedUntilRun
  <2>5. Phase(w) = "called" /\ Phase(w)' = "running"
    BY <1>0, <2>1, <2>2, <2>3, <2>4 DEF Phase, Awaited
  <2>6. ASSUME NEW v \in Workers \ {w} PROVE Phase(v)' = Phase(v)
    BY <1>0, <2>1, <2>2, <2>3, PhaseKept
  <2>7. Phases' = [Phases EXCEPT ![w] = "running"]
    BY <2>5, <2>6 DEF Phases
  <2>8. \A v \in Workers : Phase(v) = "running" => target[v] # s
    BY <2>2 DEF Phase
  <2>9. /\ Lines[s] = <<w>> \o queue[s] /\ w = Head(Lines[s])
        /\ Lines' = [Lines EXCEPT ![s] = Tail(@)]
    <3>1. Lines[s] = <<w>> \o queue[s]
      BY <2>2, <2>3 DEF Lines
    <3>2. Head(Lines[s]) = w /\ Tail(Lines[s]) = queue[s]
      <4>1. queue[s] \in Seq(Workers)
        BY <1>0, <2>2
      <4>2. Head(<<w>> \o queue[s]) = w /\ Tail(<<w>> \o queue[s]) = queue[s]
        BY <2>4, <4>1, Prepended
      <4> QED BY <3>1, <4>2
    <3>3. ASSUME NEW t \in Sessions PROVE Lines'[t] = IF t = s THEN Tail(Lines[s]) ELSE Lines[t]
      BY <2>1, <2>2, <3>2 DEF Lines
    <3>4. Lines' = [Lines EXCEPT ![s] = Tail(@)]
      BY <3>3 DEF Lines
    <3> QED BY <3>1, <3>2, <3>4
  <2>10. Nest' = Append(Nest, w)
    <3>1. PICK b \in BOOLEAN : stack' = Append(stack, [session |-> s, loops |-> b])
      BY <1>5 DEF RunTask
    <3> QED BY <2>1, <2>2, <2>3, <3>1, NestPushed
  <2>11. target[w] = s
    BY <2>4 DEF Awaited
  <2>12. Call!Enter(w)
    BY <2>1, <2>4, <2>5, <2>7, <2>8, <2>9, <2>10, <2>11 DEF Call!Enter, Phases
  <2> QED BY <2>4, <2>12 DEF Call!Next
<1>6. CASE FinishTask
  <2> PICK s : s = Last(stack).session
    OBVIOUS
  <2>1. /\ stack # <<>> /\ stack' = Front(stack)
        /\ UNCHANGED <<waiting, target, done, queue, cur, events>>
        /\ thread' = [thread EXCEPT ![s] = "woken"]
    BY <1>6 DEF FinishTask
  <2>2. /\ s = stack[Len(stack)].session /\ Len(stack) \in DOMAIN stack /\ s \in Sessions
        /\ thread[s] = "blocked" /\ ~Pending(s)
    BY <2>1, LastTask
  <2>3. PICK w : w = cur[s]
    OBVIOUS
  <2>4. w \in Workers /\ Awaited(w, s)
    BY <1>0, <2>2, <2>3 DEF CallsOf
  <2>5. Phase(w) = "running" /\ Phase(w)' = "ran"
    BY <1>0, <2>1, <2>2, <2>3, <2>4 DEF Phase, Awaited
  <2>6. ASSUME NEW v \in Workers \ {w} PROVE Phase(v)' = Phase(v)
    <3>1. cur[target[v]] = v => thread'[target[v]] = thread[target[v]]
      BY <1>0, <2>1, <2>3
    <3> QED BY <2>1, <3>1, PhaseKept, PendingFrame
  <2>7. Phases' = [Phases EXCEPT ![w] = "ran"]
    BY <2>5, <2>6 DEF Phases
  <2>8. UNCHANGED Lines
    BY <2>1 DEF Lines, Pending
  <2>9. w = Nest[Len(Nest)] /\ Nest' = SubSeq(Nest, 1, Len(Nest) - 1)
    BY <2>1, <2>2, <2>3, NestIsSequence, NestPopped
  <2>10. Call!Leave(w)
    BY <2>1, <2>4, <2>5, <2>7, <2>8, <2>9 DEF Call!Leave, Phases
  <2> QED BY <2>4, <2>10 DEF Call!Next
<1>7. ASSUME NEW i \in Depths, Quit(i) PROVE UNCHANGED Call!vars
  <2>1. UNCHANGED <<waiting, target, done, queue, cur, thread, events>> /\ DOMAIN stack' = DOMAIN stack
    BY <1>7 DEF Quit
  <2>2. \A j \in DOMAIN stack : stack'[j].session = stack[j].session
    <3>1. \A j \in DOMAIN stack : stack[j] \in Frames
      BY DEF Shapes
    <3> QED BY <1>7, <3>1 DEF Quit, Frames
  <2>3. UNCHANGED Nest
    BY <2>1, <2>2 DEF Nest
  <2>4. UNCHANGED <<Phases, Lines>>
    BY <2>1 DEF Phases, Phase, Lines, Pending
  <2> QED BY <2>1, <2>3, <2>4 DEF Call!vars
<1>8. CASE UNCHANGED vars
  <2>1. UNCHANGED <<Phases, Lines, Nest>>
    BY <1>8 DEF vars, Phases, Phase, Lines, Nest, Pending
  <2> QED BY <1>8, <2>1 DEF vars, Call!vars
<1> QED
  BY <1>1, <1>2, <1>3, <1>4, <1>5, <1>6, <1>7, <1>8
  DEF Next, Worker, SessionThread, UiThread, Call!Next

LEMMA SyncInit == Init => Call!Init
<1> SUFFICES ASSUME Init PROVE Call!Init
  OBVIOUS
<1>1. \A s \in Sessions : ~Pending(s)
  BY DEF Init, Pending
<1>2. Phases = [w \in Workers |-> "none"]
  BY DEF Init, Phases, Phase
<1>3. Lines = [s \in Sessions |-> <<>>]
  BY <1>1 DEF Init, Lines
<1>4. Nest = <<>>
  BY DEF Init, Nest
<1> QED BY <1>2, <1>3, <1>4 DEF Init, Call!Init

(* IsSynchronousCall: for any number of workers and sessions, however their *)
(* calls queue and their event loops nest, RunSessionTask is a procedure    *)
(* call: one at a time and in order on a session, run once, returning after *)
(* it ran, innermost first.                                                 *)
THEOREM CallsAreSynchronous == Spec => IsSynchronousCall
<1>1. Init => CallInv
  BY CallInit
<1>2. (Shapes /\ OneTaskEach) /\ CallInv /\ [Next]_vars => CallInv'
  BY CallStep
<1>3. (Shapes /\ OneTaskEach) /\ CallInv /\ [Next]_vars => [Call!Next]_(Call!vars)
  BY SyncStep
<1> QED BY <1>1, <1>2, <1>3, SyncInit, TaskInvariant, PTL
        DEF Spec, IsSynchronousCall, Call!Spec
=============================================================================
