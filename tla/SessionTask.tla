----------------------------- MODULE SessionTask -----------------------------
(* Session::RunSessionTask, the only way a command reaches the tested       *)
(* application.  Three threads take part in a call:                         *)
(*                                                                          *)
(*   an HTTP worker posts the task to the session's own thread and waits    *)
(*   for done_event;                                                        *)
(*   the session thread hands the task to QMetaObject::invokeMethod with    *)
(*   Qt::BlockingQueuedConnection, which waits until the UI thread has run  *)
(*   it, and then signals done_event;                                       *)
(*   the UI thread takes tasks off its event queue.  A task that shows a    *)
(*   window, loads a page, waits for an element or synthesises input spins  *)
(*   an event loop of its own, and that loop runs the tasks of other        *)
(*   sessions inside it.                                                    *)
EXTENDS Naturals, Sequences, FiniteSets, SequencesExt

CONSTANTS
  Workers,    \* the threads of the HTTP server
  Sessions,   \* the sessions, each with a started thread
  NoWorker    \* of a session thread that has nothing to do

ASSUME NoWorkerIsNone == NoWorker \notin Workers
ASSUME FinitelyManySessions == IsFiniteSet(Sessions)

VARIABLES
  waiting,    \* whether a worker is inside RunSessionTask ...
  target,     \* ... and on which session (of the last call when it is not)
  done,       \* its done_event
  queue,      \* the message loop of each session thread: the workers whose
              \* tasks are pending, oldest first
  cur,        \* the worker whose task the session thread is running
  thread,     \* "idle", "blocked" in invokeMethod, or "woken" out of it
  events,     \* the UI thread's event queue: sessions with a task posted
  stack       \* the tasks the UI thread is inside of, outermost first; a task
              \* `loops' while it is in its nested event loop

workerVars == <<waiting, target, done>>
threadVars == <<queue, cur, thread>>
uiVars     == <<events, stack>>
vars == <<workerVars, threadVars, uiVars>>

Depths == 1..Cardinality(Sessions)   \* how deep tasks can nest: once per session
Frames == [session : Sessions, loops : BOOLEAN]

TypeOK ==
  /\ waiting \in [Workers -> BOOLEAN]
  /\ target \in [Workers -> Sessions]
  /\ done \in [Workers -> BOOLEAN]
  /\ queue \in [Sessions -> Seq(Workers)]
  /\ cur \in [Sessions -> Workers \cup {NoWorker}]
  /\ thread \in [Sessions -> {"idle", "blocked", "woken"}]
  /\ events \in Seq(Sessions)
  /\ stack \in Seq(Frames)
  /\ Len(stack) \in {0} \cup Depths

Init ==
  /\ waiting = [w \in Workers |-> FALSE]
  /\ target \in [Workers -> Sessions]
  /\ done = [w \in Workers |-> FALSE]
  /\ queue = [s \in Sessions |-> <<>>]
  /\ cur = [s \in Sessions |-> NoWorker]
  /\ thread = [s \in Sessions |-> "idle"]
  /\ events = <<>>
  /\ stack = <<>>

-----------------------------------------------------------------------------
(* Session::RunSessionTask.  The event is a local of the call: it starts    *)
(* unsignalled.                                                             *)

(* Mutant: the task jumps the queue.                                        *)
PostTaskInFront(w, s) ==
  /\ ~waiting[w]
  /\ waiting' = [waiting EXCEPT ![w] = TRUE]
  /\ target' = [target EXCEPT ![w] = s]
  /\ done' = [done EXCEPT ![w] = FALSE]
  /\ queue' = [queue EXCEPT ![s] = <<w>> \o @]
  /\ UNCHANGED <<cur, thread, uiVars>>

PostTask(w, s) ==
  /\ ~waiting[w]
  /\ waiting' = [waiting EXCEPT ![w] = TRUE]
  /\ target' = [target EXCEPT ![w] = s]
  /\ done' = [done EXCEPT ![w] = FALSE]
  /\ queue' = [queue EXCEPT ![s] = Append(@, w)]
  /\ UNCHANGED <<cur, thread, uiVars>>

(* done_event.Wait() returns and the call with it.                          *)
Return(w) ==
  /\ waiting[w]
  /\ done[w]
  /\ waiting' = [waiting EXCEPT ![w] = FALSE]
  /\ done' = [done EXCEPT ![w] = FALSE]
  /\ UNCHANGED <<target, threadVars, uiVars>>

-----------------------------------------------------------------------------
(* The session thread: RunClosureOnSessionThread, QViewRunner::RunClosure   *)

(* Mutant: Qt::QueuedConnection, which does not wait for the UI thread.     *)
InvokeQueued(s) ==
  /\ thread[s] = "idle"
  /\ queue[s] # <<>>
  /\ queue' = [queue EXCEPT ![s] = Tail(@)]
  /\ cur' = [cur EXCEPT ![s] = Head(queue[s])]
  /\ thread' = [thread EXCEPT ![s] = "woken"]
  /\ events' = Append(events, s)
  /\ UNCHANGED <<workerVars, stack>>

Invoke(s) ==
  /\ thread[s] = "idle"
  /\ queue[s] # <<>>
  /\ queue' = [queue EXCEPT ![s] = Tail(@)]
  /\ cur' = [cur EXCEPT ![s] = Head(queue[s])]
  /\ thread' = [thread EXCEPT ![s] = "blocked"]
  /\ events' = Append(events, s)
  /\ UNCHANGED <<workerVars, stack>>

Signal(s) ==
  /\ thread[s] = "woken"
  /\ done' = [done EXCEPT ![cur[s]] = TRUE]
  /\ cur' = [cur EXCEPT ![s] = NoWorker]
  /\ thread' = [thread EXCEPT ![s] = "idle"]
  /\ UNCHANGED <<waiting, target, queue, uiVars>>

-----------------------------------------------------------------------------
(* The UI thread                                                            *)

(* QTaskRunner::runTask begins, in the main event loop or in the nested one *)
(* of the innermost task; the task may get to a nested loop of its own.     *)
RunTask ==
  /\ events # <<>>
  /\ stack # <<>> => Last(stack).loops
  /\ \E b \in BOOLEAN :
       stack' = Append(stack, [session |-> Head(events), loops |-> b])
  /\ events' = Tail(events)
  /\ UNCHANGED <<workerVars, threadVars>>

(* Mutant: only the innermost loop has a timer.                             *)
QuitUnlessNested(i) ==
  /\ i \in DOMAIN stack \cap {1}
  /\ stack[i].loops
  /\ stack' = [stack EXCEPT ![i].loops = FALSE]
  /\ UNCHANGED <<workerVars, threadVars, events>>

(* QEventLoop::quit, from a timer or from a signal of the page: the loop    *)
(* ends as soon as nothing is nested in it.                                 *)
Quit(i) ==
  /\ i \in DOMAIN stack
  /\ stack[i].loops
  /\ stack' = [stack EXCEPT ![i].loops = FALSE]
  /\ UNCHANGED <<workerVars, threadVars, events>>

(* Mutant: the end of a nested task wakes the outermost caller.             *)
FinishWakesOutermost ==
  /\ stack # <<>>
  /\ ~Last(stack).loops
  /\ stack' = Front(stack)
  /\ thread' = [thread EXCEPT ![Head(stack).session] = "woken"]
  /\ UNCHANGED <<workerVars, queue, cur, events>>

(* The innermost task returns and Qt wakes the thread blocked on it.        *)
FinishTask ==
  /\ stack # <<>>
  /\ ~Last(stack).loops
  /\ stack' = Front(stack)
  /\ thread' = [thread EXCEPT ![Last(stack).session] = "woken"]
  /\ UNCHANGED <<workerVars, queue, cur, events>>

Worker(w) == Return(w) \/ \E s \in Sessions : PostTask(w, s)

SessionThread(s) == Invoke(s) \/ Signal(s)

UiThread == RunTask \/ FinishTask \/ \E i \in Depths : Quit(i)

Next ==
  \/ \E w \in Workers : Worker(w)
  \/ \E s \in Sessions : SessionThread(s)
  \/ UiThread

Spec == Init /\ [][Next]_vars

(* Every thread runs, and every nested loop is told to quit: by a timer, or *)
(* by a page that finishes loading or fails to.                             *)
FairSpec ==
  /\ Spec
  /\ \A w \in Workers : WF_vars(Return(w))
  /\ \A s \in Sessions : WF_vars(SessionThread(s))
  /\ WF_vars(RunTask) /\ WF_vars(FinishTask)
  /\ \A i \in Depths : WF_vars(Quit(i))

-----------------------------------------------------------------------------
(* The state commands share without a lock (current view, frame path, views *)
(* and elements of a session) is touched by one task of the session at a    *)
(* time, even though tasks nest in the UI thread: two tasks on the stack    *)
(* belong to two sessions.                                                  *)
SessionTasksDoNotNest ==
  \A i, j \in DOMAIN stack : stack[i].session = stack[j].session => i = j

Pending(s) == \E i \in DOMAIN events : events[i] = s
Running(s) == \E i \in DOMAIN stack : stack[i].session = s

(* A session thread that is blocked has exactly one task in the UI thread,  *)
(* and one that is not has none: no wake-up goes to the wrong call.         *)
BlockedUntilRun ==
  /\ \A i, j \in DOMAIN events : events[i] = events[j] => i = j
  /\ \A s \in Sessions : ~ (Pending(s) /\ Running(s))
  /\ \A s \in Sessions : thread[s] = "blocked" <=> Pending(s) \/ Running(s)

(* RunSessionTask is the procedure call of SyncCall.                        *)
Phase(w) ==
  LET s == target[w] IN
  IF ~waiting[w] THEN "none"
  ELSE IF done[w] \/ (cur[s] = w /\ thread[s] = "woken") THEN "ran"
  ELSE IF cur[s] = w /\ ~Pending(s) THEN "running"
  ELSE "called"

Phases == [w \in Workers |-> Phase(w)]
Lines  == [s \in Sessions |-> IF Pending(s) THEN <<cur[s]>> \o queue[s] ELSE queue[s]]
Nest   == [i \in DOMAIN stack |-> cur[stack[i].session]]

Call == INSTANCE SyncCall WITH phase <- Phases, on <- target, line <- Lines, nest <- Nest

IsSynchronousCall == Call!Spec

(* Every call returns: tasks nested in a task do not hold it for ever, and  *)
(* the threads never wait in a circle.                                      *)
CallsReturn == \A w \in Workers : waiting[w] ~> ~waiting[w]
=============================================================================
