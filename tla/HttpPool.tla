------------------------------- MODULE HttpPool -------------------------------
(***************************************************************************)
(* The threads of the vendored HTTP server (mongoose.c), as Server uses    *)
(* it: a master thread accepts connections and puts them into a ring of    *)
(* fixed size, workers take them out, and mg_stop ends them all.           *)
(*                                                                         *)
(* Two things make it hard.  A worker's test of the stop flag and its wait *)
(* on a condition variable are one critical section, but the master        *)
(* broadcasts that condition without the mutex.  And the ring lets its     *)
(* indices grow beyond its size and wraps them back now and then.          *)
(***************************************************************************)
EXTENDS Integers, FiniteSets, Sequences

CONSTANTS
  Workers,    \* the worker threads (option http-threads, four by default)
  Sockets,    \* the connections that clients have open together
  QueueSize,  \* ARRAY_SIZE(ctx->queue), twenty
  NoSocket

ASSUME PoolAssumption ==
  /\ IsFiniteSet(Workers)
  /\ QueueSize \in Nat \ {0}
  /\ NoSocket \notin Sockets

VARIABLES
  live,       \* the context is allocated: between mg_start and the end of mg_stop
  stop_flag,  \* mg_context.stop_flag
  queue, sq_head, sq_tail,  \* the ring of accepted sockets
  master,     \* what the master thread is doing
  accepted,   \* the socket it is about to put into the ring
  worker,     \* what every worker is doing
  client,     \* the socket of its connection
  sock        \* "none", in the "backlog" of the kernel, "open", or "lost": open in the
              \* process, and no thread left that could close it

ringVars == <<queue, sq_head, sq_tail>>
poolVars == <<live, stop_flag, ringVars, master, accepted, worker, client, sock>>

MasterPcs == {"select", "produce", "full", "closing", "join", "ended"}
WorkerPcs ==
  {"consume",   \* about to lock the mutex in consume_socket
   "checked",   \* it holds the mutex, found nothing to do, and is about to wait
   "asleep",    \* in pthread_cond_wait(sq_full)
   "taken",     \* out of the critical section, about to read the stop flag
   "serving",   \* in process_new_connection
   "leaving",   \* out of its loop
   "exited"}

Open(s) == sock[s] = "open"
Length  == sq_head - sq_tail
Slot(i) == i % QueueSize

(* ctx->mutex: a worker keeps it from its test to its wait; all other       *)
(* critical sections are one step.                                          *)
MutexFree == \A w \in Workers : worker[w] # "checked"

(* ctx->num_threads                                                         *)
Running == {w \in Workers : worker[w] # "exited"}

PoolTypeOK ==
  /\ live \in BOOLEAN
  /\ stop_flag \in 0..2
  /\ queue \in [0..(QueueSize - 1) -> Sockets \cup {NoSocket}]
  /\ sq_tail \in 0..QueueSize
  /\ sq_head \in sq_tail..(sq_tail + QueueSize)
  /\ master \in MasterPcs
  /\ accepted \in Sockets \cup {NoSocket}
  /\ worker \in [Workers -> WorkerPcs]
  /\ client \in [Workers -> Sockets \cup {NoSocket}]
  /\ sock \in [Sockets -> {"none", "backlog", "open", "lost"}]

PoolInit ==
  /\ live = FALSE
  /\ stop_flag = 2
  /\ queue = [i \in 0..(QueueSize - 1) |-> NoSocket]
  /\ sq_head = 0
  /\ sq_tail = 0
  /\ master = "ended"
  /\ accepted = NoSocket
  /\ worker = [w \in Workers |-> "exited"]
  /\ client = [w \in Workers |-> NoSocket]
  /\ sock = [s \in Sockets |-> "none"]

-----------------------------------------------------------------------------
(* mg_start: a new context, the master thread and the workers.              *)
StartPool ==
  /\ ~live
  /\ live' = TRUE
  /\ stop_flag' = 0
  /\ queue' = [i \in 0..(QueueSize - 1) |-> NoSocket]
  /\ sq_head' = 0
  /\ sq_tail' = 0
  /\ master' = "select"
  /\ accepted' = NoSocket
  /\ worker' = [w \in Workers |-> "consume"]
  /\ client' = [w \in Workers |-> NoSocket]
  /\ UNCHANGED sock

(* mg_stop raises the flag ...                                              *)
RaiseStopFlag ==
  /\ stop_flag' = 1
  /\ UNCHANGED <<live, ringVars, master, accepted, worker, client, sock>>

(* ... and frees the context when the master has lowered it again.  What is *)
(* still in the ring stays open and has no owner.                           *)
FreeContext ==
  /\ live
  /\ stop_flag = 2
  /\ live' = FALSE
  /\ sock' = [s \in Sockets |-> IF Open(s) THEN "lost" ELSE sock[s]]
  /\ UNCHANGED <<stop_flag, ringVars, master, accepted, worker, client>>

(* A client connects while the port listens, or gives a connection up that  *)
(* nobody will ever serve.                                                  *)
Connect(s) ==
  /\ sock[s] = "none"
  /\ master \in {"select", "produce", "full"}
  /\ sock' = [sock EXCEPT ![s] = "backlog"]
  /\ UNCHANGED <<live, stop_flag, ringVars, master, accepted, worker, client>>

GiveUp(s) ==
  /\ sock[s] = "lost"
  /\ sock' = [sock EXCEPT ![s] = "none"]
  /\ UNCHANGED <<live, stop_flag, ringVars, master, accepted, worker, client>>

-----------------------------------------------------------------------------
(* The ring.  Mutants: the test for room is off by one; a wrap of one index  *)
(* only.                                                                     *)
HasRoomForOneMore == Length <= QueueSize
HasRoom == Length < QueueSize

Push(s) ==
  /\ queue' = [queue EXCEPT ![Slot(sq_head)] = s]
  /\ sq_head' = sq_head + 1
  /\ UNCHANGED sq_tail

PopWrapsTail(w) ==
  /\ client' = [client EXCEPT ![w] = queue[Slot(sq_tail)]]
  /\ sq_tail' = IF sq_tail + 1 > QueueSize THEN sq_tail + 1 - QueueSize ELSE sq_tail + 1
  /\ UNCHANGED <<queue, sq_head>>

Pop(w) ==
  LET wrap == IF sq_tail + 1 > QueueSize THEN QueueSize ELSE 0 IN
  /\ client' = [client EXCEPT ![w] = queue[Slot(sq_tail)]]
  /\ sq_tail' = sq_tail + 1 - wrap
  /\ sq_head' = sq_head - wrap
  /\ UNCHANGED queue

(* pthread_cond_signal(sq_full) wakes one of the sleeping workers.          *)
(* Mutant: it wakes none.                                                   *)
SignalNobody == UNCHANGED worker
SignalFull ==
  LET asleep == {w \in Workers : worker[w] = "asleep"} IN
  IF asleep = {} THEN UNCHANGED worker
  ELSE \E w \in asleep : worker' = [worker EXCEPT ![w] = "consume"]

(* pthread_cond_signal(sq_empty) wakes the master if it waits for room.     *)
(* Mutant: it does not.                                                     *)
SignalNoRoom == UNCHANGED master
SignalEmpty == master' = IF master = "full" THEN "produce" ELSE master

(* master_thread: select reports a connection, accept_new_connection takes  *)
(* it from the kernel.                                                      *)
AcceptConnection(s) ==
  /\ master = "select"
  /\ stop_flag = 0
  /\ sock[s] = "backlog"
  /\ sock' = [sock EXCEPT ![s] = "open"]
  /\ accepted' = s
  /\ master' = "produce"
  /\ UNCHANGED <<live, stop_flag, ringVars, worker, client>>

(* produce_socket: wait for room; a server that stops while the ring is    *)
(* full drops the socket.                                                   *)
ProduceSocket ==
  /\ master = "produce"
  /\ MutexFree
  /\ \/ /\ HasRoom
        /\ Push(accepted)
     \/ /\ ~HasRoom
        /\ stop_flag # 0
        /\ UNCHANGED ringVars
  /\ SignalFull
  /\ master' = "select"
  /\ accepted' = NoSocket
  /\ UNCHANGED <<live, stop_flag, client, sock>>

WaitForRoom ==
  /\ master = "produce"
  /\ MutexFree
  /\ ~HasRoom
  /\ stop_flag = 0
  /\ master' = "full"
  /\ UNCHANGED <<live, stop_flag, ringVars, accepted, worker, client, sock>>

(* The master leaves its loop, at most one select later ...                 *)
LeaveLoop ==
  /\ master = "select"
  /\ stop_flag # 0
  /\ master' = "closing"
  /\ UNCHANGED <<live, stop_flag, ringVars, accepted, worker, client, sock>>

(* ... closes the port, and wakes the workers without taking the mutex.     *)
StopWorkers ==
  /\ master = "closing"
  /\ sock' = [s \in Sockets |-> IF sock[s] = "backlog" THEN "none" ELSE sock[s]]
  /\ worker' = [w \in Workers |-> IF worker[w] = "asleep" THEN "consume" ELSE worker[w]]
  /\ master' = "join"
  /\ UNCHANGED <<live, stop_flag, ringVars, accepted, client>>

(* Mutant: the master ends when the workers are idle.                       *)
JoinIdle ==
  /\ master = "join"
  /\ MutexFree
  /\ \A w \in Workers : worker[w] # "serving"
  /\ stop_flag' = 2
  /\ master' = "ended"
  /\ UNCHANGED <<live, ringVars, accepted, worker, client, sock>>

(* All workers have gone: destroy the locks, tell mg_stop.                  *)
JoinWorkers ==
  /\ master = "join"
  /\ MutexFree
  /\ Running = {}
  /\ stop_flag' = 2
  /\ master' = "ended"
  /\ UNCHANGED <<live, ringVars, accepted, worker, client, sock>>

-----------------------------------------------------------------------------
(* consume_socket: the oldest socket of the ring, or nothing because the    *)
(* server stops ...                                                         *)
ConsumeSocket(w) ==
  /\ worker[w] = "consume"
  /\ MutexFree
  /\ \/ /\ Length > 0
        /\ Pop(w)
     \/ /\ Length = 0
        /\ stop_flag # 0
        /\ UNCHANGED <<ringVars, client>>
  /\ SignalEmpty
  /\ worker' = [worker EXCEPT ![w] = "taken"]
  /\ UNCHANGED <<live, stop_flag, accepted, sock>>

(* ... or a wait, with the mutex still held.                                *)
FindNothing(w) ==
  /\ worker[w] = "consume"
  /\ MutexFree
  /\ Length = 0
  /\ stop_flag = 0
  /\ worker' = [worker EXCEPT ![w] = "checked"]
  /\ UNCHANGED <<live, stop_flag, ringVars, master, accepted, client, sock>>

(* pthread_cond_wait gives the mutex back and sleeps.                       *)
FallAsleep(w) ==
  /\ worker[w] = "checked"
  /\ worker' = [worker EXCEPT ![w] = "asleep"]
  /\ UNCHANGED <<live, stop_flag, ringVars, master, accepted, client, sock>>

(* `return !ctx->stop_flag': serve the socket, or leave it open and end.    *)
ServeOrLeave(w) ==
  /\ worker[w] = "taken"
  /\ \/ /\ stop_flag = 0
        /\ worker' = [worker EXCEPT ![w] = "serving"]
        /\ UNCHANGED client
     \/ /\ stop_flag # 0
        /\ worker' = [worker EXCEPT ![w] = "leaving"]
        /\ client' = [client EXCEPT ![w] = NoSocket]
  /\ UNCHANGED <<live, stop_flag, ringVars, master, accepted, sock>>

(* The response is sent (the server never keeps a connection alive).        *)
CloseConnection(w) ==
  /\ worker[w] = "serving"
  /\ worker' = [worker EXCEPT ![w] = "consume"]
  /\ sock' = [sock EXCEPT ![client[w]] = "none"]
  /\ client' = [client EXCEPT ![w] = NoSocket]
  /\ UNCHANGED <<live, stop_flag, ringVars, master, accepted>>

ExitWorker(w) ==
  /\ worker[w] = "leaving"
  /\ MutexFree
  /\ worker' = [worker EXCEPT ![w] = "exited"]
  /\ UNCHANGED <<live, stop_flag, ringVars, master, accepted, client, sock>>

-----------------------------------------------------------------------------
Master ==
  \/ \E s \in Sockets : AcceptConnection(s)
  \/ ProduceSocket \/ WaitForRoom \/ LeaveLoop \/ StopWorkers \/ JoinWorkers

BetweenRequests(w) ==
  \/ ConsumeSocket(w) \/ FindNothing(w) \/ FallAsleep(w)
  \/ ServeOrLeave(w) \/ ExitWorker(w)

StopPool == live /\ stop_flag = 0 /\ RaiseStopFlag

PoolNext ==
  \/ StartPool \/ StopPool \/ FreeContext
  \/ \E s \in Sockets : Connect(s) \/ GiveUp(s)
  \/ Master
  \/ \E w \in Workers : BetweenRequests(w) \/ CloseConnection(w)

PoolSpec == PoolInit /\ [][PoolNext]_poolVars

(* Threads run, and the handler of a request returns (module Server looks   *)
(* at handlers that do not).  Mutexes are not fair: a thread that wants one  *)
(* gets it if it is free again and again.                                   *)
PoolFairness ==
  /\ SF_poolVars(Master)
  /\ WF_poolVars(FreeContext)
  /\ \A w \in Workers : SF_poolVars(BetweenRequests(w)) /\ WF_poolVars(CloseConnection(w))

PoolFairSpec == PoolSpec /\ PoolFairness

-----------------------------------------------------------------------------
(* free_context and the destruction of the mutex come after the last use of *)
(* the context by a thread of the pool: "All threads exited, no sync is      *)
(* needed".                                                                  *)
ContextOutlivesThreads ==
  ~live \/ stop_flag = 2 =>
    /\ master = "ended"
    /\ \A w \in Workers : worker[w] = "exited"

(* An open connection belongs to one thread or to one slot of the ring, as   *)
(* long as the server is not asked to stop: none is lost, none is in two     *)
(* slots, and none is with two workers, whatever the indices of the ring     *)
(* have grown to.                                                            *)
Slots(s)   == {i \in sq_tail..(sq_head - 1) : queue[Slot(i)] = s}
Holders(s) == {w \in Workers : client[w] = s}

HasOneOwner(s) ==
  \/ s = accepted /\ Slots(s) = {} /\ Holders(s) = {}
  \/ s # accepted /\ Holders(s) = {} /\ \E i \in Slots(s) : Slots(s) = {i}
  \/ s # accepted /\ Slots(s) = {} /\ \E w \in Holders(s) : Holders(s) = {w}

EveryConnectionHasOneOwner ==
  live /\ stop_flag = 0 => \A s \in Sockets : Open(s) => HasOneOwner(s)

(* The ring is a bounded first-in first-out queue that hands every socket   *)
(* to one worker, whatever its indices have grown to.                        *)
Line == [i \in 1..Length |-> queue[Slot(sq_tail + i - 1)]]

Ring == INSTANCE SocketQueue WITH Capacity <- QueueSize, line <- Line

IsSocketQueue == Ring!Spec

(* A connection that is accepted is answered and closed, however many others *)
(* are queued before it, unless the server is asked to stop.                 *)
ConnectionsAnswered ==
  \A s \in Sockets : Open(s) ~> ~Open(s) \/ stop_flag # 0

(* mongoose.h: mg_stop "blocks until all Mongoose threads are stopped".  It  *)
(* returns unless a worker found the flag still down, and the master         *)
(* broadcast before that worker began to wait.                               *)
Overslept(w) == worker[w] = "asleep" /\ master = "join"

StopReturnsUnlessOverslept ==
  live /\ stop_flag # 0 ~> ~live \/ \E w \in Workers : Overslept(w)
=============================================================================
