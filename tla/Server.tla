-------------------------------- MODULE Server --------------------------------
(***************************************************************************)
(* Server: configuring, starting, stopping and resetting the driver, on    *)
(* top of the threads of HttpPool.                                         *)
(*                                                                         *)
(* The application calls Server from one thread, often the UI thread.  The *)
(* handlers of requests run in the workers of the pool; some need a task   *)
(* in the UI thread, and the shutdown command calls Server::Stop itself,   *)
(* from the very pool that Stop waits for.  Stop works on a copy of the    *)
(* session map that it took before the workers stopped.                    *)
(***************************************************************************)
EXTENDS HttpPool

CONSTANTS
  Sessions,   \* ids of sessions
  NoSession,
  UrlBases,   \* values for the option url-base
  NoBase,     \* the empty string: the option is not given
  Lists       \* files for the option whitelist

App == "app"
ASSUME ServerAssumption ==
  /\ NoSession \notin Sessions
  /\ NoBase \notin UrlBases
  /\ App \notin Workers

Callers == Workers \cup {App}   \* of Server::Stop

VARIABLES
  state_, routeTable_, url_base_, accessList,
  given,     \* the options of the last successful Configure
  phase,     \* how far the handler of each worker has come
  job,       \* its kind of command
  target,    \* the session it is about
  sessions,  \* SessionManager's map
  appIsUI,   \* the application calls Server from the UI thread; it never changes
  ui,        \* the UI thread runs its event loop, or was told to quit it
  stopPc,    \* how far each caller has come in Stop
  snap,      \* what its copy of the map still holds; NoSession stands for the
             \* pointers to sessions that have been deleted since
  created,   \* sessions registered since the application's Stop copied the map
  ub,        \* a deleted session was used
  exited     \* main returned: all threads are gone

optionVars  == <<url_base_, accessList, given>>
configVars  == <<state_, routeTable_, optionVars>>
handlerVars == <<phase, job, target>>
stopVars    == <<stopPc, snap, created>>
uiVars      == <<appIsUI, ui>>
serverVars  == <<configVars, handlerVars, sessions, uiVars, stopVars, ub, exited>>
vars == <<poolVars, serverVars>>

States == {"UNCONFIGURED", "IDLE", "RUNNING"}
Jobs ==
  {"quick",     \* nothing but the worker is involved, or there is no such route
   "command",   \* a command of a session: a task in the UI thread
   "create", "delete",
   "shutdown"}  \* registered by applications that want it
PostJobs == {"create", "command", "shutdown"}
Phases == {"none", "reading", "execute", "creating", "task", "stop", "respond"}
StopPcs == {"none", "copied", "joining", "closing"}
Options == [base : UrlBases \cup {NoBase}, lists : SUBSET Lists]

TypeOK ==
  /\ PoolTypeOK
  /\ state_ \in States
  /\ routeTable_ \in {"null", "default", "custom"}
  /\ url_base_ \in UrlBases \cup {NoBase}
  /\ accessList \in SUBSET Lists
  /\ given \in Options
  /\ phase \in [Workers -> Phases]
  /\ job \in [Workers -> Jobs]
  /\ target \in [Workers -> Sessions \cup {NoSession}]
  /\ sessions \in SUBSET Sessions
  /\ appIsUI \in BOOLEAN
  /\ ui \in {"running", "quit"}
  /\ stopPc \in [Callers -> StopPcs]
  /\ snap \in [Callers -> SUBSET (Sessions \cup {NoSession})]
  /\ created \in SUBSET Sessions
  /\ ub \in BOOLEAN
  /\ exited \in BOOLEAN

Init ==
  /\ PoolInit
  /\ state_ = "UNCONFIGURED"
  /\ routeTable_ = "null"
  /\ url_base_ = NoBase
  /\ accessList = {}
  /\ given = [base |-> NoBase, lists |-> {}]
  /\ phase = [w \in Workers |-> "none"]
  /\ job = [w \in Workers |-> "quick"]
  /\ target = [w \in Workers |-> NoSession]
  /\ sessions = {}
  /\ appIsUI \in BOOLEAN
  /\ ui = "running"
  /\ stopPc = [c \in Callers |-> "none"]
  /\ snap = [c \in Callers |-> {}]
  /\ created = {}
  /\ ub = FALSE
  /\ exited = FALSE

(* The thread of the application is not inside Stop.                        *)
AppReady == stopPc[App] = "none"

(* The UI thread picks up the tasks that session threads hand to it.        *)
UiRuns == ui = "running" /\ (appIsUI => AppReady)

Goto(w, p) == phase' = [phase EXCEPT ![w] = p]
Answer(w) ==
  /\ Goto(w, "respond")
  /\ job' = [job EXCEPT ![w] = "quick"]
  /\ target' = [target EXCEPT ![w] = NoSession]
StopGoto(c, p) == stopPc' = [stopPc EXCEPT ![c] = p]

(* A worker deletes a session: the pointer to it in a copy of the map       *)
(* dangles.                                                                  *)
DeleteSession(s) ==
  /\ sessions' = sessions \ {s}
  /\ created' = created \ {s}
  /\ snap' = [c \in Callers |->
       IF s \in snap[c] THEN (snap[c] \ {s}) \cup {NoSession} ELSE snap[c]]

-----------------------------------------------------------------------------
(* The application's calls.  A Configure that fails (the log cannot be       *)
(* opened, http-threads is no number), a Start that finds the port in use    *)
(* and calls in the wrong state return an error and change nothing.          *)

(* Without the switch url_base_ keeps its value; a whitelist is added to the *)
(* rules there are.                                                          *)
Configure(o) ==
  /\ AppReady
  /\ state_ = "UNCONFIGURED"
  /\ url_base_' = IF o.base = NoBase THEN url_base_ ELSE o.base
  /\ accessList' = accessList \cup o.lists
  /\ given' = o
  /\ routeTable_' = "default"
  /\ state_' = "IDLE"
  /\ UNCHANGED <<poolVars, handlerVars, sessions, uiVars, stopVars, ub, exited>>

(* Mutant: a running server can be reset.                                    *)
ResetRunning ==
  /\ AppReady
  /\ state_ # "UNCONFIGURED"
  /\ routeTable_' = "null"
  /\ state_' = "UNCONFIGURED"
  /\ UNCHANGED <<poolVars, optionVars, handlerVars, sessions, uiVars, stopVars, ub, exited>>

Reset ==
  /\ AppReady
  /\ state_ = "IDLE"
  /\ routeTable_' = "null"
  /\ state_' = "UNCONFIGURED"
  /\ UNCHANGED <<poolVars, optionVars, handlerVars, sessions, uiVars, stopVars, ub, exited>>

SetRouteTable ==
  /\ AppReady
  /\ state_ = "IDLE"
  /\ routeTable_' = "custom"
  /\ UNCHANGED <<poolVars, state_, optionVars, handlerVars, sessions, uiVars, stopVars, ub, exited>>

Start ==
  /\ AppReady
  /\ state_ = "IDLE"
  /\ StartPool
  /\ state_' = "RUNNING"
  /\ UNCHANGED <<routeTable_, optionVars, handlerVars, sessions, uiVars, stopVars, ub, exited>>

-----------------------------------------------------------------------------
(* Server::Stop, called by the application or by the worker of a shutdown    *)

(* Nothing to do, or open sessions and no force.  The worker answers then.   *)
StopAtOnce(c, force) ==
  /\ state_ # "RUNNING" \/ (~force /\ sessions # {})
  /\ IF c = App THEN UNCHANGED phase ELSE Goto(c, "respond")
  /\ UNCHANGED stopVars

(* The copy of the session map.                                              *)
CopySessions(c, force) ==
  /\ state_ = "RUNNING"
  /\ force \/ sessions = {}
  /\ snap' = [snap EXCEPT ![c] = sessions]
  /\ StopGoto(c, "copied")
  /\ UNCHANGED <<created, phase>>

StopCalled(c, force) ==
  /\ CASE c = App -> AppReady
       [] OTHER   -> phase[c] = "stop" /\ stopPc[c] = "none"
  /\ StopAtOnce(c, force) \/ CopySessions(c, force)
  /\ UNCHANGED <<poolVars, configVars, job, target, sessions, uiVars, ub, exited>>

MgStop(c) ==
  /\ stopPc[c] = "copied"
  /\ RaiseStopFlag
  /\ StopGoto(c, "joining")
  /\ UNCHANGED <<configVars, handlerVars, sessions, uiVars, snap, created, ub, exited>>

(* Mutant: the pool is left to end by itself.                                *)
MgStopReturnsAtOnce(c) ==
  /\ stopPc[c] = "joining"
  /\ StopGoto(c, "closing")
  /\ UNCHANGED <<poolVars, configVars, handlerVars, sessions, uiVars, snap, created, ub, exited>>

MgStopReturns(c) ==
  /\ stopPc[c] = "joining"
  /\ FreeContext
  /\ StopGoto(c, "closing")
  /\ UNCHANGED <<configVars, handlerVars, sessions, uiVars, snap, created, ub, exited>>

(* Mutant: a session whose views cannot be closed is skipped.                *)
SkipSession(c) ==
  /\ stopPc[c] = "closing"
  /\ \E s \in snap[c] :
       /\ snap' = [snap EXCEPT ![c] = @ \ {s}]
       /\ UiRuns
       /\ sessions' \in {sessions, sessions \ {s}}
  /\ UNCHANGED <<poolVars, configVars, handlerVars, uiVars, stopPc, created, ub, exited>>

(* The tasks that close the views of a session, then Terminate.  The copy    *)
(* may name a session that has been deleted.                                 *)
CloseSession(c) ==
  /\ stopPc[c] = "closing"
  /\ \E s \in snap[c] :
       /\ snap' = [snap EXCEPT ![c] = @ \ {s}]
       /\ \/ s \in sessions /\ UiRuns /\ sessions' = sessions \ {s} /\ UNCHANGED ub
          \/ s \notin sessions /\ ub' = TRUE /\ UNCHANGED sessions
  /\ UNCHANGED <<poolVars, configVars, handlerVars, uiVars, stopPc, created, exited>>

(* Mutant: Stop goes on until no session is left.                            *)
StopInsists(c) ==
  /\ stopPc[c] = "closing"
  /\ snap[c] = {}
  /\ sessions = {}
  /\ StopGoto(c, "none")
  /\ state_' = "IDLE"
  /\ created' = {}
  /\ IF c = App THEN UNCHANGED phase ELSE Goto(c, "respond")
  /\ UNCHANGED <<poolVars, routeTable_, optionVars, job, target, sessions, uiVars, snap, ub, exited>>

StopReturnsTo(c) ==
  /\ stopPc[c] = "closing"
  /\ snap[c] = {}
  /\ StopGoto(c, "none")
  /\ state_' = "IDLE"
  /\ created' = {}
  /\ IF c = App THEN UNCHANGED phase ELSE Goto(c, "respond")
  /\ UNCHANGED <<poolVars, routeTable_, optionVars, job, target, sessions, uiVars, snap, ub, exited>>

Stopping(c) == MgStop(c) \/ MgStopReturns(c) \/ CloseSession(c) \/ StopReturnsTo(c)

-----------------------------------------------------------------------------
(* ProcessHttpRequest, in a worker                                           *)

(* GetRouteForURL finds the command.  The body of a POST is read before it   *)
(* runs.                                                                     *)
Receive(w, k, s) ==
  /\ worker[w] = "serving"
  /\ phase[w] = "none"
  /\ k = "shutdown" => routeTable_ = "custom"
  /\ s = NoSession <=> k \notin {"command", "delete"}
  /\ job' = [job EXCEPT ![w] = k]
  /\ target' = [target EXCEPT ![w] = s]
  /\ Goto(w, IF k \in PostJobs THEN "reading" ELSE "execute")
  /\ UNCHANGED <<poolVars, configVars, sessions, uiVars, stopVars, ub, exited>>

(* ReadRequestBody.  Nothing obliges a client to send all it announced; when *)
(* it closes the connection instead, mg_read returns zero again and again.   *)
BodyArrives(w) ==
  /\ phase[w] = "reading"
  /\ Goto(w, "execute")
  /\ UNCHANGED <<poolVars, configVars, job, target, sessions, uiVars, stopVars, ub, exited>>

ExecuteQuick(w) ==
  /\ phase[w] = "execute"
  /\ \/ job[w] = "quick"
     \/ job[w] \in {"command", "delete"} /\ target[w] \notin sessions
     \/ job[w] = "create" /\ sessions # {}
  /\ Answer(w)
  /\ UNCHANGED <<poolVars, configVars, sessions, uiVars, stopVars, ub, exited>>

ExecuteInSession(w) ==
  /\ phase[w] = "execute"
  /\ job[w] \in {"command", "delete"}
  /\ target[w] \in sessions
  /\ Goto(w, "task")
  /\ UNCHANGED <<poolVars, configVars, job, target, sessions, uiVars, stopVars, ub, exited>>

(* The test for a session in the map ...                                     *)
InTheMaking == {w \in Workers : phase[w] = "creating"}

CheckNoSession(w) ==
  /\ phase[w] = "execute"
  /\ job[w] = "create"
  /\ sessions = {}
  /\ Cardinality(InTheMaking) < Cardinality(Sessions)        \* bound: the ids
  /\ Goto(w, "creating")
  /\ UNCHANGED <<poolVars, configVars, job, target, sessions, uiVars, stopVars, ub, exited>>

(* ... and, in a second critical section, the constructor that registers a   *)
(* session before it is initialised.                                         *)
ExecuteCreate(w) ==
  /\ phase[w] = "creating"
  /\ \E s \in Sessions \ sessions :
       /\ sessions' = sessions \cup {s}
       /\ target' = [target EXCEPT ![w] = s]
       /\ created' = IF AppReady THEN created ELSE created \cup {s}
  /\ Goto(w, "task")
  /\ UNCHANGED <<poolVars, configVars, job, uiVars, stopPc, snap, ub, exited>>

(* ShutdownCommand::ExecutePost quits the UI loop and calls Stop(true).      *)
ExecuteShutdown(w) ==
  /\ phase[w] = "execute"
  /\ job[w] = "shutdown"
  /\ ui' = "quit"
  /\ UNCHANGED appIsUI
  /\ Goto(w, "stop")
  /\ UNCHANGED <<poolVars, configVars, job, target, sessions, stopVars, ub, exited>>

(* RunSessionTask returns once the UI thread has run the task.  A deletion   *)
(* ends its session, a creation that fails too.                              *)
RunTask(w) ==
  /\ phase[w] = "task"
  /\ UiRuns
  /\ \/ /\ job[w] # "delete"
        /\ UNCHANGED <<sessions, created, snap>>
     \/ /\ job[w] # "command"
        /\ DeleteSession(target[w])
  /\ Answer(w)
  /\ UNCHANGED <<poolVars, configVars, uiVars, stopPc, ub, exited>>

Respond(w) ==
  /\ phase[w] = "respond"
  /\ CloseConnection(w)
  /\ Goto(w, "none")
  /\ job' = [job EXCEPT ![w] = "quick"]
  /\ target' = [target EXCEPT ![w] = NoSession]
  /\ UNCHANGED <<configVars, sessions, uiVars, stopVars, ub, exited>>

(* main returns from exec() and ends the process with all its threads.       *)
ProcessExit ==
  /\ ui = "quit"
  /\ appIsUI => AppReady
  /\ exited' = TRUE
  /\ UNCHANGED <<poolVars, configVars, handlerVars, sessions, uiVars, stopVars, ub>>

-----------------------------------------------------------------------------
PoolStep ==
  /\ \/ \E s \in Sockets : Connect(s) \/ GiveUp(s)
     \/ Master
     \/ \E w \in Workers : BetweenRequests(w)
  /\ UNCHANGED serverVars

Handle(w) ==
  \/ ExecuteQuick(w) \/ ExecuteInSession(w) \/ ExecuteShutdown(w)
  \/ CheckNoSession(w) \/ ExecuteCreate(w)
  \/ RunTask(w) \/ Respond(w)
  \/ phase[w] = "stop" /\ StopCalled(w, TRUE)

AppCalls ==
  \/ \E o \in Options : Configure(o)
  \/ Reset \/ SetRouteTable \/ Start
  \/ \E force \in BOOLEAN : StopCalled(App, force)

Next ==
  /\ ~exited /\ ~ub
  /\ \/ PoolStep
     \/ AppCalls
     \/ \E c \in Callers : Stopping(c)
     \/ \E w \in Workers :
          \/ Handle(w) \/ BodyArrives(w)
          \/ \E k \in Jobs, s \in Sessions \cup {NoSession} : Receive(w, k, s)
     \/ ProcessExit

Spec == Init /\ [][Next]_vars

(* All threads run, and clients send a request on a connection they opened.  *)
(* They need not send its body, and the application need not call anything.  *)
Fairness ==
  /\ SF_vars(Master /\ UNCHANGED serverVars)
  /\ \A w \in Workers :
       /\ SF_vars(BetweenRequests(w) /\ UNCHANGED serverVars)
       /\ WF_vars(Handle(w))
       /\ WF_vars(\E k \in Jobs, s \in Sessions \cup {NoSession} : Receive(w, k, s))
  /\ \A c \in Callers : WF_vars(Stopping(c))
  /\ WF_vars(ProcessExit)

FairSpec == Spec /\ Fairness

-----------------------------------------------------------------------------
(* routeTable_ and options_ are freed by Reset while no worker can be inside *)
(* ProcessHttpRequest, which uses them without a lock.                       *)
RoutesOutliveRequests ==
  (\E w \in Workers : phase[w] # "none") => routeTable_ # "null"

(* A context exists exactly while the server counts as running, or Stop is   *)
(* closing sessions: no second Start leaks one, no Stop frees one twice.     *)
StateMatchesPool ==
  state_ = "RUNNING" <=> live \/ \E c \in Callers : stopPc[c] = "closing"

(* Stop that returns to the application leaves no session but those that     *)
(* were registered after it copied the map: a deletion that overlaps it, or  *)
(* a creation that was registered in time, is no excuse for one left behind. *)
StopClosesSessions ==
  [][ stopPc[App] = "closing" /\ stopPc'[App] = "none" => sessions' \subseteq created ]_vars

(* Why a Stop can take forever.                                              *)
OversleptWorker == \E w \in Workers : Overslept(w)
StopFromThePool == \E w \in Workers : stopPc[w] # "none"
WaitsForUI      == \E w \in Workers : phase[w] = "task" /\ ~UiRuns
WaitsForBody    == \E w \in Workers : phase[w] = "reading"
ClosesFromUI    == appIsUI /\ stopPc[App] = "closing" /\ snap[App] # {}

(* Stop returns to the application, unless one of these holds: a worker      *)
(* overslept, a shutdown waits for its own pool, a worker waits for the UI   *)
(* thread or for a client, the sessions are closed from the UI thread.       *)
StopEnds ==
  stopPc[App] # "none" ~>
    \/ stopPc[App] = "none" \/ exited \/ ub
    \/ OversleptWorker \/ StopFromThePool \/ WaitsForUI \/ WaitsForBody \/ ClosesFromUI

(* Where these are deadlocks they are final: nothing the application, a      *)
(* client or another worker does afterwards makes Stop return, and only the  *)
(* end of the process ends them.                                             *)
InStop == stopPc[App] \in {"joining", "closing"}
DeadlocksAreFinal ==
  [][ /\ StopFromThePool => StopFromThePool'
      /\ InStop /\ WaitsForUI /\ appIsUI => (InStop /\ WaitsForUI)'
      /\ ClosesFromUI /\ NoSession \notin snap[App] => ClosesFromUI' ]_vars

(* webdriver_server.h: Reset puts the "server to unconfigured state", after  *)
(* which one "can call configure and start again": the options in effect are *)
(* those of the last Configure.                                              *)
OptionsInEffect ==
  state_ # "UNCONFIGURED" => url_base_ = given.base /\ accessList = given.lists
=============================================================================
