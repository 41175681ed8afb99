-------------------------- MODULE SessionLifecycle --------------------------
(***************************************************************************)
(* Who owns a Session, and for how long.                                   *)
(*                                                                         *)
(* HTTP worker threads share the SessionManager's map of raw Session       *)
(* pointers.  The map has a lock, the sessions do not: a command looks its *)
(* session up, lets the lock go and keeps the pointer until it has sent    *)
(* its answer, while any other worker may run Session::Terminate, which    *)
(* ends in `delete this'.                                                  *)
(*                                                                         *)
(* A worker blocks in Session::RunSessionTask while the UI thread runs its *)
(* task.  One action below is one such task together with the code the     *)
(* worker runs up to its next one, so that other workers act between any   *)
(* two tasks of a command.  Module SessionTask opens RunSessionTask up.    *)
(***************************************************************************)
EXTENDS Naturals, FiniteSets

CONSTANTS
  Workers,          \* the threads of the HTTP server (option http-threads)
  Sessions,         \* the session ids ever generated: bounds the sessions created
  Windows,          \* the top-level windows the tested application can show
  NoSession,        \* the null Session*, and an id that no session has
  NoWindow,         \* a view id that resolves to no window
  AppProxy,         \* the application proxy in place before any session
  MayOverlap(_, _)  \* which two requests the clients leave in flight together

ASSUME NullsAreNotValues ==
  /\ NoSession \notin Sessions
  /\ NoWindow \notin Windows
  /\ AppProxy \notin Sessions \cup {NoSession}

CreateKinds  == {"create", "reuse"}   \* POST /session, without and with reuseUI
SessionKinds ==
  {"state",    \* a command that only reads the session or switches nothing
   "switch",   \* POST   /session/:id/window
   "close",    \* DELETE /session/:id/window
   "view",     \* a ViewCommand: it acts on the current view
   "delete"}   \* DELETE /session/:id
Kinds == CreateKinds \cup SessionKinds \cup {"list"}   \* "list": GET /sessions

Requests ==
  [kind : CreateKinds \cup {"list"}, id : {NoSession}]
    \cup [kind : SessionKinds, id : Sessions \cup {NoSession}]

NoRequest == [kind |-> "list", id |-> NoSession]   \* of an idle worker

(* A discipline for MayOverlap: two requests that can be in flight together *)
(* without one of them being able to delete a session the other uses.       *)
(* Every command of a session may terminate it (Init does, when no view is  *)
(* left), so two commands of one session do not overlap; `reuse' ends, and  *)
(* `list' reads, every session; and creations do not overlap each other.    *)
CarefulClients(r, q) ==
  /\ {r.kind, q.kind} \cap {"reuse", "list"} = {}
  /\ ~ {r.kind, q.kind} \subseteq CreateKinds
  /\ r.id = q.id => r.id = NoSession

TerminatePcs == {"restoreProxy", "removeFromMap", "destroy"}
CreatePcs    == {"construct", "init", "postInit", "startView", "switchView", "bounds"}
CommandPcs   == {"enumerate", "execute", "closeViews", "recount", "log"}
UsingPcs     == TerminatePcs \cup CommandPcs \cup (CreatePcs \ {"construct"})
Pcs == UsingPcs \cup
         {"idle", "getSessions", "construct", "lookup", "listAll", "readCaps", "finish", "reply"}

Answers == {"none", "kSuccess", "kSeeOther", "kSessionNotFound", "kNoSuchWindow",
            "kBadRequest", "kUnknownError"}

VARIABLES
  map,        \* SessionManager::map_: the ids it holds
  obj,        \* the C++ object behind every id
  current,    \* Session::current_view_id_
  saved,      \* QSessionLifeCycleActions::saved_proxy_, AppProxy or an id;
              \* NoSession when restore_proxy_ is false
  proxy,      \* QNetworkProxy::applicationProxy(): AppProxy or the id that set it
  windows,    \* the windows now on the screen
  announced,  \* the ids the clients have been told of
  pc, req,    \* what each worker is doing, and for which request
  ref,        \* the Session* on the worker's stack
  ret,        \* where the worker goes on when Terminate or the destructor returns
  seen,       \* the views DELETE has still to close; the start view, when creating
  snap,       \* the copy of the map returned by GetSessions
  answer,     \* the status put in the Response
  ub          \* a freed Session was used: nothing is promised from here on

sessionVars == <<map, obj, current, saved, proxy>>
workerVars  == <<pc, req, ref, ret, seen, snap, answer>>
vars == <<sessionVars, windows, announced, workerVars, ub>>

TypeOK ==
  /\ map \in SUBSET Sessions
  /\ obj \in [Sessions -> {"unborn", "live", "freed"}]
  /\ current \in [Sessions -> Windows \cup {NoWindow}]
  /\ saved \in [Sessions -> Sessions \cup {AppProxy, NoSession}]
  /\ proxy \in Sessions \cup {AppProxy}
  /\ windows \in SUBSET Windows
  /\ announced \in SUBSET Sessions
  /\ pc \in [Workers -> Pcs]
  /\ req \in [Workers -> Requests]
  /\ ref \in [Workers -> Sessions \cup {NoSession}]
  /\ ret \in [Workers -> {"construct", "finish", "reply"}]
  /\ seen \in [Workers -> SUBSET Windows]
  /\ snap \in [Workers -> SUBSET Sessions]
  /\ answer \in [Workers -> Answers]
  /\ ub \in BOOLEAN

Init ==
  /\ map = {}
  /\ obj = [s \in Sessions |-> "unborn"]
  /\ current = [s \in Sessions |-> NoWindow]
  /\ saved = [s \in Sessions |-> NoSession]
  /\ proxy = AppProxy
  /\ windows \in SUBSET Windows
  /\ announced = {}
  /\ pc = [w \in Workers |-> "idle"]
  /\ req = [w \in Workers |-> NoRequest]
  /\ ref = [w \in Workers |-> NoSession]
  /\ ret = [w \in Workers |-> "reply"]
  /\ seen = [w \in Workers |-> {}]
  /\ snap = [w \in Workers |-> {}]
  /\ answer = [w \in Workers |-> "none"]
  /\ ub = FALSE

-----------------------------------------------------------------------------
(* Helpers.                                                                *)

Goto(w, label) == pc' = [pc EXCEPT ![w] = label]

(* The worker leaves its command with status a, at label l.                *)
Answer(w, a, l) ==
  /\ answer' = [answer EXCEPT ![w] = a]
  /\ Goto(w, l)

(* session->Terminate(), called with status a; then the worker is at l.    *)
CallTerminate(w, a, l) ==
  /\ Answer(w, a, "restoreProxy")
  /\ ret' = [ret EXCEPT ![w] = l]

(* `delete this' without Terminate, as the early errors of Init do.        *)
CallDelete(w, a) ==
  /\ Answer(w, a, "removeFromMap")
  /\ ret' = [ret EXCEPT ![w] = "reply"]

(* The worker is at label l with a session that still exists.              *)
Using(w, l) ==
  /\ pc[w] = l
  /\ obj[ref[w]] = "live"

(* CreateExecutor(session, current view) # NULL: the id maps to a window.  *)
HasView(s) == current[s] \in windows

(* A window goes away: the handles that point to it go null.               *)
Disappear(V) ==
  /\ windows' = windows \ V
  /\ current' = [s \in Sessions |-> IF current[s] \in V THEN NoWindow ELSE current[s]]

-----------------------------------------------------------------------------
(* A worker takes a request off the server's queue.  `MayOverlap' is the    *)
(* discipline of the clients; the last conjunct bounds the sessions.        *)
Accept(w, r) ==
  /\ pc[w] = "idle"
  /\ r.id \in announced \cup {NoSession}
  /\ \A v \in Workers : pc[v] # "idle" => MayOverlap(r, req[v])
  /\ r.kind \in CreateKinds => \E s \in Sessions : obj[s] = "unborn"
  /\ req' = [req EXCEPT ![w] = r]
  /\ Goto(w, IF r.kind \in CreateKinds THEN "getSessions"
             ELSE IF r.kind = "list" THEN "listAll" ELSE "lookup")
  /\ UNCHANGED <<sessionVars, windows, announced, ref, ret, seen, snap, answer, ub>>

(* The response is sent; a client learns the ids it carries.  The command   *)
(* and the locals of its handler go out of scope.                           *)
Reply(w) ==
  /\ pc[w] = "reply"
  /\ announced' = announced \cup
        (IF answer[w] = "kSeeOther" THEN {ref[w]}
         ELSE IF req[w].kind = "list" THEN snap[w] ELSE {})
  /\ Answer(w, "none", "idle")
  /\ req' = [req EXCEPT ![w] = NoRequest]
  /\ ref' = [ref EXCEPT ![w] = NoSession]
  /\ ret' = [ret EXCEPT ![w] = "reply"]
  /\ seen' = [seen EXCEPT ![w] = {}]
  /\ snap' = [snap EXCEPT ![w] = {}]
  /\ UNCHANGED <<sessionVars, windows, ub>>

-----------------------------------------------------------------------------
(* CreateSession::ExecutePost                                              *)

(* Mutant: reuseUI forgets to terminate the session it replaces.            *)
GetSessionsKeepsPrevious(w) ==
  /\ pc[w] = "getSessions"
  /\ snap' = [snap EXCEPT ![w] = map]
  /\ \/ /\ map = {} \/ req[w].kind = "reuse"
        /\ Goto(w, "construct")
        /\ UNCHANGED answer
     \/ /\ map # {}
        /\ req[w].kind = "create"
        /\ Answer(w, "kUnknownError", "reply")
  /\ UNCHANGED <<sessionVars, windows, announced, req, ref, ret, seen, ub>>

(* GetSessions() copies the map; what follows works on the copy.  A second  *)
(* session is refused, or, with reuseUI, the first is terminated.           *)
GetSessions(w) ==
  /\ pc[w] = "getSessions"
  /\ snap' = [snap EXCEPT ![w] = map]
  /\ \/ /\ map = {}
        /\ Goto(w, "construct")
        /\ UNCHANGED <<ref, ret, answer>>
     \/ /\ map # {}
        /\ req[w].kind = "create"
        /\ Answer(w, "kUnknownError", "reply")
        /\ UNCHANGED <<ref, ret>>
     \/ \E s \in map :
          /\ req[w].kind = "reuse"
          /\ ref' = [ref EXCEPT ![w] = s]
          /\ CallTerminate(w, "none", "construct")
  /\ UNCHANGED <<sessionVars, windows, announced, req, seen, ub>>

(* new Session(): a fresh id; the constructor adds itself to the manager.   *)
Construct(w) ==
  /\ pc[w] = "construct"
  /\ \E s \in Sessions :
       /\ obj[s] = "unborn"
       /\ obj' = [obj EXCEPT ![s] = "live"]
       /\ map' = map \cup {s}
       /\ ref' = [ref EXCEPT ![w] = s]
  /\ Goto(w, "init")
  /\ UNCHANGED <<current, saved, proxy, windows, announced, req, ret, seen, snap, answer, ub>>

(* Session::Init up to PostInit: the thread, the temporary directory, the   *)
(* required capabilities or the capabilities parser may fail.               *)
InitSession(w) ==
  /\ Using(w, "init")
  /\ \/ Goto(w, "postInit") /\ UNCHANGED <<ret, answer>>
     \/ CallDelete(w, "kUnknownError")
  /\ UNCHANGED <<sessionVars, windows, announced, req, ref, seen, snap, ub>>

(* Mutant: the error path after the proxy was set deletes the session       *)
(* instead of terminating it, as the earlier error paths do.                *)
PostInitDeletes(w) ==
  /\ Using(w, "postInit")
  /\ saved' = [saved EXCEPT ![ref[w]] = proxy]
  /\ proxy' = ref[w]
  /\ \/ CallDelete(w, "kUnknownError")
     \/ Goto(w, "startView") /\ UNCHANGED <<ret, answer>>
  /\ UNCHANGED <<map, obj, current, windows, announced, req, ref, seen, snap, ub>>

(* QSessionLifeCycleActions::PostInit: the proxy settings may not parse;    *)
(* once they are applied, the Qt version may not match.                     *)
PostInit(w) ==
  /\ Using(w, "postInit")
  /\ LET s == ref[w] IN
     \/ /\ CallTerminate(w, "kUnknownError", "reply")
        /\ UNCHANGED <<saved, proxy>>
     \/ /\ saved' = [saved EXCEPT ![s] = proxy]
        /\ proxy' = s
        /\ \/ CallTerminate(w, "kUnknownError", "reply")
           \/ Goto(w, "startView") /\ UNCHANGED <<ret, answer>>
  /\ UNCHANGED <<map, obj, current, windows, announced, req, ref, seen, snap, ub>>

(* FindAndAttachView and CreateViewByClassName: attach to an open window,   *)
(* show a new one, or find none.                                            *)
StartView(w) ==
  /\ Using(w, "startView")
  /\ \/ \E v \in Windows :
          /\ windows' = windows \cup {v}
          /\ seen' = [seen EXCEPT ![w] = {v}]
          /\ Goto(w, "switchView")
          /\ UNCHANGED <<ret, answer>>
     \/ /\ CallTerminate(w, "kUnknownError", "reply")
        /\ UNCHANGED <<windows, seen>>
  /\ UNCHANGED <<sessionVars, announced, req, ref, snap, ub>>

(* Mutant: the error is answered and the session stays.                     *)
SwitchToViewLeaks(w) ==
  /\ Using(w, "switchView")
  /\ \/ \E v \in seen[w] \cap windows :
          /\ current' = [current EXCEPT ![ref[w]] = v]
          /\ Goto(w, "bounds")
          /\ UNCHANGED answer
     \/ /\ seen[w] \cap windows = {}
        /\ Answer(w, "kBadRequest", "reply")
        /\ UNCHANGED current
  /\ UNCHANGED <<map, obj, saved, proxy, windows, announced, req, ref, ret, seen, snap, ub>>

(* CreateSession::SwitchToView: no executor when the window has gone.       *)
SwitchToView(w) ==
  /\ Using(w, "switchView")
  /\ \/ \E v \in seen[w] \cap windows :
          /\ current' = [current EXCEPT ![ref[w]] = v]
          /\ Goto(w, "bounds")
          /\ UNCHANGED <<ret, answer>>
     \/ /\ seen[w] \cap windows = {}
        /\ CallTerminate(w, "kBadRequest", "reply")
        /\ UNCHANGED current
  /\ UNCHANGED <<map, obj, saved, proxy, windows, announced, req, ref, seen, snap, ub>>

(* SetWindowBounds, whose error is ignored, and the redirect to the id.     *)
SetWindowBounds(w) ==
  /\ Using(w, "bounds")
  /\ Answer(w, "kSeeOther", "reply")
  /\ UNCHANGED <<sessionVars, windows, announced, req, ref, ret, seen, snap, ub>>

-----------------------------------------------------------------------------
(* Session::Terminate and Session::~Session                                *)

(* Mutant: restore_proxy_ is not looked at.                                 *)
BeforeTerminateAlways(w) ==
  /\ Using(w, "restoreProxy")
  /\ proxy' = saved[ref[w]]
  /\ saved' = [saved EXCEPT ![ref[w]] = NoSession]
  /\ Goto(w, "removeFromMap")
  /\ UNCHANGED <<map, obj, current, windows, announced, req, ref, ret, seen, snap, answer, ub>>

(* BeforeTerminate puts back the proxy that PostInit saved.                 *)
BeforeTerminate(w) ==
  /\ Using(w, "restoreProxy")
  /\ LET s == ref[w] IN
     \/ /\ saved[s] # NoSession
        /\ proxy' = saved[s]
        /\ saved' = [saved EXCEPT ![s] = NoSession]
     \/ /\ saved[s] = NoSession
        /\ UNCHANGED <<proxy, saved>>
  /\ Goto(w, "removeFromMap")
  /\ UNCHANGED <<map, obj, current, windows, announced, req, ref, ret, seen, snap, answer, ub>>

(* Mutant: the destructor forgets the manager.                              *)
RemoveNothing(w) ==
  /\ Using(w, "removeFromMap")
  /\ Goto(w, "destroy")
  /\ UNCHANGED <<sessionVars, windows, announced, req, ref, ret, seen, snap, answer, ub>>

(* The body of the destructor removes the id ...                            *)
RemoveFromMap(w) ==
  /\ Using(w, "removeFromMap")
  /\ map' = map \ {ref[w]}
  /\ Goto(w, "destroy")
  /\ UNCHANGED <<obj, current, saved, proxy, windows, announced, req, ref, ret, seen, snap,
                 answer, ub>>

(* ... then the members go, the session thread is joined, the memory freed. *)
Destroy(w) ==
  /\ Using(w, "destroy")
  /\ obj' = [obj EXCEPT ![ref[w]] = "freed"]
  /\ Goto(w, ret[w])
  /\ UNCHANGED <<map, current, saved, proxy, windows, announced, req, ref, ret, seen, snap,
                 answer, ub>>

-----------------------------------------------------------------------------
(* WebDriverCommand::Init, the commands, WebDriverCommand::Finish          *)

Lookup(w) ==
  /\ pc[w] = "lookup"
  /\ \/ /\ req[w].id \in map
        /\ ref' = [ref EXCEPT ![w] = req[w].id]
        /\ Goto(w, "enumerate")
        /\ UNCHANGED answer
     \/ /\ req[w].id \notin map
        /\ Answer(w, "kSessionNotFound", "reply")
        /\ UNCHANGED ref
  /\ UNCHANGED <<sessionVars, windows, announced, req, ret, seen, snap, ub>>

(* Mutant: without a view the command is refused and the session stays.     *)
EnumerateViewsRefuses(w) ==
  /\ Using(w, "enumerate")
  /\ \/ windows = {} /\ Answer(w, "kSessionNotFound", "reply")
     \/ windows # {} /\ Goto(w, "execute") /\ UNCHANGED answer
  /\ UNCHANGED <<sessionVars, windows, announced, req, ref, ret, seen, snap, ub>>

(* Init enumerates the views; a session without any is terminated and      *)
(* Execute and Finish do not run.                                          *)
EnumerateViews(w) ==
  /\ Using(w, "enumerate")
  /\ \/ /\ windows = {}
        /\ CallTerminate(w, "kSessionNotFound", "reply")
     \/ /\ windows # {}
        /\ Goto(w, "execute")
        /\ UNCHANGED <<ret, answer>>
  /\ UNCHANGED <<sessionVars, windows, announced, req, ref, seen, snap, ub>>

ExecuteState(w) ==
  /\ Using(w, "execute")
  /\ req[w].kind = "state"
  /\ Answer(w, "kSuccess", "finish")
  /\ UNCHANGED <<sessionVars, windows, announced, req, ref, ret, seen, snap, ub>>

(* WindowCommand::ExecutePost: no window has the name, or the one that had  *)
(* it is gone when it is switched to.                                       *)
ExecuteSwitch(w) ==
  /\ Using(w, "execute")
  /\ req[w].kind = "switch"
  /\ \/ \E v \in windows :
          /\ current' = [current EXCEPT ![ref[w]] = v]
          /\ Answer(w, "kSuccess", "finish")
     \/ /\ \E a \in {"kNoSuchWindow", "kBadRequest"} : Answer(w, a, "finish")
        /\ UNCHANGED current
  /\ UNCHANGED <<map, obj, saved, proxy, windows, announced, req, ref, ret, seen, snap, ub>>

(* A ViewCommand on the current view.  Without an executor Init fails and   *)
(* Finish is not run.  The command may open, close or navigate to a window; *)
(* kSuccess stands for whatever status it sets.                             *)
ExecuteView(w) ==
  /\ Using(w, "execute")
  /\ req[w].kind = "view"
  /\ LET s == ref[w] IN
     \/ /\ ~HasView(s)
        /\ Answer(w, "kNoSuchWindow", "reply")
        /\ UNCHANGED <<windows, current>>
     \/ /\ HasView(s)
        /\ Answer(w, "kSuccess", "finish")
        /\ UNCHANGED <<windows, current>>
     \/ \E v \in Windows \ windows :
          /\ HasView(s)
          /\ windows' = windows \cup {v}
          /\ current' \in {current, [current EXCEPT ![s] = v]}
          /\ Answer(w, "kSuccess", "finish")
     \/ \E v \in windows :
          /\ HasView(s)
          /\ Disappear({v})
          /\ Answer(w, "kSuccess", "finish")
  /\ UNCHANGED <<map, obj, saved, proxy, announced, req, ref, ret, seen, snap, ub>>

(* WindowCommand::ExecuteDelete.  Close fails on a view inside another      *)
(* window; otherwise it drops the view id and asks the window to close,     *)
(* which the application may refuse.                                        *)
ExecuteClose(w) ==
  /\ Using(w, "execute")
  /\ req[w].kind = "close"
  /\ LET s == ref[w] IN
     \/ /\ ~HasView(s)
        /\ Answer(w, "kBadRequest", "finish")
        /\ UNCHANGED <<windows, current>>
     \/ /\ HasView(s)
        /\ Answer(w, "kUnknownError", "finish")
        /\ UNCHANGED <<windows, current>>
     \/ /\ HasView(s)
        /\ \/ Disappear({current[s]})
           \/ current' = [current EXCEPT ![s] = NoWindow] /\ UNCHANGED windows
        /\ Goto(w, "recount")
        /\ UNCHANGED answer
  /\ UNCHANGED <<map, obj, saved, proxy, announced, req, ref, ret, seen, snap, ub>>

(* ... and the session goes with its last window.                           *)
Recount(w) ==
  /\ Using(w, "recount")
  /\ \/ windows = {} /\ CallTerminate(w, "kSuccess", "finish")
     \/ windows # {} /\ Answer(w, "kSuccess", "finish") /\ UNCHANGED ret
  /\ UNCHANGED <<sessionVars, windows, announced, req, ref, seen, snap, ub>>

(* SessionWithID::ExecuteDelete enumerates once more ...                    *)
ExecuteDelete(w) ==
  /\ Using(w, "execute")
  /\ req[w].kind = "delete"
  /\ seen' = [seen EXCEPT ![w] = windows]
  /\ Goto(w, "closeViews")
  /\ UNCHANGED <<sessionVars, windows, announced, req, ref, ret, snap, answer, ub>>

(* Mutant: DELETE starts over until no view is left.                        *)
CloseViewsInsists(w) ==
  /\ Using(w, "closeViews")
  /\ \/ \E v \in seen[w] :
          /\ seen' = [seen EXCEPT ![w] = @ \ {v}]
          /\ Disappear({v}) \/ UNCHANGED <<windows, current>>
          /\ UNCHANGED <<pc, ret, answer>>
     \/ /\ seen[w] = {}
        /\ windows # {}
        /\ seen' = [seen EXCEPT ![w] = windows]
        /\ UNCHANGED <<windows, current, pc, ret, answer>>
     \/ /\ seen[w] = {}
        /\ windows = {}
        /\ CallTerminate(w, "kSuccess", "finish")
        /\ UNCHANGED <<seen, windows, current>>
  /\ UNCHANGED <<map, obj, saved, proxy, announced, req, ref, snap, ub>>

(* Mutant: DELETE closes the views and leaves the session.                  *)
CloseViewsOnly(w) ==
  /\ Using(w, "closeViews")
  /\ \/ \E v \in seen[w] :
          /\ seen' = [seen EXCEPT ![w] = @ \ {v}]
          /\ Disappear({v})
          /\ UNCHANGED <<pc, ret, answer>>
     \/ /\ seen[w] = {}
        /\ Answer(w, "kSuccess", "finish")
        /\ UNCHANGED <<ret, seen, windows, current>>
  /\ UNCHANGED <<map, obj, saved, proxy, announced, req, ref, snap, ub>>

(* ... closes every view found, one task each, in spite of refusals and     *)
(* errors; then Terminate.                                                  *)
CloseViews(w) ==
  /\ Using(w, "closeViews")
  /\ \/ \E v \in seen[w] :
          /\ seen' = [seen EXCEPT ![w] = @ \ {v}]
          /\ \/ Disappear({v})
             \/ /\ current' = [current EXCEPT ![ref[w]] = IF @ = v THEN NoWindow ELSE @]
                /\ UNCHANGED windows
             \/ UNCHANGED <<windows, current>>
          /\ UNCHANGED <<pc, ret, answer>>
     \/ /\ seen[w] = {}
        /\ CallTerminate(w, "kSuccess", "finish")
        /\ UNCHANGED <<seen, windows, current>>
  /\ UNCHANGED <<map, obj, saved, proxy, announced, req, ref, snap, ub>>

(* Mutant: Finish trusts session_.                                          *)
FinishUnchecked(w) ==
  /\ pc[w] = "finish"
  /\ Goto(w, "log")
  /\ UNCHANGED <<sessionVars, windows, announced, req, ref, ret, seen, snap, answer, ub>>

(* Finish: Has(session_id_), then, without the lock, the session's logger.  *)
Finish(w) ==
  /\ pc[w] = "finish"
  /\ Goto(w, IF req[w].id \in map THEN "log" ELSE "reply")
  /\ UNCHANGED <<sessionVars, windows, announced, req, ref, ret, seen, snap, answer, ub>>

LogFinished(w) ==
  /\ Using(w, "log")
  /\ Goto(w, "reply")
  /\ UNCHANGED <<sessionVars, windows, announced, req, ref, ret, seen, snap, answer, ub>>

-----------------------------------------------------------------------------
(* Sessions::ExecuteGet: a copy of the map, then every session in turn.     *)

ListAll(w) ==
  /\ pc[w] = "listAll"
  /\ snap' = [snap EXCEPT ![w] = map]
  /\ Answer(w, "kSuccess", "readCaps")
  /\ UNCHANGED <<sessionVars, windows, announced, req, ref, ret, seen, ub>>

ReadCapabilities(w) ==
  /\ pc[w] = "readCaps"
  /\ \A s \in snap[w] : obj[s] = "live"
  /\ Goto(w, "reply")
  /\ UNCHANGED <<sessionVars, windows, announced, req, ref, ret, seen, snap, answer, ub>>

-----------------------------------------------------------------------------
(* Any of the uses above of a Session that has been freed.                  *)
UseAfterFree(w) ==
  /\ \/ pc[w] \in UsingPcs /\ obj[ref[w]] = "freed"
     \/ pc[w] = "readCaps" /\ \E s \in snap[w] : obj[s] = "freed"
  /\ ub' = TRUE
  /\ UNCHANGED <<sessionVars, windows, announced, workerVars>>

(* The application and its user open and close windows at any time.         *)
OpenWindow ==
  /\ \E v \in Windows \ windows : windows' = windows \cup {v}
  /\ UNCHANGED <<sessionVars, announced, workerVars, ub>>

CloseWindow ==
  /\ \E v \in windows : Disappear({v})
  /\ UNCHANGED <<map, obj, saved, proxy, announced, workerVars, ub>>

Creating(w) ==
  \/ GetSessions(w) \/ Construct(w) \/ InitSession(w) \/ PostInit(w)
  \/ StartView(w) \/ SwitchToView(w) \/ SetWindowBounds(w)

Terminating(w) == BeforeTerminate(w) \/ RemoveFromMap(w) \/ Destroy(w)

Commanding(w) ==
  \/ Lookup(w) \/ EnumerateViews(w) \/ ExecuteState(w) \/ ExecuteSwitch(w)
  \/ ExecuteView(w) \/ ExecuteClose(w) \/ Recount(w) \/ ExecuteDelete(w)
  \/ CloseViews(w) \/ Finish(w) \/ LogFinished(w)

Listing(w) == ListAll(w) \/ ReadCapabilities(w)

Handling(w) ==
  \/ Creating(w) \/ Terminating(w) \/ Commanding(w) \/ Listing(w)
  \/ Reply(w) \/ UseAfterFree(w)

Worker(w) == Handling(w) \/ \E r \in Requests : Accept(w, r)

Next ==
  /\ ~ub
  /\ OpenWindow \/ CloseWindow \/ \E w \in Workers : Worker(w)

Spec == Init /\ [][Next]_vars

(* The operating system runs every thread; nothing obliges a client to ask  *)
(* or a window to close.                                                    *)
FairSpec == Spec /\ \A w \in Workers : WF_vars(Handling(w))

-----------------------------------------------------------------------------
(* No worker uses a session after another worker, or an earlier step of    *)
(* its own command, has deleted it: `delete this' in Session::Terminate    *)
(* and Session::Init, and every session_-> of the commands.                *)
NoUseAfterFree == ~ub

(* create_session.cc: "session map can consist only single session at the  *)
(* moment".                                                                *)
SingleSession == \A s, t \in map : s = t

(* The manager never hands out a pointer to memory that has been freed:    *)
(* the destructor takes the id out of the map first.  Conversely a session *)
(* that exists can be reached, or is being destroyed.                      *)
ManagerMatchesObjects ==
  \A s \in Sessions :
    /\ s \in map => obj[s] = "live"
    /\ obj[s] = "live" => \/ s \in map
                          \/ \E w \in Workers : pc[w] = "destroy" /\ ref[w] = s

(* When no session is left the application has its own proxy back, however *)
(* the sessions ended: DELETE, last window closed, no view found, replaced *)
(* by reuseUI, or an error half way through Session::Init.                 *)
ProxyRestored == (\A s \in Sessions : obj[s] # "live") => proxy = AppProxy

(* The answers tell the truth about the session.  A creation that is       *)
(* answered with an error leaves no session behind, and one that is        *)
(* answered with a redirect leaves its session registered ...              *)
CreateAnswered ==
  \A w \in Workers :
    pc[w] = "reply" /\ req[w].kind \in CreateKinds =>
      IF answer[w] = "kSeeOther"
      THEN ref[w] \in map
      ELSE ref[w] = NoSession \/ obj[ref[w]] = "freed"

(* ... and "session not found", or a DELETE that succeeded, are final.     *)
GoneWhenAnswered ==
  \A w \in Workers :
    /\ pc[w] = "reply"
    /\ \/ answer[w] = "kSessionNotFound"
       \/ req[w].kind = "delete" /\ answer[w] = "kSuccess"
    => req[w].id \notin map

(* Every request is answered: no handler loops, or waits for a window or a *)
(* client to do something.  DELETE in particular gives up on a view that   *)
(* refuses to close.                                                       *)
RequestsAnswered == \A w \in Workers : pc[w] # "idle" ~> pc[w] = "idle"
=============================================================================
