----------------------- MODULE SessionLifecycleProofs -----------------------
(* Theorems about SessionLifecycle for any number of workers, sessions and  *)
(* windows.                                                                 *)
EXTENDS SessionLifecycle, TLAPS

-----------------------------------------------------------------------------
(* The idle worker's placeholder is a request like any other.               *)
LEMMA NoRequestIsRequest == NoRequest \in Requests
BY DEF NoRequest, Requests

(* TypeOK is not inductive: restoring the proxy reads saved[ref[w]], and a  *)
(* redirect announces ref[w].  A worker that holds a Session* holds one of  *)
(* a session.                                                               *)
HoldingPcs == UsingPcs \cup {"finish"}

Held == \A w \in Workers :
          pc[w] \in HoldingPcs \/ answer[w] = "kSeeOther" => ref[w] \in Sessions

TypeInv == TypeOK /\ Held

LEMMA TypeInvariant == Spec => []TypeInv
<1>1. Init => TypeInv
  <2> SUFFICES ASSUME Init PROVE TypeInv
    OBVIOUS
  <2>1. req \in [Workers -> Requests]
    BY NoRequestIsRequest DEF Init
  <2>2. pc \in [Workers -> Pcs]
    BY DEF Init, Pcs
  <2> QED BY <2>1, <2>2 DEF Init, TypeInv, TypeOK, Held, HoldingPcs, UsingPcs,
                           TerminatePcs, CreatePcs, CommandPcs, Answers
<1>2. TypeInv /\ [Next]_vars => TypeInv'
  <2> SUFFICES ASSUME TypeInv, [Next]_vars PROVE TypeInv'
    OBVIOUS
  <2> USE DEF TypeInv, TypeOK, Held, HoldingPcs, UsingPcs, TerminatePcs, CreatePcs, CommandPcs,
              Goto, Answer, CallTerminate, CallDelete, Using, sessionVars, workerVars
  <2>1. ASSUME NEW w \in Workers, NEW r \in Requests, Accept(w, r) PROVE TypeInv'
    BY <2>1 DEF Accept, Pcs
  <2>2. ASSUME NEW w \in Workers, Reply(w) PROVE TypeInv'
    <3>1. announced' \in SUBSET Sessions
      BY <2>2 DEF Reply
    <3>2. req' \in [Workers -> Requests]
      BY <2>2, NoRequestIsRequest DEF Reply
    <3> QED BY <2>2, <3>1, <3>2 DEF Reply, Pcs, Answers
  <2>3. ASSUME NEW w \in Workers, Creating(w) PROVE TypeInv'
    <3>1. CASE GetSessions(w)
      BY <3>1 DEF GetSessions, Pcs, Answers
    <3>2. CASE Construct(w)
      BY <3>2 DEF Construct, Pcs
    <3>3. CASE InitSession(w)
      BY <3>3 DEF InitSession, Pcs, Answers
    <3>4. CASE PostInit(w)
      BY <3>4 DEF PostInit, Pcs, Answers
    <3>5. CASE StartView(w)
      BY <3>5 DEF StartView, Pcs, Answers
    <3>6. CASE SwitchToView(w)
      BY <3>6 DEF SwitchToView, Pcs, Answers
    <3>7. CASE SetWindowBounds(w)
      BY <3>7 DEF SetWindowBounds, Pcs, Answers
    <3> QED BY <2>3, <3>1, <3>2, <3>3, <3>4, <3>5, <3>6, <3>7 DEF Creating
  <2>4. ASSUME NEW w \in Workers, Terminating(w) PROVE TypeInv'
    <3>1. CASE BeforeTerminate(w)
      BY <3>1 DEF BeforeTerminate, Pcs
    <3>2. CASE RemoveFromMap(w)
      BY <3>2 DEF RemoveFromMap, Pcs
    <3>3. CASE Destroy(w)
      BY <3>3 DEF Destroy, Pcs
    <3> QED BY <2>4, <3>1, <3>2, <3>3 DEF Terminating
  <2>5. ASSUME NEW w \in Workers, Commanding(w) PROVE TypeInv'
    <3> USE DEF Pcs, Answers, Disappear
    <3>1. CASE Lookup(w)
      BY <3>1 DEF Lookup
    <3>2. CASE EnumerateViews(w)
      BY <3>2 DEF EnumerateViews
    <3>3. CASE ExecuteState(w)
      BY <3>3 DEF ExecuteState
    <3>4. CASE ExecuteSwitch(w)
      BY <3>4 DEF ExecuteSwitch
    <3>5. CASE ExecuteView(w)
      BY <3>5 DEF ExecuteView
    <3>6. CASE ExecuteClose(w)
      BY <3>6 DEF ExecuteClose
    <3>7. CASE Recount(w)
      BY <3>7 DEF Recount
    <3>8. CASE ExecuteDelete(w)
      BY <3>8 DEF ExecuteDelete
    <3>9. CASE CloseViews(w)
      BY <3>9 DEF CloseViews
    <3>10. CASE Finish(w)
      BY <3>10 DEF Finish
    <3>11. CASE LogFinished(w)
      BY <3>11 DEF LogFinished
    <3> QED BY <2>5, <3>1, <3>2, <3>3, <3>4, <3>5, <3>6, <3>7, <3>8, <3>9, <3>10, <3>11
            DEF Commanding
  <2>6. ASSUME NEW w \in Workers, Listing(w) PROVE TypeInv'
    BY <2>6 DEF Listing, ListAll, ReadCapabilities, Pcs, Answers
  <2>7. ASSUME NEW w \in Workers, UseAfterFree(w) PROVE TypeInv'
    BY <2>7 DEF UseAfterFree
  <2>8. CASE OpenWindow
    BY <2>8 DEF OpenWindow
  <2>9. CASE CloseWindow
    BY <2>9 DEF CloseWindow, Disappear
  <2>10. CASE UNCHANGED vars
    BY <2>10 DEF vars
  <2> QED
    BY <2>1, <2>2, <2>3, <2>4, <2>5, <2>6, <2>7, <2>8, <2>9, <2>10 DEF Next, Worker, Handling
<1> QED BY <1>1, <1>2, PTL DEF Spec

(* The variables of the model keep their types: the locals of every handler *)
(* and the fields of every session, through every error path.               *)
THEOREM TypeCorrect == Spec => []TypeOK
BY TypeInvariant, PTL DEF TypeInv

-----------------------------------------------------------------------------
(* The pointers the manager hands out are good, whatever the clients do.    *)
(* That a session still exists in the map needs that no worker in the       *)
(* destructor has its id back in the map, and that again that no worker     *)
(* holds an id that a constructor may still take.                           *)
HeldWasBorn == \A w \in Workers : pc[w] \in HoldingPcs => obj[ref[w]] # "unborn"

DestroyedIsOut == \A w \in Workers : pc[w] = "destroy" => ref[w] \notin map

ManagerInv == ManagerMatchesObjects /\ HeldWasBorn /\ DestroyedIsOut

LEMMA ManagerInit == Init => ManagerInv
BY DEF Init, ManagerInv, ManagerMatchesObjects, HeldWasBorn, DestroyedIsOut, HoldingPcs, UsingPcs,
       TerminatePcs, CreatePcs, CommandPcs

LEMMA ManagerStep == TypeInv /\ ManagerInv /\ [Next]_vars => ManagerInv'
<1> SUFFICES ASSUME TypeInv, ManagerInv, [Next]_vars PROVE ManagerInv'
  OBVIOUS
<1> USE DEF TypeInv, TypeOK, Held, ManagerInv, ManagerMatchesObjects, HeldWasBorn, DestroyedIsOut,
            HoldingPcs, UsingPcs, TerminatePcs, CreatePcs, CommandPcs, Goto, Answer,
            CallTerminate, CallDelete, Using, sessionVars, workerVars
<1>1. ASSUME NEW w \in Workers, NEW r \in Requests, Accept(w, r) PROVE ManagerInv'
  BY <1>1 DEF Accept
<1>2. ASSUME NEW w \in Workers, Reply(w) PROVE ManagerInv'
  BY <1>2 DEF Reply
<1>3. ASSUME NEW w \in Workers, Creating(w) PROVE ManagerInv'
  <2>1. CASE GetSessions(w)
    BY <2>1 DEF GetSessions
  <2>2. CASE Construct(w)
    BY <2>2 DEF Construct
  <2>3. CASE InitSession(w)
    BY <2>3 DEF InitSession
  <2>4. CASE PostInit(w)
    BY <2>4 DEF PostInit
  <2>5. CASE StartView(w)
    BY <2>5 DEF StartView
  <2>6. CASE SwitchToView(w)
    BY <2>6 DEF SwitchToView
  <2>7. CASE SetWindowBounds(w)
    BY <2>7 DEF SetWindowBounds
  <2> QED BY <1>3, <2>1, <2>2, <2>3, <2>4, <2>5, <2>6, <2>7 DEF Creating
<1>4. ASSUME NEW w \in Workers, Terminating(w) PROVE ManagerInv'
  <2>1. CASE BeforeTerminate(w)
    BY <2>1 DEF BeforeTerminate
  <2>2. CASE RemoveFromMap(w)
    BY <2>2 DEF RemoveFromMap
  <2>3. CASE Destroy(w)
    BY <2>3 DEF Destroy
  <2> QED BY <1>4, <2>1, <2>2, <2>3 DEF Terminating
<1>5. ASSUME NEW w \in Workers, Commanding(w) PROVE ManagerInv'
  <2>1. CASE Lookup(w)
    BY <2>1 DEF Lookup
  <2>2. CASE EnumerateViews(w)
    BY <2>2 DEF EnumerateViews
  <2>3. CASE ExecuteState(w)
    BY <2>3 DEF ExecuteState
  <2>4. CASE ExecuteSwitch(w)
    BY <2>4 DEF ExecuteSwitch
  <2>5. CASE ExecuteView(w)
    <3>1. /\ UNCHANGED <<map, obj, ref>>
          /\ pc[w] = "execute"
          /\ \E l \in {"reply", "finish"} : pc' = [pc EXCEPT ![w] = l]
      BY <2>5 DEF ExecuteView
    <3> QED BY <3>1
  <2>6. CASE ExecuteClose(w)
    BY <2>6 DEF ExecuteClose
  <2>7. CASE Recount(w)
    BY <2>7 DEF Recount
  <2>8. CASE ExecuteDelete(w)
    BY <2>8 DEF ExecuteDelete
  <2>9. CASE CloseViews(w)
    <3>1. /\ UNCHANGED <<map, obj, ref>>
          /\ pc[w] = "closeViews"
          /\ UNCHANGED pc \/ pc' = [pc EXCEPT ![w] = "restoreProxy"]
      BY <2>9 DEF CloseViews
    <3> QED BY <3>1
  <2>10. CASE Finish(w)
    BY <2>10 DEF Finish
  <2>11. CASE LogFinished(w)
    BY <2>11 DEF LogFinished
  <2> QED BY <1>5, <2>1, <2>2, <2>3, <2>4, <2>5, <2>6, <2>7, <2>8, <2>9, <2>10, <2>11 DEF Commanding
<1>6. ASSUME NEW w \in Workers, Listing(w) PROVE ManagerInv'
  BY <1>6 DEF Listing, ListAll, ReadCapabilities
<1>7. ASSUME NEW w \in Workers, UseAfterFree(w) PROVE ManagerInv'
  BY <1>7 DEF UseAfterFree
<1>8. CASE OpenWindow
  BY <1>8 DEF OpenWindow
<1>9. CASE CloseWindow
  BY <1>9 DEF CloseWindow
<1>10. CASE UNCHANGED vars
  BY <1>10 DEF vars
<1> QED
  BY <1>1, <1>2, <1>3, <1>4, <1>5, <1>6, <1>7, <1>8, <1>9, <1>10 DEF Next, Worker, Handling

(* ManagerMatchesObjects: SessionManager never hands out a Session* whose   *)
(* memory was freed, for any number of workers and with any two requests in *)
(* flight together.                                                         *)
THEOREM ManagerIsAccurate == Spec => []ManagerMatchesObjects
<1>1. Spec => []ManagerInv
  BY TypeInvariant, ManagerInit, ManagerStep, PTL DEF Spec
<1> QED BY <1>1, PTL DEF ManagerInv

-----------------------------------------------------------------------------
(* What a worker is doing fits the request it took, a command holds the     *)
(* session it was sent to, and only requests the clients let overlap are in *)
(* flight together.                                                         *)
KindOf(w) ==
  /\ pc[w] \in CreatePcs \cup {"getSessions"} => req[w].kind \in CreateKinds
  /\ pc[w] \in CommandPcs \cup {"lookup", "finish"} => req[w].kind \in SessionKinds
  /\ pc[w] \in {"listAll", "readCaps"} => req[w].kind = "list"
  /\ pc[w] \in TerminatePcs =>
       /\ req[w].kind # "list"
       /\ ret[w] = "finish" => req[w].kind \in SessionKinds
       /\ ret[w] = "construct" => req[w].kind = "reuse"
  /\ answer[w] = "kSeeOther" => req[w].kind \in CreateKinds
  /\ pc[w] = "idle" => answer[w] = "none"
  /\ pc[w] \in HoldingPcs /\ req[w].kind \in SessionKinds => ref[w] = req[w].id

KindInv == \A w \in Workers : KindOf(w)

OverlapInv ==
  \A w, v \in Workers :
    w # v /\ pc[w] # "idle" /\ pc[v] # "idle" =>
      MayOverlap(req[w], req[v]) \/ MayOverlap(req[v], req[w])

(* A step of one worker leaves what the others are doing alone.             *)
LEMMA HandlingFrame ==
  ASSUME TypeInv, NEW w \in Workers, Handling(w)
  PROVE  /\ pc[w] # "idle"
         /\ pc'[w] = "idle" \/ req'[w] = req[w]
         /\ \A v \in Workers \ {w} :
              /\ pc'[v] = pc[v] /\ req'[v] = req[v] /\ ref'[v] = ref[v]
              /\ ret'[v] = ret[v] /\ snap'[v] = snap[v] /\ answer'[v] = answer[v]
<1> USE DEF TypeInv, TypeOK, Goto, Answer, CallTerminate, CallDelete, Using, sessionVars, workerVars
<1>1. CASE Creating(w)
  <2>1. CASE GetSessions(w) \/ Construct(w) \/ InitSession(w) \/ PostInit(w)
    BY <2>1 DEF GetSessions, Construct, InitSession, PostInit
  <2>2. CASE StartView(w) \/ SwitchToView(w) \/ SetWindowBounds(w)
    BY <2>2 DEF StartView, SwitchToView, SetWindowBounds
  <2> QED BY <1>1, <2>1, <2>2 DEF Creating
<1>2. CASE Terminating(w)
  BY <1>2 DEF Terminating, BeforeTerminate, RemoveFromMap, Destroy
<1>3. CASE Commanding(w)
  <2>1. CASE Lookup(w) \/ EnumerateViews(w) \/ ExecuteState(w) \/ ExecuteSwitch(w)
    BY <2>1 DEF Lookup, EnumerateViews, ExecuteState, ExecuteSwitch
  <2>2. CASE ExecuteView(w) \/ ExecuteClose(w) \/ Recount(w)
    BY <2>2 DEF ExecuteView, ExecuteClose, Recount
  <2>3. CASE ExecuteDelete(w) \/ CloseViews(w) \/ Finish(w) \/ LogFinished(w)
    BY <2>3 DEF ExecuteDelete, CloseViews, Finish, LogFinished
  <2> QED BY <1>3, <2>1, <2>2, <2>3 DEF Commanding
<1>4. CASE Listing(w) \/ Reply(w) \/ UseAfterFree(w)
  BY <1>4 DEF Listing, ListAll, ReadCapabilities, Reply, UseAfterFree, UsingPcs, TerminatePcs,
              CommandPcs, CreatePcs
<1> QED BY <1>1, <1>2, <1>3, <1>4 DEF Handling

LEMMA KindStep == TypeInv /\ KindInv /\ [Next]_vars => KindInv'
<1> SUFFICES ASSUME TypeInv, KindInv, [Next]_vars PROVE KindInv'
  OBVIOUS
<1>1. ASSUME NEW w \in Workers, NEW r \in Requests, Accept(w, r) PROVE KindInv'
  <2>1. r.kind \notin CreateKinds \cup {"list"} => r.kind \in SessionKinds
    BY DEF Requests
  <2>2. KindOf(w)'
    BY <1>1, <2>1 DEF Accept, Goto, KindInv, KindOf, TypeInv, TypeOK, HoldingPcs, UsingPcs,
                      TerminatePcs, CreatePcs, CommandPcs
  <2>3. ASSUME NEW v \in Workers \ {w} PROVE KindOf(v)'
    BY <1>1, <2>3 DEF Accept, Goto, KindInv, KindOf, TypeInv, TypeOK
  <2> QED BY <2>2, <2>3 DEF KindInv
<1>2. ASSUME NEW w \in Workers, Handling(w) PROVE KindInv'
  <2> SUFFICES KindOf(w)'
    BY <1>2, HandlingFrame DEF KindInv, KindOf
  <2>0. KindOf(w)
    BY DEF KindInv
  <2> USE DEF TypeInv, TypeOK, KindOf, HoldingPcs, UsingPcs, TerminatePcs, CreatePcs, CommandPcs,
              Goto, Answer, CallTerminate, CallDelete, Using, sessionVars, workerVars
  <2>1. CASE Creating(w)
    BY <2>0, <2>1 DEF Creating, GetSessions, Construct, InitSession, PostInit, StartView,
                      SwitchToView, SetWindowBounds, CreateKinds, SessionKinds
  <2>2. CASE Terminating(w)
    BY <2>0, <2>2 DEF Terminating, BeforeTerminate, RemoveFromMap, Destroy, CreateKinds
  <2>3. CASE Commanding(w)
    <3>1. CASE Lookup(w) \/ EnumerateViews(w) \/ ExecuteState(w) \/ ExecuteSwitch(w)
      BY <2>0, <3>1 DEF Lookup, EnumerateViews, ExecuteState, ExecuteSwitch, SessionKinds
    <3>2. CASE ExecuteView(w)
      <4>1. /\ UNCHANGED <<req, ref, ret>>
            /\ pc[w] = "execute"
            /\ \E l \in {"reply", "finish"} : pc' = [pc EXCEPT ![w] = l]
            /\ \E a \in Answers \ {"kSeeOther"} : answer' = [answer EXCEPT ![w] = a]
        BY <3>2 DEF ExecuteView, Answers
      <4> QED BY <2>0, <4>1
    <3>3. CASE ExecuteClose(w) \/ Recount(w) \/ ExecuteDelete(w)
      BY <2>0, <3>3 DEF ExecuteClose, Recount, ExecuteDelete, SessionKinds
    <3>4. CASE CloseViews(w)
      <4>1. /\ UNCHANGED <<req, ref>>
            /\ pc[w] = "closeViews"
            /\ \/ UNCHANGED <<pc, answer, ret>>
               \/ /\ pc' = [pc EXCEPT ![w] = "restoreProxy"]
                  /\ answer' = [answer EXCEPT ![w] = "kSuccess"]
                  /\ ret' = [ret EXCEPT ![w] = "finish"]
        BY <3>4 DEF CloseViews
      <4> QED BY <2>0, <4>1 DEF SessionKinds
    <3>5. CASE Finish(w) \/ LogFinished(w)
      BY <2>0, <3>5 DEF Finish, LogFinished
    <3> QED BY <2>3, <3>1, <3>2, <3>3, <3>4, <3>5 DEF Commanding
  <2>4. CASE Listing(w)
    BY <2>0, <2>4 DEF Listing, ListAll, ReadCapabilities
  <2>5. CASE Reply(w)
    BY <2>0, <2>5 DEF Reply
  <2>6. CASE UseAfterFree(w)
    BY <2>0, <2>6 DEF UseAfterFree
  <2> QED BY <1>2, <2>1, <2>2, <2>3, <2>4, <2>5, <2>6 DEF Handling
<1>3. CASE OpenWindow \/ CloseWindow \/ UNCHANGED vars
  BY <1>3 DEF OpenWindow, CloseWindow, workerVars, vars, KindInv, KindOf
<1> QED BY <1>1, <1>2, <1>3 DEF Next, Worker

LEMMA OverlapStep == TypeInv /\ OverlapInv /\ [Next]_vars => OverlapInv'
<1> SUFFICES ASSUME TypeInv, OverlapInv, [Next]_vars PROVE OverlapInv'
  OBVIOUS
<1>1. ASSUME NEW w \in Workers, NEW r \in Requests, Accept(w, r) PROVE OverlapInv'
  BY <1>1 DEF Accept, Goto, OverlapInv, TypeInv, TypeOK
<1>2. ASSUME NEW w \in Workers, Handling(w) PROVE OverlapInv'
  BY <1>2, HandlingFrame DEF OverlapInv
<1>3. CASE OpenWindow \/ CloseWindow \/ UNCHANGED vars
  BY <1>3 DEF OpenWindow, CloseWindow, workerVars, vars, OverlapInv
<1> QED BY <1>1, <1>2, <1>3 DEF Next, Worker

LEMMA ControlInvariant == Spec => [](TypeInv /\ ManagerInv /\ KindInv /\ OverlapInv)
<1>1. Init => KindInv /\ OverlapInv
  BY DEF Init, KindInv, KindOf, OverlapInv, NoRequest, HoldingPcs, UsingPcs, TerminatePcs,
         CreatePcs, CommandPcs
<1> QED
  BY <1>1, TypeInvariant, ManagerInit, ManagerStep, KindStep, OverlapStep, PTL DEF Spec

-----------------------------------------------------------------------------
(* CreateSession checks that there is no session and creates one, without a *)
(* lock over the two.  That is enough when creations do not overlap: from   *)
(* the check to the constructor the map stays empty, or is emptied by the   *)
(* creation itself when it replaces the session.                            *)
SingleInv ==
  /\ SingleSession
  /\ \A w \in Workers :
       /\ pc[w] = "construct" => map = {}
       /\ pc[w] \in TerminatePcs /\ ret[w] = "construct" => map \subseteq {ref[w]}

(* The map only grows by a constructor.                                     *)
LEMMA MapFrame ==
  ASSUME TypeInv, NEW w \in Workers, Handling(w), ~Construct(w)
  PROVE  map' \subseteq map
<1> USE DEF sessionVars
<1>1. CASE Creating(w)
  BY <1>1 DEF Creating, GetSessions, InitSession, PostInit, StartView, SwitchToView, SetWindowBounds
<1>2. CASE Terminating(w)
  BY <1>2 DEF Terminating, BeforeTerminate, RemoveFromMap, Destroy
<1>3. CASE Commanding(w)
  BY <1>3 DEF Commanding, Lookup, EnumerateViews, ExecuteState, ExecuteSwitch, ExecuteView,
              ExecuteClose, Recount, ExecuteDelete, CloseViews, Finish, LogFinished
<1>4. CASE Listing(w) \/ Reply(w) \/ UseAfterFree(w)
  BY <1>4 DEF Listing, ListAll, ReadCapabilities, Reply, UseAfterFree
<1> QED BY <1>1, <1>2, <1>3, <1>4 DEF Handling

LEMMA SingleStep ==
  ASSUME \A r, q \in Requests : MayOverlap(r, q) => ~ {r.kind, q.kind} \subseteq CreateKinds
  PROVE  TypeInv /\ ManagerInv /\ KindInv /\ OverlapInv /\ SingleInv /\ [Next]_vars => SingleInv'
<1> SUFFICES ASSUME TypeInv, ManagerInv, KindInv, OverlapInv, SingleInv, [Next]_vars
             PROVE  SingleInv'
  OBVIOUS
<1>1. ASSUME NEW w \in Workers, NEW r \in Requests, Accept(w, r) PROVE SingleInv'
  BY <1>1 DEF Accept, Goto, SingleInv, SingleSession, TypeInv, TypeOK, TerminatePcs, sessionVars
<1>2. ASSUME NEW w \in Workers, Construct(w) PROVE SingleInv'
  <2>1. map' # {} /\ \A s, t \in map' : s = t
    BY <1>2 DEF Construct, SingleInv
  <2>2. ASSUME NEW v \in Workers
        PROVE  pc'[v] # "construct" /\ ~(pc'[v] \in TerminatePcs /\ ret'[v] = "construct")
    <3>1. CASE v = w
      BY <1>2, <3>1 DEF Construct, Goto, TypeInv, TypeOK, TerminatePcs
    <3>2. CASE v # w
      <4>1. pc'[v] = pc[v] /\ ret'[v] = ret[v]
        BY <1>2, <3>2 DEF Construct, Goto, TypeInv, TypeOK
      <4>2. req[w].kind \in CreateKinds /\ pc[w] # "idle"
        BY <1>2 DEF Construct, KindInv, KindOf, CreatePcs
      <4>3. pc[v] = "idle" \/ req[v].kind \notin CreateKinds
        BY <3>2, <4>2 DEF OverlapInv, TypeInv, TypeOK
      <4> QED BY <4>1, <4>3 DEF KindInv, KindOf, CreatePcs, TerminatePcs, CreateKinds
    <3> QED BY <3>1, <3>2
  <2> QED BY <2>1, <2>2 DEF SingleInv, SingleSession
<1>3. ASSUME NEW w \in Workers, Handling(w), ~Construct(w) PROVE SingleInv'
  <2>1. map' \subseteq map
    BY <1>3, MapFrame
  <2>2. ASSUME NEW v \in Workers \ {w}
        PROVE  /\ pc'[v] = "construct" => map' = {}
               /\ pc'[v] \in TerminatePcs /\ ret'[v] = "construct" => map' \subseteq {ref'[v]}
    BY <1>3, <2>1, <2>2, HandlingFrame DEF SingleInv
  <2>3. /\ pc'[w] = "construct" => map' = {}
        /\ pc'[w] \in TerminatePcs /\ ret'[w] = "construct" => map' \subseteq {ref'[w]}
    <3> USE DEF TypeInv, TypeOK, TerminatePcs, Goto, Answer, CallTerminate, CallDelete, Using,
                SingleInv, SingleSession
    <3>1. CASE GetSessions(w)
      BY <2>1, <3>1 DEF GetSessions
    <3>2. CASE Destroy(w)
      BY <2>1, <3>2 DEF Destroy, ManagerInv, DestroyedIsOut
    <3>3. CASE BeforeTerminate(w) \/ RemoveFromMap(w)
      BY <2>1, <3>3 DEF BeforeTerminate, RemoveFromMap
    <3>4. CASE InitSession(w) \/ PostInit(w) \/ StartView(w) \/ SwitchToView(w)
                 \/ SetWindowBounds(w)
      BY <3>4 DEF InitSession, PostInit, StartView, SwitchToView, SetWindowBounds
    <3>5. CASE Lookup(w) \/ EnumerateViews(w) \/ ExecuteState(w) \/ ExecuteSwitch(w)
                 \/ ExecuteClose(w) \/ Recount(w) \/ ExecuteDelete(w) \/ Finish(w) \/ LogFinished(w)
      BY <3>5 DEF Lookup, EnumerateViews, ExecuteState, ExecuteSwitch, ExecuteClose, Recount,
                  ExecuteDelete, Finish, LogFinished
    <3>6. CASE ExecuteView(w)
      <4>1. \E l \in {"reply", "finish"} : pc' = [pc EXCEPT ![w] = l]
        BY <3>6 DEF ExecuteView
      <4> QED BY <4>1
    <3>7. CASE CloseViews(w)
      <4>1. \/ pc'[w] = "closeViews"
            \/ ret'[w] = "finish" /\ pc'[w] = "restoreProxy"
        BY <3>7 DEF CloseViews
      <4> QED BY <4>1
    <3>8. CASE Listing(w) \/ Reply(w) \/ UseAfterFree(w)
      BY <2>1, <3>8 DEF Listing, ListAll, ReadCapabilities, Reply, UseAfterFree, workerVars,
                        sessionVars
    <3> QED BY <1>3, <3>1, <3>2, <3>3, <3>4, <3>5, <3>6, <3>7, <3>8
            DEF Handling, Creating, Terminating, Commanding
  <2> QED BY <2>1, <2>2, <2>3 DEF SingleInv, SingleSession
<1>4. CASE OpenWindow \/ CloseWindow \/ UNCHANGED vars
  BY <1>4 DEF OpenWindow, CloseWindow, workerVars, sessionVars, vars, SingleInv, SingleSession
<1> QED BY <1>1, <1>2, <1>3, <1>4 DEF Next, Worker

(* SingleSession: "session map can consist only single session at the       *)
(* moment" (create_session.cc) is true when creations do not overlap, with  *)
(* every other request free to overlap them and each other.                 *)
THEOREM OneSessionAtATime ==
  ASSUME \A r, q \in Requests : MayOverlap(r, q) => ~ {r.kind, q.kind} \subseteq CreateKinds
  PROVE  Spec => []SingleSession
<1>1. Init => SingleInv
  BY DEF Init, SingleInv, SingleSession, TerminatePcs
<1>2. TypeInv /\ ManagerInv /\ KindInv /\ OverlapInv /\ SingleInv /\ [Next]_vars => SingleInv'
  BY SingleStep
<1>3. Spec => []SingleInv
  BY <1>1, <1>2, ControlInvariant, PTL DEF Spec
<1> QED BY <1>3, PTL DEF SingleInv

-----------------------------------------------------------------------------
(* Nothing but the clients keeps a worker from deleting the session another *)
(* worker is using.  With careful clients two workers never hold the same   *)
(* session: a command holds the one its request names, an announced one; a  *)
(* creation holds one that nobody was told of; and reuse and list, which    *)
(* reach every session, run alone.                                          *)
Careful ==
  \A r, q \in Requests : MayOverlap(r, q) => CarefulClients(r, q)

AnnouncedWereBorn ==
  /\ \A s \in announced : obj[s] # "unborn"
  /\ \A w \in Workers :
       /\ \A s \in snap[w] : obj[s] # "unborn"
       /\ answer[w] = "kSeeOther" => obj[ref[w]] # "unborn"
       /\ pc[w] # "idle" => req[w].id \in announced \cup {NoSession}

HoldsAlone(w) ==
  /\ pc[w] \in UsingPcs => obj[ref[w]] = "live"
  /\ pc[w] = "readCaps" => \A s \in snap[w] : obj[s] = "live"
  /\ pc[w] \in UsingPcs /\ req[w].kind = "create" => ref[w] \notin announced

OwnerInv == NoUseAfterFree /\ AnnouncedWereBorn /\ \A w \in Workers : HoldsAlone(w)

AllInv == TypeInv /\ ManagerInv /\ KindInv /\ OverlapInv /\ OwnerInv

(* A worker that can delete its session shares it with nobody.              *)
LEMMA NobodyElseHolds ==
  ASSUME Careful, AllInv, NEW w \in Workers, pc[w] \in UsingPcs, NEW v \in Workers \ {w}
  PROVE  /\ pc[v] \in UsingPcs => ref[v] # ref[w]
         /\ pc[v] # "readCaps"
<1> USE DEF AllInv
<1>1. pc[w] # "idle" /\ req[w] \in Requests /\ req[v] \in Requests /\ ref[w] \in Sessions
  BY DEF TypeInv, TypeOK, Held, HoldingPcs, UsingPcs, TerminatePcs, CreatePcs, CommandPcs
<1>2. ASSUME pc[v] # "idle"
      PROVE  CarefulClients(req[w], req[v]) \/ CarefulClients(req[v], req[w])
  BY <1>1, <1>2 DEF OverlapInv, Careful
<1>3. pc[v] # "readCaps"
  BY <1>2 DEF CarefulClients, KindInv, KindOf
<1>4. ASSUME pc[v] \in UsingPcs PROVE ref[v] # ref[w]
  <2>1. pc[v] # "idle" /\ ref[v] \in Sessions
    BY <1>4 DEF TypeInv, TypeOK, Held, HoldingPcs, UsingPcs, TerminatePcs, CreatePcs, CommandPcs
  <2>2. /\ req[w].kind \in SessionKinds \cup {"create"}
        /\ req[v].kind \in SessionKinds \cup {"create"}
    BY <1>1, <1>2, <2>1 DEF CarefulClients, Requests, CreateKinds
  <2>3. CASE req[w].kind = "create" /\ req[v].kind = "create"
    BY <1>2, <2>1, <2>3 DEF CarefulClients, CreateKinds
  <2>4. CASE req[w].kind \in SessionKinds /\ req[v].kind \in SessionKinds
    <3>1. ref[w] = req[w].id /\ ref[v] = req[v].id
      BY <1>4, <2>4 DEF KindInv, KindOf, HoldingPcs
    <3> QED BY <1>1, <1>2, <2>1, <3>1, NullsAreNotValues DEF CarefulClients
  <2>5. ASSUME NEW x \in {w, v}, NEW y \in {w, v}, x # y,
               req[x].kind = "create", req[y].kind \in SessionKinds
        PROVE  ref[x] # ref[y]
    <3>1. ref[y] = req[y].id /\ pc[y] # "idle" /\ ref[y] \in Sessions
      BY <1>1, <1>4, <2>1, <2>5 DEF KindInv, KindOf, HoldingPcs
    <3>2. ref[y] \in announced
      BY <2>1, <3>1, NullsAreNotValues DEF OwnerInv, AnnouncedWereBorn
    <3> QED BY <1>4, <2>5, <3>2 DEF OwnerInv, HoldsAlone
  <2> QED BY <2>2, <2>3, <2>4, <2>5
<1> QED BY <1>3, <1>4

(* A worker that creates without replacing is not disturbed by another      *)
(* creation or a list.                                                      *)
LEMMA NobodyElseAnnounces ==
  ASSUME Careful, AllInv, NEW w \in Workers, pc[w] = "reply", NEW v \in Workers \ {w},
         pc[v] \in UsingPcs, req[v].kind = "create"
  PROVE  answer[w] # "kSeeOther" /\ req[w].kind # "list"
<1>1. pc[v] # "idle" /\ req[w] \in Requests /\ req[v] \in Requests
  BY DEF AllInv, TypeInv, TypeOK, UsingPcs, TerminatePcs, CreatePcs, CommandPcs
<1>2. CarefulClients(req[w], req[v]) \/ CarefulClients(req[v], req[w])
  BY <1>1 DEF AllInv, OverlapInv, Careful
<1> QED BY <1>2 DEF CarefulClients, AllInv, KindInv, KindOf, CreateKinds

(* Sessions are born in the constructor, freed in the destructor, and       *)
(* announced by an answer.                                                  *)
LEMMA SessionFrame ==
  ASSUME NEW w \in Workers, Handling(w), ~Construct(w), ~Destroy(w), ~Reply(w)
  PROVE  UNCHANGED <<obj, announced>>
<1> USE DEF sessionVars, workerVars
<1>1. CASE Creating(w)
  BY <1>1 DEF Creating, GetSessions, InitSession, PostInit, StartView, SwitchToView, SetWindowBounds
<1>2. CASE Terminating(w)
  BY <1>2 DEF Terminating, BeforeTerminate, RemoveFromMap
<1>3. CASE Commanding(w)
  BY <1>3 DEF Commanding, Lookup, EnumerateViews, ExecuteState, ExecuteSwitch, ExecuteView,
              ExecuteClose, Recount, ExecuteDelete, CloseViews, Finish, LogFinished
<1>4. CASE Listing(w) \/ UseAfterFree(w)
  BY <1>4 DEF Listing, ListAll, ReadCapabilities, UseAfterFree
<1> QED BY <1>1, <1>2, <1>3, <1>4 DEF Handling

(* The local part of OwnerInv for one worker.                               *)
OwnerOf(w) ==
  /\ \A s \in snap[w] : obj[s] # "unborn"
  /\ answer[w] = "kSeeOther" => obj[ref[w]] # "unborn"
  /\ pc[w] # "idle" => req[w].id \in announced \cup {NoSession}
  /\ HoldsAlone(w)

(* Every step but those of SessionFrame's hypotheses hands a worker only    *)
(* sessions that exist.                                                     *)
LEMMA OwnerLocal ==
  ASSUME AllInv, NEW w \in Workers, Handling(w), ~Construct(w), ~Destroy(w), ~Reply(w)
  PROVE  OwnerOf(w)' /\ ub' = ub
<1>1. obj' = obj /\ announced' = announced
  BY SessionFrame
<1>2. OwnerOf(w) /\ KindOf(w) /\ ~ub
  BY DEF AllInv, OwnerInv, AnnouncedWereBorn, OwnerOf, KindInv, NoUseAfterFree
<1>3. \A s \in map : obj[s] = "live" /\ s \in Sessions
  BY DEF AllInv, TypeInv, TypeOK, ManagerInv, ManagerMatchesObjects
<1>4. TypeOK /\ Held
  BY DEF AllInv, TypeInv
<1> USE DEF TypeOK, Held, OwnerOf, HoldsAlone, KindOf, HoldingPcs, UsingPcs, TerminatePcs,
            CreatePcs, CommandPcs, Goto, Answer, CallTerminate, CallDelete, Using, sessionVars,
            workerVars
<1>5. CASE GetSessions(w)
  BY <1>1, <1>2, <1>3, <1>4, <1>5 DEF GetSessions
<1>6. CASE InitSession(w) \/ PostInit(w)
  BY <1>1, <1>2, <1>4, <1>6 DEF InitSession, PostInit
<1>7. CASE StartView(w) \/ SwitchToView(w) \/ SetWindowBounds(w)
  BY <1>1, <1>2, <1>4, <1>7 DEF StartView, SwitchToView, SetWindowBounds
<1>8. CASE BeforeTerminate(w) \/ RemoveFromMap(w)
  BY <1>1, <1>2, <1>4, <1>8 DEF BeforeTerminate, RemoveFromMap
<1>9. CASE Lookup(w)
  BY <1>1, <1>2, <1>3, <1>4, <1>9 DEF Lookup, CreateKinds, SessionKinds
<1>10. CASE EnumerateViews(w) \/ ExecuteState(w) \/ ExecuteSwitch(w)
  BY <1>1, <1>2, <1>4, <1>10 DEF EnumerateViews, ExecuteState, ExecuteSwitch
<1>11. CASE ExecuteView(w)
  <2>1. /\ UNCHANGED <<req, ref, snap, ub>>
        /\ pc[w] = "execute"
        /\ \E l \in {"reply", "finish"} : pc' = [pc EXCEPT ![w] = l]
        /\ \E a \in Answers \ {"kSeeOther"} : answer' = [answer EXCEPT ![w] = a]
    BY <1>11 DEF ExecuteView, Answers
  <2> QED BY <1>1, <1>2, <1>4, <2>1
<1>12. CASE ExecuteClose(w) \/ Recount(w) \/ ExecuteDelete(w)
  BY <1>1, <1>2, <1>4, <1>12 DEF ExecuteClose, Recount, ExecuteDelete
<1>13. CASE CloseViews(w)
  <2>1. /\ UNCHANGED <<req, ref, snap, ub>>
        /\ pc[w] = "closeViews" /\ obj[ref[w]] = "live"
        /\ \/ UNCHANGED <<pc, answer>>
           \/ /\ pc' = [pc EXCEPT ![w] = "restoreProxy"]
              /\ answer' = [answer EXCEPT ![w] = "kSuccess"]
    BY <1>13 DEF CloseViews
  <2> QED BY <1>1, <1>2, <1>4, <2>1
<1>14. CASE Finish(w)
  BY <1>1, <1>2, <1>3, <1>4, <1>14 DEF Finish, SessionKinds
<1>15. CASE LogFinished(w)
  BY <1>1, <1>2, <1>4, <1>15 DEF LogFinished
<1>16. CASE Listing(w)
  BY <1>1, <1>2, <1>3, <1>4, <1>16 DEF Listing, ListAll, ReadCapabilities
<1>17. CASE UseAfterFree(w)
  BY <1>2, <1>17 DEF UseAfterFree
<1> QED
  BY <1>5, <1>6, <1>7, <1>8, <1>9, <1>10, <1>11, <1>12, <1>13, <1>14, <1>15, <1>16, <1>17
  DEF Handling, Creating, Terminating, Commanding

LEMMA OwnerStep ==
  ASSUME Careful
  PROVE  AllInv /\ [Next]_vars => OwnerInv'
<1> SUFFICES ASSUME AllInv, [Next]_vars PROVE OwnerInv'
  OBVIOUS
<1>0. TypeOK /\ OwnerInv /\ \A v \in Workers : OwnerOf(v)
  BY DEF AllInv, TypeInv, OwnerInv, AnnouncedWereBorn, OwnerOf
<1>a. ASSUME \A s \in announced' : obj'[s] # "unborn", ~ub', \A v \in Workers : OwnerOf(v)'
      PROVE  OwnerInv'
  BY <1>a DEF OwnerInv, AnnouncedWereBorn, OwnerOf, NoUseAfterFree
<1>1. ASSUME NEW w \in Workers, NEW r \in Requests, Accept(w, r) PROVE OwnerInv'
  <2>1. r.id \in announced \cup {NoSession} /\ UNCHANGED <<obj, announced, ref, snap, answer, ub>>
    BY <1>1 DEF Accept, sessionVars
  <2>2. pc'[w] \in {"getSessions", "listAll", "lookup"} /\ req'[w] = r
    BY <1>0, <1>1 DEF Accept, Goto, TypeOK
  <2>3. \A v \in Workers \ {w} : pc'[v] = pc[v] /\ req'[v] = req[v]
    BY <1>0, <1>1 DEF Accept, Goto, TypeOK
  <2> QED BY <1>0, <1>a, <2>1, <2>2, <2>3
          DEF OwnerInv, AnnouncedWereBorn, NoUseAfterFree, OwnerOf, HoldsAlone, UsingPcs,
              TerminatePcs, CreatePcs, CommandPcs
<1>2. ASSUME NEW w \in Workers, Construct(w) PROVE OwnerInv'
  <2>1. PICK s \in Sessions : /\ obj[s] = "unborn" /\ obj' = [obj EXCEPT ![s] = "live"]
                              /\ ref' = [ref EXCEPT ![w] = s]
    BY <1>2 DEF Construct
  <2>2. /\ pc' = [pc EXCEPT ![w] = "init"]
        /\ UNCHANGED <<announced, req, snap, answer, ub>>
    BY <1>2 DEF Construct, Goto
  <2>3. \A t \in Sessions : /\ obj[t] = "live" => obj'[t] = "live"
                            /\ obj[t] # "unborn" => obj'[t] # "unborn"
    BY <1>0, <2>1 DEF TypeOK
  <2>4. \A t \in announced : t \in Sessions /\ obj[t] # "unborn"
    BY <1>0 DEF TypeOK, OwnerInv, AnnouncedWereBorn
  <2>5. ASSUME NEW v \in Workers \ {w} PROVE OwnerOf(v)'
    <3>1. pc'[v] = pc[v] /\ ref'[v] = ref[v]
      BY <1>0, <2>1, <2>2 DEF TypeOK
    <3>2. snap[v] \subseteq Sessions
      BY <1>0 DEF TypeOK
    <3>3. (pc[v] \in HoldingPcs \/ answer[v] = "kSeeOther") => ref[v] \in Sessions
      BY DEF AllInv, TypeInv, Held
    <3> QED BY <1>0, <2>2, <2>3, <3>1, <3>2, <3>3 DEF OwnerOf, HoldsAlone, HoldingPcs
  <2>6. OwnerOf(w)'
    <3>1. pc'[w] = "init" /\ ref'[w] = s /\ obj'[s] = "live" /\ s \notin announced
      BY <1>0, <2>1, <2>2, <2>4 DEF TypeOK
    <3>2. snap[w] \subseteq Sessions /\ pc[w] = "construct"
      BY <1>0, <1>2 DEF TypeOK, Construct
    <3> QED BY <1>0, <2>2, <2>3, <3>1, <3>2 DEF OwnerOf, HoldsAlone
  <2> QED BY <1>0, <1>a, <2>2, <2>3, <2>4, <2>5, <2>6 DEF OwnerInv, NoUseAfterFree
<1>3. ASSUME NEW w \in Workers, Destroy(w) PROVE OwnerInv'
  <2>1. /\ pc[w] = "destroy" /\ pc[w] \in UsingPcs
        /\ obj' = [obj EXCEPT ![ref[w]] = "freed"]
        /\ pc' = [pc EXCEPT ![w] = ret[w]]
        /\ UNCHANGED <<announced, req, ref, snap, answer, ub>>
    BY <1>3 DEF Destroy, Using, Goto, UsingPcs, TerminatePcs
  <2>2. \A t \in Sessions : obj[t] # "unborn" => obj'[t] # "unborn"
    BY <1>0, <2>1 DEF TypeOK
  <2>3. /\ announced \subseteq Sessions
        /\ \A v \in Workers : /\ snap[v] \subseteq Sessions
                              /\ answer[v] = "kSeeOther" => ref[v] \in Sessions
                              /\ pc[v] \in UsingPcs => ref[v] \in Sessions
    BY <1>0 DEF TypeOK, AllInv, TypeInv, Held, HoldingPcs
  <2>4. ASSUME NEW v \in Workers \ {w} PROVE OwnerOf(v)'
    <3>1. pc'[v] = pc[v]
      BY <1>0, <2>1 DEF TypeOK
    <3>2. (pc[v] \in UsingPcs => ref[v] # ref[w]) /\ pc[v] # "readCaps"
      BY <2>1, NobodyElseHolds
    <3>3. pc[v] \in UsingPcs => obj'[ref[v]] = obj[ref[v]]
      BY <1>0, <2>1, <2>3, <3>2 DEF TypeOK
    <3> QED BY <1>0, <2>1, <2>2, <2>3, <3>1, <3>2, <3>3 DEF OwnerOf, HoldsAlone
  <2>5. OwnerOf(w)'
    <3>1. pc'[w] \in {"construct", "finish", "reply"}
      BY <1>0, <2>1 DEF TypeOK
    <3>2. pc'[w] \notin UsingPcs /\ pc'[w] # "readCaps"
      BY <3>1 DEF UsingPcs, TerminatePcs, CreatePcs, CommandPcs
    <3>3. req[w].id \in announced \cup {NoSession}
      BY <1>0, <2>1 DEF OwnerOf
    <3> QED BY <1>0, <2>1, <2>2, <2>3, <3>2, <3>3 DEF OwnerOf, HoldsAlone
  <2> QED BY <1>0, <1>a, <2>1, <2>2, <2>3, <2>4, <2>5
          DEF OwnerInv, AnnouncedWereBorn, NoUseAfterFree
<1>4. ASSUME NEW w \in Workers, Reply(w) PROVE OwnerInv'
  <2>1. /\ pc[w] = "reply" /\ UNCHANGED <<obj, ub>>
        /\ announced' = announced \cup (IF answer[w] = "kSeeOther" THEN {ref[w]}
                                        ELSE IF req[w].kind = "list" THEN snap[w] ELSE {})
    BY <1>4 DEF Reply, sessionVars
  <2>2. pc'[w] = "idle" /\ snap'[w] = {} /\ answer'[w] = "none"
    BY <1>0, <1>4 DEF Reply, Answer, Goto, TypeOK
  <2>3. \A s \in announced' : obj[s] # "unborn"
    BY <1>0, <2>1 DEF OwnerInv, AnnouncedWereBorn
  <2>4. OwnerOf(w)'
    BY <2>2 DEF OwnerOf, HoldsAlone, UsingPcs, TerminatePcs, CreatePcs, CommandPcs
  <2>5. ASSUME NEW v \in Workers \ {w} PROVE OwnerOf(v)'
    <3>1. /\ pc'[v] = pc[v] /\ req'[v] = req[v] /\ ref'[v] = ref[v]
          /\ snap'[v] = snap[v] /\ answer'[v] = answer[v]
      BY <1>4, HandlingFrame DEF Handling, AllInv
    <3>2. pc[v] \in UsingPcs /\ req[v].kind = "create" => announced' = announced
      BY <2>1, NobodyElseAnnounces
    <3> QED BY <1>0, <2>1, <3>1, <3>2 DEF OwnerOf, HoldsAlone
  <2> QED BY <1>0, <1>a, <2>1, <2>3, <2>4, <2>5 DEF OwnerInv, NoUseAfterFree
<1>5. ASSUME NEW w \in Workers, Handling(w), ~Construct(w), ~Destroy(w), ~Reply(w) PROVE OwnerInv'
  <2>1. UNCHANGED <<obj, announced>>
    BY <1>5, SessionFrame
  <2>2. OwnerOf(w)' /\ ub' = ub
    BY <1>5, OwnerLocal
  <2>3. ASSUME NEW v \in Workers \ {w} PROVE OwnerOf(v)'
    BY <1>0, <1>5, <2>1, HandlingFrame DEF OwnerOf, HoldsAlone, AllInv
  <2> QED BY <1>0, <1>a, <2>1, <2>2, <2>3 DEF OwnerInv, AnnouncedWereBorn, NoUseAfterFree
<1>6. CASE OpenWindow \/ CloseWindow \/ UNCHANGED vars
  <2>1. UNCHANGED <<obj, announced, pc, req, ref, snap, answer>> /\ (ub' <=> ub)
    BY <1>6 DEF OpenWindow, CloseWindow, workerVars, sessionVars, vars
  <2> QED BY <1>0, <1>a, <2>1 DEF OwnerInv, AnnouncedWereBorn, NoUseAfterFree, OwnerOf, HoldsAlone
<1> QED BY <1>1, <1>2, <1>3, <1>4, <1>5, <1>6 DEF Next, Worker

(* With careful clients the invariants above hold together.                  *)
LEMMA CarefulInvariant ==
  ASSUME Careful
  PROVE  Spec => [](AllInv /\ SingleInv)
<1>1. Init => OwnerInv /\ SingleInv
  BY DEF Init, OwnerInv, AnnouncedWereBorn, HoldsAlone, NoUseAfterFree, SingleInv, SingleSession,
         UsingPcs, TerminatePcs, CreatePcs, CommandPcs
<1>2. TypeInv /\ ManagerInv /\ KindInv /\ OverlapInv /\ OwnerInv /\ [Next]_vars => OwnerInv'
  BY OwnerStep DEF AllInv
<1>3. \A r, q \in Requests : MayOverlap(r, q) => ~ {r.kind, q.kind} \subseteq CreateKinds
  BY DEF Careful, CarefulClients
<1>4. TypeInv /\ ManagerInv /\ KindInv /\ OverlapInv /\ SingleInv /\ [Next]_vars => SingleInv'
  BY <1>3, SingleStep
<1>5. Spec => []OwnerInv
  BY <1>1, <1>2, ControlInvariant, PTL DEF Spec
<1>6. Spec => []SingleInv
  BY <1>1, <1>4, ControlInvariant, PTL DEF Spec
<1>7. TypeInv /\ ManagerInv /\ KindInv /\ OverlapInv /\ OwnerInv => AllInv
  BY DEF AllInv
<1> QED BY <1>5, <1>6, <1>7, ControlInvariant, PTL

(* NoUseAfterFree: when no two requests in flight together can delete each  *)
(* other's session, no handler touches a Session that was deleted, neither  *)
(* by another worker nor by its own Terminate.                              *)
THEOREM CarefulClientsAreSafe ==
  ASSUME Careful
  PROVE  Spec => []NoUseAfterFree
<1>1. AllInv => NoUseAfterFree
  BY DEF AllInv, OwnerInv
<1> QED BY <1>1, CarefulInvariant, PTL

-----------------------------------------------------------------------------
(* Ids do not come back: every id a client, an answer or a copy of the map  *)
(* holds is one of a session that was constructed.                          *)
LEMMA BornStep ==
  ASSUME TypeInv, ManagerInv, AnnouncedWereBorn, [Next]_vars
  PROVE  AnnouncedWereBorn'
<1>1. ASSUME NEW w \in Workers, NEW r \in Requests, Accept(w, r) PROVE AnnouncedWereBorn'
  BY <1>1 DEF Accept, AnnouncedWereBorn, TypeInv, TypeOK, Goto, sessionVars
<1>2. ASSUME NEW w \in Workers, Construct(w) PROVE AnnouncedWereBorn'
  <2>1. PICK s \in Sessions : /\ obj' = [obj EXCEPT ![s] = "live"]
                              /\ ref' = [ref EXCEPT ![w] = s]
    BY <1>2 DEF Construct
  <2>2. /\ pc[w] = "construct" /\ pc' = [pc EXCEPT ![w] = "init"]
        /\ UNCHANGED <<announced, req, snap, answer>>
    BY <1>2 DEF Construct, Goto
  <2>3. \A t \in Sessions : obj[t] # "unborn" => obj'[t] # "unborn"
    BY <2>1 DEF TypeInv, TypeOK
  <2>4. obj'[s] # "unborn"
    BY <2>1 DEF TypeInv, TypeOK
  <2>5. announced \subseteq Sessions /\ \A v \in Workers : snap[v] \subseteq Sessions
    BY DEF TypeInv, TypeOK
  <2>6. ASSUME NEW v \in Workers
        PROVE  /\ answer[v] = "kSeeOther" => obj'[ref'[v]] # "unborn"
               /\ pc'[v] # "idle" => pc[v] # "idle"
    BY <2>1, <2>2, <2>3, <2>4 DEF TypeInv, TypeOK, Held, AnnouncedWereBorn
  <2> QED BY <2>2, <2>3, <2>5, <2>6 DEF AnnouncedWereBorn
<1>3. ASSUME NEW w \in Workers, Destroy(w) PROVE AnnouncedWereBorn'
  <2>1. /\ pc[w] = "destroy"
        /\ obj' = [obj EXCEPT ![ref[w]] = "freed"]
        /\ pc' = [pc EXCEPT ![w] = ret[w]]
        /\ UNCHANGED <<announced, req, snap, answer, ref>>
    BY <1>3 DEF Destroy, Using, Goto
  <2>2. \A t \in Sessions : obj[t] # "unborn" => obj'[t] # "unborn"
    BY <2>1 DEF TypeInv, TypeOK
  <2>3. announced \subseteq Sessions /\ \A v \in Workers : snap[v] \subseteq Sessions
    BY DEF TypeInv, TypeOK
  <2>4. ASSUME NEW v \in Workers
        PROVE  /\ answer[v] = "kSeeOther" => obj'[ref[v]] # "unborn"
               /\ pc'[v] # "idle" => pc[v] # "idle"
    BY <2>1, <2>2 DEF TypeInv, TypeOK, Held, AnnouncedWereBorn
  <2> QED BY <2>1, <2>2, <2>3, <2>4 DEF AnnouncedWereBorn
<1>4. ASSUME NEW w \in Workers, Reply(w) PROVE AnnouncedWereBorn'
  BY <1>4 DEF Reply, AnnouncedWereBorn, TypeInv, TypeOK, Goto, Answer, sessionVars
<1>5. ASSUME NEW w \in Workers, Handling(w), ~Construct(w), ~Destroy(w), ~Reply(w)
      PROVE  AnnouncedWereBorn'
  <2>1. UNCHANGED <<obj, announced>>
    BY <1>5, SessionFrame
  <2>2. \A s \in map : obj[s] # "unborn"
    BY DEF ManagerInv, ManagerMatchesObjects, TypeInv, TypeOK
  <2>3. /\ snap'[w] = snap[w] \/ snap'[w] = map
        /\ answer'[w] = "kSeeOther" => obj[ref'[w]] # "unborn"
    <3> USE <2>2 DEF TypeInv, TypeOK, AnnouncedWereBorn, Goto, Answer, CallTerminate, CallDelete,
                 Using, sessionVars, workerVars
    <3>1. CASE Creating(w) 
      BY <1>5, <3>1 DEF Creating, GetSessions, InitSession, PostInit, StartView, SwitchToView,
                        SetWindowBounds
    <3>2. CASE Terminating(w)
      BY <1>5, <3>2 DEF Terminating, BeforeTerminate, RemoveFromMap
    <3>3. CASE Lookup(w) 
      BY <3>3 DEF Lookup
    <3>4. CASE Commanding(w) /\ ~Lookup(w)
      BY <3>4 DEF Commanding, EnumerateViews, ExecuteState, ExecuteSwitch, ExecuteView,
                  ExecuteClose, Recount,
         ExecuteDelete, CloseViews, Finish, LogFinished
    <3>5. CASE Listing(w) \/ UseAfterFree(w)
      BY <3>5 DEF Listing, ListAll, ReadCapabilities, UseAfterFree
    <3> QED BY <1>5, <3>1, <3>2, <3>3, <3>4, <3>5 DEF Handling
  <2>4. TypeInv /\ pc[w] # "idle" /\ (pc'[w] = "idle" \/ req'[w] = req[w])
    BY <1>5, HandlingFrame
  <2> QED BY <1>5, <2>1, <2>2, <2>3, <2>4, HandlingFrame DEF AnnouncedWereBorn
<1>6. CASE OpenWindow \/ CloseWindow \/ UNCHANGED vars
  BY <1>6 DEF OpenWindow, CloseWindow, workerVars, sessionVars, vars, AnnouncedWereBorn
<1> QED BY <1>1, <1>2, <1>3, <1>4, <1>5, <1>6 DEF Next, Worker

(* What "session not found" and a DELETE that succeeded have in common: the  *)
(* id was not in the map when the answer was set, or its session is in the   *)
(* hands of Terminate, which takes the id out before it returns.             *)
Gone(w) == \/ answer[w] = "kSessionNotFound"
           \/ req[w].kind = "delete" /\ answer[w] = "kSuccess"

GoneOf(w) ==
  /\ Gone(w) => /\ req[w].kind \in SessionKinds
                /\ pc[w] \in TerminatePcs \cup {"finish", "reply"}
                /\ pc[w] \in {"finish", "reply"} => req[w].id \notin map
  /\ pc[w] = "recount" => req[w].kind = "close"

GoneInv == \A w \in Workers : GoneOf(w)

LEMMA GoneStep ==
  ASSUME TypeInv, ManagerInv, KindInv, AnnouncedWereBorn, GoneInv, [Next]_vars
  PROVE  GoneInv'
<1>1. ASSUME NEW w \in Workers, NEW r \in Requests, Accept(w, r) PROVE GoneInv'
  BY <1>1 DEF Accept, GoneInv, GoneOf, Gone, KindInv, KindOf, TypeInv, TypeOK, Goto, sessionVars
<1>2. ASSUME NEW w \in Workers, Handling(w), NEW v \in Workers \ {w} PROVE GoneOf(v)'
  <2>1. GoneOf(v)
    BY DEF GoneInv
  <2>2. pc'[v] = pc[v] /\ req'[v] = req[v] /\ answer'[v] = answer[v]
    BY <1>2, HandlingFrame
  <2>3. ASSUME pc[v] \in {"finish", "reply"}, req[v].id \notin map PROVE req[v].id \notin map'
    <3>1. CASE Construct(w)
      BY <2>3, <3>1, NullsAreNotValues DEF Construct, AnnouncedWereBorn
    <3>2. CASE ~Construct(w)
      BY <1>2, <2>3, <3>2, MapFrame
    <3> QED BY <3>1, <3>2
  <2> QED BY <2>1, <2>2, <2>3 DEF GoneOf, Gone
<1>3. ASSUME NEW w \in Workers, Handling(w) PROVE GoneOf(w)'
  <2>1. TypeOK /\ GoneOf(w) /\ KindOf(w)
    BY DEF GoneInv, KindInv, TypeInv
  <2> USE <2>1 DEF TypeOK, GoneOf, Gone, KindOf, HoldingPcs, UsingPcs, TerminatePcs, CreatePcs,
            CommandPcs, Goto, Answer, CallTerminate, CallDelete, Using, sessionVars, workerVars
  <2>2. CASE Creating(w)
    BY <2>2 DEF Creating, GetSessions, Construct, InitSession, PostInit, StartView, SwitchToView,
                SetWindowBounds, CreateKinds, SessionKinds
  <2>3. CASE BeforeTerminate(w) \/ RemoveFromMap(w)
    BY <2>3 DEF BeforeTerminate, RemoveFromMap
  <2>4. CASE Destroy(w)
    BY <2>4 DEF Destroy, ManagerInv, DestroyedIsOut, SessionKinds
  <2>5. CASE Lookup(w) \/ EnumerateViews(w) \/ ExecuteState(w) \/ ExecuteSwitch(w)
    BY <2>5 DEF Lookup, EnumerateViews, ExecuteState, ExecuteSwitch, SessionKinds
  <2>6. CASE ExecuteView(w)
    <3>1. /\ UNCHANGED <<map, req>>
          /\ pc[w] = "execute" /\ req[w].kind = "view"
          /\ \E l \in {"reply", "finish"} : pc' = [pc EXCEPT ![w] = l]
          /\ \E a \in Answers \ {"kSessionNotFound"} : answer' = [answer EXCEPT ![w] = a]
      BY <2>6 DEF ExecuteView, Answers
    <3> QED BY <3>1
  <2>7. CASE ExecuteClose(w) \/ Recount(w)
    <3>1. /\ UNCHANGED <<map, req>>
          /\ pc[w] \in {"execute", "recount"} /\ req[w].kind = "close"
          /\ \/ UNCHANGED answer
             \/ \E a \in Answers \ {"kSessionNotFound"} : answer' = [answer EXCEPT ![w] = a]
      BY <2>7 DEF ExecuteClose, Recount, Answers
    <3> QED BY <3>1
  <2>8. CASE ExecuteDelete(w) \/ CloseViews(w)
    <3>1. /\ UNCHANGED <<map, req>>
          /\ pc[w] \in {"execute", "closeViews"}
          /\ \/ UNCHANGED answer /\ pc'[w] = "closeViews"
             \/ /\ pc' = [pc EXCEPT ![w] = "restoreProxy"]
                /\ answer' = [answer EXCEPT ![w] = "kSuccess"]
      BY <2>8 DEF ExecuteDelete, CloseViews
    <3> QED BY <3>1
  <2>9. CASE Finish(w) \/ LogFinished(w)
    BY <2>9 DEF Finish, LogFinished
  <2>10. CASE Listing(w)
    BY <2>10 DEF Listing, ListAll, ReadCapabilities
  <2>11. CASE Reply(w) \/ UseAfterFree(w)
    BY <2>11 DEF Reply, UseAfterFree, NoRequest
  <2> QED BY <1>3, <2>2, <2>3, <2>4, <2>5, <2>6, <2>7, <2>8, <2>9, <2>10, <2>11
          DEF Handling, Terminating, Commanding
<1>4. CASE OpenWindow \/ CloseWindow \/ UNCHANGED vars
  BY <1>4 DEF OpenWindow, CloseWindow, workerVars, sessionVars, vars, GoneInv, GoneOf, Gone
<1> QED BY <1>1, <1>2, <1>3, <1>4 DEF Next, Worker, GoneInv

(* GoneWhenAnswered: "session not found", and a DELETE that succeeded, are  *)
(* final, whatever requests the clients leave in flight together: when the  *)
(* answer is ready the id is out of the manager's map, and no constructor   *)
(* takes it again.                                                          *)
THEOREM GoneIsGone == Spec => []GoneWhenAnswered
<1>1. Init => AnnouncedWereBorn /\ GoneInv
  BY DEF Init, AnnouncedWereBorn, GoneInv, GoneOf, Gone, NoRequest
<1>2. Spec => []GoneInv
  BY <1>1, BornStep, GoneStep, ControlInvariant, PTL DEF Spec
<1>3. GoneInv => GoneWhenAnswered
  BY DEF GoneInv, GoneOf, Gone, GoneWhenAnswered
<1> QED BY <1>2, <1>3, PTL

-----------------------------------------------------------------------------
(* The application's proxy is set by the one session that replaced it, which *)
(* is still in the map and remembers the application's own: careful clients  *)
(* have no two sessions whose PostInit and BeforeTerminate could interleave. *)
(* A session without restore_proxy_ is one not initialised yet, or one that  *)
(* is being destroyed.                                                       *)
UnsavedPcs == {"init", "postInit", "removeFromMap", "destroy"}

ProxyInv ==
  /\ proxy # AppProxy => proxy \in map /\ saved[proxy] = AppProxy
  /\ \A s \in Sessions : /\ saved[s] \in {NoSession, AppProxy}
                         /\ obj[s] = "unborn" => saved[s] = NoSession
  /\ \A w \in Workers : pc[w] \in UnsavedPcs => saved[ref[w]] = NoSession

(* A worker that uses its session, but in the last step of the destructor,   *)
(* finds it in the map.                                                      *)
LEMMA UsedIsMapped ==
  ASSUME Careful, AllInv, NEW w \in Workers, pc[w] \in UsingPcs \ {"destroy"}
  PROVE  ref[w] \in map
<1>1. ref[w] \in Sessions /\ obj[ref[w]] = "live"
  BY DEF AllInv, TypeInv, Held, HoldingPcs, OwnerInv, HoldsAlone
<1>2. ASSUME NEW v \in Workers, pc[v] = "destroy", ref[v] = ref[w] PROVE FALSE
  BY <1>2, NobodyElseHolds DEF UsingPcs, TerminatePcs
<1> QED BY <1>1, <1>2 DEF AllInv, ManagerInv, ManagerMatchesObjects

(* The map only shrinks by a destructor.                                    *)
LEMMA RemovalFrame ==
  ASSUME NEW w \in Workers, Handling(w), ~Construct(w), ~RemoveFromMap(w)
  PROVE  map' = map
<1> USE DEF sessionVars
<1>1. CASE Creating(w)
  BY <1>1 DEF Creating, GetSessions, InitSession, PostInit, StartView, SwitchToView, SetWindowBounds
<1>2. CASE Terminating(w)
  BY <1>2 DEF Terminating, BeforeTerminate, Destroy
<1>3. CASE Commanding(w)
  BY <1>3 DEF Commanding, Lookup, EnumerateViews, ExecuteState, ExecuteSwitch, ExecuteView,
              ExecuteClose, Recount, ExecuteDelete, CloseViews, Finish, LogFinished
<1>4. CASE Listing(w) \/ Reply(w) \/ UseAfterFree(w)
  BY <1>4 DEF Listing, ListAll, ReadCapabilities, Reply, UseAfterFree
<1> QED BY <1>1, <1>2, <1>3, <1>4 DEF Handling

(* Only PostInit and BeforeTerminate touch the proxy.                       *)
LEMMA ProxyFrame ==
  ASSUME NEW w \in Workers, Handling(w), ~PostInit(w), ~BeforeTerminate(w)
  PROVE  UNCHANGED <<saved, proxy>>
<1> USE DEF sessionVars, workerVars
<1>1. CASE Creating(w)
  BY <1>1 DEF Creating, GetSessions, Construct, InitSession, StartView, SwitchToView,
              SetWindowBounds
<1>2. CASE Terminating(w)
  BY <1>2 DEF Terminating, RemoveFromMap, Destroy
<1>3. CASE Commanding(w)
  BY <1>3 DEF Commanding, Lookup, EnumerateViews, ExecuteState, ExecuteSwitch, ExecuteView,
              ExecuteClose, Recount, ExecuteDelete, CloseViews, Finish, LogFinished
<1>4. CASE Listing(w) \/ Reply(w) \/ UseAfterFree(w)
  BY <1>4 DEF Listing, ListAll, ReadCapabilities, Reply, UseAfterFree
<1> QED BY <1>1, <1>2, <1>3, <1>4 DEF Handling

(* Only the constructor and the error path of Init that deletes the session *)
(* put a worker on the way where restore_proxy_ is false.                   *)
LEMMA UnsavedFrame ==
  ASSUME TypeInv, NEW w \in Workers, Handling(w), ~Construct(w), ~PostInit(w),
         ~BeforeTerminate(w), pc'[w] \in UnsavedPcs
  PROVE  pc[w] \in UnsavedPcs /\ ref'[w] = ref[w]
<1> USE DEF TypeInv, TypeOK, UnsavedPcs, Goto, Answer, CallTerminate, CallDelete, Using,
            sessionVars, workerVars
<1>1. CASE Creating(w)
  BY <1>1 DEF Creating, GetSessions, Construct, InitSession, StartView, SwitchToView,
              SetWindowBounds
<1>2. CASE Terminating(w)
  BY <1>2 DEF Terminating, RemoveFromMap, Destroy
<1>3. CASE Commanding(w)
  <2>1. CASE Lookup(w) \/ EnumerateViews(w) \/ ExecuteState(w) \/ ExecuteSwitch(w)
    BY <2>1 DEF Lookup, EnumerateViews, ExecuteState, ExecuteSwitch
  <2>2. CASE ExecuteView(w) \/ ExecuteClose(w) \/ Recount(w) \/ ExecuteDelete(w) \/ CloseViews(w)
    <3>1. pc'[w] \in {"reply", "finish", "recount", "restoreProxy", "closeViews"}
      BY <2>2 DEF ExecuteView, ExecuteClose, Recount, ExecuteDelete, CloseViews
    <3> QED BY <3>1
  <2>3. CASE Finish(w) \/ LogFinished(w)
    BY <2>3 DEF Finish, LogFinished
  <2> QED BY <1>3, <2>1, <2>2, <2>3 DEF Commanding
<1>4. CASE Listing(w) \/ Reply(w) \/ UseAfterFree(w)
  BY <1>4 DEF Listing, ListAll, ReadCapabilities, Reply, UseAfterFree
<1> QED BY <1>1, <1>2, <1>3, <1>4 DEF Handling

LEMMA ProxyStep ==
  ASSUME Careful, AllInv, SingleInv, ProxyInv, [Next]_vars
  PROVE  ProxyInv'
<1>0. TypeOK /\ TypeInv
  BY DEF AllInv, TypeInv
<1>1. ASSUME NEW w \in Workers, NEW r \in Requests, Accept(w, r) PROVE ProxyInv'
  BY <1>0, <1>1 DEF Accept, Goto, ProxyInv, UnsavedPcs, TypeOK, sessionVars
<1>2. ASSUME NEW w \in Workers, Construct(w) PROVE ProxyInv'
  <2>1. PICK s \in Sessions : /\ obj[s] = "unborn" /\ obj' = [obj EXCEPT ![s] = "live"]
                              /\ map' = map \cup {s}
                              /\ ref' = [ref EXCEPT ![w] = s]
    BY <1>2 DEF Construct
  <2>2. pc' = [pc EXCEPT ![w] = "init"] /\ UNCHANGED <<saved, proxy>>
    BY <1>2 DEF Construct, Goto
  <2>3. \A t \in Sessions : obj'[t] = "unborn" => obj[t] = "unborn"
    BY <1>0, <2>1 DEF TypeOK
  <2> QED BY <1>0, <2>1, <2>2, <2>3 DEF ProxyInv, TypeOK
<1>3. ASSUME NEW w \in Workers, PostInit(w) PROVE ProxyInv'
  <2>1. /\ pc[w] = "postInit" /\ UNCHANGED <<map, obj, ref>>
        /\ \/ UNCHANGED <<saved, proxy>>
           \/ saved' = [saved EXCEPT ![ref[w]] = proxy] /\ proxy' = ref[w]
        /\ \E l \in {"restoreProxy", "startView"} : pc' = [pc EXCEPT ![w] = l]
    BY <1>3 DEF PostInit, Using, CallTerminate, Answer, Goto
  <2>2. pc[w] \in UsingPcs \ {"destroy"}
    BY <2>1 DEF UsingPcs, CreatePcs
  <2>3. ref[w] \in map /\ ref[w] \in Sessions /\ obj[ref[w]] # "unborn"
    BY <1>0, <2>2, UsedIsMapped DEF TypeOK, AllInv, ManagerInv, ManagerMatchesObjects
  <2>4. saved[ref[w]] = NoSession
    BY <2>1 DEF ProxyInv, UnsavedPcs
  <2>5. proxy = AppProxy
    BY <2>3, <2>4, NullsAreNotValues DEF ProxyInv, SingleInv, SingleSession
  <2>6. ASSUME NEW v \in Workers, pc'[v] \in UnsavedPcs
        PROVE  v # w /\ pc[v] \in UnsavedPcs /\ ref[v] # ref[w] /\ ref[v] \in Sessions
    <3>1. v # w /\ pc[v] \in UnsavedPcs
      BY <1>0, <2>1, <2>6 DEF TypeOK, UnsavedPcs
    <3>2. pc[v] \in UsingPcs
      BY <3>1 DEF UnsavedPcs, UsingPcs, TerminatePcs, CreatePcs
    <3> QED BY <1>0, <2>2, <3>1, <3>2, NobodyElseHolds DEF TypeInv, Held, HoldingPcs
  <2>7. CASE UNCHANGED <<saved, proxy>>
    BY <2>1, <2>6, <2>7 DEF ProxyInv
  <2>8. CASE saved' = [saved EXCEPT ![ref[w]] = AppProxy] /\ proxy' = ref[w]
    <3>1. \A s \in Sessions : saved'[s] = IF s = ref[w] THEN AppProxy ELSE saved[s]
      BY <1>0, <2>3, <2>8 DEF TypeOK
    <3> QED BY <2>1, <2>3, <2>6, <2>8, <3>1 DEF ProxyInv
  <2> QED BY <2>1, <2>5, <2>7, <2>8
<1>4. ASSUME NEW w \in Workers, BeforeTerminate(w) PROVE ProxyInv'
  <2>1. /\ pc[w] = "restoreProxy" /\ UNCHANGED <<map, obj, ref>>
        /\ \/ /\ saved[ref[w]] # NoSession
              /\ proxy' = saved[ref[w]]
              /\ saved' = [saved EXCEPT ![ref[w]] = NoSession]
           \/ saved[ref[w]] = NoSession /\ UNCHANGED <<proxy, saved>>
        /\ pc' = [pc EXCEPT ![w] = "removeFromMap"]
    BY <1>4 DEF BeforeTerminate, Using, Goto
  <2>2. ref[w] \in Sessions /\ \A v \in Workers : pc[v] \in UnsavedPcs => ref[v] \in Sessions
    BY <1>0, <2>1 DEF TypeInv, Held, HoldingPcs, UsingPcs, TerminatePcs, UnsavedPcs, CreatePcs
  <2>3. \A s \in Sessions : saved'[s] = IF s = ref[w] THEN NoSession ELSE saved[s]
    BY <1>0, <2>1, <2>2 DEF TypeOK
  <2>4. \A v \in Workers : pc'[v] \in UnsavedPcs => v = w \/ pc[v] \in UnsavedPcs
    BY <1>0, <2>1 DEF TypeOK
  <2>5. (proxy' = proxy /\ saved' = saved) \/ proxy' = AppProxy
    BY <2>1, <2>2 DEF ProxyInv
  <2> QED BY <2>1, <2>2, <2>3, <2>4, <2>5 DEF ProxyInv
<1>5. ASSUME NEW w \in Workers, Handling(w), ~Construct(w), ~PostInit(w), ~BeforeTerminate(w)
      PROVE  ProxyInv'
  <2>1. UNCHANGED <<saved, proxy>>
    BY <1>5, ProxyFrame
  <2>2. \A v \in Workers : pc'[v] \in UnsavedPcs => pc[v] \in UnsavedPcs /\ ref'[v] = ref[v]
    BY <1>0, <1>5, UnsavedFrame, HandlingFrame
  <2>3. \A s \in Sessions : obj'[s] = "unborn" => obj[s] = "unborn"
    <3>1. CASE Destroy(w)
      BY <1>0, <3>1 DEF Destroy, TypeOK
    <3>2. CASE Reply(w)
      BY <3>2 DEF Reply, sessionVars
    <3> QED BY <1>5, <3>1, <3>2, SessionFrame
  <2>4. ASSUME proxy # AppProxy PROVE proxy \in map'
    <3>1. CASE RemoveFromMap(w)
      <4>1. pc[w] = "removeFromMap" /\ map' = map \ {ref[w]}
        BY <3>1 DEF RemoveFromMap, Using
      <4> QED BY <2>4, <4>1, NullsAreNotValues DEF ProxyInv, UnsavedPcs
    <3>2. CASE ~RemoveFromMap(w)
      BY <1>5, <2>4, <3>2, RemovalFrame DEF ProxyInv
    <3> QED BY <3>1, <3>2
  <2> QED BY <2>1, <2>2, <2>3, <2>4 DEF ProxyInv
<1>6. CASE OpenWindow \/ CloseWindow \/ UNCHANGED vars
  BY <1>6 DEF OpenWindow, CloseWindow, workerVars, sessionVars, vars, ProxyInv
<1> QED BY <1>1, <1>2, <1>3, <1>4, <1>5, <1>6 DEF Next, Worker

(* ProxyRestored: whenever no session is left the application has its own   *)
(* proxy back, on every path that ends a session and every error path of    *)
(* Session::Init, as long as the clients are careful.                       *)
THEOREM ProxyIsRestored ==
  ASSUME Careful
  PROVE  Spec => []ProxyRestored
<1>1. Init => ProxyInv
  BY DEF Init, ProxyInv, UnsavedPcs
<1>2. AllInv /\ SingleInv /\ ProxyInv /\ [Next]_vars => ProxyInv'
  BY ProxyStep
<1>3. AllInv /\ ProxyInv => ProxyRestored
  BY DEF AllInv, TypeInv, TypeOK, ManagerInv, ManagerMatchesObjects, ProxyInv, ProxyRestored
<1> QED BY <1>1, <1>2, <1>3, CarefulInvariant, PTL DEF Spec

-----------------------------------------------------------------------------
(* The answer to a creation.  A redirect is on its way for a session that is *)
(* in the map and that nobody else can delete, because nobody was told of it *)
(* yet; any other answer comes after Terminate, or without a session.        *)
CreatorOf(w) ==
  /\ pc[w] \in {"idle", "getSessions"} => ref[w] = NoSession
  /\ answer[w] = "kSeeOther" =>
       /\ pc[w] = "reply"
       /\ ref[w] \in map
       /\ req[w].kind = "create" => ref[w] \notin announced
  /\ pc[w] = "reply" /\ req[w].kind \in CreateKinds /\ answer[w] # "kSeeOther" =>
       ref[w] = NoSession \/ obj[ref[w]] = "freed"

CreatorInv == \A w \in Workers : CreatorOf(w)

(* What one worker's answer rests on survives the steps of the others.       *)
LEMMA AnsweredAlone ==
  ASSUME Careful, AllInv, NEW w \in Workers, NEW v \in Workers \ {w}, Handling(w),
         answer[v] = "kSeeOther", CreatorOf(v)
  PROVE  ref[v] \in map' /\ (req[v].kind = "create" => ref[v] \notin announced')
<1>0. TypeInv /\ TypeOK
  BY DEF AllInv, TypeInv
<1>1. pc[v] = "reply" /\ ref[v] \in map /\ req[v].kind \in CreateKinds
  BY DEF CreatorOf, AllInv, KindInv, KindOf
<1>2. /\ pc[w] # "idle" /\ req[w] \in Requests /\ req[v] \in Requests
      /\ CarefulClients(req[w], req[v]) \/ CarefulClients(req[v], req[w])
  <2>1. pc[w] # "idle" /\ req[w] \in Requests /\ req[v] \in Requests
    BY <1>0, HandlingFrame DEF TypeOK
  <2> QED BY <1>1, <2>1 DEF AllInv, OverlapInv, Careful
<1>3. req[v].kind = "create" /\ req[w].kind \in SessionKinds
  BY <1>1, <1>2 DEF CarefulClients, CreateKinds, Requests
<1>4. announced' = announced
  <2>1. CASE Reply(w)
    BY <1>3, <2>1 DEF Reply, AllInv, KindInv, KindOf, CreateKinds, SessionKinds
  <2>2. CASE Construct(w)
    BY <2>2 DEF Construct
  <2>3. CASE Destroy(w)
    BY <2>3 DEF Destroy
  <2> QED BY <2>1, <2>2, <2>3, SessionFrame
<1>5. ASSUME RemoveFromMap(w) PROVE ref[w] # ref[v]
  <2>1. pc[w] \in HoldingPcs
    BY <1>5 DEF RemoveFromMap, Using, HoldingPcs, UsingPcs, TerminatePcs
  <2>2. ref[w] \in Sessions /\ ref[w] = req[w].id /\ pc[w] # "idle"
    BY <1>0, <1>2, <1>3, <2>1 DEF TypeInv, Held, AllInv, KindInv, KindOf
  <2>3. ref[w] \in announced
    BY <2>2, NullsAreNotValues DEF AllInv, OwnerInv, AnnouncedWereBorn
  <2> QED BY <1>3, <2>3 DEF CreatorOf
<1>6. ref[v] \in map'
  <2>1. CASE RemoveFromMap(w)
    BY <1>1, <1>5, <2>1 DEF RemoveFromMap
  <2>2. CASE Construct(w)
    BY <1>1, <2>2 DEF Construct
  <2> QED BY <1>1, <2>1, <2>2, RemovalFrame
<1> QED BY <1>3, <1>4, <1>6 DEF CreatorOf

LEMMA CreatorStep ==
  ASSUME Careful, AllInv, CreatorInv, [Next]_vars
  PROVE  CreatorInv'
<1>0. TypeOK /\ TypeInv
  BY DEF AllInv, TypeInv
<1>1. ASSUME NEW w \in Workers, NEW r \in Requests, Accept(w, r) PROVE CreatorInv'
  BY <1>0, <1>1 DEF Accept, Goto, CreatorInv, CreatorOf, AllInv, KindInv, KindOf, TypeOK,
                    sessionVars
<1>2. ASSUME NEW w \in Workers, Handling(w), NEW v \in Workers \ {w} PROVE CreatorOf(v)'
  <2>1. CreatorOf(v)
    BY DEF CreatorInv
  <2>2. pc'[v] = pc[v] /\ req'[v] = req[v] /\ answer'[v] = answer[v] /\ ref'[v] = ref[v]
    BY <1>0, <1>2, HandlingFrame
  <2>3. answer[v] = "kSeeOther" =>
          ref[v] \in map' /\ (req[v].kind = "create" => ref[v] \notin announced')
    BY <1>2, <2>1, AnsweredAlone
  <2>4. ref[v] # NoSession /\ obj[ref[v]] = "freed" => obj'[ref[v]] = "freed"
    <3>1. CASE Construct(w)
      BY <1>0, <3>1 DEF Construct, TypeOK
    <3>2. CASE Destroy(w)
      BY <1>0, <3>2 DEF Destroy, TypeOK
    <3>3. CASE Reply(w)
      BY <3>3 DEF Reply, sessionVars
    <3> QED BY <1>2, <3>1, <3>2, <3>3, SessionFrame
  <2> QED BY <2>1, <2>2, <2>3, <2>4 DEF CreatorOf
<1>3. ASSUME NEW w \in Workers, Handling(w) PROVE CreatorOf(w)'
  <2>1. CreatorOf(w) /\ KindOf(w)
    BY DEF CreatorInv, AllInv, KindInv
  <2> USE <1>0, <2>1 DEF TypeOK, CreatorOf, KindOf, HoldingPcs, UsingPcs, TerminatePcs, CreatePcs,
            CommandPcs, Goto, Answer, CallTerminate, CallDelete, Using, sessionVars, workerVars
  <2>2. CASE GetSessions(w)
    BY <2>2 DEF GetSessions
  <2>3. CASE Construct(w)
    BY <2>3 DEF Construct
  <2>4. CASE InitSession(w) \/ PostInit(w) \/ StartView(w) \/ SwitchToView(w)
    BY <2>4 DEF InitSession, PostInit, StartView, SwitchToView
  <2>5. CASE SetWindowBounds(w)
    <3>1. pc[w] = "bounds" /\ pc[w] \in UsingPcs \ {"destroy"}
      BY <2>5 DEF SetWindowBounds
    <3>2. ref[w] \in map
      BY <3>1, UsedIsMapped
    <3>3. req[w].kind = "create" => ref[w] \notin announced
      BY <3>1 DEF AllInv, OwnerInv, HoldsAlone
    <3> QED BY <2>5, <3>2, <3>3 DEF SetWindowBounds
  <2>6. CASE Destroy(w)
    <3>1. ref[w] \in Sessions
      BY <2>6 DEF Destroy, TypeInv, Held
    <3> QED BY <2>6, <3>1 DEF Destroy, CreateKinds, SessionKinds
  <2>7. CASE BeforeTerminate(w) \/ RemoveFromMap(w)
    BY <2>7 DEF BeforeTerminate, RemoveFromMap
  <2>8. CASE Commanding(w)
    <3>1. req[w].kind \notin CreateKinds /\ req'[w] = req[w] /\ answer'[w] # "kSeeOther"
      <4>1. req[w].kind \in SessionKinds /\ answer[w] # "kSeeOther"
        BY <2>8 DEF Commanding, Lookup, EnumerateViews, ExecuteState, ExecuteSwitch, ExecuteView,
                    ExecuteClose, Recount, ExecuteDelete, CloseViews, Finish, LogFinished,
                    CreateKinds, SessionKinds
      <4>2. \/ UNCHANGED answer
            \/ \E a \in Answers \ {"kSeeOther"} : answer' = [answer EXCEPT ![w] = a]
        BY <2>8 DEF Commanding, Lookup, EnumerateViews, ExecuteState, ExecuteSwitch, ExecuteView,
                    ExecuteClose, Recount, ExecuteDelete, CloseViews, Finish, LogFinished, Answers
      <4>3. UNCHANGED req
        BY <2>8 DEF Commanding, Lookup, EnumerateViews, ExecuteState, ExecuteSwitch, ExecuteView,
                    ExecuteClose, Recount, ExecuteDelete, CloseViews, Finish, LogFinished
      <4> QED BY <4>1, <4>2, <4>3 DEF CreateKinds, SessionKinds
    <3>2. pc'[w] \notin {"idle", "getSessions"}
      BY <2>8 DEF Commanding, Lookup, EnumerateViews, ExecuteState, ExecuteSwitch, ExecuteView,
                    ExecuteClose, Recount, ExecuteDelete, CloseViews, Finish, LogFinished
    <3> QED BY <3>1, <3>2
  <2>9. CASE Listing(w)
    BY <2>9 DEF Listing, ListAll, ReadCapabilities, CreateKinds
  <2>10. CASE Reply(w) \/ UseAfterFree(w)
    BY <2>10 DEF Reply, UseAfterFree
  <2> QED BY <1>3, <2>2, <2>3, <2>4, <2>5, <2>6, <2>7, <2>8, <2>9, <2>10
          DEF Handling, Creating, Terminating
<1>4. CASE OpenWindow \/ CloseWindow \/ UNCHANGED vars
  BY <1>4 DEF OpenWindow, CloseWindow, workerVars, sessionVars, vars, CreatorInv, CreatorOf
<1> QED BY <1>1, <1>2, <1>3, <1>4 DEF Next, Worker, CreatorInv

(* CreateAnswered: with careful clients the answer to a creation is true    *)
(* when it leaves: a redirect leads to a session that is in the map, and an *)
(* error leaves no session behind.                                          *)
THEOREM CreationsAreAnswered ==
  ASSUME Careful
  PROVE  Spec => []CreateAnswered
<1>1. Init => CreatorInv
  BY DEF Init, CreatorInv, CreatorOf, NoRequest
<1>2. AllInv /\ CreatorInv /\ [Next]_vars => CreatorInv'
  BY CreatorStep
<1>3. CreatorInv => CreateAnswered
  BY DEF CreatorInv, CreatorOf, CreateAnswered
<1> QED BY <1>1, <1>2, <1>3, CarefulInvariant, PTL DEF Spec
=============================================================================
