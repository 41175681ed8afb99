----------------------------- MODULE ViewRegistry -----------------------------
(***************************************************************************)
(* The views and elements that a session knows: Session::views_ and        *)
(* elements_, the current view, the enumeration that every command starts  *)
(* with, and the commands that open, choose, replace and close views.      *)
(*                                                                         *)
(* A command runs on a worker of the HTTP server and hands tasks to the    *)
(* session's thread, which has the UI thread run them one after the other. *)
(* Commands of several clients interleave between their tasks, and the     *)
(* application's own events come between them too, also while a task waits *)
(* in a nested event loop for a new window to be painted.  The session     *)
(* keeps a view by a guarded pointer: the map stays as it is when the      *)
(* window goes.                                                            *)
(*                                                                         *)
(* Ids are random strings in the program, and the maps are walked in their *)
(* order.  Here that order is unknown: where the program takes the first,  *)
(* any may be it; and as ids are alike but for the order, a new id is the  *)
(* least number that nothing refers to.                                    *)
(***************************************************************************)
EXTENDS Naturals, FiniteSets, FiniteSetsExt, Functions

CONSTANTS Windows,       \* the windows the application may ever have
          FirstWindow,   \* the one the session was started with
          Clients,       \* commands that can be in progress at a time
          MaxId,         \* bound: ids that are referred to at a time
          NoView, NoWindow,
          ClosesOldView  \* URLTransitionAction_CloseOldView is installed

ASSUME ViewAssumption ==
    /\ IsFiniteSet(Windows) /\ FirstWindow \in Windows /\ NoWindow \notin Windows
    /\ MaxId \in Nat \ {0} /\ NoView \notin 1..MaxId
    /\ ClosesOldView \in BOOLEAN

Ids == 1..MaxId

VARIABLES
    window,     \* "unborn", "shown", "hidden" (closed, not deleted), "gone"
    views,      \* Session::views_: id -> window, of the ids in use
    elements,   \* Session::elements_: the ids it has element handles under
    current,    \* Session::current_view_id_
    cmd,        \* of each client: where its command is, and its locals
    ended       \* the session was terminated, or the application crashed

vars == <<window, views, elements, current, cmd, ended>>

Idle == [pc |-> "idle", view |-> NoView, old |-> NoView, made |-> NoWindow]

TypeOK ==
    /\ window \in [Windows -> {"unborn", "shown", "hidden", "gone"}]
    /\ DOMAIN views \subseteq Ids /\ views \in [DOMAIN views -> Windows]
    /\ elements \subseteq Ids
    /\ current \in Ids
    /\ cmd \in [Clients -> [pc : {"idle", "ready", "switch", "find", "close", "closed",
                                  "made", "added", "load", "moving"},
                            view : Ids \cup {NoView},
                            old : Ids \cup {NoView},
                            made : Windows \cup {NoWindow}]]
    /\ ended \in BOOLEAN

(* The session as CreateSession leaves it. *)
Init ==
    /\ window = [w \in Windows |-> IF w = FirstWindow THEN "shown" ELSE "unborn"]
    /\ views = [i \in {1} |-> FirstWindow]
    /\ elements = {}
    /\ current = 1
    /\ cmd = [c \in Clients |-> Idle]
    /\ ended = FALSE

-------------------------------------------------------------------------------
(* The registry. *)

(* GenerateRandomID: nobody refers to the id it returns. *)
Referred == DOMAIN views \cup {current} \cup UNION {{cmd[c].view, cmd[c].old} : c \in Clients}
FreshIds == Ids \ Referred
NewId == Min(FreshIds)

IdsOf(w) == {i \in DOMAIN views : views[i] = w}

(* GetViewHandle, and the guarded pointer in it is not null. *)
Resolves(v) == v \in DOMAIN views /\ window[views[v]] # "gone"

AddNewView(v, w) ==
    views' = [i \in DOMAIN views \cup {v} |-> IF i = v THEN w ELSE views[i]]

(* The enumerators: every shown window that has no id gets one. *)
Unregistered == {w \in Windows : window[w] = "shown"} \ Range(views)
Registered ==
    IF Unregistered = {} THEN views
    ELSE LET new == CHOOSE f \in [Unregistered -> FreshIds] : IsInjective(f)
         IN  [i \in DOMAIN views \cup Range(new) |->
                 IF i \in DOMAIN views THEN views[i] ELSE CHOOSE w \in Unregistered : new[w] = i]

(* Mutant: an enumerator reports the views it has just registered only.  *)
ListingsOfNew(vs) == {DOMAIN vs \ DOMAIN views}

(* The sets that the enumeration can report: one id of each shown window.  *)
Listings(vs) ==
    LET shown == {w \in Windows : window[w] = "shown"}
    IN  {Range(f) : f \in {g \in [shown -> DOMAIN vs] : \A w \in shown : vs[g[w]] = w}}

(* Mutant: UpdateViews erases nothing. *)
ErasedNothing(stale) == {{}}

(* UpdateViews erases the entry its iterator stands on and increments the  *)
(* iterator afterwards.  The first view that was not listed is erased for  *)
(* certain; from there the walk depends on what is left in freed memory,   *)
(* and it may miss some of the others.                                     *)
Erased(stale) == {S \in SUBSET stale : stale # {} => S # {}}

(* ViewEnumerator::EnumerateViews, one task of the UI thread.  `terminates' *)
(* when the command ends a session that has no view left.                  *)
EnumerateViews(c, then, terminates) ==
    /\ Cardinality(Unregistered) <= Cardinality(FreshIds)       \* bound
    /\ LET all == Registered
       IN  \E listed \in Listings(all) : \E S \in Erased(DOMAIN all \ listed) :
              /\ views' = Restrict(all, DOMAIN all \ S)
              /\ elements' = elements \ S
              /\ ended' = (terminates /\ listed = {})
              /\ cmd' = [cmd EXCEPT ![c] = IF ended' THEN Idle ELSE then]
              /\ UNCHANGED <<window, current>>

-------------------------------------------------------------------------------
(* Commands. *)

At(c, pc) == ~ended /\ cmd[c].pc = pc
Go(c, pc, v) == cmd' = [cmd EXCEPT ![c] = [Idle EXCEPT !.pc = pc, !.view = v]]
Done(c) == cmd' = [cmd EXCEPT ![c] = Idle]

(* The session's thread is in a task whenever a client is "moving", and    *)
(* runs no other.                                                          *)
InTask(c, pc) == At(c, pc) /\ \A d \in Clients : cmd[d].pc # "moving"

(* WebDriverCommand::Init.  A session without views is terminated. *)
BeginCommand(c) ==
    InTask(c, "idle") /\ EnumerateViews(c, [Idle EXCEPT !.pc = "ready"], TRUE)

(* GET /window_handles enumerates once more; so does POST /window with a   *)
(* name that is not an id, to look for a title.                            *)
EnumerateAgain(c) ==
    InTask(c, "ready") /\ \E pc \in {"idle", "ready"} : EnumerateViews(c, [Idle EXCEPT !.pc = pc], FALSE)

(* POST /window: ViewCmdExecutor::SwitchTo of a view that has an executor. *)
(* A view that vanishes between the two leaves the command without effect. *)
SwitchToView(c, v) ==
    /\ InTask(c, "ready") /\ Resolves(v)
    /\ current' = v /\ Done(c)
    /\ UNCHANGED <<window, views, elements, ended>>

(* The same in POST /url, for the view it has registered; the command that *)
(* was wrapped goes on from there, without another enumeration.            *)
SwitchTo(c) ==
    /\ InTask(c, "switch")
    /\ current' = IF Resolves(cmd[c].view) THEN cmd[c].view ELSE current
    /\ Go(c, "load", NoView)
    /\ UNCHANGED <<window, views, elements, ended>>

(* A command on the current view takes an executor of it, and hands a task *)
(* to the UI thread, which looks the id up again.  This is what executors  *)
(* of widgets and of QML views do; those of web views keep the pointer     *)
(* that was found here instead, and no view of this module is one.         *)
TakeExecutor(c, pc) ==
    /\ At(c, "ready") /\ Resolves(current) /\ Go(c, pc, current)
    /\ UNCHANGED <<window, views, elements, current, ended>>

(* The view vanished before the executor was made, or no widget could be   *)
(* made for a url: the command ends without effect.                        *)
NoExecutor(c) ==
    /\ At(c, "ready") \/ At(c, "load")
    /\ Done(c)
    /\ UNCHANGED <<window, views, elements, current, ended>>

(* Mutant: the task trusts that the view of its executor is there. *)
FindElementsUnchecked(c) ==
    /\ InTask(c, "find") /\ elements' = elements \cup {cmd[c].view} /\ Done(c)
    /\ UNCHANGED <<window, views, current, ended>>

(* QWidgetViewCmdExecutor::FindElements: the elements found get ids. *)
FindElements(c) ==
    /\ InTask(c, "find")
    /\ elements' = IF Resolves(cmd[c].view) THEN elements \cup {cmd[c].view} ELSE elements
    /\ Done(c)
    /\ UNCHANGED <<window, views, current, ended>>

(* QWidget::close: a shown window hides, unless its closeEvent refuses. *)
CloseWidget(w) ==
    \/ window' = [window EXCEPT ![w] = IF @ = "shown" THEN "hidden" ELSE @]
    \/ window[w] = "shown" /\ UNCHANGED window

(* QViewCmdExecutor::Close: the view is dropped before the window is asked. *)
CloseView(v) ==
    IF Resolves(v)
      THEN /\ views' = Restrict(views, DOMAIN views \ {v})
           /\ elements' = elements \ {v}
           /\ CloseWidget(views[v])
      ELSE UNCHANGED <<window, views, elements>>

(* DELETE /window closes the view in the UI thread, ...  *)
CloseTask(c) ==
    /\ InTask(c, "close") /\ CloseView(cmd[c].view)
    /\ IF Resolves(cmd[c].view) THEN Go(c, "closed", NoView) ELSE Done(c)
    /\ UNCHANGED <<current, ended>>

(* ... and ends the session if that was the last one. *)
CloseFinish(c) == InTask(c, "closed") /\ EnumerateViews(c, Idle, TRUE)

(* POST /url of a url that the current view cannot handle: a window is     *)
(* created and shown by a task, ...                                        *)
CreateView(c, w) ==
    /\ InTask(c, "ready") /\ Resolves(current) /\ window[w] = "unborn"
    /\ window' = [window EXCEPT ![w] = "shown"]
    /\ cmd' = [cmd EXCEPT ![c] = [Idle EXCEPT !.pc = "made", !.old = current, !.made = w]]
    /\ UNCHANGED <<views, elements, current, ended>>

(* ... registered by the worker when the task is done, ...  *)
RegisterView(c) ==
    /\ At(c, "made") /\ FreshIds # {}
    /\ AddNewView(NewId, cmd[c].made)
    /\ IF ClosesOldView THEN cmd' = [cmd EXCEPT ![c].pc = "added", ![c].view = NewId]
                        ELSE Go(c, "switch", NewId)
    /\ UNCHANGED <<window, elements, current, ended>>

(* ... and the old view is closed before the session switches to it. *)
HandleOldView(c) ==
    /\ InTask(c, "added") /\ CloseView(cmd[c].old) /\ Go(c, "switch", cmd[c].view)
    /\ UNCHANGED <<current, ended>>

(* Mutant: the creator does not return the handle of the window it made. *)
BeginNavigateNoHandle(c, w) ==
    /\ InTask(c, "ready") \/ InTask(c, "load")
    /\ Resolves(current) /\ window[w] = "unborn"
    /\ window' = [window EXCEPT ![w] = "shown"]
    /\ Go(c, "moving", current)
    /\ UNCHANGED <<views, elements, current, ended>>

(* QWidgetViewCmdExecutor::NavigateToURL: one task, with a nested event    *)
(* loop in it.  It keeps a plain pointer to the old widget over the loop,  *)
(* in `made' once the new one is known.                                    *)
BeginNavigate(c, w) ==
    /\ InTask(c, "ready") \/ InTask(c, "load")
    /\ Resolves(current) /\ window[w] = "unborn"
    /\ window' = [window EXCEPT ![w] = "shown"]
    /\ cmd' = [cmd EXCEPT ![c] = [Idle EXCEPT !.pc = "moving", !.view = current, !.made = w]]
    /\ UNCHANGED <<views, elements, current, ended>>

(* The old widget is closed, if it is still there: a deleted one is used   *)
(* all the same, which may go unnoticed or not.  The id is given to the    *)
(* new window; the element handles under it stay.                          *)
EndNavigate(c) ==
    LET v == cmd[c].view
    IN  /\ At(c, "moving")
        /\ IF window[views[v]] = "gone" THEN ended' \in BOOLEAN /\ UNCHANGED window
                                        ELSE UNCHANGED ended /\ CloseWidget(views[v])
        /\ views' = [views EXCEPT ![v] = cmd[c].made]
        /\ Done(c)
        /\ UNCHANGED <<elements, current>>

-------------------------------------------------------------------------------
(* The application.  A window that was closed is not shown again. *)

AppMoves(w, from, to) ==
    /\ ~ended /\ window[w] = from
    /\ window' = [window EXCEPT ![w] = to]
    /\ UNCHANGED <<views, elements, current, cmd, ended>>

AppOpens(w)   == AppMoves(w, "unborn", "shown")
AppCloses(w)  == AppMoves(w, "shown", "hidden")
AppDeletes(w) == AppMoves(w, "hidden", "gone")

Step(c) ==
    \/ BeginCommand(c) \/ EnumerateAgain(c) \/ SwitchTo(c) \/ FindElements(c)
    \/ NoExecutor(c) \/ CloseTask(c) \/ CloseFinish(c) \/ RegisterView(c)
    \/ HandleOldView(c) \/ EndNavigate(c)
    \/ \E v \in DOMAIN views : SwitchToView(c, v)
    \/ \E pc \in {"find", "close"} : TakeExecutor(c, pc)
    \/ \E w \in Windows : CreateView(c, w) \/ BeginNavigate(c, w)

Next ==
    \/ \E c \in Clients : Step(c)
    \/ \E w \in Windows : AppOpens(w) \/ AppCloses(w) \/ AppDeletes(w)

Spec == Init /\ [][Next]_vars

(* Clients go on sending commands, as a client that polls does, and every  *)
(* command that was begun goes on. *)
FairSpec == Spec /\ \A c \in Clients : WF_vars(Step(c))

-------------------------------------------------------------------------------
(* Properties. *)

(* Session::RemoveView and UpdateViews forget the elements of a view with  *)
(* the view, and no task adds elements to a view that was dropped between  *)
(* the making of its executor and the task.                                *)
ElementsHaveViews == elements \subseteq DOMAIN views

(* UpdateViews and RemoveView: the id of a window that stays open is not   *)
(* taken from a client, unless a command closes that view or the window    *)
(* has another id that stays; and no id passes to another window but in a  *)
(* navigation of its view.                                                 *)
Closing(v) == \E c \in Clients : \/ cmd[c].pc = "close" /\ cmd[c].view = v
                                 \/ cmd[c].pc = "added" /\ cmd[c].old = v
IdsAreKept ==
    \A v \in DOMAIN views :
        window[views[v]] = "shown" =>
            \/ v \in DOMAIN views' /\ views'[v] = views[v]
            \/ v \notin DOMAIN views' /\ (Closing(v) \/ views[v] \in Range(views'))
            \/ \E c \in Clients : cmd[c].pc = "moving" /\ cmd[c].view = v
OpenViewsKeepTheirIds == [][IdsAreKept]_vars

(* Views whose window was deleted leave the session, all of them, though   *)
(* UpdateViews may miss some of the stale views each time and windows that *)
(* were opened twice leave stale ids of their own.                         *)
DeletedViews == {v \in DOMAIN views : ~Resolves(v)}
DeletedViewsVanish == []<>(ended \/ DeletedViews = {})
===============================================================================
