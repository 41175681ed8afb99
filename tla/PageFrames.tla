------------------------------ MODULE PageFrames ------------------------------
(***************************************************************************)
(* The frame that a session's commands are aimed at, and the search for    *)
(* elements in it.                                                         *)
(*                                                                         *)
(* The session keeps a path of ids and, beside it, the iframe element that *)
(* each id was given to (Session::current_frame_path_, frame_elements_).   *)
(* The id of a frame is a property of its QWebFrame.  A command first      *)
(* checks the elements, each by a script in the frame that the ids before  *)
(* it lead to, and goes back to the top when one is stale; its own task    *)
(* comes later, and the page may change between the two.  A page changes   *)
(* by itself: it takes iframes out, puts them back, and replaces           *)
(* documents.                                                              *)
(*                                                                         *)
(* Tasks of a session run one after the other.  A search sleeps in nested  *)
(* event loops between its attempts, in which the page goes on but no task *)
(* of the session does.                                                    *)
(***************************************************************************)
EXTENDS Naturals, Sequences, FiniteSets, FiniteSetsExt, SequencesExt

CONSTANTS Frames,       \* the iframes the page may have
          Main,         \* QWebPage::mainFrame
          ParentOf,     \* of each iframe: the frame its element is in
          Clients,      \* commands that can be in progress at a time
          MaxPath,      \* bound: length of the frame path
          MaxId,        \* bound: ids that are referred to at a time
          NoId,
          MaxWait       \* bound: the implicit wait, in attempts

ASSUME FrameAssumption ==
    /\ Main \notin Frames /\ ParentOf \in [Frames -> Frames \cup {Main}]
    /\ MaxPath \in Nat /\ MaxId \in Nat /\ NoId \notin 1..MaxId /\ MaxWait \in Nat

Ids == 1..MaxId

VARIABLES
    attached,       \* the iframes whose element is in a document of the page
    frameId,        \* the property "frame_id" of each frame's QWebFrame
    path,           \* current_frame_path_, split
    elements,       \* frame_elements_: each with its iframe, and whether the
                    \* document it was found in has been replaced; for the
                    \* history, whether the QWebFrame was deleted that got the id
    implicitWait,   \* implicit_wait_
    cmd,            \* of each client: where its command is, and its locals
    crashed         \* a deleted QWebFrame was used, and it showed

session == <<path, elements, implicitWait>>
page    == <<attached, frameId>>
vars    == <<page, session, cmd, crashed>>

(* `frame', `dead', `ticks': the search.                                    *)
Idle == [pc |-> "idle", frame |-> Main, dead |-> FALSE, ticks |-> 0]

TypeOK ==
    /\ attached \subseteq Frames
    /\ \A f \in attached : ParentOf[f] \in attached \cup {Main}
    /\ frameId \in [Frames -> Ids \cup {NoId}]
    /\ path \in Seq(Ids)
    /\ elements \in Seq([frame : Frames, stale : BOOLEAN, deleted : BOOLEAN])
    /\ Len(path) = Len(elements)
    /\ implicitWait \in 0..MaxWait
    /\ crashed \in BOOLEAN
    /\ cmd \in [Clients -> [pc : {"idle", "alert", "ready", "timeout", "search"},
                            frame : Frames \cup {Main}, dead : BOOLEAN,
                            ticks : 0..(MaxWait + 1)]]

Init ==
    /\ attached = {f \in Frames : ParentOf[f] = Main}
    /\ frameId = [f \in Frames |-> NoId]
    /\ path = <<>> /\ elements = <<>>
    /\ implicitWait = 0
    /\ cmd = [c \in Clients |-> Idle]
    /\ crashed = FALSE

-------------------------------------------------------------------------------
(* Finding frames. *)

ChildrenWithId(d, i) == {f \in attached : ParentOf[f] = d /\ frameId[f] = i}

(* FindFrameByPath goes down the page along the ids.  An id that no child  *)
(* has is passed over; only the last one must be found, or there is no     *)
(* such frame.                                                             *)
Descend(d, i) == IF ChildrenWithId(d, i) = {} THEN d ELSE CHOOSE f \in ChildrenWithId(d, i) : TRUE

Walk(p) ==
    LET at[n \in 0..Len(p)] == IF n = 0 THEN Main ELSE Descend(at[n - 1], p[n])
    IN  at

(* Mutant: a path that leads nowhere stands for the frame it leads to last. *)
GetDeepestFrame(p) == Walk(p)[Len(p)]

(* GetFrame: the frame of a path, or else the main frame. *)
GetFrame(p) ==
    IF p = <<>> THEN Main
    ELSE LET last == Walk(p)[Len(p) - 1]
         IN  IF ChildrenWithId(last, Last(p)) = {} THEN Main ELSE Descend(last, Last(p))

(* Whether a script finds the i-th frame element where it is looked for.   *)
ElementIsValid(i) ==
    LET e == elements[i]
    IN  /\ e.frame \in attached /\ ~e.stale
        /\ ParentOf[e.frame] = GetFrame(SubSeq(path, 1, i - 1))

-------------------------------------------------------------------------------
(* Commands. *)

At(c, pc) == ~crashed /\ cmd[c].pc = pc
InTask(c, pc) == At(c, pc) /\ \A d \in Clients : cmd[d].pc # "search"
Done(c) == cmd' = [cmd EXCEPT ![c] = Idle]
Go(c, pc) == cmd' = [cmd EXCEPT ![c].pc = pc]

(* Mutant: the elements of the old path are kept. *)
ToTopKeepsElements == path' = <<>> /\ UNCHANGED elements

(* QWebkitProxy::SwitchToTopFrame, and what SwitchTo does with the frames. *)
ToTop == path' = <<>> /\ elements' = <<>>

(* SwitchToTopFrameIfCurrentFrameInvalid, the first task of a view command *)
(* (ViewCommand::Init).  A script may also fail for another reason.        *)
CheckFrames(c) ==
    /\ InTask(c, "idle")
    /\ \/ /\ \A i \in DOMAIN elements : ElementIsValid(i)
          /\ Go(c, "ready")
          /\ UNCHANGED <<path, elements>>
       \/ /\ \E i \in DOMAIN elements : ~ElementIsValid(i)
          /\ ToTop /\ Go(c, "ready")
       \/ /\ elements # <<>>
          /\ Go(c, "alert")
          /\ UNCHANGED <<path, elements>>
    /\ UNCHANGED <<page, implicitWait, crashed>>

(* After a failed check Init asks for a message box.  GetAlertMessage      *)
(* fails when there is none, but into a variable that Init does not look   *)
(* at: the command is carried out either way, where "Only return a frame   *)
(* checking error if a modal dialog is not present" is meant.              *)
GetAlertMessage(c) ==
    /\ InTask(c, "alert") /\ Go(c, "ready")
    /\ UNCHANGED <<page, session, crashed>>

(* Mutant: a frame that has an id keeps it, and the path gets the new one. *)
SwitchToFrameKeepsId(c, f) ==
    /\ InTask(c, "ready") /\ Len(path) < MaxPath
    /\ f \in attached /\ ParentOf[f] = GetFrame(path)
    /\ \E i \in Ids :
          /\ \A j \in Ids : j \notin Range(path) \cup Range(frameId) => i <= j
          /\ i \notin Range(path) \cup Range(frameId)
          /\ frameId' = [frameId EXCEPT ![f] = IF @ = NoId THEN i ELSE @]
          /\ path' = Append(path, i)
    /\ elements' = Append(elements, [frame |-> f, stale |-> FALSE, deleted |-> FALSE])
    /\ Done(c)
    /\ UNCHANGED <<attached, implicitWait, crashed>>

(* POST /frame with an index, a name or an element: the iframe that the    *)
(* script finds in the current frame gets a new id.                        *)
SwitchToFrame(c, f) ==
    /\ InTask(c, "ready") /\ Len(path) < MaxPath
    /\ f \in attached /\ ParentOf[f] = GetFrame(path)
    /\ \E i \in Ids :
          /\ \A j \in Ids : j \notin Range(path) \cup Range(frameId) => i <= j
          /\ i \notin Range(path) \cup Range(frameId)
          /\ frameId' = [frameId EXCEPT ![f] = i]
          /\ path' = Append(path, i)
    /\ elements' = Append(elements, [frame |-> f, stale |-> FALSE, deleted |-> FALSE])
    /\ Done(c)
    /\ UNCHANGED <<attached, implicitWait, crashed>>

(* POST /frame with null. *)
SwitchToTopFrame(c) ==
    /\ InTask(c, "ready") /\ ToTop /\ Done(c)
    /\ UNCHANGED <<page, implicitWait, crashed>>

(* POST /window, which checks no frames. *)
SwitchTo(c) ==
    /\ InTask(c, "idle") /\ ToTop
    /\ UNCHANGED <<page, implicitWait, cmd, crashed>>

(* Any other command, or one that finds no frame. *)
OtherCommand(c) ==
    /\ InTask(c, "ready") /\ Done(c)
    /\ UNCHANGED <<page, session, crashed>>

(* FindElementsHelper takes the current frame once, and keeps it.          *)
FindElements(c) ==
    /\ InTask(c, "ready")
    /\ cmd' = [cmd EXCEPT ![c] = [Idle EXCEPT !.pc = "search", !.frame = GetFrame(path)]]
    /\ UNCHANGED <<page, session, crashed>>

(* Mutant: the time that has passed is not looked at. *)
AttemptForever(c) ==
    /\ At(c, "search")
    /\ \/ Done(c)
       \/ cmd' = [cmd EXCEPT ![c].ticks = (@ + 1) % (MaxWait + 2)]
    /\ UNCHANGED <<page, session, crashed>>

(* An attempt after another, until elements are found or the wait is over. *)
(* The frame may be gone by then: what a script does in it is undefined.   *)
Attempt(c) ==
    /\ At(c, "search")
    /\ \/ Done(c) /\ crashed' \in {FALSE, cmd[c].dead}          \* found
       \/ /\ IF cmd[c].ticks > implicitWait THEN Done(c)
             ELSE cmd' = [cmd EXCEPT ![c].ticks = @ + 1]
          /\ UNCHANGED crashed
    /\ UNCHANGED <<page, session>>

(* POST /timeouts: a task like any command, and then the worker writes the *)
(* session's wait, also under a search.                                    *)
BeginTimeouts(c) == InTask(c, "idle") /\ Go(c, "timeout") /\ UNCHANGED <<page, session, crashed>>
SetImplicitWait(c, ms) ==
    /\ At(c, "timeout")
    /\ implicitWait' = ms
    /\ Done(c)
    /\ UNCHANGED <<page, path, elements, crashed>>

-------------------------------------------------------------------------------
(* The page. *)

(* The iframes in a frame, in those, and so on. *)
Below ==
    [d \in Frames \cup {Main} |->
        {f \in Frames :
            \A S \in SUBSET Frames :
                (\A g \in Frames : ParentOf[g] \in S \cup {d} => g \in S) => f \in S}]

(* The QWebFrames of `gone' are deleted, the documents with the elements   *)
(* of `lost' are replaced.                                                 *)
Removes(gone, lost) ==
    /\ attached' = attached \ gone
    /\ frameId' = [f \in Frames |-> IF f \in gone THEN NoId ELSE frameId[f]]
    /\ elements' = [i \in DOMAIN elements |->
                       [elements[i] EXCEPT !.stale   = @ \/ elements[i].frame \in lost,
                                           !.deleted = @ \/ elements[i].frame \in gone]]
    /\ cmd' = [c \in Clients |->
                 [cmd[c] EXCEPT !.dead = @ \/ (cmd[c].pc = "search" /\ cmd[c].frame \in gone)]]
    /\ UNCHANGED <<path, implicitWait, crashed>>

(* A frame, or the page, goes to another document. *)
Navigate(d) == ~crashed /\ d \in attached \cup {Main} /\ Removes(Below[d], Below[d])

(* A script takes an iframe element out of its document ... *)
Detach(f) == ~crashed /\ f \in attached /\ Removes({f} \cup Below[f], Below[f])

(* ... and puts it, or another one, in. *)
Attach(f) ==
    /\ ~crashed /\ f \notin attached /\ ParentOf[f] \in attached \cup {Main}
    /\ attached' = attached \cup {f}
    /\ UNCHANGED <<frameId, session, cmd, crashed>>

-------------------------------------------------------------------------------
Step(c) ==
    \/ CheckFrames(c) \/ GetAlertMessage(c) \/ SwitchToTopFrame(c) \/ SwitchTo(c)
    \/ OtherCommand(c) \/ FindElements(c) \/ Attempt(c) \/ BeginTimeouts(c)
    \/ \E f \in Frames : SwitchToFrame(c, f)
    \/ \E ms \in 0..MaxWait : SetImplicitWait(c, ms)

Next ==
    \/ \E c \in Clients : Step(c)
    \/ \E d \in Frames \cup {Main} : Navigate(d)
    \/ \E f \in Frames : Detach(f) \/ Attach(f)

Spec == Init /\ [][Next]_vars

(* The timer of the nested loop fires, and the UI thread goes on. *)
FairSpec == Spec /\ \A c \in Clients : WF_vars(Attempt(c))

-------------------------------------------------------------------------------
(* Properties. *)

(* GetFrame on the path of the session never leads a command into a frame  *)
(* of the page other than the last one chosen or the main frame, whatever  *)
(* became of the frames on the way.                                        *)
NoOtherFrame == path # <<>> => GetFrame(path) \in {Main, Last(elements).frame}

(* GetFrame falls back to the main frame, or passes an id of the path      *)
(* over, only if one of the QWebFrames on the path was deleted after the   *)
(* client chose it.  As long as they all live, commands go to the frame    *)
(* chosen last: whatever other frames come and go, however often a frame   *)
(* is chosen, and though each choice gives the frame another id.           *)
PathsLeadUnlessDeleted ==
    path # <<>> /\ (\A i \in DOMAIN elements : ~elements[i].deleted) =>
        GetFrame(path) = Last(elements).frame

(* FindElementsHelper: every search ends, though its wait can be changed   *)
(* while it goes on, and before another command has the UI thread.         *)
SearchesEnd == []<>(crashed \/ \A c \in Clients : cmd[c].pc # "search")
===============================================================================
