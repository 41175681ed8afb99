------------------------------- MODULE PageLoads -------------------------------
(***************************************************************************)
(* Waiting for a web page: QWebkitProxy::NavigateToURL and Reload, with    *)
(* their QPageLoader, and ExecuteAsyncScript, with its JSNotifier.         *)
(*                                                                         *)
(* A task of the session runs in the UI thread and waits in a nested event *)
(* loop.  The page goes on in that loop: loads end, a script or the user   *)
(* starts another, and the application may delete the page.  A load that   *)
(* is replaced by another ends before the other starts, as QtWebKit has    *)
(* it.  The QPageLoader hears of a start at once; of an end it hears by a  *)
(* queued call, and only since it heard of a start, once per start heard.  *)
(***************************************************************************)
EXTENDS Naturals

CONSTANTS MaxLoads      \* bound: loads that the page begins

ASSUME LoadAssumption == MaxLoads \in Nat \ {0}

VARIABLES
    page,       \* the QWebPage: "open" or "gone"
    load,       \* the load in progress, by number, or 0
    begun,      \* how many loads the page has begun ...
    ended,      \* ... and the last one that has ended
    loader,     \* QPageLoader: whether there is one, its connections to loadFinished,
                \* and the calls of pageLoadFinished that are queued
    task,       \* the task that waits, and how many loads the page had begun before it
    late,       \* the task has taken longer than page_load_timeout
    answer      \* of the last task: "timeout", or "done" whatever came of it

pages == <<page, load, begun, ended>>
vars  == <<pages, loader, task, late, answer>>

NoLoader == [listening |-> FALSE, connections |-> 0, calls |-> 0]
NoTask   == [pc |-> "idle", before |-> 0]

TypeOK ==
    /\ page \in {"open", "gone"}
    /\ begun \in 0..MaxLoads /\ load \in {0, begun} /\ ended \in 0..begun
    /\ loader \in [listening : BOOLEAN, connections : Nat, calls : Nat]
    /\ task \in [pc : {"idle", "navigate", "reload", "script"}, before : 0..begun]
    /\ late \in BOOLEAN
    /\ answer \in {"none", "done", "timeout"}

Init ==
    /\ page = "open" /\ load = 0 /\ begun = 0 /\ ended = 0
    /\ loader = NoLoader /\ task = NoTask /\ late = FALSE /\ answer = "none"

-------------------------------------------------------------------------------
(* The signals of the page, as the loader takes them. *)

(* Mutant: the connection to loadFinished is made before the load begins. *)
ListensFromTheStart == [NoLoader EXCEPT !.listening = TRUE, !.connections = 1]

(* Mutant: the loader is connected after loadPage. *)
ListensLate == NoLoader

Listens == [NoLoader EXCEPT !.listening = TRUE]

(* pageLoadStarted, if there is a loader. *)
Started(l) == IF l.listening THEN [l EXCEPT !.connections = @ + 1] ELSE l

(* loadFinished, of every connection. *)
Finished(l) == [l EXCEPT !.calls = @ + l.connections]

(* The page begins a load, which ends at once if it fails early. *)
BeginLoad(l) ==
    /\ begun < MaxLoads                                            \* bound
    /\ begun' = begun + 1
    /\ \E early \in BOOLEAN :
          LET replaced == IF load # 0 THEN Finished(l) ELSE l
          IN  IF early THEN load' = 0 /\ ended' = begun' /\ loader' = Finished(Started(replaced))
                       ELSE /\ load' = begun' /\ loader' = Started(replaced)
                            /\ ended' = IF load # 0 THEN load ELSE ended
    /\ UNCHANGED page

-------------------------------------------------------------------------------
(* The driver. *)

Wait(kind) == task' = [pc |-> kind, before |-> begun] /\ answer' = "none" /\ UNCHANGED late
Done(a) == task' = NoTask /\ late' = FALSE /\ answer' = a /\ loader' = NoLoader

(* Mutant: the loop is entered whether or not a load has begun. *)
AlwaysWaits(kind) ==
    /\ task.pc = "idle" /\ page = "open"
    /\ BeginLoad(Listens) \/ (loader' = Listens /\ UNCHANGED pages)
    /\ Wait(kind)

(* loadPage or reloadPage, and the loop that follows if the loader heard of *)
(* a start by then (isLoading).                                             *)
LoadPage(kind) ==
    /\ task.pc = "idle" /\ page = "open"
    /\ \/ /\ BeginLoad(Listens)
          /\ Wait(kind)
       \/ Done("done") /\ UNCHANGED pages

(* pageLoadFinished quits the loop.  NavigateToURL looks at the clock now; *)
(* Reload does not.  Calls that are still queued go with the loader.       *)
PageLoadFinished ==
    /\ loader.calls > 0
    /\ Done(IF task.pc = "navigate" /\ late THEN "timeout" ELSE "done")
    /\ UNCHANGED pages

(* GoBack and GoForward wait for nothing. *)
GoInHistory ==
    /\ task.pc = "idle" /\ page = "open" /\ BeginLoad(loader)
    /\ answer' = "done"
    /\ UNCHANGED <<task, late>>

(* The script may complete before the loop is entered. *)
ExecuteAsyncScript ==
    /\ task.pc = "idle" /\ page = "open"
    /\ \/ Wait("script") /\ UNCHANGED loader
       \/ Done("done")
    /\ UNCHANGED pages

(* JSNotifier::setResult: the script calls back, or the timer of the atom  *)
(* that runs it, or the atom when the document is unloaded.                *)
SetResult ==
    /\ task.pc = "script" /\ page = "open" /\ Done("done")
    /\ UNCHANGED pages

-------------------------------------------------------------------------------
(* The page and the clock. *)

LoadEnds ==
    /\ page = "open" /\ load # 0
    /\ load' = 0 /\ ended' = load /\ loader' = Finished(loader)
    /\ UNCHANGED <<page, begun, task, late, answer>>

PageBegins == page = "open" /\ BeginLoad(loader) /\ UNCHANGED <<task, late, answer>>

(* The view is closed; nothing is heard of its page any more. *)
PageGoes ==
    /\ page = "open" /\ page' = "gone" /\ load' = 0
    /\ UNCHANGED <<begun, ended, loader, task, late, answer>>

TimePasses ==
    /\ task.pc # "idle" /\ late' = TRUE
    /\ UNCHANGED <<pages, loader, task, answer>>

-------------------------------------------------------------------------------
Next ==
    \/ \E kind \in {"navigate", "reload"} : LoadPage(kind)
    \/ PageLoadFinished \/ GoInHistory \/ ExecuteAsyncScript \/ SetResult
    \/ LoadEnds \/ PageBegins \/ PageGoes \/ TimePasses

Spec == Init /\ [][Next]_vars

(* The UI thread delivers queued calls, a script that runs reports in the  *)
(* end (the timer of the atom that runs it) and the clock goes on.  Nothing *)
(* is assumed of the loads: a server that never completes its answer keeps *)
(* one in progress for good.                                               *)
FairSpec ==
    /\ Spec
    /\ WF_vars(PageLoadFinished) /\ WF_vars(SetResult) /\ WF_vars(TimePasses)

-------------------------------------------------------------------------------
(* Properties. *)

(* QPageLoader: a navigation that waits is not answered before a load has  *)
(* ended that began in it.  The end of a load that was in progress already *)
(* and is replaced by the new one does not count.                          *)
NavigationsAwaitTheirLoad ==
    [][task.pc \in {"navigate", "reload"} /\ task'.pc = "idle" => ended > task.before]_vars

(* QPageLoader: while a navigation waits, there is a call that will end the *)
(* wait, or a load in progress whose end the loader will hear of, whatever  *)
(* loads failed at once, replaced others or ended before the loop was       *)
(* entered.                                                                 *)
NoFinishIsMissed ==
    task.pc \in {"navigate", "reload"} /\ page = "open" =>
        loader.calls > 0 \/ (load # 0 /\ loader.connections > 0)

(* NavigateToURL, Reload, ExecuteAsyncScript: a task that waits for a page *)
(* is answered, unless the page is deleted under it.  A load that never     *)
(* ends is the only thing that keeps a navigation: loads that replace each  *)
(* other do not, nor one that ends before the loop is entered.              *)
WaitsEnd ==
    /\ task.pc = "script" ~> (task.pc = "idle" \/ page = "gone")
    /\ task.pc \in {"navigate", "reload"} ~>
          (task.pc = "idle" \/ page = "gone" \/ [](load # 0))

(* Session::page_load_timeout_, "Timeout (in ms) for page loads.": a        *)
(* navigation that takes longer is answered with a timeout.  The code reads *)
(* the clock after the loop only, and nothing but the end of a load leaves  *)
(* the loop: expected to be violated by a load that never ends.             *)
TimeoutsAreReported ==
    task.pc = "navigate" /\ late ~> (answer = "timeout" \/ page = "gone")
===============================================================================
