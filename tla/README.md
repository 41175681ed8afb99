# Formal model of QtWebDriver

TLA+ modules, TLC configurations and TLAPS proofs about QtWebDriver, the WebDriver
server that runs inside a Qt application. The reference is the C++ code under `src/`;
`PROJECT.json` maps every definition to the lines it stands for.

## The system

An application links the driver and starts `Server`. Four kinds of thread take part:

* **HTTP workers** of the vendored mongoose pool (four by default) read a request,
  find its route and run a `Command` from `Init` through `Execute...` to `Finish`;
* a **session thread** per `Session`, a Chromium `base::Thread`, receives the tasks
  that commands post with `Session::RunSessionTask`;
* the **UI thread** runs those tasks, handed over with a blocking queued
  `QMetaObject::invokeMethod`; a task may spin a nested `QEventLoop`;
* the **application's main** configures, starts and stops the server, usually on the
  UI thread.

### Inventory

| Component | State | Operations | Interacts with | What makes it correct |
|---|---|---|---|---|
| Session manager | map from id to raw `Session*`, a lock | Add, Remove, Has, GetSession, GetSessions | every command | never returns freed memory; holds the sessions that exist |
| Session lifetime | the object, its thread, the saved proxy, capabilities | construct, Init, PostInit, Terminate (`delete this`) | manager, application proxy, all commands of the session | no use after free; one session; the proxy restored; no leak on an error path |
| Command framework | session pointer of a command | Init, Execute, Finish | manager, session, executors | a failed Init runs nothing else; a command that ends its session does not use it |
| Session and UI threads | message loop, UI event queue, nested loops | post, invoke, run, wake, signal, wait | workers, UI | a synchronous call in order; no deadlock; no interleaving within a session |
| Route table | ordered vector of patterns | AddRoute, Remove, Clear, GetRouteForURL | server, extensions of the application | the best match answers, whatever the order of registration |
| HTTP server | `STATE_*`, options, routes, mongoose context | Configure, Start, Stop, Reset, dispatch | pool, sessions, logs | legal state changes; Stop ends all sessions and terminates; Reset forgets the options |
| Mongoose pool | ring of accepted sockets, thread states, stop flag | accept, produce, consume, stop | server | no connection lost or served twice; nothing freed under a thread; stop ends |
| Shutdown command | none | quits the UI loop, stops the server | server, UI thread | ends |
| Views and elements | `views_`, `elements_`, current view | add, replace, remove, update, enumerate, find | executors, enumerators, windows of the application | an open window keeps its id; ids of dead ones go; elements go with their view |
| View executors | none of their own | close, switch, find, click, type... | widgets, pages | touch only live handles |
| Frames | frame path and frame elements of a session, ids of the page's frames | switch, check, find by path | pages, view commands | a command acts in the frame that was chosen, or in the main frame after its loss is noticed |
| Page loads and scripts | `QPageLoader`, `JSNotifier`, nested loops | navigate, reload, run scripts | UI loop, the page | waits for its own load; waits end; timeouts are kept |
| Timeouts and element search | implicit wait, page-load timeout | set, poll | pages, UI loop | a search ends; a late load is reported |
| Logging | global logs, per-session list | Log, GetLog | all threads | no entry lost or delivered twice |
| Input synthesis | sticky modifiers, mouse position | keys, mouse, touch | executors, uinput, VNC | modifiers and buttons are balanced |
| Access control, capabilities, values | configuration | check, parse, convert | server, session | the documented function |

### Behaviours that are hard to test

Sessions are raw pointers that delete themselves while other workers may use them; the
check for an existing session and its creation are not atomic; the application-wide
proxy is changed half way through an initialisation that can still fail; tasks nest in
the UI thread through nested event loops; every wait but the nested loops' timers is
unbounded; the master of the pool broadcasts without the mutex; shutdown stops the pool
from inside the pool; views are registered after they became visible to enumeration, and
stale ones are erased through an invalid iterator; frames go away between their check and
their use; a page ends loads that nobody waits for. `PROJECT.json` lists each hazard at
its line, with the properties that cover it or the reason why none does.

## Modules

| Module | Models | Kind |
|---|---|---|
| `SessionLifecycle` | session manager, session lifetime, command framework, window commands | state machine |
| `SyncCall` | what a command may believe of `RunSessionTask` | abstract specification |
| `SessionTask` | `RunSessionTask`, session threads, UI thread, nested event loops | state machine, implements `SyncCall` |
| `RouteMap` | a map from patterns to command creators | abstract specification |
| `RouteTable` | `RouteTable` with its matching functions | state machine, implements `RouteMap` |
| `SocketQueue` | a bounded queue that hands every connection to one worker | abstract specification |
| `HttpPool` | mongoose's master thread, workers, ring of sockets, `mg_stop` | state machine, implements `SocketQueue` |
| `Server` | `Configure`, `Start`, `Stop`, `Reset`, requests, the shutdown command | composes `HttpPool` with the sessions and the UI thread |
| `ViewRegistry` | views, elements, current view, enumeration; the commands that open, choose, replace and close views | state machine |
| `PageFrames` | frame path, its check, finding frames, element search with the implicit wait | state machine |
| `PageLoads` | navigations, reloads, asynchronous scripts and their nested loops | state machine |
| `KeyInput` | conversion of keys to key events, sticky modifiers | state machine over functions |

For each of them (the abstract ones apart) `MC<module>` holds its instances for TLC, and
`<module>Proofs` its theorems: `SessionLifecycleProofs`, `SessionTaskProofs`,
`RouteTableProofs`, `ServerProofs`, `ViewRegistryProofs`, `PageFramesProofs`,
`PageLoadsProofs` and `KeyInputProofs`. `ServerProofs` has the theorems about `HttpPool` as well.

### SessionLifecycle

`map` is `SessionManager::map_`, `obj` the C++ object behind each id (`unborn`, `live`,
`freed`), `current` the `current_view_id_`, `saved` the proxy a session saved, `proxy`
the application's. `windows` are the top-level windows on the screen, which the
application opens and closes as it likes. Each HTTP worker has a program counter and
the locals of its handler: `ref` is the `Session*` on its stack, `snap` the copy that
`GetSessions` returned, `ret` where `Terminate` returns to.

One action is one task in the UI thread together with the code the worker runs until
its next one: a worker is preempted between any two tasks of a command, and between
the steps of `Terminate`. This grain is justified by the code: inside a task the UI
thread is the only one that touches windows. `UseAfterFree` is enabled when a worker
is about to use a session that has been freed; after it C++ promises nothing and the
model stops.

`MayOverlap` is a constant: which requests the clients leave in flight together. The
driver has no lock that would refuse an overlap, so what is safe depends on it.
`CarefulClients` is a discipline that suffices: two commands of one session do not
overlap (any of them may find no window and end the session), a creation does not
overlap another, and `reuseUI` and `GET /sessions`, which touch all sessions, overlap
nothing. `FreeClients` overlaps anything. The discipline excludes the races between workers that
`PROJECT.json` lists for this component (a session deleted under another worker's pointer, two
creations past the check together); it does not show that the code survives them, and it does not.
What `NoUseAfterFree` checks under it is that a command whose own `Init`, `Execute` or `Finish` ends
its session does not touch it afterwards.

The commands of the wire protocol fall into the few kinds in `SessionKinds`, by what
they do to the session and the windows; the many that act on a page or a widget are
the action `ExecuteView`.

### SessionTask

Per worker: whether it waits, on which session, and its `done_event`. Per session
thread: its message loop, the task it runs and whether it is blocked in
`invokeMethod`. The UI thread has an event queue and a stack of tasks; a task on the
stack `loops` while it is in its nested event loop. `RunTask` starts the next task if
the innermost one loops; `Quit` ends a loop, and `FinishTask` can only end the innermost
task. Session threads do not end here.

`SyncCall` is the abstract specification: calls of a session run one at a time in the
order they were made, return after their body ran once, and nested bodies end innermost
first. The refinement mapping computes the phase of a call from the event, the session
thread and the UI queue; `PostTask` is `Call`, `RunTask` is `Enter`, `FinishTask` is
`Leave`, `Return` is `Return`, and the steps of the session thread and `Quit` stutter.

### RouteTable

Patterns and URLs are sequences of segments; `Star` is `*`. `CompareBestMatch` and
`Matches` are the loops of the code with the same name, written as quantifiers over
positions. `Registrable` is the outcome of the standard-route and custom-prefix check.

### HttpPool

`live` says whether the `mg_context` is allocated; `stop_flag`, `queue`, `sq_head` and `sq_tail`
are its fields, with the ring's own arithmetic: the indices grow beyond the size and `Pop` takes
both back together. `master` and `worker` are program counters, `accepted` and `client` the
sockets in the threads' hands. `HasOneOwner` says where an open connection is: the master's
hand, one slot between tail and head, or one worker's hand, and in no two of them. `sock` is
`lost` when a socket is still open in the process and nobody will close it: what `mg_stop`
leaves in the ring.

A critical section is one action, but for the one that ends in a wait: `FindNothing` tests the
queue and the flag, `FallAsleep` gives the mutex back. In between `MutexFree` is false, and
`StopWorkers`, the master's broadcast at its stop, does not ask for it (`mongoose.c` 4086-4148).
A worker that falls asleep after that broadcast has `Overslept`; nobody wakes it.

### Server

It extends `HttpPool`. `state_`, `routeTable_`, `url_base_` and `accessList` are what
`Configure`, `Reset`, `Start` and `Stop` assign; `given` remembers the last options. A request
has a `phase`, a `job` (the kinds of command that differ for a server that stops) and a
`target`. A creation looks for a session (`CheckNoSession`) and registers one (`ExecuteCreate`)
in two steps, as in the code; `reuseUI`, which ends the session that is found, is in
`SessionLifecycle` only. `Stop` runs in the application's thread or in the worker of a shutdown
command; it takes a copy `snap` of the session map, then raises the flag, waits for the pool,
and closes the sessions of the copy. `created` are the sessions registered since the
application's `Stop` took its copy: the code misses these, and `StopClosesSessions` says that no
others survive. `NoSession` in a copy is a pointer to a session that has been deleted since;
closing it sets `ub`, after which the model stops. `ui` is `quit` once the shutdown command has
called `QApplication::quit`; `UiRuns` is false too while the UI thread itself is inside `Stop`.
`ProcessExit` is `main` returning from `exec`.

### ViewRegistry

`views` and `elements` are the session's maps, `current` its current view, `window` the state
of each window of the application. `EnumerateViews` is one task: it registers shown windows
that have no id, reports one id of every shown window, and calls `UpdateViews`. That one erases
the entry its iterator stands on and increments it afterwards; what it erases is the choice in
`Erased`: at least the first stale view, of the others any. A command is a sequence of tasks;
between them a worker step may register the window it has created (`RegisterView`), which an
enumeration of another client can have registered already. A navigation of a widget view is one
task with a nested loop in it (`BeginNavigate`, `EndNavigate`) over which it keeps a plain
pointer; that this pointer dangles when the application deletes the widget is modelled as a
crash that may or may not happen (`ended`).

`POST /url` of a url that the current view cannot handle opens and registers a window, closes the
old one, switches to the new one (`SwitchTo`), and then, without another enumeration, goes on as
the command it wraps (`load`): a navigation of what is the current view by then.

The views are those of widgets, QML and Quick, whose executors look the id up again in each task.
The executor of a web view keeps a plain pointer from when it was made, tested against null only;
a use of it after the view was deleted is a hazard in `PROJECT.json` that nothing here covers.

Ids are random strings in the program and the maps are ordered by them; here the order is
unknown, and a new id is the least number that nothing refers to. A window that was closed is
not shown again.

### PageFrames

`path` and `elements` are `current_frame_path_` and `frame_elements_`; `frameId` is the property
that every `QWebFrame` carries. `GetFrame` walks the path as `FindFrameByPath` does, passing
over ids that no child has, and falls back to the main frame. A command checks its frames in one
task (`CheckFrames`; a failing script goes on to `GetAlertMessage`) and acts in another
(`ready`). `FindElements` keeps its frame over a search of several attempts; `Attempt` after the
frame was deleted may crash. An element of `elements` is `stale` when its document was replaced
and `deleted` when the `QWebFrame` that got the id was, which taking the iframe out does: put
back, it is a new frame without an id, and `GetFrame` falls back to the main one. `NoOtherFrame`
allows that; `PathsLeadUnlessDeleted` says that nothing else leads astray. The page changes by
itself between any two steps: `Navigate`, `Detach`, `Attach`.

### PageLoads

`load`, `begun` and `ended` number the loads of a page; `loader` is the `QPageLoader`: whether
it listens, how many connections to `loadFinished` it made (one per start it hears of) and how
many calls are queued. `task` waits in its nested loop. A load that replaces another makes that
one end first: this is QtWebKit's behaviour, external to the driver. `late` says that more than
`page_load_timeout` has passed; the code looks at the clock in `PageLoadFinished` only, and only
for a navigation. A load may go on for ever, and its navigation with it: `WaitsEnd` excepts this
case, and `TimeoutsAreReported`, what the timeout is documented to be for, is violated by it. If
the page is deleted under a task nobody ends its loop. The timer of an asynchronous script is in
the JavaScript atom, which reports to the `JSNotifier` (`SetResult`). A timeout set by another
client in the middle of a navigation is not modelled.

### KeyInput

`ConvertKeys` is the loop of `ConvertKeysToWebKeyEvents`, written as a recursive function of the
number of keys converted. `SendKeys` starts from `sticky` and
leaves it as the keys do; `SendKeysToElement` starts from no modifiers, ends with the null key
and leaves `sticky` alone. `held` is what each window has seen: `EndsDown` says that the last of
the first `n` events of a key is a press. The session has one `sticky` for all its windows, kept by
`SwitchToView`; `forgotten` are the keys of a window that were released while another was current,
which the session does not know any more. `OneKeyRelease` is the build
option of `wd_build_options.gypi` 137-139.

## Runs

| Run | Bounds | States | Shows |
|---|---|---|---|
| `SessionCareful` | 2 workers, 3 sessions, 1 window | 629 thousand | with `CarefulClients`: no use after free, one session, proxy restored, truthful answers, and every request answered |
| `SessionFree` | 2 workers, 2 sessions, 2 windows | 2.1 million | with any overlap: truthful answers about ended sessions and an accurate manager, until a freed session is used |
| `Tasks` | 4 workers, 3 sessions | 142 thousand | tasks of one session do not nest; a thread is blocked exactly while it has a task; `SessionTask` implements `SyncCall`; every call returns |
| `Routes` | 7 patterns, 12 URLs, 2 creators | 2.3 thousand | the vector stays ordered, the first match is the best; the table implements `RouteMap`, operation by operation |
| `Pool` | 2 workers, ring of 2, 3 sockets | 120 thousand | no thread outlives the context; every connection has one owner; the ring implements `SocketQueue`; connections are answered; `mg_stop` returns unless a worker overslept |
| `Server` | 2 workers, queue of 1, 2 sockets, 1 session | 252 thousand | routes outlive requests; `state_` agrees with the pool; which sessions can survive a `Stop`; every reason why it does not return, and which of them are final |
| `ServerReset` | 1 worker, 1 socket, 1 base, 1 list | stops at the violation | a server configured again keeps options of the last time |
| `Views` | 2 windows, 2 clients, 4 ids | 405 thousand | elements go with views; open windows keep their ids; dead ones vanish |
| `Frames` | 3 iframes (one nested), 2 clients, paths of 3, 5 ids, wait of 1 | 1.0 million | no command lands in another frame, nor in the main one unless a frame of the path was deleted; searches end |
| `Loads` | 5 loads | 466 | no end of a load is missed; navigations wait for a load of their own; waits end if the loads do |
| `LoadTimeout` | 2 loads | stops at the violation | a navigation whose load never ends is not answered when its timeout has passed |
| `Keys` | 2 windows, 2 modifiers, 2 texts, 3 keys | 11 thousand | the session knows every pressed modifier of a window but for those released while another was current; characters end released |

**Findings.** `ServerReset` and `LoadTimeout` each check one sentence of the documentation that
the code does not keep; `PROJECT.json` quotes it. The counterexample of `LoadTimeout` is a load that
never ends: nothing is assumed of loads, and the clock is read only after the nested loop. Two more
disagreements have no run of their own. The comment in `create_session.cc:49` says that there can
be a single session, and the code guarantees it only if creations do not overlap: `SingleSession`
is checked with clients that do not, and theorem `OneSessionAtATime` is that condition. The comment
in `webdriver_command.cc:156` means a failed check of the frames to be returned when no message box
is open; `GetAlertMessage` writes to one variable and `Init` reads another, so the command is always
carried out, as `GetAlertMessage` of `PageFrames` has it.

**Bounds.** Two workers give every pairwise race; three sessions let one session be created
after another was replaced and a third while the second ends; two windows distinguish the
current window from another. Session ids are never used again, so `Sessions` bounds how many
sessions are created and creation stops there; this is the only unnatural deadlock in
`SessionFree`, which also stops after a use of a freed session (`CHECK_DEADLOCK FALSE`). In
`SessionCareful` the environment's windows keep the system moving and deadlock is checked. Four
workers on three sessions make tasks nest three deep with a call queued behind another. The
patterns of `Routes` have the wildcard in every position, share URLs in every combination, and
include a shorter and a refused one. In `Pool` a ring of two fills, wraps, and has the master
wait for room, while both workers serve or sleep. In `Server` one worker can stop the pool while
another waits for the UI thread; the application may be the UI thread or not. One session id is
enough for a session to be deleted and its successor to be missed by `Stop`, as ids are used
again in this module; two ids give 887 thousand states and the same results, and take four
minutes. In `Views` a window can be registered twice while another goes stale; `MaxId` bounds
the ids in use together, not over time. In `Frames` a path of three ids can hold an id of an
iframe that was replaced above another. The loads of `Loads` can replace each other and fail
early in every order. In `Keys` three keys repeat, toggle and release, and two windows are
enough to forget a key of one in the other.

The systems of `Pool`, `Server`, `Views`, `Frames` and `Loads` may stop by right (nobody has to
start a server, a crash ends the process, a window does not come back, a page is deleted), so
deadlock is not checked there; that the ones that matter do not stop is what their liveness
properties say.

**Symmetry** is used in `SessionFree` (workers, sessions, windows) and in `Keys` (windows, texts):
the members of each set are interchangeable, the actions and invariants do not distinguish them, and
no `CHOOSE` ranges over them. Runs with a liveness property use none.

**Fairness.**

* `SessionLifecycle`: weak fairness of each worker's steps. The operating system runs its
  threads and a task in the UI thread returns, which is what `CallsReturn` of `SessionTask`
  shows. Clients and windows are under no obligation.
* `SessionTask`: weak fairness of every thread, and of `Quit`, that a nested loop is told to
  quit. For the loops with a timer (showing a window, synthesising input, the implicit wait) the
  code guarantees it; for page loads and scripts `WaitsEnd` of `PageLoads` gives the conditions.
* `HttpPool`, `Server`: strong fairness where a thread needs the mutex, because a mutex is not
  fair but free again and again; weak fairness of the handlers, of `mg_stop`'s polling loop and
  of `Stop`. There are no spurious wakeups to rely on, no fairness of `BodyArrives` (a client
  need not send its body), and none of the application's calls.
* `ViewRegistry`: weak fairness of `Step(c)`. It says that threads run and that clients keep
  sending commands, as one that polls does; `DeletedViewsVanish` needs the latter, because
  only commands enumerate.
* `PageFrames`: weak fairness of `Attempt`, the timer of the polling loop.
* `PageLoads`: weak fairness of the delivery of queued calls, of the atom's timer and of the clock.
  Nothing is assumed of `LoadEnds`: a server that does not complete its answer keeps a load going.

## Proofs

TLAPS checks every theorem for any values of the constants that satisfy the modules' `ASSUME`s:
nulls are not values (the application's own proxy is none that a session makes), the order of
the modifiers names each once, the sessions (`SessionTask`), workers (`HttpPool`) and windows
(`ViewRegistry`) are finitely many, patterns and URLs are finite sequences, bounds are numbers.

* `SessionLifecycleProofs`
  * `TypeCorrect`. `TypeOK` is not inductive by itself, because `Terminate` reads through
    `ref`; `Held` adds that a worker in the middle of a command holds a session.
  * `ManagerIsAccurate`: `ManagerMatchesObjects` for any clients. Whoever is about to destroy
    a session has removed it from the map.
  * `OneSessionAtATime`: if `MayOverlap` refuses two creations, there is one session at a time.
    The strengthening says that a worker past the check for an existing session is the only
    creator, and that the map holds at most the session it has made.
  * `CarefulClientsAreSafe`: under `CarefulClients`, no freed session is used. The inductive
    invariant gives every session at most one worker that may delete it, and an id that is
    being created is known to nobody else.
  * `GoneIsGone`: `GoneWhenAnswered` for any clients. Its strengthening `GoneInv` follows the two
    ways to such an answer: the id was not in the map when the answer was set, or its session is in
    the hands of `Terminate`, which takes the id out before it returns. No constructor uses it
    again, because an id that a client can name was born (`AnnouncedWereBorn`).
  * `ProxyIsRestored`, under `CarefulClients`. `ProxyInv` says that a changed proxy is that of a
    session in the map which remembers the application's, and that a session which is being
    initialised or destroyed remembers nothing. It needs `OneSessionAtATime`: with two sessions,
    one would save the proxy of the other.
  * `CreationsAreAnswered`, under `CarefulClients`. `CreatorInv`: a redirect on its way is for a
    session in the map, of which no client was told yet.
* `SessionTaskProofs`
  * `TasksDoNotNest` and `ThreadsBlockUntilRun`, proved together: each needs the other. A session
    whose thread is not blocked has no task in the UI thread, so the task posted by `Invoke` is
    its only one, and the stack never holds a session twice.
  * `TypeCorrect` includes the bound on the depth of the stack, by the pigeonhole principle from
    `TasksDoNotNest`.
  * `CallsAreSynchronous`: `Spec => IsSynchronousCall`, the safety part of `SyncCall`. The
    invariant `CallInv` says that the call of a session thread and those queued for it are calls
    their workers still wait for, each once. Then the mapping is computed action by action
    (`SyncStep`): the line of a session loses its head exactly when the event is signalled, and
    the nest gains and loses its innermost member when a task starts and ends.
* `RouteTableProofs`
  * `TypeCorrect`, and `TableIsWellOrdered`: the step that inserts needs that `CompareBestMatch` is
    transitive and asymmetric (lemmas `BetterIsTransitive`, `BetterIsAsymmetric`).
  * `LookupFindsBestMatch`: two patterns that match one URL are comparable
    (`MatchesAreComparable`), so in an ordered vector the first match is better than the others.
  * `TableIsAMap`: `Spec => IsRouteMap`. No pattern stands twice in an ordered vector
    (`NoneTwice`), so the pattern has one creator; an insertion anywhere and a removal anywhere leave
    the entries of the other patterns (`SameBut`), wherever these stand afterwards.
* `ServerProofs`, of the pool
  * `PoolTypeCorrect`: the head is never more than a ring ahead of the tail.
  * `ContextIsSafe`: a context is freed, or its locks destroyed, only when all threads have ended.
  * `ConnectionsHaveOneOwner`: an open connection is in one slot or in the hand of one thread, from
    `RingInv` (each socket at one index of the ring, one hand at most) and that no connection is lost
    (`EveryConnectionIsHeld`). For the latter the strengthening `HandsAreEmpty` says that threads
    hold sockets only where their program counters say so. Pushing and popping keep the others in the ring
    (`PushKeepsTheOthers`, `PopKeepsTheOthers`), which is arithmetic modulo the size for indices
    below twice the size (`SlotValue`).
  * `RingIsAQueue`: `PoolSpec => IsSocketQueue`. `PushLine` and `PopLine` show that the two
    operations on slots append to and take from the sequence that the ring stands for; `RingInv`
    that a socket is in one place: the master's hand, one slot, or one worker's.
* `ServerProofs`, of the server. `ServerInv` is the invariant for all of it: `HandlersServe` (a
  handler runs in a worker that serves, so the pool cannot end around it) and `Lifetimes` (what
  exists in which `state_`, and that a raised flag belongs to a `Stop` under way).
  * `TypeCorrect`, `RoutesOutlive` and `StateIsThePools` follow from it.
  * `ServerRunsItsPool`: `Spec => PoolSpec`. `Start` and `Stop` use the pool as its actions allow, so
    the theorems about the pool hold in the server.
  * `StopLeavesNoSession`, an action property: the copy of the session map misses no session but
    those `created` since (`CopyIsGood`), and only the application's `Stop` ever gets as far as to
    close sessions (`OnlyAppCloses`).
  * `DeadlocksStay`, an action property: each of the deadlocks is final, one case per action that
    could undo it.
* `ViewRegistryProofs`
  * `ElementsGoWithTheirViews`, which is inductive by itself.
  * `TypeCorrect`, with the strengthening `CreatedWindows`: a command between creating a window and
    registering it holds that window. That an enumeration finds enough new ids is the lemma
    `InjectionExists`, from the cardinalities.
  * `OpenWindowsKeepTheirIds`: an action property, one case per action; the enumeration reports
    an id of every shown window and erases only what it did not report.
* `PageFramesProofs`
  * `TypeCorrect`, with the page's tree closed upwards under `Removes` (`BelowIsClosed`).
  * `PathsLeadToNoOtherFrame`: the strengthening `IdsNameTheirFrames` says that an id on the path
    that a frame still carries is the id of the iframe element beside it.
  * `LivePathsLead`: on a path of frames that all live, each frame carries its id and is the parent
    of the next, so the walk finds one child at each step.
* `PageLoadsProofs`
  * `TypeCorrect`, and `NavigationsWait` with the strengthening `LoaderHears`: a loader with a
    connection has heard of a start after the task began, and a queued call comes from the end
    of such a load. `FinishesAreHeard`: as long as a navigation waits, its end is still to come.
* `KeyInputProofs`
  * `TypeCorrect`, `HeldModifiersAreKnown` and `CharactersAreReleased`, for commands of any length
    and any modifiers. The state of the loop after `i` keys satisfies `Converted`: modifiers that
    end down are among the modifiers so far, a character ends down only before another of the same,
    releases follow presses. `KeyAdds` shows what one key adds, `Grown` how `EndsDown` of two
    sequences of events follows from theirs. The library's induction over numbers cannot be
    used with these provers; `UpTo` gets it for a set of numbers from the least element that is
    missing, and `Iterates` from that the existence of the loop's function.

**Proved and in no run of its own:** the type invariants of `HttpPool`, `SessionTask`,
`RouteTable` and `PageLoads`; the runs of these modules are left to the properties that say more.

**Only model-checked:** the liveness properties, which are out of the prover's reach:
`RequestsAnswered`, `CallsReturn`, `ConnectionsAnswered`, `StopReturnsUnlessOverslept`, `StopEnds`,
`DeletedViewsVanish`, `SearchesEnd` and `WaitsEnd`. All other properties of
the passing runs are theorems; `SingleSession`, `NoUseAfterFree`, `ProxyRestored` and
`CreateAnswered` under the condition on the clients that their runs have.

## Plan

1. *Done:* session lifetime, session tasks, route table, pool, server, views, frames, page
   loads, key input.
2. *Done:* the proofs of every safety property, action property and refinement that a run checks.
3. **Models to come, if they earn it:** the session's mouse position and buttons beside
   `KeyInput`; single elements under `ViewRegistry`; the end of a session thread with tasks
   still queued, and the order in which `Session`'s members are destroyed; the whitelist as a
   function.

## Not modelled, and why

Logging: entries are written under a lock and read without one, and nothing in the repository
says what a reader may rely on. Capabilities and parameters of commands: a client's dictionary
is parsed or refused, and the models take that as a choice. Access control is a pure function of
an address and a file. Mouse and touch input, and the uinput and VNC transports, write to
devices. Alerts, cookies and geometry evaluate a script or forward to a page and keep no state
of the driver; visualizers and screenshots render. The enumerators of graphics scenes, QML and
Quick windows repeat the one for widgets. Vendored code (Chromium base, mongoose beyond its pool,
pugixml, DES, MIME types) enters only through what the driver relies on. The sample applications
and the web front end are not part of the driver. Qt's widgets and pages are the environment.

## Running

    tlc -workers 2 -config SessionCareful.cfg MCSessionLifecycle.tla
    tlapm SessionLifecycleProofs.tla
