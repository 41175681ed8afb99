--------------------------- MODULE PageLoadsProofs ---------------------------
(* Theorems about PageLoads for any number of loads.                         *)
EXTENDS PageLoads, TLAPS

Waiting == task.pc \in {"navigate", "reload"}

(* The loader hears of loads only that began after the task did, and the     *)
(* queued calls tell of such loads only.                                     *)
LoaderHears ==
    /\ ~Waiting => loader = NoLoader
    /\ loader.connections > 0 => (Waiting /\ begun > task.before)
    /\ Waiting => loader.listening /\ loader.connections > 0
    /\ loader.calls > 0 => (Waiting /\ ended > task.before)

Inv == TypeOK /\ LoaderHears /\ NoFinishIsMissed

LoaderType == [listening : BOOLEAN, connections : Nat, calls : Nat]

LEMMA LoaderSignals ==
    ASSUME NEW l \in LoaderType
    PROVE  /\ Started(l) \in LoaderType /\ Finished(l) \in LoaderType
           /\ Started(l).calls = l.calls /\ Finished(l).connections = l.connections
           /\ Finished(l).calls = l.calls + l.connections
           /\ l.listening => Started(l).connections = l.connections + 1
           /\ ~l.listening => Started(l) = l
           /\ Started(l).listening = l.listening /\ Finished(l).listening = l.listening
BY DEF LoaderType, Started, Finished

(* A load begins while a loader listens.                                     *)
LEMMA BeginLoadTypes ==
    ASSUME TypeOK, NEW l \in LoaderType, BeginLoad(l)
    PROVE  /\ begun' = begun + 1 /\ begun' \in 0..MaxLoads /\ load' \in {0, begun'}
           /\ ended' \in 0..begun' /\ ended' >= ended /\ loader' \in LoaderType
           /\ page' = page
           /\ l.listening => (loader'.listening /\ loader'.connections = l.connections + 1)
           /\ l.listening => (load' # 0 \/ loader'.calls > 0)
           /\ \/ loader'.calls = l.calls
              \/ ended' = begun'
              \/ l.connections > 0 /\ load # 0 /\ ended' = load
<1>1. begun' = begun + 1 /\ begun' \in 0..MaxLoads
  BY LoadAssumption DEF TypeOK, BeginLoad
<1> DEFINE r == IF load # 0 THEN Finished(l) ELSE l
<1>2. PICK early \in BOOLEAN :
         IF early THEN load' = 0 /\ ended' = begun' /\ loader' = Finished(Started(r))
                  ELSE load' = begun' /\ loader' = Started(r) /\ ended' = IF load # 0 THEN load ELSE ended
  BY DEF BeginLoad
<1>3. /\ r \in LoaderType /\ r.connections = l.connections /\ r.listening = l.listening
      /\ r.calls = IF load # 0 THEN l.calls + l.connections ELSE l.calls
  BY LoaderSignals
<1> HIDE DEF r
<1>4. /\ Started(r) \in LoaderType /\ Finished(Started(r)) \in LoaderType
      /\ Started(r).calls = r.calls
      /\ Finished(Started(r)).calls = Started(r).calls + Started(r).connections
      /\ Finished(Started(r)).connections = Started(r).connections
      /\ r.listening => Started(r).connections = r.connections + 1
      /\ Started(r).listening = r.listening /\ Finished(Started(r)).listening = r.listening
  BY <1>3, LoaderSignals
<1>5. load' \in {0, begun'} /\ ended' \in 0..begun' /\ loader' \in LoaderType
  BY <1>1, <1>2, <1>4 DEF TypeOK
<1>6. l.listening => (loader'.listening /\ loader'.connections = l.connections + 1)
  BY <1>2, <1>3, <1>4
<1>7. page' = page
  BY DEF BeginLoad
<1>10. l.listening => (load' # 0 \/ loader'.calls > 0)
  <2>1. CASE early
    <3>1. loader' = Finished(Started(r))
      BY <1>2, <2>1
    <3>2. r.calls \in Nat /\ r.connections \in Nat
      BY <1>3 DEF LoaderType
    <3> QED BY <1>3, <1>4, <3>1, <3>2
  <2>2. CASE ~early
    <3>1. load' = begun'
      BY <1>2, <2>2
    <3> QED BY <1>1, <3>1 DEF TypeOK
  <2> QED BY <2>1, <2>2
<1>8. ended' >= ended
  <2>1. begun + 1 >= ended /\ (load # 0 => load >= ended) /\ ended \in Nat
    BY <1>1 DEF TypeOK
  <2>2. CASE early
    BY <1>1, <1>2, <2>1, <2>2
  <2>3. CASE ~early
    <3>1. ended' = IF load # 0 THEN load ELSE ended
      BY <1>2, <2>3
    <3> QED BY <2>1, <3>1
  <2> QED BY <2>2, <2>3
<1>9. \/ loader'.calls = l.calls
      \/ ended' = begun'
      \/ l.connections > 0 /\ load # 0 /\ ended' = load
  <2>1. CASE early
    <3>1. ended' = begun'
      BY <1>2, <2>1
    <3> QED BY <3>1
  <2>2. CASE ~early
    <3>1. loader'.calls = IF load # 0 THEN l.calls + l.connections ELSE l.calls
      BY <1>2, <1>3, <1>4, <2>2
    <3>2. ended' = IF load # 0 THEN load ELSE ended
      BY <1>2, <2>2
    <3>3. l.connections \in Nat /\ l.calls \in Nat
      BY DEF LoaderType
    <3> QED BY <3>1, <3>2, <3>3
  <2> QED BY <2>1, <2>2
<1> QED BY <1>1, <1>5, <1>6, <1>7, <1>8, <1>9, <1>10

LEMMA InvInit == Init => Inv
<1> SUFFICES ASSUME Init PROVE Inv
  OBVIOUS
<1>1. late \in BOOLEAN
  BY Zenon DEF Init
<1>2. /\ page \in {"open", "gone"} /\ begun \in 0..MaxLoads /\ load \in {0, begun} /\ ended \in 0..begun
      /\ answer \in {"none", "done", "timeout"}
  BY LoadAssumption DEF Init
<1>3. loader = NoLoader /\ loader \in LoaderType /\ loader.connections = 0 /\ loader.calls = 0
  BY DEF Init, NoLoader, LoaderType
<1>4. task \in [pc : {"idle", "navigate", "reload", "script"}, before : 0..begun] /\ ~Waiting
  BY <1>2 DEF Init, NoTask, Waiting
<1> QED BY <1>1, <1>2, <1>3, <1>4 DEF Inv, TypeOK, LoaderHears, LoaderType, NoFinishIsMissed, Waiting

LEMMA InvStep == Inv /\ [Next]_vars => Inv'
<1> SUFFICES ASSUME Inv, [Next]_vars PROVE Inv'
  OBVIOUS
<1>1. /\ TypeOK /\ LoaderHears /\ NoFinishIsMissed /\ loader \in LoaderType /\ NoLoader \in LoaderType
      /\ Listens \in LoaderType /\ Listens.listening /\ Listens.connections = 0 /\ Listens.calls = 0
      /\ ~NoLoader.listening /\ NoLoader.connections = 0 /\ NoLoader.calls = 0
  BY DEF Inv, TypeOK, LoaderType, NoLoader, Listens
<1>2. ASSUME NEW a \in {"done", "timeout"}, Done(a), UNCHANGED pages PROVE Inv'
  <2>1. loader' = NoLoader /\ task' = NoTask /\ answer' = a /\ UNCHANGED <<page, load, begun, ended>>
    BY <1>2 DEF Done, pages
  <2>2. late' \in BOOLEAN
    BY <1>2, Zenon DEF Done
  <2>3. task' \in [pc : {"idle", "navigate", "reload", "script"}, before : 0..begun'] /\ ~Waiting'
    BY <1>1, <2>1 DEF NoTask, Waiting, TypeOK
  <2> QED BY <1>1, <2>1, <2>2, <2>3 DEF Inv, TypeOK, LoaderHears, LoaderType, NoFinishIsMissed, Waiting
<1>3. ASSUME NEW kind \in {"navigate", "reload"}, LoadPage(kind) PROVE Inv'
  <2>1. CASE BeginLoad(Listens) /\ Wait(kind)
    <3>1. /\ begun' = begun + 1 /\ begun' \in 0..MaxLoads /\ load' \in {0, begun'}
          /\ ended' \in 0..begun' /\ loader' \in LoaderType /\ page' = page
          /\ loader'.listening /\ loader'.connections = 1 /\ (loader'.calls = 0 \/ ended' = begun')
          /\ (load' # 0 \/ loader'.calls > 0)
      BY <1>1, <2>1, BeginLoadTypes
    <3>2. task' = [pc |-> kind, before |-> begun] /\ answer' = "none" /\ late' = late
      BY <2>1 DEF Wait
    <3>3. TypeOK'
      BY <1>1, <3>1, <3>2 DEF TypeOK, LoaderType
    <3>4. LoaderHears'
      BY <1>1, <3>1, <3>2 DEF TypeOK, LoaderHears, Waiting
    <3>5. NoFinishIsMissed'
      BY <3>1 DEF NoFinishIsMissed
    <3> QED BY <3>3, <3>4, <3>5 DEF Inv
  <2> QED BY <1>2, <1>3, <2>1 DEF LoadPage
<1>4. CASE PageLoadFinished
  BY <1>2, <1>4 DEF PageLoadFinished
<1>5. CASE GoInHistory \/ PageBegins
  <2>1. BeginLoad(loader) /\ task' = task /\ late' = late /\ answer' \in {answer, "done"}
    BY <1>5 DEF GoInHistory, PageBegins
  <2>2. /\ begun' = begun + 1 /\ begun' \in 0..MaxLoads /\ load' \in {0, begun'}
        /\ ended' \in 0..begun' /\ ended' >= ended /\ loader' \in LoaderType /\ page' = page
    BY <1>1, <2>1, BeginLoadTypes
  <2>3. TypeOK'
    BY <1>1, <2>1, <2>2 DEF TypeOK, LoaderType
  <2>4. CASE ~Waiting
    <3>1. loader = NoLoader /\ Finished(NoLoader) = NoLoader /\ Started(NoLoader) = NoLoader
      BY <1>1, <2>4 DEF LoaderHears, Finished, Started, NoLoader
    <3>2. loader' = NoLoader
      BY <2>1, <3>1 DEF BeginLoad
    <3> QED BY <1>1, <2>1, <2>3, <2>4, <3>2 DEF Inv, LoaderHears, NoFinishIsMissed, Waiting
  <2>5. CASE Waiting
    <3>1. /\ loader.listening /\ loader.connections > 0 /\ begun > task.before
          /\ (loader.calls > 0 => ended > task.before)
      BY <1>1, <2>5 DEF LoaderHears
    <3>2. /\ loader'.listening /\ loader'.connections = loader.connections + 1
          /\ (load' # 0 \/ loader'.calls > 0)
          /\ \/ loader'.calls = loader.calls
             \/ ended' = begun'
             \/ load # 0 /\ ended' = load
      BY <1>1, <2>1, <3>1, BeginLoadTypes
    <3>3. task.before \in Nat /\ begun \in Nat /\ ended \in Nat /\ load \in {0, begun} /\ loader.connections \in Nat
      BY <1>1 DEF TypeOK, LoaderType
    <3>4. loader'.calls > 0 => ended' > task.before
      BY <2>2, <3>1, <3>2, <3>3
    <3>5. begun' > task.before /\ loader'.connections > 0
      BY <2>2, <3>1, <3>2, <3>3
    <3>6. NoFinishIsMissed'
      BY <3>2, <3>5 DEF NoFinishIsMissed
    <3> QED BY <2>1, <2>3, <2>5, <3>2, <3>4, <3>5, <3>6 DEF Inv, LoaderHears, Waiting
  <2> QED BY <2>4, <2>5
<1>6. CASE ExecuteAsyncScript
  <2>1. CASE Wait("script") /\ UNCHANGED loader /\ UNCHANGED pages /\ task.pc = "idle"
    <3>1. task' = [pc |-> "script", before |-> begun] /\ answer' = "none" /\ late' = late
          /\ loader' = loader /\ UNCHANGED <<page, load, begun, ended>>
      BY <2>1 DEF Wait, pages
    <3>2. ~Waiting /\ ~Waiting'
      BY <2>1, <3>1 DEF Waiting
    <3>3. TypeOK'
      BY <1>1, <3>1 DEF TypeOK, LoaderType
    <3> QED BY <1>1, <3>1, <3>2, <3>3 DEF Inv, LoaderHears, NoFinishIsMissed, Waiting
  <2> QED BY <1>2, <1>6, <2>1 DEF ExecuteAsyncScript
<1>7. CASE SetResult
  BY <1>2, <1>7 DEF SetResult
<1>8. CASE LoadEnds
  <2>1. /\ load # 0 /\ load' = 0 /\ ended' = load /\ loader' = Finished(loader)
        /\ UNCHANGED <<page, begun, task, late, answer>>
    BY <1>8 DEF LoadEnds
  <2>2. TypeOK'
    BY <1>1, <2>1, LoaderSignals DEF TypeOK, LoaderType
  <2>3. CASE ~Waiting
    <3>1. loader = NoLoader /\ Finished(NoLoader) = NoLoader
      BY <1>1, <2>3 DEF LoaderHears, Finished, NoLoader
    <3> QED BY <1>1, <2>1, <2>2, <2>3, <3>1 DEF Inv, LoaderHears, NoFinishIsMissed, Waiting
  <2>4. CASE Waiting
    <3>1. loader.listening /\ loader.connections > 0 /\ begun > task.before /\ load = begun
      BY <1>1, <2>1, <2>4 DEF LoaderHears, TypeOK
    <3>2. /\ Finished(loader).listening = loader.listening
          /\ Finished(loader).connections = loader.connections
          /\ Finished(loader).calls = loader.calls + loader.connections
      BY <1>1, LoaderSignals
    <3>3. Finished(loader).calls > 0
      BY <1>1, <3>1, <3>2 DEF LoaderType
    <3> QED BY <2>1, <2>2, <2>4, <3>1, <3>2, <3>3 DEF Inv, LoaderHears, NoFinishIsMissed, Waiting
  <2> QED BY <2>3, <2>4
<1>9. CASE PageGoes \/ TimePasses \/ UNCHANGED vars
  BY <1>1, <1>9 DEF PageGoes, TimePasses, vars, pages, Inv, TypeOK, LoaderHears, NoFinishIsMissed, Waiting
<1> QED BY <1>3, <1>4, <1>5, <1>6, <1>7, <1>8, <1>9 DEF Next

(* Types: the load in progress is the last one begun.                        *)
THEOREM TypeCorrect == Spec => []TypeOK
<1>1. Inv => TypeOK
  BY DEF Inv
<1> QED BY <1>1, InvInit, InvStep, PTL DEF Spec

(* A navigation that waits is never left without an end to wait for: a load  *)
(* that failed at once, or was replaced, has left a call in the queue.       *)
THEOREM FinishesAreHeard == Spec => []NoFinishIsMissed
<1>1. Inv => NoFinishIsMissed
  BY DEF Inv
<1> QED BY <1>1, InvInit, InvStep, PTL DEF Spec

(* A navigation is answered by the end of a load of its own, however many    *)
(* loads the page was at, and however often another replaced them.           *)
THEOREM NavigationsWait == Spec => NavigationsAwaitTheirLoad
<1>1. ASSUME Inv, [Next]_vars
      PROVE  [task.pc \in {"navigate", "reload"} /\ task'.pc = "idle" => ended > task.before]_vars
  <2> SUFFICES ASSUME task.pc \in {"navigate", "reload"}, task'.pc = "idle" PROVE ended > task.before
    OBVIOUS
  <2>1. CASE PageLoadFinished
    BY <1>1, <2>1 DEF PageLoadFinished, Inv, LoaderHears
  <2>2. ASSUME NEW kind \in {"navigate", "reload"}, LoadPage(kind) PROVE FALSE
    BY <2>2 DEF LoadPage
  <2>3. CASE ExecuteAsyncScript \/ SetResult \/ GoInHistory
    BY <2>3 DEF ExecuteAsyncScript, SetResult, GoInHistory
  <2>4. CASE LoadEnds \/ PageBegins \/ PageGoes \/ TimePasses \/ UNCHANGED vars
    BY <2>4 DEF LoadEnds, PageBegins, PageGoes, TimePasses, vars
  <2> QED BY <1>1, <2>1, <2>2, <2>3, <2>4 DEF Next
<1> QED BY <1>1, InvInit, InvStep, PTL DEF Spec, NavigationsAwaitTheirLoad
===============================================================================
