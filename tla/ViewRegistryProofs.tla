-------------------------- MODULE ViewRegistryProofs --------------------------
(* Theorems about ViewRegistry for any windows, clients and ids.             *)
EXTENDS ViewRegistry, FiniteSetTheorems, FunctionTheorems, WellFoundedInduction, TLAPS

Pcs == {"idle", "ready", "switch", "find", "close", "closed", "made", "added", "load", "moving"}
Commands == [pc : Pcs, view : Ids \cup {NoView}, old : Ids \cup {NoView},
             made : Windows \cup {NoWindow}]

-------------------------------------------------------------------------------
(* New ids.                                                                  *)

(* A set of numbers that is not empty has a least element.                   *)
LEMMA MinExists ==
    ASSUME NEW S \in SUBSET Nat, S # {}
    PROVE  Min(S) \in S
<1>1. PICK x \in S : \A y \in S : ~(<<y, x>> \in OpToRel(<, Nat))
  BY WFMin, NatLessThanWellFounded, Zenon
<1>2. \A y \in S : x <= y
  <2> SUFFICES ASSUME NEW y \in S PROVE x <= y
    OBVIOUS
  <2>1. ~(y < x)
    BY <1>1, Zenon DEF OpToRel
  <2> QED BY <2>1
<1> QED BY <1>2 DEF Min

LEMMA NewIdIsFresh == FreshIds # {} => NewId \in FreshIds
<1>1. FreshIds \in SUBSET Nat
  BY ViewAssumption DEF FreshIds, Ids
<1> QED BY <1>1, MinExists DEF NewId

(* If there are ids enough, the enumerators can give each window its own.    *)
LEMMA InjectionExists ==
    ASSUME NEW S, NEW T, IsFiniteSet(S), IsFiniteSet(T), Cardinality(S) <= Cardinality(T)
    PROVE  \E f \in [S -> T] : IsInjective(f)
<1> DEFINE n == Cardinality(S)
           m == Cardinality(T)
<1>1. n \in Nat /\ m \in Nat /\ ExistsBijection(1..n, S) /\ ExistsBijection(1..m, T)
  BY FS_CardinalityType
<1>2. PICK g \in Bijection(1..n, S) : TRUE
  BY <1>1 DEF ExistsBijection
<1>3. PICK h \in Bijection(1..m, T) : TRUE
  BY <1>1 DEF ExistsBijection
<1> DEFINE place(s) == CHOOSE i \in 1..n : g[i] = s
           f == [s \in S |-> h[place(s)]]
<1>4. ASSUME NEW s \in S PROVE place(s) \in 1..m /\ g[place(s)] = s
  <2>1. \E i \in 1..n : g[i] = s
    BY <1>2 DEF Bijection, Surjection
  <2>2. place(s) \in 1..n /\ g[place(s)] = s
    BY <2>1
  <2> QED BY <1>1, <2>2
<1> HIDE DEF place
<1>5. f \in [S -> T]
  BY <1>3, <1>4 DEF Bijection, Injection
<1>6. ASSUME NEW s \in S, NEW t \in S, f[s] = f[t] PROVE s = t
  <2>1. place(s) = place(t)
    BY <1>3, <1>4, <1>6 DEF Bijection, Injection, IsInjective
  <2> QED BY <1>4, <2>1
<1> QED BY <1>5, <1>6 DEF IsInjective

-------------------------------------------------------------------------------
(* The elements of views.                                                    *)

LEMMA EnumerationKeepsElements ==
    ASSUME ElementsHaveViews, NEW c, NEW then, NEW b, EnumerateViews(c, then, b)
    PROVE  ElementsHaveViews'
<1>1. PICK S : /\ views' = Restrict(Registered, DOMAIN Registered \ S)
               /\ elements' = elements \ S
  BY DEF EnumerateViews
<1>2. DOMAIN views \subseteq DOMAIN Registered
  BY DEF Registered
<1> QED BY <1>1, <1>2 DEF ElementsHaveViews, Restrict

LEMMA ClosingKeepsElements ==
    ASSUME ElementsHaveViews, NEW v, CloseView(v)
    PROVE  ElementsHaveViews'
BY DEF CloseView, ElementsHaveViews, Restrict

LEMMA ElementsStep == ElementsHaveViews /\ [Next]_vars => ElementsHaveViews'
<1> SUFFICES ASSUME ElementsHaveViews, [Next]_vars PROVE ElementsHaveViews'
  OBVIOUS
<1>1. ASSUME UNCHANGED <<views, elements>> PROVE ElementsHaveViews'
  BY <1>1 DEF ElementsHaveViews
<1>2. ASSUME NEW c \in Clients, Step(c) PROVE ElementsHaveViews'
  <2>1. CASE BeginCommand(c) \/ EnumerateAgain(c) \/ CloseFinish(c)
    BY <2>1, EnumerationKeepsElements DEF BeginCommand, EnumerateAgain, CloseFinish
  <2>2. CASE CloseTask(c) \/ HandleOldView(c)
    BY <2>2, ClosingKeepsElements DEF CloseTask, HandleOldView
  <2>3. CASE FindElements(c)
    BY <2>3 DEF FindElements, Resolves, ElementsHaveViews
  <2>4. CASE RegisterView(c)
    BY <2>4 DEF RegisterView, AddNewView, ElementsHaveViews
  <2>5. CASE EndNavigate(c)
    BY <2>5 DEF EndNavigate, ElementsHaveViews
  <2>6. CASE \/ SwitchTo(c) \/ NoExecutor(c)
             \/ \E v \in DOMAIN views : SwitchToView(c, v)
             \/ \E pc \in {"find", "close"} : TakeExecutor(c, pc)
             \/ \E w \in Windows : CreateView(c, w) \/ BeginNavigate(c, w)
    BY <1>1, <2>6 DEF SwitchTo, NoExecutor, SwitchToView, TakeExecutor, CreateView, BeginNavigate
  <2> QED BY <1>2, <2>1, <2>2, <2>3, <2>4, <2>5, <2>6 DEF Step
<1>3. CASE \E w \in Windows : AppOpens(w) \/ AppCloses(w) \/ AppDeletes(w)
  BY <1>1, <1>3 DEF AppOpens, AppCloses, AppDeletes, AppMoves
<1>4. CASE UNCHANGED vars
  BY <1>1, <1>4 DEF vars
<1> QED BY <1>2, <1>3, <1>4 DEF Next

(* No element handles are left under an id without a view, nor added under   *)
(* one: an element id that a client keeps is refused once its view is gone.  *)
THEOREM ElementsGoWithTheirViews == Spec => []ElementsHaveViews
<1>1. Init => ElementsHaveViews
  BY DEF Init, ElementsHaveViews
<1> QED BY <1>1, ElementsStep, PTL DEF Spec

-------------------------------------------------------------------------------
(* Types.  ReplaceViewHandle and AddNewView store the window of the command  *)
(* that created it: it has one in the states that lead there.                *)

ViewsType == DOMAIN views \subseteq Ids /\ views \in [DOMAIN views -> Windows]
CreatedWindows == \A c \in Clients : cmd[c].pc \in {"made", "moving"} => cmd[c].made \in Windows

TypeInv == TypeOK /\ CreatedWindows

LEMMA TypesOfParts ==
    TypeOK <=> /\ window \in [Windows -> {"unborn", "shown", "hidden", "gone"}]
               /\ ViewsType /\ elements \subseteq Ids /\ current \in Ids
               /\ cmd \in [Clients -> Commands] /\ ended \in BOOLEAN
BY DEF TypeOK, ViewsType, Commands, Pcs

LEMMA IdleIsACommand ==
    ASSUME NEW p \in Pcs, NEW v \in Ids \cup {NoView}
    PROVE  /\ Idle \in Commands /\ [Idle EXCEPT !.pc = p] \in Commands
           /\ [Idle EXCEPT !.pc = p, !.view = v] \in Commands
           /\ \A o \in Ids \cup {NoView}, w \in Windows :
                 [Idle EXCEPT !.pc = p, !.old = o, !.made = w] \in Commands
           /\ \A w \in Windows : [Idle EXCEPT !.pc = p, !.view = v, !.made = w] \in Commands
BY DEF Idle, Commands, Pcs

(* The enumerators keep the ids of the registered windows, and the others    *)
(* get ids that were not in use.                                             *)
LEMMA RegisteredTypes ==
    ASSUME ViewsType, Cardinality(Unregistered) <= Cardinality(FreshIds)
    PROVE  /\ DOMAIN views \subseteq DOMAIN Registered
           /\ \A v \in DOMAIN views : Registered[v] = views[v]
           /\ DOMAIN Registered \subseteq Ids
           /\ Registered \in [DOMAIN Registered -> Windows]
<1> DEFINE new == CHOOSE f \in [Unregistered -> FreshIds] : IsInjective(f)
<1>1. CASE Unregistered = {}
  BY <1>1 DEF Registered, ViewsType
<1>2. CASE Unregistered # {}
  <2>1. IsFiniteSet(Unregistered)
    BY ViewAssumption, FS_Subset DEF Unregistered
  <2>2. IsFiniteSet(FreshIds)
    <3>1. IsFiniteSet(Ids)
      BY ViewAssumption, FS_Interval DEF Ids
    <3> QED BY <3>1, FS_Subset DEF FreshIds
  <2>3. new \in [Unregistered -> FreshIds]
    BY <2>1, <2>2, InjectionExists
  <2>4. Registered = [i \in DOMAIN views \cup Range(new) |->
                        IF i \in DOMAIN views THEN views[i] ELSE CHOOSE w \in Unregistered : new[w] = i]
    BY <1>2 DEF Registered
  <2> HIDE DEF new
  <2>5. Range(new) \subseteq Ids
    BY <2>3 DEF Range, FreshIds
  <2>6. ASSUME NEW i \in Range(new) PROVE (CHOOSE w \in Unregistered : new[w] = i) \in Windows
    <3>1. \E w \in Unregistered : new[w] = i
      BY <2>3 DEF Range
    <3>2. (CHOOSE w \in Unregistered : new[w] = i) \in Unregistered
      BY <3>1
    <3> QED BY <3>2 DEF Unregistered
  <2>7. \A i \in DOMAIN Registered : Registered[i] \in Windows
    BY <2>4, <2>6 DEF ViewsType
  <2> QED BY <2>4, <2>5, <2>7 DEF ViewsType
<1> QED BY <1>1, <1>2

LEMMA EnumerationTypes ==
    ASSUME TypeOK, NEW c \in Clients, NEW then \in Commands, NEW b \in BOOLEAN, EnumerateViews(c, then, b)
    PROVE  TypeOK'
<1>1. Cardinality(Unregistered) <= Cardinality(FreshIds)
  BY DEF EnumerateViews
<1>2. PICK listed, S : /\ views' = Restrict(Registered, DOMAIN Registered \ S)
                       /\ elements' = elements \ S
                       /\ ended' = (b /\ listed = {})
                       /\ cmd' = [cmd EXCEPT ![c] = IF ended' THEN Idle ELSE then]
                       /\ UNCHANGED <<window, current>>
  BY DEF EnumerateViews
<1>3. ViewsType'
  BY <1>1, <1>2, RegisteredTypes, TypesOfParts DEF Restrict, ViewsType
<1>4. ended' \in BOOLEAN
  BY <1>2, Zenon
<1>5. cmd' \in [Clients -> Commands]
  <2>1. Idle \in Commands
    BY IdleIsACommand DEF Pcs
  <2> QED BY <1>2, <2>1, TypesOfParts
<1>6. elements' \subseteq Ids /\ current' \in Ids /\ window' = window
  BY <1>2 DEF TypeOK
<1> QED BY <1>3, <1>4, <1>5, <1>6 DEF TypeOK, ViewsType, Commands, Pcs

LEMMA CloseWidgetTypes ==
    ASSUME window \in [Windows -> {"unborn", "shown", "hidden", "gone"}], NEW w, CloseWidget(w)
    PROVE  window' \in [Windows -> {"unborn", "shown", "hidden", "gone"}]
BY DEF CloseWidget

LEMMA CloseViewTypes ==
    ASSUME TypeOK, NEW v, CloseView(v)
    PROVE  /\ window' \in [Windows -> {"unborn", "shown", "hidden", "gone"}]
           /\ ViewsType' /\ elements' \subseteq Ids
<1>1. CASE Resolves(v)
  BY <1>1, CloseWidgetTypes DEF CloseView, TypeOK, ViewsType, Restrict
<1>2. CASE ~Resolves(v)
  BY <1>2 DEF CloseView, TypeOK, ViewsType
<1> QED BY <1>1, <1>2

(* Done, Go and the like, of one client.                                     *)
LEMMA CommandTypes ==
    ASSUME TypeOK, NEW c \in Clients, NEW k \in Commands, cmd' = [cmd EXCEPT ![c] = k]
    PROVE  cmd' \in [Clients -> Commands]
BY TypesOfParts

LEMMA CommandUpdates ==
    ASSUME NEW k \in Commands, NEW p \in Pcs, NEW v \in Ids \cup {NoView}
    PROVE  [k EXCEPT !.pc = p] \in Commands /\ [k EXCEPT !.view = v] \in Commands
BY DEF Commands

LEMMA StepTypes == ASSUME TypeInv, NEW c \in Clients, Step(c) PROVE TypeOK'
<1> USE DEF TypeInv
<1>1. /\ TypeOK /\ cmd \in [Clients -> Commands] /\ cmd[c] \in Commands /\ ViewsType
      /\ Idle \in Commands /\ NoView \in Ids \cup {NoView}
      /\ \A p \in Pcs : [Idle EXCEPT !.pc = p] \in Commands
      /\ \A p \in Pcs, v \in Ids \cup {NoView} : [Idle EXCEPT !.pc = p, !.view = v] \in Commands
  BY TypesOfParts, IdleIsACommand DEF Pcs
<1>2. Done(c) => cmd' \in [Clients -> Commands]
  BY <1>1, CommandTypes DEF Done
<1>3. ASSUME NEW p \in Pcs, NEW v \in Ids \cup {NoView}, Go(c, p, v) PROVE cmd' \in [Clients -> Commands]
  BY <1>1, <1>3, CommandTypes DEF Go
<1>4. CASE BeginCommand(c) \/ EnumerateAgain(c) \/ CloseFinish(c)
  BY <1>1, <1>4, EnumerationTypes DEF BeginCommand, EnumerateAgain, CloseFinish, Pcs
<1>5. CASE SwitchTo(c) \/ NoExecutor(c) \/ FindElements(c) \/ \E v \in DOMAIN views : SwitchToView(c, v)
  <2>1. current' \in Ids /\ elements' \subseteq Ids
    BY <1>1, <1>5 DEF SwitchTo, NoExecutor, FindElements, SwitchToView, Resolves, TypeOK
  <2>2. cmd' \in [Clients -> Commands]
    <3>1. Done(c) \/ Go(c, "load", NoView)
      BY <1>5 DEF SwitchTo, NoExecutor, FindElements, SwitchToView
    <3>2. "load" \in Pcs
      BY DEF Pcs
    <3> QED BY <1>1, <1>2, <1>3, <3>1, <3>2
  <2>3. UNCHANGED <<window, views, ended>>
    BY <1>5 DEF SwitchTo, NoExecutor, FindElements, SwitchToView
  <2> QED BY <2>1, <2>2, <2>3 DEF TypeOK, Commands, Pcs
<1>6. ASSUME NEW pc \in {"find", "close"}, TakeExecutor(c, pc) PROVE TypeOK'
  <2>1. cmd' \in [Clients -> Commands]
    BY <1>3, <1>6 DEF TakeExecutor, Pcs, TypeOK
  <2> QED BY <1>6, <2>1 DEF TakeExecutor, TypeOK, Commands, Pcs
<1>7. CASE CloseTask(c) \/ HandleOldView(c)
  <2>1. /\ window' \in [Windows -> {"unborn", "shown", "hidden", "gone"}]
        /\ ViewsType' /\ elements' \subseteq Ids
    BY <1>1, <1>7, CloseViewTypes DEF CloseTask, HandleOldView
  <2>2. cmd' \in [Clients -> Commands]
    <3>1. cmd[c].view \in Ids \cup {NoView}
      BY <1>1 DEF Commands
    <3>2. Done(c) \/ Go(c, "closed", NoView) \/ Go(c, "switch", cmd[c].view)
      BY <1>7 DEF CloseTask, HandleOldView
    <3>3. "closed" \in Pcs /\ "switch" \in Pcs
      BY DEF Pcs
    <3> QED BY <1>1, <1>2, <1>3, <3>1, <3>2, <3>3
  <2>3. UNCHANGED <<current, ended>>
    BY <1>7 DEF CloseTask, HandleOldView
  <2> QED BY <2>1, <2>2, <2>3 DEF TypeOK, ViewsType, Commands, Pcs
<1>8. ASSUME NEW w \in Windows, CreateView(c, w) \/ BeginNavigate(c, w) PROVE TypeOK'
  <2>1. cmd' \in [Clients -> Commands]
    <3>1. /\ [Idle EXCEPT !.pc = "made", !.old = current, !.made = w] \in Commands
          /\ [Idle EXCEPT !.pc = "moving", !.view = current, !.made = w] \in Commands
      BY IdleIsACommand DEF Pcs, TypeOK
    <3> QED BY <1>1, <1>8, <3>1, CommandTypes DEF CreateView, BeginNavigate
  <2>2. window' \in [Windows -> {"unborn", "shown", "hidden", "gone"}]
    BY <1>8 DEF CreateView, BeginNavigate, TypeOK
  <2>3. UNCHANGED <<views, elements, current, ended>>
    BY <1>8 DEF CreateView, BeginNavigate
  <2> QED BY <2>1, <2>2, <2>3 DEF TypeOK, Commands, Pcs
<1>9. CASE RegisterView(c)
  <2>1. NewId \in Ids
    BY <1>9, NewIdIsFresh DEF RegisterView, FreshIds
  <2>2. ViewsType'
    BY <1>1, <1>9, <2>1 DEF RegisterView, AddNewView, ViewsType, CreatedWindows, At
  <2>3. cmd' \in [Clients -> Commands]
    <3>1. CASE cmd' = [cmd EXCEPT ![c].pc = "added", ![c].view = NewId]
      <4> DEFINE k == [cmd[c] EXCEPT !.pc = "added"]
                 l == [k EXCEPT !.view = NewId]
      <4>0. "added" \in Pcs /\ NewId \in Ids \cup {NoView}
        BY <2>1 DEF Pcs
      <4>1. k \in Commands
        BY <1>1, <4>0, CommandUpdates
      <4>2. l \in Commands
        <5> HIDE DEF k
        <5> QED BY <4>0, <4>1, CommandUpdates
      <4>3. cmd' = [cmd EXCEPT ![c] = l]
        BY <1>1, <3>1
      <4> HIDE DEF k, l
      <4> QED BY <1>1, <4>2, <4>3
    <3>2. CASE Go(c, "switch", NewId)
      BY <1>3, <2>1, <3>2 DEF Pcs
    <3> QED BY <1>9, <3>1, <3>2 DEF RegisterView
  <2> QED BY <1>9, <2>2, <2>3 DEF RegisterView, TypeOK, ViewsType, Commands, Pcs
<1>10. CASE EndNavigate(c)
  <2>1. cmd[c].made \in Windows
    BY <1>10 DEF EndNavigate, At, CreatedWindows
  <2>2. ViewsType'
    BY <1>1, <1>10, <2>1 DEF EndNavigate, ViewsType
  <2>3. window' \in [Windows -> {"unborn", "shown", "hidden", "gone"}] /\ ended' \in BOOLEAN
    BY <1>10, CloseWidgetTypes DEF EndNavigate, TypeOK
  <2>4. cmd' \in [Clients -> Commands]
    BY <1>2, <1>10 DEF EndNavigate
  <2>5. UNCHANGED <<elements, current>>
    BY <1>10 DEF EndNavigate
  <2> QED BY <2>2, <2>3, <2>4, <2>5 DEF TypeOK, ViewsType, Commands, Pcs
<1> QED BY <1>4, <1>5, <1>6, <1>7, <1>8, <1>9, <1>10 DEF Step

LEMMA TypeStep == TypeInv /\ [Next]_vars => TypeOK'
<1> SUFFICES ASSUME TypeInv, [Next]_vars PROVE TypeOK'
  OBVIOUS
<1>1. ASSUME NEW w \in Windows, AppOpens(w) \/ AppCloses(w) \/ AppDeletes(w) PROVE TypeOK'
  BY <1>1 DEF AppOpens, AppCloses, AppDeletes, AppMoves, TypeInv, TypeOK
<1>2. CASE UNCHANGED vars
  BY <1>2 DEF vars, TypeInv, TypeOK
<1> QED BY <1>1, <1>2, StepTypes DEF Next

LEMMA CreatedStep == TypeInv /\ [Next]_vars => CreatedWindows'
<1> SUFFICES ASSUME TypeInv, [Next]_vars, NEW c \in Clients, cmd'[c].pc \in {"made", "moving"}
             PROVE  cmd'[c].made \in Windows
  BY DEF CreatedWindows
<1>1. /\ cmd \in [Clients -> Commands] /\ cmd[c] \in Commands
      /\ (cmd[c].pc \in {"made", "moving"} => cmd[c].made \in Windows)
  BY TypesOfParts DEF TypeInv, CreatedWindows
<1>2. ASSUME cmd'[c] = cmd[c] PROVE cmd'[c].made \in Windows
  BY <1>1, <1>2
<1>3. ASSUME NEW d \in Clients, Step(d), d # c PROVE cmd'[c] = cmd[c]
  BY <1>1, <1>3
  DEF Step, BeginCommand, EnumerateAgain, CloseFinish, EnumerateViews, SwitchTo, SwitchToView, NoExecutor,
      FindElements, CloseTask, RegisterView, HandleOldView, EndNavigate, TakeExecutor, CreateView,
      BeginNavigate, Done, Go
<1>4. ASSUME NEW w \in Windows, CreateView(c, w) \/ BeginNavigate(c, w) PROVE cmd'[c].made \in Windows
  BY <1>1, <1>4 DEF CreateView, BeginNavigate, Idle
<1>5. ASSUME Step(c), ~\E w \in Windows : CreateView(c, w) \/ BeginNavigate(c, w) PROVE FALSE
  <2>1. Idle.pc = "idle"
    BY DEF Idle
  <2>2. ~Done(c)
    <3> SUFFICES ASSUME Done(c) PROVE FALSE
      OBVIOUS
    <3>1. cmd'[c] = Idle
      BY <1>1 DEF Done
    <3> QED BY <2>1, <3>1
  <2>3. \A p, v : Go(c, p, v) => p \in {"made", "moving"}
    <3> SUFFICES ASSUME NEW p, NEW v, Go(c, p, v) PROVE p \in {"made", "moving"}
      OBVIOUS
    <3>1. cmd'[c] = [Idle EXCEPT !.pc = p, !.view = v]
      BY <1>1 DEF Go
    <3>2. cmd'[c].pc = p
      BY <3>1 DEF Idle
    <3> QED BY <3>2
  <2>4. ASSUME NEW then, NEW b, then.pc \notin {"made", "moving"}, EnumerateViews(c, then, b) PROVE FALSE
    <3>1. PICK e : cmd' = [cmd EXCEPT ![c] = IF e THEN Idle ELSE then]
      BY <2>4 DEF EnumerateViews
    <3>2. cmd'[c] = IF e THEN Idle ELSE then
      BY <1>1, <3>1
    <3>3. cmd'[c] = Idle \/ cmd'[c] = then
      BY <3>2
    <3> QED BY <2>1, <2>4, <3>3
  <2>5. ~(BeginCommand(c) \/ EnumerateAgain(c) \/ CloseFinish(c))
    <3>1. [Idle EXCEPT !.pc = "ready"].pc = "ready" /\ \A p : [Idle EXCEPT !.pc = p].pc = p
      BY DEF Idle
    <3>2. ~BeginCommand(c)
      BY <2>4, <3>1 DEF BeginCommand
    <3>3. ~EnumerateAgain(c)
      BY <2>4, <3>1 DEF EnumerateAgain
    <3>4. ~CloseFinish(c)
      BY <2>1, <2>4 DEF CloseFinish
    <3> QED BY <3>2, <3>3, <3>4
  <2>6. ~(SwitchTo(c) \/ NoExecutor(c) \/ FindElements(c) \/ EndNavigate(c))
    BY <2>2, <2>3 DEF SwitchTo, NoExecutor, FindElements, EndNavigate
  <2>7. ~\E v \in DOMAIN views : SwitchToView(c, v)
    BY <2>2 DEF SwitchToView
  <2>8. ~\E pc \in {"find", "close"} : TakeExecutor(c, pc)
    BY <2>3 DEF TakeExecutor
  <2>9. ~(CloseTask(c) \/ HandleOldView(c))
    BY <2>2, <2>3 DEF CloseTask, HandleOldView
  <2>10. ~RegisterView(c)
    <3>1. cmd' # [cmd EXCEPT ![c].pc = "added", ![c].view = NewId]
      <4> SUFFICES ASSUME cmd' = [cmd EXCEPT ![c].pc = "added", ![c].view = NewId] PROVE FALSE
        OBVIOUS
      <4>1. cmd'[c].pc = "added"
        BY <1>1 DEF Commands
      <4> QED BY <4>1
    <3> QED BY <2>3, <3>1 DEF RegisterView
  <2> QED BY <1>5, <2>5, <2>6, <2>7, <2>8, <2>9, <2>10 DEF Step
<1>6. CASE \E w \in Windows : AppOpens(w) \/ AppCloses(w) \/ AppDeletes(w)
  BY <1>2, <1>6 DEF AppOpens, AppCloses, AppDeletes, AppMoves
<1>7. CASE UNCHANGED vars
  BY <1>2, <1>7 DEF vars
<1> QED BY <1>2, <1>3, <1>4, <1>5, <1>6, <1>7 DEF Next

LEMMA TypeInit == Init => TypeInv
<1> SUFFICES ASSUME Init PROVE TypeInv
  OBVIOUS
<1>1. 1 \in Ids
  BY ViewAssumption DEF Ids
<1>2. window \in [Windows -> {"unborn", "shown", "hidden", "gone"}]
  BY DEF Init
<1>3. ViewsType /\ elements \subseteq Ids /\ current \in Ids
  BY <1>1, ViewAssumption DEF Init, ViewsType
<1>4. cmd \in [Clients -> Commands] /\ CreatedWindows
  BY IdleIsACommand DEF Init, Pcs, CreatedWindows, Idle
<1>5. ended \in BOOLEAN
  BY Zenon DEF Init
<1> QED BY <1>2, <1>3, <1>4, <1>5, TypesOfParts DEF TypeInv

(* Every id of the session has a window that the application made, and the   *)
(* current view is an id, though not always one that still exists.           *)
THEOREM TypeCorrect == Spec => []TypeOK
<1>1. TypeInv /\ [Next]_vars => TypeInv'
  BY TypeStep, CreatedStep DEF TypeInv
<1>2. TypeInv => TypeOK
  BY DEF TypeInv
<1> QED BY <1>1, <1>2, TypeInit, PTL DEF Spec

-------------------------------------------------------------------------------
(* Ids of open windows.                                                      *)

LEMMA EnumerationKeepsIds ==
    ASSUME TypeOK, NEW c, NEW then, NEW b, EnumerateViews(c, then, b),
           NEW v \in DOMAIN views, window[views[v]] = "shown"
    PROVE  (v \in DOMAIN views' /\ views'[v] = views[v]) \/ (v \notin DOMAIN views' /\ views[v] \in Range(views'))
<1>1. PICK listed \in Listings(Registered) :
        \E S \in Erased(DOMAIN Registered \ listed) : views' = Restrict(Registered, DOMAIN Registered \ S)
  BY DEF EnumerateViews
<1>2. PICK S \in Erased(DOMAIN Registered \ listed) : views' = Restrict(Registered, DOMAIN Registered \ S)
  BY <1>1
<1>3. v \in DOMAIN Registered /\ Registered[v] = views[v] /\ views[v] \in Windows
  BY RegisteredTypes, TypesOfParts DEF EnumerateViews, ViewsType
<1>4. CASE v \notin S
  BY <1>2, <1>3, <1>4 DEF Restrict
<1>5. CASE v \in S
  <2> DEFINE shown == {w \in Windows : window[w] = "shown"}
  <2>1. PICK g \in [shown -> DOMAIN Registered] :
          listed = Range(g) /\ \A w \in shown : Registered[g[w]] = w
    BY <1>1 DEF Listings
  <2>2. views[v] \in shown
    BY <1>3
  <2>3. g[views[v]] \in DOMAIN Registered \ S
    BY <1>2, <2>1, <2>2 DEF Erased, Range
  <2>4. views'[g[views[v]]] = views[v] /\ g[views[v]] \in DOMAIN views'
    BY <1>2, <2>1, <2>2, <2>3 DEF Restrict
  <2>5. v \notin DOMAIN views'
    BY <1>2, <1>5 DEF Restrict
  <2> QED BY <2>4, <2>5 DEF Range
<1> QED BY <1>4, <1>5

LEMMA IdsStep == TypeOK /\ [Next]_vars => [IdsAreKept]_vars
<1> SUFFICES ASSUME TypeOK, Next, NEW v \in DOMAIN views, window[views[v]] = "shown"
             PROVE  \/ v \in DOMAIN views' /\ views'[v] = views[v]
                    \/ v \notin DOMAIN views' /\ (Closing(v) \/ views[v] \in Range(views'))
                    \/ \E c \in Clients : cmd[c].pc = "moving" /\ cmd[c].view = v
  BY DEF IdsAreKept
<1> DEFINE Goal == \/ v \in DOMAIN views' /\ views'[v] = views[v]
                   \/ v \notin DOMAIN views' /\ (Closing(v) \/ views[v] \in Range(views'))
                   \/ \E c \in Clients : cmd[c].pc = "moving" /\ cmd[c].view = v
<1>1. CASE UNCHANGED views
  BY <1>1
<1>2. ASSUME NEW c \in Clients, BeginCommand(c) \/ EnumerateAgain(c) \/ CloseFinish(c) PROVE Goal
  BY <1>2, EnumerationKeepsIds DEF BeginCommand, EnumerateAgain, CloseFinish
<1>3. ASSUME NEW c \in Clients, CloseTask(c) PROVE Goal
  BY <1>3 DEF CloseTask, CloseView, InTask, At, Closing, Restrict
<1>4. ASSUME NEW c \in Clients, HandleOldView(c) PROVE Goal
  BY <1>4 DEF HandleOldView, CloseView, InTask, At, Closing, Restrict
<1>5. ASSUME NEW c \in Clients, RegisterView(c) PROVE Goal
  <2>1. v # NewId
    BY <1>5, NewIdIsFresh DEF RegisterView, FreshIds, Referred
  <2> QED BY <1>5, <2>1 DEF RegisterView, AddNewView
<1>6. ASSUME NEW c \in Clients, EndNavigate(c) PROVE Goal
  BY <1>6 DEF EndNavigate, At
<1>7. ASSUME NEW c \in Clients, Step(c), ~UNCHANGED views PROVE Goal
  <2>1. ~(SwitchTo(c) \/ NoExecutor(c) \/ FindElements(c))
    BY <1>7 DEF SwitchTo, NoExecutor, FindElements
  <2>2. ~\E u \in DOMAIN views : SwitchToView(c, u)
    BY <1>7 DEF SwitchToView
  <2>3. ~\E pc \in {"find", "close"} : TakeExecutor(c, pc)
    BY <1>7 DEF TakeExecutor
  <2>4. ~\E w \in Windows : CreateView(c, w) \/ BeginNavigate(c, w)
    BY <1>7 DEF CreateView, BeginNavigate
  <2> QED BY <1>2, <1>3, <1>4, <1>5, <1>6, <1>7, <2>1, <2>2, <2>3, <2>4 DEF Step
<1>8. CASE \E w \in Windows : AppOpens(w) \/ AppCloses(w) \/ AppDeletes(w)
  BY <1>1, <1>8 DEF AppOpens, AppCloses, AppDeletes, AppMoves
<1> QED BY <1>1, <1>7, <1>8 DEF Next

(* An open window does not lose its id to an enumeration, to the             *)
(* registration of another window, or to a command on another view.          *)
THEOREM OpenWindowsKeepTheirIds == Spec => OpenViewsKeepTheirIds
<1>1. TypeInv /\ [Next]_vars => TypeInv'
  BY TypeStep, CreatedStep DEF TypeInv
<1>2. TypeInv /\ [Next]_vars => [IdsAreKept]_vars
  BY IdsStep DEF TypeInv
<1> QED BY <1>1, <1>2, TypeInit, PTL DEF Spec, OpenViewsKeepTheirIds
===============================================================================
