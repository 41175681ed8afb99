--------------------------- MODULE PageFramesProofs ---------------------------
(* Theorems about PageFrames for any tree of iframes, any number of clients  *)
(* and any bounds.                                                           *)
EXTENDS PageFrames, SequenceTheorems, WellFoundedInduction, TLAPS

ElementHandles == [frame : Frames, stale : BOOLEAN, deleted : BOOLEAN]
Pcs == {"idle", "alert", "ready", "timeout", "search"}
Commands == [pc : Pcs,
             frame : Frames \cup {Main}, dead : BOOLEAN,
             ticks : 0..(MaxWait + 1)]

-------------------------------------------------------------------------------
(* Helpers.                                                                  *)

(* What goes when a frame or its document goes is closed downwards.          *)
LEMMA BelowIsClosed ==
    ASSUME NEW d \in Frames \cup {Main}, NEW f \in Frames,
           ParentOf[f] = d \/ ParentOf[f] \in Below[d]
    PROVE  f \in Below[d]
BY DEF Below

LEMMA FramesExist == TypeOK => GetFrame(path) \in Frames \cup {Main}
BY DEF GetFrame, Descend, ChildrenWithId, TypeOK

LEMMA HandleUpdate ==
    ASSUME NEW e \in ElementHandles, NEW b \in BOOLEAN, NEW d \in BOOLEAN
    PROVE  /\ [e EXCEPT !.stale = b, !.deleted = d] \in ElementHandles
           /\ [e EXCEPT !.stale = b, !.deleted = d].frame = e.frame
BY DEF ElementHandles

LEMMA CommandUpdate ==
    ASSUME NEW k \in Commands
    PROVE  /\ \A p \in Pcs : [k EXCEPT !.pc = p] \in Commands
           /\ \A b \in BOOLEAN : [k EXCEPT !.dead = b] \in Commands
           /\ \A f \in Frames \cup {Main} : [k EXCEPT !.frame = f] \in Commands
           /\ \A t \in 0..(MaxWait + 1) : [k EXCEPT !.ticks = t] \in Commands
BY DEF Commands

(* A command of one client gets to another place. *)
LEMMA GoTypes ==
    ASSUME cmd \in [Clients -> Commands], NEW c \in Clients, NEW p \in Pcs, Go(c, p)
    PROVE  cmd' \in [Clients -> Commands]
<1> DEFINE k == [cmd[c] EXCEPT !.pc = p]
<1>1. k \in Commands
  BY CommandUpdate
<1>2. cmd' = [cmd EXCEPT ![c] = k]
  BY DEF Go
<1> HIDE DEF k
<1> QED BY <1>1, <1>2

LEMMA ToTopTypes ==
    ASSUME ToTop
    PROVE  path' \in Seq(Ids) /\ elements' \in Seq(ElementHandles) /\ Len(path') = Len(elements')
BY EmptySeq DEF ToTop

LEMMA RemovesTypes ==
    ASSUME TypeOK, NEW gone \in SUBSET Frames, NEW lost \in SUBSET Frames, Removes(gone, lost),
           \A f \in Frames : ParentOf[f] \in gone => f \in gone
    PROVE  TypeOK'
<1> USE DEF TypeOK
<1>1. \A f \in attached' : ParentOf[f] \in attached' \cup {Main}
  BY DEF Removes
<1>2. frameId' \in [Frames -> Ids \cup {NoId}]
  BY DEF Removes
<1>3. elements' \in Seq(ElementHandles) /\ Len(elements') = Len(elements)
  <2> DEFINE e(i) == [elements[i] EXCEPT !.stale   = @ \/ elements[i].frame \in lost,
                                         !.deleted = @ \/ elements[i].frame \in gone]
  <2>1. elements \in Seq(ElementHandles) /\ Len(elements) \in Nat
    BY LenProperties DEF ElementHandles
  <2>2. ASSUME NEW i \in 1..Len(elements) PROVE e(i) \in ElementHandles
    <3>1. elements[i] \in ElementHandles
      BY <2>1, ElementOfSeq
    <3>2. (elements[i].stale \/ elements[i].frame \in lost) \in BOOLEAN
      BY <3>1, Zenon DEF ElementHandles
    <3>3. (elements[i].deleted \/ elements[i].frame \in gone) \in BOOLEAN
      BY <3>1, Zenon DEF ElementHandles
    <3> QED BY <3>1, <3>2, <3>3, HandleUpdate
  <2>3. elements' = [i \in 1..Len(elements) |-> e(i)]
    BY <2>1, LenProperties DEF Removes
  <2> HIDE DEF e
  <2>4. elements' \in Seq(ElementHandles)
    BY <2>1, <2>2, <2>3, IsASeq
  <2> QED BY <2>1, <2>3, <2>4, LenProperties
<1>4. cmd' \in [Clients -> Commands]
  <2> DEFINE k(c) == [cmd[c] EXCEPT !.dead = @ \/ (cmd[c].pc = "search" /\ cmd[c].frame \in gone)]
  <2>1. ASSUME NEW c \in Clients PROVE k(c) \in Commands
    <3>1. cmd[c] \in Commands
      BY DEF Commands, Pcs
    <3>2. (cmd[c].dead \/ (cmd[c].pc = "search" /\ cmd[c].frame \in gone)) \in BOOLEAN
      BY <3>1, Zenon DEF Commands
    <3> QED BY <3>1, <3>2, CommandUpdate
  <2>2. cmd' = [c \in Clients |-> k(c)]
    BY DEF Removes
  <2> HIDE DEF k
  <2> QED BY <2>1, <2>2
<1> QED BY <1>1, <1>2, <1>3, <1>4 DEF Removes, ElementHandles, Commands, Pcs

-------------------------------------------------------------------------------
(* Types.                                                                    *)

LEMMA IdleIsACommand == Idle \in Commands
<1>1. 0 \in 0..(MaxWait + 1)
  BY FrameAssumption
<1> QED BY <1>1, Zenon DEF Idle, Commands, Pcs

LEMMA TypeInit == Init => TypeOK
<1> SUFFICES ASSUME Init PROVE TypeOK
  OBVIOUS
<1>1. attached \subseteq Frames /\ \A f \in attached : ParentOf[f] \in attached \cup {Main}
  BY DEF Init
<1>2. frameId \in [Frames -> Ids \cup {NoId}]
  BY DEF Init
<1>3. path \in Seq(Ids) /\ elements \in Seq(ElementHandles) /\ Len(path) = Len(elements)
  BY EmptySeq DEF Init
<1>4. implicitWait \in 0..MaxWait
  BY FrameAssumption DEF Init
<1>5. cmd \in [Clients -> Commands]
  BY IdleIsACommand DEF Init
<1>6. crashed \in BOOLEAN
  BY Zenon DEF Init
<1> QED BY <1>1, <1>2, <1>3, <1>4, <1>5, <1>6 DEF TypeOK, ElementHandles, Commands, Pcs

LEMMA StepTypes == ASSUME TypeOK, NEW c \in Clients, Step(c) PROVE TypeOK'
<1> USE IdleIsACommand DEF TypeOK, page, session, Ids
<1>1. cmd \in [Clients -> Commands] /\ cmd[c] \in Commands
  BY DEF Commands, Pcs
<1>2. CASE CheckFrames(c)
  <2>1. cmd' \in [Clients -> Commands]
    BY <1>1, <1>2, GoTypes DEF CheckFrames, Pcs
  <2>2. path' \in Seq(Ids) /\ elements' \in Seq(ElementHandles) /\ Len(path') = Len(elements')
    BY <1>2, ToTopTypes DEF CheckFrames, ElementHandles
  <2> QED BY <1>2, <2>1, <2>2 DEF CheckFrames, Commands, Pcs, ElementHandles
<1>3. CASE GetAlertMessage(c)
  <2>1. cmd' \in [Clients -> Commands]
    BY <1>1, <1>3, GoTypes DEF GetAlertMessage, Pcs
  <2> QED BY <1>3, <2>1 DEF GetAlertMessage, Commands, Pcs
<1>4. CASE SwitchToTopFrame(c) \/ SwitchTo(c)
  <2>1. cmd' \in [Clients -> Commands]
    BY <1>1, <1>4 DEF SwitchToTopFrame, SwitchTo, Done
  <2>2. path' \in Seq(Ids) /\ elements' \in Seq(ElementHandles) /\ Len(path') = Len(elements')
    BY <1>4, ToTopTypes DEF SwitchToTopFrame, SwitchTo
  <2> QED BY <1>4, <2>1, <2>2 DEF SwitchToTopFrame, SwitchTo, Commands, Pcs, ElementHandles
<1>5. CASE OtherCommand(c) \/ BeginTimeouts(c)
  <2>1. cmd' \in [Clients -> Commands]
    BY <1>1, <1>5, GoTypes DEF OtherCommand, BeginTimeouts, Done, Pcs
  <2> QED BY <1>5, <2>1 DEF OtherCommand, BeginTimeouts, Commands, Pcs
<1>6. CASE FindElements(c)
  <2>1. [Idle EXCEPT !.pc = "search", !.frame = GetFrame(path)] \in Commands
    <3> DEFINE k == [Idle EXCEPT !.pc = "search"]
    <3>1. k \in Commands
      BY CommandUpdate DEF Pcs
    <3>2. [k EXCEPT !.frame = GetFrame(path)] \in Commands
      <4> HIDE DEF k
      <4> QED BY <3>1, FramesExist, CommandUpdate
    <3> QED BY <3>2
  <2>2. cmd' \in [Clients -> Commands]
    BY <1>1, <1>6, <2>1 DEF FindElements
  <2> QED BY <1>6, <2>2 DEF FindElements, Commands, Pcs
<1>7. CASE Attempt(c)
  <2>1. cmd[c].ticks \in 0..(MaxWait + 1) /\ implicitWait \in 0..MaxWait /\ MaxWait \in Nat
    BY <1>1, FrameAssumption DEF Commands
  <2>2. cmd[c].ticks <= implicitWait => cmd[c].ticks + 1 \in 0..(MaxWait + 1)
    BY <2>1
  <2>3. cmd' \in [Clients -> Commands]
    <3>1. CASE Done(c)
      BY <1>1, <3>1 DEF Done
    <3>2. CASE cmd[c].ticks <= implicitWait /\ cmd' = [cmd EXCEPT ![c].ticks = @ + 1]
      <4> DEFINE k == [cmd[c] EXCEPT !.ticks = @ + 1]
      <4>1. k \in Commands
        BY <1>1, <2>2, <3>2, CommandUpdate
      <4>2. cmd' = [cmd EXCEPT ![c] = k]
        BY <3>2
      <4> HIDE DEF k
      <4> QED BY <1>1, <4>1, <4>2
    <3>3. cmd[c].ticks > implicitWait \/ cmd[c].ticks <= implicitWait
      BY <2>1
    <3> QED BY <1>7, <3>1, <3>2, <3>3 DEF Attempt
  <2>4. crashed' \in BOOLEAN
    BY <1>1, <1>7 DEF Attempt, Commands, Pcs
  <2> QED BY <1>7, <2>3, <2>4 DEF Attempt, Commands, Pcs
<1>8. ASSUME NEW f \in Frames, SwitchToFrame(c, f) PROVE TypeOK'
  <2>1. PICK i \in Ids : path' = Append(path, i) /\ frameId' = [frameId EXCEPT ![f] = i]
    BY <1>8 DEF SwitchToFrame
  <2>2. path' \in Seq(Ids) /\ Len(path') = Len(path) + 1
    BY <2>1, AppendProperties
  <2>3. elements' = Append(elements, [frame |-> f, stale |-> FALSE, deleted |-> FALSE])
    BY <1>8 DEF SwitchToFrame
  <2>4. elements' \in Seq(ElementHandles) /\ Len(elements') = Len(elements) + 1
    <3>1. [frame |-> f, stale |-> FALSE, deleted |-> FALSE] \in ElementHandles
      BY DEF ElementHandles
    <3>2. elements \in Seq(ElementHandles)
      BY DEF ElementHandles
    <3> QED BY <2>3, <3>1, <3>2, AppendProperties
  <2>5. cmd' \in [Clients -> Commands]
    BY <1>1, <1>8 DEF SwitchToFrame, Done
  <2>6. frameId' \in [Frames -> Ids \cup {NoId}]
    BY <2>1
  <2> QED BY <1>8, <2>2, <2>4, <2>5, <2>6 DEF SwitchToFrame, Commands, Pcs, ElementHandles
<1>9. ASSUME NEW ms \in 0..MaxWait, SetImplicitWait(c, ms) PROVE TypeOK'
  <2>1. cmd' \in [Clients -> Commands]
    BY <1>1, <1>9 DEF SetImplicitWait, Done
  <2> QED BY <1>9, <2>1 DEF SetImplicitWait, Commands, Pcs
<1> QED BY <1>2, <1>3, <1>4, <1>5, <1>6, <1>7, <1>8, <1>9 DEF Step

LEMMA PageTypes ==
    ASSUME TypeOK,
           \/ \E d \in Frames \cup {Main} : Navigate(d)
           \/ \E f \in Frames : Detach(f) \/ Attach(f)
    PROVE  TypeOK'
<1>1. ASSUME NEW d \in Frames \cup {Main}, Navigate(d) PROVE TypeOK'
  <2>1. Below[d] \in SUBSET Frames
    BY DEF Below
  <2> QED BY <1>1, <2>1, BelowIsClosed, RemovesTypes DEF Navigate
<1>2. ASSUME NEW f \in Frames, Detach(f) PROVE TypeOK'
  <2>1. {f} \cup Below[f] \in SUBSET Frames /\ Below[f] \in SUBSET Frames
    BY DEF Below
  <2>2. \A g \in Frames : ParentOf[g] \in {f} \cup Below[f] => g \in {f} \cup Below[f]
    BY BelowIsClosed
  <2> QED BY <1>2, <2>1, <2>2, RemovesTypes DEF Detach
<1>3. ASSUME NEW f \in Frames, Attach(f) PROVE TypeOK'
  BY <1>3 DEF Attach, TypeOK, session
<1> QED BY <1>1, <1>2, <1>3

LEMMA TypeStep == TypeOK /\ [Next]_vars => TypeOK'
<1> SUFFICES ASSUME TypeOK, [Next]_vars PROVE TypeOK'
  OBVIOUS
<1>1. CASE UNCHANGED vars
  BY <1>1 DEF vars, page, session, TypeOK
<1> QED BY <1>1, StepTypes, PageTypes DEF Next

(* The path and the frame elements of the session keep the same length, the  *)
(* iframes of the page hang together, and everything keeps its type.         *)
THEOREM TypeCorrect == Spec => []TypeOK
BY TypeInit, TypeStep, PTL DEF Spec

-------------------------------------------------------------------------------
(* Where a path leads.                                                       *)

(* An id of the path, as long as a QWebFrame has it, is that of the frame    *)
(* whose element was pushed with it.                                         *)
IdsNameTheirFrames ==
    \A i \in 1..Len(path) : \A f \in Frames : frameId[f] = path[i] => f = elements[i].frame

LEMMA NamesImplyNoOtherFrame == TypeOK /\ IdsNameTheirFrames => NoOtherFrame
<1> SUFFICES ASSUME TypeOK, IdsNameTheirFrames, path # <<>>, GetFrame(path) # Main
             PROVE  GetFrame(path) = Last(elements).frame
  BY DEF NoOtherFrame
<1>1. PICK d : GetFrame(path) \in ChildrenWithId(d, Last(path))
  BY DEF GetFrame, Descend
<1>2. GetFrame(path) \in Frames /\ frameId[GetFrame(path)] = Last(path)
  BY <1>1 DEF ChildrenWithId, TypeOK
<1>3. Len(path) \in 1..Len(path) /\ Last(path) = path[Len(path)]
  BY LenProperties, EmptySeq DEF TypeOK, Last
<1>4. Last(elements) = elements[Len(path)]
  BY DEF TypeOK, Last
<1> QED BY <1>2, <1>3, <1>4 DEF IdsNameTheirFrames

LEMMA NamesInit == Init => IdsNameTheirFrames
BY DEF Init, IdsNameTheirFrames

LEMMA RemovesKeepsNames ==
    ASSUME TypeOK, IdsNameTheirFrames, NEW gone, NEW lost, Removes(gone, lost)
    PROVE  IdsNameTheirFrames'
<1> SUFFICES ASSUME NEW i \in 1..Len(path), NEW f \in Frames, frameId'[f] = path[i]
             PROVE  f = elements'[i].frame
  BY DEF Removes, IdsNameTheirFrames
<1>1. path[i] \in Ids
  BY ElementOfSeq DEF TypeOK
<1>2. frameId[f] = path[i]
  BY <1>1, FrameAssumption DEF Removes, Ids
<1>3. i \in DOMAIN elements /\ elements[i] \in ElementHandles
  BY LenProperties, ElementOfSeq DEF TypeOK, ElementHandles
<1>4. elements'[i].frame = elements[i].frame
  BY <1>3 DEF Removes, ElementHandles
<1> QED BY <1>2, <1>4 DEF IdsNameTheirFrames

LEMMA NamesStep == TypeOK /\ IdsNameTheirFrames /\ [Next]_vars => IdsNameTheirFrames'
<1> SUFFICES ASSUME TypeOK, IdsNameTheirFrames, [Next]_vars PROVE IdsNameTheirFrames'
  OBVIOUS
<1>1. ASSUME UNCHANGED <<path, elements, frameId>> PROVE IdsNameTheirFrames'
  BY <1>1 DEF IdsNameTheirFrames
<1>2. ASSUME ToTop PROVE IdsNameTheirFrames'
  BY <1>2 DEF ToTop, IdsNameTheirFrames
<1>3. ASSUME NEW c \in Clients, NEW f \in Frames, SwitchToFrame(c, f) PROVE IdsNameTheirFrames'
  <2>1. PICK i \in Ids : /\ i \notin Range(path) \cup Range(frameId)
                         /\ frameId' = [frameId EXCEPT ![f] = i]
                         /\ path' = Append(path, i)
    BY <1>3 DEF SwitchToFrame
  <2>2. elements' = Append(elements, [frame |-> f, stale |-> FALSE, deleted |-> FALSE])
    BY <1>3 DEF SwitchToFrame
  <2>3. SUFFICES ASSUME NEW j \in 1..Len(path'), NEW g \in Frames, frameId'[g] = path'[j]
                 PROVE  g = elements'[j].frame
    BY DEF IdsNameTheirFrames
  <2>4. Len(path) \in Nat /\ Len(path') = Len(path) + 1
    BY <2>1, LenProperties, AppendProperties DEF TypeOK
  <2>5. CASE j = Len(path) + 1
    <3>1. path'[j] = i /\ elements'[j] = [frame |-> f, stale |-> FALSE, deleted |-> FALSE]
      BY <2>1, <2>2, <2>5, AppendProperties DEF TypeOK
    <3>2. g # f => frameId'[g] # i
      BY <2>1 DEF TypeOK, Range
    <3> QED BY <2>3, <3>1, <3>2
  <2>6. CASE j # Len(path) + 1
    <3>1. j \in 1..Len(path)
      BY <2>3, <2>4, <2>6
    <3>2. path'[j] = path[j] /\ elements'[j] = elements[j]
      BY <2>1, <2>2, <3>1, AppendProperties DEF TypeOK
    <3>3. path[j] # i
      BY <2>1, <3>1, LenProperties DEF TypeOK, Range
    <3>4. frameId[g] = path[j]
      BY <2>1, <2>3, <3>2, <3>3 DEF TypeOK
    <3> QED BY <3>1, <3>2, <3>4 DEF IdsNameTheirFrames
  <2> QED BY <2>5, <2>6
<1>4. ASSUME NEW c \in Clients, Step(c) PROVE IdsNameTheirFrames'
  BY <1>1, <1>2, <1>3, <1>4
  DEF Step, CheckFrames, GetAlertMessage, SwitchToTopFrame, SwitchTo, OtherCommand, FindElements,
      Attempt, BeginTimeouts, SetImplicitWait, page, session
<1>5. ASSUME NEW d \in Frames \cup {Main}, Navigate(d) PROVE IdsNameTheirFrames'
  BY <1>5, RemovesKeepsNames DEF Navigate
<1>6. ASSUME NEW f \in Frames, Detach(f) \/ Attach(f) PROVE IdsNameTheirFrames'
  BY <1>1, <1>6, RemovesKeepsNames DEF Detach, Attach, session
<1>7. CASE UNCHANGED vars
  BY <1>1, <1>7 DEF vars, page, session
<1> QED BY <1>4, <1>5, <1>6, <1>7 DEF Next

(* GetFrame never answers a frame of the page that the client did not choose *)
(* last, but for the main frame.                                             *)
THEOREM PathsLeadToNoOtherFrame == Spec => []NoOtherFrame
BY TypeInit, TypeStep, NamesInit, NamesStep, NamesImplyNoOtherFrame, PTL DEF Spec

-------------------------------------------------------------------------------
(* The walk down a path.                                                     *)

LEMMA LeastElement ==
    ASSUME NEW T \in SUBSET Nat, T # {}
    PROVE  \E x \in T : \A y \in T : x <= y
<1>1. PICK x \in T : \A y \in T : <<y, x>> \notin OpToRel(<, Nat)
  BY WFMin, NatLessThanWellFounded, Zenon
<1>2. \A y \in T : ~(y < x)
  BY <1>1, Zenon DEF OpToRel
<1> QED BY <1>2

(* The frame after n ids, if the ids are those of the elements' frames.      *)
Chosen(n) == IF n = 0 THEN Main ELSE elements[n].frame

(* Every frame on the path is in the page with the id of the path, in the    *)
(* frame chosen before it.                                                   *)
Chain ==
    \A i \in 1..Len(path) :
        /\ elements[i].frame \in attached
        /\ frameId[elements[i].frame] = path[i]
        /\ ParentOf[elements[i].frame] = Chosen(i - 1)

(* ... and this is what Descend finds there: nothing else has the id.        *)
LEMMA DescendFindsChosen ==
    ASSUME TypeOK, IdsNameTheirFrames, Chain, NEW i \in 1..Len(path)
    PROVE  /\ ChildrenWithId(Chosen(i - 1), path[i]) # {}
           /\ Descend(Chosen(i - 1), path[i]) = Chosen(i)
<1> DEFINE f == elements[i].frame
           d == Chosen(i - 1)
<1>1. f \in attached /\ frameId[f] = path[i] /\ ParentOf[f] = d
  BY DEF Chain
<1>2. attached \subseteq Frames
  BY DEF TypeOK
<1>3. ChildrenWithId(d, path[i]) = {f}
  <2> HIDE DEF f, d
  <2>1. \A g \in Frames : frameId[g] = path[i] => g = f
    BY DEF IdsNameTheirFrames, f
  <2> QED BY <1>1, <1>2, <2>1 DEF ChildrenWithId
<1>4. Chosen(i) = f
  BY DEF Chosen
<1> HIDE DEF f, d
<1>5. Descend(d, path[i]) = f
  BY <1>3, Zenon DEF Descend
<1> QED BY <1>3, <1>4, <1>5 DEF d

(* The walk exists, because the chain is one, and it goes along the chain.   *)
LEMMA WalkFollowsChain ==
    ASSUME TypeOK, IdsNameTheirFrames, Chain
    PROVE  \A n \in 0..Len(path) : Walk(path)[n] = Chosen(n)
<1> DEFINE N == Len(path)
           Body(h) == [n \in 0..N |-> IF n = 0 THEN Main ELSE Descend(h[n - 1], path[n])]
           w == CHOOSE h : h = Body(h)
           c == [n \in 0..N |-> Chosen(n)]
<1>1. N \in Nat
  BY LenProperties DEF TypeOK
<1>2. Walk(path) = w
  BY DEF Walk
<1>3. \A n \in 1..N : Descend(Chosen(n - 1), path[n]) = Chosen(n)
  BY DescendFindsChosen
<1>4. Chosen(0) = Main
  BY DEF Chosen
<1> HIDE DEF N
<1>5. c = Body(c)
  <2>1. ASSUME NEW n \in 0..N PROVE c[n] = IF n = 0 THEN Main ELSE Descend(c[n - 1], path[n])
    <3>1. CASE n = 0
      BY <1>4, <3>1
    <3>2. CASE n # 0
      <4>1. n \in 1..N /\ n - 1 \in 0..N
        BY <1>1, <3>2
      <4> QED BY <1>3, <3>2, <4>1
    <3> QED BY <3>1, <3>2
  <2> HIDE DEF c
  <2>2. c = [n \in 0..N |-> c[n]]
    BY DEF c
  <2> QED BY <2>1, <2>2, Zenon
<1>6. w = Body(w)
  <2> HIDE DEF Body, c
  <2> QED BY <1>5, Zenon
<1> HIDE DEF w, c
<1>7. w[0] = Main /\ \A n \in 1..N : w[n] = Descend(w[n - 1], path[n])
  <2>1. \A n \in 0..N : w[n] = IF n = 0 THEN Main ELSE Descend(w[n - 1], path[n])
    BY <1>6, Zenon
  <2> QED BY <1>1, <2>1
<1>8. \A n \in 0..N : w[n] = Chosen(n)
  <2> DEFINE Bad == {n \in 0..N : w[n] # Chosen(n)}
  <2> SUFFICES ASSUME Bad # {} PROVE FALSE
    OBVIOUS
  <2>1. Bad \in SUBSET Nat
    OBVIOUS
  <2> HIDE DEF Bad
  <2>2. PICK n \in Bad : \A m \in Bad : n <= m
    BY <2>1, LeastElement
  <2>3. n \in 1..N /\ n - 1 \in 0..N /\ w[n] # Chosen(n)
    BY <1>1, <1>4, <1>7, <2>2 DEF Bad
  <2>4. n - 1 \notin Bad
    BY <2>2, <2>3
  <2>5. w[n - 1] = Chosen(n - 1)
    BY <2>3, <2>4 DEF Bad
  <2> QED BY <1>3, <1>7, <2>3, <2>5
<1> QED BY <1>2, <1>8 DEF N

LEMMA ChainLeads ==
    ASSUME TypeOK, IdsNameTheirFrames, Chain, path # <<>>
    PROVE  GetFrame(path) = Last(elements).frame
<1> DEFINE N == Len(path)
<1>1. N \in Nat /\ N # 0
  BY LenProperties, EmptySeq DEF TypeOK
<1>2. Last(path) = path[N] /\ Last(elements) = elements[N]
  BY DEF Last, TypeOK
<1>3. Walk(path)[N - 1] = Chosen(N - 1)
  BY <1>1, WalkFollowsChain
<1>4. ChildrenWithId(Chosen(N - 1), path[N]) # {} /\ Descend(Chosen(N - 1), path[N]) = Chosen(N)
  BY <1>1, DescendFindsChosen
<1>5. Chosen(N) = elements[N].frame
  BY <1>1 DEF Chosen
<1> QED BY <1>2, <1>3, <1>4, <1>5 DEF GetFrame

-------------------------------------------------------------------------------
(* While no frame of the path is deleted.                                    *)

NoneDeleted == \A i \in DOMAIN elements : ~elements[i].deleted

(* No id is on the path twice, and the frames hang together: so a frame that *)
(* is chosen, which is in the last one, is not on the path already, and does *)
(* not lose its id there to the new one.                                     *)
LiveInv ==
    /\ \A i, j \in 1..Len(path) : path[i] = path[j] => i = j
    /\ NoneDeleted => Chain

LEMMA LiveInit == Init => LiveInv
BY DEF Init, LiveInv, Chain

LEMMA RemovesKeepsLive ==
    ASSUME TypeOK, LiveInv, NEW gone \in SUBSET Frames, NEW lost, Removes(gone, lost)
    PROVE  LiveInv'
<1>1. path' = path /\ Len(path) \in Nat /\ DOMAIN elements = 1..Len(path)
  BY LenProperties DEF Removes, TypeOK
<1>2. ASSUME NEW i \in 1..Len(path)
      PROVE  /\ elements'[i].frame = elements[i].frame
             /\ ~elements'[i].deleted => ~elements[i].deleted /\ elements[i].frame \notin gone
  <2>1. elements[i] \in ElementHandles
    BY <1>1, ElementOfSeq DEF TypeOK, ElementHandles
  <2>2. elements'[i] = [elements[i] EXCEPT !.stale   = @ \/ elements[i].frame \in lost,
                                           !.deleted = @ \/ elements[i].frame \in gone]
    BY <1>1 DEF Removes
  <2> QED BY <2>1, <2>2 DEF ElementHandles
<1>3. DOMAIN elements' = 1..Len(path)
  BY <1>1 DEF Removes
<1>4. ASSUME NoneDeleted' PROVE Chain'
  <2>1. \A i \in 1..Len(path) : ~elements[i].deleted /\ elements[i].frame \notin gone
    BY <1>2, <1>3, <1>4 DEF NoneDeleted
  <2>2. Chain
    BY <1>1, <2>1 DEF LiveInv, NoneDeleted
  <2>3. ASSUME NEW i \in 1..Len(path)
        PROVE  /\ elements'[i].frame \in attached'
               /\ frameId'[elements'[i].frame] = path[i]
               /\ ParentOf[elements'[i].frame] = Chosen(i - 1)'
    <3>1. elements'[i].frame = elements[i].frame /\ elements[i].frame \notin gone
      BY <1>2, <2>1
    <3>2. /\ elements[i].frame \in attached /\ frameId[elements[i].frame] = path[i]
          /\ ParentOf[elements[i].frame] = Chosen(i - 1)
      BY <2>2 DEF Chain
    <3>3. elements[i].frame \in Frames
      BY <3>2 DEF TypeOK
    <3>4. Chosen(i - 1)' = Chosen(i - 1)
      <4>1. i - 1 = 0 \/ i - 1 \in 1..Len(path)
        BY <1>1
      <4> QED BY <1>2, <4>1 DEF Chosen
    <3>5. elements[i].frame \in attached' /\ frameId'[elements[i].frame] = frameId[elements[i].frame]
      BY <3>1, <3>2, <3>3 DEF Removes
    <3> QED BY <3>1, <3>2, <3>4, <3>5
  <2> QED BY <1>1, <2>3 DEF Chain
<1> QED BY <1>1, <1>4 DEF LiveInv

LEMMA SwitchKeepsLive ==
    ASSUME TypeOK, IdsNameTheirFrames, LiveInv,
           NEW c \in Clients, NEW f \in Frames, SwitchToFrame(c, f)
    PROVE  LiveInv'
<1> DEFINE N == Len(path)
           e == [frame |-> f, stale |-> FALSE, deleted |-> FALSE]
<1>1. PICK i \in Ids : /\ i \notin Range(path) \cup Range(frameId)
                       /\ frameId' = [frameId EXCEPT ![f] = i]
                       /\ path' = Append(path, i)
  BY DEF SwitchToFrame
<1>2. /\ f \in attached /\ attached' = attached /\ ParentOf[f] = GetFrame(path)
      /\ elements' = Append(elements, e)
  BY DEF SwitchToFrame
<1>3. /\ N \in Nat /\ DOMAIN elements = 1..N /\ DOMAIN path = 1..N
      /\ path \in Seq(Ids) /\ elements \in Seq(ElementHandles) /\ Len(elements) = N
  BY LenProperties DEF TypeOK, ElementHandles
<1>4. e \in ElementHandles /\ e.frame = f
  BY DEF ElementHandles
<1> HIDE DEF N, e
<1>5. /\ Len(path') = N + 1 /\ path'[N + 1] = i /\ \A j \in 1..N : path'[j] = path[j]
  BY <1>1, <1>3, AppendProperties DEF N
<1>6. /\ DOMAIN elements' = 1..(N + 1)
      /\ elements'[N + 1] = e /\ \A j \in 1..N : elements'[j] = elements[j]
  BY <1>2, <1>3, <1>4, AppendProperties, LenProperties
<1>7. \A j \in 1..N : path[j] # i
  BY <1>1, <1>3 DEF Range
<1>8. \A j \in 1..(N + 1) : j \in 1..N \/ j = N + 1
  BY <1>3
<1>9. \A j, k \in 1..(N + 1) : path'[j] = path'[k] => j = k
  <2>1. \A j, k \in 1..N : path[j] = path[k] => j = k
    BY DEF LiveInv, N
  <2> QED BY <1>5, <1>7, <1>8, <2>1
<1>10. ASSUME NoneDeleted' PROVE Chain'
  <2>1. Chain
    <3>1. \A j \in 1..N : j \in 1..(N + 1)
      BY <1>3
    <3> QED BY <1>3, <1>6, <1>10, <3>1 DEF NoneDeleted, LiveInv
  <2>2. \A j \in 1..N : /\ elements[j].frame \in attached
                        /\ frameId[elements[j].frame] = path[j]
                        /\ ParentOf[elements[j].frame] = Chosen(j - 1)
    BY <2>1 DEF Chain, N
  <2>3. ParentOf[f] = Chosen(N)
    <3>1. CASE N = 0
      BY <1>2, <1>3, <3>1, EmptySeq DEF GetFrame, Chosen, N
    <3>2. CASE N # 0
      <4>1. path # <<>>
        BY <3>2 DEF N
      <4>2. GetFrame(path) = Last(elements).frame
        BY <2>1, <4>1, ChainLeads
      <4> QED BY <1>2, <1>3, <3>2, <4>2 DEF Last, Chosen
    <3> QED BY <3>1, <3>2
  <2>4. ASSUME NEW j \in 1..N PROVE elements[j].frame # f
    <3> SUFFICES ASSUME elements[j].frame = f PROVE FALSE
      OBVIOUS
    <3>1. Chosen(j - 1) = Chosen(N) /\ Chosen(N) = elements[N].frame
      BY <1>3, <2>2, <2>3 DEF Chosen
    <3>2. N \in 1..N /\ elements[N].frame \in Frames
      BY <1>3, <2>2 DEF TypeOK
    <3>3. CASE j = 1
      BY <3>1, <3>2, <3>3, FrameAssumption DEF Chosen
    <3>4. CASE j # 1
      <4>1. j - 1 \in 1..N /\ j - 1 # 0 /\ j - 1 # N
        BY <1>3, <3>4
      <4>2. elements[j - 1].frame = elements[N].frame
        BY <3>1, <4>1 DEF Chosen
      <4>3. path[j - 1] = path[N]
        BY <2>2, <3>2, <4>1, <4>2
      <4> QED BY <3>2, <4>1, <4>3 DEF LiveInv, N
    <3> QED BY <3>3, <3>4
  <2>5. ASSUME NEW j \in 0..N PROVE Chosen(j)' = Chosen(j)
    <3>1. j = 0 \/ j \in 1..N
      BY <1>3
    <3> QED BY <1>6, <3>1 DEF Chosen
  <2>6. ASSUME NEW j \in 1..(N + 1)
        PROVE  /\ elements'[j].frame \in attached'
               /\ frameId'[elements'[j].frame] = path'[j]
               /\ ParentOf[elements'[j].frame] = Chosen(j - 1)'
    <3>1. j - 1 \in 0..N
      BY <1>3
    <3>2. CASE j = N + 1
      <4>1. elements'[j].frame = f /\ path'[j] = i /\ j - 1 = N
        BY <1>3, <1>4, <1>5, <1>6, <3>2
      <4>2. Chosen(j - 1)' = Chosen(N)
        BY <2>5, <3>1, <4>1
      <4>3. frameId'[f] = i
        BY <1>1 DEF TypeOK
      <4> QED BY <1>2, <2>3, <4>1, <4>2, <4>3
    <3>3. CASE j \in 1..N
      <4>1. elements'[j] = elements[j] /\ path'[j] = path[j]
        BY <1>5, <1>6, <3>3
      <4>2. frameId'[elements[j].frame] = frameId[elements[j].frame]
        BY <1>1, <2>4, <3>3 DEF TypeOK
      <4>3. Chosen(j - 1)' = Chosen(j - 1)
        BY <2>5, <3>1
      <4> QED BY <1>2, <2>2, <3>3, <4>1, <4>2, <4>3
    <3> QED BY <1>8, <3>2, <3>3
  <2> QED BY <1>5, <2>6 DEF Chain
<1> QED BY <1>5, <1>9, <1>10 DEF LiveInv

LEMMA LiveStep == TypeOK /\ IdsNameTheirFrames /\ LiveInv /\ [Next]_vars => LiveInv'
<1> SUFFICES ASSUME TypeOK, IdsNameTheirFrames, LiveInv, [Next]_vars PROVE LiveInv'
  OBVIOUS
<1>1. ASSUME UNCHANGED <<path, elements, frameId>>, attached \subseteq attached' PROVE LiveInv'
  BY <1>1 DEF LiveInv, NoneDeleted, Chain, Chosen
<1>2. ASSUME ToTop PROVE LiveInv'
  BY <1>2 DEF ToTop, LiveInv, Chain
<1>3. ASSUME NEW c \in Clients, Step(c) PROVE LiveInv'
  BY <1>1, <1>2, <1>3, SwitchKeepsLive
  DEF Step, CheckFrames, GetAlertMessage, SwitchToTopFrame, SwitchTo, OtherCommand, FindElements,
      Attempt, BeginTimeouts, SetImplicitWait, page, session
<1>4. ASSUME NEW d \in Frames \cup {Main}, Navigate(d) PROVE LiveInv'
  <2>1. Below[d] \in SUBSET Frames
    BY DEF Below
  <2> QED BY <1>4, <2>1, RemovesKeepsLive DEF Navigate
<1>5. ASSUME NEW f \in Frames, Detach(f) PROVE LiveInv'
  <2>1. {f} \cup Below[f] \in SUBSET Frames
    BY DEF Below
  <2> QED BY <1>5, <2>1, RemovesKeepsLive DEF Detach
<1>6. ASSUME NEW f \in Frames, Attach(f) PROVE LiveInv'
  BY <1>1, <1>6 DEF Attach, session
<1>7. CASE UNCHANGED vars
  BY <1>1, <1>7 DEF vars, page, session
<1> QED BY <1>3, <1>4, <1>5, <1>6, <1>7 DEF Next

(* A command goes to the main document instead of the frame that was chosen  *)
(* last only if a QWebFrame on the path was deleted since it was chosen.     *)
THEOREM LivePathsLead == Spec => []PathsLeadUnlessDeleted
<1>1. TypeOK /\ IdsNameTheirFrames /\ LiveInv => PathsLeadUnlessDeleted
  BY ChainLeads DEF LiveInv, NoneDeleted, PathsLeadUnlessDeleted
<1> QED BY <1>1, TypeInit, TypeStep, NamesInit, NamesStep, LiveInit, LiveStep, PTL DEF Spec
===============================================================================
