---------------------------- MODULE KeyInputProofs ----------------------------
(* Theorems about KeyInput for any modifiers, characters and number of keys *)
(* in a command.                                                            *)
EXTENDS KeyInput, SequenceTheorems, WellFoundedInduction, TLAPS

-----------------------------------------------------------------------------
(* Loops.  Induction up to n, on the set of the numbers for which something *)
(* holds: the least number outside the set is 0 or follows one in it.       *)
LEMMA LeastElement ==
  ASSUME NEW T \in SUBSET Nat, T # {}
  PROVE  \E x \in T : \A y \in T : x <= y
<1>1. PICK x \in T : \A y \in T : <<y, x>> \notin OpToRel(<, Nat)
  BY WFMin, NatLessThanWellFounded, Zenon
<1>2. \A y \in T : ~(y < x)
  BY <1>1, Zenon DEF OpToRel
<1> QED BY <1>2

LEMMA UpTo ==
  ASSUME NEW n \in Nat, NEW T, 0 \in T,
         \A i \in 0..(n - 1) : i \in T => i + 1 \in T
  PROVE  \A i \in 0..n : i \in T
<1> DEFINE Bad == {i \in 0..n : i \notin T}
<1> SUFFICES ASSUME Bad # {} PROVE FALSE
  OBVIOUS
<1>1. Bad \in SUBSET Nat
  OBVIOUS
<1> HIDE DEF Bad
<1>2. PICK i \in Bad : \A j \in Bad : i <= j
  BY <1>1, LeastElement
<1>3. i \in 1..n /\ i \notin T /\ i - 1 \in 0..(n - 1) /\ (i - 1) + 1 = i
  BY <1>2 DEF Bad
<1>4. i - 1 \notin Bad
  BY <1>2, <1>3
<1>5. i - 1 \in T
  BY <1>3, <1>4 DEF Bad
<1> QED BY <1>3, <1>5

(* A loop whose body is a function reaches every number of iterations.      *)
Runs(f, b, n, step) == f[0] = b /\ \A i \in 1..n : f[i] = step[<<f[i - 1], i>>]

LEMMA Iterates ==
  ASSUME NEW S, NEW b \in S, NEW n \in Nat, NEW step \in [S \X (1..n) -> S]
  PROVE  \E f \in [0..n -> S] : Runs(f, b, n, step)
<1> DEFINE AllRuns(m) == {f \in [0..m -> S] : Runs(f, b, m, step)}
           T == {m \in 0..n : AllRuns(m) # {}}
<1>1. 0 \in T
  <2> DEFINE f == [i \in 0..0 |-> b]
  <2>1. f \in AllRuns(0)
    BY DEF Runs
  <2> QED BY <2>1
<1>2. ASSUME NEW m \in 0..(n - 1), m \in T PROVE m + 1 \in T
  <2>1. PICK f : f \in AllRuns(m)
    BY <1>2
  <2> DEFINE last == step[<<f[m], m + 1>>]
             g == [i \in 0..(m + 1) |-> IF i = m + 1 THEN last ELSE f[i]]
  <2>2. last \in S
    BY <2>1
  <2>3. f \in [0..m -> S] /\ f[0] = b /\ \A i \in 1..m : f[i] = step[<<f[i - 1], i>>]
    BY <2>1 DEF Runs
  <2>4. g \in [0..(m + 1) -> S]
    BY <2>2, <2>3
  <2>5. g[0] = b /\ g[m + 1] = last /\ \A i \in 0..m : g[i] = f[i]
    BY <2>3
  <2> HIDE DEF g
  <2>6. ASSUME NEW i \in 1..(m + 1) PROVE g[i] = step[<<g[i - 1], i>>]
    <3>1. i \in 1..m \/ i = m + 1
      OBVIOUS
    <3> QED BY <2>3, <2>5, <3>1
  <2>7. g \in AllRuns(m + 1)
    BY <2>3, <2>4, <2>5, <2>6 DEF Runs
  <2> QED BY <2>7
<1> HIDE DEF T
<1>3. n \in T
  BY <1>1, <1>2, UpTo
<1> QED BY <1>3 DEF T

-----------------------------------------------------------------------------
(* The two loops of the conversion have the values that their definitions   *)
(* say, and these keep their types.                                         *)
LEMMA Constants ==
  /\ ModifierOrder \in Seq(Modifiers) /\ Len(ModifierOrder) \in Nat
  /\ DOMAIN ModifierOrder = 1..Len(ModifierOrder)
  /\ \A m \in Modifiers : \E i \in 1..Len(ModifierOrder) : ModifierOrder[i] = m
  /\ Modifiers \cap Texts = {} /\ Null \notin Modifiers \cup Texts
<1>1. ModifierOrder \in Seq(Modifiers)
  BY KeyAssumption
<1>2. \A m \in Modifiers : \E i \in DOMAIN ModifierOrder : ModifierOrder[i] = m
  BY DEF Modifiers, Range
<1> QED BY <1>1, <1>2, KeyAssumption

LEMMA EventTypes ==
  ASSUME NEW k \in Modifiers \cup Texts, NEW mods \in SUBSET Modifiers
  PROVE  /\ Press(k, mods) \in Events /\ Press(k, mods).key = k
         /\ Press(k, mods).type = "press"
         /\ Release(k, mods) \in Events /\ Release(k, mods).key = k
         /\ Release(k, mods).type = "release"
BY DEF Press, Release, Events

ReleaseStep(mods, es, i) ==
  IF ModifierOrder[i] \in mods THEN Append(es, Release(ModifierOrder[i], {})) ELSE es

LEMMA ReleaseLoop ==
  ASSUME NEW mods \in SUBSET Modifiers
  PROVE  \E f : /\ ReleaseAll(mods) = f[Len(ModifierOrder)] /\ f[0] = <<>>
                /\ \A i \in 1..Len(ModifierOrder) : f[i] = ReleaseStep(mods, f[i - 1], i)
<1> DEFINE n == Len(ModifierOrder)
           Body(h) == [i \in 0..n |-> IF i = 0 THEN <<>> ELSE ReleaseStep(mods, h[i - 1], i)]
           g == CHOOSE h : h = Body(h)
           S == Seq(Events)
           step == [x \in S \X (1..n) |-> ReleaseStep(mods, x[1], x[2])]
<1>1. n \in Nat
  BY Constants
<1>2. ReleaseAll(mods) = g[n]
  BY DEF ReleaseAll, ReleaseStep
<1>3. ASSUME NEW es \in Seq(Events), NEW i \in 1..n PROVE ReleaseStep(mods, es, i) \in Seq(Events)
  <2>1. ModifierOrder[i] \in Modifiers
    BY Constants
  <2>2. Release(ModifierOrder[i], {}) \in Events
    BY <2>1, EventTypes
  <2> QED BY <2>2, AppendProperties DEF ReleaseStep
<1>4. <<>> \in S /\ \A es \in S, i \in 1..n : ReleaseStep(mods, es, i) \in S
  BY <1>3
<1> HIDE DEF n, S
<1>5. step \in [S \X (1..n) -> S]
  BY <1>4
<1>6. \A es \in S, i \in 1..n : step[<<es, i>>] = ReleaseStep(mods, es, i)
  OBVIOUS
<1> HIDE DEF step
<1>7. PICK f \in [0..n -> S] : Runs(f, <<>>, n, step)
  BY <1>1, <1>4, <1>5, Iterates
<1>8. \A i \in 1..n : f[i] = ReleaseStep(mods, f[i - 1], i)
  <2>1. \A i \in 1..n : f[i - 1] \in S
    BY <1>1, <1>7
  <2> QED BY <1>6, <1>7, <2>1 DEF Runs
<1>9. f = Body(f)
  <2>1. \A i \in 0..n : f[i] = IF i = 0 THEN <<>> ELSE ReleaseStep(mods, f[i - 1], i)
    BY <1>1, <1>7, <1>8 DEF Runs
  <2> QED BY <2>1, Zenon
<1>10. g = Body(g)
  <2> HIDE DEF Body
  <2> QED BY <1>9, Zenon
<1> HIDE DEF g
<1>11. g[0] = <<>> /\ \A i \in 1..n : g[i] = ReleaseStep(mods, g[i - 1], i)
  <2>1. \A i \in 0..n : g[i] = IF i = 0 THEN <<>> ELSE ReleaseStep(mods, g[i - 1], i)
    BY <1>10, Zenon
  <2> QED BY <1>1, <2>1
<1> QED BY <1>2, <1>11 DEF n

(* The null key: one release per modifier that is down.                     *)
LEMMA ReleasesAll ==
  ASSUME NEW mods \in SUBSET Modifiers
  PROVE  /\ ReleaseAll(mods) \in Seq(Events)
         /\ \A j \in 1..Len(ReleaseAll(mods)) :
              ReleaseAll(mods)[j].type = "release" /\ ReleaseAll(mods)[j].key \in mods
         /\ \A m \in mods : \E j \in 1..Len(ReleaseAll(mods)) : ReleaseAll(mods)[j].key = m
<1> DEFINE n == Len(ModifierOrder)
           Good(es, i) ==
             /\ es \in Seq(Events)
             /\ \A j \in 1..Len(es) : es[j].type = "release" /\ es[j].key \in mods
             /\ \A l \in 1..i : ModifierOrder[l] \in mods =>
                  \E j \in 1..Len(es) : es[j].key = ModifierOrder[l]
<1>1. PICK f : /\ ReleaseAll(mods) = f[n] /\ f[0] = <<>>
               /\ \A i \in 1..n : f[i] = ReleaseStep(mods, f[i - 1], i)
  BY ReleaseLoop
<1>2. ASSUME NEW es, NEW i \in 0..(n - 1), Good(es, i)
      PROVE  Good(ReleaseStep(mods, es, i + 1), i + 1)
  <2>1. i \in Nat /\ i + 1 \in 1..n /\ \A l \in 1..(i + 1) : l \in 1..i \/ l = i + 1
    BY Constants
  <2>2. CASE ModifierOrder[i + 1] \notin mods
    BY <1>2, <2>1, <2>2 DEF ReleaseStep
  <2>3. CASE ModifierOrder[i + 1] \in mods
    <3> DEFINE m == ModifierOrder[i + 1]
               e == Release(m, {})
               new == Append(es, e)
    <3>1. e \in Events /\ e.key = m /\ e.type = "release" /\ m \in mods
      BY <2>3, EventTypes
    <3> HIDE DEF e, m
    <3>2. /\ new \in Seq(Events) /\ Len(new) = Len(es) + 1 /\ Len(es) \in Nat
          /\ \A j \in 1..Len(es) : new[j] = es[j]
          /\ new[Len(es) + 1] = e
      BY <1>2, <3>1, AppendProperties
    <3> HIDE DEF new
    <3>3. \A j \in 1..Len(new) : j \in 1..Len(es) \/ j = Len(es) + 1
      BY <3>2
    <3>4. \A j \in 1..Len(es) : j \in 1..Len(new)
      BY <3>2
    <3>5. Len(es) + 1 \in 1..Len(new)
      BY <3>2
    <3>6. \A j \in 1..Len(new) : new[j].type = "release" /\ new[j].key \in mods
      BY <1>2, <3>1, <3>2, <3>3
    <3>7. ASSUME NEW l \in 1..(i + 1), ModifierOrder[l] \in mods
          PROVE  \E j \in 1..Len(new) : new[j].key = ModifierOrder[l]
      <4>1. CASE l = i + 1
        BY <3>1, <3>2, <3>5, <4>1 DEF m
      <4>2. CASE l \in 1..i
        BY <1>2, <3>2, <3>4, <3>7, <4>2
      <4> QED BY <2>1, <4>1, <4>2
    <3>8. Good(new, i + 1)
      BY <3>2, <3>6, <3>7
    <3> QED BY <2>3, <3>8 DEF ReleaseStep, new, e, m
  <2> QED BY <2>2, <2>3
<1>3. Good(<<>>, 0)
  OBVIOUS
<1> HIDE DEF Good
<1> DEFINE T == {i \in 0..n : Good(f[i], i)}
<1>4. n \in Nat
  BY Constants
<1> HIDE DEF n
<1>5. 0 \in T
  BY <1>1, <1>3, <1>4
<1>6. ASSUME NEW i \in 0..(n - 1), i \in T PROVE i + 1 \in T
  <2>1. Good(ReleaseStep(mods, f[i], i + 1), i + 1)
    BY <1>2, <1>6
  <2>2. i + 1 \in 1..n /\ (i + 1) - 1 = i
    BY <1>4
  <2>3. f[i + 1] = ReleaseStep(mods, f[i], i + 1)
    BY <1>1, <2>2
  <2> QED BY <1>4, <2>1, <2>2, <2>3
<1>7. n \in T
  <2> HIDE DEF T
  <2> QED BY <1>4, <1>5, <1>6, UpTo
<1>8. Good(ReleaseAll(mods), n)
  BY <1>1, <1>7
<1> QED BY <1>8, Constants DEF Good, n

Accs == [mods : SUBSET Modifiers, events : Seq(Events)]

(* What a key adds to the events and does to the modifiers: a modifier that *)
(* was down, or was pressed last, and has no later event is still down; a   *)
(* character is left pressed only before another of the same.               *)
Adds(new, mods, mods2, ks, i) ==
  /\ \A m \in Modifiers : EndsDown(new, m, Len(new)) => m \in mods2
  /\ \A m \in mods : (\A j \in 1..Len(new) : new[j].key # m) => m \in mods2
  /\ \A k \in Texts : EndsDown(new, k, Len(new)) => i < Len(ks) /\ ks[i] = k /\ ks[i + 1] = k
  /\ ks[i] \in Texts => \E j \in 1..Len(new) : new[j].key = ks[i]
  /\ \A j \in 1..Len(new) :
       new[j].key \in Texts /\ new[j].type = "release" => EndsDown(new, new[j].key, j - 1)

LEMMA KeyAdds ==
  ASSUME NEW acc \in Accs, NEW ks \in Seq(Keys), NEW i \in 1..Len(ks)
  PROVE  \E new \in Seq(Events), mods2 \in SUBSET Modifiers :
           /\ ConvertKey(acc, ks, i) = [mods |-> mods2, events |-> acc.events \o new]
           /\ Adds(new, acc.mods, mods2, ks, i)
<1> DEFINE k == ks[i]
           mods == acc.mods
           es == acc.events
<1>0. /\ mods \in SUBSET Modifiers /\ es \in Seq(Events)
      /\ acc = [mods |-> mods, events |-> es]
      /\ k \in Keys /\ i \in Nat /\ Len(ks) \in Nat
  BY DEF Accs
<1> HIDE DEF mods, es
<1>1. CASE k = Null
  <2> DEFINE new == ReleaseAll(mods)
  <2>1. /\ new \in Seq(Events)
        /\ \A j \in 1..Len(new) : new[j].type = "release" /\ new[j].key \in mods
        /\ \A m \in mods : \E j \in 1..Len(new) : new[j].key = m
    BY <1>0, ReleasesAll
  <2>4. k \notin Texts /\ k \notin Modifiers /\ mods \cap Texts = {}
    BY <1>0, <1>1, Constants
  <2>2. ConvertKey(acc, ks, i) = [mods |-> {}, events |-> es \o new]
    BY <1>1, <2>4, Zenon DEF ConvertKey, mods, es
  <2> HIDE DEF new
  <2>3. \A x : ~EndsDown(new, x, Len(new))
    BY <2>1 DEF EndsDown
  <2>5. Adds(new, mods, {}, ks, i)
    BY <2>1, <2>3, <2>4 DEF Adds
  <2> QED BY <2>1, <2>2, <2>5 DEF mods, es
<1>2. CASE k \in Modifiers
  <2> DEFINE e == ToggleEvent(mods, k)
             mods2 == Toggle(mods, k)
  <2>1. mods2 \in SUBSET Modifiers /\ k \notin Texts /\ k # Null
    BY <1>0, <1>2, Constants DEF Toggle
  <2>2. e \in Events /\ e.key = k /\ (e.type = "press" => k \notin mods)
    BY <1>2, <2>1, EventTypes DEF ToggleEvent, Press, Release
  <2>3. ConvertKey(acc, ks, i) = [mods |-> mods2, events |-> es \o <<e>>]
    BY <1>2, <2>1 DEF ConvertKey, mods, es
  <2>4. \A m \in mods : m # k => m \in mods2
    BY DEF Toggle
  <2>5. k \notin mods => k \in mods2
    BY DEF Toggle
  <2> HIDE DEF e, mods2, k
  <2> DEFINE new == <<e>>
  <2>6. new \in Seq(Events) /\ Len(new) = 1 /\ new[1] = e /\ \A j \in 1..Len(new) : new[j] = e
    BY <2>2
  <2> HIDE DEF new
  <2>7. \A x : EndsDown(new, x, Len(new)) => x = k /\ k \notin mods
    BY <2>2, <2>6 DEF EndsDown
  <2>8. Adds(new, mods, mods2, ks, i)
    BY <1>0, <1>2, <2>1, <2>2, <2>4, <2>5, <2>6, <2>7, Constants DEF Adds, k
  <2> QED BY <2>1, <2>3, <2>6, <2>8 DEF mods, es, new
<1>3. CASE k \in Texts
  <2> DEFINE p == Press(k, mods)
             r == Release(k, mods)
             new == TextEvents(mods, ks, i)
  <2>1. /\ p \in Events /\ p.key = k /\ p.type = "press"
        /\ r \in Events /\ r.key = k /\ r.type = "release"
        /\ k \notin Modifiers /\ k # Null
    BY <1>0, <1>3, EventTypes, Constants
  <2>2. ConvertKey(acc, ks, i) = [mods |-> mods, events |-> es \o new]
    BY <1>0, <1>3, <2>1 DEF ConvertKey, mods, es
  <2>3. \/ new = <<p, r>>
        \/ new = <<p>> /\ i # Len(ks) /\ ks[i] = ks[i + 1]
    BY DEF TextEvents, SendsRelease
  <2> HIDE DEF p, r, new, k
  <2>4. /\ new \in Seq(Events) /\ Len(new) \in {1, 2} /\ new[1] = p
        /\ Len(new) = 2 => new[2] = r
        /\ Len(new) = 1 => i # Len(ks) /\ ks[i] = ks[i + 1]
    <3>1. CASE new = <<p, r>>
      <4>1. <<p, r>> \in Seq(Events) /\ Len(<<p, r>>) = 2 /\ <<p, r>>[1] = p /\ <<p, r>>[2] = r
        BY <2>1
      <4> QED BY <3>1, <4>1
    <3>2. CASE new = <<p>> /\ i # Len(ks) /\ ks[i] = ks[i + 1]
      <4>1. <<p>> \in Seq(Events) /\ Len(<<p>>) = 1 /\ <<p>>[1] = p
        BY <2>1
      <4> QED BY <3>2, <4>1
    <3> QED BY <2>3, <3>1, <3>2
  <2>5. \A j \in 1..Len(new) : new[j].key = k /\ (new[j].type = "release" => j = 2)
    BY <2>1, <2>4
  <2>6. \A x : EndsDown(new, x, Len(new)) => x = k /\ Len(new) = 1
    BY <2>1, <2>4, <2>5 DEF EndsDown
  <2>7. EndsDown(new, k, 1)
    BY <2>1, <2>4 DEF EndsDown
  <2>8. 1 \in 1..Len(new)
    BY <2>4
  <2>9. \A j \in 1..Len(new) : new[j].type = "release" => EndsDown(new, new[j].key, j - 1)
    BY <2>5, <2>7
  <2>10. Adds(new, mods, mods, ks, i)
    BY <1>0, <2>1, <2>4, <2>5, <2>6, <2>8, <2>9 DEF Adds, k
  <2> QED BY <1>0, <2>2, <2>4, <2>10 DEF mods, es
<1>4. CASE k \notin Modifiers \cup Texts \cup {Null}
  <2> DEFINE new == <<>>
  <2>1. ConvertKey(acc, ks, i) = acc
    BY <1>4 DEF ConvertKey
  <2>2. es \o new = es
    BY <1>0, ConcatEmptySeq
  <2>3. new \in Seq(Events) /\ Len(new) = 0
    OBVIOUS
  <2>4. \A x : ~EndsDown(new, x, Len(new))
    BY <2>3 DEF EndsDown
  <2>5. Adds(new, mods, mods, ks, i)
    BY <1>4, <2>3, <2>4 DEF Adds
  <2> QED BY <1>0, <2>1, <2>2, <2>3, <2>5 DEF mods, es
<1> QED BY <1>1, <1>2, <1>3, <1>4

-----------------------------------------------------------------------------
(* The events so far and those of the next key.                             *)
LEMMA Joined ==
  ASSUME NEW es \in Seq(Events), NEW new \in Seq(Events)
  PROVE  /\ es \o new \in Seq(Events) /\ Len(es \o new) = Len(es) + Len(new)
         /\ Len(es) \in Nat /\ Len(new) \in Nat
         /\ \A j \in 1..Len(es) : (es \o new)[j] = es[j]
         /\ \A j \in 1..Len(new) : (es \o new)[Len(es) + j] = new[j]
         /\ \A j \in 1..Len(es \o new) :
              j \in 1..Len(es) \/ \E l \in 1..Len(new) : j = Len(es) + l
<1>1. es \o new \in Seq(Events) /\ Len(es \o new) = Len(es) + Len(new)
  BY ConcatProperties
<1>2. \A j \in 1..(Len(es) + Len(new)) :
        (es \o new)[j] = IF j <= Len(es) THEN es[j] ELSE new[j - Len(es)]
  BY ConcatProperties
<1>3. Len(es) \in Nat /\ Len(new) \in Nat
  OBVIOUS
<1>4. ASSUME NEW j \in 1..Len(es) PROVE (es \o new)[j] = es[j]
  <2>1. j \in 1..(Len(es) + Len(new)) /\ j <= Len(es)
    BY <1>3
  <2> QED BY <1>2, <2>1
<1>5. ASSUME NEW j \in 1..Len(new) PROVE (es \o new)[Len(es) + j] = new[j]
  <2>1. /\ Len(es) + j \in 1..(Len(es) + Len(new)) /\ ~(Len(es) + j <= Len(es))
        /\ (Len(es) + j) - Len(es) = j
    BY <1>3
  <2> QED BY <1>2, <2>1
<1>6. ASSUME NEW j \in 1..(Len(es) + Len(new)), j \notin 1..Len(es)
      PROVE  \E l \in 1..Len(new) : j = Len(es) + l
  <2>1. j - Len(es) \in 1..Len(new) /\ j = Len(es) + (j - Len(es))
    BY <1>3, <1>6
  <2> QED BY <2>1
<1> QED BY <1>1, <1>3, <1>4, <1>5, <1>6

LEMMA Grown ==
  ASSUME NEW es \in Seq(Events), NEW new \in Seq(Events), NEW k
  PROVE  /\ \A n \in 0..Len(es) : EndsDown(es, k, n) => EndsDown(es \o new, k, n)
         /\ \A n \in 0..Len(new) : EndsDown(new, k, n) => EndsDown(es \o new, k, Len(es) + n)
         /\ EndsDown(es \o new, k, Len(es \o new)) =>
              \/ EndsDown(new, k, Len(new))
              \/ EndsDown(es, k, Len(es)) /\ \A j \in 1..Len(new) : new[j].key # k
<1> DEFINE all == es \o new
           a == Len(es)
           b == Len(new)
<1>1. /\ a \in Nat /\ b \in Nat /\ Len(all) = a + b
      /\ \A j \in 1..a : all[j] = es[j]
      /\ \A j \in 1..b : all[a + j] = new[j]
  BY Joined
<1> HIDE DEF all, a, b
<1>2. ASSUME NEW n \in 0..a, EndsDown(es, k, n) PROVE EndsDown(all, k, n)
  <2>1. \A j \in 1..n : all[j] = es[j]
    BY <1>1
  <2>2. PICK i \in 1..n : /\ es[i].key = k /\ es[i].type = "press"
                          /\ \A j \in (i + 1)..n : es[j].key # k
    BY <1>2 DEF EndsDown
  <2>3. \A j \in (i + 1)..n : j \in 1..n
    BY <1>1
  <2> QED BY <2>1, <2>2, <2>3 DEF EndsDown
<1>3. ASSUME NEW n \in 0..b, EndsDown(new, k, n) PROVE EndsDown(all, k, a + n)
  <2>1. PICK i \in 1..n : /\ new[i].key = k /\ new[i].type = "press"
                          /\ \A j \in (i + 1)..n : new[j].key # k
    BY <1>3 DEF EndsDown
  <2>2. a + i \in 1..(a + n) /\ i \in 1..b
    BY <1>1
  <2>3. ASSUME NEW j \in (a + i + 1)..(a + n) PROVE all[j].key # k
    <3>1. j - a \in (i + 1)..n /\ j - a \in 1..b /\ a + (j - a) = j
      BY <1>1
    <3>2. all[j] = new[j - a]
      BY <1>1, <3>1
    <3> QED BY <2>1, <3>1, <3>2
  <2>4. all[a + i] = new[i]
    BY <1>1, <2>2
  <2> QED BY <2>1, <2>2, <2>3, <2>4 DEF EndsDown
<1>4. ASSUME EndsDown(all, k, Len(all))
      PROVE  \/ EndsDown(new, k, b)
             \/ EndsDown(es, k, a) /\ \A j \in 1..b : new[j].key # k
  <2>1. PICK i \in 1..(a + b) : /\ all[i].key = k /\ all[i].type = "press"
                                /\ \A j \in (i + 1)..(a + b) : all[j].key # k
    BY <1>1, <1>4 DEF EndsDown
  <2>2. CASE i > a
    <3>1. i - a \in 1..b /\ a + (i - a) = i
      BY <1>1, <2>2
    <3>2. new[i - a] = all[i]
      BY <1>1, <3>1
    <3>3. ASSUME NEW j \in ((i - a) + 1)..b PROVE new[j].key # k
      <4>1. a + j \in (i + 1)..(a + b) /\ j \in 1..b
        BY <1>1, <2>2
      <4>2. all[a + j] = new[j]
        BY <1>1, <4>1
      <4> QED BY <2>1, <4>1, <4>2
    <3> QED BY <2>1, <3>1, <3>2, <3>3 DEF EndsDown
  <2>3. CASE i <= a
    <3>1. i \in 1..a /\ all[i] = es[i]
      BY <1>1, <2>3
    <3>2. ASSUME NEW j \in (i + 1)..a PROVE es[j].key # k
      <4>1. j \in (i + 1)..(a + b) /\ j \in 1..a
        BY <1>1
      <4> QED BY <1>1, <2>1, <4>1
    <3>3. ASSUME NEW j \in 1..b PROVE new[j].key # k
      <4>1. a + j \in (i + 1)..(a + b)
        BY <1>1, <2>3
      <4>2. all[a + j] = new[j]
        BY <1>1
      <4> QED BY <2>1, <4>1, <4>2
    <3> QED BY <2>1, <3>1, <3>2, <3>3 DEF EndsDown
  <2> QED BY <1>1, <2>2, <2>3
<1> QED BY <1>2, <1>3, <1>4 DEF all, a, b

-----------------------------------------------------------------------------
(* The conversion of the keys of a command.                                 *)
LEMMA ConvertRuns ==
  ASSUME NEW ks, NEW n \in Nat, NEW start \in Accs,
         \A acc \in Accs, i \in 1..n : ConvertKey(acc, ks, i) \in Accs
  PROVE  \E f \in [0..n -> Accs] :
           f[0] = start /\ \A i \in 1..n : f[i] = ConvertKey(f[i - 1], ks, i)
<1> DEFINE step == [x \in Accs \X (1..n) |-> ConvertKey(x[1], ks, x[2])]
<1>1. step \in [Accs \X (1..n) -> Accs]
  OBVIOUS
<1>2. \A acc \in Accs, i \in 1..n : step[<<acc, i>>] = ConvertKey(acc, ks, i)
  OBVIOUS
<1> HIDE DEF step
<1>3. PICK f \in [0..n -> Accs] : Runs(f, start, n, step)
  BY <1>1, Iterates
<1>4. \A i \in 1..n : f[i - 1] \in Accs
  BY <1>3
<1> QED BY <1>2, <1>3, <1>4 DEF Runs

LEMMA ConvertLoop ==
  ASSUME NEW ks \in Seq(Keys), NEW mods \in SUBSET Modifiers
  PROVE  \E f : /\ ConvertKeys(ks, mods) = f[Len(ks)]
                /\ f[0] = [mods |-> mods, events |-> <<>>]
                /\ \A i \in 1..Len(ks) : f[i] = ConvertKey(f[i - 1], ks, i)
<1> DEFINE n == Len(ks)
           start == [mods |-> mods, events |-> <<>>]
           Body(h) == [i \in 0..n |-> IF i = 0 THEN start ELSE ConvertKey(h[i - 1], ks, i)]
           g == CHOOSE h : h = Body(h)
<1>1. n \in Nat /\ start \in Accs
  BY DEF Accs
<1>2. ConvertKeys(ks, mods) = g[n]
  BY DEF ConvertKeys
<1>3. ASSUME NEW acc \in Accs, NEW i \in 1..n PROVE ConvertKey(acc, ks, i) \in Accs
  <2>1. PICK new \in Seq(Events), mods2 \in SUBSET Modifiers :
          ConvertKey(acc, ks, i) = [mods |-> mods2, events |-> acc.events \o new]
    BY KeyAdds
  <2>2. acc.events \in Seq(Events)
    BY DEF Accs
  <2> QED BY <2>1, <2>2, ConcatProperties DEF Accs
<1> HIDE DEF n, start
<1>4. PICK f \in [0..n -> Accs] :
        f[0] = start /\ \A i \in 1..n : f[i] = ConvertKey(f[i - 1], ks, i)
  BY <1>1, <1>3, ConvertRuns
<1>5. f = Body(f)
  <2>1. \A i \in 0..n : f[i] = IF i = 0 THEN start ELSE ConvertKey(f[i - 1], ks, i)
    BY <1>1, <1>4
  <2> QED BY <2>1, <1>4, Zenon
<1>6. g = Body(g)
  <2> HIDE DEF Body
  <2> QED BY <1>5, Zenon
<1> HIDE DEF g
<1>7. g[0] = start /\ \A i \in 1..n : g[i] = ConvertKey(g[i - 1], ks, i)
  <2>1. \A i \in 0..n : g[i] = IF i = 0 THEN start ELSE ConvertKey(g[i - 1], ks, i)
    BY <1>6, Zenon
  <2> QED BY <1>1, <2>1
<1> QED BY <1>2, <1>7 DEF n, start

(* What holds after i keys: a modifier whose last event is a press is among *)
(* the modifiers, and so is one that was there at first and has no event; a *)
(* character is down only if the key was it and the next one is; releases   *)
(* of characters follow presses.                                            *)
Converted(acc, ks, i, first) ==
  /\ acc \in Accs
  /\ \A m \in Modifiers : EndsDown(acc.events, m, Len(acc.events)) => m \in acc.mods
  /\ \A m \in first : (\A j \in 1..Len(acc.events) : acc.events[j].key # m) => m \in acc.mods
  /\ \A k \in Texts : EndsDown(acc.events, k, Len(acc.events)) =>
       i \in 1..(Len(ks) - 1) /\ ks[i + 1] = k
  /\ \A j \in 1..Len(acc.events) :
       acc.events[j].key \in Texts /\ acc.events[j].type = "release"
         => EndsDown(acc.events, acc.events[j].key, j - 1)

LEMMA ConvertedNext ==
  ASSUME NEW ks \in Seq(Keys), NEW first \in SUBSET Modifiers, NEW acc,
         NEW i \in 1..Len(ks), Converted(acc, ks, i - 1, first)
  PROVE  Converted(ConvertKey(acc, ks, i), ks, i, first)
<1>1. acc \in Accs
  BY DEF Converted
<1>2. PICK new \in Seq(Events), mods2 \in SUBSET Modifiers :
        /\ ConvertKey(acc, ks, i) = [mods |-> mods2, events |-> acc.events \o new]
        /\ Adds(new, acc.mods, mods2, ks, i)
  BY <1>1, KeyAdds
<1> DEFINE es == acc.events
           all == es \o new
<1>3. es \in Seq(Events) /\ Len(ks) \in Nat
  BY <1>1 DEF Accs
<1>4. /\ all \in Seq(Events) /\ Len(all) = Len(es) + Len(new)
      /\ Len(es) \in Nat /\ Len(new) \in Nat
      /\ \A j \in 1..Len(es) : all[j] = es[j]
      /\ \A j \in 1..Len(new) : all[Len(es) + j] = new[j]
      /\ \A j \in 1..Len(all) : j \in 1..Len(es) \/ \E l \in 1..Len(new) : j = Len(es) + l
  BY <1>3, Joined
<1>5. \A k : /\ \A n \in 0..Len(es) : EndsDown(es, k, n) => EndsDown(all, k, n)
             /\ \A n \in 0..Len(new) : EndsDown(new, k, n) => EndsDown(all, k, Len(es) + n)
             /\ EndsDown(all, k, Len(all)) =>
                  \/ EndsDown(new, k, Len(new))
                  \/ EndsDown(es, k, Len(es)) /\ \A j \in 1..Len(new) : new[j].key # k
  BY <1>3, Grown
<1>6. /\ \A m \in Modifiers : EndsDown(es, m, Len(es)) => m \in acc.mods
      /\ \A m \in first : (\A j \in 1..Len(es) : es[j].key # m) => m \in acc.mods
      /\ \A k \in Texts : EndsDown(es, k, Len(es)) =>
           i - 1 \in 1..(Len(ks) - 1) /\ ks[(i - 1) + 1] = k
      /\ \A j \in 1..Len(es) :
           es[j].key \in Texts /\ es[j].type = "release" => EndsDown(es, es[j].key, j - 1)
  BY DEF Converted
<1> HIDE DEF es, all
<1>7. ASSUME NEW m \in Modifiers, EndsDown(all, m, Len(all)) PROVE m \in mods2
  <2>1. CASE EndsDown(new, m, Len(new))
    BY <1>2, <2>1 DEF Adds
  <2>2. CASE EndsDown(es, m, Len(es)) /\ \A j \in 1..Len(new) : new[j].key # m
    BY <1>2, <1>6, <2>2 DEF Adds
  <2> QED BY <1>5, <1>7, <2>1, <2>2
<1>8. ASSUME NEW m \in first, \A j \in 1..Len(all) : all[j].key # m PROVE m \in mods2
  <2>1. \A j \in 1..Len(es) : j \in 1..Len(all)
    BY <1>4
  <2>2. \A j \in 1..Len(new) : Len(es) + j \in 1..Len(all)
    BY <1>4
  <2>3. m \in acc.mods
    BY <1>4, <1>6, <1>8, <2>1
  <2>4. \A j \in 1..Len(new) : new[j].key # m
    BY <1>4, <1>8, <2>2
  <2> QED BY <1>2, <2>3, <2>4 DEF Adds
<1>9. ASSUME NEW k \in Texts, EndsDown(all, k, Len(all))
      PROVE  i \in 1..(Len(ks) - 1) /\ ks[i + 1] = k
  <2>1. ~(EndsDown(es, k, Len(es)) /\ \A j \in 1..Len(new) : new[j].key # k)
    <3> SUFFICES ASSUME EndsDown(es, k, Len(es)), \A j \in 1..Len(new) : new[j].key # k
                 PROVE  FALSE
      OBVIOUS
    <3>1. ks[(i - 1) + 1] = k /\ (i - 1) + 1 = i
      BY <1>6
    <3> QED BY <1>2, <3>1 DEF Adds
  <2>2. EndsDown(new, k, Len(new))
    BY <1>5, <1>9, <2>1
  <2>3. i < Len(ks) /\ ks[i + 1] = k
    BY <1>2, <2>2 DEF Adds
  <2> QED BY <1>3, <2>3
<1>10. ASSUME NEW j \in 1..Len(all), all[j].key \in Texts, all[j].type = "release"
       PROVE  EndsDown(all, all[j].key, j - 1)
  <2>1. CASE j \in 1..Len(es)
    <3>1. all[j] = es[j] /\ j - 1 \in 0..Len(es)
      BY <1>4, <2>1
    <3>2. EndsDown(es, es[j].key, j - 1)
      BY <1>6, <1>10, <2>1, <3>1
    <3> QED BY <1>5, <3>1, <3>2
  <2>2. ASSUME NEW l \in 1..Len(new), j = Len(es) + l PROVE EndsDown(all, all[j].key, j - 1)
    <3>1. all[j] = new[l] /\ l - 1 \in 0..Len(new) /\ j - 1 = Len(es) + (l - 1)
      BY <1>4, <2>2
    <3>2. EndsDown(new, new[l].key, l - 1)
      BY <1>2, <1>10, <3>1 DEF Adds
    <3> QED BY <1>5, <3>1, <3>2
  <2> QED BY <1>4, <2>1, <2>2
<1>11. [mods |-> mods2, events |-> all] \in Accs
  BY <1>4 DEF Accs
<1>12. Converted([mods |-> mods2, events |-> all], ks, i, first)
  BY <1>7, <1>8, <1>9, <1>10, <1>11 DEF Converted
<1> QED BY <1>2, <1>12 DEF all, es

LEMMA AllConverted ==
  ASSUME NEW ks \in Seq(Keys), NEW first \in SUBSET Modifiers
  PROVE  /\ Converted(ConvertKeys(ks, first), ks, Len(ks), first)
         /\ Len(ks) > 0 /\ ks[Len(ks)] = Null => ConvertKeys(ks, first).mods = {}
<1> DEFINE n == Len(ks)
<1>1. PICK f : /\ ConvertKeys(ks, first) = f[n]
               /\ f[0] = [mods |-> first, events |-> <<>>]
               /\ \A i \in 1..n : f[i] = ConvertKey(f[i - 1], ks, i)
  BY ConvertLoop
<1>2. n \in Nat
  OBVIOUS
<1> DEFINE T == {i \in 0..n : Converted(f[i], ks, i, first)}
<1>3. 0 \in T
  <2>1. f[0] \in Accs /\ f[0].events = <<>> /\ f[0].mods = first
    BY <1>1 DEF Accs
  <2>2. \A k : ~EndsDown(f[0].events, k, Len(f[0].events))
    BY <2>1 DEF EndsDown
  <2>3. Converted(f[0], ks, 0, first)
    BY <2>1, <2>2 DEF Converted
  <2> QED BY <1>2, <2>3
<1>4. ASSUME NEW i \in 0..(n - 1), i \in T PROVE i + 1 \in T
  <2>1. i + 1 \in 1..n /\ (i + 1) - 1 = i
    BY <1>2
  <2>2. Converted(ConvertKey(f[i], ks, i + 1), ks, i + 1, first)
    BY <1>4, <2>1, ConvertedNext
  <2>3. f[i + 1] = ConvertKey(f[i], ks, i + 1)
    BY <1>1, <2>1
  <2> QED BY <1>2, <2>1, <2>2, <2>3
<1> HIDE DEF T
<1>5. \A i \in 0..n : i \in T
  BY <1>2, <1>3, <1>4, UpTo
<1>6. Converted(f[n], ks, n, first)
  BY <1>2, <1>5 DEF T
<1>7. ASSUME n > 0, ks[n] = Null PROVE f[n].mods = {}
  <2>1. f[n] = ConvertKey(f[n - 1], ks, n)
    BY <1>1, <1>2, <1>7
  <2>2. ConvertKey(f[n - 1], ks, n).mods = {}
    <3>1. ks[n] \notin Modifiers /\ ks[n] \notin Texts
      BY <1>7, Constants
    <3>2. ConvertKey(f[n - 1], ks, n)
            = [mods |-> {}, events |-> f[n - 1].events \o ReleaseAll(f[n - 1].mods)]
      BY <1>7, <3>1, Zenon DEF ConvertKey
    <3> QED BY <3>2
  <2> QED BY <2>1, <2>2
<1> QED BY <1>1, <1>6, <1>7

-----------------------------------------------------------------------------
(* What a command does.                                                     *)
LEMMA Inputs ==
  ASSUME NEW ks \in KeySequences
  PROVE  /\ ks \in Seq(Keys)
         /\ Append(ks, Null) \in Seq(Keys) /\ Len(Append(ks, Null)) > 0
         /\ Append(ks, Null)[Len(Append(ks, Null))] = Null
<1>1. ks \in Seq(Keys)
  BY KeyAssumption DEF KeySequences
<1>2. Null \in Keys
  BY DEF Keys
<1> QED BY <1>1, <1>2, AppendProperties

LEMMA Delivered ==
  ASSUME NEW ks \in Seq(Keys), NEW first \in SUBSET Modifiers
  PROVE  LET c == ConvertKeys(ks, first)
         IN  /\ c.mods \in SUBSET Modifiers /\ c.events \in Seq(Events)
             /\ \A down : See(down, c.events) \subseteq Modifiers
             /\ \A down : See(down, c.events) \subseteq c.mods \cup (down \ KeysOf(c.events))
             /\ first \ KeysOf(c.events) \subseteq c.mods
             /\ \A k \in Texts : ~EndsDown(c.events, k, Len(c.events))
             /\ \A i \in DOMAIN c.events :
                  c.events[i].key \in Texts /\ c.events[i].type = "release"
                    => EndsDown(c.events, c.events[i].key, i - 1)
<1> DEFINE c == ConvertKeys(ks, first)
<1>1. Converted(c, ks, Len(ks), first)
  BY AllConverted
<1> HIDE DEF c
<1>2. c.mods \in SUBSET Modifiers /\ c.events \in Seq(Events)
  BY <1>1 DEF Converted, Accs
<1>3. DOMAIN c.events = 1..Len(c.events)
  BY <1>2
<1>4. Len(ks) \notin 1..(Len(ks) - 1)
  OBVIOUS
<1>5. \A down : See(down, c.events) \subseteq c.mods \cup (down \ KeysOf(c.events))
  BY <1>1 DEF See, Converted, KeysOf
<1>6. first \ KeysOf(c.events) \subseteq c.mods
  BY <1>1, <1>3 DEF Converted, KeysOf
<1>7. \A down : See(down, c.events) \subseteq Modifiers
  BY DEF See
<1>8. \A k \in Texts : ~EndsDown(c.events, k, Len(c.events))
  BY <1>1, <1>4 DEF Converted
<1>9. \A i \in DOMAIN c.events :
         c.events[i].key \in Texts /\ c.events[i].type = "release"
           => EndsDown(c.events, c.events[i].key, i - 1)
  BY <1>1, <1>3 DEF Converted
<1> QED BY <1>2, <1>5, <1>6, <1>7, <1>8, <1>9 DEF c

(* Any events and modifiers of a conversion may be delivered.               *)
LEMMA DeliveredTypes ==
  ASSUME TypeOK, NEW ks \in Seq(Keys), NEW first \in SUBSET Modifiers, NEW mods \in SUBSET Modifiers,
         Deliver(ConvertKeys(ks, first).events, mods)
  PROVE  TypeOK'
<1> DEFINE es == ConvertKeys(ks, first).events
<1>1. es \in Seq(Events) /\ See(held[window], es) \subseteq Modifiers
  BY Delivered
<1> HIDE DEF es
<1>2. /\ sticky' = mods /\ sent' = es /\ window' = window
      /\ held' = [held EXCEPT ![window] = See(held[window], es)]
      /\ forgotten' = [w \in Windows |-> IF w = window THEN forgotten[w] \ KeysOf(es)
                                                      ELSE forgotten[w] \cup (sticky \ mods)]
  BY DEF Deliver, es
<1>3. held' \in [Windows -> SUBSET Modifiers] /\ forgotten' \in [Windows -> SUBSET Modifiers]
  BY <1>1, <1>2 DEF TypeOK
<1> QED BY <1>1, <1>2, <1>3 DEF TypeOK

(* The variables have their types, whatever the keys are.                   *)
THEOREM TypeCorrect == Spec => []TypeOK
<1>1. Init => TypeOK
  BY DEF Init, TypeOK
<1>2. TypeOK /\ [Next]_vars => TypeOK'
  <2> SUFFICES ASSUME TypeOK, [Next]_vars PROVE TypeOK'
    OBVIOUS
  <2>1. CASE UNCHANGED vars
    BY <2>1 DEF TypeOK, vars
  <2>2. ASSUME NEW ks \in KeySequences, SendKeys(ks) PROVE TypeOK'
    <3>1. ks \in Seq(Keys) /\ sticky \in SUBSET Modifiers
      BY Inputs DEF TypeOK
    <3>2. ConvertKeys(ks, sticky).mods \in SUBSET Modifiers
      BY <3>1, Delivered
    <3>3. Deliver(ConvertKeys(ks, sticky).events, ConvertKeys(ks, sticky).mods)
      BY <2>2 DEF SendKeys
    <3> QED BY <3>1, <3>2, <3>3, DeliveredTypes
  <2>3. ASSUME NEW ks \in KeySequences, SendKeysToElement(ks) PROVE TypeOK'
    <3>1. Append(ks, Null) \in Seq(Keys) /\ {} \in SUBSET Modifiers /\ sticky \in SUBSET Modifiers
      BY Inputs DEF TypeOK
    <3>2. Deliver(ConvertKeys(Append(ks, Null), {}).events, sticky)
      BY <2>3 DEF SendKeysToElement
    <3> QED BY <3>1, <3>2, DeliveredTypes
  <2>4. ASSUME NEW ks \in KeySequences, FailToConvert(ks) PROVE TypeOK'
    BY <2>4 DEF TypeOK, FailToConvert
  <2>5. ASSUME NEW w \in Windows, SwitchToView(w) PROVE TypeOK'
    BY <2>5 DEF TypeOK, SwitchToView
  <2> QED BY <2>1, <2>2, <2>3, <2>4, <2>5 DEF Next
<1> QED BY <1>1, <1>2, PTL DEF Spec

(* The current window and the others, when it gets events that leave the    *)
(* session with the modifiers mods.                                         *)
LEMMA DeliveredKnown ==
  ASSUME TypeOK, HeldKeysAreKnown, NEW es, NEW mods \in SUBSET Modifiers, Deliver(es, mods),
         See(held[window], es) \subseteq mods \cup (held[window] \ KeysOf(es)),
         sticky \ KeysOf(es) \subseteq mods
  PROVE  HeldKeysAreKnown'
<1> SUFFICES ASSUME NEW w \in Windows PROVE held'[w] \subseteq sticky' \cup forgotten'[w]
  BY DEF HeldKeysAreKnown
<1>1. held[w] \subseteq sticky \cup forgotten[w] /\ sticky' = mods
  BY DEF HeldKeysAreKnown, Deliver
<1>2. CASE w = window
  <2>1. held'[w] = See(held[w], es) /\ forgotten'[w] = forgotten[w] \ KeysOf(es)
    BY <1>2 DEF TypeOK, Deliver
  <2> QED BY <1>1, <1>2, <2>1
<1>3. CASE w # window
  <2>1. held'[w] = held[w] /\ forgotten'[w] = forgotten[w] \cup (sticky \ mods)
    BY <1>3 DEF TypeOK, Deliver
  <2> QED BY <1>1, <2>1
<1> QED BY <1>2, <1>3

(* Whatever keys the commands sent before, to the views or to elements, and  *)
(* however the client went from window to window, the session knows every    *)
(* modifier that is down in a window, unless keys to another window have      *)
(* released it meanwhile: a later null key to the view releases them all.    *)
THEOREM HeldModifiersAreKnown == Spec => []HeldKeysAreKnown
<1>1. Init => HeldKeysAreKnown
  BY DEF Init, HeldKeysAreKnown
<1>2. TypeOK /\ HeldKeysAreKnown /\ [Next]_vars => HeldKeysAreKnown'
  <2> SUFFICES ASSUME TypeOK, HeldKeysAreKnown, [Next]_vars PROVE HeldKeysAreKnown'
    OBVIOUS
  <2>1. CASE UNCHANGED vars
    BY <2>1 DEF HeldKeysAreKnown, vars
  <2>2. ASSUME NEW ks \in KeySequences, SendKeys(ks) PROVE HeldKeysAreKnown'
    <3> DEFINE c == ConvertKeys(ks, sticky)
    <3>1. ks \in Seq(Keys) /\ sticky \in SUBSET Modifiers
      BY Inputs DEF TypeOK
    <3>2. /\ c.mods \in SUBSET Modifiers /\ sticky \ KeysOf(c.events) \subseteq c.mods
          /\ See(held[window], c.events) \subseteq c.mods \cup (held[window] \ KeysOf(c.events))
      BY <3>1, Delivered
    <3>3. Deliver(c.events, c.mods)
      BY <2>2 DEF SendKeys
    <3> HIDE DEF c
    <3> QED BY <3>2, <3>3, DeliveredKnown
  <2>3. ASSUME NEW ks \in KeySequences, SendKeysToElement(ks) PROVE HeldKeysAreKnown'
    <3> DEFINE c == ConvertKeys(Append(ks, Null), {})
    <3>1. Append(ks, Null) \in Seq(Keys) /\ {} \in SUBSET Modifiers
      BY Inputs
    <3>2. c.mods = {}
      BY <3>1, Inputs, AllConverted
    <3>3. See(held[window], c.events) \subseteq c.mods \cup (held[window] \ KeysOf(c.events))
      BY <3>1, Delivered
    <3>4. Deliver(c.events, sticky) /\ sticky \in SUBSET Modifiers
      BY <2>3 DEF SendKeysToElement, TypeOK
    <3> HIDE DEF c
    <3>5. See(held[window], c.events) \subseteq sticky \cup (held[window] \ KeysOf(c.events))
      BY <3>2, <3>3
    <3> QED BY <3>4, <3>5, DeliveredKnown
  <2>4. ASSUME NEW ks \in KeySequences, FailToConvert(ks) PROVE HeldKeysAreKnown'
    BY <2>4 DEF HeldKeysAreKnown, FailToConvert
  <2>5. ASSUME NEW w \in Windows, SwitchToView(w) PROVE HeldKeysAreKnown'
    BY <2>5 DEF HeldKeysAreKnown, SwitchToView
  <2> QED BY <2>1, <2>2, <2>3, <2>4, <2>5 DEF Next
<1> QED BY <1>1, <1>2, TypeCorrect, PTL DEF Spec

(* However the keys of a command repeat, with one release for a run of the  *)
(* same key or one for each, every character is up when the command has     *)
(* sent its events, and no release comes without a press.                   *)
THEOREM CharactersAreReleased == Spec => []CharactersEndReleased
<1>0. ASSUME sent = <<>> PROVE CharactersEndReleased
  BY <1>0 DEF CharactersEndReleased, EndsDown
<1>1. Init => CharactersEndReleased
  BY <1>0 DEF Init
<1>2. TypeOK /\ CharactersEndReleased /\ [Next]_vars => CharactersEndReleased'
  <2> SUFFICES ASSUME TypeOK, CharactersEndReleased, [Next]_vars
               PROVE  CharactersEndReleased'
    OBVIOUS
  <2>1. CASE UNCHANGED vars
    BY <2>1 DEF CharactersEndReleased, vars
  <2>2. ASSUME NEW ks \in Seq(Keys), NEW first \in SUBSET Modifiers,
               sent' = ConvertKeys(ks, first).events
        PROVE  CharactersEndReleased'
    <3> DEFINE es == ConvertKeys(ks, first).events
    <3>1. /\ \A k \in Texts : ~EndsDown(es, k, Len(es))
          /\ \A i \in DOMAIN es : es[i].key \in Texts /\ es[i].type = "release"
                                    => EndsDown(es, es[i].key, i - 1)
      BY Delivered
    <3> QED BY <2>2, <3>1 DEF CharactersEndReleased
  <2>3. ASSUME NEW ks \in KeySequences, SendKeys(ks) PROVE CharactersEndReleased'
    BY <2>2, <2>3, Inputs DEF TypeOK, SendKeys, Deliver
  <2>4. ASSUME NEW ks \in KeySequences, SendKeysToElement(ks) PROVE CharactersEndReleased'
    <3>1. Append(ks, Null) \in Seq(Keys) /\ {} \in SUBSET Modifiers
      BY Inputs
    <3>2. sent' = ConvertKeys(Append(ks, Null), {}).events
      BY <2>4 DEF SendKeysToElement, Deliver
    <3> QED BY <2>2, <3>1, <3>2
  <2>5. ASSUME NEW ks \in KeySequences, FailToConvert(ks) PROVE CharactersEndReleased'
    BY <2>5 DEF FailToConvert, CharactersEndReleased, EndsDown
  <2>6. ASSUME NEW w \in Windows, SwitchToView(w) PROVE CharactersEndReleased'
    BY <2>6 DEF SwitchToView, CharactersEndReleased, EndsDown
  <2> QED BY <2>1, <2>3, <2>4, <2>5, <2>6 DEF Next
<1> QED BY <1>1, <1>2, TypeCorrect, PTL DEF Spec
===============================================================================
