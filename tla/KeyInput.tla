------------------------------- MODULE KeyInput -------------------------------
(***************************************************************************)
(* Key input: the conversion of the keys that a client sends into key      *)
(* events, and the modifier keys that stay pressed between commands.       *)
(*                                                                         *)
(* Keys sent to the view start from the modifiers of the session           *)
(* (Session::sticky_modifiers_) and leave them as they end up.  Keys sent  *)
(* to an element start from none and release what they press.  Both go to  *)
(* the current window, which sees one stream of events.  A client that     *)
(* changes to another window takes the modifiers of the session with it.   *)
(***************************************************************************)
EXTENDS Naturals, Sequences, SequencesExt

CONSTANTS Windows,          \* the windows of the session
          ModifierOrder,    \* the modifiers, in the order they are released
          Texts,            \* keys that make a character
          Null,             \* kWebDriverNullKey: release all modifiers
          Skipped,          \* a key that is passed over
          Unknown,          \* a key in the special range that has no code
          MaxKeys,          \* bound: keys in a command
          OneKeyRelease     \* WD_ENABLE_ONE_KEYRELEASE

Modifiers == Range(ModifierOrder)
Keys == Modifiers \cup Texts \cup {Null, Skipped, Unknown}

ASSUME KeyAssumption ==
    /\ ModifierOrder \in Seq(Modifiers) /\ IsInjective(ModifierOrder)
    /\ Modifiers \cap Texts = {}
    /\ {Null, Skipped, Unknown} \cap (Modifiers \cup Texts) = {}
    /\ Windows # {}
    /\ MaxKeys \in Nat /\ OneKeyRelease \in BOOLEAN

KeySequences == UNION {[1..n -> Keys] : n \in 0..MaxKeys}

VARIABLES
    sticky,     \* Session::sticky_modifiers_
    window,     \* Session::current_view_id_
    held,       \* per window, the modifiers whose last event in it was a press
    forgotten,  \* history: per window, the modifiers that keys sent to another window
                \* have released in the session, and that had no event in this one since
    sent        \* the events of the last command

vars == <<sticky, window, held, forgotten, sent>>

Press(k, mods)   == [type |-> "press", key |-> k, mods |-> mods]
Release(k, mods) == [type |-> "release", key |-> k, mods |-> mods]
Events == [type : {"press", "release"}, key : Modifiers \cup Texts, mods : SUBSET Modifiers]

TypeOK ==
    /\ sticky \subseteq Modifiers /\ window \in Windows
    /\ held \in [Windows -> SUBSET Modifiers] /\ forgotten \in [Windows -> SUBSET Modifiers]
    /\ sent \in Seq(Events)

Init ==
    /\ sticky = {} /\ window \in Windows
    /\ held = [w \in Windows |-> {}] /\ forgotten = [w \in Windows |-> {}]
    /\ sent = <<>>

-------------------------------------------------------------------------------
(* ConvertKeysToWebKeyEvents. *)

(* The null key: the releases carry no modifier, though others are down.   *)
ReleaseAll(mods) ==
    LET releases[i \in 0..Len(ModifierOrder)] ==
          IF i = 0 THEN <<>>
          ELSE IF ModifierOrder[i] \in mods
            THEN Append(releases[i - 1], Release(ModifierOrder[i], {}))
            ELSE releases[i - 1]
    IN  releases[Len(ModifierOrder)]

(* A modifier key toggles. *)
Toggle(mods, k) == IF k \in mods THEN mods \ {k} ELSE mods \cup {k}
ToggleEvent(mods, k) ==
    IF k \in mods THEN Release(k, Toggle(mods, k)) ELSE Press(k, Toggle(mods, k))

(* Mutant: the first press of a repeated key is the one that is released.  *)
SendsFirstRelease(ks, i) == ~OneKeyRelease \/ i = 1 \/ ks[i] # ks[i - 1]

(* A repeated key is released once, after the last press. *)
SendsRelease(ks, i) == ~OneKeyRelease \/ i = Len(ks) \/ ks[i] # ks[i + 1]
TextEvents(mods, ks, i) ==
    IF SendsRelease(ks, i) THEN <<Press(ks[i], mods), Release(ks[i], mods)>>
                           ELSE <<Press(ks[i], mods)>>

(* Mutant: only modifiers are special. *)
ConvertKeyPlainly(acc, ks, i) ==
    IF ks[i] \in Modifiers
      THEN [mods   |-> Toggle(acc.mods, ks[i]),
            events |-> acc.events \o <<ToggleEvent(acc.mods, ks[i])>>]
      ELSE [acc EXCEPT !.events = @ \o TextEvents(acc.mods, ks, i)]

(* What the loop does with a key: the modifiers and the events so far.     *)
ConvertKey(acc, ks, i) ==
    LET k == ks[i]
    IN  CASE k = Null        -> [mods |-> {}, events |-> acc.events \o ReleaseAll(acc.mods)]
          [] k \in Modifiers -> [mods   |-> Toggle(acc.mods, k),
                                 events |-> acc.events \o <<ToggleEvent(acc.mods, k)>>]
          [] k \in Texts     -> [acc EXCEPT !.events = @ \o TextEvents(acc.mods, ks, i)]
          [] OTHER           -> acc

Convertible(ks) == Unknown \notin Range(ks)
ConvertKeys(ks, mods) ==
    LET loop[i \in 0..Len(ks)] ==
          IF i = 0 THEN [mods |-> mods, events |-> <<>>] ELSE ConvertKey(loop[i - 1], ks, i)
    IN  loop[Len(ks)]

-------------------------------------------------------------------------------
(* Commands. *)

(* After the first n events, the last one of the key k is a press.         *)
EndsDown(events, k, n) ==
    \E i \in 1..n : /\ events[i].key = k /\ events[i].type = "press"
                    /\ \A j \in (i + 1)..n : events[j].key # k

(* The window keeps what it has of the keys that have no event.            *)
See(down, events) ==
    {m \in Modifiers : \/ EndsDown(events, m, Len(events))
                      \/ /\ m \in down
                         /\ \A i \in DOMAIN events : events[i].key # m}

KeysOf(events) == {events[i].key : i \in DOMAIN events}

(* The current window has the events; the session goes on with mods.       *)
Deliver(events, mods) ==
    /\ sticky' = mods /\ sent' = events
    /\ held' = [held EXCEPT ![window] = See(@, events)]
    /\ forgotten' = [w \in Windows |-> IF w = window THEN forgotten[w] \ KeysOf(events)
                                                    ELSE forgotten[w] \cup (sticky \ mods)]
    /\ UNCHANGED window

(* POST /keys.  Keys that cannot be converted are not sent at all. *)
SendKeys(ks) ==
    /\ Convertible(ks)
    /\ LET c == ConvertKeys(ks, sticky) IN Deliver(c.events, c.mods)

(* POST /element/:id/value, with a null key at the end. *)
SendKeysToElement(ks) ==
    /\ Convertible(ks)
    /\ Deliver(ConvertKeys(Append(ks, Null), {}).events, sticky)

(* Mutant: the modifiers reached before the unknown key are kept. *)
FailAndKeep(ks) ==
    /\ ~Convertible(ks)
    /\ sticky' = ConvertKeys(SelectSeq(ks, LAMBDA k : k # Unknown), sticky).mods
    /\ sent' = <<>> /\ UNCHANGED <<window, held, forgotten>>

(* The conversion gives up at the unknown key; what it has converted so    *)
(* far and the modifiers it has reached are dropped.                       *)
FailToConvert(ks) ==
    /\ ~Convertible(ks)
    /\ sent' = <<>> /\ UNCHANGED <<sticky, window, held, forgotten>>

(* POST /window.  The modifiers of the session stay what they are. *)
SwitchToView(w) ==
    /\ window' = w
    /\ sent' = <<>> /\ UNCHANGED <<sticky, held, forgotten>>

Next ==
    \/ \E ks \in KeySequences : SendKeys(ks) \/ SendKeysToElement(ks) \/ FailToConvert(ks)
    \/ \E w \in Windows : SwitchToView(w)

Spec == Init /\ [][Next]_vars

-------------------------------------------------------------------------------
(* Properties. *)

(* The session knows of every modifier that is down in a window, so the     *)
(* next null key sent to it releases it, and keys sent to an element leave  *)
(* none pressed.  The only ones it does not know are those that keys to     *)
(* another window have released, for it has one set for all of them.  (It   *)
(* may take one for down that keys to an element released.)                 *)
HeldKeysAreKnown == \A w \in Windows : held[w] \subseteq sticky \cup forgotten[w]

(* Whatever is repeated, a key that makes a character is up at the end of  *)
(* a command, and its releases follow presses.                             *)
CharactersEndReleased ==
    /\ \A k \in Texts : ~EndsDown(sent, k, Len(sent))
    /\ \A i \in DOMAIN sent :
          sent[i].key \in Texts /\ sent[i].type = "release" => EndsDown(sent, sent[i].key, i - 1)
===============================================================================
