------------------------------ MODULE KeyInput ------------------------------
(***************************************************************************)
(* Key presses and mouse clicks of the browser session: one call is a      *)
(* sequence of input commands, each sent when the one before has been      *)
(* answered; a command that fails ends the call and what it had pressed    *)
(* stays pressed in Chrome.                                                *)
(***************************************************************************)
EXTENDS Sequences, SequencesExt, FiniteSets, Naturals

CONSTANTS
  KeyTexts,      \* the texts of send_keys, each split at its '+' signs
  MaxKeyCalls    \* bound: calls

KeyInputAssumption ==
  /\ \A t \in KeyTexts : t \in Seq(STRING) /\ t # <<>>
  /\ MaxKeyCalls \in Nat
ASSUME KeyInputAssumption

VARIABLES
  kiLeft,        \* the commands of the call still to be answered
  kiHeld,        \* the keys and buttons Chrome holds pressed
  kiStuck,       \* those a failed call left pressed
  kiCalls        \* calls so far

kiVars == <<kiLeft, kiHeld, kiStuck, kiCalls>>

Modifiers == {"Alt", "Control", "Meta", "Shift"}
SpecialKeys ==
  Modifiers \cup
  {"Enter", "Tab", "Delete", "Backspace", "Escape", "ArrowUp", "ArrowDown", "ArrowLeft",
   "ArrowRight", "PageUp", "PageDown", "Home", "End", "F1", "F2", "F3", "F4", "F5", "F6",
   "F7", "F8", "F9", "F10", "F11", "F12"}

\* The names a key goes by, letter case and blanks around them left out.
KeyAliases ==
  [ctrl |-> "Control", control |-> "Control", alt |-> "Alt", option |-> "Alt",
   meta |-> "Meta", cmd |-> "Meta", command |-> "Meta", shift |-> "Shift",
   enter |-> "Enter", return |-> "Enter", tab |-> "Tab", delete |-> "Delete",
   backspace |-> "Backspace", escape |-> "Escape", esc |-> "Escape", space |-> " ",
   up |-> "ArrowUp", down |-> "ArrowDown", left |-> "ArrowLeft", right |-> "ArrowRight",
   pageup |-> "PageUp", pagedown |-> "PageDown", home |-> "Home", end |-> "End"]
KeyName(name) == IF name \in DOMAIN KeyAliases THEN KeyAliases[name] ELSE name

\* The modifier bits as the set of the modifiers.
ModifierMask(names) == Modifiers \cap ToSet(names)
InputEvent(type, key, mask) == [type |-> type, key |-> key, mask |-> mask]

\* A slip that forgets to let the modifiers go.
CombinationFault(names) ==
  LET modifiers == Front(names)
      Each(type) == [i \in DOMAIN modifiers |-> InputEvent(type, modifiers[i], {})]
      Main(type) == InputEvent(type, Last(names), ModifierMask(modifiers))
  IN  Each("keyDown") \o <<Main("keyDown"), Main("keyUp")>>

\* Modifiers go down in order, the main key goes down and up, modifiers go up
\* in the opposite order.
Combination(names) ==
  LET modifiers == Front(names)
      Each(type) == [i \in DOMAIN modifiers |-> InputEvent(type, modifiers[i], {})]
      Main(type) == InputEvent(type, Last(names), ModifierMask(modifiers))
  IN  Each("keyDown") \o <<Main("keyDown"), Main("keyUp")>> \o Reverse(Each("keyUp"))

Press(key) ==
  <<InputEvent("keyDown", key, {})>>
  \o (IF key = "Enter" THEN <<InputEvent("char", key, {})>> ELSE <<>>)
  \o <<InputEvent("keyUp", key, {})>>

\* A text with a '+' in it is always read as a combination.
KeyCommands(text) ==
  LET names == [i \in DOMAIN text |-> KeyName(text[i])]
  IN  IF Len(names) > 1 THEN Combination(names)
      ELSE IF names[1] \in SpecialKeys THEN Press(names[1])
      ELSE <<InputEvent("insertText", names[1], {})>>

ClickCommands ==
  <<InputEvent("mousePressed", "left button", {}), InputEvent("mouseReleased", "left button", {})>>

\* What Chrome holds after a command.
HeldAfter(held, event) ==
  IF event.type \in {"keyDown", "mousePressed"} THEN held \cup {event.key}
  ELSE IF event.type \in {"keyUp", "mouseReleased"} THEN held \ {event.key}
  ELSE held

KiInit == kiLeft = <<>> /\ kiHeld = {} /\ kiStuck = {} /\ kiCalls = 0

KiStarts(commands) ==
  /\ kiLeft = <<>> /\ kiCalls < MaxKeyCalls
  /\ kiLeft' = commands
  /\ kiCalls' = kiCalls + 1
  /\ UNCHANGED <<kiHeld, kiStuck>>

KiSendKeys == \E text \in KeyTexts : KiStarts(KeyCommands(text))
KiClickCoordinates == KiStarts(ClickCommands)

KiAnswered ==
  /\ kiLeft # <<>>
  /\ kiHeld' = HeldAfter(kiHeld, Head(kiLeft))
  /\ kiStuck' = kiStuck \cap kiHeld'
  /\ kiLeft' = Tail(kiLeft)
  /\ UNCHANGED kiCalls

\* The command fails, carried out or not; the rest of the call is not sent.
KiFails ==
  /\ kiLeft # <<>>
  /\ kiHeld' \in {kiHeld, HeldAfter(kiHeld, Head(kiLeft))}
  /\ kiStuck' = kiHeld'
  /\ kiLeft' = <<>>
  /\ UNCHANGED kiCalls

KiNext == KiSendKeys \/ KiClickCoordinates \/ KiAnswered \/ KiFails

-----------------------------------------------------------------------------
KiTypeOK ==
  /\ kiStuck \subseteq kiHeld /\ kiCalls \in 0..MaxKeyCalls
  /\ \A i \in DOMAIN kiLeft : kiLeft[i].mask \subseteq Modifiers

\* Between calls Chrome holds only what a failed call left pressed, and while
\* a main key is down it is with the modifiers its mask names: the events of
\* the calls that succeed pair up whatever calls failed before them.
KeysAreReleased ==
  /\ kiLeft = <<>> => kiHeld \subseteq kiStuck
  /\ kiLeft # <<>> => Head(kiLeft).mask \subseteq kiHeld
=============================================================================
