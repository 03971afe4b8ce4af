-------------------------- MODULE ActionPartsProofs --------------------------
(***************************************************************************)
(* What the actions of an agent reach: the keys and buttons they press     *)
(* (KeyInput), the files they write (ManagedFiles), the elements they are  *)
(* replayed on (ActionReplay), those their indices stand for               *)
(* (ElementIndex) and the pages they begin on (ActionExecutor).  In each a *)
(* failure half-way or a change of the page comes between; what holds all  *)
(* the same is proved for any keys, files, pages, answers and histories,   *)
(* and any number of calls.                                                *)
(***************************************************************************)
EXTENDS KeyInput, ElementIndex, ManagedFiles, ActionReplay, ActionExecutor, SequenceTheorems, FiniteSetTheorems, TLAPS

KiSpec == KiInit /\ [][KiNext]_kiVars
RpSpec == RpInit /\ [][RpNext]_rpVars
MfSpec == MfInit /\ [][MfNext]_mfVars

-----------------------------------------------------------------------------
(* KeyInput: the inductive invariant *)

Keys == {KeyName(name) : name \in STRING} \cup {"left button"}
EventTypes == {"keyDown", "char", "keyUp", "insertText", "mousePressed", "mouseReleased"}
InputEvents == [type : EventTypes, key : Keys, mask : SUBSET Modifiers]
Presses(e) == e.type \in {"keyDown", "mousePressed"}
LetsGo(e) == e.type \in {"keyUp", "mouseReleased"}

\* Every press among the commands has its release after it.
PressesEnd(commands) ==
  \A i \in 1..Len(commands) : Presses(commands[i]) =>
    \E j \in (i + 1)..Len(commands) : LetsGo(commands[j]) /\ commands[j].key = commands[i].key

\* The modifiers a command names are held when its turn comes: they are now or
\* are pressed before, and are not let go before.
MasksAreHeld(commands, held) ==
  \A i \in 1..Len(commands) : \A m \in commands[i].mask :
    /\ m \in held \/ \E j \in 1..(i - 1) : Presses(commands[j]) /\ commands[j].key = m
    /\ \A j \in 1..(i - 1) : LetsGo(commands[j]) => commands[j].key # m

\* What is held and was not left by a failed call is let go by this one.
HeldEnds ==
  \A key \in kiHeld \ kiStuck :
    \E j \in 1..Len(kiLeft) : LetsGo(kiLeft[j]) /\ kiLeft[j].key = key

KiInv ==
  /\ kiLeft \in Seq(InputEvents)
  /\ PressesEnd(kiLeft) /\ MasksAreHeld(kiLeft, kiHeld) /\ HeldEnds

-----------------------------------------------------------------------------
(* ManagedFiles: the inductive invariant *)

\* The extracts promised of some files: each is there, under a number given out.
PromisesKept(extracts, files, count) ==
  \A x \in extracts :
    /\ x.name \in DOMAIN files /\ files[x.name] = x.content
    /\ \E i \in 0..(count - 1) : x.name = ExtractName(i)

CountsFit ==
  /\ mfSteps \in 0..MaxFileSteps
  /\ mfCount \in 0..mfSteps /\ mfSaved.count \in 0..mfSteps

MfInv ==
  /\ CountsFit /\ ManagedFilesAgree
  /\ PromisesKept(mfExtracts, mfFiles, mfCount)
  /\ PromisesKept(mfSaved.extracts, mfSaved.files, mfSaved.count)

-----------------------------------------------------------------------------
(* ActionReplay: the inductive invariant *)

RpElems == [el : DOMAIN Looks, toggled : BOOLEAN]
RpItems ==
  [kind : {"click", "wait", "navigate", "done"}, index : Nat, from : Nat, wanted : SUBSET RpElems]
RpTyped ==
  /\ rpPage \in Seq(RpElems) /\ rpCache \in Seq(RpElems) /\ rpDom \in Seq(RpElems)
  /\ rpLeft \in Seq(RpItems)
  /\ rpStage \in {"idle", "item", "execute", "after", "stopped"}
  /\ rpMode \in {"none", "replay", "plan", "sequence"}
  /\ rpMode = "none" <=> rpStage = "idle"

\* The action has the index its element was found at, or chosen by.
Matched(item, dom) == \A x \in item.wanted : item.index \in Rematched(x, item.from, dom)
Chosen(item, dom) ==
  \A x \in item.wanted : item.index \in DOMAIN dom /\ dom[item.index] = x

WantsAtMostOne == \A k \in DOMAIN rpLeft : \A x, y \in rpLeft[k].wanted : x = y
MatchesAreOfCapture ==
  /\ rpMode = "plan" /\ rpStage # "stopped" => \A k \in DOMAIN rpLeft : Matched(rpLeft[k], rpDom)
  /\ rpMode = "sequence" => \A k \in DOMAIN rpLeft : Chosen(rpLeft[k], rpDom)
  /\ rpMode = "replay" /\ rpStage = "execute" => Matched(Head(rpLeft), rpDom)

RpInv ==
  /\ RpTyped /\ WantsAtMostOne /\ MatchesAreOfCapture /\ ActsOnOriginalElement
  /\ rpMode = "none" => rpActed = NothingReplayed
  /\ rpStage \in {"execute", "after"} => rpLeft # <<>>

-----------------------------------------------------------------------------
(* KeyInput: the commands of a call *)

\* An input event has the type, key and modifiers it was made with.
LEMMA EventFields ==
  ASSUME NEW type \in EventTypes, NEW key \in Keys, NEW mask \in SUBSET Modifiers
  PROVE  LET e == InputEvent(type, key, mask)
         IN  e \in InputEvents /\ e.type = type /\ e.key = key /\ e.mask = mask
BY DEF InputEvent, InputEvents

\* A function from 1..n is a sequence of length n.
LEMMA FunctionIsSeq ==
  ASSUME NEW S, NEW n \in Nat, NEW f \in [1..n -> S]
  PROVE  f \in Seq(S) /\ Len(f) = n
OBVIOUS

\* The names of a text's keys are keys, as many as the text has and at least
\* one.
LEMMA NamesOfText ==
  ASSUME NEW text \in KeyTexts
  PROVE  LET names == [i \in DOMAIN text |-> KeyName(text[i])]
         IN  names \in Seq(Keys) /\ Len(names) = Len(text) /\ Len(text) \in Nat \ {0}
<1> DEFINE names == [i \in DOMAIN text |-> KeyName(text[i])]
<1>1. text \in Seq(STRING) /\ text # <<>>
  BY KeyInputAssumption DEF KeyInputAssumption
<1>2. Len(text) \in Nat \ {0} /\ DOMAIN text = 1..Len(text)
  BY <1>1
<1>3. ASSUME NEW i \in 1..Len(text) PROVE KeyName(text[i]) \in Keys
  <2>1. text[i] \in STRING
    BY <1>1
  <2>2. QED
    BY <2>1, Zenon DEF Keys
<1>4. names \in [1..Len(text) -> Keys]
  BY <1>2, <1>3
<1> HIDE DEF names
<1>5. names \in Seq(Keys) /\ Len(names) = Len(text)
  BY <1>2, <1>4, FunctionIsSeq
<1>6. QED
  BY <1>2, <1>5 DEF names

\* The commands of one kind, one for each key.
LEMMA EachCommands ==
  ASSUME NEW n \in Nat, NEW keys, \A i \in 1..n : keys[i] \in Keys, NEW type \in EventTypes
  PROVE  LET each == [i \in 1..n |-> InputEvent(type, keys[i], {})]
         IN  /\ each \in Seq(InputEvents) /\ Len(each) = n
             /\ \A i \in 1..n : each[i] = InputEvent(type, keys[i], {})
<1> DEFINE each == [i \in 1..n |-> InputEvent(type, keys[i], {})]
<1>1. \A i \in 1..n : InputEvent(type, keys[i], {}) \in InputEvents
  BY EventFields
<1>2. each \in [1..n -> InputEvents] /\ \A i \in 1..n : each[i] = InputEvent(type, keys[i], {})
  BY <1>1
<1> HIDE DEF each
<1>3. each \in Seq(InputEvents) /\ Len(each) = n
  BY <1>2, FunctionIsSeq
<1>4. QED
  BY <1>2, <1>3 DEF each

\* A combination, command by command.
LEMMA CombinationCommands ==
  ASSUME NEW names \in Seq(Keys), NEW n \in Nat, Len(names) = n + 1
  PROVE  LET c == Combination(names)
             mask == ModifierMask(Front(names))
         IN  /\ c \in Seq(InputEvents) /\ Len(c) = 2 * n + 2
             /\ mask \subseteq Modifiers /\ \A m \in mask : \E p \in 1..n : m = names[p]
             /\ \A i \in 1..n : c[i] = InputEvent("keyDown", names[i], {})
             /\ c[n + 1] = InputEvent("keyDown", names[n + 1], mask)
             /\ c[n + 2] = InputEvent("keyUp", names[n + 1], mask)
             /\ \A i \in 1..n : c[n + 2 + i] = InputEvent("keyUp", names[n + 1 - i], {})
<1> DEFINE modifiers == Front(names)
           mask == ModifierMask(modifiers)
           downs == [i \in 1..n |-> InputEvent("keyDown", names[i], {})]
           ups == [i \in 1..n |-> InputEvent("keyUp", names[i], {})]
           back == Reverse(ups)
           down == InputEvent("keyDown", names[n + 1], mask)
           up == InputEvent("keyUp", names[n + 1], mask)
           main == <<down, up>>
           first == downs \o main
           c == Combination(names)
<1>1. \A i \in 1..(n + 1) : names[i] \in Keys
  OBVIOUS
<1>2. /\ modifiers \in Seq(Keys) /\ Len(modifiers) = n /\ DOMAIN modifiers = 1..n
      /\ \A i \in 1..n : modifiers[i] = names[i]
      /\ Last(names) = names[n + 1]
  <2>1. modifiers = SubSeq(names, 1, n) /\ Last(names) = names[n + 1]
    BY DEF Front, Last
  <2> HIDE DEF modifiers
  <2>2. /\ modifiers \in Seq(Keys) /\ Len(modifiers) = (IF 1 <= n THEN n - 1 + 1 ELSE 0)
        /\ \A i \in 1..(n - 1 + 1) : modifiers[i] = names[1 + i - 1]
    <3>1. \A i \in 1..n : names[i] \in Keys
      BY <1>1
    <3>2. 1 \in Int /\ n \in Int
      OBVIOUS
    <3>3. QED
      BY <2>1, <3>1, <3>2, SubSeqProperties
  <2>3. QED
    BY <2>1, <2>2
<1>3. mask \subseteq Modifiers /\ \A m \in mask : \E p \in 1..n : m = names[p]
  BY <1>2 DEF ModifierMask, ToSet
<1>4. c = first \o back
  <2> HIDE DEF modifiers
  <2>1. \A type \in EventTypes :
          [i \in DOMAIN modifiers |-> InputEvent(type, modifiers[i], {})]
            = [i \in 1..n |-> InputEvent(type, names[i], {})]
    BY <1>2
  <2>2. /\ [i \in DOMAIN modifiers |-> InputEvent("keyDown", modifiers[i], {})] = downs
        /\ [i \in DOMAIN modifiers |-> InputEvent("keyUp", modifiers[i], {})] = ups
    BY <2>1 DEF EventTypes
  <2>3. /\ InputEvent("keyDown", Last(names), ModifierMask(modifiers)) = down
        /\ InputEvent("keyUp", Last(names), ModifierMask(modifiers)) = up
    BY <1>2
  <2>4. c = [i \in DOMAIN modifiers |-> InputEvent("keyDown", modifiers[i], {})]
            \o <<InputEvent("keyDown", Last(names), ModifierMask(modifiers)),
                 InputEvent("keyUp", Last(names), ModifierMask(modifiers))>>
            \o Reverse([i \in DOMAIN modifiers |-> InputEvent("keyUp", modifiers[i], {})])
    BY Zenon DEF Combination, modifiers
  <2> HIDE DEF c, downs, ups, down, up, mask
  <2>5. QED
    BY <2>2, <2>3, <2>4
<1> HIDE DEF modifiers, mask
<1>5. down \in InputEvents /\ up \in InputEvents
  <2>1. names[n + 1] \in Keys
    BY <1>1
  <2>2. mask \in SUBSET Modifiers
    BY <1>3
  <2>3. QED
    BY <2>1, <2>2 DEF InputEvent, InputEvents, EventTypes
<1>6. /\ downs \in Seq(InputEvents) /\ Len(downs) = n
      /\ \A i \in 1..n : downs[i] = InputEvent("keyDown", names[i], {})
  <2>1. \A i \in 1..n : names[i] \in Keys
    BY <1>1
  <2>2. QED
    BY <2>1, EachCommands DEF EventTypes
<1>7. /\ ups \in Seq(InputEvents) /\ Len(ups) = n
      /\ \A i \in 1..n : ups[i] = InputEvent("keyUp", names[i], {})
  <2>1. \A i \in 1..n : names[i] \in Keys
    BY <1>1
  <2>2. QED
    BY <2>1, EachCommands DEF EventTypes
<1> HIDE DEF downs, ups, down, up
<1>8. main \in Seq(InputEvents) /\ Len(main) = 2 /\ main[1] = down /\ main[2] = up
  BY <1>5
<1>9. /\ back \in Seq(InputEvents) /\ Len(back) = n
      /\ \A i \in 1..n : back[i] = InputEvent("keyUp", names[n + 1 - i], {})
  <2>1. back = [i \in 1..n |-> ups[(n - i) + 1]]
    BY <1>7 DEF Reverse
  <2> HIDE DEF back
  <2>2. \A i \in 1..n : (n - i) + 1 \in 1..n /\ ups[(n - i) + 1] \in InputEvents
    BY <1>7
  <2>3. back \in [1..n -> InputEvents]
    BY <2>1, <2>2
  <2>4. back \in Seq(InputEvents) /\ Len(back) = n
    BY <2>3, FunctionIsSeq
  <2>5. ASSUME NEW i \in 1..n PROVE back[i] = InputEvent("keyUp", names[n + 1 - i], {})
    <3>1. back[i] = ups[(n - i) + 1] /\ (n - i) + 1 = n + 1 - i /\ n + 1 - i \in 1..n
      BY <2>1
    <3>2. QED
      BY <1>7, <3>1
  <2>6. QED
    BY <2>4, <2>5
<1> HIDE DEF main, back
<1>10. /\ first \in Seq(InputEvents) /\ Len(first) = n + 2
       /\ \A i \in 1..n : first[i] = InputEvent("keyDown", names[i], {})
       /\ first[n + 1] = down /\ first[n + 2] = up
  <2>1. /\ first \in Seq(InputEvents) /\ Len(first) = Len(downs) + Len(main)
        /\ \A i \in 1..(Len(downs) + Len(main)) :
             first[i] = IF i <= Len(downs) THEN downs[i] ELSE main[i - Len(downs)]
    BY <1>6, <1>8, ConcatProperties
  <2> HIDE DEF first
  <2>2. first[n + 1] = main[n + 1 - n] /\ first[n + 2] = main[n + 2 - n]
    BY <1>6, <1>8, <2>1
  <2>3. n + 1 - n = 1 /\ n + 2 - n = 2
    OBVIOUS
  <2>4. first[n + 1] = down /\ first[n + 2] = up
    BY <1>8, <2>2, <2>3
  <2>5. QED
    BY <1>6, <1>8, <2>1, <2>4
<1> HIDE DEF first
<1>11. /\ c \in Seq(InputEvents) /\ Len(c) = 2 * n + 2
       /\ \A i \in 1..(2 * n + 2) : c[i] = IF i <= n + 2 THEN first[i] ELSE back[i - (n + 2)]
  <2> HIDE DEF c
  <2>1. /\ c \in Seq(InputEvents) /\ Len(c) = Len(first) + Len(back)
        /\ \A i \in 1..(Len(first) + Len(back)) :
             c[i] = IF i <= Len(first) THEN first[i] ELSE back[i - Len(first)]
    BY <1>4, <1>9, <1>10, ConcatProperties
  <2>2. Len(first) + Len(back) = 2 * n + 2
    BY <1>9, <1>10
  <2>3. QED
    BY <1>10, <2>1, <2>2
<1> HIDE DEF c
<1>12. ASSUME NEW i \in 1..n PROVE c[n + 2 + i] = InputEvent("keyUp", names[n + 1 - i], {})
  <2>1. n + 2 + i \in 1..(2 * n + 2) /\ ~(n + 2 + i <= n + 2) /\ n + 2 + i - (n + 2) = i
    OBVIOUS
  <2>2. c[n + 2 + i] = back[i]
    BY <1>11, <2>1
  <2>3. QED
    BY <1>9, <2>2
<1>13. /\ \A i \in 1..n : c[i] = InputEvent("keyDown", names[i], {})
       /\ c[n + 1] = down /\ c[n + 2] = up
  BY <1>10, <1>11
<1>14. QED
  BY <1>3, <1>11, <1>12, <1>13 DEF c, mask, modifiers, down, up

\* Calls whose commands let go of what they press, with the modifiers they name.
WellMade(commands) ==
  commands \in Seq(InputEvents) /\ PressesEnd(commands) /\ MasksAreHeld(commands, {})

\* keyDown presses its key and keyUp lets it go, and no event does both.
LEMMA DownAndUp ==
  ASSUME NEW e, NEW key, NEW mask
  PROVE  /\ e = InputEvent("keyDown", key, mask) => Presses(e) /\ ~LetsGo(e) /\ e.key = key /\ e.mask = mask
         /\ e = InputEvent("keyUp", key, mask) => ~Presses(e) /\ LetsGo(e) /\ e.key = key /\ e.mask = mask
BY DEF InputEvent, Presses, LetsGo

\* A combination of keys presses and releases each of them, modifiers outside.
LEMMA CombinationIsWellMade ==
  ASSUME NEW names \in Seq(Keys), Len(names) > 1
  PROVE  WellMade(Combination(names))
<1> DEFINE n == Len(names) - 1
           c == Combination(names)
           mask == ModifierMask(Front(names))
<1>1. n \in Nat /\ n >= 1 /\ Len(names) = n + 1 /\ \A i \in 1..(n + 1) : names[i] \in Keys
  OBVIOUS
<1> HIDE DEF n
<1>2. /\ c \in Seq(InputEvents) /\ Len(c) = 2 * n + 2
      /\ mask \subseteq Modifiers /\ \A m \in mask : \E p \in 1..n : m = names[p]
      /\ \A i \in 1..n : c[i] = InputEvent("keyDown", names[i], {})
      /\ c[n + 1] = InputEvent("keyDown", names[n + 1], mask)
      /\ c[n + 2] = InputEvent("keyUp", names[n + 1], mask)
      /\ \A i \in 1..n : c[n + 2 + i] = InputEvent("keyUp", names[n + 1 - i], {})
  BY <1>1, CombinationCommands
<1> HIDE DEF c, mask
<1>3. \A i \in 1..n : Presses(c[i]) /\ ~LetsGo(c[i]) /\ c[i].key = names[i] /\ c[i].mask = {}
  BY <1>2, DownAndUp
<1>4. /\ Presses(c[n + 1]) /\ ~LetsGo(c[n + 1]) /\ c[n + 1].key = names[n + 1] /\ c[n + 1].mask = mask
      /\ ~Presses(c[n + 2]) /\ LetsGo(c[n + 2]) /\ c[n + 2].key = names[n + 1] /\ c[n + 2].mask = mask
  BY <1>2, DownAndUp
<1>5. \A i \in 1..n : /\ ~Presses(c[n + 2 + i]) /\ LetsGo(c[n + 2 + i])
                      /\ c[n + 2 + i].key = names[n + 1 - i] /\ c[n + 2 + i].mask = {}
  BY <1>2, DownAndUp
<1>6. \A i \in 1..Len(c) : i \in 1..n \/ i = n + 1 \/ i = n + 2 \/ \E k \in 1..n : i = n + 2 + k
  <2> SUFFICES ASSUME NEW i \in 1..Len(c), i > n + 2 PROVE \E k \in 1..n : i = n + 2 + k
    BY <1>1
  <2>1. i - n - 2 \in 1..n /\ i = n + 2 + (i - n - 2)
    BY <1>1, <1>2
  <2>2. QED
    BY <2>1
<1>7. PressesEnd(c)
  <2> SUFFICES ASSUME NEW i \in 1..Len(c), Presses(c[i])
               PROVE  \E j \in (i + 1)..Len(c) : LetsGo(c[j]) /\ c[j].key = c[i].key
    BY DEF PressesEnd
  <2>1. CASE i \in 1..n
    <3> DEFINE k == n + 1 - i
    <3>1. k \in 1..n /\ n + 1 - k = i /\ n + 2 + k \in (i + 1)..Len(c)
      BY <1>1, <1>2, <2>1
    <3> HIDE DEF k
    <3>2. LetsGo(c[n + 2 + k]) /\ c[n + 2 + k].key = names[n + 1 - k]
      BY <1>5, <3>1
    <3>3. QED
      BY <1>3, <2>1, <3>1, <3>2
  <2>2. CASE i = n + 1
    <3>1. n + 2 \in (i + 1)..Len(c)
      BY <1>1, <1>2, <2>2
    <3>2. QED
      BY <1>4, <2>2, <3>1
  <2>3. QED
    BY <1>4, <1>5, <1>6, <2>1, <2>2
<1>8. MasksAreHeld(c, {})
  <2> SUFFICES ASSUME NEW i \in 1..Len(c), NEW m \in c[i].mask
               PROVE  /\ \E j \in 1..(i - 1) : Presses(c[j]) /\ c[j].key = m
                      /\ \A j \in 1..(i - 1) : LetsGo(c[j]) => c[j].key # m
    BY DEF MasksAreHeld
  <2>1. i \in {n + 1, n + 2} /\ m \in mask
    BY <1>3, <1>4, <1>5, <1>6
  <2>2. PICK p \in 1..n : m = names[p]
    BY <1>2, <2>1
  <2>3. p \in 1..(i - 1) /\ \A j \in 1..(i - 1) : j \in 1..n \/ j = n + 1
    BY <1>1, <2>1
  <2>4. QED
    BY <1>3, <1>4, <2>2, <2>3
<1>9. QED
  BY <1>2, <1>7, <1>8 DEF WellMade, c

\* A press and its release, with or without a command in between.
LEMMA ShortCallsAreWellMade ==
  ASSUME NEW a \in InputEvents, NEW b \in InputEvents, NEW x \in InputEvents,
         Presses(a), LetsGo(b), a.key = b.key, ~Presses(b), ~Presses(x), ~LetsGo(x),
         a.mask = {}, b.mask = {}, x.mask = {}
  PROVE  WellMade(<<a, b>>) /\ WellMade(<<a, x, b>>) /\ WellMade(<<x>>)
<1>1. WellMade(<<a, b>>)
  <2> DEFINE c == <<a, b>>
  <2>1. c \in Seq(InputEvents) /\ Len(c) = 2 /\ c[1] = a /\ c[2] = b
    OBVIOUS
  <2> HIDE DEF c
  <2>2. \A i \in 1..2 : i = 1 \/ i = 2
    OBVIOUS
  <2>3. PressesEnd(c)
    BY <2>1, <2>2 DEF PressesEnd
  <2>4. MasksAreHeld(c, {})
    BY <2>1, <2>2 DEF MasksAreHeld
  <2>5. QED
    BY <2>1, <2>3, <2>4 DEF WellMade, c
<1>2. WellMade(<<a, x, b>>)
  <2> DEFINE c == <<a, x, b>>
  <2>1. c \in Seq(InputEvents) /\ Len(c) = 3 /\ c[1] = a /\ c[2] = x /\ c[3] = b
    OBVIOUS
  <2> HIDE DEF c
  <2>2. (\A i \in 1..3 : i = 1 \/ i = 2 \/ i = 3) /\ 3 \in (1 + 1)..3
    OBVIOUS
  <2>3. PressesEnd(c)
    BY <2>1, <2>2 DEF PressesEnd
  <2>4. MasksAreHeld(c, {})
    BY <2>1, <2>2 DEF MasksAreHeld
  <2>5. QED
    BY <2>1, <2>3, <2>4 DEF WellMade, c
<1>3. WellMade(<<x>>)
  <2> DEFINE c == <<x>>
  <2>1. c \in Seq(InputEvents) /\ Len(c) = 1 /\ c[1] = x
    OBVIOUS
  <2> HIDE DEF c
  <2>2. \A i \in 1..1 : i = 1
    OBVIOUS
  <2>3. PressesEnd(c) /\ MasksAreHeld(c, {})
    BY <2>1, <2>2 DEF PressesEnd, MasksAreHeld
  <2>4. QED
    BY <2>1, <2>3 DEF WellMade, c
<1>4. QED
  BY <1>1, <1>2, <1>3

\* Lists of one or two commands, joined.
LEMMA JoinTuples ==
  ASSUME NEW a, NEW x, NEW b
  PROVE  <<a>> \o <<>> = <<a>> /\ <<a>> \o <<b>> = <<a, b>> /\ <<a>> \o <<x>> \o <<b>> = <<a, x, b>>
<1> DEFINE S == {a, x, b}
<1>1. /\ <<a>> \in Seq(S) /\ <<b>> \in Seq(S) /\ <<x>> \in Seq(S)
      /\ <<a, b>> \in Seq(S) /\ <<a, x>> \in Seq(S) /\ <<a, x, b>> \in Seq(S)
  OBVIOUS
<1> HIDE DEF S
<1>2. ASSUME NEW y, <<y>> \in Seq(S), <<a, y>> \in Seq(S)
      PROVE  <<a>> \o <<y>> = <<a, y>>
  <2> DEFINE t == <<a>> \o <<y>>
             u == <<a, y>>
  <2>1. t \in Seq(S) /\ Len(t) = Len(<<a>>) + Len(<<y>>)
        /\ \A i \in 1..(Len(<<a>>) + Len(<<y>>)) :
             t[i] = IF i <= Len(<<a>>) THEN <<a>>[i] ELSE <<y>>[i - Len(<<a>>)]
    BY <1>1, <1>2, ConcatProperties
  <2>2. Len(<<a>>) = 1 /\ Len(<<y>>) = 1 /\ <<a>>[1] = a /\ <<y>>[1] = y
    OBVIOUS
  <2>3. u \in Seq(S) /\ Len(u) = 2 /\ u[1] = a /\ u[2] = y
    BY <1>2
  <2> HIDE DEF t, u
  <2>4. t[1] = a /\ t[2] = y /\ Len(t) = 2
    BY <2>1, <2>2
  <2>5. \A i \in 1..Len(t) : t[i] = u[i]
    BY <2>3, <2>4
  <2>6. t = u
    BY <2>1, <2>3, <2>4, <2>5, SeqEqual
  <2>7. QED
    BY <2>6 DEF t, u
<1>3. <<a, x>> \o <<b>> = <<a, x, b>>
  <2> DEFINE t == <<a, x>> \o <<b>>
             u == <<a, x, b>>
  <2>1. t \in Seq(S) /\ Len(t) = Len(<<a, x>>) + Len(<<b>>)
        /\ \A i \in 1..(Len(<<a, x>>) + Len(<<b>>)) :
             t[i] = IF i <= Len(<<a, x>>) THEN <<a, x>>[i] ELSE <<b>>[i - Len(<<a, x>>)]
    BY <1>1, ConcatProperties
  <2>2. Len(<<a, x>>) = 2 /\ Len(<<b>>) = 1 /\ <<a, x>>[1] = a /\ <<a, x>>[2] = x /\ <<b>>[1] = b
    OBVIOUS
  <2>3. u \in Seq(S) /\ Len(u) = 3 /\ u[1] = a /\ u[2] = x /\ u[3] = b
    BY <1>1
  <2> HIDE DEF t, u
  <2>4. t[1] = a /\ t[2] = x /\ t[3] = b /\ Len(t) = 3
    BY <2>1, <2>2
  <2>5. \A i \in 1..Len(t) : t[i] = u[i]
    BY <2>3, <2>4
  <2>6. t = u
    BY <2>1, <2>3, <2>4, <2>5, SeqEqual
  <2>7. QED
    BY <2>6 DEF t, u
<1>4. <<a>> \o <<>> = <<a>>
  BY <1>1, ConcatEmptySeq
<1>5. QED
  BY <1>1, <1>2, <1>3, <1>4

\* A key is pressed and released with nothing held; inserted text presses
\* nothing.
LEMMA PressIsWellMade ==
  ASSUME NEW key \in Keys
  PROVE  WellMade(Press(key)) /\ WellMade(<<InputEvent("insertText", key, {})>>)
<1> DEFINE a == InputEvent("keyDown", key, {})
           b == InputEvent("keyUp", key, {})
           x == InputEvent("char", key, {})
           text == InputEvent("insertText", key, {})
<1>1. /\ a \in InputEvents /\ Presses(a) /\ a.key = key /\ a.mask = {}
      /\ b \in InputEvents /\ LetsGo(b) /\ ~Presses(b) /\ b.key = key /\ b.mask = {}
      /\ x \in InputEvents /\ ~Presses(x) /\ ~LetsGo(x) /\ x.mask = {}
      /\ text \in InputEvents /\ ~Presses(text) /\ ~LetsGo(text) /\ text.mask = {}
  BY DEF InputEvent, InputEvents, EventTypes, Presses, LetsGo
<1>2. Press(key) = <<a>> \o (IF key = "Enter" THEN <<x>> ELSE <<>>) \o <<b>>
  BY Zenon DEF Press
<1> HIDE DEF a, b, x, text
<1>3. <<a>> \o <<>> = <<a>> /\ <<a>> \o <<b>> = <<a, b>> /\ <<a>> \o <<x>> \o <<b>> = <<a, x, b>>
  BY JoinTuples
<1>4. Press(key) = IF key = "Enter" THEN <<a, x, b>> ELSE <<a, b>>
  BY <1>2, <1>3
<1>5. WellMade(<<a, b>>) /\ WellMade(<<a, x, b>>) /\ WellMade(<<text>>)
  BY <1>1, ShortCallsAreWellMade
<1>6. QED
  BY <1>4, <1>5 DEF text

\* So every text of keys, and a click, is a well-made list of commands.
LEMMA CallsAreWellMade ==
  /\ \A text \in KeyTexts : WellMade(KeyCommands(text))
  /\ WellMade(ClickCommands)
<1>1. ASSUME NEW text \in KeyTexts PROVE WellMade(KeyCommands(text))
  <2> DEFINE names == [i \in DOMAIN text |-> KeyName(text[i])]
  <2>1. names \in Seq(Keys) /\ Len(names) \in Nat \ {0}
    BY NamesOfText
  <2>2. KeyCommands(text) =
          IF Len(names) > 1 THEN Combination(names)
          ELSE IF names[1] \in SpecialKeys THEN Press(names[1])
          ELSE <<InputEvent("insertText", names[1], {})>>
    BY DEF KeyCommands
  <2> HIDE DEF names
  <2>3. names[1] \in Keys
    BY <2>1
  <2>4. QED
    BY <2>1, <2>2, <2>3, CombinationIsWellMade, PressIsWellMade
<1>2. WellMade(ClickCommands)
  <2> DEFINE a == InputEvent("mousePressed", "left button", {})
             b == InputEvent("mouseReleased", "left button", {})
             x == InputEvent("char", "left button", {})
  <2>1. "left button" \in Keys
    BY DEF Keys
  <2>2. /\ a \in InputEvents /\ Presses(a) /\ a.key = b.key /\ a.mask = {}
        /\ b \in InputEvents /\ LetsGo(b) /\ ~Presses(b) /\ b.mask = {}
        /\ x \in InputEvents /\ ~Presses(x) /\ ~LetsGo(x) /\ x.mask = {}
    BY <2>1 DEF InputEvent, InputEvents, EventTypes, Presses, LetsGo
  <2>3. ClickCommands = <<a, b>>
    BY DEF ClickCommands
  <2> HIDE DEF a, b, x
  <2>4. QED
    BY <2>2, <2>3, ShortCallsAreWellMade
<1>3. QED
  BY <1>1, <1>2

-----------------------------------------------------------------------------
(* KeyInput: the steps *)

\* A call starts with well-made commands and nothing of it held.
LEMMA StartsKeepsInv ==
  ASSUME KiInv, NEW commands, WellMade(commands), KiStarts(commands)
  PROVE  KiInv'
<1>1. kiLeft = <<>> /\ kiLeft' = commands /\ UNCHANGED <<kiHeld, kiStuck>>
  BY DEF KiStarts
<1>2. kiHeld \subseteq kiStuck
  BY <1>1 DEF KiInv, HeldEnds
<1>3. MasksAreHeld(commands, kiHeld)
  BY DEF WellMade, MasksAreHeld
<1>4. QED
  BY <1>1, <1>2, <1>3 DEF KiInv, HeldEnds, WellMade

\* A failed call gives up its commands; what it held is then stuck.
LEMMA FailsKeepsInv ==
  ASSUME KiInv, KiFails
  PROVE  KiInv'
BY DEF KiFails, KiInv, HeldEnds, PressesEnd, MasksAreHeld

\* Answering the first command leaves a list that releases what is held now.
LEMMA AnsweredKeepsInv ==
  ASSUME KiInv, KiAnswered
  PROVE  KiInv'
<1> DEFINE e == kiLeft[1]
<1>1. /\ kiLeft \in Seq(InputEvents) /\ kiLeft # <<>> /\ Head(kiLeft) = e
      /\ PressesEnd(kiLeft) /\ MasksAreHeld(kiLeft, kiHeld) /\ HeldEnds
      /\ kiLeft' = Tail(kiLeft) /\ kiHeld' = HeldAfter(kiHeld, e) /\ kiStuck' = kiStuck \cap kiHeld'
  BY DEF KiInv, KiAnswered
<1>2. /\ kiLeft' \in Seq(InputEvents) /\ Len(kiLeft) \in Nat /\ 1 \in 1..Len(kiLeft)
      /\ Len(kiLeft') = Len(kiLeft) - 1 /\ \A i \in 1..Len(kiLeft') : kiLeft'[i] = kiLeft[i + 1]
  BY <1>1
<1>3. /\ Presses(e) => kiHeld' = kiHeld \cup {e.key}
      /\ LetsGo(e) => kiHeld' = kiHeld \ {e.key}
      /\ ~Presses(e) /\ ~LetsGo(e) => kiHeld' = kiHeld
      /\ ~(Presses(e) /\ LetsGo(e))
  BY <1>1 DEF HeldAfter, Presses, LetsGo
<1> HIDE DEF e
<1>4. \A j \in 2..Len(kiLeft) : j - 1 \in 1..Len(kiLeft') /\ kiLeft'[j - 1] = kiLeft[j]
  <2> SUFFICES ASSUME NEW j \in 2..Len(kiLeft) PROVE j - 1 \in 1..Len(kiLeft') /\ kiLeft'[j - 1] = kiLeft[j]
    OBVIOUS
  <2>1. j - 1 \in 1..Len(kiLeft') /\ j - 1 + 1 = j
    BY <1>2
  <2>2. QED
    BY <1>2, <2>1
<1>5. PressesEnd(kiLeft)'
  <2> SUFFICES ASSUME NEW i \in 1..Len(kiLeft'), Presses(kiLeft'[i])
               PROVE  \E j \in (i + 1)..Len(kiLeft') : LetsGo(kiLeft'[j]) /\ kiLeft'[j].key = kiLeft'[i].key
    BY DEF PressesEnd
  <2>1. i + 1 \in 1..Len(kiLeft) /\ kiLeft'[i] = kiLeft[i + 1]
    BY <1>2
  <2>2. PICK j \in (i + 1 + 1)..Len(kiLeft) : LetsGo(kiLeft[j]) /\ kiLeft[j].key = kiLeft[i + 1].key
    BY <1>1, <2>1 DEF PressesEnd
  <2>3. j \in 2..Len(kiLeft) /\ j - 1 \in (i + 1)..Len(kiLeft')
    BY <1>2
  <2>4. QED
    BY <1>4, <2>1, <2>2, <2>3
<1>6. MasksAreHeld(kiLeft, kiHeld)'
  <2> SUFFICES ASSUME NEW i \in 1..Len(kiLeft'), NEW m \in kiLeft'[i].mask
               PROVE  /\ m \in kiHeld' \/ \E j \in 1..(i - 1) : Presses(kiLeft'[j]) /\ kiLeft'[j].key = m
                      /\ \A j \in 1..(i - 1) : LetsGo(kiLeft'[j]) => kiLeft'[j].key # m
    BY DEF MasksAreHeld
  <2>1. i + 1 \in 1..Len(kiLeft) /\ kiLeft'[i] = kiLeft[i + 1] /\ 1 \in 1..(i + 1 - 1)
    BY <1>2
  <2>2. /\ m \in kiHeld \/ \E j \in 1..(i + 1 - 1) : Presses(kiLeft[j]) /\ kiLeft[j].key = m
        /\ \A j \in 1..(i + 1 - 1) : LetsGo(kiLeft[j]) => kiLeft[j].key # m
    BY <1>1, <2>1 DEF MasksAreHeld
  <2>3. \A j \in 1..(i - 1) : LetsGo(kiLeft'[j]) => kiLeft'[j].key # m
    <3> SUFFICES ASSUME NEW j \in 1..(i - 1) PROVE LetsGo(kiLeft'[j]) => kiLeft'[j].key # m
      OBVIOUS
    <3>1. j \in 1..Len(kiLeft') /\ j + 1 \in 1..(i + 1 - 1)
      BY <1>2
    <3>2. QED
      BY <1>2, <2>2, <3>1
  <2>4. LetsGo(e) => e.key # m
    BY <2>1, <2>2 DEF e
  <2>5. CASE m \in kiHeld
    BY <1>3, <2>3, <2>4, <2>5
  <2>6. CASE \E j \in 1..(i + 1 - 1) : Presses(kiLeft[j]) /\ kiLeft[j].key = m
    <3>1. PICK j \in 1..(i + 1 - 1) : Presses(kiLeft[j]) /\ kiLeft[j].key = m
      BY <2>6
    <3>2. CASE j = 1
      BY <1>3, <2>3, <3>1, <3>2 DEF e
    <3>3. CASE j # 1
      <4>1. j - 1 \in 1..(i - 1) /\ j \in 2..Len(kiLeft)
        BY <1>2, <3>3
      <4>2. QED
        BY <1>4, <2>3, <3>1, <4>1
    <3>4. QED
      BY <3>2, <3>3
  <2>7. QED
    BY <2>2, <2>5, <2>6
<1>7. HeldEnds'
  <2> SUFFICES ASSUME NEW key \in kiHeld', key \notin kiStuck'
               PROVE  \E j \in 1..Len(kiLeft') : LetsGo(kiLeft'[j]) /\ kiLeft'[j].key = key
    BY DEF HeldEnds
  <2>1. key \notin kiStuck
    BY <1>1
  <2>2. CASE Presses(e) /\ key = e.key
    <3>1. PICK j \in (1 + 1)..Len(kiLeft) : LetsGo(kiLeft[j]) /\ kiLeft[j].key = e.key
      BY <1>1, <1>2, <2>2 DEF PressesEnd, e
    <3>2. QED
      BY <1>4, <2>2, <3>1
  <2>3. CASE ~(Presses(e) /\ key = e.key)
    <3>1. key \in kiHeld /\ ~(LetsGo(e) /\ key = e.key)
      BY <1>3, <2>3
    <3>2. PICK j \in 1..Len(kiLeft) : LetsGo(kiLeft[j]) /\ kiLeft[j].key = key
      BY <1>1, <2>1, <3>1 DEF HeldEnds
    <3>3. j \in 2..Len(kiLeft)
      BY <1>2, <3>1, <3>2 DEF e
    <3>4. QED
      BY <1>4, <3>2, <3>3
  <2>4. QED
    BY <2>2, <2>3
<1>8. QED
  BY <1>2, <1>5, <1>6, <1>7 DEF KiInv

\* Every step of key input keeps its invariant.
LEMMA KiInvStep ==
  ASSUME KiInv, [KiNext]_kiVars
  PROVE  KiInv'
<1>1. CASE UNCHANGED kiVars
  BY <1>1 DEF kiVars, KiInv, HeldEnds
<1>2. CASE KiSendKeys
  BY <1>2, CallsAreWellMade, StartsKeepsInv DEF KiSendKeys
<1>3. CASE KiClickCoordinates
  BY <1>3, CallsAreWellMade, StartsKeepsInv DEF KiClickCoordinates
<1>4. QED
  BY <1>1, <1>2, <1>3, AnsweredKeepsInv, FailsKeepsInv DEF KiNext

\* Presses end, and masks are held, through every call and failure.
THEOREM KeyInvHolds == KiSpec => []KiInv
<1>1. KiInit => KiInv
  BY DEF KiInit, KiInv, PressesEnd, MasksAreHeld, HeldEnds
<1>2. QED
  BY <1>1, KiInvStep, PTL DEF KiSpec

\* Between calls Chrome holds only what a failed call left pressed, and each
\* command comes while the modifiers it names are held (dispatch_key_combination,
\* dispatch_special_key, click_coordinates).
THEOREM KeysAreLetGo == KiSpec => []KeysAreReleased
<1>1. KiInv => KeysAreReleased
  <2> SUFFICES ASSUME KiInv PROVE KeysAreReleased
    OBVIOUS
  <2>1. kiLeft = <<>> => kiHeld \subseteq kiStuck
    BY DEF KiInv, HeldEnds
  <2>2. kiLeft # <<>> => Head(kiLeft).mask \subseteq kiHeld
    <3> SUFFICES ASSUME kiLeft # <<>>, NEW m \in Head(kiLeft).mask PROVE m \in kiHeld
      OBVIOUS
    <3>1. 1 \in 1..Len(kiLeft) /\ Head(kiLeft) = kiLeft[1]
      BY DEF KiInv
    <3>2. QED
      BY <3>1 DEF KiInv, MasksAreHeld
  <2>3. QED
    BY <2>1, <2>2 DEF KeysAreReleased
<1>2. QED
  BY <1>1, KeyInvHolds, PTL

-----------------------------------------------------------------------------
(* ManagedFiles *)

\* The first part of ManagedFilesAgree, of any memory and disk.
Agree(files, disk, touched) ==
  \A n \in (DOMAIN files \cup DOMAIN disk) \ touched :
    n \in DOMAIN files \cap DOMAIN disk /\ files[n] = disk[n]

\* The parts of the invariant, as the steps use them.
LEMMA MfInvParts ==
  ASSUME MfInv
  PROVE  /\ CountsFit /\ Agree(mfFiles, mfDisk, mfTouched)
         /\ mfSent.touched \/ mfSent.disk = mfSent.memory
         /\ PromisesKept(mfExtracts, mfFiles, mfCount)
         /\ PromisesKept(mfSaved.extracts, mfSaved.files, mfSaved.count)
         /\ MaxFileSteps \in Nat
BY ManagedFilesAssumption DEF MfInv, ManagedFilesAgree, Agree, ManagedFilesAssumption

\* What a state has to show that the step of an operation leads to.
LEMMA MfInvFrom ==
  ASSUME CountsFit', Agree(mfFiles, mfDisk, mfTouched)',
         (mfSent.touched \/ mfSent.disk = mfSent.memory)',
         PromisesKept(mfExtracts, mfFiles, mfCount)',
         PromisesKept(mfSaved.extracts, mfSaved.files, mfSaved.count)'
  PROVE  MfInv'
<1>1. \A x \in mfExtracts' : x.name \in DOMAIN mfFiles' /\ mfFiles'[x.name] = x.content
  BY DEF PromisesKept
<1>2. ManagedFilesAgree'
  BY <1>1 DEF ManagedFilesAgree, Agree
<1>3. QED
  BY <1>2 DEF MfInv

\* A write, carried out or not, leaves memory and disk in agreement.
LEMMA StoresAgree ==
  ASSUME Agree(mfFiles, mfDisk, mfTouched), NEW n, NEW content, Stores(n, content)
  PROVE  /\ Agree(mfFiles, mfDisk, mfTouched)'
         /\ \/ mfFiles' = With(mfFiles, n, content) /\ n \notin mfTouched'
            \/ mfFiles' = mfFiles /\ n \in mfTouched'
<1>1. CASE /\ mfDisk' = With(mfDisk, n, content) /\ mfFiles' = With(mfFiles, n, content)
           /\ mfTouched' = mfTouched \ {n}
  <2>1. \A k \in (DOMAIN mfFiles' \cup DOMAIN mfDisk') \ mfTouched' :
          k \in DOMAIN mfFiles' \cap DOMAIN mfDisk' /\ mfFiles'[k] = mfDisk'[k]
    <3> SUFFICES ASSUME NEW k \in (DOMAIN mfFiles' \cup DOMAIN mfDisk') \ mfTouched'
                 PROVE  k \in DOMAIN mfFiles' \cap DOMAIN mfDisk' /\ mfFiles'[k] = mfDisk'[k]
      OBVIOUS
    <3>1. CASE k = n
      BY <1>1, <3>1 DEF With
    <3>2. CASE k # n
      <4>1. k \in (DOMAIN mfFiles \cup DOMAIN mfDisk) \ mfTouched
        BY <1>1, <3>2 DEF With
      <4>2. k \in DOMAIN mfFiles \cap DOMAIN mfDisk /\ mfFiles[k] = mfDisk[k]
        BY <4>1 DEF Agree
      <4>3. QED
        BY <1>1, <3>2, <4>2 DEF With
    <3>3. QED
      BY <3>1, <3>2
  <2>2. QED
    BY <1>1, <2>1 DEF Agree
<1>2. CASE /\ mfDisk' \in {mfDisk, With(mfDisk, n, Torn)} /\ mfTouched' = mfTouched \cup {n}
           /\ mfFiles' = mfFiles
  <2>1. \A k : k # n => (k \in DOMAIN mfDisk' <=> k \in DOMAIN mfDisk)
                        /\ (k \in DOMAIN mfDisk => mfDisk'[k] = mfDisk[k])
    BY <1>2 DEF With
  <2>2. QED
    BY <1>2, <2>1 DEF Agree
<1>3. QED
  BY <1>1, <1>2 DEF Stores

\* A write by name keeps the promises of the other names.
LEMMA OverwritesKeepsInv ==
  ASSUME MfInv, Step, NEW n, NEW content, Overwrites(n, content)
  PROVE  MfInv'
<1>1. /\ CountsFit /\ Agree(mfFiles, mfDisk, mfTouched)
      /\ PromisesKept(mfExtracts, mfFiles, mfCount)
      /\ mfSent.touched \/ mfSent.disk = mfSent.memory
      /\ PromisesKept(mfSaved.extracts, mfSaved.files, mfSaved.count)
      /\ MaxFileSteps \in Nat
  BY MfInvParts
<1>2. /\ Stores(n, content) /\ UNCHANGED <<mfCount, mfSaved, mfSent>>
      /\ mfExtracts' = IF mfFiles' = mfFiles THEN mfExtracts ELSE {x \in mfExtracts : x.name # n}
  BY DEF Overwrites
<1>3. /\ Agree(mfFiles, mfDisk, mfTouched)'
      /\ mfFiles' = With(mfFiles, n, content) \/ mfFiles' = mfFiles
  BY <1>1, <1>2, StoresAgree
<1>4. PromisesKept(mfExtracts, mfFiles, mfCount)'
  <2> SUFFICES ASSUME NEW x \in mfExtracts'
               PROVE  /\ x.name \in DOMAIN mfFiles' /\ mfFiles'[x.name] = x.content
                      /\ \E i \in 0..(mfCount - 1) : x.name = ExtractName(i)
    BY <1>2 DEF PromisesKept
  <2>1. x \in mfExtracts /\ (mfFiles' = mfFiles \/ x.name # n)
    BY <1>2
  <2>2. /\ x.name \in DOMAIN mfFiles /\ mfFiles[x.name] = x.content
        /\ \E i \in 0..(mfCount - 1) : x.name = ExtractName(i)
    BY <1>1, <2>1 DEF PromisesKept
  <2>3. QED
    BY <1>3, <2>1, <2>2 DEF With
<1>5. CountsFit'
  BY <1>1, <1>2 DEF CountsFit, Step
<1>6. PromisesKept(mfSaved.extracts, mfSaved.files, mfSaved.count)'
  BY <1>1, <1>2
<1>7. QED
  BY <1>1, <1>2, <1>3, <1>4, <1>5, <1>6, MfInvFrom

\* The name of a new extract is no other's.
LEMMA ExtractsKeepsInv ==
  ASSUME MfInv, MfExtracts
  PROVE  MfInv'
<1>1. /\ CountsFit /\ Agree(mfFiles, mfDisk, mfTouched)
      /\ PromisesKept(mfExtracts, mfFiles, mfCount)
      /\ mfSent.touched \/ mfSent.disk = mfSent.memory
      /\ PromisesKept(mfSaved.extracts, mfSaved.files, mfSaved.count)
      /\ MaxFileSteps \in Nat
  BY MfInvParts
<1> DEFINE n == ExtractName(mfCount)
<1>2. PICK text \in Texts :
        /\ Stores(n, <<text>>)
        /\ mfCount' = CountAfter(Stored(n, <<text>>))
        /\ mfExtracts' = mfExtracts \cup
             (IF Stored(n, <<text>>) THEN {[name |-> n, content |-> <<text>>]} ELSE {})
  BY DEF MfExtracts
<1>3. Step /\ UNCHANGED <<mfSaved, mfSent>>
  BY DEF MfExtracts
<1> DEFINE x0 == [name |-> n, content |-> <<text>>]
<1>4. /\ Agree(mfFiles, mfDisk, mfTouched)'
      /\ \/ mfFiles' = With(mfFiles, n, <<text>>) /\ n \notin mfTouched'
         \/ mfFiles' = mfFiles /\ n \in mfTouched'
  BY <1>1, <1>2, StoresAgree
<1>5. \A x \in mfExtracts : x.name # n
  <2> SUFFICES ASSUME NEW x \in mfExtracts, x.name = n PROVE FALSE
    OBVIOUS
  <2>1. PICK i \in 0..(mfCount - 1) : x.name = ExtractName(i)
    BY <1>1 DEF PromisesKept
  <2>2. i \in 0..MaxFileSteps /\ mfCount \in 0..MaxFileSteps /\ i # mfCount
    BY <1>1 DEF CountsFit
  <2>3. QED
    BY <2>1, <2>2, ManagedFilesAssumption DEF ManagedFilesAssumption
<1> HIDE DEF n
<1>6. CASE mfFiles' = With(mfFiles, n, <<text>>) /\ n \notin mfTouched'
  <2>1. Stored(n, <<text>>)
    BY <1>6 DEF With, Stored
  <2>2. mfCount' = mfCount + 1 /\ mfExtracts' = mfExtracts \cup {x0}
    BY <1>2, <2>1 DEF CountAfter
  <2>3. x0.name = n /\ x0.content = <<text>>
    OBVIOUS
  <2> HIDE DEF x0
  <2>4. ASSUME NEW x \in mfExtracts'
        PROVE  /\ x.name \in DOMAIN mfFiles' /\ mfFiles'[x.name] = x.content
               /\ \E i \in 0..(mfCount' - 1) : x.name = ExtractName(i)
    <3>1. CASE x = x0
      <4>1. mfCount \in 0..(mfCount' - 1)
        BY <1>1, <2>2 DEF CountsFit
      <4>2. x.name = ExtractName(mfCount)
        BY <2>3, <3>1 DEF n
      <4>3. QED
        BY <1>6, <2>3, <3>1, <4>1, <4>2 DEF With
    <3>2. CASE x \in mfExtracts
      <4>1. x.name \in DOMAIN mfFiles /\ mfFiles[x.name] = x.content /\ x.name # n
        BY <1>1, <1>5, <3>2 DEF PromisesKept
      <4>2. PICK i \in 0..(mfCount - 1) : x.name = ExtractName(i)
        BY <1>1, <3>2 DEF PromisesKept
      <4>3. i \in 0..(mfCount' - 1)
        BY <1>1, <2>2 DEF CountsFit
      <4>4. QED
        BY <1>6, <4>1, <4>2, <4>3 DEF With
    <3>3. QED
      BY <2>2, <3>1, <3>2
  <2>5. PromisesKept(mfExtracts, mfFiles, mfCount)'
    BY <2>4 DEF PromisesKept
  <2>6. CountsFit'
    BY <1>1, <1>3, <2>2 DEF CountsFit, Step
  <2>7. QED
    BY <1>1, <1>3, <1>4, <2>5, <2>6, MfInvFrom
<1>7. CASE mfFiles' = mfFiles /\ n \in mfTouched'
  <2>1. mfCount' = mfCount /\ mfExtracts' = mfExtracts
    BY <1>2, <1>7 DEF CountAfter, Stored
  <2>2. CountsFit'
    BY <1>1, <1>3, <2>1 DEF CountsFit, Step
  <2>3. QED
    BY <1>1, <1>3, <1>4, <1>7, <2>1, <2>2, MfInvFrom
<1>8. QED
  BY <1>4, <1>6, <1>7

\* Memory is as it was, and the disk changed where it counts as touched.
LEMMA PastKeepsInv ==
  ASSUME MfInv, Step, NEW n, mfTouched' = mfTouched \cup {n},
         \A k : k # n => (k \in DOMAIN mfDisk' <=> k \in DOMAIN mfDisk)
                         /\ (k \in DOMAIN mfDisk => mfDisk'[k] = mfDisk[k]),
         UNCHANGED <<mfFiles, mfCount, mfSaved, mfExtracts, mfSent>>
  PROVE  MfInv'
<1>1. /\ CountsFit /\ Agree(mfFiles, mfDisk, mfTouched)
      /\ PromisesKept(mfExtracts, mfFiles, mfCount)
      /\ mfSent.touched \/ mfSent.disk = mfSent.memory
      /\ PromisesKept(mfSaved.extracts, mfSaved.files, mfSaved.count)
      /\ MaxFileSteps \in Nat
  BY MfInvParts
<1>2. Agree(mfFiles, mfDisk, mfTouched)'
  BY <1>1 DEF Agree
<1>3. CountsFit'
  BY <1>1 DEF CountsFit, Step
<1>4. QED
  BY <1>1, <1>2, <1>3, MfInvFrom

\* A write past the managed files touches the name it overwrites.
LEMMA WritesPastKeepsInv ==
  ASSUME MfInv, Step, NEW n, NEW content, WritesPast(n, content)
  PROVE  MfInv'
<1>1. /\ mfTouched' = mfTouched \cup {n}
      /\ mfDisk' = With(mfDisk, n, content) \/ mfDisk' = With(mfDisk, n, Torn)
      /\ UNCHANGED <<mfFiles, mfCount, mfSaved, mfExtracts, mfSent>>
  BY DEF WritesPast
<1>2. \A k : k # n => (k \in DOMAIN mfDisk' <=> k \in DOMAIN mfDisk)
                      /\ (k \in DOMAIN mfDisk => mfDisk'[k] = mfDisk[k])
  BY <1>1 DEF With
<1>3. QED
  BY <1>1, <1>2, PastKeepsInv

\* A directory that is removed takes everything with it; half removed, it
\* touches what is gone.
LEMMA NukesKeepsInv ==
  ASSUME MfInv, MfNukes
  PROVE  MfInv'
<1>1. /\ CountsFit /\ MaxFileSteps \in Nat /\ Step /\ UNCHANGED <<mfCount, mfSaved, mfSent>>
      /\ mfSent.touched \/ mfSent.disk = mfSent.memory
      /\ PromisesKept(mfSaved.extracts, mfSaved.files, mfSaved.count)
  BY MfInvParts DEF MfNukes
<1>2. CASE mfDisk' = <<>> /\ mfFiles' = <<>> /\ mfTouched' = {} /\ mfExtracts' = {}
  <2>1. Agree(mfFiles, mfDisk, mfTouched)' /\ PromisesKept(mfExtracts, mfFiles, mfCount)'
    BY <1>2 DEF Agree, PromisesKept
  <2>2. CountsFit'
    BY <1>1 DEF CountsFit, Step
  <2>3. QED
    BY <1>1, <2>1, <2>2, MfInvFrom
<1>3. CASE \E gone \in DOMAIN mfDisk :
             /\ mfDisk' = Without(mfDisk, gone) /\ mfTouched' = mfTouched \cup {gone}
             /\ UNCHANGED <<mfFiles, mfExtracts>>
  <2>1. PICK gone \in DOMAIN mfDisk :
          /\ mfDisk' = Without(mfDisk, gone) /\ mfTouched' = mfTouched \cup {gone}
          /\ UNCHANGED <<mfFiles, mfExtracts>>
    BY <1>3
  <2>2. \A k : k # gone => (k \in DOMAIN mfDisk' <=> k \in DOMAIN mfDisk)
                           /\ (k \in DOMAIN mfDisk => mfDisk'[k] = mfDisk[k])
    BY <2>1 DEF Without
  <2>3. QED
    BY <1>1, <2>1, <2>2, PastKeepsInv
<1>4. QED
  BY <1>2, <1>3 DEF MfNukes

\* Uploads read, checkpoints copy, and a restore gives back what was copied.
LEMMA CopiesKeepsInv ==
  ASSUME MfInv, MfUploads \/ MfCheckpoints \/ MfRestores
  PROVE  MfInv'
<1>1. /\ CountsFit /\ Agree(mfFiles, mfDisk, mfTouched)
      /\ PromisesKept(mfExtracts, mfFiles, mfCount)
      /\ mfSent.touched \/ mfSent.disk = mfSent.memory
      /\ PromisesKept(mfSaved.extracts, mfSaved.files, mfSaved.count)
      /\ MaxFileSteps \in Nat
  BY MfInvParts
<1>2. CASE MfUploads
  <2>1. PICK n \in DOMAIN mfFiles \cap DOMAIN mfDisk :
          mfSent' = [disk |-> mfDisk[n], memory |-> mfFiles[n], touched |-> n \in mfTouched]
    BY <1>2 DEF MfUploads
  <2>2. Step /\ UNCHANGED <<mfFiles, mfDisk, mfCount, mfSaved, mfTouched, mfExtracts>>
    BY <1>2 DEF MfUploads
  <2>3. n \in mfTouched \/ mfFiles[n] = mfDisk[n]
    BY <1>1 DEF Agree
  <2>4. (mfSent.touched \/ mfSent.disk = mfSent.memory)'
    BY <2>1, <2>3
  <2>5. CountsFit'
    BY <1>1, <2>2 DEF CountsFit, Step
  <2>6. Agree(mfFiles, mfDisk, mfTouched)' /\ PromisesKept(mfExtracts, mfFiles, mfCount)'
        /\ PromisesKept(mfSaved.extracts, mfSaved.files, mfSaved.count)'
    BY <1>1, <2>2 DEF Agree, PromisesKept
  <2>7. QED
    BY <2>4, <2>5, <2>6, MfInvFrom
<1>3. CASE MfCheckpoints
  <2>1. /\ Step /\ UNCHANGED <<mfFiles, mfDisk, mfCount, mfTouched, mfExtracts, mfSent>>
        /\ mfSaved' = [files |-> mfFiles, count |-> mfCount, extracts |-> mfExtracts]
    BY <1>3 DEF MfCheckpoints
  <2>2. mfSaved'.files = mfFiles /\ mfSaved'.count = mfCount /\ mfSaved'.extracts = mfExtracts
    BY <2>1
  <2>3. CountsFit'
    BY <1>1, <2>1, <2>2 DEF CountsFit, Step
  <2>4. Agree(mfFiles, mfDisk, mfTouched)' /\ PromisesKept(mfExtracts, mfFiles, mfCount)'
        /\ PromisesKept(mfSaved.extracts, mfSaved.files, mfSaved.count)'
    BY <1>1, <2>1, <2>2 DEF Agree, PromisesKept
  <2>5. QED
    BY <1>1, <2>1, <2>3, <2>4, MfInvFrom
<1>4. CASE MfRestores
  <2> DEFINE valid == {k \in DOMAIN mfSaved.files : ValidName(k)}
  <2>1. /\ Step /\ UNCHANGED <<mfSaved, mfSent>>
        /\ mfFiles' = [n \in valid |-> mfSaved.files[n]] /\ mfDisk' = mfFiles' /\ mfTouched' = {}
        /\ mfCount' = mfSaved.count /\ mfExtracts' = mfSaved.extracts
    BY <1>4 DEF MfRestores
  <2>2. Agree(mfFiles, mfDisk, mfTouched)'
    BY <2>1 DEF Agree
  <2>3. CountsFit'
    BY <1>1, <2>1 DEF CountsFit, Step
  <2>4. ASSUME NEW x \in mfSaved.extracts
        PROVE  x.name \in DOMAIN mfFiles' /\ mfFiles'[x.name] = x.content
    <3>1. /\ x.name \in DOMAIN mfSaved.files /\ mfSaved.files[x.name] = x.content
          /\ \E i \in 0..(mfSaved.count - 1) : x.name = ExtractName(i)
      BY <1>1 DEF PromisesKept
    <3>2. ValidName(x.name)
      BY <1>1, <3>1 DEF ValidName, CountsFit
    <3>3. QED
      BY <2>1, <3>1, <3>2
  <2>5. PromisesKept(mfExtracts, mfFiles, mfCount)'
    BY <1>1, <2>1, <2>4 DEF PromisesKept
  <2>6. PromisesKept(mfSaved.extracts, mfSaved.files, mfSaved.count)'
    BY <1>1, <2>1
  <2>7. QED
    BY <1>1, <2>1, <2>2, <2>3, <2>5, <2>6, MfInvFrom
<1>5. QED
  BY <1>2, <1>3, <1>4

\* Every step of the managed files keeps their invariant.
LEMMA MfInvStep ==
  ASSUME MfInv, [MfNext]_mfVars
  PROVE  MfInv'
<1>1. CASE UNCHANGED mfVars
  BY <1>1 DEF mfVars, MfInv, CountsFit, ManagedFilesAgree, PromisesKept
<1>2. CASE MfWrites \/ MfReplaces
  BY <1>2, OverwritesKeepsInv DEF MfWrites, MfReplaces
<1>3. CASE MfWritesAbsolute \/ MfReplacesAbsolute
  BY <1>3, WritesPastKeepsInv DEF MfWritesAbsolute, MfReplacesAbsolute
<1>4. QED
  BY <1>1, <1>2, <1>3, ExtractsKeepsInv, NukesKeepsInv, CopiesKeepsInv DEF MfNext

\* The counts and the promised extracts fit the files, now and in the checkpoint.
THEOREM ManagedInvHolds == MfSpec => []MfInv
<1>1. MfInit => MfInv
  BY ManagedFilesAssumption DEF MfInit, MfInv, CountsFit, ManagedFilesAgree, PromisesKept,
     NothingSent, ManagedFilesAssumption
<1>2. QED
  BY <1>1, MfInvStep, PTL DEF MfSpec

\* Memory and disk agree but for touched names, extracts stay under their names,
\* and an upload sends what reading shows, across checkpoints and restores
\* (ManagedFileSystem).  That numbers give distinct names is assumed.
THEOREM ManagedFilesHold == MfSpec => []ManagedFilesAgree
<1>1. MfInv => ManagedFilesAgree
  BY DEF MfInv
<1>2. QED
  BY <1>1, ManagedInvHolds, PTL

-----------------------------------------------------------------------------
(* ActionReplay *)

\* The signals that an element which can be told by an attribute shares with
\* itself, wherever it stands in the capture.
LEMMA SelfIsAlike ==
  ASSUME NEW x, NEW i, NEW y, NEW j, y.el = x.el, HasKey(x.el)
  PROVE  /\ Same("stable", x, i, y, j)
         /\ y.toggled = x.toggled => Same("exact", x, i, y, j)
<1>1. XPath(y, j) = XPath(x, i)
  BY DEF XPath, HasKey
<1>2. StableHash(y, j) = StableHash(x, i)
  BY <1>1 DEF StableHash
<1>3. Same("stable", x, i, y, j) = (StableHash(x, i) = StableHash(y, j))
  BY DEF Same
<1>4. Same("exact", x, i, y, j) = (ElementHash(x, i) = ElementHash(y, j))
  BY DEF Same
<1>5. QED
  BY <1>2, <1>3, <1>4 DEF ElementHash

\* The strongest signal is "exact" or "stable" when either has a candidate.
LEMMA StrongestSignal ==
  ASSUME NEW hits \in SUBSET (1..6), 2 \in hits
  PROVE  LET first == CHOOSE n \in hits : \A m \in hits : n <= m
         IN  first \in hits /\ (first = 1 \/ (first = 2 /\ 1 \notin hits))
<1> DEFINE first == CHOOSE n \in hits : \A m \in hits : n <= m
<1>1. \E n \in hits : \A m \in hits : n <= m
  <2>1. CASE 1 \in hits
    BY <2>1
  <2>2. CASE 1 \notin hits
    <3>1. \A m \in hits : 2 <= m
      BY <2>2
    <3>2. QED
      BY <3>1
  <2>3. QED
    BY <2>1, <2>2
<1>2. first \in hits /\ \A m \in hits : first <= m
  BY <1>1
<1>3. first \in 1..6 /\ first <= 2
  BY <1>2
<1>4. first = 1 \/ first = 2
  BY <1>3
<1>5. first = 2 => 1 \notin hits
  BY <1>2
<1>6. QED
  BY <1>2, <1>4, <1>5

\* What unique_match finds is the only candidate.
LEMMA UniqueMatchIsOnly ==
  ASSUME NEW indices, IsFiniteSet(indices), NEW j \in UniqueMatch(indices)
  PROVE  \A k \in indices : k = j
<1>1. Cardinality(indices) = 1 /\ j \in indices
  BY DEF UniqueMatch
<1>2. QED
  BY <1>1, FS_Singleton

\* Who looks like an element by one of the two hashes has its attributes.
LEMMA HashesShowLooks ==
  ASSUME NEW x, NEW i, NEW y, NEW j, Same("exact", x, i, y, j) \/ Same("stable", x, i, y, j)
  PROVE  Looks[y.el] = Looks[x.el]
<1>1. StableHash(x, i) = StableHash(y, j)
  BY DEF Same, ElementHash
<1>2. QED
  BY <1>1 DEF StableHash

\* The index found is the element's own, unless its class has changed and
\* another now looks as it did.
LEMMA RematchFindsOriginal ==
  ASSUME NEW dom \in Seq(RpElems), NEW x \in RpElems, NEW i, NEW n \in DOMAIN dom,
         dom[n].el = x.el, HasKey(x.el), NEW j \in Rematched(x, i, dom),
         \A m \in DOMAIN dom : m # n => ~(dom[n].toggled # x.toggled /\ Looks[dom[m].el] = Looks[x.el])
  PROVE  j \in DOMAIN dom /\ dom[j].el = x.el
<1> DEFINE found(level) == MatchingIndices(level, x, i, dom)
           hits == {k \in DOMAIN Levels : found(Levels[k]) # {}}
           first == CHOOSE k \in hits : \A m \in hits : k <= m
<1>1. Same("stable", x, i, dom[n], n) /\ (dom[n].toggled = x.toggled => Same("exact", x, i, dom[n], n))
  BY SelfIsAlike
<1>2. DOMAIN Levels = 1..6 /\ Levels[1] = "exact" /\ Levels[2] = "stable"
  BY DEF Levels
<1>3. n \in found("stable") /\ (dom[n].toggled = x.toggled => n \in found("exact"))
  BY <1>1 DEF MatchingIndices
<1>4. hits \in SUBSET (1..6) /\ 2 \in hits
  BY <1>2, <1>3
<1>5. j \in UniqueMatch(found(Levels[first]))
  BY <1>4 DEF Rematched
<1>6. first \in hits /\ (first = 1 \/ (first = 2 /\ 1 \notin hits))
  <2> HIDE DEF hits
  <2>1. QED
    BY <1>4, StrongestSignal
<1>7. \A level : IsFiniteSet(found(level)) /\ \A k \in found(level) : k \in DOMAIN dom /\ Same(level, x, i, dom[k], k)
  <2>1. DOMAIN dom = 1..Len(dom) /\ Len(dom) \in Nat
    OBVIOUS
  <2>2. IsFiniteSet(DOMAIN dom)
    BY <2>1, FS_Interval
  <2>3. QED
    BY <2>2, FS_Subset DEF MatchingIndices
<1>8. j \in found(Levels[first])
  BY <1>5 DEF UniqueMatch
<1> HIDE DEF found
<1>9. \A k \in found(Levels[first]) : k = j
  BY <1>5, <1>7, UniqueMatchIsOnly
<1>10. CASE n \in found(Levels[first])
  BY <1>7, <1>9, <1>10
<1>11. CASE n \notin found(Levels[first])
  <2>1. first = 1 /\ dom[n].toggled # x.toggled
    BY <1>2, <1>3, <1>6, <1>11
  <2>2. j \in DOMAIN dom /\ Same("exact", x, i, dom[j], j)
    BY <1>2, <1>7, <1>8, <2>1
  <2>3. Looks[dom[j].el] = Looks[x.el]
    BY <2>2, HashesShowLooks
  <2>4. j = n
    BY <2>1, <2>2, <2>3
  <2>5. QED
    BY <2>2, <2>4
<1>12. QED
  BY <1>10, <1>11

\* What a matched or chosen action does, with the capture it was matched with.
LEMMA ActsOnWanted ==
  ASSUME NEW dom \in Seq(RpElems), NEW item \in RpItems, NEW x \in RpElems,
         item.wanted = {x}, item.index \in DOMAIN dom,
         (Matched(item, dom) /\ HasKey(x.el)) \/ Chosen(item, dom),
         NEW n \in DOMAIN dom, dom[n].el = x.el,
         \A m \in DOMAIN dom : m # n => ~(dom[n].toggled # x.toggled /\ Looks[dom[m].el] = Looks[x.el])
  PROVE  dom[item.index].el = x.el
<1>1. CASE Chosen(item, dom)
  BY <1>1 DEF Chosen
<1>2. CASE Matched(item, dom) /\ HasKey(x.el)
  <2>1. item.index \in Rematched(x, item.from, dom)
    BY <1>2 DEF Matched
  <2>2. QED
    BY <1>2, <2>1, RematchFindsOriginal
<1>3. QED
  BY <1>1, <1>2

\* An action as recorded wants at most one element, and the one at its index.
LEMMA HistoricalItems ==
  ASSUME NEW history, NEW S, history \in Seq(S), NEW dom \in Seq(RpElems),
         \A k \in DOMAIN history : /\ history[k].kind \in {"click", "wait", "navigate", "done"}
                                   /\ history[k].index \in Nat
  PROVE  /\ Historical(history, dom) \in Seq(RpItems)
         /\ DOMAIN Historical(history, dom) = DOMAIN history
         /\ \A k \in DOMAIN history :
              /\ \A x, y \in Historical(history, dom)[k].wanted : x = y
              /\ Chosen(Historical(history, dom)[k], dom)
<1>1. DOMAIN history = 1..Len(history) /\ Len(history) \in Nat
  OBVIOUS
<1>2. ASSUME NEW k \in DOMAIN history
      PROVE  /\ Historical(history, dom)[k] \in RpItems
             /\ \A x, y \in Historical(history, dom)[k].wanted : x = y
             /\ Chosen(Historical(history, dom)[k], dom)
  <2> DEFINE item == Historical(history, dom)[k]
  <2>1. item = [kind |-> history[k].kind, index |-> history[k].index, from |-> history[k].index,
                wanted |-> IF history[k].kind = "click" /\ history[k].index \in DOMAIN dom
                           THEN {dom[history[k].index]} ELSE {}]
    BY DEF Historical
  <2>2. item.wanted = {} \/ (item.index \in DOMAIN dom /\ item.wanted = {dom[item.index]})
    BY <2>1
  <2>3. item.wanted \in SUBSET RpElems
    BY <2>2
  <2>4. item \in RpItems
    BY <2>1, <2>3 DEF RpItems
  <2>5. QED
    BY <2>2, <2>4 DEF Chosen
<1>3. DOMAIN Historical(history, dom) = 1..Len(history)
  BY <1>1 DEF Historical
<1>4. Historical(history, dom) = [k \in 1..Len(history) |-> Historical(history, dom)[k]]
  BY <1>3 DEF Historical
<1>5. Historical(history, dom) \in [1..Len(history) -> RpItems]
  BY <1>1, <1>2, <1>4
<1>6. Historical(history, dom) \in Seq(RpItems)
  BY <1>1, <1>5
<1>7. QED
  BY <1>1, <1>2, <1>3, <1>6

\* A rematched action wants what it wanted and has an index where it was found.
LEMMA RemappedItems ==
  ASSUME NEW item \in RpItems, NEW dom \in Seq(RpElems), NEW new \in Remapped(item, dom),
         \A x, y \in item.wanted : x = y
  PROVE  new \in RpItems /\ new.wanted = item.wanted /\ new.kind = item.kind /\ Matched(new, dom)
<1>1. CASE item.wanted = {}
  BY <1>1 DEF Remapped, Matched
<1>2. CASE item.wanted # {}
  <2>1. PICK x \in item.wanted : item.wanted = {x}
    BY <1>2
  <2>2. PICK j \in Rematched(x, item.from, dom) : new = [item EXCEPT !.index = j]
    BY <1>2, <2>1 DEF Remapped
  <2>3. j \in DOMAIN dom
    BY <2>2 DEF Rematched, UniqueMatch, MatchingIndices
  <2>4. new.wanted = item.wanted /\ new.kind = item.kind /\ new.from = item.from /\ new.index = j
    BY <2>2 DEF RpItems
  <2>5. new \in RpItems
    BY <2>2, <2>3 DEF RpItems
  <2>6. Matched(new, dom)
    BY <2>1, <2>2, <2>4 DEF Matched
  <2>7. QED
    BY <2>4, <2>5, <2>6
<1>3. QED
  BY <1>1, <1>2

\* A page with an element more, one less or one of another class is a page.
LEMMA ChangedPages ==
  ASSUME NEW page \in Seq(RpElems)
  PROVE  /\ \A e \in RpElems, n \in 1..(Len(page) + 1) : InsertAt(page, n, e) \in Seq(RpElems)
         /\ \A n \in DOMAIN page : /\ RemoveAt(page, n) \in Seq(RpElems)
                                   /\ [page EXCEPT ![n].toggled = ~@] \in Seq(RpElems)
<1>1. Len(page) \in Nat /\ DOMAIN page = 1..Len(page) /\ \A k \in 1..Len(page) : page[k] \in RpElems
  OBVIOUS
<1>2. \A n \in 1..(Len(page) + 1) :
        SubSeq(page, 1, n - 1) \in Seq(RpElems) /\ SubSeq(page, n, Len(page)) \in Seq(RpElems)
  <2> TAKE n \in 1..(Len(page) + 1)
  <2>1. /\ n \in Int /\ n - 1 \in Int /\ Len(page) \in Int /\ 1 \in Int
        /\ \A k \in 1..(n - 1) : page[k] \in RpElems
        /\ \A k \in n..Len(page) : page[k] \in RpElems
    BY <1>1
  <2>2. SubSeq(page, 1, n - 1) \in Seq(RpElems)
    BY <2>1, SubSeqProperties
  <2>3. SubSeq(page, n, Len(page)) \in Seq(RpElems)
    BY <2>1, SubSeqProperties
  <2>4. QED
    BY <2>2, <2>3
<1>3. ASSUME NEW e \in RpElems, NEW n \in 1..(Len(page) + 1) PROVE InsertAt(page, n, e) \in Seq(RpElems)
  <2>1. <<e>> \in Seq(RpElems)
    OBVIOUS
  <2>2. QED
    BY <1>2, <2>1, ConcatProperties DEF InsertAt
<1>4. ASSUME NEW n \in DOMAIN page PROVE RemoveAt(page, n) \in Seq(RpElems)
  <2>1. n \in 1..(Len(page) + 1) /\ n + 1 \in 1..(Len(page) + 1)
    BY <1>1
  <2>2. QED
    BY <1>2, <2>1, ConcatProperties DEF RemoveAt
<1>5. ASSUME NEW n \in DOMAIN page PROVE [page EXCEPT ![n].toggled = ~@] \in Seq(RpElems)
  <2> DEFINE e == [page[n] EXCEPT !.toggled = ~@]
  <2>1. e \in RpElems
    BY <1>1 DEF RpElems
  <2>2. [page EXCEPT ![n].toggled = ~@] = [page EXCEPT ![n] = e]
    OBVIOUS
  <2> HIDE DEF e
  <2>3. QED
    BY <1>1, <2>1, <2>2, ExceptSeq
<1>6. QED
  BY <1>3, <1>4, <1>5

\* Before the start nothing was done, so nothing was done wrong.
LEMMA NothingIsRight ==
  ASSUME rpActed = NothingReplayed
  PROVE  ActsOnOriginalElement
BY DEF ActsOnOriginalElement, WantedIn, NothingReplayed

\* A change of the page leaves captures and matches as they were.
LEMMA PageChangesKeepsRpInv ==
  ASSUME RpInv, RpPageChanges
  PROVE  RpInv'
<1>1. rpPage \in Seq(RpElems)
  BY DEF RpInv, RpTyped
<1>2. rpPage' \in Seq(RpElems)
  <2>1. ASSUME NEW e \in DOMAIN Looks, NEW n \in 1..(Len(rpPage) + 1)
        PROVE  InsertAt(rpPage, n, Shown(e)) \in Seq(RpElems)
    <3>1. Shown(e) \in RpElems
      BY DEF Shown, RpElems
    <3>2. QED
      BY <1>1, <3>1, ChangedPages
  <2>2. \A n \in DOMAIN rpPage : /\ RemoveAt(rpPage, n) \in Seq(RpElems)
                                 /\ [rpPage EXCEPT ![n].toggled = ~@] \in Seq(RpElems)
    BY <1>1, ChangedPages
  <2>3. QED
    BY <2>1, <2>2 DEF RpPageChanges
<1>3. UNCHANGED <<rpCache, rpDom, rpMode, rpStage, rpLeft, rpDone, rpActed, rpStop>>
  BY DEF RpPageChanges
<1>4. RpTyped'
  BY <1>2, <1>3 DEF RpInv, RpTyped
<1>5. WantsAtMostOne' /\ MatchesAreOfCapture'
  BY <1>3 DEF RpInv, WantsAtMostOne, MatchesAreOfCapture
<1>6. ActsOnOriginalElement'
  BY <1>3 DEF RpInv, ActsOnOriginalElement, WantedIn, Confused, Wanted
<1>7. QED
  BY <1>3, <1>4, <1>5, <1>6 DEF RpInv

\* A start: the capture, and the actions as they are or as they are planned.
LEMMA StartsKeepsRpInv ==
  ASSUME RpInv, NEW mode \in {"replay", "plan", "sequence"}, ReplayStarts(mode),
         rpLeft' \in Seq(RpItems), WantsAtMostOne', rpStage' \in {"item", "stopped"},
         mode = "plan" /\ rpStage' # "stopped" => \A k \in DOMAIN rpLeft' : Matched(rpLeft'[k], rpPage),
         mode = "sequence" => \A k \in DOMAIN rpLeft' : Chosen(rpLeft'[k], rpPage)
  PROVE  RpInv'
<1>1. /\ rpMode' = mode /\ rpCache' = rpPage /\ rpDom' = rpPage /\ rpPage' = rpPage
      /\ rpActed' = rpActed /\ rpStage = "idle"
  BY DEF ReplayStarts, Captures
<1>2. RpTyped'
  BY <1>1 DEF RpInv, RpTyped
<1>3. rpActed' = NothingReplayed
  BY <1>1 DEF RpInv, RpTyped
<1>4. ActsOnOriginalElement'
  BY <1>3 DEF ActsOnOriginalElement, WantedIn, NothingReplayed
<1>5. MatchesAreOfCapture'
  <2>1. rpDom' = rpPage /\ rpMode' = mode /\ rpStage' # "execute"
    BY <1>1
  <2>2. QED
    BY <2>1 DEF MatchesAreOfCapture
<1>6. QED
  BY <1>1, <1>2, <1>3, <1>4, <1>5 DEF RpInv

\* A replay starts with all of its history still to do, planned or chosen in
\* one capture.
LEMMA RpStartsKeepsInv ==
  ASSUME RpInv, RpReplaysHistory \/ RpPlans \/ RpRunsSequence
  PROVE  RpInv'
<1>1. /\ rpPage \in Seq(RpElems) /\ rpLeft \in Seq(RpItems) /\ WantsAtMostOne
      /\ DOMAIN rpLeft = 1..Len(rpLeft) /\ Len(rpLeft) \in Nat
      /\ \A k \in DOMAIN rpLeft : rpLeft[k] \in RpItems
  BY DEF RpInv, RpTyped
<1>2. CASE RpReplaysHistory
  <2>1. ReplayStarts("replay") /\ rpStage' = "item" /\ rpLeft' = rpLeft
    BY <1>2 DEF RpReplaysHistory
  <2>2. WantsAtMostOne'
    BY <1>1, <2>1 DEF WantsAtMostOne
  <2>3. QED
    BY <1>1, <2>1, <2>2, StartsKeepsRpInv
<1>3. CASE RpPlans
  <2>1. ReplayStarts("plan")
    BY <1>3 DEF RpPlans
  <2>2. CASE rpStage' = "stopped" /\ rpLeft' = rpLeft
    <3>1. WantsAtMostOne'
      BY <1>1, <2>2 DEF WantsAtMostOne
    <3>2. QED
      BY <1>1, <2>1, <2>2, <3>1, StartsKeepsRpInv
  <2>3. CASE /\ \A n \in DOMAIN rpLeft : Remapped(rpLeft[n], rpPage) # {}
             /\ rpLeft' = [n \in DOMAIN rpLeft |-> CHOOSE item \in Remapped(rpLeft[n], rpPage) : TRUE]
             /\ rpStage' = "item"
    <3>1. ASSUME NEW k \in DOMAIN rpLeft
          PROVE  /\ rpLeft'[k] \in RpItems /\ rpLeft'[k].wanted = rpLeft[k].wanted
                 /\ Matched(rpLeft'[k], rpPage)
      <4>1. rpLeft'[k] \in Remapped(rpLeft[k], rpPage)
        BY <2>3
      <4>2. \A x, y \in rpLeft[k].wanted : x = y
        BY <1>1 DEF WantsAtMostOne
      <4>3. QED
        BY <1>1, <4>1, <4>2, RemappedItems
    <3>2. DOMAIN rpLeft' = 1..Len(rpLeft)
      BY <1>1, <2>3
    <3>3. rpLeft' \in [1..Len(rpLeft) -> RpItems]
      BY <1>1, <2>3, <3>1
    <3>4. rpLeft' \in Seq(RpItems)
      BY <1>1, <3>3
    <3>5. WantsAtMostOne'
      BY <1>1, <3>1, <3>2 DEF WantsAtMostOne
    <3>6. \A k \in DOMAIN rpLeft' : Matched(rpLeft'[k], rpPage)
      BY <1>1, <3>1, <3>2
    <3>7. QED
      BY <2>1, <2>3, <3>4, <3>5, <3>6, StartsKeepsRpInv
  <2>4. QED
    BY <1>3, <2>2, <2>3 DEF RpPlans, Stops
<1>4. CASE RpRunsSequence
  <2> DEFINE history == [n \in DOMAIN rpLeft |-> [kind |-> rpLeft[n].kind, index |-> rpLeft[n].index]]
             S == [kind : {"click", "wait", "navigate", "done"}, index : Nat]
  <2>1. ReplayStarts("sequence") /\ rpStage' = "item" /\ rpLeft' = Historical(history, rpPage)
    BY <1>4 DEF RpRunsSequence
  <2>2. \A k \in DOMAIN rpLeft : history[k] \in S
    BY <1>1 DEF RpItems
  <2>3. history \in [1..Len(rpLeft) -> S]
    BY <1>1, <2>2
  <2>4. history \in Seq(S)
    BY <1>1, <2>3
  <2>5. \A k \in DOMAIN history : /\ history[k].kind \in {"click", "wait", "navigate", "done"}
                                  /\ history[k].index \in Nat
    BY <2>2
  <2> HIDE DEF history, S
  <2>6. /\ rpLeft' \in Seq(RpItems) /\ DOMAIN rpLeft' = DOMAIN history
        /\ \A k \in DOMAIN history : /\ \A x, y \in rpLeft'[k].wanted : x = y
                                     /\ Chosen(rpLeft'[k], rpPage)
    BY <1>1, <2>1, <2>4, <2>5, HistoricalItems
  <2>7. WantsAtMostOne'
    BY <2>6 DEF WantsAtMostOne
  <2>8. QED
    BY <2>1, <2>6, <2>7, StartsKeepsRpInv
<1>5. QED
  BY <1>2, <1>3, <1>4

\* What a state has to show after a step that leaves what was done as it was.
LEMMA RpInvFrom ==
  ASSUME RpInv, RpTyped', WantsAtMostOne', MatchesAreOfCapture',
         UNCHANGED <<rpActed, rpMode>>,
         rpStage' \in {"execute", "after"} => rpLeft' # <<>>
  PROVE  RpInv'
<1>1. ActsOnOriginalElement'
  BY DEF RpInv, ActsOnOriginalElement, WantedIn, Confused, Wanted
<1>2. QED
  BY <1>1 DEF RpInv

\* Matching anew takes a capture of the page and finds each element in it.
LEMMA RematchesKeepsRpInv ==
  ASSUME RpInv, RpRematches
  PROVE  RpInv'
<1>1. /\ RpTyped /\ WantsAtMostOne /\ rpLeft # <<>> /\ rpMode = "replay"
      /\ UNCHANGED <<rpPage, rpCache, rpDom, rpMode, rpDone, rpActed, rpChanges>>
  BY DEF RpInv, RpRematches, NextItem
<1>2. /\ rpLeft \in Seq(RpItems) /\ rpDom \in Seq(RpElems)
      /\ DOMAIN rpLeft = 1..Len(rpLeft) /\ Len(rpLeft) \in Nat \ {0} /\ Head(rpLeft) = rpLeft[1]
      /\ rpLeft[1] \in RpItems
  BY <1>1 DEF RpTyped
<1>3. CASE rpStage' = "stopped" /\ rpLeft' = rpLeft
  <2>1. RpTyped' /\ WantsAtMostOne' /\ MatchesAreOfCapture'
    BY <1>1, <1>3 DEF RpTyped, WantsAtMostOne, MatchesAreOfCapture
  <2>2. QED
    BY <1>1, <1>3, <2>1, RpInvFrom
<1>4. CASE /\ rpStage' = "execute"
           /\ \E item \in Remapped(Head(rpLeft), rpDom) : rpLeft' = <<item>> \o Tail(rpLeft)
  <2>1. PICK item \in Remapped(rpLeft[1], rpDom) : rpLeft' = <<item>> \o Tail(rpLeft)
    BY <1>2, <1>4
  <2>2. item \in RpItems /\ item.wanted = rpLeft[1].wanted /\ Matched(item, rpDom)
    <3>1. \A x, y \in rpLeft[1].wanted : x = y
      BY <1>1, <1>2 DEF WantsAtMostOne
    <3>2. QED
      BY <1>2, <2>1, <3>1, RemappedItems
  <2>3. /\ rpLeft' \in Seq(RpItems) /\ DOMAIN rpLeft' = 1..Len(rpLeft) /\ rpLeft' # <<>>
        /\ rpLeft'[1] = item /\ Head(rpLeft') = item
        /\ \A k \in 2..Len(rpLeft) : rpLeft'[k] = rpLeft[k]
    <3>1. Tail(rpLeft) \in Seq(RpItems) /\ Len(Tail(rpLeft)) = Len(rpLeft) - 1
          /\ \A k \in 1..(Len(rpLeft) - 1) : Tail(rpLeft)[k] = rpLeft[k + 1]
      BY <1>1, <1>2, HeadTailProperties
    <3>2. <<item>> \in Seq(RpItems) /\ Len(<<item>>) = 1 /\ <<item>>[1] = item
      BY <2>2
    <3>3. /\ rpLeft' \in Seq(RpItems) /\ Len(rpLeft') = Len(rpLeft)
          /\ \A k \in 1..Len(rpLeft) : rpLeft'[k] = IF k <= 1 THEN <<item>>[k] ELSE Tail(rpLeft)[k - 1]
      BY <1>2, <2>1, <3>1, <3>2, ConcatProperties
    <3>4. \A k \in 2..Len(rpLeft) : rpLeft'[k] = rpLeft[k]
      BY <1>2, <3>1, <3>3
    <3>5. QED
      BY <1>2, <3>2, <3>3, <3>4
  <2>4. WantsAtMostOne'
    <3> SUFFICES ASSUME NEW k \in DOMAIN rpLeft', NEW x \in rpLeft'[k].wanted, NEW y \in rpLeft'[k].wanted
                 PROVE  x = y
      BY DEF WantsAtMostOne
    <3>1. k \in DOMAIN rpLeft /\ rpLeft'[k].wanted = rpLeft[k].wanted
      BY <1>2, <2>2, <2>3
    <3>2. QED
      BY <1>1, <3>1 DEF WantsAtMostOne
  <2>5. MatchesAreOfCapture'
    BY <1>1, <2>2, <2>3 DEF MatchesAreOfCapture
  <2>6. RpTyped'
    BY <1>1, <1>4, <2>3 DEF RpTyped
  <2>7. QED
    BY <1>1, <2>3, <2>4, <2>5, <2>6, RpInvFrom
<1>5. QED
  BY <1>3, <1>4 DEF RpRematches, Stops

\* The action that is carried out has its element, or one of the exceptions.
LEMMA ExecutesKeepsRpInv ==
  ASSUME RpInv, RpExecutes
  PROVE  RpInv'
<1>1. /\ rpStage = "execute" /\ rpStage' = "after" /\ rpLeft # <<>>
      /\ UNCHANGED <<rpPage, rpCache, rpDom, rpMode, rpLeft>>
      /\ RpTyped /\ WantsAtMostOne /\ MatchesAreOfCapture
  BY DEF RpInv, RpExecutes
<1>2. RpTyped' /\ WantsAtMostOne' /\ MatchesAreOfCapture'
  BY <1>1 DEF RpTyped, WantsAtMostOne, MatchesAreOfCapture
<1>3. CASE rpActed' = rpActed
  BY <1>1, <1>2, <1>3, RpInvFrom
<1> DEFINE item == Head(rpLeft)
<1>4. CASE /\ item.index \in DOMAIN rpCache
           /\ rpActed' = [wanted |-> item.wanted, did |-> {rpCache[item.index].el},
                          dom |-> rpDom, moved |-> rpCache # rpDom]
  <2>1. /\ item = rpLeft[1] /\ 1 \in DOMAIN rpLeft /\ item \in RpItems
        /\ rpDom \in Seq(RpElems)
    BY <1>1 DEF RpTyped
  <2>2. \A x, y \in item.wanted : x = y
    BY <1>1, <2>1 DEF WantsAtMostOne
  <2>3. rpMode # "none"
    BY <1>1 DEF RpTyped
  <2>4. IF rpMode = "sequence" THEN Chosen(item, rpDom) ELSE Matched(item, rpDom)
    <3>1. rpMode \in {"replay", "plan", "sequence"}
      BY <1>1, <2>3 DEF RpTyped
    <3>2. QED
      BY <1>1, <2>1, <3>1 DEF MatchesAreOfCapture
  <2>5. ASSUME ~rpActed'.moved, WantedIn(rpActed.dom)', ~Confused',
               ~(rpMode' # "sequence" /\ \E x \in rpActed'.wanted : ~HasKey(x.el))
        PROVE  rpActed'.did = Wanted'
    <3> HIDE DEF item
    <3>1. rpCache = rpDom
      BY <1>4, <2>5
    <3>2. PICK x \in item.wanted, n \in DOMAIN rpDom : rpDom[n].el = x.el
      BY <1>4, <2>5 DEF WantedIn
    <3>3. item.wanted = {x} /\ x \in RpElems
      BY <2>1, <2>2, <3>2 DEF RpItems
    <3>4. \A m \in DOMAIN rpDom : m # n => ~(rpDom[n].toggled # x.toggled /\ Looks[rpDom[m].el] = Looks[x.el])
      BY <1>4, <2>5, <3>2 DEF Confused
    <3>5. (Matched(item, rpDom) /\ HasKey(x.el)) \/ Chosen(item, rpDom)
      BY <1>1, <1>4, <2>4, <2>5, <3>2
    <3>6. rpDom[item.index].el = x.el
      BY <1>4, <2>1, <3>1, <3>2, <3>3, <3>4, <3>5, ActsOnWanted
    <3>7. rpActed'.did = {x.el} /\ rpActed'.wanted = {x}
      BY <1>4, <3>1, <3>3, <3>6
    <3>8. QED
      BY <3>7 DEF Wanted
  <2>6. ActsOnOriginalElement'
    BY <2>5 DEF ActsOnOriginalElement
  <2>7. QED
    BY <1>1, <1>2, <2>3, <2>6 DEF RpInv
<1>5. QED
  BY <1>3, <1>4 DEF RpExecutes

\* The steps that only go on, or end a replay, keep what was matched.
LEMMA OthersKeepRpInv ==
  ASSUME RpInv, RpEnds \/ RpGuards \/ RpContinues \/ RpFails
  PROVE  RpInv'
<1>1. /\ RpTyped /\ WantsAtMostOne /\ MatchesAreOfCapture
      /\ rpStage \in {"execute", "after"} => rpLeft # <<>>
  BY DEF RpInv
<1>2. CASE RpEnds \/ RpFails
  <2>1. /\ UNCHANGED <<rpPage, rpCache, rpDom, rpMode, rpLeft, rpActed>>
        /\ rpStage # "idle" /\ rpStage' = "stopped"
    BY <1>2 DEF RpEnds, RpFails, Stops
  <2>2. RpTyped' /\ WantsAtMostOne' /\ MatchesAreOfCapture'
    BY <1>1, <2>1 DEF RpTyped, WantsAtMostOne, MatchesAreOfCapture
  <2>3. QED
    BY <2>1, <2>2, RpInvFrom
<1>3. CASE RpGuards
  <2>1. /\ UNCHANGED <<rpPage, rpDom, rpMode, rpLeft, rpActed>> /\ rpCache' \in {rpCache, rpPage}
        /\ rpStage = "item" /\ rpStage' = "execute" /\ rpMode # "replay" /\ rpLeft # <<>>
    BY <1>3 DEF RpGuards, NextItem, Captures
  <2>2. RpTyped' /\ WantsAtMostOne' /\ MatchesAreOfCapture'
    BY <1>1, <2>1 DEF RpTyped, WantsAtMostOne, MatchesAreOfCapture
  <2>3. QED
    BY <2>1, <2>2, RpInvFrom
<1>4. CASE RpContinues
  <2>1. /\ UNCHANGED <<rpPage, rpMode, rpActed>> /\ rpStage = "after" /\ rpLeft # <<>>
        /\ rpStage' \in {"item", "stopped"}
        /\ rpCache' \in {rpCache, rpPage} /\ rpDom' \in {rpDom, rpPage}
        /\ rpMode # "replay" => rpDom' = rpDom
        /\ rpLeft' = rpLeft \/ rpLeft' = Tail(rpLeft)
    BY <1>1, <1>4 DEF RpContinues, Stops, Captures
  <2>2. /\ rpLeft' \in Seq(RpItems)
        /\ \A k \in DOMAIN rpLeft' : \E l \in DOMAIN rpLeft : rpLeft'[k] = rpLeft[l]
    <3>1. rpLeft \in Seq(RpItems) /\ DOMAIN rpLeft = 1..Len(rpLeft) /\ Len(rpLeft) \in Nat
      BY <1>1 DEF RpTyped
    <3>2. CASE rpLeft' = rpLeft
      BY <3>1, <3>2
    <3>3. CASE rpLeft' = Tail(rpLeft)
      <4>1. /\ Tail(rpLeft) \in Seq(RpItems) /\ Len(Tail(rpLeft)) = Len(rpLeft) - 1
            /\ \A k \in 1..Len(Tail(rpLeft)) : Tail(rpLeft)[k] = rpLeft[k + 1]
        BY <2>1, <3>1, HeadTailProperties
      <4>2. \A k \in DOMAIN Tail(rpLeft) : k + 1 \in DOMAIN rpLeft /\ Tail(rpLeft)[k] = rpLeft[k + 1]
        BY <3>1, <4>1
      <4>3. QED
        BY <3>3, <4>1, <4>2
    <3>4. QED
      BY <2>1, <3>2, <3>3
  <2>3. RpTyped'
    BY <1>1, <2>1, <2>2 DEF RpTyped
  <2>4. WantsAtMostOne'
    BY <1>1, <2>2 DEF WantsAtMostOne
  <2>5. MatchesAreOfCapture'
    BY <1>1, <2>1, <2>2 DEF MatchesAreOfCapture
  <2>6. QED
    BY <2>1, <2>3, <2>4, <2>5, RpInvFrom
<1>5. QED
  BY <1>2, <1>3, <1>4

\* Every step of a replay keeps its invariant.
LEMMA RpInvStep ==
  ASSUME RpInv, [RpNext]_rpVars
  PROVE  RpInv'
<1>1. CASE UNCHANGED rpVars
  <2>1. RpTyped' /\ WantsAtMostOne' /\ MatchesAreOfCapture'
    BY <1>1 DEF rpVars, RpInv, RpTyped, WantsAtMostOne, MatchesAreOfCapture
  <2>2. QED
    BY <1>1, <2>1, RpInvFrom DEF rpVars, RpInv
<1>2. QED
  BY <1>1, PageChangesKeepsRpInv, RpStartsKeepsInv, RematchesKeepsRpInv, ExecutesKeepsRpInv,
     OthersKeepRpInv DEF RpNext

\* Before a replay nothing is left to do.
LEMMA RpInitInv == RpInit => RpInv
<1> SUFFICES ASSUME RpInit PROVE RpInv
  OBVIOUS
<1>1. PICK o \in Originals : rpPage = [n \in DOMAIN o |-> Shown(o[n])]
  BY DEF RpInit
<1>2. o \in Seq(DOMAIN Looks)
  BY ActionReplayAssumption DEF ActionReplayAssumption
<1>3. rpPage \in Seq(RpElems)
  <2>1. DOMAIN o = 1..Len(o) /\ Len(o) \in Nat /\ \A n \in DOMAIN o : Shown(o[n]) \in RpElems
    BY <1>2 DEF Shown, RpElems
  <2>2. rpPage \in [1..Len(o) -> RpElems]
    BY <1>1, <2>1
  <2>3. QED
    BY <2>1, <2>2
<1>4. PICK h \in Histories : rpLeft = Historical(h, rpPage)
  BY DEF RpInit
<1> DEFINE S == [kind : {"click", "wait", "navigate", "done"}, index : Nat]
<1>5. h \in Seq(S)
  BY ActionReplayAssumption DEF ActionReplayAssumption
<1> HIDE DEF S
<1>6. \A k \in DOMAIN h : h[k].kind \in {"click", "wait", "navigate", "done"} /\ h[k].index \in Nat
  <2>1. \A k \in DOMAIN h : h[k] \in S
    BY <1>5, LenProperties, ElementOfSeq
  <2>2. QED
    BY <2>1 DEF S
<1>7. /\ rpLeft \in Seq(RpItems) /\ DOMAIN rpLeft = DOMAIN h
      /\ \A k \in DOMAIN h : \A x, y \in rpLeft[k].wanted : x = y
  BY <1>3, <1>4, <1>5, <1>6, HistoricalItems
<1>8. /\ rpCache = <<>> /\ rpDom = <<>> /\ rpMode = "none" /\ rpStage = "idle" /\ rpActed = NothingReplayed
  BY DEF RpInit
<1>9. RpTyped
  BY <1>3, <1>7, <1>8 DEF RpTyped
<1>10. QED
  BY <1>7, <1>8, <1>9, NothingIsRight DEF RpInv, WantsAtMostOne, MatchesAreOfCapture

\* The actions still to do are right for the capture they were matched with.
THEOREM ReplayInvHolds == RpSpec => []RpInv
BY RpInitInv, RpInvStep, PTL DEF RpSpec

\* A replayed action, and one the model chose, acts on the element it was for,
\* whatever the pages and histories, unless the capture changed since the match,
\* the element is gone, has no attribute to be told by, or changed its class
\* beside one that looks as it did (replay_history, rematch_action_for_replay).
THEOREM ActionsFindTheirElement == RpSpec => []ActsOnOriginalElement
<1>1. RpInv => ActsOnOriginalElement
  BY DEF RpInv
<1>2. QED
  BY <1>1, ReplayInvHolds, PTL

-----------------------------------------------------------------------------
(* ElementIndex: the inductive invariant *)

EiSpec == EiInit /\ [][EiNext]_eiVars

\* Up to j the two scripts and the AX tree count a document alike.
CleanTo(doc, j) ==
  \A i \in 1..j : doc[i] \notin ListenerOnly \cup AxSuppressed \cup DeepFrame

\* The element is in the document, and where the document is clean up to it, the
\* place is its own.
StandsAt(doc, el, place) ==
  \E j \in DOMAIN doc : doc[j] = el /\ (CleanTo(doc, j) => place = j)

\* A captured target: its elements are numbered, with gaps where suppressed ones
\* were, and stand where their number counts among the numbers left.
NumberedRight(t) ==
  /\ DOMAIN eiLists[t] \in SUBSET (Nat \ {0}) /\ IsFiniteSet(DOMAIN eiLists[t])
  /\ \A n \in DOMAIN eiLists[t] :
       /\ eiLists[t][n].target = t
       /\ StandsAt(eiListing[t], eiLists[t][n].el, Place(DOMAIN eiLists[t], n))
ListedRight(t) == eiLists[t] = CaptureList(eiListing[t])

\* What a capture has of the page and of the frame, at each of its stages.
CaptureRight ==
  /\ eiStage = "enrich page" => ListedRight(Page)
  /\ eiStage \in {"children", "enrich frame", "merge frame"} => NumberedRight(Page)
  /\ eiStage = "enrich frame" => ListedRight(Frame)
  /\ eiStage = "merge frame" => NumberedRight(Frame)

CacheRight ==
  \A i \in DOMAIN eiCache :
    /\ eiCache[i].target \in Targets
    /\ StandsAt(eiListed[eiCache[i].target], eiCache[i].el, LocalIndex(eiCache, i))

ActionStages == {"call", "fallback", "marked", "finish", "finish by index"}
ActionRight ==
  eiStage \in ActionStages =>
    \A x \in eiAction.entry :
      /\ eiAction.entry = {x} /\ x.target \in Targets
      /\ StandsAt(eiListed[x.target], x.el, eiAction.local)

TargetDocs == [Targets -> Seq(Elements)]
EiInv ==
  /\ eiPage \in TargetDocs /\ eiListing \in TargetDocs /\ eiListed \in TargetDocs
  /\ eiLists = [t \in Targets |-> eiLists[t]]
  /\ CaptureRight /\ CacheRight /\ ActionRight /\ ActsOnShownElement

\* The places of a finite set of numbers are its own: no two numbers have one,
LEMMA PlaceInjective ==
  ASSUME NEW D \in SUBSET Nat, IsFiniteSet(D), NEW m \in D, NEW n \in D, Place(D, m) = Place(D, n)
  PROVE  m = n
<1>1. ASSUME NEW a \in D, NEW b \in D, a < b, Place(D, a) = Place(D, b)
      PROVE  FALSE
  <2> DEFINE A == {k \in D : k <= a}
             B == {k \in D : k <= b}
  <2>1. IsFiniteSet(B)  BY FS_Subset, B \in SUBSET D
  <2>2. A \in SUBSET B
    <3>1. a \in Nat /\ b \in Nat /\ \A k \in D : k \in Nat  OBVIOUS
    <3>2. \A k \in D : k <= a => k <= b  BY <1>1, <3>1
    <3> QED  BY <3>2
  <2>3. Cardinality(A) = Cardinality(B)  BY <1>1 DEF Place
  <2>4. A = B  BY <2>1, <2>2, <2>3, FS_Subset
  <2>5. b \in B /\ b \notin A  BY <1>1
  <2> QED  BY <2>4, <2>5
<1> QED  BY <1>1, m \in Nat, n \in Nat, m < n \/ n < m \/ m = n

\* and they are the numbers up to its size.
LEMMA PlaceOnto ==
  ASSUME NEW D \in SUBSET Nat, IsFiniteSet(D)
  PROVE  /\ Cardinality(D) \in Nat
         /\ \A n \in D : Place(D, n) \in 1..Cardinality(D)
         /\ \A k \in 1..Cardinality(D) : \E n \in D : Place(D, n) = k
<1> DEFINE size == Cardinality(D)
           f == [n \in D |-> Place(D, n)]
<1>1. size \in Nat  BY FS_CardinalityType
<1>2. ASSUME NEW n \in D
      PROVE  Place(D, n) \in 1..size
  <2> DEFINE B == {k \in D : k <= n}
  <2>1. B \in SUBSET D /\ n \in B  OBVIOUS
  <2>2. IsFiniteSet(B) /\ Cardinality(B) <= size  BY <2>1, FS_Subset
  <2>3. Cardinality(B) \in Nat  BY <2>2, FS_CardinalityType
  <2>4. Cardinality(B) # 0  BY <2>1, <2>2, FS_EmptySet
  <2> QED  BY <1>1, <2>2, <2>3, <2>4 DEF Place
<1>3. f \in Injection(D, 1..size)
  <2>1. f \in [D -> 1..size]  BY <1>2
  <2>2. \A a, b \in D : f[a] = f[b] => a = b  BY PlaceInjective
  <2> QED  BY <2>1, <2>2 DEF Injection, IsInjective
<1>4. IsFiniteSet(1..size) /\ Cardinality(1..size) = size  BY <1>1, FS_Interval
<1>5. f \in Surjection(D, 1..size)  BY <1>3, <1>4, FS_Injection
<1>6. \A k \in 1..size : \E n \in D : f[n] = k  BY <1>5 DEF Surjection
<1> QED  BY <1>1, <1>2, <1>6

\* Where a set of numbers starts without a gap, the places are the numbers.
LEMMA PlaceOfPrefix ==
  ASSUME NEW D \in SUBSET (Nat \ {0}), NEW j \in Nat, 1..j \subseteq D
  PROVE  Place(D, j) = j
<1>1. {k \in D : k <= j} = 1..j
  <2>1. \A k \in D : k \in Nat /\ k # 0  OBVIOUS
  <2>2. \A k \in D : k <= j => k \in 1..j  BY <2>1
  <2>3. \A k \in 1..j : k \in D /\ k <= j  OBVIOUS
  <2> QED  BY <2>2, <2>3
<1>2. Cardinality(1..j) = j  BY FS_Interval
<1> QED  BY <1>1, <1>2 DEF Place

\* InOrder has at each place the entry whose number has that place.
LEMMA InOrderAt ==
  ASSUME NEW f, DOMAIN f \in SUBSET Nat, IsFiniteSet(DOMAIN f),
         NEW S, \A n \in DOMAIN f : f[n] \in S
  PROVE  /\ InOrder(f) \in Seq(S)
         /\ Cardinality(DOMAIN f) \in Nat
         /\ DOMAIN InOrder(f) = 1..Cardinality(DOMAIN f) /\ Len(InOrder(f)) = Cardinality(DOMAIN f)
         /\ \A k \in 1..Cardinality(DOMAIN f) :
              \E n \in DOMAIN f : Place(DOMAIN f, n) = k /\ InOrder(f)[k] = f[n]
<1> DEFINE D == DOMAIN f
           size == Cardinality(D)
           values == {f[n] : n \in D}
<1>1. size \in Nat /\ \A k \in 1..size : \E n \in D : Place(D, n) = k  BY PlaceOnto
<1>2. ASSUME NEW k \in 1..size
      PROVE  \E n \in D : Place(D, n) = k /\ InOrder(f)[k] = f[n]
  <2> DEFINE n == CHOOSE n \in D : Place(D, n) = k
  <2>1. n \in D /\ Place(D, n) = k  BY <1>1
  <2>2. InOrder(f)[k] = f[n]  BY DEF InOrder
  <2> QED  BY <2>1, <2>2
<1>3. InOrder(f) \in [1..size -> S]
  <2>1. \A k \in 1..size : InOrder(f)[k] \in S  BY <1>2
  <2>2. InOrder(f) = [k \in 1..size |-> InOrder(f)[k]]  BY DEF InOrder
  <2> QED  BY <2>1, <2>2
<1>4. InOrder(f) \in Seq(S) /\ Len(InOrder(f)) = size
  <2> HIDE DEF size
  <2>1. InOrder(f) \in Seq(S)  BY <1>1, <1>3, SeqDef
  <2>2. DOMAIN InOrder(f) = 1..Len(InOrder(f)) /\ Len(InOrder(f)) \in Nat  BY <2>1, LenProperties
  <2> QED  BY <1>1, <1>3, <2>1, <2>2
<1> QED  BY <1>1, <1>2, <1>3, <1>4

\* What a script lists of a document: each element of the list is one of the
\* document's, at its own place if all before it are listed too; and up to the
\* first that is not listed the two are alike.
LEMMA ListingFollows ==
  ASSUME NEW doc \in Seq(Elements), NEW out
  PROVE  /\ Listing(doc, out) \in Seq(Elements)
         /\ \A k \in DOMAIN Listing(doc, out) : \E j \in DOMAIN doc :
              /\ Listing(doc, out)[k] = doc[j] /\ doc[j] \notin out
              /\ (\A i \in 1..j : doc[i] \notin out) => k = j
         /\ \A j \in DOMAIN doc : (\A i \in 1..j : doc[i] \notin out) =>
              j \in DOMAIN Listing(doc, out) /\ Listing(doc, out)[j] = doc[j]
<1> DEFINE D == {i \in DOMAIN doc : doc[i] \notin out}
           f == [i \in D |-> doc[i]]
           size == Cardinality(D)
           list == Listing(doc, out)
<1>1. DOMAIN doc = 1..Len(doc) /\ Len(doc) \in Nat  BY LenProperties
<1>2. D \in SUBSET (Nat \ {0}) /\ D \in SUBSET Nat  BY <1>1
<1>3. IsFiniteSet(D)
  <2>1. IsFiniteSet(1..Len(doc))  BY <1>1, FS_Interval
  <2> QED  BY <1>1, <2>1, FS_Subset
<1>4. DOMAIN f = D /\ list = InOrder(f)  BY DEF Listing
<1>5. /\ list \in Seq(Elements)
      /\ size \in Nat /\ DOMAIN list = 1..size /\ Len(list) = size
      /\ \A k \in 1..size : \E n \in D : Place(D, n) = k /\ list[k] = f[n]
  <2>1. \A n \in D : f[n] \in Elements  BY <1>1
  <2> HIDE DEF D, f, list
  <2> QED  BY <1>2, <1>3, <1>4, <2>1, InOrderAt
<1>6. \A k \in 1..size : \E n \in D : Place(D, n) = k /\ list[k] = doc[n]  BY <1>5
<1> HIDE DEF list, f
<1>7. ASSUME NEW j \in DOMAIN doc, \A i \in 1..j : doc[i] \notin out
      PROVE  Place(D, j) = j /\ j \in D
  <2>1. j \in Nat /\ j \in 1..j /\ 1..j \subseteq DOMAIN doc  BY <1>1
  <2>2. 1..j \subseteq D  BY <1>7, <2>1
  <2> HIDE DEF D
  <2>3. Place(D, j) = j  BY <1>2, <2>1, <2>2, PlaceOfPrefix
  <2> QED  BY <2>1, <2>2, <2>3
<1>8. ASSUME NEW j \in DOMAIN doc, \A i \in 1..j : doc[i] \notin out
      PROVE  j \in DOMAIN list /\ list[j] = doc[j]
  <2>1. Place(D, j) = j /\ j \in D  BY <1>7, <1>8
  <2> HIDE DEF D
  <2>2. j \in 1..size  BY <1>2, <1>3, <2>1, PlaceOnto
  <2>3. PICK n \in D : Place(D, n) = j /\ list[j] = doc[n]  BY <1>6, <2>2
  <2>4. n = j  BY <1>2, <1>3, <2>1, <2>3, PlaceInjective
  <2> QED  BY <1>5, <2>2, <2>3, <2>4
<1>9. ASSUME NEW k \in DOMAIN list
      PROVE  \E j \in DOMAIN doc :
               /\ list[k] = doc[j] /\ doc[j] \notin out
               /\ (\A i \in 1..j : doc[i] \notin out) => k = j
  <2>1. PICK n \in D : Place(D, n) = k /\ list[k] = doc[n]  BY <1>5, <1>6
  <2>2. n \in DOMAIN doc /\ doc[n] \notin out  BY <2>1
  <2>3. (\A i \in 1..n : doc[i] \notin out) => k = n  BY <1>7, <2>1, <2>2
  <2> QED  BY <2>1, <2>2, <2>3
<1> QED  BY <1>5, <1>8, <1>9 DEF list

\* What a capture lists of a document.
LEMMA CaptureListFollows ==
  ASSUME NEW doc \in Seq(Elements)
  PROVE  LET list == CaptureList(doc)
         IN  /\ list \in Seq(Elements)
             /\ \A k \in DOMAIN list : \E j \in DOMAIN doc :
                  /\ list[k] = doc[j]
                  /\ CleanTo(doc, j) => k = j /\ \A i \in 1..j : list[i] = doc[i]
<1> DEFINE whole == Listing(doc, DeepFrame)
           list == CaptureList(doc)
           limit == Min({CaptureLimit, Len(whole)})
<1>1. DOMAIN doc = 1..Len(doc) /\ Len(doc) \in Nat  BY LenProperties
<1>2. /\ whole \in Seq(Elements)
      /\ \A k \in DOMAIN whole : \E j \in DOMAIN doc :
           /\ whole[k] = doc[j] /\ doc[j] \notin DeepFrame
           /\ (\A i \in 1..j : doc[i] \notin DeepFrame) => k = j
      /\ \A j \in DOMAIN doc : (\A i \in 1..j : doc[i] \notin DeepFrame) =>
           j \in DOMAIN whole /\ whole[j] = doc[j]
  BY ListingFollows
<1>3. list = SubSeq(whole, 1, limit)  BY DEF CaptureList
<1> HIDE DEF whole, list
<1>4. Len(whole) \in Nat /\ DOMAIN whole = 1..Len(whole)  BY <1>2, LenProperties
<1>5. limit \in Nat /\ limit <= Len(whole)
  <2> DEFINE S == {CaptureLimit, Len(whole)}
  <2>1. CaptureLimit \in Nat  BY ElementIndexAssumption
  <2>2. \E x \in S : \A y \in S : x <= y
    <3>1. CASE CaptureLimit <= Len(whole)  BY <1>4, <2>1, <3>1
    <3>2. CASE Len(whole) <= CaptureLimit  BY <1>4, <2>1, <3>2
    <3> QED  BY <1>4, <2>1, <3>1, <3>2
  <2>3. limit \in S /\ \A y \in S : limit <= y  BY <2>2 DEF Min
  <2> QED  BY <1>4, <2>1, <2>3
<1> HIDE DEF limit
<1>6. /\ list \in Seq(Elements) /\ DOMAIN list = 1..limit
      /\ \A k \in 1..limit : list[k] = whole[k]
  <2>1. 1..limit \subseteq DOMAIN whole  BY <1>4, <1>5
  <2>2. Len(list) = limit /\ \A k \in 1..limit : list[k] = whole[k]  BY <1>2, <1>3, <1>4, <1>5
  <2>3. list \in Seq(Elements)  BY <1>2, <1>3, <1>4, <1>5
  <2> QED  BY <2>2, <2>3, LenProperties
<1>7. ASSUME NEW k \in DOMAIN list
      PROVE  \E j \in DOMAIN doc :
               /\ list[k] = doc[j]
               /\ CleanTo(doc, j) => k = j /\ \A i \in 1..j : list[i] = doc[i]
  <2>1. k \in DOMAIN whole /\ list[k] = whole[k] /\ k <= limit /\ k \in Nat  BY <1>4, <1>5, <1>6
  <2>2. PICK j \in DOMAIN doc :
          /\ whole[k] = doc[j]
          /\ (\A i \in 1..j : doc[i] \notin DeepFrame) => k = j
    BY <1>2, <2>1
  <2>3. ASSUME CleanTo(doc, j)
        PROVE  k = j /\ \A i \in 1..j : list[i] = doc[i]
    <3>1. \A i \in 1..j : doc[i] \notin DeepFrame  BY <2>3 DEF CleanTo
    <3>2. k = j  BY <2>2, <3>1
    <3>3. ASSUME NEW i \in 1..j
          PROVE  list[i] = doc[i]
      <4>1. i \in DOMAIN doc /\ \A h \in 1..i : h \in 1..j  BY <1>1, j \in DOMAIN doc
      <4>2. whole[i] = doc[i]  BY <1>2, <3>1, <4>1
      <4>3. i \in 1..limit  BY <1>5, <2>1, <3>2
      <4> QED  BY <1>6, <4>2, <4>3
    <3> QED  BY <3>2, <3>3
  <2> QED  BY <2>1, <2>2, <2>3
<1> QED  BY <1>6, <1>7 DEF list

\* Enriching keeps the numbers, and drops no element up to which the document is
\* clean.
LEMMA EnrichedFollows ==
  ASSUME NEW t \in Targets, NEW doc \in Seq(Elements), NEW known \in BOOLEAN
  PROVE  LET map == Enriched(t, CaptureList(doc), known)
         IN  /\ DOMAIN map \in SUBSET (Nat \ {0}) /\ IsFiniteSet(DOMAIN map)
             /\ \A n \in DOMAIN map :
                  map[n].target = t /\ StandsAt(doc, map[n].el, Place(DOMAIN map, n))
<1> DEFINE list == CaptureList(doc)
           map == Enriched(t, list, known)
           kept == {i \in DOMAIN list : ~(known /\ list[i] \in AxSuppressed)}
<1>1. /\ list \in Seq(Elements)
      /\ \A k \in DOMAIN list : \E j \in DOMAIN doc :
           /\ list[k] = doc[j]
           /\ CleanTo(doc, j) => k = j /\ \A i \in 1..j : list[i] = doc[i]
  BY CaptureListFollows
<1> HIDE DEF list
<1>2. DOMAIN list = 1..Len(list) /\ Len(list) \in Nat  BY <1>1, LenProperties
<1>3. kept \in SUBSET (Nat \ {0}) /\ IsFiniteSet(kept)
  <2>1. IsFiniteSet(1..Len(list))  BY <1>2, FS_Interval
  <2>2. kept \in SUBSET (1..Len(list))  BY <1>2
  <2> QED  BY <1>2, <2>1, <2>2, FS_Subset
<1>4. /\ DOMAIN map = kept
      /\ \A n \in kept : map[n].target = t /\ map[n].el = list[n]
  BY DEF Enriched, Entry
<1> HIDE DEF map
<1>5. ASSUME NEW n \in kept
      PROVE  StandsAt(doc, list[n], Place(kept, n))
  <2>1. PICK j \in DOMAIN doc :
          /\ list[n] = doc[j]
          /\ CleanTo(doc, j) => n = j /\ \A i \in 1..j : list[i] = doc[i]
    BY <1>1
  <2>2. ASSUME CleanTo(doc, j)
        PROVE  Place(kept, n) = j
    <3>1. n = j /\ n \in 1..Len(list) /\ \A i \in 1..j : list[i] = doc[i]  BY <1>2, <2>1, <2>2
    <3>2. \A i \in 1..j : list[i] \notin AxSuppressed  BY <2>2, <3>1 DEF CleanTo
    <3>3. j \in Nat /\ 1..j \subseteq DOMAIN list  BY <1>2, <3>1
    <3>4. 1..j \subseteq kept  BY <3>2, <3>3
    <3> HIDE DEF kept
    <3> QED  BY <1>3, <3>1, <3>3, <3>4, PlaceOfPrefix
  <2> QED  BY <2>1, <2>2 DEF StandsAt
<1> QED  BY <1>3, <1>4, <1>5 DEF map, list

\* With no frame's elements the cache keeps the page's numbers.
LEMMA PageNumbersFollow ==
  ASSUME NumberedRight(Page), NEW i \in DOMAIN Merged(eiLists, FALSE)
  PROVE  LET map == Merged(eiLists, FALSE)
         IN  map[i].target = Page /\ StandsAt(eiListing[Page], map[i].el, LocalIndex(map, i))
<1> DEFINE map == eiLists[Page]
<1>1. Merged(eiLists, FALSE) = map  BY DEF Merged
<1>2. \A n \in DOMAIN map :
        map[n].target = Page /\ StandsAt(eiListing[Page], map[n].el, Place(DOMAIN map, n))
  BY DEF NumberedRight
<1> HIDE DEF map
<1>3. {j \in DOMAIN map : map[j].target = map[i].target} = DOMAIN map  BY <1>1, <1>2
<1>4. LocalIndex(map, i) = Place(DOMAIN map, i)  BY <1>3 DEF LocalIndex
<1> QED  BY <1>1, <1>2, <1>4

\* With a frame's elements all are numbered anew, the page's first; the place of
\* a number among its target's numbers is the one it had in its target's list.
LEMMA MergedNumbersFollow ==
  ASSUME ElementIndexAssumption, NumberedRight(Page), NumberedRight(Frame),
         NEW i \in DOMAIN Merged(eiLists, TRUE)
  PROVE  LET map == Merged(eiLists, TRUE)
         IN  /\ map[i].target \in Targets
             /\ StandsAt(eiListing[map[i].target], map[i].el, LocalIndex(map, i))
<1> DEFINE P == eiLists[Page]
           F == eiLists[Frame]
           map == Merged(eiLists, TRUE)
           page == InOrder(P)
           frame == InOrder(F)
           pages == Cardinality(DOMAIN P)
           frames == Cardinality(DOMAIN F)
           entries == {P[n] : n \in DOMAIN P} \cup {F[n] : n \in DOMAIN F}
<1>0. i \in DOMAIN map  OBVIOUS
<1>1. map = page \o frame  BY DEF Merged
<1>2. /\ page \in Seq(entries)
      /\ pages \in Nat /\ DOMAIN page = 1..pages /\ Len(page) = pages
      /\ \A k \in 1..pages : \E n \in DOMAIN P : Place(DOMAIN P, n) = k /\ page[k] = P[n]
  <2>1. DOMAIN P \in SUBSET Nat /\ IsFiniteSet(DOMAIN P)  BY DEF NumberedRight
  <2>2. \A n \in DOMAIN P : P[n] \in entries  OBVIOUS
  <2> HIDE DEF P, entries
  <2> QED  BY <2>1, <2>2, InOrderAt
<1>3. /\ frame \in Seq(entries)
      /\ frames \in Nat /\ DOMAIN frame = 1..frames /\ Len(frame) = frames
      /\ \A k \in 1..frames : \E n \in DOMAIN F : Place(DOMAIN F, n) = k /\ frame[k] = F[n]
  <2>1. DOMAIN F \in SUBSET Nat /\ IsFiniteSet(DOMAIN F)  BY DEF NumberedRight
  <2>2. \A n \in DOMAIN F : F[n] \in entries  OBVIOUS
  <2> HIDE DEF F, entries
  <2> QED  BY <2>1, <2>2, InOrderAt
<1>4. \A k \in 1..pages :
        page[k].target = Page /\ StandsAt(eiListing[Page], page[k].el, k)
  BY <1>2 DEF NumberedRight
<1>5. \A k \in 1..frames :
        frame[k].target = Frame /\ StandsAt(eiListing[Frame], frame[k].el, k)
  BY <1>3 DEF NumberedRight
<1> HIDE DEF P, F, page, frame, pages, frames, entries
<1>6. /\ DOMAIN map = 1..(pages + frames)
      /\ \A k \in 1..pages : map[k] = page[k]
      /\ \A k \in (pages + 1)..(pages + frames) : map[k] = frame[k - pages]
  <2> DEFINE whole == page \o frame
  <2>1. /\ whole \in Seq(entries) /\ Len(whole) = Len(page) + Len(frame)
        /\ \A k \in 1..(Len(page) + Len(frame)) :
             whole[k] = IF k <= Len(page) THEN page[k] ELSE frame[k - Len(page)]
    <3>1. page \in Seq(entries) /\ frame \in Seq(entries)  BY <1>2, <1>3
    <3> QED  BY <3>1, ConcatProperties, Zenon
  <2>2. Len(page) = pages /\ Len(frame) = frames /\ pages \in Nat /\ frames \in Nat  BY <1>2, <1>3
  <2> HIDE DEF whole
  <2>3. DOMAIN whole = 1..(pages + frames)  BY <2>1, <2>2, LenProperties
  <2>4. \A k \in 1..(pages + frames) : whole[k] = IF k <= pages THEN page[k] ELSE frame[k - pages]
    BY <2>1, <2>2
  <2>5. \A k \in 1..pages : whole[k] = page[k]  BY <2>2, <2>4
  <2>6. \A k \in (pages + 1)..(pages + frames) : whole[k] = frame[k - pages]  BY <2>2, <2>4
  <2>7. map = whole  BY <1>1 DEF whole
  <2> QED  BY <2>3, <2>5, <2>6, <2>7
<1> HIDE DEF map
<1>7. i \in 1..(pages + frames) /\ i \in Nat  BY <1>0, <1>2, <1>3, <1>6
<1>8. Page # Frame  BY DEF ElementIndexAssumption
<1>9. \A k \in 1..(pages + frames) :
        /\ k <= pages => map[k].target = Page
        /\ k > pages => map[k].target = Frame /\ k - pages \in 1..frames
  <2> TAKE k \in 1..(pages + frames)
  <2>1. CASE k <= pages  BY <1>2, <1>3, <1>4, <1>6, <2>1
  <2>2. CASE k > pages
    <3>1. k - pages \in 1..frames /\ k \in (pages + 1)..(pages + frames)  BY <1>2, <1>3, <2>2
    <3> QED  BY <1>2, <1>3, <1>5, <1>6, <2>2, <3>1
  <2> QED  BY <1>2, <1>3, <2>1, <2>2
<1>10. CASE i <= pages
  <2>1. {j \in DOMAIN map : map[j].target = map[i].target} = 1..pages
    BY <1>2, <1>3, <1>6, <1>7, <1>8, <1>9, <1>10
  <2>2. 1..i \subseteq 1..pages /\ 1..pages \in SUBSET (Nat \ {0})  BY <1>2, <1>7, <1>10
  <2>3. LocalIndex(map, i) = i  BY <1>7, <2>1, <2>2, PlaceOfPrefix DEF LocalIndex
  <2>4. i \in 1..pages  BY <1>2, <1>3, <1>7, <1>10
  <2> QED  BY <1>4, <1>6, <2>3, <2>4 DEF Targets, map
<1>11. CASE i > pages
  <2>1. {j \in DOMAIN map : map[j].target = map[i].target} = (pages + 1)..(pages + frames)
    BY <1>2, <1>3, <1>6, <1>7, <1>8, <1>9, <1>11
  <2>2. {m \in (pages + 1)..(pages + frames) : m <= i} = (pages + 1)..i
    BY <1>2, <1>3, <1>7
  <2>3. Cardinality((pages + 1)..i) = i - pages  BY <1>2, <1>7, <1>11, FS_Interval
  <2>4. LocalIndex(map, i) = i - pages  BY <2>1, <2>2, <2>3 DEF LocalIndex, Place
  <2>5. i \in (pages + 1)..(pages + frames) /\ i - pages \in 1..frames  BY <1>2, <1>3, <1>7, <1>11
  <2> QED  BY <1>5, <1>6, <2>4, <2>5 DEF Targets, map
<1>12. i <= pages \/ i > pages  BY <1>2, <1>7
<1> QED  BY <1>10, <1>11, <1>12

\* An insertion or a removal leaves a document.
LEMMA ChangedDocs ==
  ASSUME NEW doc \in Seq(Elements)
  PROVE  /\ \A e \in Elements, i \in 1..(Len(doc) + 1) : InsertAt(doc, i, e) \in Seq(Elements)
         /\ \A i \in DOMAIN doc : RemoveAt(doc, i) \in Seq(Elements)
<1>1. Len(doc) \in Nat /\ DOMAIN doc = 1..Len(doc)  BY LenProperties
<1>2. ASSUME NEW e \in Elements, NEW i \in 1..(Len(doc) + 1)
      PROVE  InsertAt(doc, i, e) \in Seq(Elements)
  <2>1. SubSeq(doc, 1, i - 1) \in Seq(Elements)  BY <1>1
  <2>2. SubSeq(doc, i, Len(doc)) \in Seq(Elements)  BY <1>1
  <2>3. <<e>> \in Seq(Elements)  OBVIOUS
  <2> QED  BY <2>1, <2>2, <2>3, ConcatProperties DEF InsertAt
<1>3. ASSUME NEW i \in DOMAIN doc
      PROVE  RemoveAt(doc, i) \in Seq(Elements)
  <2>1. SubSeq(doc, 1, i - 1) \in Seq(Elements)  BY <1>1
  <2>2. SubSeq(doc, i + 1, Len(doc)) \in Seq(Elements)  BY <1>1
  <2> QED  BY <2>1, <2>2, ConcatProperties DEF RemoveAt
<1> QED  BY <1>2, <1>3

\* The element at an entry's place in a fresh list is the entry's, unless the
\* entry is misplaced.
LEMMA FallbackMeetsElement ==
  ASSUME eiPage \in TargetDocs, NEW x, x.target \in Targets, NEW place,
         StandsAt(eiListed[x.target], x.el, place), ~Misplaced(x)
  PROVE  FallbackList(eiPage[x.target])[place] = x.el
<1> DEFINE doc == eiPage[x.target]
<1>1. doc \in Seq(Elements)  BY DEF TargetDocs
<1>2. eiListed[x.target] = doc  BY DEF Misplaced
<1>3. PICK j \in DOMAIN doc : doc[j] = x.el /\ (CleanTo(doc, j) => place = j)
  BY <1>2 DEF StandsAt
<1>4. \A i \in DOMAIN doc : i <= j => doc[i] \notin ListenerOnly \cup AxSuppressed \cup DeepFrame
  BY <1>3 DEF Misplaced
<1> HIDE DEF doc
<1>5. DOMAIN doc = 1..Len(doc) /\ Len(doc) \in Nat  BY <1>1, LenProperties
<1>6. \A i \in 1..j : i \in DOMAIN doc /\ i <= j  BY <1>5
<1>7. CleanTo(doc, j)  BY <1>4, <1>6 DEF CleanTo
<1>8. \A i \in 1..j : doc[i] \notin ListenerOnly  BY <1>7 DEF CleanTo
<1>9. Listing(doc, ListenerOnly)[j] = doc[j]  BY <1>1, <1>8, ListingFollows
<1> QED  BY <1>3, <1>7, <1>9 DEF FallbackList, doc

\* A call by place acts on the element shown, or says that it may not have.
LEMMA PlaceActsOnShown ==
  ASSUME eiPage \in TargetDocs, ActionRight, eiStage \in ActionStages,
         NEW next, CallsByIndex(next)
  PROVE  ActsOnShownElement'
<1> DEFINE e == FallbackList(eiPage[FallbackTarget])[eiAction.local]
           acted == [index |-> eiAction.index, did |-> e,
                     shown |-> {x.el : x \in eiAction.entry},
                     misplaced |-> \A x \in eiAction.entry : Misplaced(x)]
<1>1. eiActed' = acted  BY DEF CallsByIndex, Done
<1>2. CASE eiAction.entry = {}
  <2>1. \A x \in eiAction.entry : Misplaced(x)  BY <1>2
  <2>2. acted.misplaced  BY <2>1
  <2> QED  BY <1>1, <2>2 DEF ActsOnShownElement
<1>3. ASSUME NEW x \in eiAction.entry
      PROVE  ActsOnShownElement'
  <2>1. /\ eiAction.entry = {x} /\ x.target \in Targets
        /\ StandsAt(eiListed[x.target], x.el, eiAction.local)
    BY DEF ActionRight
  <2>2. CASE Misplaced(x)
    <3>1. \A y \in eiAction.entry : Misplaced(y)  BY <2>1, <2>2
    <3>2. acted.misplaced  BY <3>1
    <3> QED  BY <1>1, <3>2 DEF ActsOnShownElement
  <2>3. CASE ~Misplaced(x)
    <3>1. FallbackTarget = x.target  BY <2>1 DEF FallbackTarget
    <3>2. e = x.el  BY <2>1, <2>3, <3>1, FallbackMeetsElement
    <3>3. {y.el : y \in eiAction.entry} = {x.el}  BY <2>1
    <3> HIDE DEF e
    <3>4. acted.shown = {acted.did}  BY <3>2, <3>3
    <3> QED  BY <1>1, <3>4 DEF ActsOnShownElement
  <2> QED  BY <2>2, <2>3
<1> QED  BY <1>2, <1>3

\* A call by node id acts on the entry's element.
LEMMA NodeActsOnShown ==
  ASSUME ActionRight, eiStage \in ActionStages, NEW next, CallsElement(next)
  PROVE  ActsOnShownElement'
<1>1. PICK x \in eiAction.entry : Done(x.el, next)  BY DEF CallsElement
<1>2. eiAction.entry = {x}  BY <1>1 DEF ActionRight
<1>3. {y.el : y \in eiAction.entry} = {x.el}  BY <1>2
<1>4. eiActed'.shown = {y.el : y \in eiAction.entry} /\ eiActed'.did = x.el  BY <1>1 DEF Done
<1> QED  BY <1>3, <1>4 DEF ActsOnShownElement

\* The documents and lists a step keeps are as right as they were.
LEMMA EiKept ==
  ASSUME EiInv, eiPage' \in TargetDocs,
         UNCHANGED <<eiCache, eiLists, eiListing, eiListed>>,
         eiStage' = eiStage \/ eiStage' \in ActionStages \cup {"idle"},
         ActionRight', ActsOnShownElement'
  PROVE  EiInv'
<1>1. CaptureRight'
  <2>1. CASE eiStage' = eiStage
    BY <2>1 DEF EiInv, CaptureRight, ListedRight, NumberedRight, Targets
  <2>2. CASE eiStage' \in ActionStages \cup {"idle"}
    BY <2>2 DEF CaptureRight, ActionStages
  <2> QED  BY <2>1, <2>2
<1>2. CacheRight'  BY DEF EiInv, CacheRight
<1> QED  BY <1>1, <1>2 DEF EiInv

\* An action at work keeps what it looked up.
LEMMA ActionKept ==
  ASSUME ActionRight, UNCHANGED eiListed,
         eiStage' \in ActionStages => eiStage \in ActionStages /\ eiAction' = eiAction
  PROVE  ActionRight'
BY DEF ActionRight

\* No lists are lists of empty documents.
LEMMA NoListsAreDocs == NoLists \in TargetDocs
<1>1. <<>> \in Seq(Elements)  OBVIOUS
<1> QED  BY <1>1 DEF NoLists, TargetDocs

\* Nothing is captured or at work yet.
LEMMA EiInitInv == EiInit => EiInv
<1> SUFFICES ASSUME EiInit PROVE EiInv
  OBVIOUS
<1> USE DEF EiInit
<1>1. eiPage \in TargetDocs  BY ElementIndexAssumption DEF TargetDocs
<1>2. NoLists \in TargetDocs  BY NoListsAreDocs
<1>3. eiLists = [t \in Targets |-> eiLists[t]]  BY DEF NoLists
<1>4. CaptureRight  BY DEF CaptureRight
<1>5. CacheRight  BY DEF CacheRight
<1>6. ActionRight  BY DEF ActionRight, ActionStages
<1>7. ActsOnShownElement  BY DEF ActsOnShownElement, NothingActed
<1> QED  BY <1>1, <1>2, <1>3, <1>4, <1>5, <1>6, <1>7 DEF EiInv

\* A script lists a target: what was captured of another target is kept.
LEMMA ListsInv ==
  ASSUME EiInv, NEW t \in Targets, NEW next, Lists(t, next),
         \/ t = Page /\ next = "enrich page"
         \/ t = Frame /\ next = "enrich frame" /\ eiStage = "children"
  PROVE  EiInv'
<1> USE DEF EiInv, Lists
<1>1. eiPage' \in TargetDocs /\ eiListed' \in TargetDocs  OBVIOUS
<1>2. eiListing' \in TargetDocs  BY DEF TargetDocs
<1>3. /\ eiLists' = [eiLists EXCEPT ![t] = CaptureList(eiPage[t])]
      /\ eiLists = [s \in Targets |-> eiLists[s]]
  OBVIOUS
<1>4. eiLists' = [s \in Targets |-> eiLists'[s]]  BY <1>3
<1>5. eiListing \in TargetDocs  OBVIOUS
<1>6. /\ eiLists'[t] = CaptureList(eiPage[t]) /\ eiListing'[t] = eiPage[t]
      /\ \A s \in Targets : s # t => eiLists'[s] = eiLists[s] /\ eiListing'[s] = eiListing[s]
  BY <1>3, <1>5 DEF TargetDocs
<1>7. ListedRight(t)'  BY <1>6 DEF ListedRight
<1>8. CaptureRight'
  <2>1. CASE t = Page /\ next = "enrich page"  BY <1>7, <2>1 DEF CaptureRight
  <2>2. CASE t = Frame /\ next = "enrich frame" /\ eiStage = "children"
    <3>1. Page \in Targets /\ Page # Frame  BY ElementIndexAssumption DEF Targets
    <3>2. eiLists'[Page] = eiLists[Page] /\ eiListing'[Page] = eiListing[Page]  BY <1>6, <2>2, <3>1
    <3>3. NumberedRight(Page)  BY <2>2 DEF CaptureRight
    <3>4. NumberedRight(Page)'  BY <3>2, <3>3 DEF NumberedRight
    <3> QED  BY <1>7, <2>2, <3>4 DEF CaptureRight
  <2> QED  BY <2>1, <2>2
<1>9. CacheRight'  BY DEF CacheRight
<1>10. ActionRight'  BY DEF ActionRight, ActionStages
<1>11. ActsOnShownElement'  BY DEF ActsOnShownElement
<1> QED  BY <1>1, <1>2, <1>4, <1>8, <1>9, <1>10, <1>11

\* Enriching turns what was listed of a target into numbered entries.
LEMMA EnrichesInv ==
  ASSUME EiInv, NEW t \in Targets, NEW next, Enriches(t, next),
         \/ t = Page /\ next = "children" /\ eiStage = "enrich page"
         \/ t = Frame /\ next = "merge frame" /\ eiStage = "enrich frame"
  PROVE  EiInv'
<1> USE DEF EiInv
<1>1. PICK known \in BOOLEAN : eiLists' = [eiLists EXCEPT ![t] = Enriched(t, @, known)]
  BY DEF Enriches
<1>2. /\ eiStage' = next
      /\ UNCHANGED <<eiPage, eiCache, eiAction, eiActed, eiListing, eiListed>>
  BY DEF Enriches
<1>3. eiLists = [s \in Targets |-> eiLists[s]] /\ eiListing[t] \in Seq(Elements)
  BY DEF TargetDocs
<1>4. eiLists' = [s \in Targets |-> eiLists'[s]]  BY <1>1, <1>3
<1>5. /\ eiLists'[t] = Enriched(t, eiLists[t], known)
      /\ \A s \in Targets : s # t => eiLists'[s] = eiLists[s]
  BY <1>1, <1>3
<1>6. eiLists[t] = CaptureList(eiListing[t])
  <2>1. CASE t = Page /\ eiStage = "enrich page"  BY <2>1 DEF CaptureRight, ListedRight
  <2>2. CASE t = Frame /\ eiStage = "enrich frame"  BY <2>2 DEF CaptureRight, ListedRight
  <2> QED  BY <2>1, <2>2
<1>7. NumberedRight(t)'
  <2> DEFINE map == Enriched(t, CaptureList(eiListing[t]), known)
  <2>1. /\ DOMAIN map \in SUBSET (Nat \ {0}) /\ IsFiniteSet(DOMAIN map)
        /\ \A n \in DOMAIN map :
             map[n].target = t /\ StandsAt(eiListing[t], map[n].el, Place(DOMAIN map, n))
    BY <1>3, EnrichedFollows
  <2>2. eiLists'[t] = map /\ eiListing'[t] = eiListing[t]  BY <1>2, <1>5, <1>6
  <2> HIDE DEF map
  <2> QED  BY <2>1, <2>2 DEF NumberedRight
<1>8. CaptureRight'
  <2>1. CASE t = Page /\ next = "children"  BY <1>2, <1>7, <2>1 DEF CaptureRight
  <2>2. CASE t = Frame /\ next = "merge frame" /\ eiStage = "enrich frame"
    <3>1. Page \in Targets /\ Page # Frame  BY ElementIndexAssumption DEF Targets
    <3>2. eiLists'[Page] = eiLists[Page] /\ eiListing'[Page] = eiListing[Page]  BY <1>2, <1>5, <2>2, <3>1
    <3>3. NumberedRight(Page)  BY <2>2 DEF CaptureRight
    <3>4. NumberedRight(Page)'  BY <3>2, <3>3 DEF NumberedRight
    <3> QED  BY <1>2, <1>7, <2>2, <3>4 DEF CaptureRight
  <2> QED  BY <2>1, <2>2
<1>9. CacheRight'  BY <1>2 DEF CacheRight
<1>10. ActionRight'  BY <1>2 DEF ActionRight, ActionStages
<1>11. ActsOnShownElement'  BY <1>2 DEF ActsOnShownElement
<1> QED  BY <1>2, <1>4, <1>8, <1>9, <1>10, <1>11

\* The cache takes the capture over, with the documents it was made of.
LEMMA MergesInv ==
  ASSUME EiInv, NEW children \in BOOLEAN, Merges(children),
         eiStage = IF children THEN "merge frame" ELSE "children"
  PROVE  EiInv'
<1> USE DEF EiInv, Merges
<1>1. /\ eiCache' = Merged(eiLists, children) /\ eiListed' = eiListing
      /\ eiStage' = "idle"
  OBVIOUS
<1>2. CacheRight'
  <2>1. NumberedRight(Page)  BY DEF CaptureRight
  <2>2. Page \in Targets  BY DEF Targets
  <2>3. CASE children
    <3>1. NumberedRight(Frame)  BY <2>3 DEF CaptureRight
    <3>2. \A i \in DOMAIN Merged(eiLists, TRUE) :
            /\ Merged(eiLists, TRUE)[i].target \in Targets
            /\ StandsAt(eiListing[Merged(eiLists, TRUE)[i].target], Merged(eiLists, TRUE)[i].el,
                        LocalIndex(Merged(eiLists, TRUE), i))
      BY <2>1, <3>1, ElementIndexAssumption, MergedNumbersFollow
    <3>3. eiCache' = Merged(eiLists, TRUE)  BY <1>1, <2>3
    <3> QED  BY <1>1, <3>2, <3>3 DEF CacheRight
  <2>4. CASE ~children
    <3>1. \A i \in DOMAIN Merged(eiLists, FALSE) :
            /\ Merged(eiLists, FALSE)[i].target = Page
            /\ StandsAt(eiListing[Page], Merged(eiLists, FALSE)[i].el,
                        LocalIndex(Merged(eiLists, FALSE), i))
      BY <2>1, PageNumbersFollow
    <3>2. eiCache' = Merged(eiLists, FALSE)  BY <1>1, <2>4
    <3> QED  BY <1>1, <2>2, <3>1, <3>2 DEF CacheRight
  <2> QED  BY <2>3, <2>4
<1>3. NoLists \in TargetDocs  BY NoListsAreDocs
<1>4. eiLists' = [t \in Targets |-> eiLists'[t]]  BY DEF NoLists
<1>5. CaptureRight'  BY <1>1 DEF CaptureRight
<1>6. ActionRight'  BY <1>1 DEF ActionRight, ActionStages
<1>7. ActsOnShownElement'  BY DEF ActsOnShownElement
<1> QED  BY <1>1, <1>2, <1>3, <1>4, <1>5, <1>6, <1>7

\* An action starts from what the cache has right.
LEMMA StartsInv ==
  ASSUME EiInv, NEW kind, NEW i, Starts(kind, i)
  PROVE  EiInv'
<1>1. /\ eiStage' = "call"
      /\ UNCHANGED <<eiPage, eiCache, eiLists, eiActed, eiListing, eiListed>>
      /\ eiAction'.entry = (IF i \in DOMAIN eiCache THEN {eiCache[i]} ELSE {})
      /\ eiAction'.local = (IF i \in DOMAIN eiCache THEN LocalIndex(eiCache, i) ELSE i)
  BY DEF Starts
<1>2. ActionRight'
  <2>1. CASE i \in DOMAIN eiCache
    <3>1. /\ eiCache[i].target \in Targets
          /\ StandsAt(eiListed[eiCache[i].target], eiCache[i].el, LocalIndex(eiCache, i))
      BY <2>1 DEF EiInv, CacheRight
    <3> QED  BY <1>1, <2>1, <3>1 DEF ActionRight
  <2>2. CASE i \notin DOMAIN eiCache  BY <1>1, <2>2 DEF ActionRight
  <2> QED  BY <2>1, <2>2
<1>3. ActsOnShownElement'  BY <1>1 DEF EiInv, ActsOnShownElement
<1>4. eiPage' \in TargetDocs  BY <1>1 DEF EiInv
<1>5. eiStage' \in ActionStages  BY <1>1 DEF ActionStages
<1> QED  BY <1>1, <1>2, <1>3, <1>4, <1>5, EiKept

\* A step of an action at work.
LEMMA ActionStepInv ==
  ASSUME EiInv, eiStage \in ActionStages, NEW next \in ActionStages \cup {"idle"},
         CallsElement(next) \/ CallsByIndex(next) \/ FallsBack(next)
  PROVE  EiInv'
<1>1. ActionRight /\ eiPage \in TargetDocs  BY DEF EiInv
<1>2. CASE CallsElement(next)
  <2>1. /\ eiStage' = next /\ (next # "idle" => eiAction' = eiAction)
        /\ UNCHANGED <<eiPage, eiCache, eiLists, eiListing, eiListed>>
    BY <1>2 DEF CallsElement, Done
  <2>2. ActsOnShownElement'  BY <1>1, <1>2, NodeActsOnShown
  <2>3. ActionRight'  BY <1>1, <2>1, ActionKept DEF ActionStages
  <2> QED  BY <1>1, <2>1, <2>2, <2>3, EiKept
<1>3. CASE CallsByIndex(next)
  <2>1. /\ eiStage' = next /\ (next # "idle" => eiAction' = eiAction)
        /\ UNCHANGED <<eiPage, eiCache, eiLists, eiListing, eiListed>>
    BY <1>3 DEF CallsByIndex, Done
  <2>2. ActsOnShownElement'  BY <1>1, <1>3, PlaceActsOnShown
  <2>3. ActionRight'  BY <1>1, <2>1, ActionKept DEF ActionStages
  <2> QED  BY <1>1, <2>1, <2>2, <2>3, EiKept
<1>4. CASE FallsBack(next)
  <2>1. eiStage' = next /\ UNCHANGED <<eiPage, eiCache, eiLists, eiAction, eiActed, eiListing, eiListed>>
    BY <1>4 DEF FallsBack
  <2>2. ActsOnShownElement'  BY <2>1 DEF EiInv, ActsOnShownElement
  <2>3. ActionRight'  BY <1>1, <2>1, ActionKept
  <2> QED  BY <1>1, <2>1, <2>2, <2>3, EiKept
<1> QED  BY <1>2, <1>3, <1>4

\* Every step keeps the invariant.
LEMMA EiNextInv == EiInv /\ [EiNext]_eiVars => EiInv'
<1> SUFFICES ASSUME EiInv, [EiNext]_eiVars PROVE EiInv'
  OBVIOUS
<1> DEFINE kept == <<eiCache, eiLists, eiListing, eiListed>>
<1>1. ActionRight /\ ActsOnShownElement /\ eiPage \in TargetDocs  BY DEF EiInv
<1>2. Page \in Targets /\ Frame \in Targets  BY DEF Targets
<1>3. CASE EiPageChanges
  <2>1. /\ UNCHANGED kept /\ UNCHANGED <<eiStage, eiAction, eiActed>>
        /\ \E t \in Targets :
             \/ \E e \in Elements, i \in 1..(Len(eiPage[t]) + 1) :
                  eiPage' = [eiPage EXCEPT ![t] = InsertAt(@, i, e)]
             \/ \E i \in DOMAIN eiPage[t] : eiPage' = [eiPage EXCEPT ![t] = RemoveAt(@, i)]
    BY <1>3 DEF EiPageChanges
  <2>2. PICK t \in Targets, doc \in Seq(Elements) : eiPage' = [eiPage EXCEPT ![t] = doc]
    BY <1>1, <2>1, ChangedDocs DEF TargetDocs
  <2>3. eiPage' \in TargetDocs  BY <1>1, <2>2 DEF TargetDocs
  <2>4. ActionRight' /\ ActsOnShownElement'  BY <1>1, <2>1, ActionKept DEF ActsOnShownElement
  <2> QED  BY <2>1, <2>3, <2>4, EiKept
<1>4. CASE EiListsPage  BY <1>2, <1>4, ListsInv DEF EiListsPage
<1>5. CASE EiEnrichesPage  BY <1>2, <1>5, EnrichesInv DEF EiEnrichesPage
<1>6. CASE EiListsFrame  BY <1>2, <1>6, ListsInv DEF EiListsFrame
<1>7. CASE EiEnrichesFrame  BY <1>2, <1>7, EnrichesInv DEF EiEnrichesFrame
<1>8. CASE EiMerges
  <2>1. CASE eiStage = "merge frame" /\ Merges(TRUE)  BY <2>1, MergesInv
  <2>2. CASE eiStage = "children" /\ Merges(FALSE)  BY <2>2, MergesInv
  <2> QED  BY <1>8, <2>1, <2>2 DEF EiMerges
<1>9. CASE EiClick  BY <1>9, StartsInv DEF EiClick
<1>10. CASE EiInputText  BY <1>10, StartsInv DEF EiInputText
<1>11. CASE EiScroll  BY <1>11, StartsInv DEF EiScroll
<1>12. CASE EiDropdownOptions  BY <1>12, StartsInv DEF EiDropdownOptions
<1>13. CASE EiSelectDropdownOption  BY <1>13, StartsInv DEF EiSelectDropdownOption
<1>14. CASE EiUploadFile  BY <1>14, StartsInv DEF EiUploadFile
<1>15. CASE EiCallsElement
  <2>1. eiStage \in ActionStages /\ After \in ActionStages \cup {"idle"} /\ CallsElement(After)
    BY <1>15 DEF EiCallsElement, ActionStages, After
  <2> QED  BY <2>1, ActionStepInv
<1>16. CASE EiFallsBack
  <2>1. eiStage \in ActionStages /\ "fallback" \in ActionStages /\ FallsBack("fallback")
    BY <1>16 DEF EiFallsBack, ActionStages
  <2> QED  BY <2>1, ActionStepInv
<1>17. CASE EiCallsByIndex
  <2>1. eiStage \in ActionStages /\ After \in ActionStages \cup {"idle"} /\ CallsByIndex(After)
    BY <1>17 DEF EiCallsByIndex, ActionStages, After
  <2> QED  BY <2>1, ActionStepInv
<1>18. CASE EiSetsFile
  <2>1. /\ eiStage \in ActionStages /\ eiStage' \in ActionStages
        /\ UNCHANGED kept /\ UNCHANGED <<eiPage, eiAction, eiActed>>
    BY <1>18 DEF EiSetsFile, ActionStages
  <2>2. ActionRight' /\ ActsOnShownElement'  BY <1>1, <2>1, ActionKept DEF ActsOnShownElement
  <2> QED  BY <1>1, <2>1, <2>2, EiKept
<1>19. CASE EiFinishesUpload
  <2>1. \E next \in ActionStages \cup {"idle"} :
          /\ eiStage \in ActionStages
          /\ CallsElement(next) \/ CallsByIndex(next) \/ FallsBack(next)
    BY <1>19 DEF EiFinishesUpload, ActionStages
  <2> QED  BY <2>1, ActionStepInv
<1>20. CASE EiFails
  <2>1. /\ eiStage' = "idle" /\ eiLists' = NoLists /\ eiListing' = NoLists
        /\ UNCHANGED <<eiPage, eiCache, eiActed, eiListed>>
    BY <1>20 DEF EiFails
  <2>2. NoLists \in TargetDocs  BY NoListsAreDocs
  <2>3. eiLists' = [t \in Targets |-> eiLists'[t]]  BY <2>1 DEF NoLists
  <2>4. CaptureRight'  BY <2>1 DEF CaptureRight
  <2>5. CacheRight'  BY <2>1 DEF EiInv, CacheRight
  <2>6. ActionRight'  BY <2>1 DEF ActionRight, ActionStages
  <2>7. ActsOnShownElement'  BY <1>1, <2>1 DEF ActsOnShownElement
  <2> QED  BY <2>1, <2>2, <2>3, <2>4, <2>5, <2>6, <2>7 DEF EiInv
<1>21. CASE UNCHANGED eiVars
  <2>1. UNCHANGED kept /\ UNCHANGED <<eiPage, eiStage, eiAction, eiActed>>  BY <1>21 DEF eiVars
  <2>2. ActionRight' /\ ActsOnShownElement'  BY <1>1, <2>1, ActionKept DEF ActsOnShownElement
  <2> QED  BY <1>1, <2>1, <2>2, EiKept
<1> QED
  BY <1>3, <1>4, <1>5, <1>6, <1>7, <1>8, <1>9, <1>10, <1>11, <1>12, <1>13, <1>14, <1>15, <1>16,
     <1>17, <1>18, <1>19, <1>20, <1>21 DEF EiNext

\* ElementIndex: what is listed, numbered, cached and looked up is right for the
\* documents as they were captured, at every stage of a capture and an action.
THEOREM ElementInvHolds == EiSpec => []EiInv
<1>1. EiInit => EiInv  BY EiInitInv
<1>2. EiInv /\ [EiNext]_eiVars => EiInv'  BY EiNextInv
<1> QED  BY <1>1, <1>2, PTL DEF EiSpec

\* An indexed action, by node id or by place in a fresh list, acts on the element
\* that had the index when the page was captured, for documents of any elements,
\* any limit of a capture and any number of captures, changes and actions, unless
\* the target's document has changed or the lists count it differently.
THEOREM ElementsAreShown == EiSpec => []ActsOnShownElement
<1>1. EiInv => ActsOnShownElement  BY DEF EiInv
<1> QED  BY <1>1, ElementInvHolds, PTL

-----------------------------------------------------------------------------
XeSpec == XeInit /\ [][XeNext]_xeVars

-----------------------------------------------------------------------------
(* ActionExecutor: the inductive invariant *)

Actions == [kind : STRING, with : SUBSET STRING]

\* What is left of the answer, and of the calls of the present action.
LeftOK ==
  /\ xeLeft \in Seq(Actions)
  /\ xeStage \in {"begin", "calls", "after"} => xeLeft # <<>>
  /\ xeStage = "calls" => xeCalls # <<>>

\* An action that may leave the page ends the sequence with its last call, so
\* none is compared with the URL before an earlier action.
LeaversEnd ==
  /\ xeStage = "begin" /\ TerminatesSequence(Head(xeLeft)) => xeCalls # <<>>
  /\ xeStage = "after" => ~TerminatesSequence(Head(xeLeft))

\* Where the rules look, the page is the one the model saw.
OnSeenPage == xeStage \in {"next", "begin"} => xePage = xeSeen \/ xeUnguarded
ComparesWithSeen ==
  xeStage \in {"begin", "calls", "after"} /\ ~TerminatesSequence(Head(xeLeft)) =>
    xeBefore = xeSeen \/ xeUnguarded

XeInv == XeTypeOK /\ LeftOK /\ LeaversEnd /\ OnSeenPage /\ ComparesWithSeen /\ ActsOnSeenPage

-----------------------------------------------------------------------------
(* ActionExecutor: the steps *)

\* An action that may leave the page is one call.
LEMMA LeaverIsOneCall ==
  ASSUME NEW a, TerminatesSequence(a), NEW mode
  PROVE  CallsOf(a, mode) # <<>>
<1>1. a.kind \in DOMAIN OneCall
  <2>1. {"search", "navigate", "go_back", "switch_tab", "close_tab", "evaluate", "done"}
          \subseteq DOMAIN OneCall
    BY DEF OneCall
  <2>2. QED
    BY <2>1 DEF TerminatesSequence
<1>2. CallsOf(a, mode) = <<OneCall[a.kind]>>
  BY <1>1, SMT DEF CallsOf, TerminatesSequence
<1>3. QED
  BY <1>2

\* Before the first answer nothing is left to do.
LEMMA ExecutorInitInv == XeInit => XeInv
<1> SUFFICES ASSUME XeInit PROVE XeInv
  OBVIOUS
<1>1. XeTypeOK /\ LeftOK
  BY DEF XeInit, XeTypeOK, LeftOK
<1>2. LeaversEnd /\ OnSeenPage /\ ComparesWithSeen /\ ActsOnSeenPage
  BY DEF XeInit, LeaversEnd, OnSeenPage, ComparesWithSeen, ActsOnSeenPage, Begun
<1>3. QED
  BY <1>1, <1>2 DEF XeInv

\* Between two answers nothing is left to do.
LEMMA EndsKeepsInv ==
  ASSUME XeInv, EndsSequence, {xePage', xeBefore'} \cup xeLate' \subseteq PageUrls,
         UNCHANGED <<xeSeen, xeLast>>, xeDone' \in Nat
  PROVE  XeInv'
<1>1. xeStage' = "model" /\ xeLeft' = <<>> /\ xeLeft' \in Seq(Actions)
  BY DEF EndsSequence
<1>2. XeTypeOK' /\ LeftOK'
  BY <1>1 DEF XeInv, XeTypeOK, LeftOK
<1>3. QED
  BY <1>1, <1>2 DEF XeInv, LeaversEnd, OnSeenPage, ComparesWithSeen, ActsOnSeenPage

\* A call may move the page and go on to the next call; nothing else is done.
LEMMA GoesKeepsInv ==
  ASSUME XeInv, xeStage = "calls", NEW rest, Goes(rest),
         xePage' \in PageUrls, xeLate' \subseteq PageUrls,
         UNCHANGED <<xeSeen, xeBefore, xeDone, xeUnguarded, xeLast>>
  PROVE  XeInv'
<1>1. XeTypeOK /\ LeftOK /\ ComparesWithSeen /\ ActsOnSeenPage /\ xeLeft # <<>>
  BY DEF XeInv, LeftOK
<1>2. CASE EndsSequence
  BY <1>1, <1>2, EndsKeepsInv DEF XeTypeOK
<1>3. CASE ~EndsSequence
  <2>1. /\ xeLeft' = xeLeft
        /\ \/ xeStage' = "calls" /\ xeCalls' # <<>>
           \/ xeStage' = "after" /\ ~TerminatesSequence(Head(xeLeft))
    BY <1>3 DEF Goes
  <2>2. XeTypeOK' /\ LeftOK'
    BY <1>1, <2>1 DEF XeTypeOK, LeftOK
  <2>3. LeaversEnd' /\ OnSeenPage' /\ ComparesWithSeen' /\ ActsOnSeenPage'
    BY <1>1, <2>1 DEF LeaversEnd, OnSeenPage, ComparesWithSeen, ActsOnSeenPage, TerminatesSequence
  <2>4. QED
    BY <2>2, <2>3 DEF XeInv
<1>4. QED
  BY <1>2, <1>3

\* A call that is answered, refused, failed or given up leaves the rest of the
\* answer as it was.
LEMMA CallsKeepInv ==
  ASSUME XeInv, XeCallAnswered \/ XeClickRefused \/ XeCallFails \/ XeTimesOut
  PROVE  XeInv'
<1>1. /\ xeStage = "calls" /\ XeTypeOK
      /\ {xePage, xeSeen, xeBefore} \cup xeLate \subseteq PageUrls /\ xeDone \in Nat
  BY DEF XeInv, XeTypeOK, XeCallAnswered, XeClickRefused, XeCallFails, XeTimesOut
<1>2. UNCHANGED <<xeSeen, xeBefore, xeDone, xeUnguarded, xeLast>>
  BY DEF XeCallAnswered, XeClickRefused, XeCallFails, XeTimesOut
<1>3. PageMay(Head(xeCalls)) \/ UNCHANGED <<xePage, xeLate>>
  BY DEF XeCallAnswered, XeClickRefused, XeCallFails, XeTimesOut
<1>4. xePage' \in PageUrls /\ xeLate' \subseteq PageUrls
  BY <1>1, <1>3 DEF PageMay
<1>5. EndsSequence \/ Goes(Tail(xeCalls)) \/ Goes(<<"dropdown_options">>)
  BY DEF XeCallAnswered, XeClickRefused, XeCallFails, XeTimesOut
<1>6. QED
  BY <1>1, <1>2, <1>4, <1>5, EndsKeepsInv, GoesKeepsInv

\* A new answer is compared with the page the model has just seen.
LEMMA AnswerKeepsInv ==
  ASSUME XeInv, XeModelAnswers
  PROVE  XeInv'
<1>1. xeLeft' \in Seq(Actions)
  BY ActionExecutorAssumption DEF XeModelAnswers, Actions
<1>2. XeTypeOK' /\ LeftOK'
  BY <1>1 DEF XeInv, XeTypeOK, LeftOK, XeModelAnswers
<1>3. LeaversEnd' /\ OnSeenPage' /\ ComparesWithSeen' /\ ActsOnSeenPage'
  BY DEF XeInv, XeModelAnswers, LeaversEnd, OnSeenPage, ComparesWithSeen, ActsOnSeenPage
<1>4. QED
  BY <1>2, <1>3 DEF XeInv

\* The rules before an action go by the URL the model saw.
LEMMA GuardsKeepsInv ==
  ASSUME XeInv, XeGuards
  PROVE  XeInv'
<1>1. /\ xeStage = "next" /\ xeStage' = "begin" /\ xeLeft # <<>>
      /\ xeCalls' = CallsOf(Head(xeLeft), xeMode)
      /\ xeBefore' = IF TerminatesSequence(Head(xeLeft)) THEN xeBefore ELSE xePage
      /\ UNCHANGED <<xePage, xeLate, xeSeen, xeLeft, xeDone, xeUnguarded, xeLast>>
  BY DEF XeGuards
<1>2. XeTypeOK' /\ LeftOK'
  BY <1>1 DEF XeInv, XeTypeOK, LeftOK
<1>3. LeaversEnd'
  BY <1>1, LeaverIsOneCall DEF LeaversEnd, TerminatesSequence
<1>4. OnSeenPage' /\ ComparesWithSeen' /\ ActsOnSeenPage'
  BY <1>1 DEF XeInv, OnSeenPage, ComparesWithSeen, ActsOnSeenPage, TerminatesSequence
<1>5. QED
  BY <1>2, <1>3, <1>4 DEF XeInv

\* An action that begins does so on that page, unless it moved where no rule
\* looks.
LEMMA BeginsKeepsInv ==
  ASSUME XeInv, XeBegins
  PROVE  XeInv'
<1>1. /\ xeStage = "begin" /\ XeTypeOK /\ LeftOK /\ LeaversEnd /\ OnSeenPage /\ ComparesWithSeen
      /\ UNCHANGED <<xePage, xeLate, xeSeen, xeBefore, xeDone, xeUnguarded>>
  BY DEF XeInv, XeBegins
<1>2. CASE EndsSequence /\ UNCHANGED xeLast
  BY <1>1, <1>2, EndsKeepsInv DEF XeTypeOK
<1>3. CASE /\ xeStage' = (IF xeCalls = <<>> THEN "after" ELSE "calls")
           /\ xeLast' = Begun(xeSeen, xePage, xeUnguarded)
           /\ UNCHANGED <<xeLeft, xeCalls>>
  <2>1. XeTypeOK' /\ LeftOK'
    BY <1>1, <1>3 DEF XeTypeOK, LeftOK
  <2>2. LeaversEnd'
    BY <1>1, <1>3 DEF LeaversEnd, TerminatesSequence
  <2>3. OnSeenPage' /\ ComparesWithSeen'
    BY <1>1, <1>3 DEF OnSeenPage, ComparesWithSeen, TerminatesSequence
  <2>4. ActsOnSeenPage'
    BY <1>1, <1>3 DEF OnSeenPage, ActsOnSeenPage, Begun
  <2>5. QED
    BY <2>1, <2>2, <2>3, <2>4 DEF XeInv
<1>4. QED
  BY <1>2, <1>3 DEF XeBegins

\* After an action that may leave the page nothing more is done.
LEMMA AfterKeepsInv ==
  ASSUME XeInv, XeAfter
  PROVE  XeInv'
<1>1. /\ xeStage = "after" /\ XeTypeOK /\ LeftOK /\ LeaversEnd /\ ComparesWithSeen /\ ActsOnSeenPage
      /\ xeDone' \in Nat
      /\ UNCHANGED <<xePage, xeLate, xeSeen, xeBefore, xeUnguarded, xeLast>>
  BY DEF XeInv, XeAfter, XeTypeOK
<1>2. CASE EndsSequence
  BY <1>1, <1>2, EndsKeepsInv DEF XeInv, XeTypeOK
<1>3. CASE xePage = xeBefore /\ xeStage' = "next" /\ xeLeft' = Tail(xeLeft)
  <2>1. xeLeft' \in Seq(Actions)
    BY <1>1, <1>3 DEF LeftOK
  <2>2. XeTypeOK' /\ LeftOK'
    BY <1>1, <1>3, <2>1 DEF XeTypeOK, LeftOK
  <2>3. OnSeenPage'
    BY <1>1, <1>3 DEF LeaversEnd, ComparesWithSeen, OnSeenPage
  <2>4. LeaversEnd' /\ ComparesWithSeen' /\ ActsOnSeenPage'
    BY <1>1, <1>3 DEF LeaversEnd, ComparesWithSeen, ActsOnSeenPage
  <2>5. QED
    BY <2>2, <2>3, <2>4 DEF XeInv
<1>4. QED
  BY <1>2, <1>3 DEF XeAfter

\* A page that moves by itself, or late, is remembered to have moved.
LEMMA MoveKeepsInv ==
  ASSUME XeInv, XeLateMove \/ XePageMoves
  PROVE  XeInv'
<1>1. /\ XeTypeOK /\ LeftOK /\ LeaversEnd /\ ComparesWithSeen /\ ActsOnSeenPage /\ PageMoved
      /\ xePage' \in PageUrls /\ xeLate' \subseteq PageUrls
  BY DEF XeInv, XeTypeOK, XeLateMove, XePageMoves
<1>2. /\ xeUnguarded' = (xeUnguarded \/ xeStage \in {"next", "begin"})
      /\ UNCHANGED <<xeSeen, xeLeft, xeStage, xeCalls, xeBefore, xeDone, xeLast>>
  BY <1>1 DEF PageMoved
<1>3. XeTypeOK' /\ LeftOK'
  BY <1>1, <1>2 DEF XeTypeOK, LeftOK
<1>4. LeaversEnd' /\ OnSeenPage' /\ ComparesWithSeen' /\ ActsOnSeenPage'
  BY <1>1, <1>2 DEF LeaversEnd, OnSeenPage, ComparesWithSeen, ActsOnSeenPage, TerminatesSequence
<1>5. QED
  BY <1>3, <1>4 DEF XeInv

\* Every step of the executor keeps its invariant.
LEMMA ExecutorStepKeepsInv == XeInv /\ [XeNext]_xeVars => XeInv'
<1> SUFFICES ASSUME XeInv, [XeNext]_xeVars PROVE XeInv'
  OBVIOUS
<1>1. CASE XeEnds
  BY <1>1, EndsKeepsInv DEF XeEnds, XeInv, XeTypeOK
<1>2. CASE UNCHANGED xeVars
  BY <1>2 DEF xeVars, XeInv, XeTypeOK, LeftOK, LeaversEnd, OnSeenPage, ComparesWithSeen,
     ActsOnSeenPage, TerminatesSequence
<1>3. QED
  BY <1>1, <1>2, CallsKeepInv, AnswerKeepsInv, GuardsKeepsInv, BeginsKeepsInv, AfterKeepsInv,
     MoveKeepsInv DEF XeNext

-----------------------------------------------------------------------------
(* ActionExecutor: the theorems *)

\* The inductive invariant holds in every state.
THEOREM ExecutorInvHolds == XeSpec => []XeInv
BY ExecutorInitInv, ExecutorStepKeepsInv, PTL DEF XeSpec

\* An action begins on the page the model chose it by, unless the page moved
\* after the model saw it and outside of an action.
THEOREM ActionsMeetSeenPage == XeSpec => []ActsOnSeenPage
<1>1. XeInv => ActsOnSeenPage
  BY DEF XeInv
<1>2. QED
  BY <1>1, ExecutorInvHolds, PTL

-----------------------------------------------------------------------------
(* The type invariants *)

KiBounds == kiStuck \subseteq kiHeld /\ kiCalls \in 0..MaxKeyCalls

\* The variables of the input calls keep their types: what a failed call left
\* pressed is still held, and a mask is one of modifiers.
THEOREM KeysAreTyped == KiSpec => []KiTypeOK
<1>1. KiInit => KiBounds
  BY KeyInputAssumption DEF KiInit, KiBounds, KeyInputAssumption
<1>2. KiBounds /\ [KiNext]_kiVars => KiBounds'
  <2>1. MaxKeyCalls \in Nat
    BY KeyInputAssumption DEF KeyInputAssumption
  <2>2. ASSUME KiBounds, NEW commands, KiStarts(commands) PROVE KiBounds'
    BY <2>1, <2>2 DEF KiBounds, KiStarts
  <2>3. QED
    BY <2>1, <2>2 DEF KiBounds, KiNext, KiSendKeys, KiClickCoordinates, KiAnswered, KiFails, kiVars
<1>3. KiSpec => []KiBounds
  BY <1>1, <1>2, PTL DEF KiSpec
<1>4. KiInv /\ KiBounds => KiTypeOK
  <2> SUFFICES ASSUME KiInv, KiBounds, NEW i \in DOMAIN kiLeft PROVE kiLeft[i].mask \subseteq Modifiers
    BY DEF KiBounds, KiTypeOK
  <2>1. kiLeft[i] \in InputEvents
    BY DEF KiInv
  <2>2. QED
    BY <2>1 DEF InputEvents
<1>5. QED
  BY <1>3, <1>4, KeyInvHolds, PTL

\* The variables of the replay keep their types, and before it begins nothing
\* counts as done.
THEOREM ReplayIsTyped == RpSpec => []RpTypeOK
<1> DEFINE I == rpStage = "idle" => rpDone = 0
<1>1. RpInit => I
  BY DEF RpInit
<1>2. I /\ [RpNext]_rpVars => I'
  BY DEF RpNext, RpPageChanges, RpReplaysHistory, RpPlans, RpRunsSequence, ReplayStarts, RpEnds, RpGuards,
     RpRematches, RpExecutes, RpContinues, RpFails, NextItem, Stops, rpVars
<1>3. RpSpec => []I
  BY <1>1, <1>2, PTL DEF RpSpec
<1>4. RpInv /\ I => RpTypeOK
  <2> SUFFICES ASSUME RpInv, NEW n \in DOMAIN rpPage PROVE rpPage[n].el \in DOMAIN Looks
    BY DEF RpInv, RpTyped, RpTypeOK
  <2>1. rpPage[n] \in RpElems
    BY DEF RpInv, RpTyped
  <2>2. QED
    BY <2>1 DEF RpElems
<1>5. QED
  BY <1>3, <1>4, ReplayInvHolds, PTL

\* The files of a memory are of pieces of content, and not too long.
PiecesFit(files) ==
  \A n \in DOMAIN files : files[n] \in Seq(Texts) /\ Len(files[n]) <= MaxPieces
FilesFit == PiecesFit(mfFiles) /\ PiecesFit(mfSaved.files)

\* Files stay short when one that is short is added.
LEMMA WithPiecesFits ==
  ASSUME NEW files, PiecesFit(files), NEW n, NEW content \in Seq(Texts), Len(content) <= MaxPieces
  PROVE  PiecesFit(With(files, n, content))
BY DEF PiecesFit, With

\* What is written, appended or replaced has no more pieces than may be.
LEMMA WrittenPiecesFit ==
  ASSUME NEW text \in Texts
  PROVE  /\ <<text>> \in Seq(Texts) /\ Len(<<text>>) <= MaxPieces
         /\ \A content \in Seq(Texts) : Len(content) < MaxPieces =>
              Append(content, text) \in Seq(Texts) /\ Len(Append(content, text)) <= MaxPieces
         /\ \A content \in Seq(Texts), old \in Texts :
              /\ Replaced(content, old, text) \in Seq(Texts)
              /\ Len(Replaced(content, old, text)) = Len(content)
<1>1. MaxPieces \in Nat /\ MaxPieces >= 1
  BY ManagedFilesAssumption DEF ManagedFilesAssumption
<1>2. ASSUME NEW content \in Seq(Texts), Len(content) < MaxPieces
      PROVE  Append(content, text) \in Seq(Texts) /\ Len(Append(content, text)) <= MaxPieces
  BY <1>1, <1>2, AppendProperties
<1>3. ASSUME NEW content \in Seq(Texts), NEW old \in Texts
      PROVE  /\ Replaced(content, old, text) \in Seq(Texts)
             /\ Len(Replaced(content, old, text)) = Len(content)
  <2> DEFINE new == Replaced(content, old, text)
  <2>1. DOMAIN content = 1..Len(content) /\ Len(content) \in Nat
    BY LenProperties
  <2>2. new \in [1..Len(content) -> Texts]
    BY <2>1 DEF Replaced
  <2> HIDE DEF new
  <2>3. new \in Seq(Texts)
    BY <2>1, <2>2, SeqDef
  <2>4. DOMAIN new = 1..Len(new) /\ Len(new) \in Nat
    BY <2>3, LenProperties
  <2>5. QED
    BY <2>1, <2>2, <2>3, <2>4 DEF new
<1>4. QED
  BY <1>1, <1>2, <1>3

\* Every step keeps the files short, in memory and in the checkpoint.
LEMMA FilesFitStep ==
  ASSUME FilesFit, [MfNext]_mfVars
  PROVE  FilesFit'
<1>1. PiecesFit(mfFiles) /\ PiecesFit(mfSaved.files)
  BY DEF FilesFit
<1>2. ASSUME NEW n, NEW content \in Seq(Texts), Len(content) <= MaxPieces, Stores(n, content)
      PROVE  PiecesFit(mfFiles')
  BY <1>1, <1>2, WithPiecesFits DEF Stores
<1>3. CASE UNCHANGED mfVars
  BY <1>1, <1>3 DEF mfVars, FilesFit
<1>4. CASE MfWrites
  <2>1. PICK n \in WriteNames, text \in Texts :
          \/ Overwrites(n, <<text>>)
          \/ /\ n \in DOMAIN mfFiles /\ Len(mfFiles[n]) < MaxPieces
             /\ Overwrites(n, Append(mfFiles[n], text))
    BY <1>4 DEF MfWrites
  <2>2. n \in DOMAIN mfFiles => mfFiles[n] \in Seq(Texts)
    BY <1>1 DEF PiecesFit
  <2>3. PiecesFit(mfFiles')
    BY <1>2, <2>1, <2>2, WrittenPiecesFit DEF Overwrites
  <2>4. QED
    BY <1>1, <2>1, <2>3 DEF Overwrites, FilesFit
<1>5. CASE MfReplaces
  <2>1. PICK n \in TextNames \cap DOMAIN mfFiles, old \in Texts, new \in Texts :
          Overwrites(n, Replaced(mfFiles[n], old, new))
    BY <1>5 DEF MfReplaces
  <2>2. mfFiles[n] \in Seq(Texts) /\ Len(mfFiles[n]) <= MaxPieces
    BY <1>1 DEF PiecesFit
  <2>3. PiecesFit(mfFiles')
    BY <1>2, <2>1, <2>2, WrittenPiecesFit DEF Overwrites
  <2>4. QED
    BY <1>1, <2>1, <2>3 DEF Overwrites, FilesFit
<1>6. CASE MfExtracts
  <2>1. PICK text \in Texts : Stores(ExtractName(mfCount), <<text>>)
    BY <1>6 DEF MfExtracts
  <2>2. PiecesFit(mfFiles')
    BY <1>2, <2>1, WrittenPiecesFit
  <2>3. QED
    BY <1>1, <1>6, <2>2 DEF MfExtracts, FilesFit
<1>7. CASE MfWritesAbsolute \/ MfReplacesAbsolute
  BY <1>1, <1>7 DEF MfWritesAbsolute, MfReplacesAbsolute, WritesPast, FilesFit
<1>8. CASE MfNukes
  BY <1>1, <1>8 DEF MfNukes, PiecesFit, FilesFit
<1>9. CASE MfUploads \/ MfCheckpoints \/ MfRestores
  BY <1>1, <1>9 DEF MfUploads, MfCheckpoints, MfRestores, PiecesFit, FilesFit
<1>10. QED
  BY <1>3, <1>4, <1>5, <1>6, <1>7, <1>8, <1>9 DEF MfNext

\* The memory's files keep their types: what a failed write leaves on disk, or an
\* absolute path puts there, never comes into the memory.
THEOREM ManagedFilesAreTyped == MfSpec => []MfTypeOK
<1>1. MfInit => FilesFit
  <2>1. <<>> \in Seq(Texts) /\ Len(<<>>) = 0 /\ 0 <= MaxPieces
    BY ManagedFilesAssumption DEF ManagedFilesAssumption
  <2>2. QED
    BY <2>1 DEF MfInit, With, PiecesFit, FilesFit
<1>2. MfSpec => []FilesFit
  BY <1>1, FilesFitStep, PTL DEF MfSpec
<1>3. MfInv /\ FilesFit => MfTypeOK
  <2> SUFFICES ASSUME MfInv, FilesFit PROVE MfTypeOK
    OBVIOUS
  <2>1. Torn \notin Seq(Texts)
    <3>1. Torn[1] = "torn" /\ Len(Torn) = 1
      BY DEF Torn
    <3>2. QED
      BY <3>1, ManagedFilesAssumption DEF ManagedFilesAssumption
  <2>2. \A n \in DOMAIN mfFiles : Len(mfFiles[n]) <= MaxPieces /\ mfFiles[n] # Torn
    BY <2>1 DEF FilesFit, PiecesFit
  <2>3. QED
    BY <2>2, ManagedFilesAssumption DEF MfInv, CountsFit, MfTypeOK, ManagedFilesAssumption
<1>4. QED
  BY <1>2, <1>3, ManagedInvHolds, PTL

\* The variables of the executor keep their types.
THEOREM ExecutorIsTyped == XeSpec => []XeTypeOK
<1>1. XeInv => XeTypeOK
  BY DEF XeInv
<1>2. QED
  BY <1>1, ExecutorInvHolds, PTL

\* What is captured of a target has numbers up to the limit.
EntriesFit(map) == DOMAIN map \subseteq 1..CaptureLimit /\ \A n \in DOMAIN map : map[n].el \in Elements
CacheFits == \A i \in DOMAIN eiCache : i \in Indices /\ eiCache[i].el \in Elements
CaptureFits ==
  /\ eiStage \in {"children", "enrich frame", "merge frame"} => EntriesFit(eiLists[Page])
  /\ eiStage = "merge frame" => EntriesFit(eiLists[Frame])
EiBounds ==
  /\ CaptureFits /\ CacheFits
  /\ eiChanges \in 0..MaxPageChanges /\ eiSteps \in 0..MaxIndexed

\* A capture lists elements at places within its limit.
LEMMA CaptureListFits ==
  ASSUME NEW doc \in Seq(Elements)
  PROVE  /\ DOMAIN CaptureList(doc) \subseteq 1..CaptureLimit
         /\ \A n \in DOMAIN CaptureList(doc) : CaptureList(doc)[n] \in Elements
<1> DEFINE whole == Listing(doc, DeepFrame)
           list == CaptureList(doc)
           S == {CaptureLimit, Len(whole)}
           limit == Min(S)
<1>1. whole \in Seq(Elements)
  BY ListingFollows
<1>2. list = SubSeq(whole, 1, limit)
  BY DEF CaptureList
<1> HIDE DEF whole, list
<1>3. Len(whole) \in Nat /\ CaptureLimit \in Nat
  BY <1>1, ElementIndexAssumption DEF ElementIndexAssumption
<1>4. \E x \in S : \A y \in S : x <= y
  <2>1. CASE CaptureLimit <= Len(whole)
    BY <1>3, <2>1
  <2>2. CASE Len(whole) <= CaptureLimit
    BY <1>3, <2>2
  <2>3. QED
    BY <1>3, <2>1, <2>2
<1>5. limit \in S /\ \A y \in S : limit <= y
  BY <1>4 DEF Min
<1>6. limit \in Nat /\ limit <= CaptureLimit /\ limit <= Len(whole)
  BY <1>3, <1>5
<1> HIDE DEF limit
<1>7. list \in Seq(Elements) /\ Len(list) = limit
  BY <1>1, <1>2, <1>3, <1>6
<1>8. DOMAIN list = 1..limit /\ \A n \in 1..limit : list[n] \in Elements
  BY <1>7, LenProperties
<1>9. QED
  BY <1>3, <1>6, <1>8 DEF list

\* What is left of it after the AX tree is within the limit too.
LEMMA EnrichedFits ==
  ASSUME NEW t, NEW doc \in Seq(Elements), NEW known
  PROVE  EntriesFit(Enriched(t, CaptureList(doc), known))
<1> DEFINE list == CaptureList(doc)
           map == Enriched(t, list, known)
<1>1. DOMAIN list \subseteq 1..CaptureLimit /\ \A n \in DOMAIN list : list[n] \in Elements
  BY CaptureListFits
<1> HIDE DEF list
<1>2. DOMAIN map \subseteq DOMAIN list /\ \A n \in DOMAIN map : map[n].el = list[n]
  BY DEF Enriched, Entry
<1>3. QED
  BY <1>1, <1>2 DEF EntriesFit, list

\* Numbered anew, the entries of a target are no more than its limit.
LEMMA InOrderFits ==
  ASSUME NEW map, EntriesFit(map)
  PROVE  LET S == {map[n] : n \in DOMAIN map} IN
         /\ InOrder(map) \in Seq(S) /\ Len(InOrder(map)) <= CaptureLimit
         /\ \A x \in S : x.el \in Elements
<1> DEFINE S == {map[n] : n \in DOMAIN map}
<1>1. CaptureLimit \in Nat /\ IsFiniteSet(1..CaptureLimit) /\ Cardinality(1..CaptureLimit) = CaptureLimit
  <2>1. CaptureLimit \in Nat /\ 1 \in Int /\ CaptureLimit \in Int
    BY ElementIndexAssumption DEF ElementIndexAssumption
  <2>2. IsFiniteSet(1..CaptureLimit)
        /\ Cardinality(1..CaptureLimit) = IF 1 > CaptureLimit THEN 0 ELSE CaptureLimit - 1 + 1
    BY <2>1, FS_Interval
  <2>3. QED
    BY <2>1, <2>2
<1>2. /\ DOMAIN map \in SUBSET Nat /\ IsFiniteSet(DOMAIN map)
      /\ Cardinality(DOMAIN map) <= CaptureLimit
  BY <1>1, FS_Subset DEF EntriesFit
<1>3. \A n \in DOMAIN map : map[n] \in S
  OBVIOUS
<1>4. \A x \in S : x.el \in Elements
  BY DEF EntriesFit
<1> HIDE DEF S
<1>5. InOrder(map) \in Seq(S) /\ Len(InOrder(map)) = Cardinality(DOMAIN map)
  BY <1>2, <1>3, InOrderAt
<1>6. QED
  BY <1>2, <1>4, <1>5 DEF S

\* The numbers of a page merged with a frame's are among the indices there
\* are.
LEMMA MergedFits ==
  ASSUME NEW lists, EntriesFit(lists[Page]), NEW children \in BOOLEAN, children => EntriesFit(lists[Frame])
  PROVE  LET map == Merged(lists, children) IN
         \A i \in DOMAIN map : i \in Indices /\ map[i].el \in Elements
<1>1. CaptureLimit \in Nat
  BY ElementIndexAssumption DEF ElementIndexAssumption
<1>2. CASE ~children
  BY <1>1, <1>2 DEF Merged, EntriesFit, Indices
<1>3. CASE children
  <2> DEFINE page == InOrder(lists[Page])
             frame == InOrder(lists[Frame])
             S == {lists[Page][n] : n \in DOMAIN lists[Page]}
             T == {lists[Frame][n] : n \in DOMAIN lists[Frame]}
             whole == page \o frame
  <2>1. page \in Seq(S) /\ Len(page) <= CaptureLimit /\ \A x \in S : x.el \in Elements
    BY InOrderFits
  <2>2. frame \in Seq(T) /\ Len(frame) <= CaptureLimit /\ \A x \in T : x.el \in Elements
    BY <1>3, InOrderFits
  <2>3. Merged(lists, children) = whole
    BY <1>3 DEF Merged
  <2> HIDE DEF page, frame, S, T
  <2>4. page \in Seq(S \cup T) /\ frame \in Seq(S \cup T)
    BY <2>1, <2>2
  <2>5. whole \in Seq(S \cup T) /\ Len(whole) = Len(page) + Len(frame)
    BY <2>4, ConcatProperties, Zenon
  <2>6. Len(page) \in Nat /\ Len(frame) \in Nat
    BY <2>4
  <2> HIDE DEF whole
  <2>7. /\ DOMAIN whole = 1..Len(whole) /\ \A i \in 1..Len(whole) : whole[i] \in S \cup T
        /\ Len(whole) \in Nat
    BY <2>5, LenProperties
  <2>8. \A i \in DOMAIN whole : i \in Indices
    BY <1>1, <2>1, <2>2, <2>5, <2>6, <2>7 DEF Indices
  <2>9. QED
    BY <2>1, <2>2, <2>3, <2>7, <2>8
<1>4. QED
  BY <1>2, <1>3

\* Every step of a capture or of an action stays within these bounds.
LEMMA EiBoundsStep ==
  ASSUME EiInv, EiBounds, [EiNext]_eiVars
  PROVE  EiBounds'
<1>1. {MaxPageChanges, MaxIndexed} \subseteq Nat /\ Page \in Targets /\ Frame \in Targets /\ Page # Frame
  BY ElementIndexAssumption DEF Targets, ElementIndexAssumption
<1>2. /\ eiLists = [t \in Targets |-> eiLists[t]]
      /\ \A t \in Targets : eiListing[t] \in Seq(Elements)
  BY DEF EiInv, TargetDocs
<1>3. CaptureRight
  BY DEF EiInv
<1>4. CASE UNCHANGED eiVars
  BY <1>4 DEF eiVars, EiBounds, CaptureFits, CacheFits
<1>5. CASE EiPageChanges
  <2>1. /\ eiChanges < MaxPageChanges /\ eiChanges' = eiChanges + 1
        /\ UNCHANGED <<eiCache, eiStage, eiLists, eiSteps>>
    BY <1>5 DEF EiPageChanges
  <2>2. eiChanges' \in 0..MaxPageChanges
    BY <1>1, <2>1 DEF EiBounds
  <2>3. QED
    BY <2>1, <2>2 DEF EiBounds, CaptureFits, CacheFits
<1>6. ASSUME NEW t \in Targets, NEW known \in BOOLEAN, ListedRight(t)
      PROVE  EntriesFit(Enriched(t, eiLists[t], known))
  BY <1>2, <1>6, EnrichedFits DEF ListedRight
<1>7. CASE EiListsPage
  <2>1. /\ eiSteps < MaxIndexed /\ eiSteps' = eiSteps + 1 /\ eiStage' = "enrich page"
        /\ UNCHANGED <<eiCache, eiChanges>>
    BY <1>7 DEF EiListsPage, Lists
  <2>2. eiSteps' \in 0..MaxIndexed
    <3>1. eiSteps \in 0..MaxIndexed
      BY DEF EiBounds
    <3>2. MaxIndexed \in Nat /\ eiSteps < MaxIndexed /\ eiSteps' = eiSteps + 1
      BY <1>1, <2>1
    <3>3. QED
      BY <3>1, <3>2
  <2>3. QED
    BY <2>1, <2>2 DEF EiBounds, CaptureFits, CacheFits
<1>8. CASE EiListsFrame
  <2>1. /\ eiStage = "children" /\ eiStage' = "enrich frame" /\ eiLists'[Page] = eiLists[Page]
        /\ UNCHANGED <<eiCache, eiChanges, eiSteps>>
    BY <1>1, <1>2, <1>8 DEF EiListsFrame, Lists
  <2>2. QED
    BY <2>1 DEF EiBounds, CaptureFits, CacheFits
<1>9. CASE EiEnrichesPage
  <2>1. ListedRight(Page) /\ eiStage = "enrich page"
    BY <1>3, <1>9 DEF CaptureRight, EiEnrichesPage
  <2>2. /\ eiLists'[Page] \in {Enriched(Page, eiLists[Page], known) : known \in BOOLEAN}
        /\ eiStage' = "children" /\ UNCHANGED <<eiCache, eiChanges, eiSteps>>
    BY <1>1, <1>2, <1>9 DEF EiEnrichesPage, Enriches
  <2>3. EntriesFit(eiLists'[Page])
    BY <1>1, <1>6, <2>1, <2>2
  <2>4. QED
    BY <2>2, <2>3 DEF EiBounds, CaptureFits, CacheFits
<1>10. CASE EiEnrichesFrame
  <2>1. ListedRight(Frame) /\ eiStage = "enrich frame"
    BY <1>3, <1>10 DEF CaptureRight, EiEnrichesFrame
  <2>2. /\ eiLists'[Frame] \in {Enriched(Frame, eiLists[Frame], known) : known \in BOOLEAN}
        /\ eiLists'[Page] = eiLists[Page]
        /\ eiStage' = "merge frame" /\ UNCHANGED <<eiCache, eiChanges, eiSteps>>
    BY <1>1, <1>2, <1>10 DEF EiEnrichesFrame, Enriches
  <2>3. EntriesFit(eiLists'[Frame])
    BY <1>1, <1>6, <2>1, <2>2
  <2>4. QED
    BY <2>1, <2>2, <2>3 DEF EiBounds, CaptureFits, CacheFits
<1>11. CASE EiMerges
  <2>1. /\ eiStage' = "idle" /\ UNCHANGED <<eiChanges, eiSteps>>
        /\ \/ eiStage = "merge frame" /\ eiCache' = Merged(eiLists, TRUE)
           \/ eiStage = "children" /\ eiCache' = Merged(eiLists, FALSE)
    BY <1>11 DEF EiMerges, Merges
  <2>2. EntriesFit(eiLists[Page]) /\ (eiStage = "merge frame" => EntriesFit(eiLists[Frame]))
    BY <2>1 DEF EiBounds, CaptureFits
  <2>3. CASE eiStage = "merge frame" /\ eiCache' = Merged(eiLists, TRUE)
    BY <2>1, <2>2, <2>3, MergedFits DEF EiBounds, CaptureFits, CacheFits
  <2>4. CASE eiStage = "children" /\ eiCache' = Merged(eiLists, FALSE)
    BY <2>1, <2>2, <2>4, MergedFits DEF EiBounds, CaptureFits, CacheFits
  <2>5. QED
    BY <2>1, <2>3, <2>4
<1>12. ASSUME NEW kind, NEW i, Starts(kind, i) PROVE EiBounds'
  <2>1. /\ eiSteps < MaxIndexed /\ eiSteps' = eiSteps + 1 /\ eiStage' = "call"
        /\ UNCHANGED <<eiCache, eiChanges>>
    BY <1>12 DEF Starts
  <2>2. eiSteps' \in 0..MaxIndexed
    <3>1. eiSteps \in 0..MaxIndexed
      BY DEF EiBounds
    <3>2. MaxIndexed \in Nat /\ eiSteps < MaxIndexed /\ eiSteps' = eiSteps + 1
      BY <1>1, <2>1
    <3>3. QED
      BY <3>1, <3>2
  <2>3. QED
    BY <2>1, <2>2 DEF EiBounds, CaptureFits, CacheFits
<1>13. CASE EiClick \/ EiInputText \/ EiScroll \/ EiDropdownOptions \/ EiSelectDropdownOption \/ EiUploadFile
  BY <1>12, <1>13 DEF EiClick, EiInputText, EiScroll, EiDropdownOptions, EiSelectDropdownOption, EiUploadFile
<1>14. CASE EiCallsElement \/ EiFallsBack \/ EiCallsByIndex \/ EiSetsFile \/ EiFinishesUpload \/ EiFails
  <2>1. /\ eiStage' \in {"idle", "marked", "fallback", "finish", "finish by index"}
        /\ UNCHANGED <<eiCache, eiChanges, eiSteps>>
    BY <1>14 DEF EiCallsElement, EiFallsBack, EiCallsByIndex, EiSetsFile, EiFinishesUpload, EiFails,
       CallsElement, FallsBack, CallsByIndex, Done, After
  <2>2. QED
    BY <2>1 DEF EiBounds, CaptureFits, CacheFits
<1>15. QED
  BY <1>4, <1>5, <1>7, <1>8, <1>9, <1>10, <1>11, <1>13, <1>14 DEF EiNext

\* The variables of capture and indexed actions keep their types: no element is
\* numbered beyond what the limit of two targets allows.
THEOREM ElementsAreTyped == EiSpec => []EiTypeOK
<1>1. EiInit => EiBounds
  BY ElementIndexAssumption DEF EiInit, EiBounds, CaptureFits, CacheFits, ElementIndexAssumption
<1>2. EiSpec => []EiBounds
  BY <1>1, EiBoundsStep, ElementInvHolds, PTL DEF EiSpec
<1>3. EiInv /\ EiBounds => EiTypeOK
  <2> SUFFICES ASSUME EiInv, NEW t \in Targets PROVE ToSet(eiPage[t]) \subseteq Elements
    BY DEF EiBounds, CacheFits, EiTypeOK
  <2>1. eiPage[t] \in Seq(Elements)
    BY DEF EiInv, TargetDocs
  <2>2. QED
    BY <2>1, LenProperties DEF ToSet
<1>4. QED
  BY <1>2, <1>3, ElementInvHolds, PTL
=============================================================================
