---------------------------- MODULE ActionReplay ----------------------------
(***************************************************************************)
(* Replaying a recorded history.  A recorded action carries the element it *)
(* acted on as a fingerprint; replay looks for it in a fresh capture, from *)
(* the strongest signal to the weakest, and sends the action to the index  *)
(* it finds.  replay_history captures again after every action,            *)
(* execute_replay_plan carries out a plan made beforehand, and             *)
(* execute_sequence the actions of one model answer.                       *)
(***************************************************************************)
EXTENDS Naturals, Sequences, SequencesExt, FiniteSets

CONSTANTS
  Looks,            \* element -> its tag, id, name, AX name and class
  Originals,        \* the pages histories were recorded on
  Histories,        \* the recorded actions: kind and index
  MaxReplayChanges  \* bound: changes of the page

ASSUME ActionReplayAssumption ==
  /\ \A p \in Originals : p \in Seq(DOMAIN Looks) /\ IsInjective(p)
  /\ \A h \in Histories : h \in Seq([kind : {"click", "wait", "navigate", "done"}, index : Nat])
  /\ MaxReplayChanges \in Nat

VARIABLES
  rpPage,      \* the page: its elements in order, each with its class changed or not
  rpCache,     \* the capture by whose indices the session acts
  rpDom,       \* the capture the next action is matched against
  rpMode,      \* which of the three is running
  rpStage,     \* "idle", "item", "execute", "after", "stopped"
  rpLeft,      \* the actions still to do, each with the element it was for
  rpDone,      \* actions carried out
  rpActed,     \* the last action on an element: wanted, done, found with what
  rpStop,      \* why it stopped
  rpChanges

rpVars == <<rpPage, rpCache, rpDom, rpMode, rpStage, rpLeft, rpDone, rpActed, rpStop, rpChanges>>

\* An element of a capture; its class is part of its exact look only.
Shown(e) == [el |-> e, toggled |-> FALSE]
HasKey(e) == Looks[e].id # "" \/ Looks[e].name # ""

\* synthetic_x_path: by the first identifying attribute, else by the index.
XPath(x, i) ==
  IF Looks[x.el].id # "" THEN <<Looks[x.el].tag, "id", Looks[x.el].id>>
  ELSE IF Looks[x.el].name # "" THEN <<Looks[x.el].tag, "name", Looks[x.el].name>>
  ELSE <<Looks[x.el].tag, "browser-use-index", ToString(i)>>
StableHash(x, i) == <<Looks[x.el], XPath(x, i)>>
ElementHash(x, i) == <<StableHash(x, i), x.toggled>>

\* The signals an element is searched by, from the strongest.
Same(level, x, i, y, j) ==
  CASE level = "exact" -> ElementHash(x, i) = ElementHash(y, j)
    [] level = "stable" -> StableHash(x, i) = StableHash(y, j)
    [] level = "xpath" -> XPath(x, i) = XPath(y, j)
    [] level = "ax_name" -> /\ Looks[x.el].ax # ""
                            /\ Looks[x.el].tag = Looks[y.el].tag /\ Looks[x.el].ax = Looks[y.el].ax
    [] level = "name" -> /\ Looks[x.el].name # ""
                         /\ Looks[x.el].tag = Looks[y.el].tag /\ Looks[x.el].name = Looks[y.el].name
    [] level = "id" -> /\ Looks[x.el].id # ""
                       /\ Looks[x.el].tag = Looks[y.el].tag /\ Looks[x.el].id = Looks[y.el].id
Levels == <<"exact", "stable", "xpath", "ax_name", "name", "id">>
MatchingIndices(level, x, i, dom) == {j \in DOMAIN dom : Same(level, x, i, dom[j], j)}

\* A slip: the first of several candidates will do.
UniqueMatchFault(indices) == {CHOOSE j \in indices : \A k \in indices : j <= k}
\* One candidate is the match; several are no match, and weaker signals are not tried.
UniqueMatch(indices) == IF Cardinality(indices) = 1 THEN indices ELSE {}

\* The index an element is found at, as a set: empty when it is not.
Rematched(x, i, dom) ==
  LET hits == {n \in DOMAIN Levels : MatchingIndices(Levels[n], x, i, dom) # {}}
  IN  IF hits = {} THEN {}
      ELSE UniqueMatch(MatchingIndices(Levels[CHOOSE n \in hits : \A m \in hits : n <= m], x, i, dom))

\* historical_replay_actions: the element of an action, when its index was known.
Historical(history, dom) ==
  [n \in DOMAIN history |->
     [kind |-> history[n].kind, index |-> history[n].index, from |-> history[n].index,
      wanted |-> IF history[n].kind = "click" /\ history[n].index \in DOMAIN dom
                 THEN {dom[history[n].index]} ELSE {}]]
\* rematch_action_for_replay: the action with the index found; other actions stay.
Remapped(item, dom) ==
  IF item.wanted = {} THEN {item}
  ELSE {[item EXCEPT !.index = j] : j \in UNION {Rematched(x, item.from, dom) : x \in item.wanted}}

Terminates(item) == item.kind \in {"navigate", "done"}
NothingReplayed == [wanted |-> {}, did |-> {}, dom |-> <<>>, moved |-> FALSE]

RpInit ==
  /\ \E o \in Originals : rpPage = [n \in DOMAIN o |-> Shown(o[n])]
  /\ rpLeft \in {Historical(h, rpPage) : h \in Histories}
  /\ rpCache = <<>> /\ rpDom = <<>> /\ rpMode = "none" /\ rpStage = "idle"
  /\ rpDone = 0 /\ rpActed = NothingReplayed /\ rpStop = "none" /\ rpChanges = 0

OnPage(e) == \E n \in DOMAIN rpPage : rpPage[n].el = e

\* The page changes by itself: an element comes, goes, or changes its class.
RpPageChanges ==
  /\ rpStage # "stopped" /\ rpChanges < MaxReplayChanges
  /\ \/ \E e \in DOMAIN Looks, n \in 1..(Len(rpPage) + 1) :
          ~OnPage(e) /\ rpPage' = InsertAt(rpPage, n, Shown(e))
     \/ \E n \in DOMAIN rpPage : rpPage' = RemoveAt(rpPage, n)
     \/ \E n \in DOMAIN rpPage : rpPage' = [rpPage EXCEPT ![n].toggled = ~@]
  /\ rpChanges' = rpChanges + 1
  /\ UNCHANGED <<rpCache, rpDom, rpMode, rpStage, rpLeft, rpDone, rpActed, rpStop>>

Captures == rpCache' = rpPage
Stops(reason) == rpStage' = "stopped" /\ rpStop' = reason

-----------------------------------------------------------------------------
ReplayStarts(mode) ==
  /\ rpStage = "idle"
  /\ rpMode' = mode
  /\ Captures /\ rpDom' = rpPage
  /\ UNCHANGED <<rpPage, rpDone, rpActed, rpChanges>>
RpReplaysHistory == ReplayStarts("replay") /\ rpStage' = "item" /\ UNCHANGED <<rpLeft, rpStop>>

\* build_history_replay_plan: all actions are matched with the one capture.
RpPlans ==
  /\ ReplayStarts("plan")
  /\ IF \E n \in DOMAIN rpLeft : Remapped(rpLeft[n], rpPage) = {}
     THEN Stops("plan error") /\ UNCHANGED rpLeft
     ELSE /\ rpLeft' = [n \in DOMAIN rpLeft |-> CHOOSE item \in Remapped(rpLeft[n], rpPage) : TRUE]
          /\ rpStage' = "item" /\ UNCHANGED rpStop

\* execute_sequence: the model's actions are for the page it was shown.
RpRunsSequence ==
  /\ ReplayStarts("sequence")
  /\ rpLeft' = Historical([n \in DOMAIN rpLeft |-> [kind |-> rpLeft[n].kind, index |-> rpLeft[n].index]], rpPage)
  /\ rpStage' = "item" /\ UNCHANGED rpStop

\* The list is done, or a done follows other actions.
RpEnds ==
  /\ rpStage = "item"
  /\ \/ rpLeft = <<>> /\ Stops("none")
     \/ rpLeft # <<>> /\ Head(rpLeft).kind = "done" /\ rpDone > 0 /\ Stops("done after prior action")
  /\ UNCHANGED <<rpPage, rpCache, rpDom, rpMode, rpLeft, rpDone, rpActed, rpChanges>>

NextItem == rpStage = "item" /\ rpLeft # <<>> /\ (Head(rpLeft).kind = "done" => rpDone = 0)

\* The guard reads the state, which renews the indices, before the action.
RpGuards ==
  /\ NextItem /\ rpMode # "replay"
  /\ IF Terminates(Head(rpLeft)) THEN UNCHANGED rpCache ELSE Captures
  /\ rpStage' = "execute"
  /\ UNCHANGED <<rpPage, rpDom, rpMode, rpLeft, rpDone, rpActed, rpStop, rpChanges>>

RpRematches ==
  /\ NextItem /\ rpMode = "replay"
  /\ \/ /\ Remapped(Head(rpLeft), rpDom) = {} /\ Stops("plan error") /\ UNCHANGED rpLeft
     \/ \E item \in Remapped(Head(rpLeft), rpDom) :
          rpLeft' = <<item>> \o Tail(rpLeft) /\ rpStage' = "execute" /\ UNCHANGED rpStop
  /\ UNCHANGED <<rpPage, rpCache, rpDom, rpMode, rpDone, rpActed, rpChanges>>

\* The session acts on the element that has the index in its capture.
RpExecutes ==
  /\ rpStage = "execute" /\ rpStage' = "after"
  /\ \/ /\ Head(rpLeft).kind = "click"
        /\ Head(rpLeft).index \in DOMAIN rpCache /\ OnPage(rpCache[Head(rpLeft).index].el)
        /\ rpActed' = [wanted |-> Head(rpLeft).wanted, did |-> {rpCache[Head(rpLeft).index].el},
                       dom |-> rpDom, moved |-> rpCache # rpDom]
     \/ Head(rpLeft).kind # "click" /\ UNCHANGED rpActed
  /\ rpDone' = rpDone + 1
  /\ UNCHANGED <<rpPage, rpCache, rpDom, rpMode, rpLeft, rpStop, rpChanges>>

\* replay_stop_reason, and the state read after an action that does not
\* terminate: its URL may show that the page has been left.
RpContinues ==
  /\ rpStage = "after"
  /\ IF Terminates(Head(rpLeft))
     THEN /\ Stops(IF Head(rpLeft).kind = "done" THEN "done" ELSE "terminating action")
          /\ UNCHANGED <<rpCache, rpDom, rpLeft>>
     ELSE /\ Captures
          /\ rpDom' = IF rpMode = "replay" THEN rpPage ELSE rpDom
          /\ rpLeft' = Tail(rpLeft)
          /\ \/ rpStage' = "item" /\ UNCHANGED rpStop
             \/ rpMode # "replay" /\ Stops("page changed")
  /\ UNCHANGED <<rpPage, rpMode, rpDone, rpActed, rpChanges>>

\* A capture or an action fails.
RpFails ==
  /\ rpStage \in {"item", "execute", "after"} /\ Stops("error")
  /\ UNCHANGED <<rpPage, rpCache, rpDom, rpMode, rpLeft, rpDone, rpActed, rpChanges>>

RpNext ==
  \/ RpPageChanges \/ RpReplaysHistory \/ RpPlans \/ RpRunsSequence \/ RpEnds
  \/ RpGuards \/ RpRematches \/ RpExecutes \/ RpContinues \/ RpFails

-----------------------------------------------------------------------------
RpTypeOK ==
  /\ \A n \in DOMAIN rpPage : rpPage[n].el \in DOMAIN Looks
  /\ rpStage \in {"idle", "item", "execute", "after", "stopped"}
  /\ rpMode \in {"none", "replay", "plan", "sequence"} /\ (rpStage = "idle" => rpDone = 0)

WantedIn(dom) == \E x \in rpActed.wanted, n \in DOMAIN dom : dom[n].el = x.el
\* The wanted element has changed its class and another now looks as it did.
Confused ==
  \E x \in rpActed.wanted, n, m \in DOMAIN rpActed.dom :
    /\ n # m /\ rpActed.dom[n].el = x.el /\ rpActed.dom[n].toggled # x.toggled
    /\ Looks[rpActed.dom[m].el] = Looks[x.el]
Wanted == {x.el : x \in rpActed.wanted}

\* A replayed action, and one the model chose, acts on the element it was
\* recorded or chosen for, as long as that element is still there, can be told
\* by an attribute, and the capture has not changed since the match.
ActsOnOriginalElement ==
  \/ rpActed.did = Wanted
  \/ rpActed.moved \/ ~WantedIn(rpActed.dom) \/ Confused
  \/ rpMode # "sequence" /\ \E x \in rpActed.wanted : ~HasKey(x.el)

\* interacted.rs says the hash gives replay "a stable identity when the page
\* inserts or removes unrelated elements": an element that is still there is
\* the one replay acts on.
IdentityIsStable ==
  /\ rpMode = "replay" /\ WantedIn(rpActed.dom)
  /\ \A n \in DOMAIN rpActed.dom : ~rpActed.dom[n].toggled
  => rpActed.did = Wanted
=============================================================================
