---------------------------- MODULE ElementIndex ----------------------------
(***************************************************************************)
(* Elements by number.  A capture lists the elements of the page and of    *)
(* its cross-origin frames, each a target of its own, merges and numbers   *)
(* them and keeps the numbering; an indexed action looks its element up in *)
(* it and acts by node id, or, when the node is unknown or gone, on the    *)
(* element that has that place in a fresh list of its target.  Documents   *)
(* change between any two commands.                                        *)
(***************************************************************************)
EXTENDS Naturals, Sequences, SequencesExt, FiniteSets, FiniteSetsExt, Orders

CONSTANTS
  Elements,        \* the elements documents are made of
  Page, Frame,     \* the current page's target and its cross-origin frame's
  Pages,           \* the documents the targets may start with
  ListenerOnly,    \* interactive by a listener only the capture can see
  AxSuppressed,    \* listed, but disabled or hidden says the AX tree
  DeepFrame,       \* in same-origin frames the capture is told not to enter
  CaptureLimit,    \* elements a capture lists of a target: 400
  MaxPageChanges,  \* bound: elements inserted or removed
  MaxIndexed       \* bound: captures and indexed actions

Targets == {Page, Frame}
None == "none"
ASSUME ElementIndexAssumption ==
  /\ Page # Frame /\ CaptureLimit \in Nat \ {0} /\ {MaxPageChanges, MaxIndexed} \subseteq Nat
  /\ Pages \subseteq [Targets -> Seq(Elements)] /\ \A p \in Pages, t \in Targets : IsInjective(p[t])

VARIABLES
  eiPage,      \* the elements of each target, in document order
  eiCache,     \* last_dom_state: index -> element, target, node id known
  eiStage,     \* what the session waits for
  eiLists,     \* the capture at work: each target's entries so far
  eiAction,    \* the indexed action at work: its index and what was looked up
  eiActed,     \* what the last action acted on, and what it was shown
  eiListing, eiListed,  \* the documents as listed for the capture, the cache
  eiChanges, eiSteps

eiVars == <<eiPage, eiCache, eiStage, eiLists, eiAction, eiActed, eiListing, eiListed,
            eiChanges, eiSteps>>

\* The elements the capture's script lists of a document, and those the
\* fallback's does, which has no listeners to go by and no limits.
Listing(doc, out) == InOrder([i \in {i \in DOMAIN doc : doc[i] \notin out} |-> doc[i]])
CaptureList(doc) ==
  LET listed == Listing(doc, DeepFrame)
  IN  SubSeq(listed, 1, Min({CaptureLimit, Len(listed)}))
FallbackList(doc) == Listing(doc, ListenerOnly)

Entry(e, t, known) == [el |-> e, target |-> t, node |-> known]
NoLists == [t \in Targets |-> <<>>]

\* The AX tree and the node ids of what is still on the page; the suppressed
\* elements drop out, the others keep their index.
Enriched(t, list, known) ==
  LET keep(i) == ~(known /\ list[i] \in AxSuppressed)
      kept == {i \in DOMAIN list : keep(i)}
  IN  [i \in kept |-> Entry(list[i], t, known /\ list[i] \in ToSet(eiPage[t]))]

\* merge_dom_states: with a frame's elements to add, all are numbered anew.
Merged(lists, children) ==
  IF children THEN InOrder(lists[Page]) \o InOrder(lists[Frame]) ELSE lists[Page]

\* A slip: the number of the merged list taken for the place in the target's.
LocalIndexFault(map, i) == i

\* The place of an index among the entries of its target.
LocalIndex(map, i) ==
  Place({j \in DOMAIN map : map[j].target = map[i].target}, i)

NoAction == [kind |-> None, index |-> 0, entry |-> {}, local |-> 0]
NothingActed == [index |-> 0, did |-> None, shown |-> {}, misplaced |-> TRUE]

EiInit ==
  /\ eiPage \in Pages
  /\ eiCache = <<>> /\ eiStage = "idle" /\ eiLists = NoLists
  /\ eiAction = NoAction /\ eiActed = NothingActed /\ eiListed = NoLists /\ eiListing = NoLists
  /\ eiChanges = 0 /\ eiSteps = 0

-----------------------------------------------------------------------------
\* The page changes by itself (external).
EiPageChanges ==
  /\ eiChanges < MaxPageChanges
  /\ \E t \in Targets :
       \/ \E e \in Elements \ (ToSet(eiPage[Page]) \cup ToSet(eiPage[Frame])), i \in 1..(Len(eiPage[t]) + 1) :
            eiPage' = [eiPage EXCEPT ![t] = InsertAt(@, i, e)]
       \/ \E i \in DOMAIN eiPage[t] : eiPage' = [eiPage EXCEPT ![t] = RemoveAt(@, i)]
  /\ eiChanges' = eiChanges + 1
  /\ UNCHANGED <<eiCache, eiStage, eiLists, eiAction, eiActed, eiListing, eiListed, eiSteps>>

\* dom_state: the script that lists a target's elements.
Lists(t, next) ==
  /\ eiLists' = [eiLists EXCEPT ![t] = CaptureList(eiPage[t])]
  /\ eiListing' = [eiListing EXCEPT ![t] = eiPage[t]]
  /\ eiStage' = next
  /\ UNCHANGED <<eiPage, eiCache, eiAction, eiActed, eiListed, eiChanges>>
EiListsPage ==
  /\ eiStage = "idle" /\ eiSteps < MaxIndexed
  /\ eiSteps' = eiSteps + 1
  /\ Lists(Page, "enrich page")

\* accessibility_enrichment; when a command of it fails no node id is known.
Enriches(t, next) ==
  /\ \E known \in BOOLEAN : eiLists' = [eiLists EXCEPT ![t] = Enriched(t, @, known)]
  /\ eiStage' = next
  /\ UNCHANGED <<eiPage, eiCache, eiAction, eiActed, eiListing, eiListed, eiChanges, eiSteps>>
EiEnrichesPage == eiStage = "enrich page" /\ Enriches(Page, "children")
EiEnrichesFrame == eiStage = "enrich frame" /\ Enriches(Frame, "merge frame")
EiListsFrame == eiStage = "children" /\ Lists(Frame, "enrich frame") /\ UNCHANGED eiSteps

\* set_cached_dom_state; a frame that cannot be attached or listed is left out.
Merges(children) ==
  /\ eiCache' = Merged(eiLists, children)
  /\ eiListed' = eiListing
  /\ eiLists' = NoLists /\ eiListing' = NoLists /\ eiStage' = "idle"
  /\ UNCHANGED <<eiPage, eiAction, eiActed, eiChanges, eiSteps>>
EiMerges ==
  \/ eiStage = "merge frame" /\ Merges(TRUE)
  \/ eiStage = "children" /\ Merges(FALSE)

-----------------------------------------------------------------------------
\* An indexed action looks the element up before anything else.  All but
\* upload_file are one call on the element.
Starts(kind, i) ==
  /\ eiStage = "idle" /\ eiSteps < MaxIndexed
  /\ eiSteps' = eiSteps + 1
  /\ eiAction' = [kind |-> kind, index |-> i,
                  entry |-> IF i \in DOMAIN eiCache THEN {eiCache[i]} ELSE {},
                  local |-> IF i \in DOMAIN eiCache THEN LocalIndex(eiCache, i) ELSE i]
  /\ eiStage' = "call"
  /\ UNCHANGED <<eiPage, eiCache, eiLists, eiActed, eiListing, eiListed, eiChanges>>
Indices == 1..(2 * CaptureLimit)
EiClick == \E i \in Indices : Starts("call", i)
EiInputText == \E i \in Indices : Starts("call", i)
EiScroll == \E i \in Indices : Starts("call", i)
EiDropdownOptions == \E i \in Indices : Starts("call", i)
EiSelectDropdownOption == \E i \in Indices : Starts("call", i)
EiUploadFile == \E i \in Indices : Starts("upload_file", i)

\* The target's document has changed since it was listed, or up to the
\* element there is one that only one of the two lists counts.
Misplaced(x) ==
  \/ eiListed[x.target] # eiPage[x.target]
  \/ \E i, j \in DOMAIN eiPage[x.target] :
       /\ i <= j /\ eiPage[x.target][j] = x.el
       /\ eiPage[x.target][i] \in ListenerOnly \cup AxSuppressed \cup DeepFrame
Done(e, next) ==
  /\ eiActed' = [index |-> eiAction.index, did |-> e,
                 shown |-> {x.el : x \in eiAction.entry},
                 misplaced |-> \A x \in eiAction.entry : Misplaced(x)]
  /\ eiStage' = next
  /\ eiAction' = IF next = "idle" THEN NoAction ELSE eiAction
After == IF eiAction.kind = "upload_file" THEN "marked" ELSE "idle"

\* call_element_function: by node id, while the element is in its document.
CallsElement(next) ==
  \E x \in eiAction.entry :
    /\ x.node /\ x.el \in ToSet(eiPage[x.target])
    /\ Done(x.el, next)
    /\ UNCHANGED <<eiPage, eiCache, eiLists, eiListing, eiListed, eiChanges, eiSteps>>
EiCallsElement == eiStage = "call" /\ CallsElement(After)

\* should_fallback_to_index_traversal: no entry, no node id, or a node that
\* is gone; the rest of the action goes by the place in the list.
FallsBack(next) ==
  /\ \A x \in eiAction.entry : ~(x.node /\ x.el \in ToSet(eiPage[x.target]))
  /\ eiStage' = next
  /\ UNCHANGED <<eiPage, eiCache, eiLists, eiAction, eiActed, eiListing, eiListed, eiChanges, eiSteps>>
EiFallsBack == eiStage = "call" /\ FallsBack("fallback")

FallbackTarget == IF eiAction.entry = {} THEN Page ELSE (CHOOSE x \in eiAction.entry : TRUE).target
CallsByIndex(next) ==
  /\ LET list == FallbackList(eiPage[FallbackTarget])
     IN  eiAction.local \in DOMAIN list /\ Done(list[eiAction.local], next)
  /\ UNCHANGED <<eiPage, eiCache, eiLists, eiListing, eiListed, eiChanges, eiSteps>>
EiCallsByIndex == eiStage = "fallback" /\ CallsByIndex(After)

\* upload_file: the marked element gets the file; then its events are sent
\* to the element, looked up once more.
EiSetsFile ==
  /\ eiStage = "marked" /\ eiActed.did \in ToSet(eiPage[FallbackTarget])
  /\ eiStage' = "finish"
  /\ UNCHANGED <<eiPage, eiCache, eiLists, eiAction, eiActed, eiListing, eiListed, eiChanges, eiSteps>>
EiFinishesUpload == 
  \/ eiStage = "finish" /\ (CallsElement("idle") \/ FallsBack("finish by index"))
  \/ eiStage = "finish by index" /\ CallsByIndex("idle")

\* A command fails and the call returns the error; a capture keeps the cache.
EiFails ==
  /\ eiStage # "idle" /\ eiStage' = "idle"
  /\ eiLists' = NoLists /\ eiListing' = NoLists /\ eiAction' = NoAction
  /\ UNCHANGED <<eiPage, eiCache, eiActed, eiListed, eiChanges, eiSteps>>

EiNext ==
  \/ EiPageChanges \/ EiListsPage \/ EiEnrichesPage \/ EiListsFrame \/ EiEnrichesFrame \/ EiMerges
  \/ EiClick \/ EiInputText \/ EiScroll \/ EiDropdownOptions \/ EiSelectDropdownOption
  \/ EiUploadFile \/ EiCallsElement \/ EiFallsBack \/ EiCallsByIndex
  \/ EiSetsFile \/ EiFinishesUpload \/ EiFails

-----------------------------------------------------------------------------
EiTypeOK ==
  /\ \A t \in Targets : ToSet(eiPage[t]) \subseteq Elements
  /\ \A i \in DOMAIN eiCache : i \in Indices /\ eiCache[i].el \in Elements
  /\ eiChanges \in 0..MaxPageChanges /\ eiSteps \in 0..MaxIndexed

\* An indexed action, by node id or by place in a fresh list, acts on the
\* element that had the index when the page was captured, in whichever target
\* that is, unless the target's document has changed since or one of the two
\* lists counts an element up to it that the other does not.
ActsOnShownElement ==
  eiActed.misplaced \/ eiActed.shown = {eiActed.did}
=============================================================================
