------------------------ MODULE BrowserSessionProofs ------------------------
(***************************************************************************)
(* BrowserInv of BrowserSession is inductive: with it, for any targets,    *)
(* addresses, policy, buffer capacity and number of calls, the current     *)
(* page is attached, the cached elements are its own, a forbidden tab is   *)
(* watched, a pending error is reported, and a call that ends well has     *)
(* enforced the policy.                                                    *)
(***************************************************************************)
EXTENDS BrowserSession, SequenceTheorems, TLAPS

-----------------------------------------------------------------------------
(* The inductive invariant *)

Ops == {None, "navigate", "go_back", "switch_tab", "close_tab", "act", "state"}
\* Stages that work on the current page, reached through "page" when it is stale.
PageStages == {"command", "effect", "capture", "tabs", "enforce", "afterClose"}
\* Stages at which a page is attached to, made the current one and its elements
\* dropped: on the way to one of those, or at the end of the call.
TurnStages == {"page", "viewport", "clear"}
\* Stages of a call that has attached to nothing yet and knows nothing.
PlainStages == {"idle", "create", "attach", "resolve", "closeTarget", "element",
                "take", "list", "settle"}
Stages == PageStages \cup TurnStages \cup PlainStages \cup {"store"}
Listings == [Targets -> Blocked \cup {None}]
Calls == [op : Ops, stage : Stages, then : PageStages \cup {None}, target : Targets \cup {None},
          cur : Pages, urls : {<<>>} \cup Listings, todo : SUBSET Targets,
          handled : SUBSET Blocked, blocked : Blocked \cup {None}, rounds : 0..2]
Outcomes == [kind : {None, "ok", "failed", "blocked"}, url : Urls \cup {None}]
CdpEvents == [kind : {"target", "frame", "other"}, target : Targets,
              url : Urls, gen : 0..MaxReconnects]
Acts == [kind : {"reset", "close"}, target : Targets, gen : 0..MaxReconnects,
         url : Urls, stage : {"send", "done", "failed"}]

\* The stage a call is in, or comes to when the current page is attached again.
Heading == IF call.stage \in TurnStages /\ call.then # None THEN call.then ELSE call.stage

CallTypeOK ==
  /\ call \in Calls /\ (call.stage = "page" => call.then \in PageStages)
  /\ call.stage \notin TurnStages => call.then = None
  /\ outcome \in Outcomes

\* What a call knows at each of its stages: the page it works on, what it has
\* listed, and which of the listed tabs it has dealt with.
WorksOnPage == call.stage \in PageStages \cup {"clear", "store"} => call.cur = page
OnlyStateCaptures ==
  Heading \in {"command", "create", "attach", "resolve", "closeTarget", "effect", "element",
               "afterClose", "viewport", "clear"} => call.op # "state"
EnforcesListed ==
  Heading = "enforce" =>
    /\ call.urls \in Listings
    /\ \A t \in call.todo : call.urls[t] \in Blocked
    /\ call.blocked = None => \A t \in Targets : call.urls[t] \in Blocked => t \in call.todo
CapturesEnforced ==
  Heading \in {"capture", "store", "tabs"} =>
    \/ IsUnrestricted(Policy)
    \/ call.urls \in Listings /\ \A t \in Targets : call.urls[t] \notin Blocked
CallInv == CallTypeOK /\ WorksOnPage /\ OnlyStateCaptures /\ EnforcesListed /\ CapturesEnforced

\* Of the page, and of the one a call is about to make the current one.
PageTypeOK ==
  /\ tab \in [Targets -> TabValues] /\ gen \in 0..MaxReconnects /\ attached \subseteq Targets
  /\ page \in Pages
  /\ cache \in {NoDom} \cup ListedElements /\ listing \in {NoDom} \cup ListedElements
NextPageIsAttached ==
  call.stage = "viewport" =>
    call.cur.gen <= gen /\ (call.cur.gen = gen => call.cur.target \in attached)
PageInv == PageTypeOK /\ page.gen <= gen /\ PageIsAttached /\ NextPageIsAttached

\* Of the elements cached and of those a call is listing: the page they are of
\* and the address they were listed at.
Shown(e) == tab[e.target] \in {e.url, Closed} \/ "moved" \in e.since
CacheIsOfPage ==
  cache # NoDom =>
    \/ AttachedPage(cache.target, cache.gen) = page
    \/ "switched" \in cache.since \/ call.stage = "clear"
CacheIsShown ==
  cache # NoDom => Shown(cache) \/ (act.stage = "done" /\ act.target = cache.target)
ListingIsOfPage ==
  listing # NoDom =>
    /\ call.stage = "store" /\ AttachedPage(listing.target, listing.gen) = page
    /\ Shown(listing)
CacheInv == CacheIsOfPage /\ CacheIsShown /\ ListingIsOfPage

\* Of what the watchdog learns: at every forbidden tab the event, the action or
\* the failure that is about the very address it shows.
WatchTypeOK ==
  /\ tab \in [Targets -> TabValues] /\ gen \in 0..MaxReconnects /\ page \in Pages
  /\ {discovering, lagged, watching} \subseteq BOOLEAN
  /\ events \in Seq(CdpEvents) /\ Len(events) <= EventCapacity
  /\ act \in {NoAction} \cup Acts
  /\ gaveUp \subseteq Targets \X Urls
TargetEventsAreBlocked ==
  \A i \in 1..Len(events) : events[i].kind = "target" => events[i].url \in Blocked
Told(t) == \E i \in 1..Len(events) :
             events[i].kind = "target" /\ events[i].target = t /\ events[i].url = tab[t]
Handled(t) == act.target = t /\ act.url = tab[t] /\ act.stage \in {"send", "failed"}
GivenUp(t) == <<t, tab[t]>> \in gaveUp
ForbiddenIsNoticed ==
  watching /\ ~lagged /\ discovering =>
    \A t \in Targets : tab[t] \in Blocked => Told(t) \/ Handled(t) \/ GivenUp(t)
WatchInv == WatchTypeOK /\ TargetEventsAreBlocked /\ ForbiddenIsNoticed

RestTypeOK == pending \in Urls \cup {None} /\ moves \in 0..MaxMoves

BrowserInv == CallInv /\ PageInv /\ CacheInv /\ WatchInv /\ RestTypeOK

-----------------------------------------------------------------------------
(* The event buffer *)

\* What a full buffer drops is its oldest part, and it knows that it did.
LEMMA PublishedBuffer ==
  ASSUME events \in Seq(CdpEvents), Len(events) <= EventCapacity, lagged \in BOOLEAN,
         NEW new \in Seq(CdpEvents), Publish(new)
  PROVE  /\ events' \in Seq(CdpEvents) /\ Len(events') <= EventCapacity
         /\ lagged' \in BOOLEAN /\ (lagged => lagged')
         /\ \A i \in 1..Len(events') :
               \/ \E j \in 1..Len(events) : events'[i] = events[j]
               \/ \E j \in 1..Len(new) : events'[i] = new[j]
         /\ watching /\ ~lagged' =>
               /\ \A j \in 1..Len(events) : \E i \in 1..Len(events') : events'[i] = events[j]
               /\ \A j \in 1..Len(new) : \E i \in 1..Len(events') : events'[i] = new[j]
<1> USE TargetsAssumption
<1> DEFINE all == events \o new
           n == Len(all)
           from == IF n > EventCapacity THEN n - EventCapacity + 1 ELSE 1
<1>1. CASE ~watching
  <2>1. events' = events /\ lagged' = lagged
    BY <1>1 DEF Publish
  <2>2. \A i \in 1..Len(events) : \E j \in 1..Len(events) : events[i] = events[j]
    OBVIOUS
  <2>3. QED
    BY <1>1, <2>1, <2>2
<1>2. CASE watching
  <2>1. /\ all \in Seq(CdpEvents) /\ n = Len(events) + Len(new) /\ n = Len(all)
        /\ \A i \in 1..n : all[i] = IF i <= Len(events) THEN events[i] ELSE new[i - Len(events)]
    BY ConcatProperties
  <2>2. Len(events) \in Nat /\ Len(new) \in Nat /\ n \in Nat
    BY <2>1, LenProperties
  <2>3. events' = SubSeq(all, from, n) /\ lagged' = (lagged \/ n > EventCapacity)
    BY <1>2 DEF Publish
  <2>4. /\ from \in Int /\ from >= 1 /\ from <= n + 1 /\ n - from + 1 <= EventCapacity
        /\ ~(n > EventCapacity) => from = 1
    BY <2>2
  <2> HIDE DEF all, n, from
  <2>5. \A i \in from..n : all[i] \in CdpEvents
    <3>1. \A i \in from..n : i \in 1..n
      BY <2>2, <2>4
    <3>2. QED
      BY <2>1, <3>1, ElementOfSeq
  <2>6. /\ SubSeq(all, from, n) \in Seq(CdpEvents)
        /\ Len(SubSeq(all, from, n)) = IF from <= n THEN n - from + 1 ELSE 0
        /\ \A i \in 1..n - from + 1 : SubSeq(all, from, n)[i] = all[from + i - 1]
    BY <2>2, <2>4, <2>5, SubSeqProperties, Z3T(30)
  <2>7. /\ Len(events') = n - from + 1 /\ events' \in Seq(CdpEvents)
        /\ \A i \in 1..Len(events') : events'[i] = all[from + i - 1]
    BY <2>2, <2>3, <2>4, <2>6
  <2>8. Len(events') <= EventCapacity
    BY <2>4, <2>7
  <2>9. ASSUME NEW i \in 1..Len(events')
        PROVE  \/ \E j \in 1..Len(events) : events'[i] = events[j]
               \/ \E j \in 1..Len(new) : events'[i] = new[j]
    <3> DEFINE k == from + i - 1
    <3>1. k \in 1..n /\ events'[i] = all[k]
      BY <2>2, <2>4, <2>7
    <3>2. CASE k <= Len(events)
      BY <2>1, <2>2, <3>1, <3>2
    <3>3. CASE ~(k <= Len(events))
      <4>1. k - Len(events) \in 1..Len(new) /\ events'[i] = new[k - Len(events)]
        BY <2>1, <2>2, <3>1, <3>3
      <4>2. QED
        BY <4>1
    <3>4. QED
      BY <3>2, <3>3
  <2>10. ASSUME ~lagged'
         PROVE  /\ \A j \in 1..Len(events) : \E i \in 1..Len(events') : events'[i] = events[j]
                /\ \A j \in 1..Len(new) : \E i \in 1..Len(events') : events'[i] = new[j]
    <3>1. ~(n > EventCapacity)
      BY <2>3, <2>10, Zenon
    <3>2. from = 1 /\ Len(events') = n
      BY <2>2, <2>4, <2>7, <3>1
    <3>3. \A i \in 1..n : events'[i] = all[i]
      <4> SUFFICES ASSUME NEW i \in 1..n PROVE events'[i] = all[i]
        OBVIOUS
      <4>1. from + i - 1 = i
        BY <2>2, <3>2
      <4>2. QED
        BY <2>7, <3>2, <4>1
    <3>4. \A j \in 1..Len(events) : j \in 1..n /\ events'[j] = events[j]
      BY <2>1, <2>2, <3>3
    <3>5. \A j \in 1..Len(new) : Len(events) + j \in 1..n /\ events'[Len(events) + j] = new[j]
      <4> SUFFICES ASSUME NEW j \in 1..Len(new)
                   PROVE  Len(events) + j \in 1..n /\ events'[Len(events) + j] = new[j]
        OBVIOUS
      <4>1. /\ Len(events) + j \in 1..n /\ ~(Len(events) + j <= Len(events))
            /\ (Len(events) + j) - Len(events) = j
        BY <2>1, <2>2
      <4>2. QED
        BY <2>1, <3>3, <4>1
    <3>6. QED
      BY <3>2, <3>4, <3>5
  <2>11. lagged' \in BOOLEAN /\ (lagged => lagged')
    BY <2>3
  <2>12. QED
    BY <2>7, <2>8, <2>9, <2>10, <2>11
<1>3. QED
  BY <1>1, <1>2

\* A navigation is told truly, and to the browser session when discovery is on.
LEMMA NavigationIsTold ==
  ASSUME NEW t \in Targets, NEW u \in Urls, NEW sessions, gen \in 0..MaxReconnects
  PROVE  /\ NavigationEvents(t, u, sessions) \in Seq(CdpEvents)
         /\ \A j \in 1..Len(NavigationEvents(t, u, sessions)) :
               NavigationEvents(t, u, sessions)[j].kind = "target" =>
                 NavigationEvents(t, u, sessions)[j].url \in Blocked
         /\ discovering /\ u \in Blocked =>
               \E j \in 1..Len(NavigationEvents(t, u, sessions)) :
                 /\ NavigationEvents(t, u, sessions)[j].kind = "target"
                 /\ NavigationEvents(t, u, sessions)[j].target = t
                 /\ NavigationEvents(t, u, sessions)[j].url = u
<1> USE TargetsAssumption
<1> DEFINE a == IF discovering THEN <<ChromeEvent("target", t, u, gen)>> ELSE <<>>
           b == IF t \in sessions THEN <<ChromeEvent("frame", t, u, gen)>> ELSE <<>>
           e == ChromeEvent("target", t, u, gen)
           f == ChromeEvent("frame", t, u, gen)
<1>1. /\ e \in CdpEvents /\ (e.kind = "target" => e.url \in Blocked)
      /\ u \in Blocked => e.kind = "target" /\ e.target = t /\ e.url = u
      /\ f \in CdpEvents /\ f.kind # "target"
  BY DEF ChromeEvent, CdpEvent, OtherCdpEvent, CdpEvents, Blocked
<1>2. /\ a \in Seq(CdpEvents) /\ \A j \in 1..Len(a) : a[j] = e
      /\ discovering => Len(a) = 1
  BY <1>1
<1>3. b \in Seq(CdpEvents) /\ \A j \in 1..Len(b) : b[j] = f
  BY <1>1
<1>4. /\ a \o b \in Seq(CdpEvents) /\ Len(a \o b) = Len(a) + Len(b)
      /\ \A i \in 1..Len(a) + Len(b) : (a \o b)[i] = IF i <= Len(a) THEN a[i] ELSE b[i - Len(a)]
  BY <1>2, <1>3, ConcatProperties
<1>5. Len(a) \in Nat /\ Len(b) \in Nat
  BY <1>2, <1>3, LenProperties
<1>6. \A i \in 1..Len(a \o b) : (a \o b)[i] = e \/ (a \o b)[i] = f
  <2> SUFFICES ASSUME NEW i \in 1..Len(a \o b) PROVE (a \o b)[i] = e \/ (a \o b)[i] = f
    OBVIOUS
  <2>1. CASE i <= Len(a)
    BY <1>2, <1>4, <1>5, <2>1
  <2>2. CASE ~(i <= Len(a))
    <3>1. i - Len(a) \in 1..Len(b) /\ (a \o b)[i] = b[i - Len(a)]
      BY <1>4, <1>5, <2>2
    <3>2. QED
      BY <1>3, <3>1
  <2>3. QED
    BY <2>1, <2>2
<1>7. discovering => 1 \in 1..Len(a \o b) /\ (a \o b)[1] = e
  BY <1>2, <1>4, <1>5
<1>8. NavigationEvents(t, u, sessions) = a \o b
  BY DEF NavigationEvents
<1> HIDE DEF a, b, e, f
<1>9. QED
  BY <1>1, <1>4, <1>6, <1>7, <1>8

-----------------------------------------------------------------------------
(* What the tabs do, and what the watchdog learns of it *)

\* A change of some tabs of which the buffer tells, or has overflowed.
BufferGrows ==
  /\ events' \in Seq(CdpEvents) /\ Len(events') <= EventCapacity
  /\ lagged' \in BOOLEAN /\ (lagged => lagged')
  /\ TargetEventsAreBlocked'
  /\ watching /\ ~lagged' =>
       \A j \in 1..Len(events) : \E i \in 1..Len(events') : events'[i] = events[j]
TabIsTold(t) == watching /\ ~lagged' /\ discovering /\ tab'[t] \in Blocked => Told(t)'
TabsTell ==
  /\ tab' \in [Targets -> TabValues] /\ BufferGrows
  /\ \A t \in Targets : tab'[t] = tab[t] \/ TabIsTold(t)

\* Publishing appends to the buffer, or drops its oldest event and says so.
LEMMA PublishGrows ==
  ASSUME WatchInv, NEW new \in Seq(CdpEvents), Publish(new),
         \A j \in 1..Len(new) : new[j].kind = "target" => new[j].url \in Blocked
  PROVE  BufferGrows
<1>1. events \in Seq(CdpEvents) /\ Len(events) <= EventCapacity /\ lagged \in BOOLEAN
  BY DEF WatchInv, WatchTypeOK
<1>2. TargetEventsAreBlocked'
  BY <1>1, PublishedBuffer, SMTT(30) DEF TargetEventsAreBlocked, WatchInv
<1>3. QED
  BY <1>1, <1>2, PublishedBuffer DEF BufferGrows

\* When nothing is published and no tab moves, what tells of each tab still
\* does.
LEMMA QuietTells ==
  ASSUME WatchInv, Quiet
  PROVE  TabsTell
<1>1. /\ events \in Seq(CdpEvents) /\ Len(events) <= EventCapacity /\ lagged \in BOOLEAN
      /\ tab \in [Targets -> TabValues] /\ TargetEventsAreBlocked
  BY DEF WatchInv, WatchTypeOK
<1>2. TargetEventsAreBlocked'
  BY <1>1 DEF Quiet, TargetEventsAreBlocked
<1>3. \A j \in 1..Len(events) : \E i \in 1..Len(events') : events'[i] = events[j]
  BY DEF Quiet
<1>4. QED
  BY <1>1, <1>2, <1>3 DEF Quiet, TabsTell, BufferGrows

\* A tab that closes needs nothing to tell of it.
LEMMA TabClosesTells ==
  ASSUME WatchInv, NEW t \in Targets, TabCloses(t)
  PROVE  TabsTell
<1>1. /\ events \in Seq(CdpEvents) /\ Len(events) <= EventCapacity /\ lagged \in BOOLEAN
      /\ tab \in [Targets -> TabValues] /\ TargetEventsAreBlocked
  BY DEF WatchInv, WatchTypeOK
<1>2. BufferGrows
  <2>1. TargetEventsAreBlocked'
    BY <1>1 DEF TabCloses, TargetEventsAreBlocked
  <2>2. \A j \in 1..Len(events) : \E i \in 1..Len(events') : events'[i] = events[j]
    BY DEF TabCloses
  <2>3. QED
    BY <1>1, <2>1, <2>2 DEF TabCloses, BufferGrows
<1>3. tab' \in [Targets -> TabValues] /\ \A s \in Targets : tab'[s] = IF s = t THEN Closed ELSE tab[s]
  BY <1>1 DEF TabCloses, TabValues
<1>4. Closed \notin Blocked
  BY TargetsAssumption DEF Blocked
<1>5. QED
  BY <1>2, <1>3, <1>4 DEF TabsTell, TabIsTold

\* A tab that moves has an event that tells of its new address.
LEMMA TabShowsTells ==
  ASSUME WatchInv, NEW t \in Targets, NEW u \in Urls, NEW sessions, TabShows(t, u, sessions)
  PROVE  TabsTell
<1> DEFINE new == NavigationEvents(t, u, sessions)
<1>1. /\ events \in Seq(CdpEvents) /\ Len(events) <= EventCapacity /\ lagged \in BOOLEAN
      /\ tab \in [Targets -> TabValues] /\ gen \in 0..MaxReconnects
  BY DEF WatchInv, WatchTypeOK
<1>2. /\ new \in Seq(CdpEvents)
      /\ \A j \in 1..Len(new) : new[j].kind = "target" => new[j].url \in Blocked
      /\ discovering /\ u \in Blocked =>
           \E j \in 1..Len(new) : new[j].kind = "target" /\ new[j].target = t /\ new[j].url = u
  BY <1>1, NavigationIsTold
<1>3. Publish(new)
  BY DEF TabShows
<1> HIDE DEF new
<1>4. BufferGrows
  BY <1>2, <1>3, PublishGrows
<1>5. tab' \in [Targets -> TabValues] /\ \A s \in Targets : tab'[s] = IF s = t THEN u ELSE tab[s]
  BY <1>1 DEF TabShows, TabValues
<1>6. watching /\ ~lagged' =>
        \A j \in 1..Len(new) : \E i \in 1..Len(events') : events'[i] = new[j]
  BY <1>1, <1>2, <1>3, PublishedBuffer
<1>7. TabIsTold(t)
  BY <1>2, <1>5, <1>6 DEF TabIsTold, Told
<1>8. QED
  BY <1>4, <1>5, <1>7 DEF TabsTell

\* A tab at a forbidden address stays noticed when the tabs tell.
LEMMA TellingKeepsWatch ==
  ASSUME WatchInv, TabsTell, gen' \in 0..MaxReconnects, page' \in Pages,
         watching' = watching, gaveUp' = gaveUp,
         discovering' \in BOOLEAN, discovering' => discovering,
         act' \in {NoAction} \cup Acts,
         \A t \in Targets : tab'[t] = tab[t] /\ tab[t] \in Blocked /\ Handled(t) => Handled(t)'
  PROVE  WatchInv'
<1>1. WatchTypeOK'
  BY DEF WatchInv, WatchTypeOK, TabsTell, BufferGrows
<1>2. TargetEventsAreBlocked'
  BY DEF TabsTell, BufferGrows
<1>3. ASSUME watching', ~lagged', discovering', NEW t \in Targets, tab'[t] \in Blocked
      PROVE  Told(t)' \/ Handled(t)' \/ GivenUp(t)'
  <2>1. CASE TabIsTold(t)
    BY <1>3, <2>1 DEF TabIsTold
  <2>2. CASE tab'[t] = tab[t]
    <3>1. Told(t) \/ Handled(t) \/ GivenUp(t)
      BY <1>3, <2>2 DEF WatchInv, ForbiddenIsNoticed, TabsTell, BufferGrows
    <3>2. CASE Told(t)
      BY <1>3, <2>2, <3>2 DEF Told, TabsTell, BufferGrows
    <3>3. CASE Handled(t)
      BY <1>3, <2>2, <3>3
    <3>4. CASE GivenUp(t)
      BY <2>2, <3>4 DEF GivenUp
    <3>5. QED
      BY <3>1, <3>2, <3>3, <3>4
  <2>3. QED
    BY <2>1, <2>2 DEF TabsTell
<1>4. QED
  BY <1>1, <1>2, <1>3 DEF WatchInv, ForbiddenIsNoticed

\* While the watchdog stands still, that is all its invariant asks.
LEMMA SameActKeepsWatch ==
  ASSUME WatchInv, TabsTell, gen' \in 0..MaxReconnects, page' \in Pages,
         watching' = watching, UNCHANGED watchdogVars,
         discovering' \in BOOLEAN, discovering' => discovering
  PROVE  WatchInv'
<1>1. act' \in {NoAction} \cup Acts /\ gaveUp' = gaveUp
  BY DEF WatchInv, WatchTypeOK, watchdogVars
<1>2. ASSUME NEW t \in Targets, tab'[t] = tab[t], Handled(t)
      PROVE  Handled(t)'
  BY <1>2 DEF Handled, watchdogVars
<1>3. QED
  BY <1>1, <1>2, TellingKeepsWatch

\* An event about something else leaves every tab told of.
LEMMA OneEventTells ==
  ASSUME WatchInv, NEW e \in CdpEvents, Publish(<<e>>), e.kind # "target", tab' = tab
  PROVE  TabsTell
<1>1. <<e>> \in Seq(CdpEvents) /\ \A j \in 1..Len(<<e>>) : <<e>>[j].kind # "target"
  OBVIOUS
<1>2. BufferGrows
  BY <1>1, PublishGrows
<1>3. QED
  BY <1>2 DEF TabsTell, WatchInv, WatchTypeOK

\* Chrome's steps publish what they change.
LEMMA ChromeKeepsWatch ==
  ASSUME WatchInv, ChromeNext, UNCHANGED watchdogVars
  PROVE  WatchInv'
<1> USE TargetsAssumption
<1>1. /\ gen \in 0..MaxReconnects /\ page \in Pages /\ discovering \in BOOLEAN
      /\ tab \in [Targets -> TabValues]
  BY DEF WatchInv, WatchTypeOK
<1>2. CASE \E t \in Targets, u \in Urls : PageMoves(t, u) \/ OpensPopup(t, u)
  <2>1. PICK t \in Targets, u \in Urls : PageMoves(t, u) \/ OpensPopup(t, u)
    BY <1>2
  <2>2. TabShows(t, u, attached) /\ ByItself
    BY <2>1 DEF PageMoves, OpensPopup
  <2>3. TabsTell
    BY <2>2, TabShowsTells
  <2>4. QED
    BY <1>1, <2>2, <2>3, SameActKeepsWatch DEF ByItself
<1>3. CASE \E t \in Targets : PageCloses(t)
  <2>1. PICK t \in Targets : TabCloses(t) /\ ByItself
    BY <1>3 DEF PageCloses
  <2>2. TabsTell
    BY <2>1, TabClosesTells
  <2>3. QED
    BY <1>1, <2>1, <2>2, SameActKeepsWatch DEF ByItself
<1>4. CASE \E t \in Targets, u \in Urls : SubframeMoves(t, u)
  <2>1. PICK t \in Targets, u \in Urls : SubframeMoves(t, u)
    BY <1>4
  <2>2. ChromeEvent("frame", t, u, gen) \in CdpEvents /\ ChromeEvent("frame", t, u, gen).kind # "target"
    BY <1>1 DEF ChromeEvent, CdpEvent, OtherCdpEvent, CdpEvents
  <2>3. TabsTell /\ ByItself
    BY <2>1, <2>2, OneEventTells DEF SubframeMoves
  <2>4. QED
    BY <1>1, <2>3, SameActKeepsWatch DEF ByItself
<1>5. CASE OtherEvent
  <2>1. OtherCdpEvent \in CdpEvents /\ OtherCdpEvent.kind # "target"
    BY DEF CdpEvent, OtherCdpEvent, CdpEvents
  <2>2. TabsTell /\ ByItself
    BY <1>5, <2>1, OneEventTells DEF OtherEvent
  <2>3. QED
    BY <1>1, <2>2, SameActKeepsWatch DEF ByItself
<1>6. CASE Reconnect
  <2>1. TabsTell
    BY <1>6, QuietTells DEF Reconnect, Quiet
  <2>2. gen' \in 0..MaxReconnects /\ page' \in Pages /\ discovering' = FALSE /\ watching' = watching
    BY <1>1, <1>6 DEF Reconnect, shared
  <2>3. QED
    BY <2>1, <2>2, SameActKeepsWatch
<1>7. QED
  BY <1>2, <1>3, <1>4, <1>5, <1>6 DEF ChromeNext

-----------------------------------------------------------------------------
(* The watchdog's own steps *)

\* A watchdog that lags stops watching.
LEMMA LagsKeepsWatch ==
  ASSUME WatchInv, WatchdogLags
  PROVE  WatchInv'
<1>1. events' = <<>> /\ watching' = FALSE /\ lagged' = FALSE
  BY DEF WatchdogLags
<1>2. events' \in Seq(CdpEvents) /\ Len(events') = 0
  BY <1>1
<1>3. UNCHANGED <<tab, gen, discovering, page, act, gaveUp>>
  BY DEF WatchdogLags, watchdogVars, shared
<1>4. WatchTypeOK
  BY DEF WatchInv
<1>5. /\ tab' \in [Targets -> TabValues] /\ gen' \in 0..MaxReconnects /\ page' \in Pages
      /\ act' \in {NoAction} \cup Acts /\ gaveUp' \subseteq Targets \X Urls
  BY <1>3, <1>4 DEF WatchTypeOK
<1>6. discovering' \in BOOLEAN
  BY <1>3, <1>4 DEF WatchTypeOK
<1>7. Len(events') <= EventCapacity
  BY <1>2, TargetsAssumption
<1>8. WatchTypeOK'
  BY <1>1, <1>2, <1>5, <1>6, <1>7 DEF WatchTypeOK
<1>9. QED
  BY <1>1, <1>2, <1>8 DEF WatchInv, TargetEventsAreBlocked, ForbiddenIsNoticed

\* A watchdog that reads an event about a forbidden address acts on it.
LEMMA ReceivesKeepsWatch ==
  ASSUME WatchInv, WatchdogReceives
  PROVE  WatchInv'
<1> DEFINE e == Head(events)
<1>1. /\ events \in Seq(CdpEvents) /\ events # <<>> /\ Len(events) \in Nat /\ Len(events) <= EventCapacity
      /\ events' = Tail(events)
      /\ UNCHANGED <<tab, gen, discovering, lagged, watching, page, gaveUp>>
      /\ act = NoAction /\ act' = ActionFor(e)
  BY LenProperties DEF WatchInv, WatchTypeOK, WatchdogReceives, shared
<1>2. /\ e \in CdpEvents /\ e = events[1] /\ Len(events) >= 1
      /\ events' \in Seq(CdpEvents) /\ Len(events') = Len(events) - 1
      /\ \A i \in 1..Len(events') : events'[i] = events[i + 1]
  BY <1>1, HeadTailProperties, EmptySeq
<1>3. act' \in {NoAction} \cup Acts
  BY <1>1, <1>2 DEF ActionFor, Action, CdpEvents, Acts, WatchInv, WatchTypeOK, Pages
<1>4. WatchTypeOK'
  BY <1>1, <1>2, <1>3, TargetsAssumption DEF WatchInv, WatchTypeOK
<1>5. TargetEventsAreBlocked'
  BY <1>1, <1>2 DEF WatchInv, TargetEventsAreBlocked
<1>6. ASSUME NEW t \in Targets, tab[t] \in Blocked, Told(t)
      PROVE  Told(t)' \/ Handled(t)'
  <2>1. PICK i \in 1..Len(events) :
           events[i].kind = "target" /\ events[i].target = t /\ events[i].url = tab[t]
    BY <1>6 DEF Told
  <2>2. CASE i = 1
    <3>1. ~Allowed(e.url) /\ e.kind = "target" /\ e.target = t /\ e.url = tab[t]
      BY <1>2, <1>6, <2>1, <2>2 DEF Blocked
    <3>2. act'.target = t /\ act'.url = tab[t] /\ act'.stage = "send"
      BY <1>1, <3>1 DEF ActionFor, Action
    <3>3. QED
      BY <1>1, <3>2 DEF Handled
  <2>3. CASE i # 1
    <3>1. i - 1 \in 1..Len(events') /\ events'[i - 1] = events[i]
      BY <1>1, <1>2, <2>3
    <3>2. QED
      BY <1>1, <2>1, <3>1 DEF Told
  <2>4. QED
    BY <2>2, <2>3
<1>7. ForbiddenIsNoticed'
  <2> SUFFICES ASSUME watching, ~lagged, discovering, NEW t \in Targets, tab[t] \in Blocked
               PROVE  Told(t)' \/ Handled(t)' \/ GivenUp(t)'
    BY <1>1 DEF ForbiddenIsNoticed
  <2>1. Told(t) \/ Handled(t) \/ GivenUp(t)
    BY DEF WatchInv, ForbiddenIsNoticed
  <2>2. ~Handled(t)
    BY <1>1, TargetsAssumption DEF Handled, NoAction
  <2>3. GivenUp(t) => GivenUp(t)'
    BY <1>1 DEF GivenUp
  <2>4. QED
    BY <1>6, <2>1, <2>2, <2>3
<1>8. QED
  BY <1>4, <1>5, <1>7 DEF WatchInv

\* It sends the command of its action, to the tab or to the current page.
LEMMA CommandsKeepsWatch ==
  ASSUME WatchInv, WatchdogCommands
  PROVE  WatchInv'
<1>1. /\ act \in Acts /\ act.stage = "send" /\ gen \in 0..MaxReconnects
      /\ page' = page /\ page \in Pages /\ discovering \in BOOLEAN
      /\ UNCHANGED <<gen, discovering, watching, gaveUp>>
  BY DEF WatchInv, WatchTypeOK, WatchdogCommands
<1>2. act.target \in Targets /\ tab \in [Targets -> TabValues]
  BY <1>1 DEF Acts, WatchInv, WatchTypeOK
<1>3. CASE TabShows(act.target, BlankUrl, attached) /\ (Answered("done") \/ Answered("failed"))
  <2>1. TabsTell
    BY <1>2, <1>3, TabShowsTells, TargetsAssumption
  <2>2. act' \in Acts
    BY <1>1, <1>3 DEF Acts, Answered
  <2>3. ASSUME NEW t \in Targets, tab'[t] = tab[t], tab[t] \in Blocked, Handled(t)
        PROVE  FALSE
    <3>1. tab'[t] = BlankUrl
      BY <1>2, <1>3, <2>3 DEF TabShows, Handled
    <3>2. QED
      BY <2>3, <3>1, TargetsAssumption DEF Blocked, Allowed
  <2>4. QED
    BY <1>1, <2>1, <2>2, <2>3, TellingKeepsWatch
<1>4. CASE TabCloses(act.target) /\ (Answered("done") \/ Answered("failed"))
  <2>1. TabsTell
    BY <1>2, <1>4, TabClosesTells
  <2>2. act' \in Acts
    BY <1>1, <1>4 DEF Acts, Answered
  <2>3. ASSUME NEW t \in Targets, tab'[t] = tab[t], tab[t] \in Blocked, Handled(t)
        PROVE  FALSE
    <3>1. tab'[t] = Closed
      BY <1>2, <1>4, <2>3 DEF TabCloses, Handled
    <3>2. QED
      BY <2>3, <3>1, TargetsAssumption DEF Blocked
  <2>4. QED
    BY <1>1, <2>1, <2>2, <2>3, TellingKeepsWatch
<1>5. CASE Quiet /\ Answered("failed")
  <2>1. TabsTell
    BY <1>5, QuietTells
  <2>2. act' \in Acts /\ act'.target = act.target /\ act'.url = act.url /\ act'.stage = "failed"
    BY <1>1, <1>5 DEF Acts, Answered
  <2>3. ASSUME NEW t \in Targets, tab'[t] = tab[t], Handled(t)
        PROVE  Handled(t)'
    BY <2>2, <2>3 DEF Handled
  <2>4. QED
    BY <1>1, <2>1, <2>2, <2>3, TellingKeepsWatch
<1>6. QED
  BY <1>3, <1>4, <1>5 DEF WatchdogCommands

\* A command that failed is remembered; one that succeeded moved or closed the
\* tab.
LEMMA FinishesKeepsWatch ==
  ASSUME WatchInv, WatchdogFinishes
  PROVE  WatchInv'
<1>1. /\ UNCHANGED <<tab, gen, discovering, events, lagged, watching, page>>
      /\ act \in Acts /\ act' = NoAction
      /\ IF act.stage = "done" THEN gaveUp' = gaveUp
         ELSE gaveUp' = gaveUp \cup {<<act.target, act.url>>}
  BY DEF WatchInv, WatchTypeOK, WatchdogFinishes, chrome
<1>2. gaveUp \subseteq gaveUp' /\ gaveUp' \subseteq Targets \X Urls
  BY <1>1 DEF WatchInv, WatchTypeOK, Acts
<1>3. WatchTypeOK'
  BY <1>1, <1>2 DEF WatchInv, WatchTypeOK
<1>4. TargetEventsAreBlocked'
  BY <1>1 DEF WatchInv, TargetEventsAreBlocked
<1>5. ForbiddenIsNoticed'
  <2> SUFFICES ASSUME watching, ~lagged, discovering, NEW t \in Targets, tab[t] \in Blocked
               PROVE  Told(t)' \/ Handled(t)' \/ GivenUp(t)'
    BY <1>1 DEF ForbiddenIsNoticed
  <2>1. Told(t) \/ Handled(t) \/ GivenUp(t)
    BY DEF WatchInv, ForbiddenIsNoticed
  <2>2. Told(t) => Told(t)'
    BY <1>1 DEF Told
  <2>3. GivenUp(t) => GivenUp(t)'
    BY <1>1, <1>2 DEF GivenUp
  <2>4. ASSUME Handled(t)
        PROVE  GivenUp(t)'
    <3>1. act.stage = "failed"
      BY <2>4 DEF Handled, WatchdogFinishes
    <3>2. QED
      BY <1>1, <2>4, <3>1 DEF Handled, GivenUp
  <2>5. QED
    BY <2>1, <2>2, <2>3, <2>4
<1>6. QED
  BY <1>3, <1>4, <1>5 DEF WatchInv

\* So every step of the watchdog keeps its invariant.
LEMMA WatchdogKeepsWatch ==
  ASSUME WatchInv, WatchdogNext
  PROVE  WatchInv'
BY LagsKeepsWatch, ReceivesKeepsWatch, CommandsKeepsWatch, FinishesKeepsWatch DEF WatchdogNext

-----------------------------------------------------------------------------
(* What a step of the session may do to the tabs *)

\* A tab that is attached or created has an event that tells of it.
LEMMA AttachesTells ==
  ASSUME WatchInv, NEW t \in Targets, AttachesOrCreates(t) \/ Attaches(t) \/ Creates(t)
  PROVE  TabsTell
<1>1. CASE Quiet
  BY <1>1, QuietTells
<1>2. CASE TabShows(t, BlankUrl, attached)
  BY <1>2, TabShowsTells, TargetsAssumption
<1>3. QED
  BY <1>1, <1>2 DEF AttachesOrCreates, Attaches, Creates

\* So has every tab a call of the session moves.
LEMMA SessionTells ==
  ASSUME WatchInv, CallTypeOK, SessionNext
  PROVE  TabsTell /\ KeepConnection /\ page' \in Pages
<1> USE DEF KeepChrome
<1>1. /\ call.cur.target \in Targets /\ call.target \in Targets \cup {None} /\ call.todo \subseteq Targets
      /\ page \in Pages /\ gen \in 0..MaxReconnects /\ call.cur \in Pages
  BY DEF CallTypeOK, Calls, Pages, WatchInv, WatchTypeOK
<1>2. CASE \/ StartCall \/ CommandFails \/ ResolvesTab \/ ListsElements \/ StoresElements
           \/ ReturnsState \/ TakesPendingError \/ ListsTabs \/ EndsRound \/ Settles
           \/ SetsPage \/ ClearsCache
  <2>1. Quiet /\ KeepConnection /\ page' \in {page, call.cur}
    BY <1>2 DEF StartCall, StartNavigate, Starts, CommandFails, ResolvesTab, ListsElements,
       StoresElements, ReturnsState, TakesPendingError, ListsTabs, EndsRound, Settles, SetsPage,
       ClearsCache, KeepPage
  <2>2. QED
    BY <1>1, <2>1, QuietTells
<1>3. CASE ReattachesPage
  <2>1. PICK t \in Targets : AttachesOrCreates(t) \/ Attaches(t)
    BY <1>3 DEF ReattachesPage
  <2>2. QED
    BY <1>1, <1>3, <2>1, AttachesTells DEF ReattachesPage, KeepPage
<1>4. CASE KeepsStalePage
  <2>1. Quiet \/ \E t \in Targets : Creates(t)
    BY <1>4 DEF KeepsStalePage, CreatesOnly
  <2>2. QED
    BY <1>1, <1>4, <2>1, QuietTells, AttachesTells DEF KeepsStalePage, KeepPage
<1>5. CASE Navigates
  BY <1>1, <1>5, TabShowsTells DEF Navigates
<1>6. CASE CreatesTab
  <2>1. PICK t \in UnbornTargets, url \in Urls : TabShows(t, url, attached)
    BY <1>6 DEF CreatesTab
  <2>2. t \in Targets
    BY DEF UnbornTargets
  <2>3. QED
    BY <1>1, <1>6, <2>1, <2>2, TabShowsTells DEF CreatesTab, KeepPage
<1>7. CASE AttachesTab \/ AttachesElementTab
  <2>1. PICK t \in Targets : Attaches(t)
    BY <1>1, <1>7 DEF AttachesTab, AttachesElementTab, Attaches, Open
  <2>2. QED
    BY <1>1, <1>7, <2>1, AttachesTells DEF AttachesTab, AttachesElementTab, KeepPage
<1>8. CASE ClosesTab
  <2>1. call.target \in Targets
    BY <1>8 DEF ClosesTab, Open
  <2>2. QED
    BY <1>1, <1>8, <2>1, TabClosesTells DEF ClosesTab, KeepPage
<1>9. CASE LeavesClosedTab
  <2>1. Quiet \/ \E t \in Targets : Creates(t) \/ AttachesOrCreates(t)
    BY <1>9 DEF LeavesClosedTab, CreatesOnly
  <2>2. TabsTell
    BY <2>1, QuietTells, AttachesTells
  <2>3. QED
    BY <1>1, <1>9, <2>2 DEF LeavesClosedTab
<1>10. CASE ActsOnPage
  BY <1>1, <1>10, TabShowsTells, QuietTells DEF ActsOnPage
<1>11. CASE EnforcesOnTab
  <2>1. PICK t \in Targets : ResetsCurrentTab(t) \/ ClosesOtherTab(t)
    BY <1>1, <1>11 DEF EnforcesOnTab
  <2>2. Quiet \/ TabShows(t, BlankUrl, attached) \/ TabCloses(t)
    BY <2>1 DEF ResetsCurrentTab, ClosesOtherTab
  <2>3. TabsTell
    BY <2>2, QuietTells, TabShowsTells, TabClosesTells, TargetsAssumption
  <2>4. QED
    BY <1>1, <1>11, <2>3 DEF EnforcesOnTab
<1>12. QED
  BY <1>2, <1>3, <1>4, <1>5, <1>6, <1>7, <1>8, <1>9, <1>10, <1>11 DEF SessionNext

\* The session's steps keep the watchdog's invariant.
LEMMA SessionKeepsWatch ==
  ASSUME WatchInv, CallTypeOK, SessionNext
  PROVE  WatchInv'
<1>1. TabsTell /\ KeepConnection /\ page' \in Pages
  BY SessionTells
<1>2. gen' \in 0..MaxReconnects /\ discovering' \in BOOLEAN /\ discovering' = discovering
  BY <1>1 DEF KeepConnection, WatchInv, WatchTypeOK
<1>3. QED
  BY <1>1, <1>2, SameActKeepsWatch DEF KeepConnection

-----------------------------------------------------------------------------
(* The page, and the one about to be *)

\* What PageInv needs of a step besides its page: the types it keeps.
TargetsKept ==
  /\ tab' \in [Targets -> TabValues] /\ gen' = gen /\ attached' \subseteq Targets
  /\ cache' \in {NoDom} \cup ListedElements /\ listing' \in {NoDom} \cup ListedElements
PageStays == page' = page /\ attached \subseteq attached'
NextPage(p) == call'.cur = p /\ p.gen = gen /\ p.target \in attached'

\* A step that leaves the page alone and attaches to the next one before it is
\* that, keeps the page's invariant; so does one that makes the next page the
\* current one.
LEMMA PageStepKeepsPage ==
  ASSUME PageInv, CallTypeOK, TargetsKept,
         \/ PageStays
         \/ call.stage = "viewport" /\ page' = call.cur /\ attached' = attached,
         call'.stage = "viewport" =>
           \/ \E p \in Pages : NextPage(p)
           \/ call.stage = "viewport" /\ call'.cur = call.cur /\ attached' = attached
  PROVE  PageInv'
<1>1. /\ PageTypeOK /\ page.gen <= gen /\ PageIsAttached /\ NextPageIsAttached
      /\ gen \in 0..MaxReconnects /\ page \in Pages /\ call.cur \in Pages /\ gen' = gen
  BY DEF PageInv, PageTypeOK, CallTypeOK, Calls, TargetsKept
<1>2. page' \in Pages /\ page'.gen <= gen' /\ PageIsAttached'
  <2>1. CASE PageStays
    BY <1>1, <2>1 DEF PageStays, PageIsAttached
  <2>2. CASE call.stage = "viewport" /\ page' = call.cur /\ attached' = attached
    BY <1>1, <2>2 DEF NextPageIsAttached, PageIsAttached
  <2>3. QED
    BY <2>1, <2>2
<1>3. NextPageIsAttached'
  <2>1. SUFFICES ASSUME call'.stage = "viewport"
                 PROVE  call'.cur.gen <= gen' /\ (call'.cur.gen = gen' => call'.cur.target \in attached')
    BY DEF NextPageIsAttached
  <2>2. CASE \E p \in Pages : NextPage(p)
    BY <1>1, <2>2 DEF NextPage
  <2>3. CASE call.stage = "viewport" /\ call'.cur = call.cur /\ attached' = attached
    BY <1>1, <2>3 DEF NextPageIsAttached
  <2>4. QED
    BY <2>1, <2>2, <2>3
<1>4. PageTypeOK'
  BY <1>1, <1>2 DEF PageTypeOK, TargetsKept
<1>5. QED
  BY <1>2, <1>3, <1>4 DEF PageInv

\* Attaching to a tab attaches it and detaches no other.
LEMMA AttachedTabIsAttached ==
  ASSUME PageTypeOK, NEW t \in Targets, Attaches(t) \/ AttachesOrCreates(t)
  PROVE  /\ tab' \in [Targets -> TabValues] /\ attached' \subseteq Targets
         /\ t \in attached' /\ attached \subseteq attached'
<1>1. tab \in [Targets -> TabValues] /\ attached \subseteq Targets
  BY DEF PageTypeOK
<1>2. CASE Attaches(t)
  BY <1>1, <1>2 DEF Attaches, Quiet
<1>3. CASE AttachesOrCreates(t)
  BY <1>1, <1>2, <1>3, TargetsAssumption DEF AttachesOrCreates, Creates, TabShows, TabValues
<1>4. QED
  BY <1>2, <1>3

-----------------------------------------------------------------------------
(* The elements, cached or listed *)

\* Marking elements leaves all but the mark.
LEMMA MarkedElements ==
  ASSUME NEW e \in {NoDom} \cup ListedElements, NEW t, NEW mark \in {"moved", "switched"}
  PROVE  /\ Marked(e, t, mark) \in {NoDom} \cup ListedElements
         /\ e = NoDom => Marked(e, t, mark) = NoDom
         /\ e # NoDom =>
              /\ e \in ListedElements /\ e.target \in Targets /\ e.url \in Urls
              /\ Marked(e, t, mark).target = e.target /\ Marked(e, t, mark).gen = e.gen
              /\ Marked(e, t, mark).url = e.url /\ e.since \subseteq Marked(e, t, mark).since
              /\ t = e.target => mark \in Marked(e, t, mark).since
<1> USE TargetsAssumption
<1>1. CASE e = NoDom
  <2>1. NoDom.target \notin Targets
    BY DEF NoDom
  <2>2. QED
    BY <1>1, <2>1 DEF Marked
<1>2. CASE e # NoDom
  <2>1. /\ e \in ListedElements /\ e.target \in Targets /\ e.url \in Urls
        /\ e.since \in SUBSET {"moved", "switched"}
    BY <1>2 DEF ListedElements
  <2>2. CASE t \in Targets /\ e.target = t
    <3> DEFINE m == [e EXCEPT !.since = e.since \cup {mark}]
    <3>1. Marked(e, t, mark) = m
      BY <2>2 DEF Marked
    <3>2. /\ m \in ListedElements /\ m.target = e.target /\ m.gen = e.gen /\ m.url = e.url
          /\ m.since = e.since \cup {mark}
      BY <2>1 DEF ListedElements
    <3> HIDE DEF m
    <3>3. QED
      BY <1>2, <2>1, <3>1, <3>2
  <2>3. CASE ~(t \in Targets /\ e.target = t)
    BY <1>2, <2>1, <2>3 DEF Marked
  <2>4. QED
    BY <2>2, <2>3
<1>3. QED
  BY <1>1, <1>2

\* What a step may make of some elements: nothing, or the same ones, marked when
\* their tab has another address and is not closed.
Follows(old, new) ==
  \/ new = NoDom
  \/ /\ old # NoDom /\ new \in ListedElements
     /\ new.target = old.target /\ new.gen = old.gen /\ new.url = old.url
     /\ old.since \subseteq new.since
     /\ \/ tab'[old.target] \in {tab[old.target], Closed}
        \/ tab[old.target] = Unborn \/ "moved" \in new.since
TabsKept == \A t \in Targets : tab'[t] \in {tab[t], Closed} \/ tab[t] = Unborn
OnlyTurns(t) == \A s \in Targets : s # t => tab'[s] = tab[s]

\* Elements left alone while no open tab moves still follow.
LEMMA KeptFollows ==
  ASSUME NEW e \in {NoDom} \cup ListedElements, TabsKept
  PROVE  Follows(e, e)
BY DEF Follows, TabsKept, ListedElements

\* Elements marked because their tab moves follow.
LEMMA MarkedFollows ==
  ASSUME NEW e \in {NoDom} \cup ListedElements, NEW t \in Targets, OnlyTurns(t)
  PROVE  Follows(e, Marked(e, t, "moved"))
<1>1. CASE e = NoDom
  BY <1>1, MarkedElements DEF Follows
<1>2. CASE e # NoDom
  <2>1. e.target \in Targets /\ e.target \notin {None}
    BY <1>2, MarkedElements, TargetsAssumption
  <2>3. e.target # t => tab'[e.target] = tab[e.target]
    BY <2>1 DEF OnlyTurns
  <2>4. QED
    BY <1>2, <2>1, <2>3, MarkedElements DEF Follows
<1>3. QED
  BY <1>1, <1>2

\* Elements that were of the address their tab shows, or marked, are so still.
LEMMA FollowedIsShown ==
  ASSUME NEW old \in {NoDom} \cup ListedElements, NEW new, Follows(old, new), new # NoDom, Shown(old)
  PROVE  Shown(new)'
<1>1. /\ old # NoDom /\ new.target = old.target /\ new.url = old.url /\ old.since \subseteq new.since
      /\ \/ tab'[old.target] \in {tab[old.target], Closed}
         \/ tab[old.target] = Unborn \/ "moved" \in new.since
  BY DEF Follows
<1>2. old.url \in Urls /\ old.url # Unborn /\ Closed # Unborn
  BY <1>1, TargetsAssumption DEF ListedElements, Closed, Unborn
<1>3. QED
  BY <1>1, <1>2 DEF Shown

\* So do both, when the tabs keep what they show.
LEMMA TabsKeptFollow ==
  ASSUME PageTypeOK, TabsKept, cache' \in {cache, NoDom}, listing' \in {listing, NoDom}
  PROVE  Follows(cache, cache') /\ Follows(listing, listing')
<1>1. cache \in {NoDom} \cup ListedElements /\ listing \in {NoDom} \cup ListedElements
  BY DEF PageTypeOK
<1>2. Follows(cache, cache) /\ Follows(listing, listing)
  BY <1>1, KeptFollows
<1>3. Follows(cache, NoDom) /\ Follows(listing, NoDom)
  BY DEF Follows
<1>4. QED
  BY <1>2, <1>3

\* And when one tab moves and that is noted.
LEMMA DriftFollows ==
  ASSUME PageTypeOK, NEW t \in Targets, OnlyTurns(t), Drift(t)
  PROVE  Follows(cache, cache') /\ Follows(listing, listing')
BY MarkedFollows DEF PageTypeOK, Drift

\* Elements that follow are of the page and the address they should be of,
\* until the page changes or the watchdog has dropped them.
LEMMA FollowingKeepsCache ==
  ASSUME PageTypeOK, CacheInv, Follows(cache, cache'), Follows(listing, listing'),
         page' = page \/ call'.stage = "clear",
         call.stage = "clear" =>
           call'.stage = "clear" \/ cache' = NoDom \/ "switched" \in cache'.since,
         act.stage = "done" => act' = act \/ cache' = NoDom,
         listing' = NoDom \/ (page' = page /\ call'.stage = call.stage)
  PROVE  CacheInv'
<1>1. cache \in {NoDom} \cup ListedElements /\ listing \in {NoDom} \cup ListedElements
  BY DEF PageTypeOK
<1>2. CacheIsOfPage'
  <2>1. SUFFICES ASSUME cache' # NoDom
                 PROVE  \/ AttachedPage(cache'.target, cache'.gen) = page'
                        \/ "switched" \in cache'.since \/ call'.stage = "clear"
    BY DEF CacheIsOfPage
  <2>2. /\ cache # NoDom /\ cache'.target = cache.target /\ cache'.gen = cache.gen
        /\ cache.since \subseteq cache'.since
    BY <2>1 DEF Follows
  <2>3. \/ AttachedPage(cache.target, cache.gen) = page
        \/ "switched" \in cache.since \/ call.stage = "clear"
    BY <2>2 DEF CacheInv, CacheIsOfPage
  <2>4. QED
    BY <2>1, <2>2, <2>3
<1>3. CacheIsShown'
  <2>1. SUFFICES ASSUME cache' # NoDom
                 PROVE  Shown(cache)' \/ (act'.stage = "done" /\ act'.target = cache'.target)
    BY DEF CacheIsShown
  <2>2. cache # NoDom /\ cache'.target = cache.target
    BY <2>1 DEF Follows
  <2>3. CASE Shown(cache)
    BY <1>1, <2>1, <2>3, FollowedIsShown
  <2>4. CASE act.stage = "done" /\ act.target = cache.target
    BY <2>1, <2>2, <2>4
  <2>5. QED
    BY <2>2, <2>3, <2>4 DEF CacheInv, CacheIsShown
<1>4. ListingIsOfPage'
  <2>1. SUFFICES ASSUME listing' # NoDom
                 PROVE  /\ call'.stage = "store" /\ AttachedPage(listing'.target, listing'.gen) = page'
                        /\ Shown(listing)'
    BY DEF ListingIsOfPage
  <2>2. listing # NoDom /\ listing'.target = listing.target /\ listing'.gen = listing.gen
    BY <2>1 DEF Follows
  <2>3. call.stage = "store" /\ AttachedPage(listing.target, listing.gen) = page /\ Shown(listing)
    BY <2>2 DEF CacheInv, ListingIsOfPage
  <2>4. Shown(listing)'
    BY <1>1, <2>1, <2>3, FollowedIsShown
  <2>5. QED
    BY <2>1, <2>2, <2>3, <2>4
<1>5. QED
  BY <1>2, <1>3, <1>4 DEF CacheInv

\* What follows keeps its type.
LEMMA FollowersAreTyped ==
  ASSUME Follows(cache, cache'), Follows(listing, listing')
  PROVE  cache' \in {NoDom} \cup ListedElements /\ listing' \in {NoDom} \cup ListedElements
BY DEF Follows

-----------------------------------------------------------------------------
(* Chrome, the watchdog *)

\* A tab that Chrome or a command moves is the only one that moves.
LEMMA ShownTabTurns ==
  ASSUME PageTypeOK, NEW t \in Targets, NEW u \in Urls, NEW sessions, TabShows(t, u, sessions)
  PROVE  /\ tab' \in [Targets -> TabValues] /\ OnlyTurns(t)
         /\ tab[t] = Unborn => TabsKept
<1>1. tab \in [Targets -> TabValues] /\ tab' = [tab EXCEPT ![t] = u] /\ u \in TabValues
  BY DEF PageTypeOK, TabShows, TabValues
<1>2. QED
  BY <1>1 DEF OnlyTurns, TabsKept

\* One that closes closes.
LEMMA ClosedTabIsKept ==
  ASSUME PageTypeOK, NEW t \in Targets, TabCloses(t)
  PROVE  tab' \in [Targets -> TabValues] /\ TabsKept
<1>1. tab \in [Targets -> TabValues] /\ tab' = [tab EXCEPT ![t] = Closed] /\ Closed \in TabValues
  BY DEF PageTypeOK, TabCloses, TabValues
<1>2. QED
  BY <1>1 DEF TabsKept

\* A page that Chrome moves by itself is noted; a reconnect leaves the pages
\* and their elements, and no session.
LEMMA ChromeKeepsPage ==
  ASSUME PageInv, CacheInv, CallTypeOK, ChromeNext, UNCHANGED <<watchdogVars, sessionVars>>
  PROVE  PageInv' /\ CacheInv'
<1>1. /\ PageTypeOK /\ tab \in [Targets -> TabValues] /\ attached \subseteq Targets
      /\ call' = call /\ act' = act
  BY DEF PageInv, PageTypeOK, sessionVars, watchdogVars
<1>2. /\ tab' \in [Targets -> TabValues]
      /\ Follows(cache, cache') /\ Follows(listing, listing')
      /\ page' = page
  <2>1. CASE \E t \in Targets, u \in Urls : PageMoves(t, u)
    <3>1. PICK t \in Targets, u \in Urls : PageMoves(t, u)
      BY <2>1
    <3>2. TabShows(t, u, attached) /\ Drift(t) /\ page' = page
      BY <3>1 DEF PageMoves, ByItself
    <3>3. QED
      BY <1>1, <3>2, ShownTabTurns, DriftFollows
  <2>2. CASE \E t \in Targets, u \in Urls : OpensPopup(t, u)
    <3>1. PICK t \in Targets, u \in Urls : OpensPopup(t, u)
      BY <2>2
    <3>2. TabShows(t, u, attached) /\ tab[t] = Unborn /\ KeepCache /\ page' = page
      BY <3>1 DEF OpensPopup, ByItself, UnbornTargets
    <3>3. QED
      BY <1>1, <3>2, ShownTabTurns, TabsKeptFollow DEF KeepCache
  <2>3. CASE \E t \in Targets : PageCloses(t)
    <3>1. PICK t \in Targets : TabCloses(t) /\ KeepCache /\ page' = page
      BY <2>3 DEF PageCloses, ByItself
    <3>2. QED
      BY <1>1, <3>1, ClosedTabIsKept, TabsKeptFollow DEF KeepCache
  <2>4. CASE OtherEvent \/ Reconnect \/ \E t \in Targets, u \in Urls : SubframeMoves(t, u)
    <3>1. tab' = tab /\ cache' = cache /\ listing' = listing /\ page' = page
      BY <2>4 DEF OtherEvent, SubframeMoves, Reconnect, ByItself, KeepCache, shared
    <3>2. TabsKept
      BY <3>1 DEF TabsKept
    <3>3. QED
      BY <1>1, <3>1, <3>2, TabsKeptFollow
  <2>5. QED
    BY <2>1, <2>2, <2>3, <2>4 DEF ChromeNext
<1>3. CacheInv'
  BY <1>1, <1>2, FollowingKeepsCache
<1>4. cache' \in {NoDom} \cup ListedElements /\ listing' \in {NoDom} \cup ListedElements
  BY <1>2, FollowersAreTyped
<1>5. CASE ~Reconnect
  <2>1. gen' = gen /\ attached' = attached
    BY <1>5 DEF ChromeNext, PageMoves, OpensPopup, PageCloses, SubframeMoves, OtherEvent, ByItself
  <2>2. TargetsKept /\ PageStays
    BY <1>1, <1>2, <1>4, <2>1 DEF TargetsKept, PageStays
  <2>3. PageInv'
    BY <1>1, <2>1, <2>2, PageStepKeepsPage
  <2>4. QED
    BY <1>3, <2>3
<1>6. CASE Reconnect
  <2>1. gen' = gen + 1 /\ gen \in 0..MaxReconnects /\ gen' \in 0..MaxReconnects /\ attached' = {}
    BY <1>1, <1>6, TargetsAssumption DEF Reconnect, PageTypeOK
  <2>2. PageTypeOK'
    BY <1>1, <1>2, <1>4, <2>1 DEF PageTypeOK
  <2>3. /\ page.gen \in Int /\ page.gen <= gen /\ call.cur.gen \in Int
        /\ call.stage = "viewport" => call.cur.gen <= gen
    BY DEF PageInv, PageTypeOK, Pages, CallTypeOK, Calls, NextPageIsAttached
  <2>4. page'.gen <= gen' /\ PageIsAttached' /\ NextPageIsAttached'
    BY <1>1, <1>2, <2>1, <2>3 DEF PageIsAttached, NextPageIsAttached
  <2>5. QED
    BY <1>3, <2>2, <2>4 DEF PageInv
<1>7. QED
  BY <1>5, <1>6

\* A reset the watchdog has an answer to leaves the elements cached from that
\* page to be dropped in its next step, and marks those a call is listing.
LEMMA ResetKeepsCache ==
  ASSUME PageTypeOK, CacheInv, WatchInv, WatchdogCommands, UNCHANGED sessionVars,
         TabShows(act.target, BlankUrl, attached), Answered("done"),
         cache' = cache, listing' = Marked(listing, act.target, "moved")
  PROVE  CacheInv'
<1>1. /\ act \in Acts /\ act.stage = "send" /\ act.target \in Targets
      /\ page' = page /\ call' = call
  BY DEF WatchInv, WatchTypeOK, WatchdogCommands, sessionVars, Acts
<1>2. act'.stage = "done" /\ act'.target = act.target
  BY <1>1 DEF Answered, Acts
<1>3. OnlyTurns(act.target) /\ listing \in {NoDom} \cup ListedElements /\ cache \in {NoDom} \cup ListedElements
  BY <1>1, ShownTabTurns, TargetsAssumption DEF PageTypeOK
<1>4. Follows(listing, listing')
  BY <1>1, <1>3, MarkedFollows
<1>5. CacheIsOfPage'
  BY <1>1 DEF CacheInv, CacheIsOfPage
<1>6. CacheIsShown'
  <2>1. SUFFICES ASSUME cache # NoDom, cache.target # act.target
                 PROVE  Shown(cache)'
    BY <1>2 DEF CacheIsShown
  <2>2. Shown(cache) /\ cache.target \in Targets
    BY <1>1, <1>3, <2>1 DEF CacheInv, CacheIsShown, ListedElements
  <2>3. QED
    BY <1>3, <2>1, <2>2 DEF OnlyTurns, Shown
<1>7. ListingIsOfPage'
  <2>1. SUFFICES ASSUME listing' # NoDom
                 PROVE  /\ call'.stage = "store" /\ AttachedPage(listing'.target, listing'.gen) = page'
                        /\ Shown(listing)'
    BY DEF ListingIsOfPage
  <2>2. listing # NoDom /\ listing'.target = listing.target /\ listing'.gen = listing.gen
    BY <1>4, <2>1 DEF Follows
  <2>3. call.stage = "store" /\ AttachedPage(listing.target, listing.gen) = page /\ Shown(listing)
    BY <2>2 DEF CacheInv, ListingIsOfPage
  <2>4. Shown(listing)'
    BY <1>3, <1>4, <2>1, <2>3, FollowedIsShown
  <2>5. QED
    BY <1>1, <2>2, <2>3, <2>4
<1>8. QED
  BY <1>5, <1>6, <1>7 DEF CacheInv

\* The watchdog's steps keep page and elements right for each other.
LEMMA WatchdogKeepsPage ==
  ASSUME PageInv, CacheInv, CallTypeOK, WatchInv, WatchdogNext, UNCHANGED sessionVars
  PROVE  PageInv' /\ CacheInv'
<1>1. /\ PageTypeOK /\ tab \in [Targets -> TabValues] /\ attached \subseteq Targets
      /\ cache \in {NoDom} \cup ListedElements /\ listing \in {NoDom} \cup ListedElements
      /\ call' = call
  BY DEF PageInv, PageTypeOK, sessionVars
<1>2. gen' = gen /\ attached' = attached /\ page' = page
  BY DEF WatchdogNext, WatchdogLags, WatchdogReceives, WatchdogCommands, WatchdogFinishes,
     shared, chrome
<1>3. CASE WatchdogLags \/ WatchdogReceives \/ WatchdogFinishes
  <2>1. tab' = tab /\ cache' \in {cache, NoDom} /\ listing' = listing
    BY <1>3 DEF WatchdogLags, WatchdogReceives, WatchdogFinishes, shared, chrome, KeepCache, ClearCache
  <2>2. TabsKept
    BY <2>1 DEF TabsKept
  <2>3. Follows(cache, cache') /\ Follows(listing, listing')
    BY <1>1, <2>1, <2>2, TabsKeptFollow
  <2>4. act.stage = "done" => act' = act \/ cache' = NoDom
    BY <1>3 DEF WatchdogLags, WatchdogReceives, WatchdogFinishes, watchdogVars, NoAction, ClearCache, None
  <2>5. CacheInv' /\ tab' \in [Targets -> TabValues]
    BY <1>1, <1>2, <2>1, <2>3, <2>4, FollowingKeepsCache
  <2>6. QED
    BY <1>1, <1>2, <2>1, <2>5, PageStepKeepsPage DEF TargetsKept, PageStays
<1>4. CASE WatchdogCommands
  <2>1. act \in Acts /\ act.stage = "send" /\ act.target \in Targets
    BY <1>4 DEF WatchdogCommands, WatchInv, WatchTypeOK, Acts
  <2>2. /\ tab' \in [Targets -> TabValues]
        /\ CacheInv' /\ cache' \in {NoDom} \cup ListedElements /\ listing' \in {NoDom} \cup ListedElements
    <3>1. CASE /\ TabShows(act.target, BlankUrl, attached) /\ Answered("done")
               /\ cache' = cache /\ listing' = Marked(listing, act.target, "moved")
      BY <1>1, <1>4, <2>1, <3>1, ResetKeepsCache, MarkedElements, ShownTabTurns, TargetsAssumption
    <3>2. CASE TabShows(act.target, BlankUrl, attached) /\ Drift(act.target)
      <4>1. Follows(cache, cache') /\ Follows(listing, listing') /\ tab' \in [Targets -> TabValues]
        BY <1>1, <2>1, <3>2, DriftFollows, ShownTabTurns, TargetsAssumption
      <4>2. QED
        BY <1>1, <1>2, <2>1, <4>1, FollowingKeepsCache, FollowersAreTyped
    <3>3. CASE KeepCache /\ (TabCloses(act.target) \/ Quiet)
      <4>1. tab' \in [Targets -> TabValues] /\ TabsKept
        BY <1>1, <2>1, <3>3, ClosedTabIsKept DEF Quiet, TabsKept
      <4>2. Follows(cache, cache') /\ Follows(listing, listing')
        BY <1>1, <3>3, <4>1, TabsKeptFollow DEF KeepCache
      <4>3. QED
        BY <1>1, <1>2, <2>1, <4>1, <4>2, FollowingKeepsCache, FollowersAreTyped
    <3>4. QED
      BY <1>4, <3>1, <3>2, <3>3 DEF WatchdogCommands
  <2>3. QED
    BY <1>1, <1>2, <2>2, PageStepKeepsPage DEF TargetsKept, PageStays
<1>5. QED
  BY <1>3, <1>4 DEF WatchdogNext

-----------------------------------------------------------------------------
(* What a call does to the page and the elements *)

\* The elements a call does not touch are there or dropped after it.
SimpleStep == \* of all but the page and what is known of it
  \/ StartCall \/ ResolvesTab \/ ReturnsState \/ TakesPendingError \/ ListsTabs
  \/ EndsRound \/ Settles \/ ReattachesPage \/ KeepsStalePage \/ SetsPage \/ ClearsCache
  \/ CreatesTab \/ AttachesTab \/ ClosesTab \/ LeavesClosedTab \/ AttachesElementTab

\* Most steps of a call drop the elements or leave them, and move no open tab.
LEMMA SimpleStepFollows ==
  ASSUME PageTypeOK, CallTypeOK, SimpleStep
  PROVE  /\ tab' \in [Targets -> TabValues] /\ TabsKept
         /\ cache' \in {cache, NoDom} /\ listing' = listing
         /\ gen' = gen /\ attached \subseteq attached' /\ attached' \subseteq Targets
<1>1. /\ tab \in [Targets -> TabValues] /\ attached \subseteq Targets
      /\ call.cur.target \in Targets
  BY DEF PageTypeOK, CallTypeOK, Calls, Pages
<1>2. cache' \in {cache, NoDom} /\ listing' = listing /\ gen' = gen
  BY DEF SimpleStep, StartCall, StartNavigate, Starts, ResolvesTab, ReturnsState, TakesPendingError,
     ListsTabs, EndsRound, Settles, ReattachesPage, KeepsStalePage, SetsPage, ClearsCache,
     CreatesTab, AttachesTab, ClosesTab, LeavesClosedTab, AttachesElementTab,
     KeepPage, KeepCache, ClearCache, KeepChrome, KeepConnection
<1>3. tab' \in [Targets -> TabValues] /\ TabsKept
  <2>1. CASE Quiet
    BY <1>1, <2>1 DEF Quiet, TabsKept
  <2>2. CASE \E t \in UnbornTargets, u \in Urls : TabShows(t, u, attached)
    <3>1. PICK t \in UnbornTargets, u \in Urls : TabShows(t, u, attached)
      BY <2>2
    <3>2. t \in Targets /\ tab[t] = Unborn
      BY DEF UnbornTargets
    <3>3. QED
      BY <3>1, <3>2, ShownTabTurns
  <2>3. CASE ClosesTab
    BY <2>3, ClosedTabIsKept DEF ClosesTab, Open
  <2>4. QED
    BY <2>1, <2>2, <2>3, TargetsAssumption DEF SimpleStep, StartCall, StartNavigate, Starts, ResolvesTab, ReturnsState,
       TakesPendingError, ListsTabs, EndsRound, Settles, ReattachesPage, KeepsStalePage, SetsPage,
       ClearsCache, CreatesTab, AttachesTab, LeavesClosedTab, AttachesElementTab, KeepChrome,
       AttachesOrCreates, Attaches, Creates, CreatesOnly
<1>4. attached \subseteq attached' /\ attached' \subseteq Targets
  <2>1. attached' = attached \/ \E t \in Targets : attached' = attached \cup {t}
    BY <1>1 DEF SimpleStep, StartCall, StartNavigate, Starts, ResolvesTab, ReturnsState,
       TakesPendingError, ListsTabs, EndsRound, Settles, ReattachesPage, KeepsStalePage, SetsPage,
       ClearsCache, CreatesTab, AttachesTab, LeavesClosedTab, AttachesElementTab, ClosesTab, KeepChrome,
       AttachesOrCreates, Attaches, Creates, CreatesOnly, Open
  <2>2. QED
    BY <1>1, <2>1
<1>5. QED
  BY <1>2, <1>3, <1>4

\* Where an enforcement, and a call for the current page, come next.
LEMMA EnforceStages ==
  ASSUME NEW rounds, Enforce(rounds)
  PROVE  call'.stage \in {"take", "capture", "page", "idle"}
<1> DEFINE c == [IdleCall EXCEPT !.op = IF call.op = "state" THEN call.op ELSE None,
                                 !.urls = call.urls]
           d == [c EXCEPT !.stage = "take", !.rounds = rounds, !.urls = <<>>]
<1>1. /\ d.stage = "take" /\ [c EXCEPT !.stage = "capture", !.cur = page].stage = "capture"
      /\ [c EXCEPT !.stage = "page", !.then = "capture"].stage = "page" /\ IdleCall.stage = "idle"
  BY DEF IdleCall
<1>2. call' = d \/ GotoPage(c, "capture") \/ Return(Succeeded)
  BY DEF Enforce
<1> HIDE DEF c, d
<1>3. QED
  BY <1>1, <1>2 DEF GotoPage, OnCurrentPage, Return

\* The current page is there, or it is attached to first.
LEMMA GotoPageStages ==
  ASSUME NEW c \in Calls, NEW then, GotoPage(c, then)
  PROVE  call'.stage \in {then, "page"}
BY DEF GotoPage, OnCurrentPage, Calls

\* A page is about to be the current one only when it has just been attached.
LEMMA ComesToViewport ==
  ASSUME CallTypeOK, PageTypeOK, SessionNext, call'.stage = "viewport"
  PROVE  \E t \in Targets : GotoAttached(t) /\ (Attaches(t) \/ AttachesOrCreates(t))
<1> USE TargetsAssumption
<1>1. call \in Calls /\ call.cur.target \in Targets /\ IdleCall.stage = "idle" /\ "viewport" \notin PageStages
  BY DEF CallTypeOK, Calls, Pages, IdleCall, PageStages
<1>2. \A o : ~Return(o)
  BY <1>1 DEF Return
<1>3. \A rounds : ~Enforce(rounds)
  BY EnforceStages
<1>4. ASSUME NEW c \in Calls, NEW then \in PageStages, GotoPage(c, then) PROVE FALSE
  BY <1>1, <1>4, GotoPageStages
<1>5. ~StartCall
  <2>1. /\ \A op, then : PageOp(op, then).stage \in {then, "page"}
        /\ \A op, then, t : [PageOp(op, then) EXCEPT !.target = t].stage \in {then, "page"}
        /\ \A op, stage, t : Op(op, stage, t).stage = stage
        /\ [Op("state", "take", None) EXCEPT !.rounds = 1].stage = "take"
    BY DEF PageOp, OnCurrentPage, Op, IdleCall
  <2>2. \A c : c.stage \in {"command", "effect", "capture", "page", "create", "resolve", "take"}
              => ~Starts(c)
    BY DEF Starts
  <2>3. /\ \A op, then : then \in {"command", "effect", "capture"} => ~Starts(PageOp(op, then))
        /\ \A t : ~Starts([PageOp("act", "effect") EXCEPT !.target = t])
        /\ \A op, t : ~Starts(Op(op, "create", t)) /\ ~Starts(Op(op, "resolve", t))
        /\ ~Starts([Op("state", "take", None) EXCEPT !.rounds = 1])
    <3>1. ASSUME NEW op, NEW then \in {"command", "effect", "capture"} PROVE ~Starts(PageOp(op, then))
      <4>1. PageOp(op, then).stage \in {"command", "effect", "capture", "page"}
        BY <2>1
      <4>2. QED
        BY <2>2, <4>1
    <3>2. ASSUME NEW t PROVE ~Starts([PageOp("act", "effect") EXCEPT !.target = t])
      <4> DEFINE c == [PageOp("act", "effect") EXCEPT !.target = t]
      <4>1. c.stage \in {"effect", "page"}
        BY <2>1
      <4> HIDE DEF c
      <4>2. ~Starts(c)
        BY <2>2, <4>1
      <4>3. QED
        BY <4>2 DEF c
    <3>3. ASSUME NEW op, NEW t, NEW stage \in {"create", "resolve"} PROVE ~Starts(Op(op, stage, t))
      <4>1. Op(op, stage, t).stage \in {"create", "resolve"}
        BY <2>1
      <4>2. QED
        BY <2>2, <4>1
    <3>4. ~Starts([Op("state", "take", None) EXCEPT !.rounds = 1])
      <4> DEFINE c == [Op("state", "take", None) EXCEPT !.rounds = 1]
      <4>1. c.stage = "take"
        BY <2>1
      <4> HIDE DEF c
      <4>2. ~Starts(c)
        BY <2>2, <4>1
      <4>3. QED
        BY <4>2 DEF c
    <3>5. QED
      BY <3>1, <3>2, <3>3, <3>4
  <2>4. \A url, newTab : ~StartNavigate(url, newTab)
    BY <1>2, <2>3 DEF StartNavigate
  <2>5. QED
    BY <2>3, <2>4 DEF StartCall
<1>6. ~(CommandFails \/ ReturnsState \/ Settles)
  BY <1>2 DEF CommandFails, GivesUp, ReturnsState, Settles
<1>7. ~(KeepsStalePage \/ ClearsCache)
  <2>1. SUFFICES ASSUME call'.stage = call.then, call.then # None \/ call.stage = "page" PROVE FALSE
    BY <1>1, <1>3 DEF KeepsStalePage, ClearsCache, At, Calls
  <2>2. QED
    BY <1>1, <2>1 DEF CallTypeOK, Calls
<1>8. ~(SetsPage \/ CreatesTab \/ ResolvesTab \/ AttachesElementTab \/ ListsElements \/ TakesPendingError)
  BY <1>1, <1>2 DEF SetsPage, CreatesTab, ResolvesTab, AttachesElementTab, ListsElements,
     TakesPendingError, Goto, Calls
<1>9. ~(Navigates \/ ActsOnPage)
  BY <1>2, <1>3 DEF Navigates, ActsOnPage, GivesUp
<1>10. ~(ClosesTab \/ StoresElements)
  BY <1>1, <1>2, <1>4 DEF ClosesTab, StoresElements, GivesUp, PageStages
<1>11. ~ListsTabs
  <2>1. SUFFICES ASSUME ListsTabs PROVE FALSE
    OBVIOUS
  <2>2. [call EXCEPT !.urls = [t \in Targets |-> IF t \in ForbiddenTabs THEN tab[t] ELSE None],
                     !.todo = ForbiddenTabs] \in Calls
    BY <1>1 DEF Calls, Listings, ForbiddenTabs, Open
  <2>3. QED
    BY <1>4, <2>1, <2>2 DEF ListsTabs, PageStages
<1>12. ~EnforcesOnTab
  <2>1. SUFFICES ASSUME EnforcesOnTab PROVE FALSE
    OBVIOUS
  <2>2. \A t : DealtWith(t) => call'.stage = call.stage
    BY <1>1 DEF DealtWith, Calls
  <2>3. QED
    BY <1>2, <2>1, <2>2 DEF EnforcesOnTab, ResetsCurrentTab, ClosesOtherTab, GivesUp, At
<1>13. ~EndsRound
  BY <1>1, <1>3 DEF EndsRound, Calls
<1>14. CASE ReattachesPage \/ AttachesTab
  BY <1>1, <1>14 DEF ReattachesPage, AttachesTab
<1>15. CASE LeavesClosedTab
  BY <1>2, <1>3, <1>15 DEF LeavesClosedTab, GivesUp
<1>16. QED
  BY <1>5, <1>6, <1>7, <1>8, <1>9, <1>10, <1>11, <1>12, <1>13, <1>14, <1>15 DEF SessionNext

\* Only a call that is about to cache elements, or gives up, has listed some.
LEMMA OthersHaveListedNothing ==
  ASSUME CallTypeOK, CacheInv, SessionNext, ~StoresElements, ~CommandFails
  PROVE  listing = NoDom
<1>1. call.stage # "store"
  BY DEF SessionNext, StartCall, StartNavigate, Starts, ReattachesPage, KeepsStalePage, SetsPage,
     ClearsCache, Navigates, CreatesTab, ResolvesTab, AttachesTab, ClosesTab, LeavesClosedTab,
     AttachesElementTab, ActsOnPage, ListsElements, ReturnsState, TakesPendingError, ListsTabs,
     EnforcesOnTab, EndsRound, Settles, At
<1>2. QED
  BY <1>1 DEF CacheInv, ListingIsOfPage

\* A page becomes the current one by SetsPage alone, when it has been attached.
LEMMA SessionTurnsPage ==
  ASSUME CallTypeOK, PageTypeOK, SessionNext
  PROVE  /\ page' = page \/ (call.stage = "viewport" /\ page' = call.cur /\ attached' = attached
                             /\ call'.stage = "clear")
         /\ gen' = gen /\ act' = act
<1>1. page' = page \/ SetsPage
  BY DEF SessionNext, StartCall, StartNavigate, Starts, ReattachesPage, KeepsStalePage,
     ClearsCache, CommandFails, Navigates, CreatesTab, ResolvesTab, AttachesTab, ClosesTab, LeavesClosedTab,
     AttachesElementTab, ActsOnPage, ListsElements, StoresElements, ReturnsState, TakesPendingError, ListsTabs,
     EnforcesOnTab, EndsRound, Settles, KeepPage
<1>2. gen' = gen /\ act' = act
  BY DEF SessionNext, StartCall, StartNavigate, Starts, ReattachesPage, KeepsStalePage, SetsPage,
     ClearsCache, CommandFails, Navigates, CreatesTab, ResolvesTab, AttachesTab, ClosesTab, LeavesClosedTab,
     AttachesElementTab, ActsOnPage, ListsElements, StoresElements, ReturnsState, TakesPendingError, ListsTabs,
     EnforcesOnTab, EndsRound, Settles, KeepChrome, KeepConnection, watchdogVars
<1>3. SetsPage => /\ call.stage = "viewport" /\ page' = call.cur /\ attached' = attached
                  /\ call'.stage = "clear"
  BY DEF SetsPage, At, KeepChrome, Goto, CallTypeOK, Calls
<1>4. QED
  BY <1>1, <1>2, <1>3

\* Nothing but the capture changes the elements other than as their tab says.
LEMMA SessionFollows ==
  ASSUME PageTypeOK, CacheInv, CallTypeOK, WorksOnPage, SessionNext, ~ListsElements, ~StoresElements
  PROVE  /\ tab' \in [Targets -> TabValues] /\ attached \subseteq attached' /\ attached' \subseteq Targets
         /\ Follows(cache, cache') /\ listing' = NoDom
         /\ call.stage = "clear" => cache' = NoDom \/ "switched" \in cache'.since
<1> USE TargetsAssumption
<1>1. /\ tab \in [Targets -> TabValues] /\ attached \subseteq Targets
      /\ cache \in {NoDom} \cup ListedElements
      /\ call.cur.target \in Targets /\ call.todo \subseteq Targets
  BY DEF PageTypeOK, CallTypeOK, Calls, Pages
<1>2. \A t \in Targets, mark \in {"moved", "switched"} : Marked(NoDom, t, mark) = NoDom
  BY MarkedElements
<1>3. CASE SimpleStep
  <2>1. /\ tab' \in [Targets -> TabValues] /\ TabsKept
        /\ cache' \in {cache, NoDom} /\ listing' = listing
        /\ attached \subseteq attached' /\ attached' \subseteq Targets
    BY <1>3, SimpleStepFollows
  <2>2. listing = NoDom
    BY <1>3, OthersHaveListedNothing DEF SimpleStep, StartCall, StartNavigate, Starts, ResolvesTab,
       ReturnsState, TakesPendingError, ListsTabs, EndsRound, Settles, ReattachesPage, KeepsStalePage,
       SetsPage, ClearsCache, CreatesTab, AttachesTab, ClosesTab, LeavesClosedTab, AttachesElementTab,
       At, CacheInv, ListingIsOfPage
  <2>3. Follows(cache, cache')
    BY <2>1, <2>2, TabsKeptFollow
  <2>4. call.stage = "clear" => cache' = NoDom
    BY <1>3 DEF SimpleStep, StartCall, StartNavigate, Starts, ResolvesTab,
       ReturnsState, TakesPendingError, ListsTabs, EndsRound, Settles, ReattachesPage, KeepsStalePage,
       SetsPage, ClearsCache, CreatesTab, AttachesTab, ClosesTab, LeavesClosedTab, AttachesElementTab,
       At, ClearCache
  <2>5. QED
    BY <2>1, <2>2, <2>3, <2>4
<1>4. CASE CommandFails
  <2>1. tab' = tab /\ listing' = NoDom /\ attached \subseteq attached' /\ attached' \subseteq Targets
    BY <1>1, <1>4 DEF CommandFails, Quiet
  <2>2. TabsKept
    BY <2>1 DEF TabsKept
  <2>3. CASE call.stage # "clear"
    <3>1. cache' = cache
      BY <1>4, <2>3 DEF CommandFails, At
    <3>2. QED
      BY <1>1, <2>1, <2>2, <2>3, <3>1, KeptFollows
  <2>4. CASE call.stage = "clear"
    <3>1. cache' = Marked(cache, cache.target, "switched")
      BY <1>4, <2>4 DEF CommandFails, At
    <3>2. CASE cache = NoDom
      <4>1. cache' = NoDom
        BY <1>1, <3>1, <3>2, MarkedElements
      <4>2. QED
        BY <1>1, <2>1, <4>1 DEF Follows
    <3>3. CASE cache # NoDom
      <4>1. /\ cache' \in {NoDom} \cup ListedElements /\ cache' # NoDom
            /\ cache'.target = cache.target /\ cache'.gen = cache.gen /\ cache'.url = cache.url
            /\ cache.since \subseteq cache'.since /\ "switched" \in cache'.since
            /\ cache.target \in Targets
        <5>1. NoDom \notin ListedElements
          BY DEF NoDom, ListedElements
        <5>2. cache.target # NoDom.target
          BY <1>1, <3>3, MarkedElements DEF NoDom
        <5>3. QED
          BY <1>1, <3>1, <3>3, <5>2, MarkedElements
      <4>2. Follows(cache, cache')
        BY <2>1, <3>3, <4>1 DEF Follows
      <4>3. QED
        BY <1>1, <2>1, <4>1, <4>2
    <3>4. QED
      BY <3>2, <3>3
  <2>5. QED
    BY <2>3, <2>4
<1>5. CASE Navigates \/ ActsOnPage \/ EnforcesOnTab
  <2>1. listing = NoDom /\ call.stage # "clear" /\ attached' = attached
    BY <1>5, OthersHaveListedNothing DEF Navigates, ActsOnPage, EnforcesOnTab, At, CacheInv, ListingIsOfPage
  <2>2. \/ \E t \in Targets, u \in Urls : TabShows(t, u, attached) /\ (ClearCache \/ Drift(t))
        \/ \E t \in Targets : TabCloses(t) /\ (ClearCache \/ KeepCache)
        \/ Quiet /\ (ClearCache \/ KeepCache)
    <3>1. CASE Navigates
      BY <1>1, <3>1 DEF Navigates
    <3>2. CASE ActsOnPage
      BY <1>1, <3>2 DEF ActsOnPage
    <3>3. CASE EnforcesOnTab
      <4>1. PICK t \in Targets : ResetsCurrentTab(t) \/ ClosesOtherTab(t)
        BY <1>1, <3>3 DEF EnforcesOnTab
      <4>2. QED
        BY <4>1 DEF ResetsCurrentTab, ClosesOtherTab
    <3>4. QED
      BY <1>5, <3>1, <3>2, <3>3
  <2>3. CASE \E t \in Targets, u \in Urls : TabShows(t, u, attached) /\ (ClearCache \/ Drift(t))
    <3>1. PICK t \in Targets, u \in Urls : TabShows(t, u, attached) /\ (ClearCache \/ Drift(t))
      BY <2>3
    <3>2. tab' \in [Targets -> TabValues] /\ OnlyTurns(t)
      BY <3>1, ShownTabTurns
    <3>3. listing' = NoDom
      BY <1>2, <2>1, <3>1 DEF ClearCache, Drift
    <3>4. Follows(cache, cache')
      BY <3>1, <3>2, DriftFollows DEF ClearCache, Follows
    <3>5. QED
      BY <1>1, <2>1, <3>2, <3>3, <3>4
  <2>4. CASE (Quiet \/ \E t \in Targets : TabCloses(t)) /\ (ClearCache \/ KeepCache)
    <3>1. tab' \in [Targets -> TabValues] /\ TabsKept
      BY <1>1, <2>4, ClosedTabIsKept DEF Quiet, TabsKept
    <3>2. cache' \in {cache, NoDom} /\ listing' = listing
      BY <2>4 DEF ClearCache, KeepCache
    <3>3. QED
      BY <1>1, <2>1, <3>1, <3>2, TabsKeptFollow
  <2>5. QED
    BY <2>2, <2>3, <2>4
<1>6. QED
  BY <1>3, <1>4, <1>5 DEF SessionNext, SimpleStep

\* Elements are listed on the current page, at the address it shows.
LEMMA ListsElementsKeepsCache ==
  ASSUME PageTypeOK, CacheInv, CallTypeOK, WorksOnPage, ListsElements
  PROVE  CacheInv' /\ listing' \in {NoDom} \cup ListedElements
<1> USE TargetsAssumption
<1>1. /\ call.stage = "capture" /\ call.cur = page /\ page.target \in Open /\ page \in Pages
      /\ tab[page.target] \in Urls /\ page.target \in Targets /\ page.gen \in 0..MaxReconnects
  BY DEF ListsElements, At, WorksOnPage, PageStages, Usable, Open, PageTypeOK, Pages
<1>2. listing' = Cached(page, tab[page.target])
      /\ UNCHANGED <<tab, page, cache, act>> /\ call'.stage = "store"
  BY <1>1 DEF ListsElements, KeepChrome, KeepConnection, Quiet, watchdogVars, Goto, CallTypeOK, Calls
<1>3. /\ listing'.target = page.target /\ listing'.gen = page.gen /\ listing'.url = tab[page.target]
      /\ listing' \in ListedElements
  BY <1>1, <1>2 DEF Cached, ListedElements
<1>4. AttachedPage(page.target, page.gen) = page
  BY <1>1 DEF AttachedPage, Pages
<1>5. CacheIsOfPage' /\ CacheIsShown'
  BY <1>1, <1>2 DEF CacheInv, CacheIsOfPage, CacheIsShown, Shown
<1>6. ListingIsOfPage'
  BY <1>1, <1>2, <1>3, <1>4 DEF ListingIsOfPage, Shown
<1>7. QED
  BY <1>3, <1>5, <1>6 DEF CacheInv

\* What is cached is what was listed, with what befell its page since.
LEMMA StoresElementsKeepsCache ==
  ASSUME PageTypeOK, CacheInv, CallTypeOK, StoresElements
  PROVE  CacheInv'
<1>1. cache' = listing /\ listing' = NoDom /\ UNCHANGED <<tab, page, act>>
  BY DEF StoresElements, KeepChrome, KeepConnection, Quiet, watchdogVars
<1>2. CacheIsOfPage' /\ CacheIsShown'
  BY <1>1 DEF CacheInv, ListingIsOfPage, CacheIsOfPage, CacheIsShown, Shown
<1>3. ListingIsOfPage'
  BY <1>1 DEF ListingIsOfPage
<1>4. QED
  BY <1>2, <1>3 DEF CacheInv

\* Each step of a call leaves the page attached, and the elements of it unless
\* the call is given up before it drops those of the page before.
LEMMA SessionKeepsPage ==
  ASSUME PageInv, CacheInv, CallTypeOK, WorksOnPage, SessionNext
  PROVE  PageInv' /\ CacheInv'
<1>1. /\ PageTypeOK /\ tab \in [Targets -> TabValues] /\ attached \subseteq Targets
      /\ gen \in 0..MaxReconnects
      /\ cache \in {NoDom} \cup ListedElements /\ listing \in {NoDom} \cup ListedElements
  BY DEF PageInv, PageTypeOK
<1>2. /\ page' = page \/ (call.stage = "viewport" /\ page' = call.cur /\ attached' = attached
                          /\ call'.stage = "clear")
      /\ gen' = gen /\ act' = act
  BY <1>1, SessionTurnsPage
<1>3. /\ tab' \in [Targets -> TabValues] /\ attached \subseteq attached' /\ attached' \subseteq Targets
      /\ cache' \in {NoDom} \cup ListedElements /\ listing' \in {NoDom} \cup ListedElements
      /\ CacheInv'
  <2>1. CASE ListsElements
    BY <1>1, <2>1, ListsElementsKeepsCache DEF ListsElements, KeepChrome, Quiet
  <2>2. CASE StoresElements
    BY <1>1, <2>2, StoresElementsKeepsCache DEF StoresElements, KeepChrome, Quiet
  <2>3. CASE ~ListsElements /\ ~StoresElements
    <3>1. /\ tab' \in [Targets -> TabValues] /\ attached \subseteq attached' /\ attached' \subseteq Targets
          /\ Follows(cache, cache') /\ listing' = NoDom
          /\ call.stage = "clear" => cache' = NoDom \/ "switched" \in cache'.since
      BY <1>1, <2>3, SessionFollows
    <3>2. Follows(listing, listing')
      BY <3>1 DEF Follows
    <3>3. CacheInv'
      BY <1>1, <1>2, <3>1, <3>2, FollowingKeepsCache
    <3>4. QED
      BY <3>1, <3>2, <3>3, FollowersAreTyped
  <2>4. QED
    BY <2>1, <2>2, <2>3
<1>4. call'.stage = "viewport" => \E p \in Pages : NextPage(p)
  <2>1. SUFFICES ASSUME call'.stage = "viewport" PROVE \E p \in Pages : NextPage(p)
    OBVIOUS
  <2>2. PICK t \in Targets : GotoAttached(t) /\ (Attaches(t) \/ AttachesOrCreates(t))
    BY <1>1, <2>1, ComesToViewport
  <2>3. t \in attached' /\ AttachedPage(t, gen) \in Pages
    BY <1>1, <2>2, AttachedTabIsAttached DEF AttachedPage, Pages
  <2>4. call'.cur = AttachedPage(t, gen)
    BY <2>2 DEF GotoAttached, CallTypeOK, Calls
  <2>5. QED
    BY <2>3, <2>4 DEF NextPage, AttachedPage
<1>5. TargetsKept
  BY <1>2, <1>3 DEF TargetsKept
<1>6. PageInv'
  BY <1>2, <1>3, <1>4, <1>5, PageStepKeepsPage DEF PageStays
<1>7. QED
  BY <1>3, <1>6

-----------------------------------------------------------------------------
(* What a call knows at each of its stages *)

\* A call that needs the current page either has it or is about to attach it.
LEMMA GoesToPage ==
  ASSUME NEW c \in Calls, c.then = None, NEW then \in PageStages, call' = OnCurrentPage(c, then),
         outcome' \in Outcomes, page \in Pages, page' = page
  PROVE  /\ CallTypeOK' /\ WorksOnPage' /\ Heading' = then
         /\ call'.op = c.op /\ call'.urls = c.urls /\ call'.todo = c.todo /\ call'.blocked = c.blocked
<1>1. then \notin TurnStages /\ then # None /\ "page" \in TurnStages /\ "page" \notin PageStages \cup {"clear", "store"}
  BY TargetsAssumption DEF PageStages, TurnStages, None
<1>2. CASE page.gen = gen
  <2>1. call' = [c EXCEPT !.stage = then, !.cur = page]
    BY <1>2 DEF OnCurrentPage
  <2>2. call' \in Calls /\ call'.stage = then /\ call'.cur = page /\ call'.then = None
    BY <2>1 DEF Calls, Stages
  <2>3. then # "page"
    BY <1>1
  <2>4. QED
    BY <1>1, <2>1, <2>2, <2>3 DEF Calls, CallTypeOK, WorksOnPage, Heading
<1>3. CASE page.gen # gen
  <2>1. call' = [c EXCEPT !.stage = "page", !.then = then]
    BY <1>3 DEF OnCurrentPage
  <2>2. call' \in Calls /\ call'.stage = "page" /\ call'.then = then
    BY <2>1 DEF Calls, Stages, TurnStages
  <2>3. QED
    BY <1>1, <2>1, <2>2 DEF Calls, CallTypeOK, WorksOnPage, Heading
<1>4. QED
  BY <1>2, <1>3

\* The session without a call.
LEMMA IdleCallIsCall == IdleCall \in Calls /\ IdleCall.then = None /\ IdleCall.stage = "idle"
BY TargetsAssumption DEF IdleCall, Calls, Ops, Stages, PlainStages, Pages, AttachedPage

\* A stage at which a call has yet to list the tabs and is no capture.
LEMMA PlainStageKeepsCall ==
  ASSUME call' \in Calls, outcome' \in Outcomes, call'.then = None,
         call'.stage \in PlainStages,
         call'.stage \in {"create", "attach", "resolve", "closeTarget", "element"} => call'.op # "state"
  PROVE  CallInv'
<1>1. Heading' = call'.stage
  BY DEF Heading
<1>2. QED
  BY <1>1 DEF CallInv, CallTypeOK, WorksOnPage, OnlyStateCaptures, EnforcesListed, CapturesEnforced,
     PageStages, TurnStages, PlainStages

\* A call that returns leaves nothing to know.
LEMMA ReturnKeepsCall ==
  ASSUME NEW o \in Outcomes, Return(o)
  PROVE  CallInv'
<1>1. call' \in Calls /\ call'.stage = "idle" /\ outcome' \in Outcomes /\ call'.then = None
  BY IdleCallIsCall DEF Return
<1>2. QED
  BY <1>1, PlainStageKeepsCall DEF PlainStages

\* The same call once its page is being attached, is the current one, or has
\* its elements dropped: it is on the way it was.
LEMMA TurningKeepsCall ==
  ASSUME CallInv, call \in Calls, outcome' = outcome, NEW p \in Pages, NEW stage \in {"viewport", "clear"},
         call' = [call EXCEPT !.stage = stage, !.cur = p], stage = "clear" => p = page',
         call.stage \in TurnStages \/ call.op # "state"
  PROVE  CallInv'
<1>1. /\ call' \in Calls /\ call'.stage = stage /\ call'.cur = p /\ call'.then = call.then
      /\ call'.op = call.op /\ call'.urls = call.urls /\ call'.todo = call.todo
      /\ call'.blocked = call.blocked
  BY DEF Calls, Stages, TurnStages
<1>2. stage \in TurnStages /\ stage \notin PageStages /\ stage # "page"
  BY DEF TurnStages, PageStages
<1>3. CallTypeOK'
  BY <1>1, <1>2 DEF CallInv, CallTypeOK
<1>4. WorksOnPage'
  BY <1>1, <1>2 DEF WorksOnPage, PageStages
<1>5. CASE call.then # None
  <2>1. call.stage \in TurnStages
    BY <1>5 DEF CallInv, CallTypeOK
  <2>2. Heading' = call.then /\ Heading = call.then
    BY <1>1, <1>2, <1>5, <2>1 DEF Heading
  <2>3. OnlyStateCaptures' /\ EnforcesListed' /\ CapturesEnforced'
    BY <1>1, <2>2 DEF CallInv, OnlyStateCaptures, EnforcesListed, CapturesEnforced
  <2>4. QED
    BY <1>3, <1>4, <2>3 DEF CallInv
<1>6. CASE call.then = None
  <2>1. Heading' = stage /\ Heading = call.stage
    BY <1>1, <1>2, <1>6 DEF Heading
  <2>2. call.op # "state"
    <3>1. SUFFICES ASSUME call.stage \in TurnStages PROVE call.op # "state"
      OBVIOUS
    <3>2. None \notin PageStages
      BY DEF None, PageStages
    <3>3. call.stage \in {"viewport", "clear"}
      BY <1>6, <3>1, <3>2 DEF TurnStages, CallInv, CallTypeOK
    <3>4. QED
      BY <2>1, <3>3 DEF CallInv, OnlyStateCaptures
  <2>3. QED
    BY <1>1, <1>3, <1>4, <2>1, <2>2 DEF CallInv, OnlyStateCaptures, EnforcesListed, CapturesEnforced
<1>7. QED
  BY <1>5, <1>6

\* A call that has the page it was on the way to, has what it came for.
LEMMA ArrivingKeepsCall ==
  ASSUME CallInv, outcome' = outcome, call.stage \in TurnStages, call.then # None,
         call' = [call EXCEPT !.stage = call.then, !.then = None, !.cur = page'], page' \in Pages
  PROVE  CallInv'
<1>1. call \in Calls /\ call.then \in PageStages /\ outcome \in Outcomes
  BY DEF CallInv, CallTypeOK, Calls
<1>2. /\ call' \in Calls /\ call'.stage = call.then /\ call'.cur = page' /\ call'.then = None
      /\ call'.op = call.op /\ call'.urls = call.urls /\ call'.todo = call.todo
      /\ call'.blocked = call.blocked
  BY <1>1 DEF Calls, Stages
<1>3. Heading' = call.then /\ Heading = call.then
  BY <1>2 DEF Heading
<1>4. OnlyStateCaptures' /\ EnforcesListed' /\ CapturesEnforced'
  BY <1>2, <1>3 DEF CallInv, OnlyStateCaptures, EnforcesListed, CapturesEnforced
<1>5. CallTypeOK' /\ WorksOnPage'
  BY <1>1, <1>2 DEF CallTypeOK, WorksOnPage, PageStages, TurnStages
<1>6. QED
  BY <1>4, <1>5 DEF CallInv

\* A call whose enforcements are over has found no forbidden tab in the last.
LEMMA EnforceKeepsCall ==
  ASSUME CallTypeOK, page \in Pages, NEW rounds \in Int, rounds <= 2, Enforce(rounds),
         call.op = "state" =>
           /\ page' = page
           /\ \/ IsUnrestricted(Policy)
              \/ call.urls \in Listings /\ \A t \in Targets : call.urls[t] \notin Blocked
  PROVE  CallInv'
<1> DEFINE c == [IdleCall EXCEPT !.op = IF call.op = "state" THEN call.op ELSE None,
                                 !.urls = call.urls]
<1>1. c \in Calls /\ c.urls = call.urls /\ c.then = None /\ outcome \in Outcomes
  <2>1. (IF call.op = "state" THEN call.op ELSE None) \in Ops /\ call.urls \in {<<>>} \cup Listings
        /\ outcome \in Outcomes
    BY DEF CallTypeOK, Calls, Ops
  <2>2. QED
    BY <2>1, IdleCallIsCall DEF Calls
<1>2. CASE ~IsUnrestricted(Policy) /\ rounds > 0
  <2>1. /\ call' = [c EXCEPT !.stage = "take", !.rounds = rounds, !.urls = <<>>]
        /\ outcome' = outcome /\ rounds \in 0..2
    BY <1>2 DEF Enforce
  <2>2. call' \in Calls /\ call'.stage = "take" /\ call'.then = None
    BY <1>1, <2>1 DEF Calls, Stages, PlainStages
  <2>3. QED
    BY <1>1, <2>1, <2>2, PlainStageKeepsCall DEF PlainStages
<1>3. CASE ~(~IsUnrestricted(Policy) /\ rounds > 0) /\ call.op = "state"
  <2>1. call' = OnCurrentPage(c, "capture") /\ outcome' = outcome
    BY <1>3 DEF Enforce, GotoPage
  <2>2. "capture" \in PageStages
    BY DEF PageStages
  <2>3. /\ CallTypeOK' /\ WorksOnPage' /\ Heading' = "capture" /\ call'.urls = call.urls
    <3> HIDE DEF c
    <3>1. QED
      BY <1>1, <1>3, <2>1, <2>2, GoesToPage
  <2>4. QED
    BY <1>3, <2>1, <2>3 DEF CallInv, OnlyStateCaptures, EnforcesListed, CapturesEnforced
<1>4. CASE ~(~IsUnrestricted(Policy) /\ rounds > 0) /\ call.op # "state"
  <2>1. Return(Succeeded)
    BY <1>4 DEF Enforce
  <2>2. Succeeded \in Outcomes
    BY DEF Succeeded, Result, Outcomes
  <2>3. QED
    BY <2>1, <2>2, ReturnKeepsCall
<1>5. QED
  BY <1>2, <1>3, <1>4

\* A call that starts has listed nothing yet.
LEMMA StartKeepsCall ==
  ASSUME page \in Pages, cache \in {NoDom} \cup ListedElements, StartCall
  PROVE  CallInv'
<1> DEFINE o == Result(None, None)
<1>1. o \in Outcomes
  BY DEF Result, Outcomes
<1>2. ASSUME NEW op \in Ops \ {"state"}, NEW then \in {"command", "effect"}, NEW t \in Targets \cup {None},
             Starts([PageOp(op, then) EXCEPT !.target = t])
      PROVE  CallInv'
  <2> DEFINE c == [Op(op, "page", None) EXCEPT !.target = t]
  <2>1. then \in PageStages /\ c \in Calls /\ c.op = op /\ c.then = None
    BY IdleCallIsCall DEF PageStages, TurnStages, Op, Calls, Stages
  <2>2. [PageOp(op, then) EXCEPT !.target = t] = OnCurrentPage(c, then)
    BY DEF PageOp, OnCurrentPage, Op, IdleCall
  <2>3. call' = OnCurrentPage(c, then) /\ outcome' = o /\ page' = page
    BY <1>2, <2>2 DEF Starts, KeepPage
  <2> HIDE DEF c
  <2>4. CallTypeOK' /\ WorksOnPage' /\ Heading' = then /\ call'.op = op
    BY <1>1, <2>1, <2>3, GoesToPage
  <2>5. QED
    BY <2>4 DEF CallInv, OnlyStateCaptures, EnforcesListed, CapturesEnforced
<1>3. ASSUME NEW op \in Ops \ {"state"}, NEW then \in {"command", "effect"}, Starts(PageOp(op, then))
      PROVE  CallInv'
  <2>1. PageOp(op, then) = [PageOp(op, then) EXCEPT !.target = None]
    BY DEF PageOp, OnCurrentPage, Op, IdleCall
  <2>2. QED
    BY <1>2, <1>3, <2>1
<1>4. ASSUME NEW op \in Ops, NEW stage \in {"create", "resolve"}, NEW t \in Targets \cup {None},
             Starts(Op(op, stage, t)), op # "state"
      PROVE  CallInv'
  <2>1. /\ Op(op, stage, t) \in Calls /\ Op(op, stage, t).op = op /\ Op(op, stage, t).stage = stage
        /\ Op(op, stage, t).then = None
    BY IdleCallIsCall DEF Op, Calls, Stages, PlainStages
  <2>2. call' = Op(op, stage, t) /\ outcome' = o
    BY <1>4 DEF Starts
  <2>3. QED
    BY <1>1, <1>4, <2>1, <2>2, PlainStageKeepsCall DEF PlainStages
<1>5. CASE \E url \in Urls, newTab \in BOOLEAN : StartNavigate(url, newTab)
  <2>1. PICK url \in Urls, newTab \in BOOLEAN : StartNavigate(url, newTab)
    BY <1>5
  <2>2. CASE Allowed(url)
    <3>1. Starts(Op("navigate", "create", None)) \/ Starts(PageOp("navigate", "command"))
      BY <2>1, <2>2 DEF StartNavigate
    <3>2. QED
      BY <1>3, <1>4, <3>1 DEF Ops
  <2>3. CASE ~Allowed(url)
    <3>1. Return(BlockedAt(url)) /\ BlockedAt(url) \in Outcomes
      BY <2>1, <2>3 DEF StartNavigate, BlockedAt, Result, Outcomes
    <3>2. QED
      BY <3>1, ReturnKeepsCall
  <2>4. QED
    BY <2>2, <2>3
<1>6. CASE \/ Starts(PageOp("go_back", "command"))
           \/ \E t \in {None} \cup ({cache.target} \ {page.target}) :
                 Starts([PageOp("act", "effect") EXCEPT !.target = t])
  <2>1. cache.target \in Targets \cup {None}
    BY DEF NoDom, ListedElements
  <2>2. QED
    BY <1>2, <1>3, <1>6, <2>1 DEF Ops
<1>7. CASE \E t \in Targets : Starts(Op("switch_tab", "resolve", t)) \/ Starts(Op("close_tab", "resolve", t))
  BY <1>4, <1>7 DEF Ops
<1>8. CASE Starts(IF IsUnrestricted(Policy) THEN PageOp("state", "capture")
                  ELSE [Op("state", "take", None) EXCEPT !.rounds = 1])
  <2>1. CASE IsUnrestricted(Policy)
    <3> DEFINE c == Op("state", "page", None)
    <3>1. "capture" \in PageStages /\ c \in Calls /\ c.op = "state" /\ c.then = None
      BY IdleCallIsCall DEF PageStages, TurnStages, Op, Calls, Stages, Ops
    <3>2. /\ call' = OnCurrentPage(c, "capture") /\ outcome' = o /\ page' = page
      BY <1>8, <2>1 DEF Starts, PageOp, KeepPage
    <3> HIDE DEF c
    <3>3. CallTypeOK' /\ WorksOnPage' /\ Heading' = "capture" /\ call'.op = "state"
      BY <1>1, <3>1, <3>2, GoesToPage
    <3>4. QED
      BY <2>1, <3>3 DEF CallInv, OnlyStateCaptures, EnforcesListed, CapturesEnforced
  <2>2. CASE ~IsUnrestricted(Policy)
    <3>1. call' = [Op("state", "take", None) EXCEPT !.rounds = 1] /\ outcome' = o
      BY <1>8, <2>2 DEF Starts
    <3>2. /\ Op("state", "take", None) \in Calls /\ Op("state", "take", None).stage = "take"
          /\ Op("state", "take", None).then = None
      BY IdleCallIsCall DEF Op, Calls, Stages, PlainStages, Ops
    <3>3. call' \in Calls /\ call'.stage = "take" /\ call'.then = None
      BY <3>1, <3>2 DEF Calls
    <3>4. QED
      BY <1>1, <3>1, <3>3, PlainStageKeepsCall DEF PlainStages
  <2>3. QED
    BY <2>1, <2>2
<1>9. QED
  BY <1>5, <1>6, <1>7, <1>8 DEF StartCall

\* Each step of a call leaves what the next one may rely on.
LEMMA SessionKeepsCall ==
  ASSUME CallInv, PageTypeOK, RestTypeOK, SessionNext
  PROVE  CallInv'
<1> USE TargetsAssumption
<1>1. /\ CallTypeOK /\ call \in Calls /\ outcome \in Outcomes /\ page \in Pages
      /\ tab \in [Targets -> TabValues] /\ gen \in 0..MaxReconnects
      /\ cache \in {NoDom} \cup ListedElements
  BY DEF CallInv, CallTypeOK, PageTypeOK
<1>2. /\ \A t \in Targets : AttachedPage(t, gen) \in Pages
      /\ call.target \in Targets \cup {None} /\ call.cur.target \in Targets
  BY <1>1 DEF AttachedPage, Pages, Calls
<1>3. Succeeded \in Outcomes /\ Failed \in Outcomes
      /\ \A u \in Urls \cup {None} : BlockedAt(u) \in Outcomes
  BY DEF Succeeded, Failed, BlockedAt, Result, Outcomes
<1>4. /\ call.stage \notin TurnStages => call.then = None /\ Heading = call.stage
      /\ \A s : At(s) => call.stage = s
  BY DEF CallInv, CallTypeOK, Heading, At
<1>5. call.stage \in {"command", "create", "attach", "resolve", "closeTarget", "effect", "element",
                      "afterClose"} => call.op # "state" /\ call.then = None
  BY <1>4 DEF CallInv, OnlyStateCaptures, TurnStages
<1>6. GivesUp => CallInv'
  BY <1>3, ReturnKeepsCall DEF GivesUp
<1>7. ASSUME NEW stage \in PlainStages, NEW p \in Pages, outcome' = outcome,
             call' = [call EXCEPT !.stage = stage, !.cur = p], call.stage \notin TurnStages,
             stage \in {"create", "attach", "resolve", "closeTarget", "element"} => call.op # "state"
      PROVE  CallInv'
  <2>1. call' \in Calls /\ call'.stage = stage /\ call'.then = None /\ call'.op = call.op
    BY <1>1, <1>4, <1>7 DEF Calls, Stages
  <2>2. QED
    BY <1>1, <1>7, <2>1, PlainStageKeepsCall
<1>8. ASSUME NEW stage \in PlainStages, Goto(stage), call.stage \notin TurnStages,
             stage \in {"create", "attach", "resolve", "closeTarget", "element"} => call.op # "state"
      PROVE  CallInv'
  <2>1. call' = [call EXCEPT !.stage = stage, !.cur = call.cur] /\ call.cur \in Pages
    BY <1>1, <1>8 DEF Goto, Calls
  <2>2. QED
    BY <1>7, <1>8, <2>1 DEF Goto
<1>9. CASE StartCall
  BY <1>1, <1>9, StartKeepsCall
<1>10. CASE CommandFails \/ ReturnsState
  BY <1>3, <1>6, <1>10, ReturnKeepsCall DEF CommandFails, ReturnsState
<1>11. ASSUME NEW t \in Targets, GotoAttached(t), outcome' = outcome,
              call.stage \in TurnStages \/ call.op # "state"
       PROVE  CallInv'
  BY <1>1, <1>2, <1>11, TurningKeepsCall DEF GotoAttached
<1>12. CASE ReattachesPage
  <2>1. PICK t \in Targets : GotoAttached(t) /\ outcome' = outcome /\ call.stage = "page"
    BY <1>12 DEF ReattachesPage, At
  <2>2. QED
    BY <1>11, <2>1 DEF TurnStages
<1>13. CASE KeepsStalePage
  <2>1. /\ call.stage \in TurnStages /\ call.then # None /\ outcome' = outcome /\ page' = page
        /\ call' = [call EXCEPT !.stage = call.then, !.then = None, !.cur = page']
    BY <1>1, <1>13 DEF KeepsStalePage, At, CallTypeOK, TurnStages, PageStages, KeepPage, None
  <2>2. QED
    BY <1>1, <2>1, ArrivingKeepsCall
<1>14. CASE SetsPage
  <2>1. /\ call' = [call EXCEPT !.stage = "clear", !.cur = call.cur] /\ outcome' = outcome
        /\ call.cur = page' /\ call.cur \in Pages /\ call.stage \in TurnStages
    BY <1>1, <1>14 DEF SetsPage, At, Goto, Calls, TurnStages
  <2>2. QED
    BY <1>1, <2>1, TurningKeepsCall
<1>15. CASE ClearsCache
  <2>1. call.stage = "clear" /\ call.cur = page /\ page' = page
    BY <1>15 DEF ClearsCache, At, CallInv, WorksOnPage
  <2>2. CASE call.then # None
    <3>1. /\ call' = [call EXCEPT !.stage = call.then, !.then = None, !.cur = page'] /\ outcome' = outcome
      BY <1>1, <1>15, <2>1, <2>2 DEF ClearsCache, Calls
    <3>2. QED
      BY <1>1, <2>1, <2>2, <3>1, ArrivingKeepsCall DEF TurnStages
  <2>3. CASE call.then = None
    <3>1. Heading = "clear" /\ call.op # "state"
      BY <2>1, <2>3 DEF Heading, CallInv, OnlyStateCaptures
    <3>2. Enforce(1) \/ Enforce(2)
      BY <1>15, <2>3 DEF ClearsCache
    <3>3. QED
      BY <1>1, <3>1, <3>2, EnforceKeepsCall
  <2>4. QED
    BY <2>2, <2>3
<1>16. CASE Navigates
  BY <1>1, <1>4, <1>5, <1>6, <1>16, EnforceKeepsCall DEF Navigates
<1>17. CASE CreatesTab
  <2>1. PICK t \in UnbornTargets : call' = [call EXCEPT !.stage = "attach", !.cur = AttachedPage(t, gen)]
    BY <1>17 DEF CreatesTab
  <2>2. t \in Targets /\ outcome' = outcome /\ call.stage = "create"
    BY <1>17 DEF UnbornTargets, CreatesTab, At
  <2>3. QED
    BY <1>2, <1>5, <1>7, <2>1, <2>2 DEF PlainStages, TurnStages
<1>18. CASE ResolvesTab
  <2>1. call.target \in Targets /\ call.stage = "resolve" /\ outcome' = outcome
    BY <1>18 DEF Open, ResolvesTab, Goto, At
  <2>2. \/ Goto("closeTarget")
        \/ call' = [call EXCEPT !.stage = "attach", !.cur = AttachedPage(call.target, gen)]
    BY <1>18 DEF ResolvesTab
  <2>3. QED
    BY <1>2, <1>5, <1>7, <1>8, <2>1, <2>2 DEF PlainStages, TurnStages
<1>19. CASE AttachesTab
  BY <1>2, <1>4, <1>5, <1>11, <1>19 DEF AttachesTab
<1>20. CASE ClosesTab
  <2>1. CASE GotoPage(call, "afterClose")
    <3>1. call' = OnCurrentPage(call, "afterClose") /\ outcome' = outcome /\ page' = page
      BY <1>20, <2>1 DEF ClosesTab, GotoPage, KeepPage
    <3>2. "afterClose" \in PageStages /\ call.op # "state" /\ call.then = None
      BY <1>4, <1>5, <1>20 DEF PageStages, ClosesTab
    <3>3. CallTypeOK' /\ WorksOnPage' /\ Heading' = "afterClose" /\ call'.op = call.op
      BY <1>1, <3>1, <3>2, GoesToPage
    <3>4. QED
      BY <3>2, <3>3 DEF CallInv, OnlyStateCaptures, EnforcesListed, CapturesEnforced
  <2>2. QED
    BY <1>6, <1>20, <2>1 DEF ClosesTab
<1>21. CASE LeavesClosedTab
  <2>1. call.op # "state"
    BY <1>4, <1>5, <1>21 DEF LeavesClosedTab
  <2>2. CASE \E t \in Targets : GotoAttached(t) /\ outcome' = outcome
    BY <1>11, <2>1, <2>2
  <2>3. CASE GivesUp \/ Enforce(1)
    BY <1>1, <1>6, <2>1, <2>3, EnforceKeepsCall
  <2>4. QED
    BY <1>21, <2>2, <2>3 DEF LeavesClosedTab
<1>22. CASE AttachesElementTab
  <2>1. /\ call' = [call EXCEPT !.stage = "element", !.cur = AttachedPage(call.target, gen)]
        /\ outcome' = outcome /\ call.stage = "effect" /\ call.target \in Targets
    BY <1>22 DEF AttachesElementTab, At, Attaches, Open
  <2>2. QED
    BY <1>2, <1>5, <1>7, <2>1 DEF PlainStages, TurnStages
<1>23. CASE ActsOnPage
  BY <1>1, <1>4, <1>5, <1>6, <1>23, EnforceKeepsCall DEF ActsOnPage
<1>24. CASE ListsElements
  <2>1. call' = [call EXCEPT !.stage = "store"] /\ outcome' = outcome /\ page' = page /\ call.stage = "capture"
    BY <1>24 DEF ListsElements, Goto, At
  <2>2. /\ call' \in Calls /\ call'.stage = "store" /\ call'.then = None /\ call'.cur = call.cur
        /\ call'.urls = call.urls /\ call'.op = call.op /\ Heading = "capture"
    BY <1>1, <1>4, <2>1 DEF Calls, Stages, TurnStages
  <2>3. Heading' = "store" /\ "store" \notin TurnStages
    BY <2>2 DEF Heading, TurnStages
  <2>4. CallTypeOK' /\ WorksOnPage' /\ CapturesEnforced'
    BY <1>1, <2>1, <2>2, <2>3 DEF CallTypeOK, TurnStages, CallInv, WorksOnPage, PageStages, CapturesEnforced
  <2>5. QED
    BY <2>3, <2>4 DEF CallInv, OnlyStateCaptures, EnforcesListed
<1>25. CASE StoresElements
  <2>1. call' = OnCurrentPage(call, "tabs") /\ outcome' = outcome /\ page' = page /\ call.stage = "store"
    BY <1>25 DEF StoresElements, GotoPage, At
  <2>2. "tabs" \in PageStages /\ Heading = "store" /\ call.then = None
    BY <1>4, <2>1 DEF PageStages, TurnStages
  <2>3. CallTypeOK' /\ WorksOnPage' /\ Heading' = "tabs" /\ call'.op = call.op /\ call'.urls = call.urls
    BY <1>1, <2>1, <2>2, GoesToPage
  <2>4. CapturesEnforced'
    BY <2>2, <2>3 DEF CallInv, CapturesEnforced
  <2>5. QED
    BY <2>3, <2>4 DEF CallInv, OnlyStateCaptures, EnforcesListed
<1>26. CASE TakesPendingError
  <2>1. CASE pending # None
    BY <1>3, <1>26, <2>1, ReturnKeepsCall DEF TakesPendingError, RestTypeOK
  <2>2. CASE pending = None
    BY <1>4, <1>8, <1>26, <2>2 DEF TakesPendingError, PlainStages, TurnStages
  <2>3. QED
    BY <2>1, <2>2
<1>27. CASE ListsTabs
  <2> DEFINE c == [call EXCEPT !.urls = [t \in Targets |-> IF t \in ForbiddenTabs THEN tab[t] ELSE None],
                               !.todo = ForbiddenTabs]
  <2>1. call.then = None
    BY <1>4, <1>27 DEF ListsTabs, TurnStages
  <2>2. /\ c \in Calls /\ c.todo = ForbiddenTabs /\ c.then = None /\ c.urls \in Listings
        /\ \A t \in Targets : c.urls[t] = IF t \in ForbiddenTabs THEN tab[t] ELSE None
    BY <1>1, <2>1 DEF Calls, Listings, ForbiddenTabs, Open
  <2>3. call' = OnCurrentPage(c, "enforce") /\ outcome' = outcome /\ page' = page
    BY <1>27 DEF ListsTabs, GotoPage, KeepPage
  <2>4. "enforce" \in PageStages /\ ForbiddenTabs \subseteq Targets /\ None \notin Blocked
        /\ \A t \in ForbiddenTabs : tab[t] \in Blocked
    BY DEF PageStages, ForbiddenTabs, Open, Blocked
  <2> HIDE DEF c
  <2>5. /\ CallTypeOK' /\ WorksOnPage' /\ Heading' = "enforce" /\ call'.urls = c.urls
        /\ call'.todo = ForbiddenTabs
    BY <1>1, <2>2, <2>3, <2>4, GoesToPage
  <2>6. EnforcesListed'
    BY <2>2, <2>4, <2>5 DEF EnforcesListed
  <2>7. QED
    BY <2>5, <2>6 DEF CallInv, OnlyStateCaptures, CapturesEnforced
<1>28. CASE EnforcesOnTab
  <2>1. PICK t \in call.todo : ResetsCurrentTab(t) \/ ClosesOtherTab(t)
    BY <1>28 DEF EnforcesOnTab
  <2>2. CASE DealtWith(t) /\ outcome' = outcome
    <3>1. Heading = "enforce" /\ call.stage = "enforce" /\ call.then = None
      BY <1>4, <1>28 DEF EnforcesOnTab, TurnStages
    <3>2. call.urls \in Listings /\ call.urls[t] \in Blocked /\ \A s \in call.todo : call.urls[s] \in Blocked
      BY <3>1 DEF CallInv, EnforcesListed
    <3>3. None \notin Blocked
      BY DEF Blocked
    <3>4. call' \in Calls
      BY <1>1, <2>2, <3>2 DEF DealtWith, Calls
    <3>5. /\ call'.stage = "enforce" /\ call'.cur = call.cur /\ call'.urls = call.urls
          /\ call'.todo = call.todo \ {t} /\ call'.then = None
          /\ call'.blocked = IF call.blocked = None THEN call.urls[t] ELSE call.blocked
      BY <1>1, <2>2, <3>1 DEF DealtWith, Calls
    <3>6. call'.blocked # None
      BY <3>2, <3>3, <3>5
    <3>7. WorksOnPage'
      BY <1>28, <3>1, <3>5 DEF CallInv, WorksOnPage, PageStages, EnforcesOnTab
    <3>8. Heading' = "enforce" /\ EnforcesListed'
      BY <3>2, <3>5, <3>6 DEF Heading, EnforcesListed
    <3>9. CallTypeOK'
      BY <1>1, <2>2, <3>4, <3>5 DEF CallTypeOK
    <3>10. QED
      BY <3>7, <3>8, <3>9 DEF CallInv, OnlyStateCaptures, CapturesEnforced
  <2>3. QED
    BY <1>6, <2>1, <2>2 DEF ResetsCurrentTab, ClosesOtherTab
<1>29. CASE EndsRound
  <2>1. Heading = "enforce" /\ call.stage = "enforce" /\ call.todo = {} /\ page' = page
    BY <1>4, <1>29 DEF EndsRound, KeepPage, TurnStages
  <2>2. CASE call.blocked # None
    <3>1. /\ call' = [call EXCEPT !.stage = "settle", !.urls = <<>>, !.cur = IdleCall.cur]
          /\ outcome' = outcome /\ IdleCall.cur \in Pages
      BY <1>29, <2>2, IdleCallIsCall DEF EndsRound, Calls
    <3>2. call' \in Calls /\ call'.stage = "settle" /\ call'.then = None
      BY <1>1, <1>4, <2>1, <3>1 DEF Calls, Stages, PlainStages, TurnStages
    <3>3. QED
      BY <1>1, <3>1, <3>2, PlainStageKeepsCall DEF PlainStages
  <2>3. CASE call.blocked = None
    <3>1. Enforce(call.rounds - 1) /\ call.rounds \in 0..2
      BY <1>1, <1>29, <2>3 DEF EndsRound, Calls
    <3>2. call.urls \in Listings /\ \A t \in Targets : call.urls[t] \notin Blocked
      BY <2>1, <2>3 DEF CallInv, EnforcesListed
    <3>3. call.rounds - 1 \in Int /\ call.rounds - 1 <= 2
      BY <3>1
    <3>4. QED
      BY <1>1, <2>1, <3>1, <3>2, <3>3, EnforceKeepsCall
  <2>4. QED
    BY <2>2, <2>3
<1>30. CASE Settles
  <2>1. call.blocked \in Urls \cup {None}
    BY <1>1 DEF Calls, Blocked
  <2>2. QED
    BY <1>3, <1>30, <2>1, ReturnKeepsCall DEF Settles
<1>31. QED
  BY <1>9, <1>10, <1>12, <1>13, <1>14, <1>15, <1>16, <1>17, <1>18, <1>19, <1>20, <1>21, <1>22,
     <1>23, <1>24, <1>25, <1>26, <1>27, <1>28, <1>29, <1>30 DEF SessionNext

-----------------------------------------------------------------------------
(* The theorems *)

\* The variables the three invariants leave out keep their types.
LEMMA RestStaysTyped ==
  ASSUME CallTypeOK, WatchTypeOK, RestTypeOK, BrowserNext
  PROVE  RestTypeOK'
<1> USE TargetsAssumption
<1>1. CASE ChromeNext
  <2>1. pending' = pending
    BY <1>1 DEF ChromeNext, PageMoves, OpensPopup, PageCloses, SubframeMoves, OtherEvent, Reconnect,
       ByItself, shared
  <2>2. moves' = moves \/ Move
    BY <1>1 DEF ChromeNext, PageMoves, OpensPopup, PageCloses, SubframeMoves, OtherEvent, Reconnect
  <2>3. QED
    BY <2>1, <2>2 DEF RestTypeOK, Move
<1>2. CASE WatchdogNext
  <2>1. moves' = moves
    BY <1>2 DEF WatchdogNext, WatchdogLags, WatchdogReceives, WatchdogCommands, WatchdogFinishes, chrome
  <2>2. pending' = pending \/ (WatchdogFinishes /\ pending' = act.url)
    BY <1>2 DEF WatchdogNext, WatchdogLags, WatchdogReceives, WatchdogCommands, WatchdogFinishes,
       shared, KeepFirstError
  <2>3. WatchdogFinishes => act \in Acts
    BY DEF WatchdogFinishes, WatchTypeOK
  <2>4. QED
    BY <2>1, <2>2, <2>3 DEF RestTypeOK, Acts
<1>3. CASE SessionNext
  <2>1. moves' = moves
    BY <1>3 DEF SessionNext, StartCall, StartNavigate, Starts, ReattachesPage, KeepsStalePage, SetsPage,
       ClearsCache, CommandFails, Navigates, CreatesTab, ResolvesTab, AttachesTab, ClosesTab,
       LeavesClosedTab, AttachesElementTab, ActsOnPage, ListsElements, StoresElements, ReturnsState,
       TakesPendingError, ListsTabs, EnforcesOnTab, EndsRound, Settles,
       KeepChrome, KeepConnection
  <2>2. pending' = pending \/ pending' = None
    BY <1>3 DEF SessionNext, StartCall, StartNavigate, Starts, ReattachesPage, KeepsStalePage, SetsPage,
       ClearsCache, CommandFails, Navigates, CreatesTab, ResolvesTab, AttachesTab, ClosesTab,
       LeavesClosedTab, AttachesElementTab, ActsOnPage, ListsElements, StoresElements, ReturnsState,
       TakesPendingError, ListsTabs, EnforcesOnTab, EndsRound, Settles,
       KeepPage
  <2>3. QED
    BY <2>1, <2>2 DEF RestTypeOK
<1>4. QED
  BY <1>1, <1>2, <1>3 DEF BrowserNext

\* A session that has just connected satisfies the invariant.
LEMMA BrowserInitInv == BrowserInit => BrowserInv
<1> SUFFICES ASSUME BrowserInit PROVE BrowserInv
  OBVIOUS
<1> USE TargetsAssumption
<1>1. page \in Pages /\ page.gen = 0 /\ page.target = FirstTarget /\ gen = 0 /\ gen \in 0..MaxReconnects
      /\ attached = {FirstTarget} /\ cache = NoDom /\ listing = NoDom
      /\ call.stage = "idle"
  BY DEF BrowserInit, AttachedPage, Pages, IdleCall
<1>2. tab \in [Targets -> TabValues]
      /\ \A t \in Targets : tab[t] = IF t = FirstTarget THEN BlankUrl ELSE Unborn
  BY DEF BrowserInit, TabValues
<1>3. PageInv
  <2>1. PageTypeOK
    BY <1>1, <1>2 DEF PageTypeOK
  <2>2. page.gen <= gen /\ PageIsAttached /\ NextPageIsAttached
    BY <1>1 DEF PageIsAttached, NextPageIsAttached
  <2>3. QED
    BY <2>1, <2>2 DEF PageInv
<1>4. BlankUrl \notin Blocked /\ Unborn \notin Blocked
  BY DEF Blocked, Allowed
<1>5. events = <<>> /\ events \in Seq(CdpEvents) /\ Len(events) = 0 /\ 0 <= EventCapacity
  BY DEF BrowserInit
<1>6. discovering \in BOOLEAN /\ watching \in BOOLEAN /\ lagged \in BOOLEAN
  BY DEF BrowserInit, IsUnrestricted
<1>7. act = NoAction /\ gaveUp = {}
  BY DEF BrowserInit
<1>8. WatchTypeOK
  BY <1>1, <1>2, <1>5, <1>6, <1>7 DEF WatchTypeOK
<1>9. TargetEventsAreBlocked /\ ForbiddenIsNoticed
  <2>1. \A t \in Targets : tab[t] \notin Blocked
    BY <1>2, <1>4
  <2>2. QED
    BY <1>5, <2>1 DEF TargetEventsAreBlocked, ForbiddenIsNoticed
<1>10. call \in Calls /\ call.stage = "idle" /\ call.then = None /\ outcome \in Outcomes
  BY IdleCallIsCall DEF BrowserInit, Result, Outcomes
<1>11. CallInv
  BY <1>10 DEF CallInv, CallTypeOK, WorksOnPage, OnlyStateCaptures, EnforcesListed, CapturesEnforced,
     Heading, PageStages, TurnStages
<1>12. RestTypeOK
  BY DEF BrowserInit, RestTypeOK
<1>13. CacheInv
  BY <1>1 DEF CacheInv, CacheIsOfPage, CacheIsShown, ListingIsOfPage
<1>14. QED
  BY <1>3, <1>8, <1>9, <1>11, <1>12, <1>13 DEF BrowserInv, WatchInv

\* Every step of Chrome, the watchdog or the session keeps it.
LEMMA BrowserStepKeepsInv == BrowserInv /\ [BrowserNext]_browserUseVars => BrowserInv'
<1> SUFFICES ASSUME BrowserInv, [BrowserNext]_browserUseVars PROVE BrowserInv'
  OBVIOUS
<1>1. /\ CallInv /\ CallTypeOK /\ WorksOnPage /\ PageInv /\ PageTypeOK /\ CacheInv
      /\ WatchInv /\ WatchTypeOK /\ RestTypeOK
  BY DEF BrowserInv, CallInv, PageInv, WatchInv
<1>2. CASE ChromeNext /\ UNCHANGED <<watchdogVars, sessionVars>>
  <2>1. PageInv' /\ CacheInv' /\ WatchInv' /\ RestTypeOK'
    BY <1>1, <1>2, ChromeKeepsPage, ChromeKeepsWatch, RestStaysTyped DEF BrowserNext
  <2>2. UNCHANGED <<call, outcome, page>>
    BY <1>2 DEF sessionVars, ChromeNext, PageMoves, OpensPopup, PageCloses, SubframeMoves, OtherEvent,
       Reconnect, ByItself, shared
  <2>3. CallInv'
    BY <1>1, <2>2 DEF CallInv, CallTypeOK, WorksOnPage, OnlyStateCaptures, EnforcesListed,
       CapturesEnforced, Heading
  <2>4. QED
    BY <2>1, <2>3 DEF BrowserInv
<1>3. CASE WatchdogNext /\ UNCHANGED sessionVars
  <2>1. PageInv' /\ CacheInv' /\ WatchInv' /\ RestTypeOK'
    BY <1>1, <1>3, WatchdogKeepsPage, WatchdogKeepsWatch, RestStaysTyped DEF BrowserNext
  <2>2. UNCHANGED <<call, outcome, page>>
    BY <1>3 DEF sessionVars, WatchdogNext, WatchdogLags, WatchdogReceives, WatchdogCommands,
       WatchdogFinishes, shared
  <2>3. CallInv'
    BY <1>1, <2>2 DEF CallInv, CallTypeOK, WorksOnPage, OnlyStateCaptures, EnforcesListed,
       CapturesEnforced, Heading
  <2>4. QED
    BY <2>1, <2>3 DEF BrowserInv
<1>4. CASE SessionNext
  BY <1>1, <1>4, SessionKeepsPage, SessionKeepsWatch, SessionKeepsCall, RestStaysTyped
     DEF BrowserNext, BrowserInv
<1>5. CASE UNCHANGED browserUseVars
  <2>1. /\ UNCHANGED <<tab, gen, discovering, attached, events, lagged, moves>>
        /\ UNCHANGED <<page, cache, pending, watching, listing, act, gaveUp, call, outcome>>
    BY <1>5 DEF browserUseVars, targetVars, chrome, shared, watchdogVars, sessionVars
  <2>2. CallInv' /\ RestTypeOK'
    BY <1>1, <2>1 DEF CallInv, CallTypeOK, WorksOnPage, OnlyStateCaptures, EnforcesListed,
       CapturesEnforced, Heading, RestTypeOK
  <2>3. PageInv' /\ CacheInv'
    BY <1>1, <2>1 DEF PageInv, PageTypeOK, PageIsAttached, NextPageIsAttached, CacheInv,
       CacheIsOfPage, CacheIsShown, ListingIsOfPage, Shown
  <2>4. WatchInv'
    BY <1>1, <2>1 DEF WatchInv, WatchTypeOK, TargetEventsAreBlocked, ForbiddenIsNoticed, Told,
       Handled, GivenUp
  <2>5. QED
    BY <2>2, <2>3, <2>4 DEF BrowserInv
<1>6. QED
  BY <1>2, <1>3, <1>4, <1>5 DEF BrowserNext

\* The inductive invariant holds in every state of every session.
THEOREM BrowserInvHolds == BrowserSpec => []BrowserInv
BY BrowserInitInv, BrowserStepKeepsInv, PTL DEF BrowserSpec

\* The session, its watchdog and the tabs keep their types; in particular the
\* buffer never holds more than its capacity.
THEOREM BrowserIsTyped == BrowserSpec => []BrowserTypeOK
<1>1. BrowserInv => BrowserTypeOK
  <2> SUFFICES ASSUME BrowserInv PROVE BrowserTypeOK
    OBVIOUS
  <2>1. PageTypeOK /\ WatchTypeOK /\ CallTypeOK /\ RestTypeOK
    BY DEF BrowserInv, PageInv, WatchInv, CallInv
  <2>2. /\ call.cur \in Pages /\ call.handled \subseteq Blocked
        /\ call.todo \subseteq Targets /\ call.rounds \in 0..2
        /\ outcome.kind \in {None, "ok", "failed", "blocked"}
    BY <2>1 DEF CallTypeOK, Calls, Outcomes
  <2>3. {discovering, lagged, watching} \subseteq BOOLEAN
    BY <2>1 DEF WatchTypeOK
  <2>4. tab \in [Targets -> TabValues] /\ gen \in 0..MaxReconnects /\ attached \subseteq Targets
        /\ page \in Pages /\ {cache, listing} \subseteq {NoDom} \cup ListedElements
    BY <2>1 DEF PageTypeOK
  <2>5. events \in Seq([kind : {"target", "frame", "other"}, target : Targets,
                       url : Urls, gen : 0..MaxReconnects])
        /\ Len(events) <= EventCapacity /\ gaveUp \subseteq Targets \X Urls
        /\ act \in {NoAction} \cup [kind : {"reset", "close"}, target : Targets,
                 gen : 0..MaxReconnects, url : Urls, stage : {"send", "done", "failed"}]
    BY <2>1 DEF WatchTypeOK, CdpEvents, Acts
  <2>6. pending \in Urls \cup {None} /\ moves \in 0..MaxMoves
    BY <2>1 DEF RestTypeOK
  <2>7. QED
    BY <2>2, <2>3, <2>4, <2>5, <2>6 DEF BrowserTypeOK
<1>2. QED
  BY <1>1, BrowserInvHolds, PTL

\* No command of this connection goes to a page whose session it has not set up.
THEOREM PageStaysAttached == BrowserSpec => []PageIsAttached
<1>1. BrowserInv => PageIsAttached
  BY DEF BrowserInv, PageInv
<1>2. QED
  BY <1>1, BrowserInvHolds, PTL

\* The cached elements an action is about to use are those of the current page
\* at the address it shows, whatever call or watchdog step was last, unless the
\* call that turned the page was given up before it dropped them, or the page
\* moved on after they were listed.
THEOREM ElementsStayCurrent == BrowserSpec => []CachedElementsAreCurrent
<1>1. BrowserInv => CachedElementsAreCurrent
  BY DEF BrowserInv, CacheInv, CacheIsOfPage, CacheIsShown, Shown, CachedElementsAreCurrent
<1>2. QED
  BY <1>1, BrowserInvHolds, PTL

\* While the watchdog can see, a forbidden tab is one it knows of.
THEOREM ForbiddenTabsAreWatched == BrowserSpec => []BlockedTabsAreWatched
<1>1. BrowserInv => BlockedTabsAreWatched
  BY DEF BrowserInv, WatchInv, ForbiddenIsNoticed, Told, Handled, GivenUp, BlockedTabsAreWatched, Open
<1>2. QED
  BY <1>1, BrowserInvHolds, PTL

\* A step that takes a kept error away has reported it or dealt with it.
LEMMA PendingStepIsReported ==
  ASSUME BrowserNext, pending # None, pending' # pending
  PROVE  /\ pending' = None /\ outcome'.kind = "blocked"
         /\ outcome'.url = pending \/ pending \in call.handled
<1>1. ~ChromeNext
  BY DEF ChromeNext, PageMoves, OpensPopup, PageCloses, SubframeMoves, OtherEvent, Reconnect,
     ByItself, shared
<1>2. ~WatchdogNext
  BY DEF WatchdogNext, WatchdogLags, WatchdogReceives, WatchdogCommands, WatchdogFinishes,
     shared, KeepFirstError
<1>3. SessionNext
  BY <1>1, <1>2 DEF BrowserNext
<1>4. TakesPendingError \/ Settles
  BY <1>3 DEF SessionNext, StartCall, StartNavigate, Starts, ReattachesPage, KeepsStalePage, SetsPage,
     ClearsCache, CommandFails, Navigates, CreatesTab, ResolvesTab, AttachesTab, ClosesTab,
     LeavesClosedTab, AttachesElementTab, ActsOnPage, ListsElements, StoresElements, ReturnsState,
     ListsTabs, EnforcesOnTab, EndsRound, KeepPage
<1>5. CASE TakesPendingError
  BY <1>5 DEF TakesPendingError, Return, BlockedAt, Result
<1>6. CASE Settles
  BY <1>6 DEF Settles, Return, BlockedAt, Result
<1>7. QED
  BY <1>4, <1>5, <1>6

\* The first blocked navigation the watchdog stopped is an error some call
\* returns, or is dropped by a call that returns its own error about it.
THEOREM PendingErrorsAreReported == BrowserSpec => PendingIsReported
<1>1. [BrowserNext]_browserUseVars =>
        [pending # None /\ pending' # pending =>
           /\ pending' = None /\ outcome'.kind = "blocked"
           /\ outcome'.url = pending \/ pending \in call.handled]_browserUseVars
  BY PendingStepIsReported
<1>2. QED
  BY <1>1, PTL DEF BrowserSpec, PendingIsReported

\* Only a capture that is listed, or the last round, makes a call end well.
LEMMA WellEndedCallHasListed ==
  ASSUME BrowserInv, BrowserNext, ~IsUnrestricted(Policy),
         call.stage # "idle", call'.stage = "idle", outcome'.kind = "ok"
  PROVE  call.urls \in Listings /\ \A t \in Targets : call.urls[t] \notin Blocked
<1>1. SessionNext
  <2>1. UNCHANGED sessionVars => call'.stage = call.stage
    BY DEF sessionVars
  <2>2. QED
    BY <2>1 DEF BrowserNext
<1>2. CallTypeOK /\ EnforcesListed /\ CapturesEnforced /\ call \in Calls
  BY DEF BrowserInv, CallInv, CallTypeOK
<1>3. Failed.kind # "ok" /\ \A u : BlockedAt(u).kind # "ok"
  BY DEF Failed, BlockedAt, Result
<1>4. /\ \A o : Return(o) => o.kind = "ok"
      /\ ~GivesUp
  BY <1>3 DEF Return, GivesUp
<1>5. ASSUME NEW rounds \in {1, 2}, Enforce(rounds)
      PROVE  FALSE
  <2> DEFINE c == [IdleCall EXCEPT !.op = IF call.op = "state" THEN call.op ELSE None,
                                   !.urls = call.urls]
  <2>1. call' = [c EXCEPT !.stage = "take", !.rounds = rounds, !.urls = <<>>]
    BY <1>5 DEF Enforce
  <2>2. call'.stage = "take"
    BY <2>1 DEF IdleCall
  <2>3. QED
    BY <2>2
<1>6. ASSUME NEW c \in Calls, NEW then \in PageStages, GotoPage(c, then)
      PROVE  FALSE
  BY <1>6, GotoPageStages DEF PageStages
<1>7. ~(CommandFails \/ Settles \/ StartCall)
  BY <1>3, <1>4 DEF CommandFails, Settles, StartCall, StartNavigate, Starts, At
<1>8. ~(Navigates \/ ActsOnPage)
  BY <1>4, <1>5 DEF Navigates, ActsOnPage
<1>9. ASSUME NEW t, GotoAttached(t) PROVE FALSE
  <2>1. call'.stage = "viewport"
    BY <1>2, <1>9 DEF GotoAttached, Calls
  <2>2. QED
    BY <2>1
<1>10. ~(AttachesTab \/ ReattachesPage \/ LeavesClosedTab)
  BY <1>4, <1>5, <1>9 DEF AttachesTab, ReattachesPage, LeavesClosedTab
<1>11. ~(ClosesTab \/ StoresElements)
  BY <1>2, <1>4, <1>6 DEF ClosesTab, StoresElements, PageStages
<1>12. ~ListsTabs
  <2>1. SUFFICES ASSUME ListsTabs PROVE FALSE
    OBVIOUS
  <2>2. [call EXCEPT !.urls = [t \in Targets |-> IF t \in ForbiddenTabs THEN tab[t] ELSE None],
                     !.todo = ForbiddenTabs] \in Calls
    BY <1>2 DEF Calls, Listings, ForbiddenTabs, Open
  <2>3. QED
    BY <1>6, <2>1, <2>2 DEF ListsTabs, PageStages
<1>13. ASSUME call.then \in PageStages, call'.stage = call.then PROVE FALSE
  BY <1>13 DEF PageStages
<1>14. ~(KeepsStalePage \/ ClearsCache)
  <2>1. CASE call'.stage = call.then /\ (call.then # None \/ call.stage = "page")
    BY <1>2, <1>13, <2>1 DEF CallTypeOK, Calls
  <2>2. QED
    BY <1>2, <1>5, <2>1 DEF KeepsStalePage, ClearsCache, At, Calls
<1>15. ~(SetsPage \/ AttachesElementTab \/ ListsElements)
  <2>1. SUFFICES ASSUME SetsPage \/ AttachesElementTab \/ ListsElements PROVE FALSE
    OBVIOUS
  <2>2. call'.stage \in {"clear", "element", "store"}
    BY <1>2, <2>1 DEF SetsPage, AttachesElementTab, ListsElements, Goto, Calls
  <2>3. QED
    BY <2>2
<1>16. ~(CreatesTab \/ ResolvesTab)
  <2>1. SUFFICES ASSUME CreatesTab \/ ResolvesTab PROVE FALSE
    OBVIOUS
  <2>2. call'.stage \in {"attach", "closeTarget"}
    BY <1>2, <2>1 DEF CreatesTab, ResolvesTab, Goto, Calls
  <2>3. QED
    BY <2>2
<1>17. ~TakesPendingError
  BY <1>2, <1>3, <1>4 DEF TakesPendingError, Goto, Calls
<1>18. ~EnforcesOnTab
  <2>1. SUFFICES ASSUME EnforcesOnTab PROVE FALSE
    OBVIOUS
  <2>2. \A t : DealtWith(t) => call'.stage = call.stage
    BY <1>2 DEF DealtWith, Calls
  <2>3. QED
    BY <1>4, <2>1, <2>2 DEF EnforcesOnTab, ResetsCurrentTab, ClosesOtherTab
<1>19. CASE ReturnsState
  BY <1>2, <1>19 DEF ReturnsState, At, CapturesEnforced, Heading, TurnStages
<1>20. CASE EndsRound
  <2>1. Heading = "enforce" /\ call.todo = {}
    BY <1>20 DEF EndsRound, At, Heading, TurnStages
  <2>2. call.blocked = None
    <3>1. SUFFICES ASSUME call.blocked # None PROVE FALSE
      OBVIOUS
    <3>2. call'.stage = "settle"
      BY <1>2, <1>20, <3>1 DEF EndsRound, Calls
    <3>3. QED
      BY <3>2
  <2>3. QED
    BY <1>2, <2>1, <2>2 DEF EnforcesListed
<1>21. QED
  BY <1>1, <1>7, <1>8, <1>10, <1>11, <1>12, <1>14, <1>15, <1>16, <1>17, <1>18, <1>19, <1>20
     DEF SessionNext

\* A call that ends well under a policy has listed the tabs, and dealt with
\* every forbidden one of them.
THEOREM WellEndedCallsEnforce == BrowserSpec => OkMeansEnforced
<1>1. ASSUME BrowserInv, BrowserNext, ~IsUnrestricted(Policy),
             call.stage # "idle", call'.stage = "idle", outcome'.kind = "ok"
      PROVE  \A t \in Open : tab[t] \in Blocked =>
               call.urls # <<>> /\ call.urls[t] \notin Blocked
  <2>1. call.urls \in Listings /\ \A t \in Targets : call.urls[t] \notin Blocked
    BY <1>1, WellEndedCallHasListed
  <2>2. call.urls # <<>>
    <3>1. SUFFICES ASSUME call.urls = <<>> PROVE FALSE
      OBVIOUS
    <3>2. DOMAIN call.urls = Targets /\ DOMAIN call.urls = 1..0
      BY <2>1, <3>1 DEF Listings
    <3>3. QED
      BY <3>2, TargetsAssumption
  <2>3. QED
    BY <2>1, <2>2 DEF Open
<1>2. BrowserInv /\ [BrowserNext]_browserUseVars =>
        [~IsUnrestricted(Policy)
         /\ call.stage # "idle" /\ call'.stage = "idle" /\ outcome'.kind = "ok" =>
            \A t \in Open : tab[t] \in Blocked =>
              call.urls # <<>> /\ call.urls[t] \notin Blocked]_browserUseVars
  BY <1>1
<1>3. QED
  BY <1>2, BrowserInvHolds, PTL DEF BrowserSpec, OkMeansEnforced
=============================================================================
