--------------------------- MODULE BrowserTargets ---------------------------
(***************************************************************************)
(* What the browser session and the URL policy watchdog share: Chrome's    *)
(* page targets (external), the connection they are reached through, and   *)
(* the page, cached elements and pending error that both tasks change.     *)
(*                                                                         *)
(* Chrome moves pages by itself: a page navigates, opens a popup, closes.  *)
(* It tells the connection, if target discovery is on or a session of the  *)
(* target has Page events enabled, and the watchdog reads that from a      *)
(* broadcast buffer that drops its oldest events when it is full.          *)
(***************************************************************************)
EXTENDS UrlPolicy

CONSTANTS
    Targets,        \* bound: the page targets that may ever exist
    FirstTarget,    \* the page the session is attached to when it starts
    Urls, BlankUrl, \* the addresses of pages, by name; about:blank
    UrlInfo,        \* what the policy sees of each of them
    Policy,         \* the policy of the profile
    EventCapacity,  \* events buffered for the watchdog (256 in the code)
    MaxReconnects,  \* bound: reconnects of the transport
    MaxMoves        \* bound: what pages do by themselves, and reconnects

Unborn == "unborn"
Closed == "closed"
None == "none"

ASSUME TargetsAssumption ==
    /\ FirstTarget \in Targets /\ None \notin Targets
    /\ {Unborn, Closed, None} \cap Urls = {}
    /\ DOMAIN UrlInfo = Urls
    /\ BlankUrl \in Urls /\ IsAllowed(Policy, UrlInfo[BlankUrl])
    /\ EventCapacity \in Nat \ {0}
    /\ MaxReconnects \in Nat /\ MaxMoves \in Nat

Allowed(url) == IsAllowed(Policy, UrlInfo[url])
Blocked == {u \in Urls : ~Allowed(u)}

VARIABLES
    tab,          \* page of each target: its URL, unborn or closed
    gen,          \* connection generation
    discovering,  \* this connection has sent Target.setDiscoverTargets
    attached,     \* targets with a session of this connection, Page enabled
    events,       \* CDP events buffered for the watchdog
    lagged,       \* the buffer dropped an event the watchdog has not read
    watching,     \* the watchdog's task is running
    page,         \* CdpBrowserSession.page
    cache,        \* last_dom_state: the page it was taken from, or NoDom
    pending,      \* pending_url_policy_error: the URL it is about, or None
    listing,      \* the elements a state call has listed and not yet cached
    moves         \* bound: moves pages made by themselves, and reconnects

chrome == <<tab, gen, discovering, attached, events, lagged, moves>>
shared == <<page, cache, pending>>
targetVars == <<chrome, shared, watching, listing>>

Open == {t \in Targets : tab[t] \in Urls}
UnbornTargets == {t \in Targets : tab[t] = Unborn}
OpenIn(tabs) == {t \in Targets : tabs[t] \in Urls}
AttachedPage(t, g) == [target |-> t, gen |-> g]
\* Elements listed on a page.  since is history: the page has moved since, the
\* session has switched to another page since.
Cached(p, url) == [target |-> p.target, gen |-> p.gen, url |-> url, since |-> {}]
NoDom == [target |-> None, gen |-> 0, url |-> None, since |-> {}]
Marked(elements, t, mark) ==
    IF t \in Targets /\ elements.target = t THEN [elements EXCEPT !.since = @ \cup {mark}]
    ELSE elements
\* A command to a page is answered when its session is one of this connection
\* and its target is still open.
Usable(p) == p.gen = gen /\ p.target \in Open /\ p.target \in attached

\* The watchdog has no use for an event about an allowed address: all that
\* such an event, or one of another kind, does is take its place in the buffer.
CdpEvent(kind, t, u, g) == [kind |-> kind, target |-> t, url |-> u, gen |-> g]
OtherCdpEvent == CdpEvent("other", FirstTarget, BlankUrl, 0)
ChromeEvent(kind, t, u, g) ==
    IF Allowed(u) THEN OtherCdpEvent ELSE CdpEvent(kind, t, u, g)
NavigationEvents(t, u, sessions) ==
    (IF discovering THEN <<ChromeEvent("target", t, u, gen)>> ELSE <<>>)
    \o (IF t \in sessions THEN <<ChromeEvent("frame", t, u, gen)>> ELSE <<>>)

\* A mutant's form: nothing is ever dropped.
PublishFault(new) ==
    IF ~watching THEN UNCHANGED <<events, lagged>>
    ELSE events' = events \o new /\ UNCHANGED lagged

\* The broadcast buffer keeps the last EventCapacity events.
Publish(new) ==
    LET all == events \o new
        n == Len(all)
    IN IF ~watching THEN UNCHANGED <<events, lagged>>
       ELSE /\ events' = SubSeq(all, IF n > EventCapacity THEN n - EventCapacity + 1 ELSE 1, n)
            /\ lagged' = (lagged \/ n > EventCapacity)

Quiet == UNCHANGED <<tab, events, lagged>>

ClearCache == cache' = NoDom /\ UNCHANGED listing
KeepCache == UNCHANGED <<cache, listing>>
\* The page of target t changes under the elements listed on it.
Drift(t) ==
    /\ cache' = Marked(cache, t, "moved")
    /\ listing' = Marked(listing, t, "moved")

\* The main frame of target t shows u from now on.
TabShows(t, u, sessions) ==
    /\ tab' = [tab EXCEPT ![t] = u]
    /\ Publish(NavigationEvents(t, u, sessions))

\* Target t goes away; the watchdog ignores Target.targetDestroyed.
TabCloses(t) ==
    /\ tab' = [tab EXCEPT ![t] = Closed]
    /\ UNCHANGED <<events, lagged>>

-----------------------------------------------------------------------------
(* Chrome and the transport (external) *)

Move == moves < MaxMoves /\ moves' = moves + 1
ByItself == UNCHANGED <<gen, discovering, attached, watching, page, pending>>

PageMoves(t, u) ==
    /\ t \in Open /\ u # tab[t] /\ Move
    /\ TabShows(t, u, attached) /\ Drift(t)
    /\ ByItself

OpensPopup(t, u) ==
    /\ t \in UnbornTargets /\ Open # {} /\ Move
    /\ TabShows(t, u, attached)
    /\ KeepCache /\ ByItself

PageCloses(t) ==
    /\ t \in Open /\ Move
    /\ TabCloses(t)
    /\ KeepCache /\ ByItself

\* A frame inside a page navigates: Page.frameNavigated, the tab's URL stays.
SubframeMoves(t, u) ==
    /\ t \in Open \cap attached /\ u \in Blocked /\ Move
    /\ Publish(<<ChromeEvent("frame", t, u, gen)>>)
    /\ UNCHANGED tab /\ KeepCache /\ ByItself

OtherEvent ==
    /\ watching /\ Move
    /\ Publish(<<OtherCdpEvent>>)
    /\ UNCHANGED tab /\ KeepCache /\ ByItself

\* The transport reconnects (CdpTransport): sessions are gone, and nobody
\* switches target discovery on again.
Reconnect ==
    /\ gen < MaxReconnects /\ Move
    /\ gen' = gen + 1
    /\ discovering' = FALSE
    /\ attached' = {}
    /\ UNCHANGED <<tab, events, lagged, watching, shared, listing>>

ChromeNext ==
    \/ \E t \in Targets, u \in Urls :
          PageMoves(t, u) \/ OpensPopup(t, u) \/ SubframeMoves(t, u)
    \/ \E t \in Targets : PageCloses(t)
    \/ OtherEvent
    \/ Reconnect
=============================================================================
