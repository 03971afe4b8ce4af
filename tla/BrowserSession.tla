--------------------------- MODULE BrowserSession ---------------------------
(***************************************************************************)
(* CdpBrowserSession: the calls the agent makes one after the other        *)
(* (browser_session_impl.rs, session_helpers.rs, lib.rs, target.rs).  A    *)
(* call is a sequence of awaits; between two of them Chrome moves, the     *)
(* transport reconnects and the URL policy watchdog acts.  What a call     *)
(* does inside a page (a click, a key, a script) is abstracted to "the     *)
(* page may show another URL"; which element it does it to is modelled in  *)
(* ElementIndex.                                                           *)
(***************************************************************************)
EXTENDS UrlPolicyWatchdog

CONSTANT MaxSessionCalls   \* bound: calls in a behaviour, those of state aside

VARIABLES
    call,     \* the call in progress
    outcome,  \* how the last one ended
    called    \* bound: calls made, those of state aside

sessionVars == <<call, outcome, called>>
browserUseVars == <<targetVars, watchdogVars, sessionVars>>

\* cur: the page the call works on.  urls: of the tabs it listed, the addresses
\* of the forbidden ones; todo: those it has not dealt with.  handled, blocked:
\* of the current enforcement.  rounds: enforcements left.  then: the stage after
\* current_page().  target: the tab asked for, or the one whose element an action
\* is about.
IdleCall ==
    [op |-> None, stage |-> "idle", then |-> None, target |-> None,
     cur |-> AttachedPage(FirstTarget, 0), urls |-> <<>>, todo |-> {},
     handled |-> {}, blocked |-> None, rounds |-> 0]

Result(kind, url) == [kind |-> kind, url |-> url]
Succeeded == Result("ok", None)
Failed == Result("failed", None)
BlockedAt(url) == Result("blocked", url)

At(stage) == call.stage = stage
Goto(stage) == call' = [call EXCEPT !.stage = stage] /\ UNCHANGED outcome
Return(o) == call' = IdleCall /\ outcome' = o
KeepConnection == UNCHANGED <<gen, discovering, watching, moves, watchdogVars>>
KeepPage == UNCHANGED <<page, pending>> /\ KeepCache
KeepChrome == Quiet /\ UNCHANGED attached /\ KeepConnection

\* current_page() gives the current page as it is unless its session is stale.
OnCurrentPage(c, then) ==
    IF page.gen = gen THEN [c EXCEPT !.stage = then, !.cur = page]
    ELSE [c EXCEPT !.stage = "page", !.then = then]
GotoPage(c, then) == call' = OnCurrentPage(c, then) /\ UNCHANGED outcome

\* An unrestricted policy skips every enforcement.  After the last one the call
\* is over, except that state has yet to capture the page: which of the other
\* calls it is no longer matters.
Enforce(rounds) ==
    LET c == [IdleCall EXCEPT !.op = IF call.op = "state" THEN call.op ELSE None,
                              !.urls = call.urls]
    IN IF ~IsUnrestricted(Policy) /\ rounds > 0
       THEN call' = [c EXCEPT !.stage = "take", !.rounds = rounds, !.urls = <<>>] /\ UNCHANGED outcome
       ELSE IF call.op = "state" THEN GotoPage(c, "capture")
       ELSE Return(Succeeded)

\* A call that ends early, by an error of its own or because the timeout of the
\* action or the step drops it: what it did so far stays done.
GivesUp == Return(Failed)

-----------------------------------------------------------------------------
(* The page commands are sent to *)

\* attach_to_target registers the session, then enables Page and Network.
Attaches(t) == t \in Open /\ attached' = attached \cup {t} /\ Quiet

\* attach_or_create_page takes an open page or, when there is none, a new one,
\* which may be created and then not attached to.
Creates(t) == Open = {} /\ t \in UnbornTargets /\ TabShows(t, BlankUrl, attached)
AttachesOrCreates(t) == Attaches(t) \/ (Creates(t) /\ attached' = attached \cup {t})
CreatesOnly == (\E t \in Targets : Creates(t)) /\ UNCHANGED attached

\* The page attached to is made the current one when its viewport is set.
GotoAttached(t) == call' = [call EXCEPT !.stage = "viewport", !.cur = AttachedPage(t, gen)]

\* reattach_current_page: a page of an earlier connection is attached again, by
\* its target or, when that is gone, by any other.
ReattachesPage ==
    /\ At("page")
    /\ \E t \in Targets :
          /\ IF page.target \in Open THEN t = page.target /\ Attaches(t) ELSE AttachesOrCreates(t)
          /\ GotoAttached(t)
    /\ UNCHANGED outcome /\ KeepPage /\ KeepConnection

\* If that fails, or its viewport does, the stale page is used.
KeepsStalePage ==
    /\ \/ At("page") /\ ((Quiet /\ UNCHANGED attached) \/ CreatesOnly)
       \/ At("viewport") /\ call.then # None /\ Quiet /\ UNCHANGED attached
    /\ call' = [call EXCEPT !.cur = page, !.stage = call.then, !.then = None]
    /\ UNCHANGED outcome /\ KeepPage /\ KeepConnection

\* set_current_page: the page is the current one, the elements cached are still
\* those of the page before, and the screencast of the new one is awaited.
SetsPage ==
    /\ At("viewport")
    /\ page' = call.cur
    /\ Goto("clear")
    /\ UNCHANGED pending /\ KeepCache /\ KeepChrome

\* A mutant's form: the elements of the page before stay.
ClearsCacheFault ==
    /\ At("clear") /\ KeepCache
    /\ IF call.then # None
       THEN call' = [call EXCEPT !.stage = call.then, !.then = None] /\ UNCHANGED outcome
       ELSE Enforce(IF call.op = "navigate" THEN 2 ELSE 1)
    /\ UNCHANGED <<page, pending>> /\ KeepChrome

\* clear_cached_dom_state, and the call goes on: from current_page(), or after a
\* new tab, a switch or a close with its enforcements.
ClearsCache ==
    /\ At("clear") /\ ClearCache
    /\ IF call.then # None
       THEN call' = [call EXCEPT !.stage = call.then, !.then = None] /\ UNCHANGED outcome
       ELSE Enforce(IF call.op = "navigate" THEN 2 ELSE 1)
    /\ UNCHANGED <<page, pending>> /\ KeepChrome

-----------------------------------------------------------------------------
(* Calls *)

Starts(c) ==
    /\ At("idle")
    /\ call' = c /\ outcome' = Result(None, None)
    /\ KeepChrome /\ KeepPage
Op(op, stage, target) == [IdleCall EXCEPT !.op = op, !.stage = stage, !.target = target]
PageOp(op, then) == OnCurrentPage(Op(op, "page", None), then)

\* navigate: the policy is asked before anything is sent.
StartNavigate(url, newTab) ==
    IF Allowed(url)
    THEN Starts(IF newTab THEN Op("navigate", "create", None)
                ELSE PageOp("navigate", "command"))
    ELSE /\ At("idle") /\ Return(BlockedAt(url)) /\ KeepChrome /\ KeepPage

\* An action has an element of another tab when those cached are of one.
StartCall ==
    \/ /\ called < MaxSessionCalls /\ called' = called + 1
       /\ \/ \E url \in Urls, newTab \in BOOLEAN : StartNavigate(url, newTab)
          \/ Starts(PageOp("go_back", "command"))
          \/ \E t \in Targets : Starts(Op("switch_tab", "resolve", t))
          \/ \E t \in Targets : Starts(Op("close_tab", "resolve", t))
          \/ \E t \in {None} \cup ({cache.target} \ {page.target}) :
                Starts([PageOp("act", "effect") EXCEPT !.target = t])
    \/ /\ Starts(IF IsUnrestricted(Policy) THEN PageOp("state", "capture")
                 ELSE [Op("state", "take", None) EXCEPT !.rounds = 1])
       /\ UNCHANGED called

\* Any command may fail: refused by the transport, timed out, or by Chrome; and
\* a call may be dropped at any of its awaits.  One dropped between
\* set_current_page and clear_cached_dom_state leaves the elements of the page
\* before.
CommandFails ==
    /\ ~At("idle") /\ GivesUp
    /\ cache' = IF At("clear") THEN Marked(cache, cache.target, "switched") ELSE cache
    /\ listing' = NoDom
    /\ Quiet /\ UNCHANGED <<page, pending>> /\ KeepConnection
    /\ \/ UNCHANGED attached
       \/ At("attach") /\ call.cur.target \in Open
          /\ attached' = attached \cup {call.cur.target}

\* Page.navigate or navigateToHistoryEntry is carried out; a server may have
\* redirected it.  When the answer comes in time the cached elements are
\* dropped; when it does not, the call fails and they stay.
Navigates ==
    /\ At("command") /\ Usable(call.cur)
    /\ \E url \in Urls : TabShows(call.cur.target, url, attached)
    /\ \/ ClearCache /\ Enforce(2)
       \/ Drift(call.cur.target) /\ GivesUp
    /\ UNCHANGED <<attached, page, pending>> /\ KeepConnection

\* A mutant's form: the new tab is the current page before it is attached to.
CreatesTabFault ==
    /\ At("create")
    /\ \E t \in UnbornTargets, url \in Urls :
          /\ TabShows(t, url, attached)
          /\ call' = [call EXCEPT !.stage = "attach", !.cur = AttachedPage(t, gen)]
          /\ page' = AttachedPage(t, gen)
    /\ UNCHANGED <<outcome, attached, pending>> /\ ClearCache /\ KeepConnection

\* navigate in a new tab: the tab exists from here on, whatever fails later.
CreatesTab ==
    /\ At("create")
    /\ \E t \in UnbornTargets, url \in Urls :
          /\ TabShows(t, url, attached)
          /\ call' = [call EXCEPT !.stage = "attach", !.cur = AttachedPage(t, gen)]
    /\ UNCHANGED <<outcome, attached>> /\ KeepPage /\ KeepConnection

ResolvesTab ==
    /\ At("resolve") /\ call.target \in Open
    /\ IF call.op = "close_tab" THEN Goto("closeTarget")
       ELSE /\ call' = [call EXCEPT !.stage = "attach",
                                    !.cur = AttachedPage(call.target, gen)]
            /\ UNCHANGED outcome
    /\ KeepChrome /\ KeepPage

\* attach_to_target
AttachesTab ==
    /\ At("attach") /\ Attaches(call.cur.target)
    /\ GotoAttached(call.cur.target)
    /\ UNCHANGED outcome /\ KeepPage /\ KeepConnection

\* The tab may be closed and the call given up before it knows.
ClosesTab ==
    /\ At("closeTarget") /\ call.target \in Open
    /\ TabCloses(call.target)
    /\ GotoPage(call, "afterClose") \/ GivesUp
    /\ UNCHANGED attached /\ KeepPage /\ KeepConnection

LeavesClosedTab ==
    /\ At("afterClose")
    /\ IF call.cur.target = call.target
       THEN /\ \/ \E t \in Targets : AttachesOrCreates(t) /\ GotoAttached(t) /\ UNCHANGED outcome
               \/ CreatesOnly /\ GivesUp
            /\ KeepCache
       ELSE ClearCache /\ Quiet /\ UNCHANGED attached /\ Enforce(1)
    /\ UNCHANGED <<page, pending>> /\ KeepConnection

\* page_for_element: the tab of a cached element that is not of the current page
\* is attached to, and the action done there.
OfOtherTab == call.target \notin {None, call.cur.target}
AttachesElementTab ==
    /\ At("effect") /\ OfOtherTab
    /\ Attaches(call.target)
    /\ call' = [call EXCEPT !.stage = "element", !.cur = AttachedPage(call.target, gen)]
    /\ UNCHANGED outcome /\ KeepPage /\ KeepConnection

\* click, input_text, scroll, send_keys, ...: the page may move on, whether the
\* call learns of it or not.  A click is followed by two enforcements, the
\* others by one.
ActsOnPage ==
    /\ (At("effect") /\ ~OfOtherTab) \/ At("element")
    /\ Usable(call.cur)
    /\ \/ Quiet /\ KeepCache
       \/ \E url \in Urls : /\ url # tab[call.cur.target]
                            /\ TabShows(call.cur.target, url, attached)
                            /\ Drift(call.cur.target)
    /\ (\E rounds \in {1, 2} : Enforce(rounds)) \/ GivesUp
    /\ UNCHANGED <<attached, page, pending>> /\ KeepConnection

\* state: the elements are listed by a script; what the page says of their
\* accessibility and of its frames is awaited, missing or not; then the
\* elements are cached.
ListsElements ==
    /\ At("capture") /\ Usable(call.cur)
    /\ listing' = Cached(call.cur, tab[call.cur.target])
    /\ Goto("store")
    /\ UNCHANGED <<page, cache, pending>> /\ KeepChrome

StoresElements ==
    /\ At("store")
    /\ cache' = listing /\ listing' = NoDom
    /\ GotoPage(call, "tabs")
    /\ UNCHANGED <<page, pending>> /\ KeepChrome

ReturnsState ==
    /\ At("tabs") /\ Return(Succeeded)
    /\ KeepChrome /\ KeepPage

-----------------------------------------------------------------------------
(* enforce_open_tab_url_policy *)

\* A mutant's form: the pending error is dropped.
TakesPendingErrorFault ==
    /\ At("take")
    /\ pending' = None /\ Goto("list")
    /\ UNCHANGED page /\ KeepCache /\ KeepChrome

TakesPendingError ==
    /\ At("take")
    /\ IF pending # None THEN pending' = None /\ Return(BlockedAt(pending))
       ELSE UNCHANGED pending /\ Goto("list")
    /\ UNCHANGED page /\ KeepCache /\ KeepChrome

\* page_tabs: of the tabs it lists the forbidden ones are dealt with.
ForbiddenTabs == {t \in Open : tab[t] \in Blocked}
ListsTabs ==
    /\ At("list")
    /\ GotoPage([call EXCEPT !.urls = [t \in Targets |-> IF t \in ForbiddenTabs THEN tab[t] ELSE None],
                             !.todo = ForbiddenTabs], "enforce")
    /\ KeepPage /\ KeepChrome

DealtWith(t) ==
    LET url == call.urls[t] IN
    call' = [call EXCEPT !.todo = @ \ {t}, !.handled = @ \cup {url},
                         !.blocked = IF @ = None THEN url ELSE @]

\* The current tab is sent to about:blank; a failure is recorded and ignored.
\* The call may be dropped before it learns of it.
ResetsCurrentTab(t) ==
    /\ t = call.cur.target
    /\ \/ /\ (Usable(call.cur) /\ TabShows(t, BlankUrl, attached)) \/ Quiet
          /\ ClearCache /\ DealtWith(t) /\ UNCHANGED outcome
       \/ /\ Usable(call.cur) /\ TabShows(t, BlankUrl, attached)
          /\ Drift(t) /\ GivesUp

\* Another tab is closed; one that is gone already counts as closed.  Any
\* other failure ends the call with that error.
ClosesOtherTab(t) ==
    /\ t # call.cur.target
    /\ \/ /\ IF t \in Open THEN TabCloses(t) ELSE Quiet
          /\ ClearCache /\ DealtWith(t) /\ UNCHANGED outcome
       \/ /\ (t \in Open /\ TabCloses(t)) \/ Quiet
          /\ KeepCache /\ GivesUp

EnforcesOnTab ==
    /\ At("enforce")
    /\ \E t \in call.todo : ResetsCurrentTab(t) \/ ClosesOtherTab(t)
    /\ UNCHANGED <<attached, page, pending>> /\ KeepConnection

\* A mutant's form: the round ends well whatever it blocked.
EndsRoundFault ==
    /\ At("enforce") /\ call.todo = {}
    /\ Enforce(call.rounds - 1)
    /\ KeepChrome /\ KeepPage

\* All tabs done: the first blocked one is the error of the call, after a wait
\* in which the watchdog may report the same navigation; that one is dropped.
EndsRound ==
    /\ At("enforce") /\ call.todo = {}
    /\ IF call.blocked # None
       THEN call' = [call EXCEPT !.stage = "settle", !.urls = <<>>, !.cur = IdleCall.cur] /\ UNCHANGED outcome
       ELSE Enforce(call.rounds - 1)
    /\ KeepChrome /\ KeepPage

Settles ==
    /\ At("settle")
    /\ pending' = IF pending \in call.handled THEN None ELSE pending
    /\ Return(BlockedAt(call.blocked))
    /\ UNCHANGED page /\ KeepCache /\ KeepChrome

SessionNext ==
    \/ StartCall
    \/ /\ UNCHANGED called
       /\ \/ ReattachesPage \/ KeepsStalePage \/ SetsPage \/ ClearsCache \/ CommandFails
          \/ Navigates \/ CreatesTab \/ ResolvesTab \/ AttachesTab
          \/ ClosesTab \/ LeavesClosedTab \/ AttachesElementTab \/ ActsOnPage
          \/ ListsElements \/ StoresElements \/ ReturnsState
          \/ TakesPendingError \/ ListsTabs \/ EnforcesOnTab \/ EndsRound \/ Settles

-----------------------------------------------------------------------------
(* The session, its watchdog and Chrome.  launch starts the watchdog, which *)
(* switches target discovery on; a session made by connect has none, as one *)
(* whose watchdog has ended.                                                *)

BrowserInit ==
    /\ tab = [t \in Targets |-> IF t = FirstTarget THEN BlankUrl ELSE Unborn]
    /\ gen = 0 /\ attached = {FirstTarget}
    /\ watching = ~IsUnrestricted(Policy)
    /\ discovering = watching
    /\ events = <<>> /\ lagged = FALSE
    /\ page = AttachedPage(FirstTarget, 0) /\ cache = NoDom /\ pending = None
    /\ moves = 0 /\ listing = NoDom
    /\ act = NoAction /\ gaveUp = {}
    /\ call = IdleCall /\ outcome = Result(None, None) /\ called = 0

BrowserNext ==
    \/ ChromeNext /\ UNCHANGED <<watchdogVars, sessionVars>>
    \/ WatchdogNext /\ UNCHANGED sessionVars
    \/ SessionNext

BrowserSpec == BrowserInit /\ [][BrowserNext]_browserUseVars

-----------------------------------------------------------------------------
(* Properties *)

TabValues == Urls \cup {Unborn, Closed}
Pages == [target : Targets, gen : 0..MaxReconnects]
ListedElements == [target : Targets, gen : 0..MaxReconnects, url : Urls,
                   since : SUBSET {"moved", "switched"}]

\* Type invariant of the session, its watchdog and the tabs they share.
BrowserTypeOK ==
    /\ tab \in [Targets -> TabValues] /\ gen \in 0..MaxReconnects
    /\ attached \subseteq Targets
    /\ {discovering, lagged, watching} \subseteq BOOLEAN
    /\ events \in Seq([kind : {"target", "frame", "other"}, target : Targets,
                       url : Urls, gen : 0..MaxReconnects])
    /\ Len(events) <= EventCapacity
    /\ page \in Pages /\ pending \in Urls \cup {None}
    /\ {cache, listing} \subseteq {NoDom} \cup ListedElements
    /\ moves \in 0..MaxMoves
    /\ act \in {NoAction} \cup [kind : {"reset", "close"}, target : Targets,
                 gen : 0..MaxReconnects, url : Urls, stage : {"send", "done", "failed"}]
    /\ gaveUp \subseteq Targets \X Urls
    /\ call.cur \in Pages /\ call.handled \subseteq Blocked
    /\ call.todo \subseteq Targets /\ call.rounds \in 0..2
    /\ outcome.kind \in {None, "ok", "failed", "blocked"}

\* Between two calls the cached elements, by whose indexes the next action
\* clicks, are those of the current page in its current session, unless the
\* call that switched to it was given up before it dropped them; and they are
\* of the address it shows, unless the page moved after they were listed: by
\* itself, by a command that a call never saw succeed
\* (browser_session_impl.rs:163 leaves them), or because the watchdog reset it
\* while they were being captured or has yet to drop them.
CachedElementsAreCurrent ==
    call.stage = "idle" /\ cache # NoDom =>
        /\ AttachedPage(cache.target, cache.gen) = page \/ "switched" \in cache.since
        /\ \/ tab[cache.target] \in {cache.url, Closed}
           \/ "moved" \in cache.since
           \/ act.stage = "done" /\ act.target = cache.target

\* The blocked navigation kept for the next call is never overwritten by a
\* later one and never lost: it goes away when a call fails with it, or when a
\* call has itself dealt with that address and fails with the first it met.
PendingIsReported ==
    [][pending # None /\ pending' # pending =>
          /\ pending' = None /\ outcome'.kind = "blocked"
          /\ outcome'.url = pending \/ pending \in call.handled]_browserUseVars

\* A call that ends well leaves no tab open at a forbidden address, except one
\* that went there after the call listed the tabs.  A policy without any rule
\* enforces nothing, though validate refuses an address without a host even so.
OkMeansEnforced ==
    [][~IsUnrestricted(Policy)
       /\ call.stage # "idle" /\ call'.stage = "idle" /\ outcome'.kind = "ok" =>
          \A t \in Open : tab[t] \in Blocked =>
              call.urls # <<>> /\ call.urls[t] \notin Blocked]_browserUseVars

\* While the watchdog reads, has not lagged, and discovery is on, no tab stays
\* at a forbidden address unnoticed: the event that tells is still buffered,
\* or the watchdog is acting on that tab, or its command failed and that was
\* recorded.  The three conditions are the ways it goes blind: connect never
\* starts it, the task ends when it lags, and discovery ends with the
\* connection.
BlockedTabsAreWatched ==
    watching /\ ~lagged /\ discovering =>
        \A t \in Open : tab[t] \in Blocked =>
            \/ \E i \in 1..Len(events) : events[i].kind = "target" /\ events[i].target = t
            \/ act.target = t
            \/ <<t, tab[t]>> \in gaveUp

\* The current page is one that was attached: commands of this connection are
\* sent only to sessions whose Page and Network events it has enabled.  A new
\* tab whose attach fails stays open but does not become the current page.
PageIsAttached == page.gen = gen => page.target \in attached
=============================================================================
