-------------------------- MODULE UrlPolicyWatchdog --------------------------
(***************************************************************************)
(* The task that enforces the URL policy between the calls of the session  *)
(* (BrowserSecurityWatchdog in watchdog.rs).  It reads CDP events, decides *)
(* from a copy of the session's current page, and resets that page or      *)
(* closes the other one.  Its command is answered later: the session may   *)
(* have moved on by then.                                                  *)
(***************************************************************************)
EXTENDS BrowserTargets

VARIABLES
    act,     \* the action being applied, or NoAction
    gaveUp   \* <<target, url>> of the resets and closes that failed

watchdogVars == <<act, gaveUp>>

NoAction == [kind |-> None, target |-> None, gen |-> 0, url |-> None, stage |-> None]
Action(kind, e) == [kind |-> kind, target |-> e.target, gen |-> page.gen,
                    url |-> e.url, stage |-> "send"]

\* A mutant's form: only navigations of the current page are acted on.
ActionForFault(e) ==
    IF Allowed(e.url) \/ e.kind # "frame" \/ AttachedPage(e.target, e.gen) # page
    THEN NoAction ELSE Action("reset", e)

\* url_policy_watchdog_action_for_event
ActionFor(e) ==
    IF Allowed(e.url) THEN NoAction
    ELSE CASE e.kind = "target" ->
                Action(IF e.target = page.target THEN "reset" ELSE "close", e)
           [] e.kind = "frame" ->
                IF AttachedPage(e.target, e.gen) = page THEN Action("reset", e) ELSE NoAction
           [] OTHER -> NoAction

\* recv: a lagging receiver gets an error, and while-let ends the task.
WatchdogLags ==
    /\ watching /\ act = NoAction /\ lagged
    /\ watching' = FALSE /\ events' = <<>> /\ lagged' = FALSE
    /\ UNCHANGED <<tab, gen, discovering, attached, moves, shared, listing,
                   watchdogVars>>

WatchdogReceives ==
    /\ watching /\ act = NoAction /\ ~lagged /\ events # <<>>
    /\ act' = ActionFor(Head(events))
    /\ events' = Tail(events)
    /\ UNCHANGED <<tab, gen, discovering, attached, lagged, watching, moves, shared,
                   listing, gaveUp>>

\* Page.navigate to about:blank on the session, or Target.closeTarget.  Either
\* may be carried out and its answer lost.  After a reset the cached elements
\* are dropped when it is answered, those a call is listing are not.
Answered(stage) == act' = [act EXCEPT !.stage = stage]

WatchdogCommands ==
    /\ act # NoAction /\ act.stage = "send"
    /\ \/ /\ act.kind = "reset" /\ Usable(AttachedPage(act.target, act.gen))
          /\ TabShows(act.target, BlankUrl, attached)
          /\ \/ /\ Answered("done") /\ UNCHANGED cache
                /\ listing' = Marked(listing, act.target, "moved")
             \/ Answered("failed") /\ Drift(act.target)
       \/ /\ act.kind = "close" /\ act.target \in Open
          /\ TabCloses(act.target) /\ KeepCache
          /\ Answered("done") \/ Answered("failed")
       \/ Answered("failed") /\ Quiet /\ KeepCache
    /\ UNCHANGED <<gen, discovering, attached, watching, moves, page, pending, gaveUp>>

\* apply_url_policy_watchdog_action after the answer: a failure is recorded and
\* nothing else; the first success is kept for the next call to report.
KeepFirstError(url) == pending' = IF pending = None THEN url ELSE pending

WatchdogFinishes ==
    /\ act # NoAction /\ act.stage \in {"done", "failed"}
    /\ act' = NoAction
    /\ IF act.stage = "done"
       THEN ClearCache /\ KeepFirstError(act.url) /\ UNCHANGED gaveUp
       ELSE /\ gaveUp' = gaveUp \cup {<<act.target, act.url>>}
            /\ UNCHANGED pending /\ KeepCache
    /\ UNCHANGED <<chrome, watching, page>>

WatchdogNext ==
    \/ WatchdogLags
    \/ WatchdogReceives
    \/ WatchdogCommands
    \/ WatchdogFinishes
=============================================================================
