-------------------------- MODULE LifecycleWatchdog --------------------------
(***************************************************************************)
(* The task that turns CDP events into lifecycle events and keeps the      *)
(* network activity page loads are awaited by (BrowserLifecycleWatchdog in *)
(* watchdog.rs, NetworkActivityState in session_types.rs, the waiting in   *)
(* session_helpers.rs).                                                    *)
(*                                                                         *)
(* It handles one event after the other, and some handlers wait for the    *)
(* answer of a command: a dialog is closed, a response body fetched, a     *)
(* screencast frame acknowledged.                                          *)
(* Events pile up in the meantime; the broadcast buffer drops the oldest,  *)
(* and the task goes on behind the gap.  Time is counted in ticks.         *)
(***************************************************************************)
EXTENDS Naturals, Sequences, FiniteSets

CONSTANTS
    Requests, HttpRequests,  \* bound: network requests; those to http(s) URLs
    LwCapacity,              \* CDP events buffered (256 in the code)
    LogCapacity,             \* MAX_LIFECYCLE_EVENTS
    IdleFor,                 \* network_idle_wait, in ticks
    RequestTimeout,          \* network_request_timeout, in ticks
    MaxTime, MaxLwEvents     \* bounds: ticks; events other than of requests

ASSUME LifecycleAssumption ==
  /\ IsFiniteSet(Requests) /\ LwCapacity \in Nat \ {0}
  /\ {LogCapacity, IdleFor, MaxTime} \subseteq Nat

VARIABLES
    lwReq,     \* Chrome: unsent, sent, ended; lost when its session is lost
    lwEvents,  \* the broadcast buffer
    lwLagged,  \* it dropped events since the last recv
    lwMissed,  \* history: requests one of whose events was dropped
    lwBusy,    \* the command the current handler waits for and the requests it then forgets
    lwActive,  \* active_network_requests: when each started; NotActive if not
    lwNet,     \* NetworkActivityState.active_request_ids
    lwLast,    \* NetworkActivityState.last_activity_at
    lwWait,    \* deadline of wait_for_network_idle, or NoWait
    lwLog,     \* lifecycle_events
    lwNow, lwCount

lwVars == <<lwReq, lwEvents, lwLagged, lwMissed, lwBusy, lwActive, lwNet,
            lwLast, lwWait, lwLog, lwNow, lwCount>>

NotActive == MaxTime + 1
NoWait == MaxTime + IdleFor + 1
LwEvent(kind, r) == [kind |-> kind, req |-> r]
NotBusy == LwEvent("no", {})

\* The broadcast channel (BrowserTargets!Publish)
LwPublish(e) ==
    LET full == Len(lwEvents) = LwCapacity IN
    /\ lwEvents' = Append(IF full THEN Tail(lwEvents) ELSE lwEvents, e)
    /\ lwLagged' = (lwLagged \/ full)
    /\ lwMissed' = IF full THEN lwMissed \cup Head(lwEvents).req ELSE lwMissed

LwTaskIdle == UNCHANGED <<lwBusy, lwActive, lwNet, lwLast, lwWait, lwLog, lwNow>>

-----------------------------------------------------------------------------
(* Chrome, the connection and the clock (external) *)

\* Network.requestWillBeSent: a new request, or the redirect of one.
LwSends(r) ==
    /\ lwReq[r] \in {"unsent", "sent"}
    /\ lwReq[r] = "sent" => lwCount < MaxLwEvents
    /\ lwCount' = IF lwReq[r] = "sent" THEN lwCount + 1 ELSE lwCount
    /\ lwReq' = [lwReq EXCEPT ![r] = "sent"]
    /\ LwPublish(LwEvent("start", {r})) /\ LwTaskIdle

\* Network.loadingFinished, Network.loadingFailed
LwEnds(r) ==
    /\ lwReq[r] = "sent" /\ lwReq' = [lwReq EXCEPT ![r] = "ended"]
    /\ LwPublish(LwEvent("end", {r})) /\ UNCHANGED lwCount /\ LwTaskIdle

\* Page.javascriptDialogOpening, Page.screencastFrame, or an event that is only logged: a closed,
\* reconnecting or reconnected connection, a crash, a download.
LwHappens(kind) ==
    /\ lwCount < MaxLwEvents /\ lwCount' = lwCount + 1
    /\ LwPublish(LwEvent(kind, {})) /\ UNCHANGED lwReq /\ LwTaskIdle

\* A lost connection: nothing more is heard of its requests.
LwDisconnects ==
    /\ lwCount < MaxLwEvents /\ lwCount' = lwCount + 1
    /\ lwReq' = [r \in Requests |-> IF lwReq[r] = "sent" THEN "lost" ELSE lwReq[r]]
    /\ LwPublish(LwEvent("websocket", {})) /\ LwTaskIdle

LwTick ==
    /\ lwNow < MaxTime /\ lwNow' = lwNow + 1
    /\ UNCHANGED <<lwReq, lwEvents, lwLagged, lwMissed, lwBusy, lwActive, lwNet,
                   lwLast, lwWait, lwLog, lwCount>>

-----------------------------------------------------------------------------
(* The task *)

\* What is recorded of a notice; a completed download is two events.
RecordedAs ==
    [websocket |-> <<"websocket">>, crash |-> <<"crash">>, download |-> <<"progress", "downloaded">>]

\* A mutant's form: one event too many is kept.
LoggedFault(log, new) ==
    LET all == log \o new IN
    SubSeq(all, IF Len(all) > LogCapacity THEN Len(all) - LogCapacity ELSE 1, Len(all))

\* push_lifecycle_event keeps the latest LogCapacity.
Logged(log, new) ==
    LET all == log \o new IN
    SubSeq(all, IF Len(all) > LogCapacity THEN Len(all) - LogCapacity + 1 ELSE 1, Len(all))

LwRestUnchanged == UNCHANGED <<lwReq, lwMissed, lwWait, lwNow, lwCount>>

\* Err(Lagged) => continue
LwSkips ==
    /\ lwBusy = NotBusy /\ lwLagged /\ lwLagged' = FALSE
    /\ UNCHANGED <<lwEvents, lwBusy, lwActive, lwNet, lwLast, lwLog>> /\ LwRestUnchanged

\* A request that ended; a PDF's body is fetched then, to be saved.
LwForgets(rs) ==
    /\ lwActive' = [r \in Requests |-> IF r \in rs THEN NotActive ELSE lwActive[r]]
    /\ lwNet' = lwNet \ rs /\ lwLast' = lwNow
    /\ lwBusy' \in {NotBusy, LwEvent("body", {})}

\* handle_lifecycle_cdp_event: the HAR recorder comes first, and may fetch the
\* body for its entry while the request still counts as active.  Only requests
\* to http(s) URLs are timed, every request counts for network idle.
LwReads ==
    /\ lwBusy = NotBusy /\ ~lwLagged /\ lwEvents # <<>>
    /\ lwEvents' = Tail(lwEvents)
    /\ LET e == Head(lwEvents) IN
       \/ /\ e.kind = "start"
          /\ lwActive' = [r \in Requests |->
                            IF r \in e.req \cap HttpRequests THEN lwNow ELSE lwActive[r]]
          /\ lwNet' = lwNet \cup e.req /\ lwLast' = lwNow
          /\ UNCHANGED <<lwBusy, lwLog>>
       \/ /\ e.kind = "end" /\ LwForgets(e.req) /\ UNCHANGED lwLog
       \/ /\ \/ e.kind = "end" /\ lwBusy' = LwEvent("entry", e.req)
             \/ e.kind \in {"dialog", "frame"} /\ lwBusy' = LwEvent(e.kind, {})
          /\ UNCHANGED <<lwActive, lwNet, lwLast, lwLog>>
       \/ /\ e.kind \in DOMAIN RecordedAs
          /\ lwLog' = Logged(lwLog, RecordedAs[e.kind])
          /\ UNCHANGED <<lwBusy, lwActive, lwNet, lwLast>>
    /\ UNCHANGED lwLagged /\ LwRestUnchanged

\* The command a handler waits for is answered, or fails with its connection;
\* either way the handler logs what it did with a dialog or a PDF.
LwAnswered ==
    /\ lwBusy.kind \in {"dialog", "body", "frame"} /\ lwBusy' = NotBusy
    /\ lwLog' = Logged(lwLog, IF lwBusy.kind = "frame" THEN <<>> ELSE <<lwBusy.kind>>)
    /\ UNCHANGED <<lwEvents, lwLagged, lwActive, lwNet, lwLast>> /\ LwRestUnchanged

\* The body of a HAR entry: the rest of the handler follows.
LwEntryFetched ==
    /\ lwBusy.kind = "entry" /\ LwForgets(lwBusy.req)
    /\ UNCHANGED <<lwEvents, lwLagged, lwLog>> /\ LwRestUnchanged

TimedOut(now) ==
    {r \in Requests : lwActive[r] # NotActive /\ now - lwActive[r] >= RequestTimeout}

\* A mutant's form: a request that timed out no longer counts as active.
LwTimesOutFault ==
    /\ lwBusy = NotBusy /\ TimedOut(lwNow) # {}
    /\ lwActive' = [r \in Requests |-> IF r \in TimedOut(lwNow) THEN NotActive ELSE lwActive[r]]
    /\ lwNet' = lwNet \ TimedOut(lwNow)
    /\ UNCHANGED <<lwEvents, lwLagged, lwBusy, lwLast, lwLog>> /\ LwRestUnchanged

\* The interval: requests that are too old are reported and no longer timed,
\* while network idle still counts them.
LwTimesOut ==
    /\ lwBusy = NotBusy /\ TimedOut(lwNow) # {}
    /\ lwActive' = [r \in Requests |-> IF r \in TimedOut(lwNow) THEN NotActive ELSE lwActive[r]]
    /\ lwLog' = Logged(lwLog, [i \in 1..Cardinality(TimedOut(lwNow)) |-> "timeout"])
    /\ UNCHANGED <<lwEvents, lwLagged, lwBusy, lwNet, lwLast>> /\ LwRestUnchanged

-----------------------------------------------------------------------------
(* wait_for_network_idle, on the session's side *)

LwOthersUnchanged ==
    UNCHANGED <<lwReq, lwEvents, lwLagged, lwMissed, lwBusy, lwActive, lwNet, lwLast,
                lwLog, lwNow, lwCount>>

LwWaits == lwWait = NoWait /\ lwNow < MaxTime /\ lwWait' = lwNow + IdleFor /\ LwOthersUnchanged

\* idle_remaining
Idle == lwNet = {} /\ lwNow - lwLast >= IdleFor

LwWaitEnds ==
    /\ lwWait # NoWait /\ (lwNow >= lwWait \/ Idle)
    /\ lwWait' = NoWait /\ LwOthersUnchanged

LwInit ==
    /\ lwReq = [r \in Requests |-> "unsent"]
    /\ lwEvents = <<>> /\ lwLagged = FALSE /\ lwMissed = {} /\ lwBusy = NotBusy
    /\ lwActive = [r \in Requests |-> NotActive]
    /\ lwNet = {} /\ lwLast = 0 /\ lwWait = NoWait /\ lwLog = <<>>
    /\ lwNow = 0 /\ lwCount = 0

LwNext ==
    \/ \E r \in Requests : LwSends(r) \/ LwEnds(r)
    \/ \E kind \in {"dialog", "frame"} \cup DOMAIN RecordedAs : LwHappens(kind)
    \/ LwDisconnects \/ LwTick
    \/ LwSkips \/ LwReads \/ LwEntryFetched \/ LwAnswered \/ LwTimesOut
    \/ LwWaits \/ LwWaitEnds

-----------------------------------------------------------------------------
(* Properties *)

LwTypeOK ==
    /\ lwReq \in [Requests -> {"unsent", "sent", "ended", "lost"}]
    /\ Len(lwEvents) <= LwCapacity /\ Len(lwLog) <= LogCapacity
    /\ lwMissed \subseteq Requests /\ lwNet \subseteq Requests
    /\ lwBusy.kind \in {"no", "dialog", "frame", "entry", "body"} /\ lwBusy.req \subseteq Requests
    /\ lwActive \in [Requests -> 0..NotActive]
    /\ lwLast \in 0..MaxTime /\ lwWait \in 0..NoWait

Unread(r) == \E i \in 1..Len(lwEvents) : r \in lwEvents[i].req

\* A wait for network idle that ends before its deadline is right: every request
\* Chrome is still loading has an event the task has not read yet, or lost to
\* the buffer.  (A request that was reported as timed out is still loading.)
EarlyIdleIsTrue ==
    [][lwWait # NoWait /\ lwWait' = NoWait /\ lwNow < lwWait =>
          \A r \in Requests : lwReq[r] = "sent" => r \in lwMissed \/ Unread(r)]_lwVars
=============================================================================
