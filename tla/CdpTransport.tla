---------------------------- MODULE CdpTransport ----------------------------
(***************************************************************************)
(* The actor-backed CDP command multiplexer of browser-use-cdp             *)
(* (transport.rs) with the part of target.rs that attaches sessions.       *)
(*                                                                         *)
(* Callers hand commands to one actor task over a bounded channel; the     *)
(* actor writes them to the websocket, matches responses to commands by    *)
(* id, and on a dropped socket fails what is pending and reconnects with a *)
(* bounded number of attempts.  Every connection has a generation; a       *)
(* session attached on one generation is refused locally on a later one.   *)
(*                                                                         *)
(* A session is named by the id of the Target.attachToTarget command that  *)
(* created it (Chrome never reuses a session id).  Messages that are not   *)
(* responses (CDP events, unparsable or binary frames) are republished or  *)
(* skipped and leave this state alone: they are not modelled here.         *)
(***************************************************************************)
EXTENDS Naturals, Sequences, Functions

CONSTANTS
    Callers,          \* tasks that hold an Arc<CdpConnection>
    Impatient,        \* bound: the callers whose calls may be dropped half-way
    RequestCapacity,  \* capacity of the request channel (64 in the code)
    MaxAttempts,      \* CDP_RECONNECT_MAX_ATTEMPTS (3 in the code)
    MaxId,            \* bound: commands issued in a behaviour
    MaxGeneration     \* bound: successful reconnects in a behaviour

ASSUME TransportAssumption ==
    /\ Impatient \subseteq Callers
    /\ RequestCapacity \in Nat \ {0}
    /\ MaxAttempts \in Nat \ {0}
    /\ MaxId \in Nat
    /\ MaxGeneration \in Nat

Ids == 1..MaxId
Generations == 0..MaxGeneration
Browser == 0                     \* the "session" of a browser-level command
None == MaxGeneration + 1        \* no generation recorded

VARIABLES
    \* shared state of CdpConnection
    handles,          \* some Arc<CdpConnection> is alive (request channel open)
    nextId,           \* next_id
    generation,       \* connection_generation
    intentionalStop,  \* intentional_stop
    registered,       \* session_generations: session -> generation, or None
    queue,            \* the mpsc request channel
    \* the actor task
    actor, attempt,
    pending,          \* ids in the actor's pending map
    published,        \* the last connection event given to the broadcast channel
    \* the callers
    caller,           \* [pc, id, step, session] of each caller
    pages,            \* sessions returned to callers as an AttachedPage
    command,          \* [session, attach, checkedAt, sentOn] of each open command
    outcome,          \* the oneshot of an id: "none", what it resolved to, "taken"
    \* the socket and the browser (external)
    linkUp, wire, replies, performed, born

shared == <<handles, nextId, generation, intentionalStop, registered, queue>>
actorVars == <<actor, attempt, pending, published>>
callerVars == <<caller, pages, command, outcome>>
browserVars == <<linkUp, wire, replies, performed, born>>
vars == <<shared, actorVars, callerVars, browserVars>>

Steps == {"plain", "attach", "Page.enable", "Network.enable"}
At(pc, id, step, s) == [pc |-> pc, id |-> id, step |-> step, session |-> s]
Idle == At("idle", 0, "plain", Browser)
\* checkedAt and sentOn record the generation at the check and at the write.
Request(s, attach, checkedAt) ==
    [session |-> s, attach |-> attach, checkedAt |-> checkedAt, sentOn |-> None]
NoCommand == Request(Browser, FALSE, None)
Event(kind, n) == [kind |-> kind, n |-> n]

Init ==
    /\ handles = TRUE /\ nextId = 1 /\ generation = 0
    /\ intentionalStop = FALSE
    /\ registered = [s \in Ids |-> None]
    /\ queue = <<>>
    /\ actor = "serving" /\ attempt = 0 /\ pending = {}
    /\ published = Event("none", 0)
    /\ caller = [c \in Callers |-> Idle]
    /\ pages = {}
    /\ command = [i \in Ids |-> NoCommand]
    /\ outcome = [i \in Ids |-> "none"]
    /\ linkUp = TRUE /\ wire = {} /\ replies = {}
    /\ performed = [i \in Ids |-> 0]
    /\ born = [s \in Ids |-> None]

-----------------------------------------------------------------------------
(* Callers *)

\* Fault: only a session of a future generation is stale.
StaleInverted(s) == s # Browser /\ registered[s] # None /\ registered[s] > generation

\* is_registered_session_stale: an unregistered session is never stale.
Stale(s) == s # Browser /\ registered[s] # None /\ registered[s] # generation

\* Fault: the counter is read, not advanced.
TakeIdTwice == UNCHANGED nextId

\* next_id.fetch_add: the caller has read nextId.
TakeId == nextId' = nextId + 1

\* The first half of command(): the generation check, then an id of its own.
\* A stale session makes command() return an error before anything is sent.
Issue(c, s, step) ==
    /\ handles
    /\ ~Stale(s)
    /\ nextId <= MaxId
    /\ caller' = [caller EXCEPT ![c] = At("sending", nextId, step, s)]
    /\ command' = [command EXCEPT ![nextId] = Request(s, step = "attach", generation)]
    /\ TakeId
    /\ UNCHANGED <<handles, generation, intentionalStop, registered, queue,
                   actorVars, pages, outcome, browserVars>>

\* Any browser-level command, or one for a page some caller was given.
Call(c) ==
    /\ caller[c].pc = "idle"
    /\ \E s \in pages \cup {Browser} : Issue(c, s, "plain")

\* attach_to_target: Target.attachToTarget ...
Attach(c) ==
    /\ caller[c].pc = "idle"
    /\ Issue(c, Browser, "attach")

\* ... then register_attached_session with the generation of this moment ...
Register(c) ==
    /\ caller[c].pc = "registering"
    /\ LET s == caller[c].session IN
       /\ registered' = [registered EXCEPT ![s] = generation]
       /\ caller' = [caller EXCEPT ![c] = At("enabling", 0, "Page.enable", s)]
    /\ UNCHANGED <<handles, nextId, generation, intentionalStop, queue,
                   actorVars, pages, command, outcome, browserVars>>

\* ... then Page.enable and Network.enable in the new session.
Enable(c) ==
    /\ caller[c].pc = "enabling"
    /\ Issue(c, caller[c].session, caller[c].step)

EnableRefused(c) ==
    /\ caller[c].pc = "enabling"
    /\ Stale(caller[c].session)
    /\ caller' = [caller EXCEPT ![c] = Idle]
    /\ UNCHANGED <<shared, actorVars, pages, command, outcome, browserVars>>

\* request_tx.send(..).await: waits while the channel is full.
Enqueue(c) ==
    /\ caller[c].pc = "sending"
    /\ actor # "stopped"
    /\ Len(queue) < RequestCapacity
    /\ queue' = Append(queue, caller[c].id)
    /\ caller' = [caller EXCEPT ![c].pc = "waiting"]
    /\ UNCHANGED <<handles, nextId, generation, intentionalStop, registered,
                   actorVars, pages, command, outcome, browserVars>>

\* The actor dropped request_rx: send() fails.
EnqueueFails(c) ==
    /\ caller[c].pc = "sending"
    /\ actor = "stopped"
    /\ outcome' = [outcome EXCEPT ![caller[c].id] = "transport"]
    /\ command' = [command EXCEPT ![caller[c].id] = NoCommand]
    /\ caller' = [caller EXCEPT ![c] = Idle]
    /\ UNCHANGED <<shared, actorVars, pages, browserVars>>

\* The oneshot resolved: command() returns and attach_to_target goes on.
Return(c) ==
    LET me == caller[c]
        ok == outcome[me.id] = "ok"
    IN /\ me.pc = "waiting"
       /\ outcome[me.id] # "none"
       /\ outcome' = [outcome EXCEPT ![me.id] = "taken"]
       /\ caller' = [caller EXCEPT ![c] =
            CASE ok /\ me.step = "attach"      -> At("registering", 0, "attach", me.id)
              [] ok /\ me.step = "Page.enable" -> At("enabling", 0, "Network.enable", me.session)
              [] OTHER                         -> Idle]
       /\ pages' = IF ok /\ me.step = "Network.enable"
                   THEN pages \cup {me.session} ELSE pages
       /\ UNCHANGED <<shared, actorVars, command, browserVars>>

\* A caller's future is dropped at an await (tokio::time::timeout around a
\* navigation, an action or a whole step): its receiver goes away, the request
\* stays wherever it is.
Abandon(c) ==
    /\ c \in Impatient
    /\ caller[c].pc # "idle"
    /\ caller' = [caller EXCEPT ![c] = Idle]
    /\ UNCHANGED <<shared, actorVars, pages, command, outcome, browserVars>>

\* mark_intentional_stop (close_browser goes on to send Browser.close).
MarkIntentionalStop ==
    /\ handles /\ ~intentionalStop
    /\ intentionalStop' = TRUE
    /\ UNCHANGED <<handles, nextId, generation, registered, queue,
                   actorVars, callerVars, browserVars>>

\* The last Arc<CdpConnection> is dropped; no call borrows it any more.
DropHandles ==
    /\ handles
    /\ \A c \in Callers : caller[c].pc = "idle"
    /\ handles' = FALSE
    /\ UNCHANGED <<nextId, generation, intentionalStop, registered, queue,
                   actorVars, callerVars, browserVars>>

-----------------------------------------------------------------------------
(* The actor *)

\* Resolve the oneshots of the ids in S as r; their requests are forgotten.
Resolve(S, r) ==
    /\ outcome' = [i \in Ids |-> IF i \in S THEN r ELSE outcome[i]]
    /\ command' = [i \in Ids |-> IF i \in S THEN NoCommand ELSE command[i]]

Queued == Range(queue)

\* The socket accepts the text, or, once the peer is gone, may still accept it
\* (it is lost) or report the error to this one caller.
SendNext ==
    /\ actor = "serving"
    /\ queue # <<>>
    /\ queue' = Tail(queue)
    /\ LET i == Head(queue) IN
       \/ /\ pending' = pending \cup {i}
          /\ command' = [command EXCEPT ![i].sentOn = generation]
          /\ wire' = IF linkUp THEN wire \cup {i} ELSE wire
          /\ UNCHANGED outcome
       \/ /\ ~linkUp
          /\ Resolve({i}, "transport")
          /\ UNCHANGED <<pending, wire>>
    /\ UNCHANGED <<handles, nextId, generation, intentionalStop, registered,
                   actor, attempt, published, caller, pages,
                   linkUp, replies, performed, born>>

\* Fault: the first response resolves every open command.
WaitersOfAny(m) == pending

\* pending.remove(&id)
Waiters(m) == pending \cap {m.id}

\* A response: route it to the waiting command, ignore an id nobody waits for.
ReadResponse ==
    /\ actor = "serving"
    /\ \E m \in replies :
         /\ replies' = replies \ {m}
         /\ pending' = pending \ {m.id}
         /\ Resolve(Waiters(m), IF m.ok THEN "ok" ELSE "failed")
    /\ UNCHANGED <<shared, actor, attempt, published, caller, pages,
                   linkUp, wire, performed, born>>

\* Fault: the map survives the connection.
KeepPending == UNCHANGED <<queue, pending, outcome, command>>

\* Fault: what was pending is sent again on the next connection.
RequeuePending ==
    /\ queue' \in {queue} \cup {Append(queue, i) : i \in pending}
    /\ pending' = {}
    /\ UNCHANGED <<outcome, command>>

\* pending.drain()
FailPending ==
    /\ Resolve(pending, "transport")
    /\ pending' = {}
    /\ UNCHANGED queue

\* socket.next() yields None or an error: publish the close, fail what is pending.
DetectClose ==
    /\ actor = "serving"
    /\ ~linkUp
    /\ replies = {}
    /\ FailPending
    /\ published' = Event("closed", 0)
    /\ actor' = "closing"
    /\ UNCHANGED <<handles, nextId, generation, intentionalStop, registered,
                   attempt, caller, pages, browserVars>>

\* Fault: the task ends but something else keeps request_rx alive.
ActorReturnsHoldingQueue ==
    /\ actor' = "stopped"
    /\ UNCHANGED <<queue, outcome, command>>

\* The actor returns: request_rx is dropped and with it every queued oneshot.
ActorReturns ==
    /\ actor' = "stopped"
    /\ Resolve(Queued, "transport")
    /\ queue' = <<>>

\* Fault: the event carries the number of the attempt before.
StartAttemptLate(n) ==
    /\ actor' = "connecting"
    /\ attempt' = n
    /\ published' = Event("reconnecting", attempt)

StartAttempt(n) ==
    /\ actor' = "connecting"
    /\ attempt' = n
    /\ published' = Event("reconnecting", n)

\* Fault: an intentional stop is not asked about.
ShouldReconnectAlways == handles

\* should_reconnect_after_websocket_event
ShouldReconnect == ~intentionalStop /\ handles

Reconnect ==
    /\ actor = "closing"
    /\ ShouldReconnect
    /\ StartAttempt(1)
    /\ UNCHANGED <<shared, pending, callerVars, browserVars>>

GiveUp ==
    /\ actor = "closing"
    /\ ~ShouldReconnect
    /\ ActorReturns
    /\ UNCHANGED <<handles, nextId, generation, intentionalStop, registered,
                   attempt, pending, published, caller, pages, browserVars>>

ConnectSucceeds ==
    /\ actor = "connecting"
    /\ generation < MaxGeneration
    /\ generation' = generation + 1
    /\ published' = Event("reconnected", generation + 1)
    /\ actor' = "serving"
    /\ attempt' = 0
    /\ linkUp' = TRUE
    /\ UNCHANGED <<handles, nextId, intentionalStop, registered, queue,
                   pending, callerVars, wire, replies, performed, born>>

\* Fault: one attempt too many.
MoreAttemptsOffByOne == attempt <= MaxAttempts

MoreAttempts == attempt < MaxAttempts

ConnectFails ==
    /\ actor = "connecting"
    /\ MoreAttempts
    /\ actor' = "sleeping"
    /\ UNCHANGED <<shared, attempt, pending, published, callerVars, browserVars>>

RetryAfterDelay ==
    /\ actor = "sleeping"
    /\ StartAttempt(attempt + 1)
    /\ UNCHANGED <<shared, pending, callerVars, browserVars>>

LastConnectFails ==
    /\ actor = "connecting"
    /\ ~MoreAttempts
    /\ ActorReturns
    /\ published' = Event("reconnect-failed", attempt)
    /\ UNCHANGED <<handles, nextId, generation, intentionalStop, registered,
                   attempt, pending, caller, pages, browserVars>>

-----------------------------------------------------------------------------
(* Chrome and the network (external) *)

\* A session lives only as long as the connection that attached it.
Alive(s) == s = Browser \/ (s \in Ids /\ born[s] = generation)

\* Chrome carries out a command it received, in any order, and answers it.
Perform ==
    /\ linkUp
    /\ \E i \in wire, ok \in BOOLEAN :
         /\ ok => Alive(command[i].session)
         /\ wire' = wire \ {i}
         /\ performed' = [performed EXCEPT ![i] = @ + 1]
         /\ replies' = replies \cup {[id |-> i, ok |-> ok]}
         /\ born' = IF ok /\ command[i].attach
                    THEN [born EXCEPT ![i] = generation] ELSE born
    /\ UNCHANGED <<shared, actorVars, callerVars, linkUp>>

\* The connection breaks: requests on the way are lost, and so are some of the
\* responses the actor has not read yet.
LoseLink ==
    /\ linkUp
    /\ linkUp' = FALSE
    /\ wire' = {}
    /\ \E kept \in SUBSET replies : replies' = kept
    /\ UNCHANGED <<shared, actorVars, callerVars, performed, born>>

-----------------------------------------------------------------------------
\* Everything is over: the actor has returned, and no handle, or no command of
\* the bound, is left.
Terminated ==
    /\ actor = "stopped"
    /\ ~handles \/ nextId > MaxId
    /\ UNCHANGED vars

CallerStep(c) ==
    \/ Call(c) \/ Attach(c) \/ Register(c) \/ Enable(c) \/ EnableRefused(c)
    \/ Enqueue(c) \/ EnqueueFails(c) \/ Return(c) \/ Abandon(c)

ActorStep ==
    \/ SendNext \/ ReadResponse \/ DetectClose \/ Reconnect \/ GiveUp
    \/ ConnectSucceeds \/ ConnectFails \/ RetryAfterDelay \/ LastConnectFails

Next ==
    \/ \E c \in Callers : CallerStep(c)
    \/ ActorStep
    \/ MarkIntentionalStop \/ DropHandles
    \/ Perform \/ LoseLink
    \/ Terminated

Spec == Init /\ [][Next]_vars

\* Tokio polls every ready task and select! picks among ready branches at
\* random, so each of these is eventually taken while it stays possible; a
\* connection attempt ends after at most CDP_CONNECT_TIMEOUT_MS.
TaskFairness ==
    /\ \A c \in Callers :
         WF_vars(Register(c) \/ Enable(c) \/ EnableRefused(c)
                 \/ Enqueue(c) \/ EnqueueFails(c) \/ Return(c))
    /\ WF_vars(SendNext) /\ WF_vars(ReadResponse) /\ WF_vars(DetectClose)
    /\ WF_vars(Reconnect \/ GiveUp)
    /\ WF_vars(ConnectSucceeds \/ ConnectFails \/ LastConnectFails)
    /\ WF_vars(RetryAfterDelay)

FairSpec == Spec /\ TaskFairness

\* A browser that answers every command it receives, in addition.
AnsweringSpec == FairSpec /\ WF_vars(Perform)

-----------------------------------------------------------------------------
(* What the transport guarantees *)

Outcomes == {"none", "ok", "failed", "transport", "taken"}

Enabling == {"Page.enable", "Network.enable"}
CallerRecord ==
    {r \in [pc : {"idle", "sending", "waiting", "registering", "enabling"},
            id : Ids \cup {0}, step : Steps, session : Ids \cup {Browser}] :
        r.pc = "registering" \/ r.step \in Enabling => r.session \in Ids}
CommandRecord ==
    [session : Ids \cup {Browser}, attach : BOOLEAN,
     checkedAt : Generations \cup {None}, sentOn : Generations \cup {None}]

\* The range of every variable.
TypeOK ==
    /\ handles \in BOOLEAN
    /\ nextId \in 1..(MaxId + 1)
    /\ generation \in Generations
    /\ intentionalStop \in BOOLEAN
    /\ registered \in [Ids -> Generations \cup {None}]
    /\ queue \in Seq(Ids)
    /\ actor \in {"serving", "closing", "connecting", "sleeping", "stopped"}
    /\ attempt \in 0..MaxAttempts
    /\ pending \in SUBSET Ids
    /\ published \in [kind : {"none", "closed", "reconnecting", "reconnected",
                              "reconnect-failed"}, n : Nat]
    /\ caller \in [Callers -> CallerRecord]
    /\ pages \in SUBSET Ids
    /\ command \in [Ids -> CommandRecord]
    /\ outcome \in [Ids -> Outcomes]
    /\ linkUp \in BOOLEAN
    /\ wire \in SUBSET Ids
    /\ replies \in SUBSET [id : Ids, ok : BOOLEAN]
    /\ performed \in [Ids -> Nat]
    /\ born \in [Ids -> Generations \cup {None}]

\* The response oneshot of every command that was handed over is held in exactly
\* one place, the channel or the pending map, until it is resolved; none is held
\* once the actor has returned.  This is what keeps a caller from waiting on a
\* oneshot nobody will ever resolve.
WaitingIsHeld ==
    \A c \in Callers : caller[c].pc = "waiting" =>
        LET i == caller[c].id IN
        \/ outcome[i] # "none"
        \/ i \in Queued /\ i \notin pending
        \/ i \in pending /\ i \notin Queued

\* The actor never waits for an answer that cannot come: what is pending was
\* written to the socket the actor now owns, and a command that was answered is
\* neither pending nor queued.
PendingIsCurrent ==
    /\ \A i \in pending : command[i].sentOn = generation /\ outcome[i] = "none"
    /\ \A i \in Queued : outcome[i] = "none"
    /\ actor # "serving" => pending = {}
    /\ actor = "stopped" => queue = <<>>

\* Reconnecting never repeats a command, and a caller is told of success only
\* for a command Chrome really carried out.
AtMostOnce ==
    \A i \in Ids : /\ performed[i] <= 1
                   /\ outcome[i] \in {"ok", "failed"} => performed[i] = 1

\* What the generation check does achieve: a session-scoped command written to a
\* connection other than its session's was checked before the reconnect, or
\* its session was registered after one.
StaleSendIsRaced ==
    \A i \in pending : LET s == command[i].session IN
        (s # Browser /\ command[i].sentOn # born[s])
            => command[i].checkedAt < command[i].sentOn \/ registered[s] # born[s]

\* A subscriber that has read the last connection event knows the connection:
\* "reconnected n" only while generation n is being served, "closed" and
\* "reconnecting" only while nothing is served.
EventsTellConnection ==
    CASE published.kind = "reconnected"      -> actor = "serving" /\ generation = published.n
      [] published.kind = "none"             -> actor = "serving"
      [] published.kind = "closed"           -> actor \in {"closing", "stopped"}
      [] published.kind = "reconnecting"     -> /\ actor \in {"connecting", "sleeping"}
                                                /\ attempt = published.n
      [] OTHER                               -> actor = "stopped"

\* An intentional stop ends the connection for good: once it is set while a
\* socket is served, no later close of that socket brings a new generation.
\* (A reconnect already under way when it is set may still succeed.)
StopIsFinal ==
    \A g \in Generations :
        [](intentionalStop /\ actor = "serving" /\ generation = g => [](generation = g))

\* A command pending on a lost connection is resolved whatever the browser does
\* ("must not hang pending requests silently").
LossResolvesPending ==
    \A i \in Ids : (i \in pending /\ ~linkUp) ~> outcome[i] # "none"

\* With a browser that answers, no call waits forever: not for room in the
\* channel, not across a reconnect, not on an actor that has returned.
CallsReturn ==
    WF_vars(Perform) =>
        \A c \in Callers, i \in Ids :
            (caller[c].pc \in {"sending", "waiting"} /\ caller[c].id = i)
                ~> ~(caller[c].pc \in {"sending", "waiting"} /\ caller[c].id = i)
-----------------------------------------------------------------------------
(* The inductive invariant behind WaitingIsHeld, PendingIsCurrent and       *)
(* AtMostOnce, by parts.                                                    *)

\* Ids are handed out in order and are not in use before.
FreshIds ==
    \A i \in Ids : i >= nextId =>
        outcome[i] = "none" /\ performed[i] = 0 /\ i \notin Queued /\ i \notin pending

\* An open request is in one place only, and has not been carried out while queued.
HeldOnce ==
    /\ IsInjective(queue)
    /\ \A i \in Queued : i \notin pending /\ outcome[i] = "none" /\ performed[i] = 0
    /\ \A i \in pending : outcome[i] = "none" /\ command[i].sentOn = generation

\* What travels on the socket belongs to a pending request.
OnTheWire ==
    /\ \A i \in wire : linkUp /\ i \in pending /\ performed[i] = 0
    /\ \A m \in replies : /\ m.id \in pending /\ m.id \notin wire /\ performed[m.id] = 1
                          /\ \A n \in replies : n.id = m.id => n = m

\* A caller's id is its own; until it is handed over nobody else holds it.
CallerIds ==
    /\ \A c \in Callers : caller[c].pc \in {"sending", "waiting"} =>
         /\ caller[c].id \in Ids /\ caller[c].id < nextId /\ outcome[caller[c].id] # "taken"
         /\ \A d \in Callers \ {c} :
              caller[d].pc \in {"sending", "waiting"} => caller[d].id # caller[c].id
    /\ \A c \in Callers : caller[c].pc = "sending" =>
         /\ caller[c].id \notin Queued /\ caller[c].id \notin pending
         /\ outcome[caller[c].id] = "none" /\ performed[caller[c].id] = 0

\* The socket is only up, and the map only filled, while the actor serves.
ActorPhase ==
    /\ actor # "serving" => ~linkUp /\ pending = {} /\ replies = {}
    /\ actor = "stopped" => queue = <<>>
    /\ actor = "sleeping" => attempt < MaxAttempts

Inv == /\ TypeOK /\ FreshIds /\ HeldOnce /\ OnTheWire /\ CallerIds /\ ActorPhase
       /\ WaitingIsHeld /\ AtMostOnce

-----------------------------------------------------------------------------
(* What documentation says and the code does not do: see the README.        *)

\* transport.rs:148-151: the connection checks that registered session ids still
\* belong to the current generation, so commands are not sent to stale sessions
\* after a reconnect.  It is said of command(), for every interleaving.
NoStaleSessionSend ==
    \A i \in pending : LET s == command[i].session IN
        s # Browser => registered[s] = command[i].sentOn

\* docs/ARCHITECTURE.md:24: background tasks are abortable by ownership drop: once
\* the last handle is dropped the actor task ends.
DropEndsActor == ~handles ~> actor = "stopped"

-----------------------------------------------------------------------------
(* Refinement *)

phaseBar == [i \in Ids |->
    IF i >= nextId THEN "unissued"
    ELSE IF outcome[i] = "none" THEN "open"
    ELSE IF outcome[i] = "taken" THEN "done" ELSE outcome[i]]

carriedOutBar == {i \in Ids : performed[i] > 0}

Channel == INSTANCE CommandChannel WITH phase <- phaseBar, carriedOut <- carriedOutBar

\* Every behaviour of the actor, its callers, the socket and the browser is one
\* of the at-most-once command channel.
ImplementsChannel == Channel!Spec
=============================================================================
