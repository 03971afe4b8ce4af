------------------------- MODULE CdpTransportProofs -------------------------
(***************************************************************************)
(* Inv of CdpTransport is inductive: with it, for any callers, capacity,   *)
(* number of attempts, commands and reconnects, no caller waits on a       *)
(* oneshot nobody holds, nothing pending survives its socket, and no       *)
(* command is carried out twice.                                           *)
(***************************************************************************)
EXTENDS CdpTransport, SequenceTheorems, TLAPS

-----------------------------------------------------------------------------
(* Facts about the request channel *)

\* What is in a channel after a send.
LEMMA AppendChannel ==
    ASSUME NEW S, NEW q \in Seq(S), NEW e \in S
    PROVE  /\ Append(q, e) \in Seq(S)
           /\ Range(Append(q, e)) = Range(q) \cup {e}
           /\ IsInjective(q) /\ e \notin Range(q) => IsInjective(Append(q, e))
<1> DEFINE r == Append(q, e)
<1>1. /\ r \in Seq(S) /\ Len(r) = Len(q) + 1
      /\ \A k \in 1..Len(q) : r[k] = q[k]
      /\ r[Len(q) + 1] = e
  BY AppendProperties
<1>2. /\ Len(q) \in Nat
      /\ DOMAIN q = 1..Len(q) /\ DOMAIN r = 1..(Len(q) + 1)
  BY <1>1, LenProperties
<1>3. Range(r) = Range(q) \cup {e}
  <2>1. \A k \in DOMAIN q : k \in DOMAIN r /\ r[k] = q[k]
    BY <1>1, <1>2
  <2>2. Len(q) + 1 \in DOMAIN r
    BY <1>2
  <2>3. \A k \in DOMAIN r : k \in DOMAIN q \/ k = Len(q) + 1
    BY <1>2
  <2>4. QED
    BY <1>1, <2>1, <2>2, <2>3 DEF Range
<1>4. ASSUME IsInjective(q), e \notin Range(q)
      PROVE  IsInjective(r)
  <2>1. \A k \in 1..Len(q) : r[k] # e
    BY <1>1, <1>2, <1>4 DEF Range
  <2>2. \A j, k \in 1..Len(q) : r[j] = r[k] => j = k
    BY <1>1, <1>2, <1>4 DEF IsInjective
  <2>3. \A j \in 1..(Len(q) + 1) : j \in 1..Len(q) \/ j = Len(q) + 1
    BY <1>2
  <2>4. QED
    BY <1>1, <1>2, <2>1, <2>2, <2>3 DEF IsInjective
<1>5. QED
  BY <1>1, <1>3, <1>4

\* What is in a channel before a receive: the head, and what is left.
LEMMA TailChannel ==
    ASSUME NEW S, NEW q \in Seq(S), q # <<>>
    PROVE  /\ Head(q) \in S /\ Tail(q) \in Seq(S)
           /\ Head(q) \in Range(q)
           /\ Range(q) = Range(Tail(q)) \cup {Head(q)}
           /\ IsInjective(q) => IsInjective(Tail(q)) /\ Head(q) \notin Range(Tail(q))
<1> DEFINE t == Tail(q)
<1>1. /\ Head(q) \in S /\ t \in Seq(S) /\ Len(t) = Len(q) - 1
      /\ \A k \in 1..Len(t) : t[k] = q[k + 1]
  BY HeadTailProperties
<1>2. /\ Len(q) \in Nat /\ Len(q) # 0
      /\ DOMAIN q = 1..Len(q) /\ DOMAIN t = 1..Len(t)
      /\ Head(q) = q[1]
  BY <1>1, LenProperties, EmptySeq
<1>3. 1 \in DOMAIN q
  BY <1>2
<1>4. \A k \in DOMAIN t : k + 1 \in DOMAIN q /\ t[k] = q[k + 1] /\ k + 1 # 1
  BY <1>1, <1>2
<1>5. \A k \in DOMAIN q : k = 1 \/ (k - 1 \in DOMAIN t /\ t[k - 1] = q[k])
  BY <1>1, <1>2
<1>6. Range(q) = Range(t) \cup {Head(q)}
  <2>1. Range(q) \subseteq Range(t) \cup {Head(q)}
    BY <1>2, <1>5 DEF Range
  <2>2. Range(t) \cup {Head(q)} \subseteq Range(q)
    BY <1>2, <1>3, <1>4 DEF Range
  <2>3. QED
    BY <2>1, <2>2
<1>7. ASSUME IsInjective(q)
      PROVE  IsInjective(t) /\ Head(q) \notin Range(t)
  <2>1. \A j, k \in DOMAIN t : j + 1 = k + 1 => j = k
    BY <1>1, <1>2
  <2>2. IsInjective(t)
    BY <1>4, <1>7, <2>1 DEF IsInjective
  <2>3. Head(q) \notin Range(t)
    BY <1>2, <1>3, <1>4, <1>7 DEF IsInjective, Range
  <2>4. QED
    BY <2>2, <2>3
<1>8. QED
  BY <1>1, <1>6, <1>7

(* Facts about the record of a caller *)

\* Where a caller may stand.
LEMMA CallerRecords ==
    /\ \A pc \in {"idle", "sending", "waiting", "registering", "enabling"},
         i \in Ids \cup {0}, st \in Steps, s \in Ids \cup {Browser} :
            (pc = "registering" \/ st \in Enabling => s \in Ids) => At(pc, i, st, s) \in CallerRecord
    /\ Idle \in CallerRecord /\ Idle.pc = "idle"
<1>1. Browser \in Ids \cup {Browser} /\ 0 \in Ids \cup {0}
  OBVIOUS
<1>2. QED
  BY <1>1 DEF At, Idle, CallerRecord, Steps, Enabling

\* What a caller's record may hold.
LEMMA CallerFields ==
    ASSUME TypeOK, NEW c \in Callers
    PROVE  /\ caller[c].id \in Ids \cup {0} /\ caller[c].step \in Steps
           /\ caller[c].session \in Ids \cup {Browser}
           /\ caller[c].pc = "registering" \/ caller[c].step \in Enabling => caller[c].session \in Ids
           /\ caller[c] = At(caller[c].pc, caller[c].id, caller[c].step, caller[c].session)
<1>1. caller[c] \in CallerRecord
  BY DEF TypeOK
<1>2. QED
  BY <1>1 DEF CallerRecord, At

-----------------------------------------------------------------------------
(* The steps, one lemma per action *)

\* A new connection satisfies the invariant.
LEMMA InitInv == Init => Inv
<1> SUFFICES ASSUME Init PROVE Inv
  OBVIOUS
<1> USE TransportAssumption
<1>1. TypeOK
  <2>1. Idle \in CallerRecord
    BY CallerRecords
  <2>2. NoCommand \in CommandRecord
    BY DEF NoCommand, Request, CommandRecord
  <2>3. nextId \in 1..(MaxId + 1) /\ attempt \in 0..MaxAttempts /\ generation \in Generations
    BY DEF Init, Generations
  <2>4. queue \in Seq(Ids)
    BY EmptySeq DEF Init
  <2>5. QED
    BY <2>1, <2>2, <2>3, <2>4 DEF Init, TypeOK, Event, Outcomes
<1>2. Queued = {}
  BY DEF Init, Queued, Range
<1>3. FreshIds /\ HeldOnce /\ OnTheWire
  BY <1>2 DEF Init, FreshIds, HeldOnce, OnTheWire, IsInjective, Ids
<1>4. CallerIds /\ ActorPhase /\ WaitingIsHeld /\ AtMostOnce
  BY <1>2 DEF Init, CallerIds, ActorPhase, WaitingIsHeld, AtMostOnce, Idle, At, Ids
<1>5. QED
  BY <1>1, <1>3, <1>4 DEF Inv

\* A command gets a fresh id, which its caller owns.
LEMMA IssueInv ==
    ASSUME Inv, NEW c \in Callers, NEW s \in Ids \cup {Browser}, NEW step \in Steps,
           step \in Enabling => s \in Ids,
           caller[c].pc \in {"idle", "enabling"}, Issue(c, s, step)
    PROVE  Inv'
<1> USE TransportAssumption DEF Ids
<1> DEFINE n == nextId
<1>1. n \in Ids /\ n \notin Queued /\ n \notin pending /\ outcome[n] = "none" /\ performed[n] = 0
  BY DEF Inv, TypeOK, FreshIds, Issue, TakeId
<1>2. /\ caller' = [caller EXCEPT ![c] = At("sending", n, step, s)]
      /\ nextId' = n + 1
      /\ Queued' = Queued
  BY DEF Issue, TakeId, Queued, Range
<1>3. TypeOK'
  <2>1. At("sending", n, step, s) \in CallerRecord
    BY <1>1, CallerRecords
  <2>2. Request(s, step = "attach", generation) \in CommandRecord
    BY DEF Inv, TypeOK, CommandRecord, Request
  <2>3. nextId' \in 1..(MaxId + 1)
    BY <1>1, <1>2 DEF Inv, TypeOK
  <2>4. caller' \in [Callers -> CallerRecord]
    BY <1>2, <2>1 DEF Inv, TypeOK
  <2>5. command' \in [Ids -> CommandRecord]
    BY <2>2 DEF Inv, TypeOK, Issue, TakeId
  <2>6. QED
    BY <2>3, <2>4, <2>5 DEF Inv, TypeOK, Issue, TakeId, actorVars, browserVars
<1>4. FreshIds'
  BY <1>1, <1>2 DEF Inv, TypeOK, FreshIds, Issue, TakeId, actorVars, browserVars
<1>5. HeldOnce'
  <2>1. \A i \in pending : i # n /\ i \in Ids
    BY <1>1 DEF Inv, TypeOK
  <2>2. \A i \in pending : command'[i] = command[i]
    BY <2>1 DEF Issue, TakeId, Inv, TypeOK
  <2>3. QED
    BY <1>1, <1>2, <2>2 DEF Inv, HeldOnce, Issue, TakeId, actorVars, browserVars
<1>6. OnTheWire' /\ AtMostOnce' /\ ActorPhase'
  BY DEF Inv, OnTheWire, AtMostOnce, ActorPhase, Issue, TakeId, actorVars, browserVars
<1>7. CallerIds'
  BY <1>1, <1>2 DEF Inv, TypeOK, CallerIds, At, Issue, TakeId, actorVars, browserVars
<1>8. WaitingIsHeld'
  BY <1>1, <1>2 DEF Inv, TypeOK, WaitingIsHeld, At, Issue, TakeId, actorVars, browserVars
<1>9. QED
  BY <1>3, <1>4, <1>5, <1>6, <1>7, <1>8 DEF Inv

\* A caller that holds no request any more disturbs nothing.
LEMMA LeaveInv ==
    ASSUME Inv, NEW c \in Callers, NEW r \in CallerRecord,
           r.pc \notin {"sending", "waiting"},
           caller' = [caller EXCEPT ![c] = r],
           pages' \in SUBSET Ids,
           registered' \in [Ids -> Generations \cup {None}],
           UNCHANGED <<handles, nextId, generation, intentionalStop, queue,
                       actorVars, command, outcome, browserVars>>
    PROVE  Inv'
<1> USE TransportAssumption
<1>1. Queued' = Queued
  BY DEF Queued
<1>2. TypeOK'
  BY DEF Inv, TypeOK, actorVars, browserVars
<1>3. /\ FreshIds' /\ HeldOnce' /\ OnTheWire' /\ ActorPhase' /\ AtMostOnce'
  BY <1>1 DEF Inv, FreshIds, HeldOnce, OnTheWire, ActorPhase, AtMostOnce, actorVars, browserVars
<1>4. \A d \in Callers : caller'[d].pc \in {"sending", "waiting"} => d # c /\ caller'[d] = caller[d]
  BY DEF Inv, TypeOK
<1>5. CallerIds'
  BY <1>1, <1>4 DEF Inv, CallerIds, actorVars, browserVars
<1>6. WaitingIsHeld'
  BY <1>1, <1>4 DEF Inv, WaitingIsHeld, actorVars
<1>7. QED
  BY <1>2, <1>3, <1>5, <1>6 DEF Inv

\* Registering a session, being refused and giving up move no command.
LEMMA QuietCallerInv ==
    ASSUME Inv, NEW c \in Callers, Register(c) \/ EnableRefused(c) \/ Abandon(c)
    PROVE  Inv'
<1>1. Idle \in CallerRecord /\ Idle.pc \notin {"sending", "waiting"}
  BY CallerRecords
<1>2. TypeOK
  BY DEF Inv
<1>3. CASE Register(c)
  <2> DEFINE r == At("enabling", 0, "Page.enable", caller[c].session)
  <2>1. r \in CallerRecord /\ r.pc \notin {"sending", "waiting"}
    <3>1. caller[c].session \in Ids
      BY <1>2, <1>3, CallerFields DEF Register
    <3>2. r \in CallerRecord
      BY <3>1, CallerRecords DEF Steps
    <3>3. QED
      BY <3>2 DEF At
  <2>2. registered' \in [Ids -> Generations \cup {None}] /\ pages' \in SUBSET Ids
    BY <1>2, <1>3 DEF TypeOK, Register
  <2>3. QED
    BY <1>3, <2>1, <2>2, LeaveInv DEF Register
<1>4. CASE EnableRefused(c)
  BY <1>1, <1>2, <1>4, LeaveInv DEF EnableRefused, shared, TypeOK
<1>5. CASE Abandon(c)
  BY <1>1, <1>2, <1>5, LeaveInv DEF Abandon, shared, TypeOK
<1>6. QED
  BY <1>3, <1>4, <1>5

\* A command that is queued is held by the channel only.
LEMMA EnqueueInv ==
    ASSUME Inv, NEW c \in Callers, Enqueue(c)
    PROVE  Inv'
<1> USE TransportAssumption
<1> DEFINE i == caller[c].id
<1>1. /\ i \in Ids /\ i < nextId /\ i \notin Queued /\ i \notin pending
      /\ outcome[i] = "none" /\ performed[i] = 0
      /\ queue \in Seq(Ids)
  BY DEF Inv, TypeOK, CallerIds, Enqueue
<1>2. queue' = Append(queue, i)
  BY DEF Enqueue
<1>3. /\ queue' \in Seq(Ids)
      /\ Queued' = Queued \cup {i}
      /\ IsInjective(queue')
  BY <1>1, <1>2, AppendChannel DEF Inv, HeldOnce, Queued
<1>4. TypeOK'
  <2>1. [caller[c] EXCEPT !.pc = "waiting"] \in CallerRecord
    <3>1. caller[c] = At(caller[c].pc, i, caller[c].step, caller[c].session)
      BY CallerFields DEF Inv
    <3>2. [caller[c] EXCEPT !.pc = "waiting"] = At("waiting", i, caller[c].step, caller[c].session)
      BY <3>1 DEF At
    <3>3. QED
      BY <1>1, <3>2, CallerRecords, CallerFields DEF Inv
  <2>2. caller' = [caller EXCEPT ![c] = [caller[c] EXCEPT !.pc = "waiting"]]
    BY DEF Inv, TypeOK, CallerRecord, Enqueue
  <2>3. QED
    BY <1>3, <2>1, <2>2, SMTT(30) DEF Inv, TypeOK, Enqueue, actorVars, browserVars
<1>5. FreshIds'
  BY <1>1, <1>3 DEF Inv, TypeOK, FreshIds, Enqueue, Ids, actorVars, browserVars
<1>6. HeldOnce'
  BY <1>1, <1>3 DEF Inv, HeldOnce, Enqueue, actorVars, browserVars
<1>7. OnTheWire' /\ AtMostOnce'
  BY DEF Inv, OnTheWire, AtMostOnce, Enqueue, actorVars, browserVars
<1>8. ActorPhase'
  BY DEF Inv, ActorPhase, Enqueue, actorVars, browserVars
<1>9. /\ caller'[c].pc = "waiting" /\ caller'[c].id = i
      /\ \A d \in Callers \ {c} : caller'[d] = caller[d]
  BY DEF Inv, TypeOK, CallerRecord, Enqueue
<1>10. CallerIds'
  <2>1. \A d \in Callers \ {c} : caller[d].pc \in {"sending", "waiting"} => caller[d].id # i
    BY DEF Inv, CallerIds, Enqueue
  <2>2. QED
    BY <1>1, <1>3, <1>9, <2>1 DEF Inv, CallerIds, Enqueue, actorVars, browserVars
<1>11. WaitingIsHeld'
  BY <1>1, <1>3, <1>9 DEF Inv, WaitingIsHeld, CallerIds, Enqueue, actorVars
<1>12. QED
  BY <1>4, <1>5, <1>6, <1>7, <1>8, <1>10, <1>11 DEF Inv

\* One that cannot be queued fails its caller.
LEMMA EnqueueFailsInv ==
    ASSUME Inv, NEW c \in Callers, EnqueueFails(c)
    PROVE  Inv'
<1> USE TransportAssumption
<1> DEFINE i == caller[c].id
<1>1. /\ i \in Ids /\ i < nextId /\ i \notin Queued /\ i \notin pending
      /\ outcome' = [outcome EXCEPT ![i] = "transport"]
      /\ command' = [command EXCEPT ![i] = NoCommand]
      /\ caller' = [caller EXCEPT ![c] = Idle]
      /\ Queued' = Queued
  BY DEF Inv, CallerIds, EnqueueFails, Queued, shared
<1>2. NoCommand \in CommandRecord
  BY DEF NoCommand, Request, CommandRecord
<1>3. TypeOK'
  BY <1>1, <1>2, CallerRecords DEF Inv, TypeOK, EnqueueFails, Outcomes, shared, actorVars, browserVars
<1>4. FreshIds'
  BY <1>1 DEF Inv, TypeOK, FreshIds, EnqueueFails, Ids, shared, actorVars, browserVars
<1>5. HeldOnce'
  <2>1. \A j \in Queued \cup pending : j # i /\ j \in Ids
    BY <1>1, RangeOfSeq DEF Inv, TypeOK, Queued
  <2>2. \A j \in Queued \cup pending : outcome'[j] = outcome[j] /\ command'[j] = command[j]
    BY <1>1, <2>1 DEF Inv, TypeOK
  <2>3. QED
    BY <1>1, <2>2 DEF Inv, HeldOnce, EnqueueFails, shared, actorVars, browserVars
<1>6. OnTheWire' /\ ActorPhase'
  BY DEF Inv, OnTheWire, ActorPhase, EnqueueFails, shared, actorVars, browserVars
<1>7. AtMostOnce'
  BY <1>1 DEF Inv, TypeOK, AtMostOnce, EnqueueFails, browserVars
<1>8. \A d \in Callers : caller'[d].pc \in {"sending", "waiting"} =>
        d # c /\ caller'[d] = caller[d] /\ caller[d].id \in Ids /\ caller[d].id # i
  BY <1>1, CallerRecords DEF Inv, TypeOK, CallerIds, EnqueueFails
<1>9. \A d \in Callers : caller'[d].pc \in {"sending", "waiting"} =>
        outcome'[caller[d].id] = outcome[caller[d].id]
  BY <1>1, <1>8 DEF Inv, TypeOK
<1>10. CallerIds'
  BY <1>1, <1>8, <1>9 DEF Inv, CallerIds, EnqueueFails, shared, actorVars, browserVars
<1>11. WaitingIsHeld'
  BY <1>1, <1>8, <1>9 DEF Inv, WaitingIsHeld, EnqueueFails, actorVars
<1>12. QED
  BY <1>3, <1>4, <1>5, <1>6, <1>7, <1>10, <1>11 DEF Inv

\* A caller takes its answer and is done with the id.
LEMMA ReturnInv ==
    ASSUME Inv, NEW c \in Callers, Return(c)
    PROVE  Inv'
<1> USE TransportAssumption
<1> DEFINE i == caller[c].id
<1>1. /\ i \in Ids /\ i < nextId /\ outcome[i] # "none"
      /\ outcome' = [outcome EXCEPT ![i] = "taken"]
      /\ Queued' = Queued
  BY DEF Inv, CallerIds, Return, Queued, shared
<1>2. i \notin Queued /\ i \notin pending
  BY <1>1 DEF Inv, HeldOnce
<1>3. \E r \in CallerRecord : /\ r.pc \notin {"sending", "waiting"}
                             /\ caller' = [caller EXCEPT ![c] = r]
  <2>1. /\ At("registering", 0, "attach", i) \in CallerRecord
        /\ At("registering", 0, "attach", i).pc = "registering"
    BY <1>1, CallerRecords DEF At, Steps
  <2>2. /\ caller[c].step = "Page.enable"
             => At("enabling", 0, "Network.enable", caller[c].session) \in CallerRecord
        /\ At("enabling", 0, "Network.enable", caller[c].session).pc = "enabling"
    <3>1. caller[c].step = "Page.enable" => caller[c].session \in Ids
      BY CallerFields DEF Inv, Enabling
    <3>2. QED
      BY <3>1, CallerRecords DEF At, Steps
  <2>3. \/ caller' = [caller EXCEPT ![c] = At("registering", 0, "attach", i)]
        \/ /\ caller[c].step = "Page.enable"
           /\ caller' = [caller EXCEPT ![c] = At("enabling", 0, "Network.enable", caller[c].session)]
        \/ caller' = [caller EXCEPT ![c] = Idle]
    BY DEF Return
  <2>4. QED
    BY <2>1, <2>2, <2>3, CallerRecords
<1>4. pages' \in SUBSET Ids
  <2>1. caller[c].step = "Network.enable" => caller[c].session \in Ids
    BY CallerFields DEF Inv, Enabling
  <2>2. QED
    BY <2>1 DEF Inv, TypeOK, Return
<1>5. TypeOK'
  BY <1>1, <1>3, <1>4, SMTT(30) DEF Inv, TypeOK, Return, Outcomes, shared, actorVars, browserVars
<1>6. FreshIds'
  BY <1>1 DEF Inv, TypeOK, FreshIds, Return, Ids, shared, actorVars, browserVars
<1>7. HeldOnce'
  <2>1. \A j \in Queued \cup pending : j # i /\ j \in Ids
    BY <1>2, RangeOfSeq DEF Inv, TypeOK, Queued
  <2>2. \A j \in Queued \cup pending : outcome'[j] = outcome[j]
    BY <1>1, <2>1 DEF Inv, TypeOK
  <2>3. QED
    BY <1>1, <2>2 DEF Inv, HeldOnce, Return, shared, actorVars, browserVars
<1>8. OnTheWire' /\ ActorPhase'
  BY DEF Inv, OnTheWire, ActorPhase, Return, shared, actorVars, browserVars
<1>9. AtMostOnce'
  BY <1>1 DEF Inv, TypeOK, AtMostOnce, Return, browserVars
<1>10. \A d \in Callers : caller'[d].pc \in {"sending", "waiting"} =>
        d # c /\ caller'[d] = caller[d] /\ caller[d].id \in Ids /\ caller[d].id # i
  BY <1>3 DEF Inv, TypeOK, CallerIds, Return
<1>11. \A d \in Callers : caller'[d].pc \in {"sending", "waiting"} =>
        outcome'[caller[d].id] = outcome[caller[d].id]
  BY <1>1, <1>10 DEF Inv, TypeOK
<1>12. CallerIds'
  <2>1. CallerIds /\ nextId' = nextId /\ pending' = pending /\ performed' = performed
    BY DEF Inv, Return, shared, actorVars, browserVars
  <2>2. ASSUME NEW d \in Callers, caller'[d].pc \in {"sending", "waiting"}
        PROVE  /\ caller'[d].id \in Ids /\ caller'[d].id < nextId' /\ outcome'[caller'[d].id] # "taken"
               /\ \A e \in Callers \ {d} :
                    caller'[e].pc \in {"sending", "waiting"} => caller'[e].id # caller'[d].id
    BY <1>10, <1>11, <2>1, <2>2 DEF CallerIds
  <2>3. ASSUME NEW d \in Callers, caller'[d].pc = "sending"
        PROVE  /\ caller'[d].id \notin Queued' /\ caller'[d].id \notin pending'
               /\ outcome'[caller'[d].id] = "none" /\ performed'[caller'[d].id] = 0
    BY <1>1, <1>10, <1>11, <2>1, <2>3 DEF CallerIds
  <2>4. QED
    BY <2>2, <2>3 DEF CallerIds
<1>13. WaitingIsHeld'
  <2>1. WaitingIsHeld /\ pending' = pending /\ Queued' = Queued
    BY <1>1 DEF Inv, Return, actorVars
  <2>2. ASSUME NEW d \in Callers, caller'[d].pc = "waiting"
        PROVE  LET j == caller'[d].id IN
               \/ outcome'[j] # "none"
               \/ j \in Queued' /\ j \notin pending'
               \/ j \in pending' /\ j \notin Queued'
    BY <1>10, <1>11, <2>1, <2>2 DEF WaitingIsHeld
  <2>3. QED
    BY <2>2 DEF WaitingIsHeld
<1>14. QED
  BY <1>5, <1>6, <1>7, <1>8, <1>9, <1>12, <1>13 DEF Inv

\* Two flags of CdpConnection that the rest of the state does not look at here.
LEMMA FlagsInv ==
    ASSUME Inv, MarkIntentionalStop \/ DropHandles
    PROVE  Inv'
<1>1. /\ handles' \in BOOLEAN /\ intentionalStop' \in BOOLEAN
      /\ UNCHANGED <<nextId, generation, registered, queue, actorVars, callerVars, browserVars>>
  BY DEF Inv, TypeOK, MarkIntentionalStop, DropHandles
<1>2. TypeOK'
  BY <1>1 DEF Inv, TypeOK, actorVars, callerVars, browserVars
<1>3. Queued' = Queued
  BY <1>1 DEF Queued
<1>4. FreshIds' /\ HeldOnce' /\ OnTheWire' /\ ActorPhase' /\ AtMostOnce'
  BY <1>1, <1>3 DEF Inv, FreshIds, HeldOnce, OnTheWire, ActorPhase, AtMostOnce,
     actorVars, callerVars, browserVars
<1>5. CallerIds' /\ WaitingIsHeld'
  BY <1>1, <1>3 DEF Inv, CallerIds, WaitingIsHeld, actorVars, callerVars, browserVars
<1>6. QED
  BY <1>2, <1>4, <1>5 DEF Inv

\* Resolving the oneshots of S, all of which are open and handed over, and
\* forgetting S everywhere leaves every other request as it was.
LEMMA ResolveInv ==
    ASSUME Inv, NEW S \in SUBSET (Queued \cup pending),
           NEW r \in {"ok", "failed", "transport"}, Resolve(S, r),
           r # "transport" => \A i \in S : performed[i] = 1,
           Queued' = Queued \ S, pending' = pending \ S,
           queue' \in Seq(Ids), IsInjective(queue'),
           \A i \in wire' : i \in wire \ S,
           linkUp' = linkUp,
           replies' \in SUBSET {m \in replies : m.id \notin S},
           UNCHANGED <<nextId, generation, caller, performed>>
    PROVE  FreshIds' /\ HeldOnce' /\ OnTheWire' /\ CallerIds' /\ WaitingIsHeld' /\ AtMostOnce'
<1>1. /\ S \subseteq Ids /\ Queued \subseteq Ids /\ pending \subseteq Ids
      /\ \A i \in S : i < nextId
  <2>1. Queued \subseteq Ids
    BY RangeOfSeq DEF Inv, TypeOK, Queued
  <2>2. pending \subseteq Ids
    BY DEF Inv, TypeOK
  <2>3. \A i \in Ids : i \in Ids /\ (i < nextId \/ i >= nextId)
    BY TransportAssumption DEF Inv, TypeOK, Ids
  <2>4. \A i \in S : ~(i >= nextId)
    BY <2>1, <2>2 DEF Inv, FreshIds
  <2>5. QED
    BY <2>1, <2>2, <2>3, <2>4
<1>2. /\ \A i \in S : outcome'[i] = r
      /\ \A i \in Ids \ S : outcome'[i] = outcome[i] /\ command'[i] = command[i]
  BY <1>1 DEF Resolve
<1>3. FreshIds'
  <2>1. \A i \in Ids : i >= nextId => i \notin S
    BY <1>1, TransportAssumption DEF Inv, TypeOK, Ids
  <2>2. QED
    BY <1>2, <2>1 DEF Inv, FreshIds
<1>4. HeldOnce'
  BY <1>1, <1>2 DEF Inv, HeldOnce
<1>5. OnTheWire'
  BY DEF Inv, OnTheWire
<1>6. \A c \in Callers : caller[c].pc = "sending" => caller[c].id \notin S
  BY DEF Inv, CallerIds
<1>7. CallerIds'
  BY <1>2, <1>6 DEF Inv, CallerIds
<1>8. WaitingIsHeld'
  <2>1. SUFFICES ASSUME NEW c \in Callers, caller[c].pc = "waiting"
                 PROVE  LET i == caller[c].id IN
                        \/ outcome'[i] # "none"
                        \/ i \in Queued' /\ i \notin pending'
                        \/ i \in pending' /\ i \notin Queued'
    BY DEF WaitingIsHeld
  <2>2. caller[c].id \in Ids
    BY <2>1 DEF Inv, CallerIds
  <2>3. CASE caller[c].id \in S
    BY <1>2, <2>3
  <2>4. CASE caller[c].id \notin S
    BY <1>2, <2>1, <2>2, <2>4 DEF Inv, WaitingIsHeld
  <2>5. QED
    BY <2>3, <2>4
<1>9. AtMostOnce'
  <2>1. \A i \in S : performed[i] <= 1 /\ (outcome'[i] \in {"ok", "failed"} => performed[i] = 1)
    BY <1>1, <1>2 DEF Inv, AtMostOnce
  <2>2. \A i \in Ids \ S : performed[i] <= 1 /\ (outcome'[i] \in {"ok", "failed"} => performed[i] = 1)
    BY <1>2 DEF Inv, AtMostOnce
  <2>3. QED
    BY <2>1, <2>2 DEF AtMostOnce
<1>10. QED
  BY <1>3, <1>4, <1>5, <1>7, <1>8, <1>9

\* Resolving commands keeps their records typed.
LEMMA ResolveType ==
    ASSUME Inv, NEW S, NEW r \in {"ok", "failed", "transport"}, Resolve(S, r)
    PROVE  outcome' \in [Ids -> Outcomes] /\ command' \in [Ids -> CommandRecord]
<1>1. NoCommand \in CommandRecord
  BY DEF NoCommand, Request, CommandRecord
<1>2. QED
  BY <1>1 DEF Inv, TypeOK, Resolve, Outcomes

\* The command at the head moves from the channel to the pending map, or is
\* failed.
LEMMA SendNextInv ==
    ASSUME Inv, SendNext
    PROVE  Inv'
<1> DEFINE i == Head(queue)
<1>1. /\ i \in Ids /\ queue' = Tail(queue) /\ queue' \in Seq(Ids)
      /\ i \in Queued /\ Queued = Queued' \cup {i}
      /\ IsInjective(queue') /\ i \notin Queued'
  BY TailChannel DEF Inv, TypeOK, HeldOnce, SendNext, Queued
<1>2. i \notin pending /\ outcome[i] = "none" /\ performed[i] = 0
  BY <1>1 DEF Inv, HeldOnce
<1>3. CASE /\ ~linkUp /\ Resolve({i}, "transport")
           /\ UNCHANGED <<pending, wire>>
  <2>1. \A m \in replies : m.id # i
    BY <1>2 DEF Inv, OnTheWire
  <2>2. \A j \in wire : j # i
    BY <1>2 DEF Inv, OnTheWire
  <2>3. FreshIds' /\ HeldOnce' /\ OnTheWire' /\ CallerIds' /\ WaitingIsHeld' /\ AtMostOnce'
    <3>1. {i} \in SUBSET (Queued \cup pending) /\ Queued' = Queued \ {i} /\ pending' = pending \ {i}
      BY <1>1, <1>2, <1>3
    <3>2. replies' \in SUBSET {m \in replies : m.id \notin {i}}
      BY <2>1 DEF SendNext
    <3>3. \A j \in wire' : j \in wire \ {i}
      BY <1>3, <2>2
    <3>4. linkUp' = linkUp /\ UNCHANGED <<nextId, generation, caller, performed>>
      BY DEF SendNext
    <3>5. QED
      BY <1>1, <1>3, <3>1, <3>2, <3>3, <3>4, ResolveInv
  <2>4. TypeOK'
    BY <1>1, <1>3, ResolveType DEF Inv, TypeOK, SendNext
  <2>5. ActorPhase'
    BY <1>3 DEF Inv, ActorPhase, SendNext
  <2>6. QED
    BY <2>3, <2>4, <2>5 DEF Inv
<1>4. CASE /\ pending' = pending \cup {i}
           /\ command' = [command EXCEPT ![i].sentOn = generation]
           /\ wire' = IF linkUp THEN wire \cup {i} ELSE wire
           /\ UNCHANGED outcome
  <2>1. \A j \in Ids : j # i => command'[j] = command[j]
    BY <1>1, <1>4 DEF Inv, TypeOK
  <2>2. /\ command'[i].sentOn = generation
        /\ command' \in [Ids -> CommandRecord]
    <3>1. command[i] \in CommandRecord
      BY <1>1 DEF Inv, TypeOK
    <3>2. [command[i] EXCEPT !.sentOn = generation] \in CommandRecord
      BY <3>1 DEF CommandRecord, Inv, TypeOK
    <3>3. [command[i] EXCEPT !.sentOn = generation].sentOn = generation
      BY <3>1 DEF CommandRecord
    <3>4. command' = [command EXCEPT ![i] = [command[i] EXCEPT !.sentOn = generation]]
      BY <1>4
    <3>5. QED
      BY <1>1, <3>2, <3>3, <3>4 DEF Inv, TypeOK
  <2>3. TypeOK'
    BY <1>1, <1>4, <2>2 DEF Inv, TypeOK, SendNext
  <2>4. FreshIds'
    BY <1>1, <1>4 DEF Inv, FreshIds, SendNext
  <2>5. HeldOnce'
    <3>1. \A j \in pending : j \in Ids /\ j # i
      BY <1>2 DEF Inv, TypeOK
    <3>2. QED
      BY <1>1, <1>2, <1>4, <2>1, <2>2, <3>1 DEF Inv, HeldOnce, SendNext
  <2>6. OnTheWire'
    BY <1>2, <1>4 DEF Inv, OnTheWire, SendNext
  <2>7. CallerIds'
    BY <1>1, <1>4 DEF Inv, CallerIds, SendNext
  <2>8. WaitingIsHeld'
    BY <1>1, <1>2, <1>4 DEF Inv, WaitingIsHeld, SendNext
  <2>9. AtMostOnce' /\ ActorPhase'
    BY <1>4 DEF Inv, AtMostOnce, ActorPhase, SendNext
  <2>10. QED
    BY <2>3, <2>4, <2>5, <2>6, <2>7, <2>8, <2>9 DEF Inv
<1>5. QED
  BY <1>3, <1>4 DEF SendNext

\* An answer that is read resolves the pending command of its id.
LEMMA ReadResponseInv ==
    ASSUME Inv, ReadResponse
    PROVE  Inv'
<1>1. PICK m \in replies :
         /\ replies' = replies \ {m}
         /\ pending' = pending \ {m.id}
         /\ Resolve(pending \cap {m.id}, IF m.ok THEN "ok" ELSE "failed")
  BY DEF ReadResponse, Waiters
<1> DEFINE r == IF m.ok THEN "ok" ELSE "failed"
<1>2. /\ m.id \in pending /\ m.id \notin wire /\ m.id \notin Queued /\ performed[m.id] = 1
      /\ \A n \in replies : n.id = m.id => n = m
  BY DEF Inv, OnTheWire, HeldOnce
<1>3. pending \cap {m.id} = {m.id}
  BY <1>2
<1>4. Queued' = Queued /\ queue' = queue
  BY DEF ReadResponse, Waiters, shared, Queued
<1>5. FreshIds' /\ HeldOnce' /\ OnTheWire' /\ CallerIds' /\ WaitingIsHeld' /\ AtMostOnce'
  <2>1. {m.id} \in SUBSET (Queued \cup pending) /\ Queued' = Queued \ {m.id}
    BY <1>2, <1>4
  <2>2. queue' \in Seq(Ids) /\ IsInjective(queue')
    BY <1>4 DEF Inv, TypeOK, HeldOnce
  <2>3. replies' \in SUBSET {n \in replies : n.id \notin {m.id}}
    BY <1>1, <1>2
  <2>4. \A j \in wire' : j \in wire \ {m.id}
    BY <1>2 DEF ReadResponse, Waiters
  <2>5. linkUp' = linkUp /\ UNCHANGED <<nextId, generation, caller, performed>>
    BY DEF ReadResponse, Waiters, shared
  <2>6. r \in {"ok", "failed", "transport"} /\ \A j \in {m.id} : performed[j] = 1
    BY <1>2
  <2>7. QED
    BY <1>1, <1>3, <2>1, <2>2, <2>3, <2>4, <2>5, <2>6, ResolveInv
<1>6. TypeOK'
  <2>1. r \in {"ok", "failed", "transport"}
    OBVIOUS
  <2>2. outcome' \in [Ids -> Outcomes] /\ command' \in [Ids -> CommandRecord]
    BY <1>1, <2>1, ResolveType
  <2>3. QED
    BY <1>1, <2>2 DEF Inv, TypeOK, ReadResponse, Waiters, shared
<1>7. ActorPhase'
  BY DEF Inv, ActorPhase, ReadResponse, Waiters, shared
<1>8. QED
  BY <1>5, <1>6, <1>7 DEF Inv

\* A closed socket fails all that was pending.
LEMMA DetectCloseInv ==
    ASSUME Inv, DetectClose
    PROVE  Inv'
<1>1. Queued' = Queued /\ queue' = queue
  BY DEF DetectClose, FailPending, shared, Queued
<1>2. FreshIds' /\ HeldOnce' /\ OnTheWire' /\ CallerIds' /\ WaitingIsHeld' /\ AtMostOnce'
  <2>1. pending \in SUBSET (Queued \cup pending) /\ Queued' = Queued \ pending /\ pending' = pending \ pending
    BY <1>1 DEF DetectClose, FailPending, Inv, HeldOnce
  <2>2. queue' \in Seq(Ids) /\ IsInjective(queue')
    BY <1>1 DEF Inv, TypeOK, HeldOnce
  <2>3. replies' \in SUBSET {n \in replies : n.id \notin pending}
    BY DEF DetectClose, FailPending, browserVars
  <2>4. \A j \in wire' : j \in wire \ pending
    BY DEF Inv, OnTheWire, DetectClose, FailPending, browserVars
  <2>5. linkUp' = linkUp /\ UNCHANGED <<nextId, generation, caller, performed>>
    BY DEF DetectClose, FailPending, shared, browserVars
  <2>6. Resolve(pending, "transport")
    BY DEF DetectClose, FailPending
  <2>7. QED
    BY <2>1, <2>2, <2>3, <2>4, <2>5, <2>6, ResolveInv
<1>3. TypeOK'
  BY ResolveType DEF Inv, TypeOK, DetectClose, FailPending, Event, shared, browserVars
<1>4. ActorPhase'
  BY DEF Inv, ActorPhase, DetectClose, FailPending, shared, browserVars
<1>5. QED
  BY <1>2, <1>3, <1>4 DEF Inv

\* The actor returns: what is queued is resolved, nothing is pending.
LEMMA ActorReturnsInv ==
    ASSUME Inv, actor # "serving", ActorReturns,
           UNCHANGED <<handles, nextId, generation, intentionalStop, registered,
                       attempt, pending, caller, pages, browserVars>>,
           published' \in [kind : {"none", "closed", "reconnecting", "reconnected",
                                  "reconnect-failed"}, n : Nat]
    PROVE  Inv'
<1>1. pending = {} /\ replies = {} /\ ~linkUp
  BY DEF Inv, ActorPhase
<1>2. Queued' = {} /\ queue' \in Seq(Ids) /\ IsInjective(queue')
  BY EmptySeq DEF ActorReturns, Queued, Range, IsInjective
<1>3. FreshIds' /\ HeldOnce' /\ OnTheWire' /\ CallerIds' /\ WaitingIsHeld' /\ AtMostOnce'
  <2>1. Queued \in SUBSET (Queued \cup pending) /\ Queued' = Queued \ Queued /\ pending' = pending \ Queued
    BY <1>1, <1>2
  <2>2. replies' \in SUBSET {n \in replies : n.id \notin Queued}
    BY <1>1 DEF browserVars
  <2>3. \A j \in wire' : j \in wire \ Queued
    BY <1>1 DEF Inv, OnTheWire, browserVars
  <2>4. linkUp' = linkUp /\ UNCHANGED <<nextId, generation, caller, performed>>
    BY DEF browserVars
  <2>5. Resolve(Queued, "transport")
    BY DEF ActorReturns
  <2>6. QED
    BY <1>2, <2>1, <2>2, <2>3, <2>4, <2>5, ResolveInv
<1>4. TypeOK'
  <2>1. outcome' \in [Ids -> Outcomes] /\ command' \in [Ids -> CommandRecord]
    BY ResolveType DEF ActorReturns
  <2>2. QED
    BY <1>2, <2>1 DEF Inv, TypeOK, ActorReturns, browserVars
<1>5. ActorPhase'
  BY <1>1 DEF ActorPhase, ActorReturns, browserVars
<1>6. QED
  BY <1>3, <1>4, <1>5 DEF Inv

\* An actor that gives up answers what was still queued, by dropping it.
LEMMA GiveUpInv ==
    ASSUME Inv, GiveUp \/ LastConnectFails
    PROVE  Inv'
<1>1. CASE GiveUp
  BY <1>1, ActorReturnsInv DEF GiveUp, Inv, TypeOK
<1>2. CASE LastConnectFails
  <2>1. published' \in [kind : {"none", "closed", "reconnecting", "reconnected",
                               "reconnect-failed"}, n : Nat]
    BY <1>2, TransportAssumption DEF LastConnectFails, MoreAttempts, Event, Inv, TypeOK
  <2>2. QED
    BY <1>2, <2>1, ActorReturnsInv DEF LastConnectFails, MoreAttempts
<1>3. QED
  BY <1>1, <1>2

\* Between connections the actor only counts attempts.
LEMMA BetweenInv ==
    ASSUME Inv, Reconnect \/ ConnectFails \/ RetryAfterDelay
    PROVE  Inv'
<1> USE TransportAssumption
<1>1. /\ actor # "serving" /\ actor' # "serving" /\ actor' # "stopped"
      /\ UNCHANGED <<shared, pending, callerVars, browserVars>>
  BY DEF Reconnect, ConnectFails, MoreAttempts, RetryAfterDelay, StartAttempt
<1>2. /\ attempt' \in 0..MaxAttempts
      /\ actor' = "sleeping" => attempt' < MaxAttempts
      /\ actor' \in {"connecting", "sleeping"}
      /\ published' \in [kind : {"none", "closed", "reconnecting", "reconnected",
                                 "reconnect-failed"}, n : Nat]
  <2>1. attempt \in 0..MaxAttempts /\ (actor = "sleeping" => attempt < MaxAttempts)
    BY DEF Inv, TypeOK, ActorPhase
  <2>2. CASE Reconnect
    BY <2>2 DEF Reconnect, StartAttempt, Event
  <2>3. CASE ConnectFails
    BY <2>1, <2>3 DEF ConnectFails, MoreAttempts, Inv, TypeOK
  <2>4. CASE RetryAfterDelay
    BY <2>1, <2>4 DEF RetryAfterDelay, StartAttempt, Event
  <2>5. QED
    BY <2>2, <2>3, <2>4
<1>3. TypeOK'
  BY <1>1, <1>2 DEF Inv, TypeOK, shared, callerVars, browserVars
<1>4. Queued' = Queued
  BY <1>1 DEF Queued, shared
<1>5. FreshIds' /\ HeldOnce' /\ OnTheWire' /\ AtMostOnce'
  BY <1>1, <1>4 DEF Inv, FreshIds, HeldOnce, OnTheWire, AtMostOnce, shared, callerVars, browserVars
<1>6. CallerIds' /\ WaitingIsHeld'
  BY <1>1, <1>4 DEF Inv, CallerIds, WaitingIsHeld, shared, callerVars, browserVars
<1>7. ActorPhase'
  BY <1>1, <1>2 DEF Inv, ActorPhase, shared, browserVars
<1>8. QED
  BY <1>3, <1>5, <1>6, <1>7 DEF Inv

\* A new connection starts with nothing pending and nothing on the link.
LEMMA ConnectSucceedsInv ==
    ASSUME Inv, ConnectSucceeds
    PROVE  Inv'
<1> USE TransportAssumption
<1>1. pending = {} /\ replies = {} /\ wire = {}
  BY DEF Inv, ActorPhase, OnTheWire, ConnectSucceeds
<1>2. TypeOK'
  BY DEF Inv, TypeOK, ConnectSucceeds, Event, Generations, callerVars
<1>3. Queued' = Queued
  BY DEF ConnectSucceeds, Queued
<1>4. FreshIds' /\ HeldOnce' /\ OnTheWire' /\ AtMostOnce' /\ ActorPhase'
  BY <1>1, <1>3 DEF Inv, FreshIds, HeldOnce, OnTheWire, AtMostOnce, ActorPhase, ConnectSucceeds, callerVars
<1>5. CallerIds' /\ WaitingIsHeld'
  BY <1>3 DEF Inv, CallerIds, WaitingIsHeld, ConnectSucceeds, callerVars
<1>6. QED
  BY <1>2, <1>4, <1>5 DEF Inv

\* Chrome carries out what is on the link, once, and answers it.
LEMMA PerformInv ==
    ASSUME Inv, Perform
    PROVE  Inv'
<1> USE TransportAssumption
<1>1. PICK i \in wire, ok \in BOOLEAN :
         /\ wire' = wire \ {i}
         /\ performed' = [performed EXCEPT ![i] = @ + 1]
         /\ replies' = replies \cup {[id |-> i, ok |-> ok]}
         /\ born' = IF ok /\ command[i].attach
                    THEN [born EXCEPT ![i] = generation] ELSE born
  BY DEF Perform
<1>2. /\ i \in Ids /\ i \in pending /\ i \notin Queued /\ performed[i] = 0 /\ linkUp
      /\ ~(i >= nextId)
  BY DEF Inv, TypeOK, OnTheWire, HeldOnce, FreshIds
<1>3. Queued' = Queued
  BY DEF Perform, Queued, shared
<1>4. /\ performed'[i] = 1
      /\ \A j \in Ids : j # i => performed'[j] = performed[j]
  BY <1>1, <1>2 DEF Inv, TypeOK
<1>5. TypeOK'
  <2>1. performed' \in [Ids -> Nat] /\ born' \in [Ids -> Generations \cup {None}]
    BY <1>1 DEF Inv, TypeOK
  <2>2. replies' \in SUBSET [id : Ids, ok : BOOLEAN]
    BY <1>1, <1>2 DEF Inv, TypeOK
  <2>3. QED
    BY <1>1, <2>1, <2>2 DEF Inv, TypeOK, Perform, shared, actorVars, callerVars
<1>6. FreshIds'
  BY <1>2, <1>3, <1>4 DEF Inv, FreshIds, Perform, shared, actorVars, callerVars
<1>7. HeldOnce'
  <2>1. \A j \in Queued : j \in Ids /\ j # i
    BY <1>2, RangeOfSeq DEF Inv, TypeOK, Queued
  <2>2. QED
    BY <1>3, <1>4, <2>1 DEF Inv, HeldOnce, Perform, shared, actorVars, callerVars
<1>8. OnTheWire'
  <2>1. \A j \in wire' : j \in Ids /\ j # i /\ j \in wire
    BY <1>1 DEF Inv, TypeOK
  <2>2. \A m \in replies : m.id # i /\ m.id \in Ids
    BY DEF Inv, TypeOK, OnTheWire
  <2>3. \A m \in replies' : m \in replies \/ (m = [id |-> i, ok |-> ok] /\ m.id = i)
    BY <1>1
  <2>4. QED
    BY <1>1, <1>2, <1>4, <2>1, <2>2, <2>3 DEF Inv, OnTheWire, Perform, actorVars
<1>9. CallerIds'
  <2>1. \A c \in Callers : caller[c].pc = "sending" => caller[c].id \in Ids /\ caller[c].id # i
    BY <1>2 DEF Inv, CallerIds
  <2>2. QED
    BY <1>3, <1>4, <2>1 DEF Inv, CallerIds, Perform, shared, actorVars, callerVars
<1>10. WaitingIsHeld'
  BY <1>3 DEF Inv, WaitingIsHeld, Perform, actorVars, callerVars
<1>11. AtMostOnce'
  <2>1. outcome[i] = "none"
    BY <1>2 DEF Inv, HeldOnce
  <2>2. QED
    BY <1>4, <2>1 DEF Inv, AtMostOnce, Perform, callerVars
<1>12. ActorPhase'
  BY <1>2 DEF Inv, ActorPhase, Perform, shared, actorVars
<1>13. QED
  BY <1>5, <1>6, <1>7, <1>8, <1>9, <1>10, <1>11, <1>12 DEF Inv

\* A broken link only loses.
LEMMA LoseLinkInv ==
    ASSUME Inv, LoseLink
    PROVE  Inv'
<1>1. PICK kept \in SUBSET replies : replies' = kept
  BY DEF LoseLink
<1>2. TypeOK'
  BY <1>1 DEF Inv, TypeOK, LoseLink, shared, actorVars, callerVars
<1>3. Queued' = Queued
  BY DEF LoseLink, Queued, shared
<1>4. FreshIds' /\ HeldOnce' /\ AtMostOnce' /\ CallerIds' /\ WaitingIsHeld'
  BY <1>3 DEF Inv, FreshIds, HeldOnce, AtMostOnce, CallerIds, WaitingIsHeld, LoseLink,
     shared, actorVars, callerVars
<1>5. OnTheWire' /\ ActorPhase'
  BY <1>1 DEF Inv, OnTheWire, ActorPhase, LoseLink, shared, actorVars
<1>6. QED
  BY <1>2, <1>4, <1>5 DEF Inv

\* Every step of a caller keeps the invariant.
LEMMA CallerStepInv ==
    ASSUME Inv, NEW c \in Callers, CallerStep(c)
    PROVE  Inv'
<1>1. CASE Call(c)
  <2>1. PICK s \in pages \cup {Browser} : Issue(c, s, "plain")
    BY <1>1 DEF Call
  <2>2. s \in Ids \cup {Browser} /\ "plain" \in Steps /\ "plain" \notin Enabling
    BY DEF Inv, TypeOK, Steps, Enabling
  <2>3. QED
    BY <1>1, <2>1, <2>2, IssueInv DEF Call
<1>2. CASE Attach(c)
  <2>1. "attach" \in Steps /\ "attach" \notin Enabling
    BY DEF Steps, Enabling
  <2>2. QED
    BY <1>2, <2>1, IssueInv DEF Attach
<1>3. CASE Enable(c)
  <2>1. /\ caller[c].step \in Steps /\ caller[c].session \in Ids \cup {Browser}
        /\ caller[c].step \in Enabling => caller[c].session \in Ids
    BY CallerFields DEF Inv
  <2>2. QED
    BY <1>3, <2>1, IssueInv DEF Enable
<1>4. QED
  BY <1>1, <1>2, <1>3, QuietCallerInv, EnqueueInv, EnqueueFailsInv, ReturnInv DEF CallerStep

\* So does a step in which nothing happens.
LEMMA StutterInv ==
    ASSUME Inv, UNCHANGED vars
    PROVE  Inv'
<1>1. Queued' = Queued
  BY DEF vars, shared, Queued
<1>2. TypeOK'
  BY DEF Inv, TypeOK, vars, shared, actorVars, callerVars, browserVars
<1>3. FreshIds' /\ HeldOnce' /\ OnTheWire' /\ ActorPhase'
  BY <1>1 DEF Inv, FreshIds, HeldOnce, OnTheWire, ActorPhase, vars, shared, actorVars, callerVars, browserVars
<1>4. CallerIds' /\ WaitingIsHeld' /\ AtMostOnce'
  BY <1>1 DEF Inv, CallerIds, WaitingIsHeld, AtMostOnce, vars, shared, actorVars, callerVars, browserVars
<1>5. QED
  BY <1>2, <1>3, <1>4 DEF Inv

\* Every step of the transport keeps the invariant.
LEMMA NextInv == Inv /\ [Next]_vars => Inv'
<1> SUFFICES ASSUME Inv, [Next]_vars PROVE Inv'
  OBVIOUS
<1>1. CASE \E c \in Callers : CallerStep(c)
  BY <1>1, CallerStepInv
<1>2. CASE ActorStep
  BY <1>2, SendNextInv, ReadResponseInv, DetectCloseInv, GiveUpInv, BetweenInv, ConnectSucceedsInv
     DEF ActorStep
<1>3. CASE MarkIntentionalStop \/ DropHandles
  BY <1>3, FlagsInv
<1>4. CASE Perform \/ LoseLink
  BY <1>4, PerformInv, LoseLinkInv
<1>5. CASE Terminated \/ UNCHANGED vars
  BY <1>5, StutterInv DEF Terminated
<1>6. QED
  BY <1>1, <1>2, <1>3, <1>4, <1>5 DEF Next

-----------------------------------------------------------------------------
(* Theorems *)

\* The inductive invariant of the command multiplexer: every reachable state of
\* the callers, the channel, the actor, the socket and the browser satisfies it.
THEOREM Invariance == Spec => []Inv
<1>1. QED
  BY InitInv, NextInv, PTL DEF Spec

\* Every variable stays in its range, for any number of callers and commands.
THEOREM TypeCorrect == Spec => []TypeOK
<1>1. Inv => TypeOK
  BY DEF Inv
<1>2. QED
  BY <1>1, Invariance, PTL

\* No caller of command() ever waits on a oneshot that neither the request
\* channel nor the pending map holds (transport.rs:172-185, 245-252, 325-329).
THEOREM NoLostCaller == Spec => []WaitingIsHeld
<1>1. Inv => WaitingIsHeld
  BY DEF Inv
<1>2. QED
  BY <1>1, Invariance, PTL

\* What is pending was written to the socket being served, nothing is pending
\* while there is none, and nothing is queued once the actor returned.
THEOREM PendingStaysCurrent == Spec => []PendingIsCurrent
<1>1. Inv => PendingIsCurrent
  BY DEF Inv, HeldOnce, ActorPhase, PendingIsCurrent
<1>2. QED
  BY <1>1, Invariance, PTL

\* A reconnect never makes the browser carry out a command twice, and an answer
\* is given only for a command it carried out.
THEOREM NoRepeat == Spec => []AtMostOnce
<1>1. Inv => AtMostOnce
  BY DEF Inv
<1>2. QED
  BY <1>1, Invariance, PTL

-----------------------------------------------------------------------------
(* What the generation check achieves *)

\* A session is registered once, before it is used; and what a command was
\* checked against is the generation its session was registered with.
SessionsAreRegistered ==
    /\ \A s \in pages : registered[s] # None
    /\ \A c \in Callers :
         /\ caller[c].pc = "enabling" => caller[c].step \in Enabling
         /\ caller[c].step \in Enabling => registered[caller[c].session] # None
    /\ \A c \in Callers : caller[c].pc = "registering" =>
         /\ registered[caller[c].session] = None /\ outcome[caller[c].session] = "taken"
         /\ \A d \in Callers \ {c} :
              caller[d].pc = "registering" => caller[d].session # caller[c].session
    /\ \A s \in Ids : outcome[s] # "taken" => registered[s] = None
    /\ \A i \in Ids : command[i].session # Browser =>
         /\ command[i].checkedAt \in Generations /\ command[i].checkedAt <= generation
         /\ registered[command[i].session] = command[i].checkedAt

\* A step that registers nothing and takes no outcome.
LEMMA UnregisteringStep ==
    ASSUME Inv, SessionsAreRegistered, UNCHANGED <<registered, pages>>,
           generation' \in Generations, generation <= generation',
           \A i \in Ids : outcome'[i] = "taken" <=> outcome[i] = "taken",
           \A c \in Callers : \/ caller'[c] = caller[c]
                             \/ /\ caller'[c].pc # "registering"
                                /\ caller'[c].pc = "enabling" => caller'[c].step \in Enabling
                                /\ caller'[c].step \in Enabling => registered[caller'[c].session] # None,
           \A i \in Ids : \/ command'[i].session = Browser
                         \/ /\ command'[i].session = command[i].session
                            /\ command'[i].checkedAt = command[i].checkedAt
                         \/ /\ command'[i].checkedAt = generation
                            /\ registered[command'[i].session] = generation
    PROVE  SessionsAreRegistered'
<1>1. generation \in Generations /\ Generations \subseteq Nat
  BY TransportAssumption DEF Inv, TypeOK, Generations
<1>2. ASSUME NEW i \in Ids, command'[i].session # Browser
      PROVE  /\ command'[i].checkedAt \in Generations /\ command'[i].checkedAt <= generation'
             /\ registered'[command'[i].session] = command'[i].checkedAt
  BY <1>1, <1>2 DEF SessionsAreRegistered, Generations
<1>3. ASSUME NEW c \in Callers, caller'[c].pc = "registering"
      PROVE  /\ registered'[caller'[c].session] = None /\ outcome'[caller'[c].session] = "taken"
             /\ \A d \in Callers \ {c} :
                  caller'[d].pc = "registering" => caller'[d].session # caller'[c].session
  <2>1. caller'[c] = caller[c] /\ caller[c].session \in Ids
    BY <1>3, CallerFields DEF Inv
  <2>2. QED
    BY <1>3, <2>1 DEF SessionsAreRegistered
<1>4. QED
  BY <1>2, <1>3 DEF SessionsAreRegistered, None

\* A command for a session is checked against the generation it was registered
\* with.
LEMMA IssueRegistered ==
    ASSUME Inv, SessionsAreRegistered, NEW c \in Callers, NEW s \in Ids \cup {Browser}, NEW step,
           s # Browser \/ step \in Enabling => s \in Ids /\ registered[s] # None, Issue(c, s, step)
    PROVE  SessionsAreRegistered'
<1>1. /\ nextId \in Ids /\ generation \in Generations /\ command \in [Ids -> CommandRecord]
      /\ caller \in [Callers -> CallerRecord]
      /\ UNCHANGED <<registered, pages, generation, outcome>>
      /\ caller' = [caller EXCEPT ![c] = At("sending", nextId, step, s)]
      /\ command' = [command EXCEPT ![nextId] = Request(s, step = "attach", generation)]
      /\ ~Stale(s)
  BY TransportAssumption DEF Inv, TypeOK, Issue, Ids
<1>2. s # Browser => registered[s] = generation
  BY <1>1 DEF Stale
<1>3. \A d \in Callers : caller'[d] = IF d = c THEN At("sending", nextId, step, s) ELSE caller[d]
  BY <1>1
<1>4. \A i \in Ids : command'[i] = IF i = nextId THEN Request(s, step = "attach", generation)
                                                ELSE command[i]
  BY <1>1
<1>5. \A d \in Callers : \/ caller'[d] = caller[d]
                         \/ /\ caller'[d].pc = "sending"
                            /\ caller'[d].step \in Enabling => registered[caller'[d].session] # None
  BY <1>3 DEF At
<1>6. \A i \in Ids : \/ command'[i] = command[i]
                     \/ command'[i].session = Browser
                     \/ /\ command'[i].checkedAt = generation
                        /\ registered[command'[i].session] = generation
  BY <1>2, <1>4 DEF Request
<1>7. generation <= generation'
  BY <1>1 DEF Generations
<1>8. QED
  BY <1>1, <1>5, <1>6, <1>7, UnregisteringStep

\* A session is registered once, by the caller that attached it.
LEMMA RegisterRegistered ==
    ASSUME Inv, SessionsAreRegistered, NEW c \in Callers, Register(c)
    PROVE  SessionsAreRegistered'
<1> DEFINE s == caller[c].session
           r == At("enabling", 0, "Page.enable", s)
<1>1. /\ caller[c].pc = "registering" /\ s \in Ids /\ generation \in Generations
      /\ registered \in [Ids -> Generations \cup {None}] /\ caller \in [Callers -> CallerRecord]
      /\ registered' = [registered EXCEPT ![s] = generation]
      /\ caller' = [caller EXCEPT ![c] = r]
      /\ UNCHANGED <<generation, pages, outcome, command>>
  BY CallerFields DEF Inv, TypeOK, Register
<1>2. None \notin Generations
  BY TransportAssumption DEF None, Generations
<1>3. /\ \A t \in Ids : registered'[t] = IF t = s THEN generation ELSE registered[t]
      /\ registered'[s] # None
  BY <1>1, <1>2
<1>4. \A d \in Callers : caller'[d] = IF d = c THEN r ELSE caller[d]
  BY <1>1
<1>5. r.pc = "enabling" /\ r.step \in Enabling /\ r.session = s
  BY DEF At, Enabling
<1>6. registered[s] = None /\ outcome[s] = "taken"
  BY <1>1 DEF SessionsAreRegistered
<1> HIDE DEF r, s
<1>7. \A t \in pages : registered'[t] # None
  BY <1>1, <1>3 DEF SessionsAreRegistered, Inv, TypeOK
<1>8. ASSUME NEW d \in Callers
      PROVE  /\ caller'[d].pc = "enabling" => caller'[d].step \in Enabling
             /\ caller'[d].step \in Enabling => registered'[caller'[d].session] # None
  <2>1. caller[d].step \in Enabling => caller[d].session \in Ids
    BY CallerFields DEF Inv
  <2>2. QED
    BY <1>3, <1>4, <1>5, <2>1 DEF SessionsAreRegistered
<1>9. ASSUME NEW d \in Callers, caller'[d].pc = "registering"
      PROVE  /\ registered'[caller'[d].session] = None /\ outcome'[caller'[d].session] = "taken"
             /\ \A e \in Callers \ {d} :
                  caller'[e].pc = "registering" => caller'[e].session # caller'[d].session
  <2>1. d # c /\ caller'[d] = caller[d] /\ caller[d].session \in Ids /\ caller[d].session # s
    BY <1>1, <1>4, <1>5, <1>9, CallerFields DEF SessionsAreRegistered, Inv, s
  <2>2. \A e \in Callers \ {d} : caller'[e].pc = "registering" => caller'[e] = caller[e]
    BY <1>4, <1>5
  <2>3. QED
    BY <1>1, <1>3, <1>9, <2>1, <2>2 DEF SessionsAreRegistered
<1>10. \A t \in Ids : outcome'[t] # "taken" => registered'[t] = None
  BY <1>1, <1>3, <1>6 DEF SessionsAreRegistered
<1>11. ASSUME NEW i \in Ids, command'[i].session # Browser
       PROVE  /\ command'[i].checkedAt \in Generations /\ command'[i].checkedAt <= generation'
              /\ registered'[command'[i].session] = command'[i].checkedAt
  <2>1. command[i].session \in Ids \cup {Browser}
    BY DEF Inv, TypeOK, CommandRecord
  <2>2. QED
    BY <1>1, <1>2, <1>3, <1>6, <1>11, <2>1 DEF SessionsAreRegistered
<1>12. None' = None
  BY DEF None
<1>13. QED
  BY <1>1, <1>7, <1>8, <1>9, <1>10, <1>11, <1>12 DEF SessionsAreRegistered

\* A caller that has attached a session goes on to register that one.
LEMMA ReturnRegistered ==
    ASSUME Inv, SessionsAreRegistered, NEW c \in Callers, Return(c)
    PROVE  SessionsAreRegistered'
<1> DEFINE me == caller[c]
           ok == outcome[me.id] = "ok"
           r == caller'[c]
<1>1. /\ me.pc = "waiting" /\ me.id \in Ids /\ outcome[me.id] # "taken"
      /\ outcome \in [Ids -> Outcomes] /\ caller \in [Callers -> CallerRecord]
      /\ outcome' = [outcome EXCEPT ![me.id] = "taken"]
      /\ UNCHANGED <<registered, generation, command>>
      /\ pages' = IF ok /\ me.step = "Network.enable" THEN pages \cup {me.session} ELSE pages
  BY DEF Inv, TypeOK, CallerIds, Return, shared
<1>2. \A d \in Callers : d # c => caller'[d] = caller[d]
  BY <1>1 DEF Return
<1>3. \/ r.pc = "registering" /\ r.step = "attach" /\ r.session = me.id
      \/ /\ r.pc = "enabling" /\ r.step = "Network.enable" /\ r.session = me.session
         /\ me.step = "Page.enable"
      \/ r.pc = "idle" /\ r.step = "plain"
  BY <1>1 DEF Return, At, Idle
<1>4. \A i \in Ids : outcome'[i] = IF i = me.id THEN "taken" ELSE outcome[i]
  BY <1>1
<1>5. registered[me.id] = None
  BY <1>1 DEF SessionsAreRegistered
<1>6. me.step \in Enabling => registered[me.session] # None
  BY DEF SessionsAreRegistered
<1> HIDE DEF me, r, ok
<1>7. \A s \in pages' : registered[s] # None
  BY <1>1, <1>6 DEF SessionsAreRegistered, Enabling
<1>8. \A d \in Callers : /\ caller'[d].pc = "enabling" => caller'[d].step \in Enabling
                         /\ caller'[d].step \in Enabling => registered[caller'[d].session] # None
  BY <1>2, <1>3, <1>6 DEF SessionsAreRegistered, Enabling, r
<1>9. ASSUME NEW d \in Callers, caller[d].pc = "registering"
      PROVE  caller[d].session \in Ids /\ caller[d].session # me.id /\ d # c
  BY <1>1, <1>9, CallerFields DEF SessionsAreRegistered, Inv, me
<1>10. ASSUME NEW d \in Callers, caller'[d].pc = "registering"
       PROVE  /\ registered[caller'[d].session] = None /\ outcome'[caller'[d].session] = "taken"
              /\ \A e \in Callers \ {d} :
                   caller'[e].pc = "registering" => caller'[e].session # caller'[d].session
  <2>1. CASE d = c
    BY <1>1, <1>2, <1>3, <1>4, <1>5, <1>9, <1>10, <2>1 DEF r
  <2>2. CASE d # c
    <3>1. caller'[d] = caller[d] /\ caller[d].session \in Ids /\ caller[d].session # me.id
      BY <1>2, <1>9, <1>10, <2>2
    <3>2. registered[caller[d].session] = None /\ outcome'[caller[d].session] = "taken"
      BY <1>4, <1>10, <3>1 DEF SessionsAreRegistered
    <3>3. ASSUME NEW e \in Callers \ {d}, caller'[e].pc = "registering"
          PROVE  caller'[e].session # caller[d].session
      <4>1. CASE e = c
        BY <1>3, <3>1, <3>3, <4>1 DEF r
      <4>2. CASE e # c
        BY <1>2, <1>10, <3>1, <3>3, <4>2 DEF SessionsAreRegistered
      <4>3. QED
        BY <4>1, <4>2
    <3>4. QED
      BY <3>1, <3>2, <3>3
  <2>3. QED
    BY <2>1, <2>2
<1>11. \A s \in Ids : outcome'[s] # "taken" => registered[s] = None
  BY <1>4 DEF SessionsAreRegistered
<1>12. None' = None
  BY DEF None
<1>13. QED
  BY <1>1, <1>7, <1>8, <1>10, <1>11, <1>12 DEF SessionsAreRegistered

\* Every step of a caller keeps sessions registered.
LEMMA CallerStepRegistered ==
    ASSUME Inv, SessionsAreRegistered, NEW c \in Callers, CallerStep(c)
    PROVE  SessionsAreRegistered'
<1>1. /\ pages \subseteq Ids /\ caller \in [Callers -> CallerRecord] /\ generation \in Generations
      /\ outcome \in [Ids -> Outcomes] /\ command \in [Ids -> CommandRecord] /\ generation <= generation
  BY TransportAssumption DEF Inv, TypeOK, Generations
<1>2. ASSUME Call(c) \/ Attach(c)
      PROVE  SessionsAreRegistered'
  <2>1. PICK s \in pages \cup {Browser}, step \in {"plain", "attach"} : Issue(c, s, step)
    BY <1>2 DEF Call, Attach
  <2>2. s # Browser \/ step \in Enabling => s \in Ids /\ registered[s] # None
    BY <1>1 DEF SessionsAreRegistered, Enabling
  <2>3. s \in Ids \cup {Browser}
    BY <1>1
  <2>4. QED
    BY <2>1, <2>2, <2>3, IssueRegistered
<1>3. ASSUME Enable(c)
      PROVE  SessionsAreRegistered'
  <2>1. Issue(c, caller[c].session, caller[c].step) /\ caller[c].step \in Enabling
        /\ registered[caller[c].session] # None
    BY <1>3 DEF Enable, SessionsAreRegistered
  <2>2. caller[c].session \in Ids
    BY <2>1, CallerFields DEF Inv
  <2>3. QED
    BY <2>1, <2>2, IssueRegistered
<1>4. ASSUME EnableRefused(c) \/ Abandon(c)
      PROVE  SessionsAreRegistered'
  <2>1. UNCHANGED <<registered, pages, generation, outcome, command>>
        /\ caller' = [caller EXCEPT ![c] = Idle]
    BY <1>4 DEF EnableRefused, Abandon, shared
  <2>2. \A d \in Callers : caller'[d] = IF d = c THEN Idle ELSE caller[d]
    BY <1>1, <2>1
  <2>3. Idle.pc = "idle" /\ Idle.step \notin Enabling
    BY DEF Idle, At, Enabling
  <2>4. QED
    BY <1>1, <2>1, <2>2, <2>3, UnregisteringStep
<1>5. ASSUME Enqueue(c)
      PROVE  SessionsAreRegistered'
  <2>1. UNCHANGED <<registered, pages, generation, outcome, command>>
        /\ caller' = [caller EXCEPT ![c].pc = "waiting"]
    BY <1>5 DEF Enqueue
  <2>2. \A d \in Callers : d # c => caller'[d] = caller[d]
    BY <1>1, <2>1
  <2>3. caller'[c].pc = "waiting" /\ caller'[c].step = caller[c].step
        /\ caller'[c].session = caller[c].session
    BY <1>1, <2>1 DEF CallerRecord
  <2>4. \A d \in Callers : \/ caller'[d] = caller[d]
                           \/ /\ caller'[d].pc = "waiting"
                              /\ caller'[d].step \in Enabling => registered[caller'[d].session] # None
    BY <2>2, <2>3 DEF SessionsAreRegistered
  <2>5. QED
    BY <1>1, <2>1, <2>4, UnregisteringStep
<1>6. ASSUME EnqueueFails(c)
      PROVE  SessionsAreRegistered'
  <2> DEFINE i == caller[c].id
  <2>1. /\ i \in Ids /\ outcome[i] = "none" /\ UNCHANGED <<registered, pages, generation>>
        /\ outcome' = [outcome EXCEPT ![i] = "transport"] /\ command' = [command EXCEPT ![i] = NoCommand]
        /\ caller' = [caller EXCEPT ![c] = Idle]
    BY <1>6 DEF EnqueueFails, shared, Inv, CallerIds
  <2>2. /\ \A d \in Callers : caller'[d] = IF d = c THEN Idle ELSE caller[d]
        /\ \A j \in Ids : outcome'[j] = IF j = i THEN "transport" ELSE outcome[j]
        /\ \A j \in Ids : command'[j] = IF j = i THEN NoCommand ELSE command[j]
    BY <1>1, <2>1
  <2>3. Idle.pc = "idle" /\ Idle.step \notin Enabling /\ NoCommand.session = Browser
    BY DEF Idle, At, Enabling, NoCommand, Request
  <2> HIDE DEF i
  <2>4. ASSUME NEW j \in Ids
        PROVE  /\ outcome'[j] = "taken" <=> outcome[j] = "taken"
               /\ command'[j].session = Browser \/ command'[j] = command[j]
    BY <2>1, <2>2, <2>3, <2>4
  <2>5. \A d \in Callers : \/ caller'[d] = caller[d]
                           \/ caller'[d].pc = "idle" /\ caller'[d].step \notin Enabling
    BY <2>2, <2>3
  <2>6. QED
    BY <1>1, <2>1, <2>4, <2>5, UnregisteringStep
<1>7. QED
  BY <1>2, <1>3, <1>4, <1>5, <1>6, RegisterRegistered, ReturnRegistered DEF CallerStep

\* Resolving the open requests of S registers nothing.
LEMMA ResolveRegistered ==
    ASSUME Inv, SessionsAreRegistered, NEW S \in SUBSET Ids, NEW r, r # "taken", Resolve(S, r),
           \A i \in S : outcome[i] # "taken", UNCHANGED <<registered, generation, caller, pages>>
    PROVE  SessionsAreRegistered'
<1>1. /\ \A i \in Ids : outcome'[i] = "taken" <=> outcome[i] = "taken"
      /\ \A i \in Ids : command'[i].session = Browser \/ command'[i] = command[i]
  BY DEF Resolve, NoCommand, Request
<1>2. generation' \in Generations /\ generation <= generation'
  BY TransportAssumption DEF Inv, TypeOK, Generations
<1>3. QED
  BY <1>1, <1>2, UnregisteringStep

\* The actor registers nothing, and resets what it resolves.
LEMMA ActorStepRegistered ==
    ASSUME Inv, SessionsAreRegistered, ActorStep
    PROVE  SessionsAreRegistered'
<1>1. /\ generation \in Generations /\ Generations \subseteq Nat
      /\ queue \in Seq(Ids) /\ pending \subseteq Ids
      /\ Queued \subseteq Ids /\ \A i \in Queued \cup pending : outcome[i] # "taken"
  BY TransportAssumption DEF Inv, TypeOK, HeldOnce, Generations, Queued, Range
<1>2. CASE SendNext
  <2>1. queue # <<>> /\ UNCHANGED <<registered, generation, caller, pages>>
    BY <1>2 DEF SendNext
  <2> DEFINE i == Head(queue)
  <2>2. i \in Queued
    BY <1>1, <2>1 DEF Queued, Range
  <2>3. \/ command' = [command EXCEPT ![i].sentOn = generation] /\ outcome' = outcome
        \/ Resolve({i}, "transport")
    BY <1>2 DEF SendNext
  <2>4. CASE command' = [command EXCEPT ![i].sentOn = generation] /\ outcome' = outcome
    <3>1. \A j \in Ids : command'[j].session = command[j].session
                         /\ command'[j].checkedAt = command[j].checkedAt
      BY <2>4 DEF Inv, TypeOK, CommandRecord
    <3>2. QED
      BY <1>1, <2>1, <2>4, <3>1, UnregisteringStep
  <2>5. CASE Resolve({i}, "transport")
    BY <1>1, <2>1, <2>2, <2>5, ResolveRegistered
  <2>6. QED
    BY <2>3, <2>4, <2>5
<1>3. CASE ReadResponse
  <2>1. UNCHANGED <<registered, generation, caller, pages>>
    BY <1>3 DEF ReadResponse, shared
  <2>2. PICK m \in replies : Resolve(Waiters(m), IF m.ok THEN "ok" ELSE "failed")
    BY <1>3 DEF ReadResponse
  <2>3. Waiters(m) \in SUBSET Ids /\ \A i \in Waiters(m) : outcome[i] # "taken"
    BY <1>1 DEF Waiters
  <2>4. QED
    BY <2>1, <2>2, <2>3, ResolveRegistered
<1>4. CASE DetectClose
  BY <1>1, <1>4, ResolveRegistered DEF DetectClose, FailPending
<1>5. CASE GiveUp \/ LastConnectFails
  BY <1>1, <1>5, ResolveRegistered DEF GiveUp, LastConnectFails, ActorReturns
<1>6. CASE ConnectSucceeds
  <2>1. /\ generation' \in Generations /\ generation <= generation'
        /\ UNCHANGED <<registered, caller, pages, outcome, command>>
    BY <1>1, <1>6, TransportAssumption DEF ConnectSucceeds, callerVars, Generations
  <2>2. QED
    BY <2>1, UnregisteringStep
<1>7. CASE Reconnect \/ ConnectFails \/ RetryAfterDelay
  <2>1. UNCHANGED <<registered, generation, caller, pages, outcome, command>> /\ generation <= generation
    BY <1>1, <1>7 DEF Reconnect, ConnectFails, RetryAfterDelay, shared, callerVars
  <2>2. QED
    BY <1>1, <2>1, UnregisteringStep
<1>8. QED
  BY <1>2, <1>3, <1>4, <1>5, <1>6, <1>7 DEF ActorStep

\* Every step of the transport keeps sessions registered.
LEMMA NextRegistered == Inv /\ SessionsAreRegistered /\ [Next]_vars => SessionsAreRegistered'
<1> SUFFICES ASSUME Inv, SessionsAreRegistered, [Next]_vars PROVE SessionsAreRegistered'
  OBVIOUS
<1>1. CASE MarkIntentionalStop \/ DropHandles \/ Perform \/ LoseLink \/ Terminated \/ UNCHANGED vars
  <2>1. UNCHANGED <<registered, generation, caller, pages, outcome, command>>
    BY <1>1 DEF MarkIntentionalStop, DropHandles, Perform, LoseLink, Terminated, vars, shared,
                callerVars
  <2>2. generation \in Generations /\ generation <= generation
    BY TransportAssumption DEF Inv, TypeOK, Generations
  <2>3. QED
    BY <2>1, <2>2, UnregisteringStep
<1>2. QED
  BY <1>1, CallerStepRegistered, ActorStepRegistered DEF Next

\* A new connection has no session.
LEMMA InitRegistered == Init => SessionsAreRegistered
BY DEF Init, SessionsAreRegistered, Idle, At, Enabling, NoCommand, Request

\* A session command written to a connection other than its session's was
\* checked before the reconnect, or its session was registered after one: the
\* generation check lets nothing else through.
THEOREM StaleSendsAreRaced == Spec => []StaleSendIsRaced
<1>1. Inv /\ SessionsAreRegistered => StaleSendIsRaced
  <2> SUFFICES ASSUME Inv, SessionsAreRegistered, NEW i \in pending,
                      command[i].session # Browser, command[i].sentOn # born[command[i].session]
               PROVE  \/ command[i].checkedAt < command[i].sentOn
                      \/ registered[command[i].session] # born[command[i].session]
    BY DEF StaleSendIsRaced
  <2>1. i \in Ids /\ generation \in Generations /\ command[i].sentOn = generation
    BY DEF Inv, TypeOK, HeldOnce
  <2>2. /\ command[i].checkedAt \in Generations /\ command[i].checkedAt <= generation
        /\ registered[command[i].session] = command[i].checkedAt
    BY <2>1 DEF SessionsAreRegistered
  <2>3. QED
    BY <2>1, <2>2, TransportAssumption DEF Generations
<1>2. Spec => []SessionsAreRegistered
  BY InitRegistered, NextRegistered, Invariance, PTL DEF Spec
<1>3. QED
  BY <1>1, <1>2, Invariance, PTL

-----------------------------------------------------------------------------
(* The connection events *)

\* The actor broadcasts each time the connection changes for its subscribers.
LEMMA EventStep == Inv /\ EventsTellConnection /\ [Next]_vars => EventsTellConnection'
<1> SUFFICES ASSUME Inv, EventsTellConnection, [Next]_vars PROVE EventsTellConnection'
  OBVIOUS
<1>1. published.kind \in {"none", "closed", "reconnecting", "reconnected", "reconnect-failed"}
      /\ published \in [kind : {"none", "closed", "reconnecting", "reconnected", "reconnect-failed"}, n : Nat]
  BY DEF Inv, TypeOK
<1>2. CASE UNCHANGED <<actor, attempt, generation, published>>
  BY <1>2 DEF EventsTellConnection
<1>3. CASE DetectClose
  BY <1>3 DEF DetectClose, EventsTellConnection, Event
<1>4. CASE Reconnect \/ RetryAfterDelay
  BY <1>4 DEF Reconnect, RetryAfterDelay, StartAttempt, EventsTellConnection, Event
<1>5. CASE GiveUp
  <2>1. published.kind = "closed"
    BY <1>1, <1>5 DEF GiveUp, EventsTellConnection
  <2>2. actor' = "stopped" /\ published' = published
    BY <1>5 DEF GiveUp, ActorReturns
  <2>3. QED
    BY <2>1, <2>2 DEF EventsTellConnection
<1>6. CASE ConnectSucceeds
  BY <1>6 DEF ConnectSucceeds, EventsTellConnection, Event
<1>7. CASE ConnectFails
  <2>1. published.kind = "reconnecting" /\ attempt = published.n
    BY <1>1, <1>7 DEF ConnectFails, EventsTellConnection
  <2>2. actor' = "sleeping" /\ published' = published /\ attempt' = attempt
    BY <1>7 DEF ConnectFails
  <2>3. QED
    BY <2>1, <2>2 DEF EventsTellConnection
<1>8. CASE LastConnectFails
  BY <1>8 DEF LastConnectFails, ActorReturns, EventsTellConnection, Event
<1>9. CASE SendNext \/ ReadResponse
  BY <1>2, <1>9 DEF SendNext, ReadResponse, shared
<1>10. ASSUME NEW c \in Callers, CallerStep(c) PROVE EventsTellConnection'
  BY <1>2, <1>10 DEF CallerStep, Call, Attach, Register, Enable, EnableRefused, Issue,
     Enqueue, EnqueueFails, Return, Abandon, shared, actorVars
<1>11. CASE MarkIntentionalStop \/ DropHandles \/ Perform \/ LoseLink \/ Terminated \/ UNCHANGED vars
  BY <1>2, <1>11 DEF MarkIntentionalStop, DropHandles, Perform, LoseLink, Terminated, vars, shared, actorVars
<1>12. QED
  BY <1>3, <1>4, <1>5, <1>6, <1>7, <1>8, <1>9, <1>10, <1>11 DEF Next, ActorStep

\* Whoever has read the last connection event knows whether, and on which
\* generation, the connection is served.
THEOREM EventsTellTruth == Spec => []EventsTellConnection
<1>1. Init => EventsTellConnection
  BY DEF Init, EventsTellConnection, Event
<1>2. QED
  BY <1>1, EventStep, Invariance, PTL DEF Spec

-----------------------------------------------------------------------------
(* The intentional stop *)

\* After an intentional stop the actor serves, closes and returns.
Stopping(g) == intentionalStop /\ generation = g /\ actor \in {"serving", "closing", "stopped"}

\* An actor that is to stop reconnects no more.
LEMMA StoppingGoesOn ==
    ASSUME NEW g, Stopping(g), [Next]_vars
    PROVE  Stopping(g)'
<1> USE DEF Stopping
<1>1. CASE UNCHANGED <<intentionalStop, generation, actor>>
  BY <1>1
<1>2. CASE ActorStep
  BY <1>2 DEF ActorStep, SendNext, ReadResponse, DetectClose, Reconnect, GiveUp, ShouldReconnect,
     ActorReturns, ConnectSucceeds, ConnectFails, RetryAfterDelay, LastConnectFails, shared
<1>3. ASSUME NEW c \in Callers, CallerStep(c) PROVE Stopping(g)'
  BY <1>1, <1>3 DEF CallerStep, Call, Attach, Register, Enable, EnableRefused, Issue,
     Enqueue, EnqueueFails, Return, Abandon, shared, actorVars
<1>4. CASE MarkIntentionalStop \/ DropHandles \/ Perform \/ LoseLink \/ Terminated \/ UNCHANGED vars
  BY <1>4 DEF MarkIntentionalStop, DropHandles, Perform, LoseLink, Terminated, vars, shared, actorVars
<1>5. QED
  BY <1>2, <1>3, <1>4 DEF Next

\* Once the stop is marked while a socket is served, no generation follows.
THEOREM StopsForGood == Spec => StopIsFinal
<1>1. ASSUME NEW g \in Generations
      PROVE  Spec => [](intentionalStop /\ actor = "serving" /\ generation = g => [](generation = g))
  <2>1. intentionalStop /\ actor = "serving" /\ generation = g => Stopping(g)
    BY DEF Stopping
  <2>2. Stopping(g) => generation = g
    BY DEF Stopping
  <2>3. Stopping(g) /\ [Next]_vars => Stopping(g)'
    BY StoppingGoesOn
  <2>4. QED
    BY <2>1, <2>2, <2>3, PTL DEF Spec
<1>2. QED
  BY <1>1 DEF StopIsFinal

-----------------------------------------------------------------------------
(* The multiplexer implements CommandChannel *)

\* A new connection is a new command channel.
LEMMA InitChannel == Init => Channel!Init
<1> SUFFICES ASSUME Init PROVE Channel!Init
  OBVIOUS
<1>1. \A i \in Ids : i >= nextId /\ performed[i] = 0
  BY TransportAssumption DEF Init, Ids
<1>2. QED
  BY <1>1 DEF Init, Channel!Init, phaseBar, carriedOutBar

\* How the phases follow from outcome and nextId.
LEMMA PhaseOf ==
    ASSUME Inv, NEW i \in Ids
    PROVE  /\ i >= nextId => phaseBar[i] = "unissued"
           /\ ~(i >= nextId) /\ outcome[i] = "none" => phaseBar[i] = "open"
           /\ outcome[i] \in {"ok", "failed", "transport"} => phaseBar[i] = outcome[i]
           /\ outcome[i] = "taken" => phaseBar[i] = "done"
<1>1. i >= nextId => outcome[i] = "none"
  BY DEF Inv, FreshIds
<1>2. QED
  BY <1>1 DEF phaseBar

\* A step that resolves the open requests of S with a transport error is Lose.
LEMMA LoseStep ==
    ASSUME Inv, NEW S \in SUBSET Ids,
           \A i \in S : ~(i >= nextId) /\ outcome[i] = "none",
           outcome' = [i \in Ids |-> IF i \in S THEN "transport" ELSE outcome[i]],
           UNCHANGED <<nextId, performed>>
    PROVE  Channel!Next
<1>1. \A i \in S : phaseBar[i] = "open"
  BY PhaseOf
<1>2. phaseBar' = [i \in Ids |-> IF i \in S THEN "transport" ELSE phaseBar[i]]
  BY DEF phaseBar
<1>3. Channel!Lose
  <2>1. S \in SUBSET {i \in Ids : phaseBar[i] = "open"}
    BY <1>1
  <2>2. carriedOutBar' = carriedOutBar
    BY DEF carriedOutBar
  <2>3. QED
    BY <1>2, <2>1, <2>2 DEF Channel!Lose
<1>4. QED
  BY <1>3 DEF Channel!Next

\* A step that touches neither ids, nor outcomes, nor the browser is a stutter.
LEMMA QuietStep ==
    ASSUME UNCHANGED <<nextId, outcome, performed>>
    PROVE  UNCHANGED Channel!channelVars
<1>1. QED
  BY DEF Channel!channelVars, phaseBar, carriedOutBar

\* Getting an id issues the command on the channel.
LEMMA IssueStep ==
    ASSUME Inv, NEW c, NEW s, NEW step, Issue(c, s, step)
    PROVE  Channel!Next
<1> USE TransportAssumption
<1>1. /\ nextId \in Ids /\ nextId' = nextId + 1 /\ outcome' = outcome /\ performed' = performed
      /\ outcome[nextId] = "none"
  BY DEF Inv, TypeOK, FreshIds, Issue, TakeId, Ids, browserVars
<1>2. phaseBar[nextId] = "unissued"
  BY <1>1, PhaseOf DEF Ids
<1>3. phaseBar' = [phaseBar EXCEPT ![nextId] = "open"]
  <2>1. \A i \in Ids : i # nextId => (i >= nextId' <=> i >= nextId)
    BY <1>1 DEF Ids
  <2>2. ~(nextId >= nextId')
    BY <1>1 DEF Ids
  <2>3. QED
    BY <1>1, <2>1, <2>2 DEF phaseBar
<1>4. Channel!Issue(nextId)
  BY <1>1, <1>2, <1>3 DEF Channel!Issue, carriedOutBar
<1>5. QED
  BY <1>1, <1>4 DEF Channel!Next

\* A send that fails loses the command.
LEMMA EnqueueFailsStep ==
    ASSUME Inv, NEW c \in Callers, EnqueueFails(c)
    PROVE  Channel!Next
<1> DEFINE i == caller[c].id
<1>1. i \in Ids /\ ~(i >= nextId) /\ outcome[i] = "none"
  BY TransportAssumption DEF Inv, TypeOK, CallerIds, EnqueueFails, Ids
<1>2. outcome' = [j \in Ids |-> IF j \in {i} THEN "transport" ELSE outcome[j]]
  BY <1>1 DEF EnqueueFails, Inv, TypeOK
<1>3. UNCHANGED <<nextId, performed>>
  BY DEF EnqueueFails, shared, browserVars
<1>4. {i} \in SUBSET Ids /\ \A j \in {i} : ~(j >= nextId) /\ outcome[j] = "none"
  BY <1>1
<1>5. QED
  BY <1>2, <1>3, <1>4, LoseStep

\* Returning takes the answer.
LEMMA ReturnStep ==
    ASSUME Inv, NEW c \in Callers, Return(c)
    PROVE  Channel!Next
<1> DEFINE i == caller[c].id
<1>1. /\ i \in Ids /\ ~(i >= nextId)
      /\ outcome[i] \in {"ok", "failed", "transport"}
      /\ outcome' = [outcome EXCEPT ![i] = "taken"]
      /\ nextId' = nextId /\ performed' = performed
  BY TransportAssumption DEF Inv, TypeOK, CallerIds, Return, Ids, Outcomes, shared, browserVars
<1>2. phaseBar[i] \in {"ok", "failed", "transport"}
  BY <1>1, PhaseOf
<1>3. phaseBar' = [phaseBar EXCEPT ![i] = "done"]
  BY <1>1 DEF phaseBar, Inv, TypeOK
<1>4. Channel!Take(i)
  BY <1>1, <1>2, <1>3 DEF Channel!Take, Channel!Resolved, carriedOutBar
<1>5. QED
  BY <1>1, <1>4 DEF Channel!Next

\* Reading an answer answers the command.
LEMMA ReadResponseStep ==
    ASSUME Inv, ReadResponse
    PROVE  Channel!Next
<1>1. PICK m \in replies : Resolve(pending \cap {m.id}, IF m.ok THEN "ok" ELSE "failed")
  BY DEF ReadResponse, Waiters
<1> DEFINE i == m.id
           r == IF m.ok THEN "ok" ELSE "failed"
<1>2. /\ i \in Ids /\ i \in pending /\ ~(i >= nextId) /\ outcome[i] = "none" /\ performed[i] = 1
      /\ nextId' = nextId /\ performed' = performed
  BY DEF Inv, TypeOK, OnTheWire, HeldOnce, FreshIds, ReadResponse, Waiters, shared
<1>3. phaseBar[i] = "open"
  BY <1>2, PhaseOf
<1>4. outcome' = [outcome EXCEPT ![i] = r]
  BY <1>1, <1>2 DEF Resolve, Inv, TypeOK
<1>5. phaseBar' = [phaseBar EXCEPT ![i] = r]
  BY <1>2, <1>4 DEF phaseBar, Inv, TypeOK
<1>6. Channel!Answer(i)
  <2>1. r \in {"ok", "failed"}
    OBVIOUS
  <2>2. i \in carriedOutBar /\ carriedOutBar' = carriedOutBar
    BY <1>2 DEF carriedOutBar
  <2>3. \E q \in {"ok", "failed"} : phaseBar' = [phaseBar EXCEPT ![i] = q]
    BY <1>5, <2>1
  <2>4. QED
    BY <1>3, <2>2, <2>3 DEF Channel!Answer
<1>7. QED
  BY <1>2, <1>6 DEF Channel!Next

\* Chrome carrying out a command carries it out on the channel.
LEMMA PerformStep ==
    ASSUME Inv, Perform
    PROVE  Channel!Next
<1>1. PICK i \in wire : performed' = [performed EXCEPT ![i] = @ + 1]
  BY DEF Perform
<1>2. /\ i \in Ids /\ ~(i >= nextId) /\ outcome[i] = "none" /\ performed[i] = 0
      /\ nextId' = nextId /\ outcome' = outcome
  BY DEF Inv, TypeOK, OnTheWire, HeldOnce, FreshIds, Perform, shared, callerVars
<1>3. phaseBar[i] = "open" /\ phaseBar' = phaseBar
  BY <1>2, PhaseOf DEF phaseBar
<1>4. i \notin carriedOutBar /\ carriedOutBar' = carriedOutBar \cup {i}
  BY <1>1, <1>2 DEF carriedOutBar, Inv, TypeOK
<1>5. Channel!CarryOut(i)
  BY <1>2, <1>3, <1>4 DEF Channel!CarryOut
<1>6. QED
  BY <1>2, <1>5 DEF Channel!Next

\* The three steps of the actor that give up on several requests at once.
LEMMA ActorLoseStep ==
    ASSUME Inv, NEW S \in SUBSET (Queued \cup pending), Resolve(S, "transport"),
           UNCHANGED <<nextId, performed>>
    PROVE  Channel!Next
<1>1. Queued \subseteq Ids /\ pending \subseteq Ids
  BY RangeOfSeq DEF Inv, TypeOK, Queued
<1>2. \A i \in S : i \in Ids /\ ~(i >= nextId) /\ outcome[i] = "none"
  BY <1>1 DEF Inv, FreshIds, HeldOnce
<1>3. outcome' = [i \in Ids |-> IF i \in S THEN "transport" ELSE outcome[i]]
  BY DEF Resolve
<1>4. S \in SUBSET Ids
  BY <1>1
<1>5. QED
  BY <1>2, <1>3, <1>4, LoseStep

\* Every step of the actor is one of the channel, or a stutter.
LEMMA ActorStepStep ==
    ASSUME Inv, ActorStep
    PROVE  Channel!Next \/ UNCHANGED Channel!channelVars
<1>1. CASE SendNext
  <2>1. Head(queue) \in Queued
    BY <1>1, TailChannel DEF Inv, TypeOK, SendNext, Queued
  <2>2. CASE Resolve({Head(queue)}, "transport")
    <3>1. {Head(queue)} \in SUBSET (Queued \cup pending)
      BY <2>1
    <3>2. UNCHANGED <<nextId, performed>>
      BY <1>1 DEF SendNext
    <3>3. QED
      BY <2>2, <3>1, <3>2, ActorLoseStep
  <2>3. CASE UNCHANGED outcome
    BY <1>1, <2>3, QuietStep DEF SendNext
  <2>4. QED
    BY <1>1, <2>2, <2>3 DEF SendNext
<1>2. CASE DetectClose
  <2>1. Resolve(pending, "transport") /\ UNCHANGED <<nextId, performed>>
    BY <1>2 DEF DetectClose, FailPending, shared, browserVars
  <2>2. QED
    BY <2>1, ActorLoseStep
<1>3. CASE GiveUp \/ LastConnectFails
  <2>1. Resolve(Queued, "transport") /\ UNCHANGED <<nextId, performed>>
    BY <1>3 DEF GiveUp, LastConnectFails, MoreAttempts, ActorReturns, browserVars
  <2>2. QED
    BY <2>1, ActorLoseStep
<1>4. CASE Reconnect \/ ConnectSucceeds \/ ConnectFails \/ RetryAfterDelay
  BY <1>4, QuietStep
     DEF Reconnect, ConnectSucceeds, ConnectFails, MoreAttempts, RetryAfterDelay, StartAttempt, shared, callerVars, browserVars
<1>5. QED
  BY <1>1, <1>2, <1>3, <1>4, ReadResponseStep DEF ActorStep

\* Every step of a caller is one of the channel, or a stutter.
LEMMA CallerStepStep ==
    ASSUME Inv, NEW c \in Callers, CallerStep(c)
    PROVE  Channel!Next \/ UNCHANGED Channel!channelVars
<1>1. CASE Call(c) \/ Attach(c) \/ Enable(c)
  BY <1>1, IssueStep DEF Call, Attach, Enable
<1>2. CASE Register(c) \/ EnableRefused(c) \/ Enqueue(c) \/ Abandon(c)
  BY <1>2, QuietStep DEF Register, EnableRefused, Enqueue, Abandon, shared, browserVars
<1>3. QED
  BY <1>1, <1>2, EnqueueFailsStep, ReturnStep DEF CallerStep

\* Every step of the callers, the actor, the socket and the browser is a step of
\* the at-most-once command channel or leaves it unchanged: the detailed
\* protocol with its reconnects implements CommandChannel.
THEOREM ChannelImplemented == Spec => ImplementsChannel
<1>1. Inv /\ [Next]_vars => [Channel!Next]_(Channel!channelVars)
  <2> SUFFICES ASSUME Inv, [Next]_vars
               PROVE  Channel!Next \/ UNCHANGED Channel!channelVars
    OBVIOUS
  <2>1. CASE MarkIntentionalStop \/ DropHandles \/ LoseLink \/ Terminated \/ UNCHANGED vars
    BY <2>1, QuietStep DEF MarkIntentionalStop, DropHandles, LoseLink, Terminated,
       vars, shared, actorVars, callerVars, browserVars
  <2>2. QED
    BY <2>1, CallerStepStep, ActorStepStep, PerformStep DEF Next
<1>2. QED
  BY <1>1, InitChannel, Invariance, PTL DEF Spec, ImplementsChannel, Channel!Spec
=============================================================================
