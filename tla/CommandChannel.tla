--------------------------- MODULE CommandChannel ---------------------------
(***************************************************************************)
(* What CdpConnection::command promises its callers, whatever happens to   *)
(* the websocket: a command is carried out by the browser at most once, an *)
(* answer is only ever given for a command that was carried out, and every *)
(* other way out is an error that says nothing about whether it was.       *)
(* CdpTransport implements this.                                           *)
(***************************************************************************)
EXTENDS Naturals

CONSTANT Ids              \* the commands

VARIABLES
    phase,                \* "unissued", "open", how it was resolved, "done"
    carriedOut            \* those the browser has executed

channelVars == <<phase, carriedOut>>

Resolved == {"ok", "failed", "transport"}

Init ==
    /\ phase = [i \in Ids |-> "unissued"]
    /\ carriedOut = {}

Issue(i) ==
    /\ phase[i] = "unissued"
    /\ phase' = [phase EXCEPT ![i] = "open"]
    /\ UNCHANGED carriedOut

CarryOut(i) ==
    /\ phase[i] = "open"
    /\ i \notin carriedOut
    /\ carriedOut' = carriedOut \cup {i}
    /\ UNCHANGED phase

\* The browser's own answer, success or failure.
Answer(i) ==
    /\ phase[i] = "open"
    /\ i \in carriedOut
    /\ \E r \in {"ok", "failed"} : phase' = [phase EXCEPT ![i] = r]
    /\ UNCHANGED carriedOut

\* A transport error for any commands that are still open, together.
Lose ==
    /\ \E S \in SUBSET {i \in Ids : phase[i] = "open"} :
          phase' = [i \in Ids |-> IF i \in S THEN "transport" ELSE phase[i]]
    /\ UNCHANGED carriedOut

\* The caller takes the result.
Take(i) ==
    /\ phase[i] \in Resolved
    /\ phase' = [phase EXCEPT ![i] = "done"]
    /\ UNCHANGED carriedOut

Next ==
    \/ \E i \in Ids : Issue(i) \/ CarryOut(i) \/ Answer(i) \/ Take(i)
    \/ Lose

Spec == Init /\ [][Next]_channelVars
=============================================================================
