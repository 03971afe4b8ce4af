---------------------------- MODULE VideoRecorder ----------------------------
(***************************************************************************)
(* The video of a session (CdpVideoRecorder in recording.rs).  The session *)
(* moves the screencast to each page it switches to; the lifecycle watchdog *)
(* collects the frames out of the CDP events and acknowledges them, since  *)
(* Chrome sends only so many frames ahead; close_browser takes the frames  *)
(* and writes the file.  Every attachment is a new session, so sessions    *)
(* are numbered in the order the pages became current.                     *)
(***************************************************************************)
EXTENDS Naturals, Sequences

CONSTANTS
    MaxVisits,      \* bound: pages that become current
    MaxFrames,      \* bound: frames Chrome sends
    FramesAhead     \* frames Chrome sends before it waits for an acknowledgement

ASSUME VideoAssumption == MaxVisits \in Nat \ {0} /\ FramesAhead \in Nat

VARIABLES
    vrVisit,     \* the session of the current page
    vrStage,     \* start_screencast_for_page: "idle", "stop", "start", "set"
    vrActive,    \* CdpVideoState.active_session_id; 0 is None
    vrFrames,    \* CdpVideoState.frames: the session of each
    vrCasting,   \* Chrome: sessions being cast
    vrUnacked,   \* Chrome: frames of each session not acknowledged
    vrEvents,    \* Page.screencastFrame events the watchdog has not read
    vrAck,       \* the session whose acknowledgement the watchdog waits for, or 0
    vrVideo,     \* the frames written, or NoVideo
    vrSent

vrVars == <<vrVisit, vrStage, vrActive, vrFrames, vrCasting, vrUnacked, vrEvents,
            vrAck, vrVideo, vrSent>>
Visits == 1..MaxVisits
NoVideo == [written |-> FALSE, frames |-> <<>>]

\* set_current_page: the screencast follows, unless it is there already.
VrSwitches ==
    /\ vrStage = "idle" /\ vrVisit < MaxVisits /\ ~vrVideo.written
    /\ vrVisit' = vrVisit + 1
    /\ vrStage' = IF vrActive = 0 THEN "start" ELSE "stop"
    /\ UNCHANGED <<vrActive, vrFrames, vrCasting, vrUnacked, vrEvents, vrAck, vrVideo, vrSent>>

\* Page.stopScreencast of the page before; its failure is ignored.
VrStopsPrevious ==
    /\ vrStage = "stop" /\ vrStage' = "start"
    /\ vrCasting' \in {vrCasting, vrCasting \ {vrActive}}
    /\ UNCHANGED <<vrVisit, vrActive, vrFrames, vrUnacked, vrEvents, vrAck, vrVideo, vrSent>>

\* Page.startScreencast; when it fails the session before stays the active one.
VrStarts ==
    /\ vrStage = "start"
    /\ \/ vrStage' = "set" /\ vrCasting' = vrCasting \cup {vrVisit}
       \/ vrStage' = "idle" /\ UNCHANGED vrCasting
    /\ UNCHANGED <<vrVisit, vrActive, vrFrames, vrUnacked, vrEvents, vrAck, vrVideo, vrSent>>

VrSetsActive ==
    /\ vrStage = "set" /\ vrStage' = "idle" /\ vrActive' = vrVisit
    /\ UNCHANGED <<vrVisit, vrFrames, vrCasting, vrUnacked, vrEvents, vrAck, vrVideo, vrSent>>

\* Chrome casts a frame (external).
VrFrame(s) ==
    /\ s \in vrCasting /\ vrUnacked[s] < FramesAhead /\ vrSent < MaxFrames
    /\ vrSent' = vrSent + 1
    /\ vrUnacked' = [vrUnacked EXCEPT ![s] = @ + 1]
    /\ vrEvents' = Append(vrEvents, s)
    /\ UNCHANGED <<vrVisit, vrStage, vrActive, vrFrames, vrCasting, vrAck, vrVideo>>

\* A mutant's form: frames of every session are kept.
VrObservesFault ==
    /\ vrAck = 0 /\ vrEvents # <<>> /\ vrEvents' = Tail(vrEvents)
    /\ vrFrames' = Append(vrFrames, Head(vrEvents)) /\ vrAck' = Head(vrEvents)
    /\ UNCHANGED <<vrVisit, vrStage, vrActive, vrCasting, vrUnacked, vrVideo, vrSent>>

\* observe_cdp_event: a frame of another session than the active one is dropped
\* and never acknowledged.
VrObserves ==
    /\ vrAck = 0 /\ vrEvents # <<>> /\ vrEvents' = Tail(vrEvents)
    /\ IF Head(vrEvents) = vrActive
       THEN vrFrames' = Append(vrFrames, vrActive) /\ vrAck' = vrActive
       ELSE UNCHANGED <<vrFrames, vrAck>>
    /\ UNCHANGED <<vrVisit, vrStage, vrActive, vrCasting, vrUnacked, vrVideo, vrSent>>

\* Page.screencastFrameAck; a failure is ignored.
VrAcks ==
    /\ vrAck # 0 /\ vrAck' = 0
    /\ vrUnacked' \in {vrUnacked, [vrUnacked EXCEPT ![vrAck] = @ - 1]}
    /\ UNCHANGED <<vrVisit, vrStage, vrActive, vrFrames, vrCasting, vrEvents, vrVideo, vrSent>>

\* stop_and_write: frames and active session are taken first, so whatever fails
\* later they are gone; without an active session no file is written.  The
\* encoder's failure falls back to a GIF of the same frames.
VrStopsAndWrites ==
    /\ vrStage = "idle" /\ ~vrVideo.written
    /\ vrActive' = 0 /\ vrFrames' = <<>>
    /\ vrCasting' = vrCasting \ {vrActive}
    /\ vrVideo' \in IF vrActive = 0 THEN {NoVideo}
                   ELSE {NoVideo, [written |-> TRUE, frames |-> vrFrames]}
    /\ UNCHANGED <<vrVisit, vrStage, vrUnacked, vrEvents, vrAck, vrSent>>

VrInit ==
    /\ vrVisit = 1 /\ vrStage = "start" /\ vrActive = 0
    /\ vrFrames = <<>> /\ vrCasting = {} /\ vrUnacked = [s \in Visits |-> 0]
    /\ vrEvents = <<>> /\ vrAck = 0 /\ vrVideo = NoVideo /\ vrSent = 0

VrNext ==
    \/ VrSwitches \/ VrStopsPrevious \/ VrStarts \/ VrSetsActive
    \/ \E s \in Visits : VrFrame(s)
    \/ VrObserves \/ VrAcks \/ VrStopsAndWrites

-----------------------------------------------------------------------------
(* Properties *)

VrTypeOK ==
    /\ vrVisit \in Visits /\ vrActive \in 0..vrVisit /\ vrCasting \subseteq Visits
    /\ vrUnacked \in [Visits -> 0..FramesAhead] /\ vrAck \in 0..MaxVisits
    /\ vrFrames \in Seq(Visits) /\ vrEvents \in Seq(Visits)

FramesInOrder(frames) == \A i, j \in 1..Len(frames) : i < j => frames[i] <= frames[j]

\* The video shows the pages in the order they became current: once a frame of
\* one is recorded no frame of an earlier page is, though the screencast of the
\* earlier one may go on and its frames arrive late.
VideoFollowsTheTabs == FramesInOrder(vrFrames) /\ FramesInOrder(vrVideo.frames)
=============================================================================
