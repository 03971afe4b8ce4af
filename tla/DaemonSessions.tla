--------------------------- MODULE DaemonSessions ---------------------------
(***************************************************************************)
(* A persistent session: a Chrome that outlives the command that started   *)
(* it, found again by the record in the session's directory.  The daemon,  *)
(* whose calls a mutex serializes, and other commands start, use, stop and *)
(* clean up the same session; a directory is not locked, and every step of *)
(* a command may fail.                                                     *)
(***************************************************************************)
EXTENDS Naturals, FiniteSets

CONSTANTS
  Daemon,        \* the daemon
  Commands,      \* other processes that run session commands
  MaxBrowsers,   \* bound: Chrome processes spawned
  MaxCommands    \* bound: commands run

Clients == Commands \cup {Daemon}
ASSUME DaemonSessionsAssumption == Daemon \notin Commands /\ {MaxBrowsers, MaxCommands} \subseteq Nat

VARIABLES
  dsRunning,   \* Chrome processes, numbered as they were spawned
  dsBooted,    \* those that have taken the profile and listen
  dsPort,      \* DevToolsActivePort in the profile: a browser, or 0
  dsRecord,    \* session.json: NoRecord, TornRecord, or an endpoint and a process id
  dsStage,     \* client -> what it does next
  dsWork,      \* client -> the child it launched, the endpoint it goes by
  dsMemory,    \* McpRuntime.sessions: the browser of the daemon's session, or 0
  dsSpawned, dsRun,
  dsOdd        \* what happened that no command deals with

dsVars == <<dsRunning, dsBooted, dsPort, dsRecord, dsStage, dsWork, dsMemory, dsSpawned, dsRun, dsOdd>>

SessionRecord(file, endpoint, process) == [file |-> file, endpoint |-> endpoint, process |-> process]
NoRecord == SessionRecord("none", 0, 0)
TornRecord == SessionRecord("torn", 0, 0)
NoWork == [child |-> 0, endpoint |-> 0, process |-> 0]
DsIdle(c) == dsStage[c] = "idle"
Listening == dsRunning \cap dsBooted

DsInit ==
  /\ dsRunning = {} /\ dsBooted = {} /\ dsPort = 0 /\ dsRecord = NoRecord
  /\ dsStage = [c \in Clients |-> "idle"] /\ dsWork = [c \in Clients |-> NoWork]
  /\ dsMemory = 0 /\ dsSpawned = 0 /\ dsRun = 0 /\ dsOdd = {}

\* A command begins; its first step is to look for the record.
Begins(c, stage) ==
  /\ DsIdle(c) /\ dsRun < MaxCommands
  /\ dsRun' = dsRun + 1
  /\ dsStage' = [dsStage EXCEPT ![c] = stage]
  /\ dsOdd' = dsOdd \cup (IF \E d \in Clients : ~DsIdle(d) THEN {"overlap"} ELSE {})
Moves(c, from, to) == dsStage[c] = from /\ dsStage' = [dsStage EXCEPT ![c] = to]
Ends(c) ==
  /\ dsStage' = [dsStage EXCEPT ![c] = "idle"]
  /\ dsWork' = [dsWork EXCEPT ![c] = NoWork]

-----------------------------------------------------------------------------
\* start_persistent_session: not when there is a record, readable or not.
DsStart(c) ==
  /\ dsRecord = NoRecord /\ Begins(c, "launch")
  /\ UNCHANGED <<dsRunning, dsBooted, dsPort, dsRecord, dsWork, dsMemory, dsSpawned>>

DsLaunches(c) ==
  /\ Moves(c, "launch", "port") /\ dsSpawned < MaxBrowsers
  /\ dsSpawned' = dsSpawned + 1
  /\ dsRunning' = dsRunning \cup {dsSpawned'}
  /\ dsWork' = [dsWork EXCEPT ![c].child = dsSpawned']
  /\ UNCHANGED <<dsBooted, dsPort, dsRecord, dsMemory, dsRun, dsOdd>>

\* wait_for_devtools_endpoint: the file may be one left by an earlier browser.
DsReadsPort(c) ==
  /\ Moves(c, "port", "connect") /\ dsPort # 0
  /\ dsWork' = [dsWork EXCEPT ![c].endpoint = dsPort]
  /\ UNCHANGED <<dsRunning, dsBooted, dsPort, dsRecord, dsMemory, dsSpawned, dsRun, dsOdd>>

\* Connect, navigate, read the state.
DsConnects(c) ==
  /\ Moves(c, "connect", "record") /\ dsWork[c].endpoint \in Listening
  /\ UNCHANGED <<dsRunning, dsBooted, dsPort, dsRecord, dsWork, dsMemory, dsSpawned, dsRun, dsOdd>>

\* write_session_record, and only then detach: from here the browser stays.
DsRecords(c) ==
  /\ dsStage[c] = "record" /\ Ends(c)
  /\ dsRecord' = SessionRecord("whole", dsWork[c].endpoint, dsWork[c].child)
  /\ dsMemory' = IF c = Daemon THEN dsWork[c].endpoint ELSE dsMemory
  /\ UNCHANGED <<dsRunning, dsBooted, dsPort, dsSpawned, dsRun, dsOdd>>

\* A slip: the browser is detached as soon as it is launched.
DsStartFailsFault(c) ==
  /\ dsStage[c] \in {"launch", "port", "connect", "record"} /\ Ends(c)
  /\ UNCHANGED <<dsRunning, dsBooted, dsPort, dsRecord, dsMemory, dsSpawned, dsRun, dsOdd>>

\* The record is written in place: a write that ends half-way leaves a torn one.
MayTear(c) == dsRecord' \in {dsRecord} \cup (IF dsStage[c] = "record" THEN {TornRecord} ELSE {})

\* A step of it fails: the browser launched is killed, its profile stays.
DsStartFails(c) ==
  /\ dsStage[c] \in {"launch", "port", "connect", "record"} /\ Ends(c) /\ MayTear(c)
  /\ dsRunning' = dsRunning \ {dsWork[c].child}
  /\ UNCHANGED <<dsBooted, dsPort, dsMemory, dsSpawned, dsRun, dsOdd>>

-----------------------------------------------------------------------------
\* stop_persistent_session; the daemon forgets its session first.
Stopping(c, stage) ==
  /\ dsRecord.file = "whole" /\ Begins(c, stage)
  /\ dsWork' = [dsWork EXCEPT ![c].endpoint = dsRecord.endpoint, ![c].process = dsRecord.process]
  /\ UNCHANGED <<dsRunning, dsBooted, dsPort, dsRecord, dsSpawned>>
DsStop(c) ==
  /\ Stopping(c, "close")
  /\ dsMemory' = IF c = Daemon THEN 0 ELSE dsMemory
DsStopFindsNoRecord ==
  /\ dsRecord.file # "whole" /\ Begins(Daemon, "idle") /\ dsMemory' = 0
  /\ UNCHANGED <<dsRunning, dsBooted, dsPort, dsRecord, dsWork, dsSpawned>>

\* cleanup_persistent_sessions goes by whether the recorded process runs; a
\* session that runs is stopped when it is forced, and left alone otherwise.
DsCleanup(c) ==
  /\ \/ dsRecord.process \in dsRunning /\ Stopping(c, "close")
     \/ dsRecord.process \notin dsRunning /\ Stopping(c, "remove")
  /\ UNCHANGED dsMemory

\* Browser.close when it can be reached; the browser goes, now or later, or never.
DsCloses(c) ==
  /\ Moves(c, "close", "wait")
  /\ \/ dsWork[c].endpoint \in Listening /\ dsRunning' = dsRunning \ {dsWork[c].endpoint}
     \/ UNCHANGED dsRunning
  /\ UNCHANGED <<dsBooted, dsPort, dsRecord, dsWork, dsMemory, dsSpawned, dsRun, dsOdd>>

\* The wait for the process ends with it, or after two seconds.
DsWaits(c) ==
  /\ Moves(c, "wait", "remove")
  /\ dsOdd' = dsOdd \cup (IF dsWork[c].process \in dsRunning THEN {"outlived"} ELSE {})
  /\ UNCHANGED <<dsRunning, dsBooted, dsPort, dsRecord, dsWork, dsMemory, dsSpawned, dsRun>>

\* remove_session_dir: the record and the profile, whoever wrote them.
DsRemoves(c) ==
  /\ dsStage[c] = "remove" /\ Ends(c)
  /\ dsRecord' = NoRecord /\ dsPort' = 0
  /\ UNCHANGED <<dsRunning, dsBooted, dsMemory, dsSpawned, dsRun, dsOdd>>

-----------------------------------------------------------------------------
\* McpRuntime::session of a tool call: the session in memory, else the
\* recorded one, else a new one.
DsReconnects ==
  /\ dsMemory = 0 /\ dsRecord.endpoint \in Listening /\ Begins(Daemon, "idle")
  /\ dsMemory' = dsRecord.endpoint
  /\ UNCHANGED <<dsRunning, dsBooted, dsPort, dsRecord, dsWork, dsSpawned>>
DsDaemonRestarts ==
  /\ dsMemory # 0 /\ DsIdle(Daemon) /\ dsMemory' = 0
  /\ UNCHANGED <<dsRunning, dsBooted, dsPort, dsRecord, dsStage, dsWork, dsSpawned, dsRun, dsOdd>>

\* A client is killed, or the daemon shut down, in the middle of a command: the
\* browser it has launched goes with it if the command is dropped in order.
DsDies(c) ==
  /\ ~DsIdle(c) /\ Ends(c) /\ MayTear(c)
  /\ dsMemory' = IF c = Daemon THEN 0 ELSE dsMemory
  /\ dsRunning' \in {dsRunning, dsRunning \ {dsWork[c].child}}
  /\ dsOdd' = dsOdd \cup {"died"}
  /\ UNCHANGED <<dsBooted, dsPort, dsSpawned, dsRun>>

\* Chrome comes up: it takes the profile and writes the port, or, when another
\* Chrome has the profile, hands over to it and exits (external).
ChromeBoots(b) ==
  /\ b \in dsRunning \ dsBooted
  /\ IF Listening = {} THEN dsBooted' = dsBooted \cup {b} /\ dsPort' = b /\ UNCHANGED dsRunning
     ELSE dsRunning' = dsRunning \ {b} /\ UNCHANGED <<dsBooted, dsPort>>
  /\ UNCHANGED <<dsRecord, dsStage, dsWork, dsMemory, dsSpawned, dsRun, dsOdd>>
\* Chrome exits, closed or crashed; its port file may stay (external).
ChromeExits(b) ==
  /\ b \in dsRunning /\ dsRunning' = dsRunning \ {b}
  /\ dsPort' \in {dsPort, IF dsPort = b THEN 0 ELSE dsPort}
  /\ UNCHANGED <<dsBooted, dsRecord, dsStage, dsWork, dsMemory, dsSpawned, dsRun, dsOdd>>

DsNext ==
  \/ \E c \in Clients :
       \/ DsStart(c) \/ DsLaunches(c) \/ DsReadsPort(c) \/ DsConnects(c) \/ DsRecords(c) \/ DsStartFails(c)
       \/ DsStop(c) \/ DsCleanup(c) \/ DsCloses(c) \/ DsWaits(c) \/ DsRemoves(c) \/ DsDies(c)
  \/ DsStopFindsNoRecord \/ DsReconnects \/ DsDaemonRestarts
  \/ \E b \in 1..MaxBrowsers : ChromeBoots(b) \/ ChromeExits(b)

-----------------------------------------------------------------------------
DsTypeOK ==
  /\ dsRunning \subseteq 1..dsSpawned /\ dsBooted \subseteq 1..dsSpawned /\ dsPort \in 0..dsSpawned
  /\ dsMemory \in 0..dsSpawned /\ dsOdd \subseteq {"overlap", "died", "outlived"}
  /\ \A c \in Clients : DsIdle(c) => dsWork[c] = NoWork

\* Whatever steps fail and whatever Chrome does: when no command runs, every
\* browser that runs has a record by which it can be found and stopped, and the
\* process the record names is the one its endpoint leads to; unless commands
\* overlapped, one was killed, or a browser outlived the wait for its end.
RunningBrowsersAreRecorded ==
  (\A c \in Clients : DsIdle(c)) /\ dsOdd = {} =>
    dsRunning \subseteq {dsRecord.endpoint} /\ dsRecord.endpoint = dsRecord.process
=============================================================================
