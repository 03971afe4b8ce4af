----------------------------- MODULE HarRecorder -----------------------------
(***************************************************************************)
(* The HAR file of a session (recording/har.rs): the lifecycle watchdog    *)
(* shows every CDP event to the recorder, which keeps one entry for each   *)
(* request id and one page for each frame; close_browser writes them.      *)
(*                                                                         *)
(* A request id goes through hops: a redirect is a new requestWillBeSent   *)
(* of the same id, and only the last hop is answered.  An event is seen,   *)
(* or was dropped with others because the watchdog lagged.  Header lists,  *)
(* sizes and dates are left out; what decides whether an entry, its body   *)
(* and its post data are written is kept.                                  *)
(***************************************************************************)
EXTENDS Naturals, FiniteSets

CONSTANTS
    HarRequests,        \* bound: request ids
    Hops,               \* bound: hops of a request, a range 1..n
    IsHttps(_, _),      \* of request and hop: is_har_https
    OriginOf(_, _),     \* of request and hop: har_origin
    IsFavicon(_, _),    \* of request and hop: its URL contains /favicon.ico
    IsDocument(_)       \* requests of type Document; they name the frame's page

VARIABLES
    hrHop, hrStage,  \* Chrome: the hop of each request; how far it is
    hrGap,           \* history: requests one of whose requestWillBeSent was lost
    hrEntries,       \* CdpHarState.entries
    hrPage,          \* CdpHarState.pages, of one frame: <<request, hop>> or NoPage
    hrFetching,      \* the request whose body the watchdog waits for, or NoRequest
    hrConfig,        \* CdpHarConfig
    hrFile           \* the file at record_har_path, or NotWritten

hrVars == <<hrHop, hrStage, hrGap, hrEntries, hrPage, hrFetching, hrConfig, hrFile>>

NoRequest == "none"
NoPage == <<NoRequest, 0>>
NoEntry == [url |-> 0, response |-> 0, data |-> FALSE, finished |-> FALSE,
            failed |-> FALSE, body |-> FALSE]
NotWritten == [written |-> FALSE, entries |-> [r \in {} |-> NoEntry]]
Recorded(r) == hrEntries[r] # NoEntry
SeenOrLost == BOOLEAN
ChromeGoes(r, stage) == hrStage' = [hrStage EXCEPT ![r] = stage]
Observing == hrFetching = NoRequest /\ ~hrFile.written

-----------------------------------------------------------------------------
(* One action per CDP event: what Chrome does, and what the recorder makes *)
(* of it when it sees it.                                                  *)

\* A mutant's form: the entry of a request keeps its first URL.
HrRequestFault(r, hop, seen) ==
    /\ Observing /\ hrStage[r] \in {"unsent", "sent"} /\ hop = hrHop[r] + 1
    /\ hrHop' = [hrHop EXCEPT ![r] = hop] /\ ChromeGoes(r, "sent")
    /\ hrEntries' = IF seen /\ IsHttps(r, hop) /\ ~Recorded(r)
                    THEN [hrEntries EXCEPT ![r].url = hop] ELSE hrEntries
    /\ UNCHANGED <<hrGap, hrPage, hrFetching, hrConfig, hrFile>>

\* observe_request_will_be_sent: an entry is made or takes the new URL; what the
\* entry holds of an answer stays.  A URL that is not https leaves it alone.
HrRequest(r, hop, seen) ==
    /\ Observing /\ hrStage[r] \in {"unsent", "sent"} /\ hop = hrHop[r] + 1
    /\ hrHop' = [hrHop EXCEPT ![r] = hop] /\ ChromeGoes(r, "sent")
    /\ hrGap' = IF seen THEN hrGap ELSE hrGap \cup {r}
    /\ IF seen /\ IsHttps(r, hop)
       THEN /\ hrEntries' = [hrEntries EXCEPT ![r].url = hop]
            /\ hrPage' = IF IsDocument(r) /\ hrPage = NoPage THEN <<r, hop>> ELSE hrPage
       ELSE UNCHANGED <<hrEntries, hrPage>>
    /\ UNCHANGED <<hrFetching, hrConfig, hrFile>>

\* observe_response_received
HrResponse(r, seen) ==
    /\ Observing /\ hrStage[r] = "sent" /\ ChromeGoes(r, "answered")
    /\ hrEntries' = IF seen /\ Recorded(r) THEN [hrEntries EXCEPT ![r].response = hrHop[r]]
                    ELSE hrEntries
    /\ UNCHANGED <<hrHop, hrGap, hrPage, hrFetching, hrConfig, hrFile>>

\* observe_data_received
HrData(r, seen) ==
    /\ Observing /\ hrStage[r] = "answered" /\ seen /\ Recorded(r)
    /\ hrEntries' = [hrEntries EXCEPT ![r].data = TRUE]
    /\ UNCHANGED <<hrHop, hrStage, hrGap, hrPage, hrFetching, hrConfig, hrFile>>

\* observe_loading_finished: unless bodies are omitted, the watchdog waits for
\* this one before it reads on.
HrFinished(r, seen) ==
    /\ Observing /\ hrStage[r] = "answered" /\ ChromeGoes(r, "loaded")
    /\ IF seen /\ Recorded(r)
       THEN /\ hrEntries' = [hrEntries EXCEPT ![r].finished = TRUE]
            /\ hrFetching' = IF hrConfig.content = "omit" THEN NoRequest ELSE r
       ELSE UNCHANGED <<hrEntries, hrFetching>>
    /\ UNCHANGED <<hrHop, hrGap, hrPage, hrConfig, hrFile>>

\* The body arrives, or it does not; the file may have been written meanwhile.
HrBody(fetched) ==
    /\ hrFetching # NoRequest /\ hrFetching' = NoRequest
    /\ hrEntries' = IF fetched THEN [hrEntries EXCEPT ![hrFetching].body = TRUE] ELSE hrEntries
    /\ UNCHANGED <<hrHop, hrStage, hrGap, hrPage, hrConfig, hrFile>>

\* observe_loading_failed
HrFailed(r, seen) ==
    /\ Observing /\ hrStage[r] \in {"sent", "answered"} /\ ChromeGoes(r, "failed")
    /\ hrEntries' = IF seen /\ Recorded(r) THEN [hrEntries EXCEPT ![r].failed = TRUE] ELSE hrEntries
    /\ UNCHANGED <<hrHop, hrGap, hrPage, hrFetching, hrConfig, hrFile>>

-----------------------------------------------------------------------------
(* write_har *)

\* include_entry
IncludeEntry(r) ==
    LET url == hrEntries[r].url IN
    /\ url # 0 /\ ~IsFavicon(r, url)
    /\ \/ hrConfig.mode = "full"
       \/ hrPage # NoPage /\ OriginOf(r, url) = OriginOf(hrPage[1], hrPage[2])

\* har_content_json: the fetched body, or the data seen going by
HarContent(e) ==
    CASE ~(e.body \/ e.data) \/ hrConfig.content = "omit" -> "none"
      [] (e.body \/ e.data) /\ hrConfig.content = "embed" -> "text"
      [] OTHER -> "_file"

\* har_entry_json
HarEntry(e) ==
    [url |-> e.url, response |-> e.response, content |-> HarContent(e),
     postData |-> hrConfig.content # "omit"]

\* The state is copied under the lock, written aside and renamed; a failure is
\* ignored by close_browser.
HrWrites ==
    /\ ~hrFile.written
    /\ hrFile' = [written |-> TRUE,
                  entries |-> [r \in {q \in HarRequests : Recorded(q) /\ IncludeEntry(q)} |->
                                  HarEntry(hrEntries[r])]]
    /\ UNCHANGED <<hrHop, hrStage, hrGap, hrEntries, hrPage, hrFetching, hrConfig>>

HrInit ==
    /\ hrHop = [r \in HarRequests |-> 0]
    /\ hrStage = [r \in HarRequests |-> "unsent"]
    /\ hrGap = {} /\ hrEntries = [r \in HarRequests |-> NoEntry]
    /\ hrPage = NoPage /\ hrFetching = NoRequest /\ hrFile = NotWritten
    /\ hrConfig \in [content : {"omit", "embed", "attach"}, mode : {"full", "minimal"}]

HrNext ==
    \/ \E r \in HarRequests, seen \in SeenOrLost :
          \/ \E hop \in Hops : HrRequest(r, hop, seen)
          \/ HrResponse(r, seen) \/ HrData(r, seen)
          \/ HrFinished(r, seen) \/ HrFailed(r, seen)
    \/ \E fetched \in BOOLEAN : HrBody(fetched)
    \/ HrWrites

-----------------------------------------------------------------------------
(* Properties *)

HrTypeOK ==
    /\ hrHop \in [HarRequests -> Hops \cup {0}] /\ hrGap \subseteq HarRequests
    /\ hrEntries \in [HarRequests -> [url : Hops \cup {0}, response : Hops \cup {0},
                        data : BOOLEAN, finished : BOOLEAN, failed : BOOLEAN, body : BOOLEAN]]
    /\ hrFetching \in HarRequests \cup {NoRequest}

\* What the file says a URL answered is the answer of that URL and not of
\* another hop of the request: except when the watchdog lost the redirect, or
\* the redirect led to a URL that is not https and is not recorded.
WrittenAnswersAreOfTheirUrls ==
    \A r \in DOMAIN hrFile.entries :
        LET e == hrFile.entries[r] IN
        /\ e.url # 0 /\ IsHttps(r, e.url)
        /\ e.response \in {0, e.url} \/ r \in hrGap \/ ~IsHttps(r, e.response)
=============================================================================
