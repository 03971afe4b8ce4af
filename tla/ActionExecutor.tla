--------------------------- MODULE ActionExecutor ---------------------------
(***************************************************************************)
(* Carrying out the actions of one model answer: what each action asks of  *)
(* the session and of the agent's files, call by call, with its timeout,   *)
(* and the rules that end the sequence.  The page may move because of a    *)
(* call, later than the call's answer, or by itself; the sequence looks at *)
(* the page's URL before and after an action and ends when it changed.     *)
(***************************************************************************)
EXTENDS Naturals, Sequences, SequencesExt

CONSTANTS
  PageUrls,        \* the URLs the current page may show
  ModelAnswers,    \* the actions of an answer: see XeAction
  MaxAnswers,      \* bound: answers carried out
  MaxPageMoves     \* bound: moves of the page no call asked for

ASSUME ActionExecutorAssumption ==
  /\ PageUrls # {} /\ MaxAnswers \in Nat /\ MaxPageMoves \in Nat
  /\ \A answer \in ModelAnswers : answer \in Seq([kind : STRING, with : SUBSET STRING])

VARIABLES
  xePage,     \* the URL of the session's current page
  xeLate,     \* navigations under way whose call has been answered or given up
  xeSeen,     \* the URL of the state the model answered to
  xeLeft,     \* actions of the answer not carried out yet, the present one first
  xeMode,     \* "agent" or "executor"
  xeStage,    \* "model", "next", "begin", "calls", "after"
  xeCalls,    \* calls the present action has still to make
  xeBefore,   \* the URL before the present action
  xeDone,     \* actions of the answer carried out
  xeUnguarded,\* the page moved after the model saw it and outside of an action
  xeLast,     \* the last action begun: the URL the model chose it by, the URL it met
  xeMoves, xeAnswers

xeVars == <<xePage, xeLate, xeSeen, xeLeft, xeMode, xeStage, xeCalls, xeBefore, xeDone,
            xeUnguarded, xeLast, xeMoves, xeAnswers>>

\* An action: its kind, and which of the parameters that matter it has.
XeAction(kind, with) == [kind |-> kind, with |-> with]
Begun(seen, on, unguarded) == [seen |-> seen, on |-> on, unguarded |-> unguarded]

-----------------------------------------------------------------------------
\* terminates_sequence.
TerminatesSequence(a) ==
  a.kind \in {"search", "navigate", "go_back", "switch_tab", "close_tab", "evaluate", "done"}

\* Actions that are one call.
OneCall ==
  [search |-> "navigate", navigate |-> "navigate", go_back |-> "go_back",
   switch_tab |-> "switch_tab", close_tab |-> "close_tab", input |-> "input_text",
   scroll |-> "scroll", find_text |-> "find_text", evaluate |-> "evaluate", wait |-> "sleep",
   find_elements |-> "find_elements", get_dropdown_options |-> "dropdown_options",
   select_dropdown_option |-> "select_dropdown_option", send_keys |-> "send_keys",
   upload_file |-> "upload_file", write_file |-> "files", read_file |-> "files",
   replace_file |-> "files", done |-> "files"]

\* Extract asks for the text, the URL, and the links and images if they are
\* wanted; the agent has a model read them before they are saved.
ExtractCalls(a, mode) ==
  <<"page_text", "state">>
  \o (IF "links" \in a.with THEN <<"find_elements">> ELSE <<>>)
  \o (IF "images" \in a.with THEN <<"find_elements">> ELSE <<>>)
  \o (IF mode = "agent" THEN <<"llm">> ELSE <<>>) \o <<"files">>

\* execute_browser_action: what is asked for, in order, if nothing fails.
CallsOf(a, mode) ==
  CASE a.kind \in DOMAIN OneCall -> <<OneCall[a.kind]>>
    [] a.kind = "click" -> IF "index" \in a.with THEN <<"click">> ELSE <<"click_coordinates">>
    [] a.kind = "screenshot" -> IF "name" \in a.with THEN <<"screenshot", "files">> ELSE <<>>
    [] a.kind = "extract" -> ExtractCalls(a, mode)
    [] a.kind = "search_page" -> IF "scope" \in a.with THEN <<"find_elements">> ELSE <<"page_text">>
    [] a.kind = "save_as_pdf" ->
         <<"save_pdf">> \o (IF "name" \in a.with THEN <<>> ELSE <<"state">>) \o <<"files">>

\* Index 0, neither an index nor both coordinates; a file that is not available,
\* not there or empty: an error without any call.
Refused(a) ==
  \/ a.kind = "click" /\ ("zero" \in a.with \/ a.with = {})
  \/ a.kind = "upload_file" /\ "available" \notin a.with

\* The URL and the title of the page are done without.
FailureIgnored(call) == call = "state"

\* Calls by which the page may come to show another URL.
MovesPage(call) ==
  call \in {"navigate", "go_back", "switch_tab", "close_tab", "click", "click_coordinates",
            "input_text", "send_keys", "evaluate", "select_dropdown_option", "upload_file"}

-----------------------------------------------------------------------------
XeInit ==
  /\ xePage \in PageUrls /\ xeSeen = xePage /\ xeBefore = xePage
  /\ xeMode \in {"agent", "executor"}
  /\ xeStage = "model" /\ xeLeft = <<>> /\ xeCalls = <<>> /\ xeLate = {} /\ xeDone = 0
  /\ xeUnguarded = FALSE /\ xeLast = Begun(xePage, xePage, FALSE)
  /\ xeMoves = 0 /\ xeAnswers = 0

\* The model answers to a state; it takes its time, and so does what follows.
XeModelAnswers ==
  /\ xeStage = "model" /\ xeAnswers < MaxAnswers
  /\ xeLeft' \in ModelAnswers
  /\ xeStage' = "next" /\ xeAnswers' = xeAnswers + 1
  /\ xeSeen' = xePage /\ xeUnguarded' = FALSE /\ xeDone' = 0
  /\ UNCHANGED <<xePage, xeLate, xeMode, xeCalls, xeBefore, xeLast, xeMoves>>

EndsSequence == xeStage' = "model" /\ xeLeft' = <<>> /\ xeCalls' = <<>>

\* All are carried out; a done comes after another; a stop was asked for; the
\* state before or after an action cannot be had.
XeEnds ==
  /\ xeStage \in {"next", "after"} /\ EndsSequence
  /\ UNCHANGED <<xePage, xeLate, xeSeen, xeMode, xeBefore, xeDone, xeUnguarded, xeLast, xeMoves, xeAnswers>>

\* The next action, after the state before one that is not expected to leave
\* the page.
XeGuards ==
  /\ xeStage = "next" /\ xeLeft # <<>>
  /\ ~(Head(xeLeft).kind = "done" /\ xeDone > 0)
  /\ xeBefore' = (IF TerminatesSequence(Head(xeLeft)) THEN xeBefore ELSE xePage)
  /\ xeStage' = "begin" /\ xeCalls' = CallsOf(Head(xeLeft), xeMode)
  /\ UNCHANGED <<xePage, xeLate, xeSeen, xeLeft, xeMode, xeDone, xeUnguarded, xeLast, xeMoves, xeAnswers>>

\* execute: an action that is refused is an error, which ends the sequence.
XeBegins ==
  /\ xeStage = "begin"
  /\ IF Refused(Head(xeLeft)) THEN EndsSequence /\ UNCHANGED xeLast
     ELSE /\ xeStage' = (IF xeCalls = <<>> THEN "after" ELSE "calls")
          /\ xeLast' = Begun(xeSeen, xePage, xeUnguarded)
          /\ UNCHANGED <<xeLeft, xeCalls>>
  /\ UNCHANGED <<xePage, xeLate, xeSeen, xeMode, xeBefore, xeDone, xeUnguarded, xeMoves, xeAnswers>>

\* What a call may do to the page, at once or later.
PageMay(call) ==
  \/ UNCHANGED <<xePage, xeLate>>
  \/ MovesPage(call) /\ xePage' \in PageUrls \ {xePage} /\ UNCHANGED xeLate
  \/ MovesPage(call) /\ UNCHANGED xePage /\ \E u \in PageUrls : xeLate' = xeLate \cup {u}

Goes(rest) ==
  /\ xeCalls' = rest
  /\ IF rest # <<>> THEN UNCHANGED <<xeStage, xeLeft>>
     ELSE IF TerminatesSequence(Head(xeLeft)) THEN EndsSequence
     ELSE xeStage' = "after" /\ UNCHANGED xeLeft

XeCallAnswered ==
  /\ xeStage = "calls" /\ PageMay(Head(xeCalls)) /\ Goes(Tail(xeCalls))
  /\ UNCHANGED <<xeSeen, xeMode, xeBefore, xeDone, xeUnguarded, xeLast, xeMoves, xeAnswers>>

\* A click on a <select> reads its options instead.
XeClickRefused ==
  /\ xeStage = "calls" /\ Head(xeCalls) = "click" /\ Goes(<<"dropdown_options">>)
  /\ UNCHANGED <<xePage, xeLate, xeSeen, xeMode, xeBefore, xeDone, xeUnguarded, xeLast, xeMoves, xeAnswers>>

\* A call fails, or the action's timeout drops it; the browser may carry it out
\* all the same.  The files are not waited for.
XeCallFails ==
  /\ xeStage = "calls" /\ PageMay(Head(xeCalls))
  /\ \/ FailureIgnored(Head(xeCalls)) /\ Goes(Tail(xeCalls))
     \/ ~FailureIgnored(Head(xeCalls)) /\ EndsSequence
  /\ UNCHANGED <<xeSeen, xeMode, xeBefore, xeDone, xeUnguarded, xeLast, xeMoves, xeAnswers>>
XeTimesOut ==
  /\ xeStage = "calls" /\ Head(xeCalls) # "files" /\ PageMay(Head(xeCalls)) /\ EndsSequence
  /\ UNCHANGED <<xeSeen, xeMode, xeBefore, xeDone, xeUnguarded, xeLast, xeMoves, xeAnswers>>

\* A slip: the sequence goes on whatever the page shows.
XeAfterFault ==
  /\ xeStage = "after"
  /\ xeStage' = "next" /\ xeLeft' = Tail(xeLeft) /\ xeDone' = xeDone + 1 /\ UNCHANGED xeCalls
  /\ UNCHANGED <<xePage, xeLate, xeSeen, xeMode, xeBefore, xeUnguarded, xeLast, xeMoves, xeAnswers>>

\* The state after the action shows whether the page changed.
XeAfter ==
  /\ xeStage = "after"
  /\ IF xePage # xeBefore THEN EndsSequence
     ELSE xeStage' = "next" /\ xeLeft' = Tail(xeLeft) /\ UNCHANGED xeCalls
  /\ xeDone' = xeDone + 1
  /\ UNCHANGED <<xePage, xeLate, xeSeen, xeMode, xeBefore, xeUnguarded, xeLast, xeMoves, xeAnswers>>

-----------------------------------------------------------------------------
\* A navigation that was under way is done, or the page moves by itself.
PageMoved ==
  /\ xeUnguarded' = (xeUnguarded \/ xeStage \in {"next", "begin"})
  /\ UNCHANGED <<xeSeen, xeLeft, xeMode, xeStage, xeCalls, xeBefore, xeDone, xeLast, xeAnswers>>
XeLateMove ==
  /\ xePage' \in xeLate /\ xeLate' = xeLate \ {xePage'}
  /\ PageMoved /\ UNCHANGED xeMoves
XePageMoves ==
  /\ xeMoves < MaxPageMoves /\ xeMoves' = xeMoves + 1
  /\ xePage' \in PageUrls \ {xePage}
  /\ PageMoved /\ UNCHANGED xeLate

XeNext ==
  \/ XeModelAnswers \/ XeEnds \/ XeGuards \/ XeBegins
  \/ XeCallAnswered \/ XeClickRefused \/ XeCallFails \/ XeTimesOut
  \/ XeAfter \/ XeLateMove \/ XePageMoves

-----------------------------------------------------------------------------
XeTypeOK ==
  /\ {xePage, xeSeen, xeBefore} \cup xeLate \subseteq PageUrls
  /\ xeStage \in {"model", "next", "begin", "calls", "after"}
  /\ xeStage = "calls" => xeLeft # <<>> /\ xeCalls # <<>>
  /\ xeDone \in Nat

\* An action of a model's answer begins on the page the model chose it by, even
\* if an earlier action of the answer left that page: at once, in a later one of
\* its calls, or when it failed or timed out and the browser carried it out all
\* the same.  The rules see no move that comes outside of an action, between the
\* model's state and the first action or between two: only then may it differ.
ActsOnSeenPage == xeLast.on = xeLast.seen \/ xeLast.unguarded
=============================================================================
