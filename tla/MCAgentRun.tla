----------------------------- MODULE MCAgentRun -----------------------------
\* Small instances of AgentRun for TLC.
EXTENDS AgentRun

NoActions == <<>>
OpenPage == <<"leave">>
WaitThenClick == <<"wait", "act">>

\* nothing, a click that loops, waits that do not, answers, answers too early
MixedPlans == {<<>>, <<"act", "wait", "leave">>, <<"wait", "done">>,
               <<"leave", "act">>, <<"done">>, <<"done", "wait">>}
FewPlans == {<<"act", "done">>, <<"done">>}
TwoPlans == {<<"leave">>, <<"wait">>}
=============================================================================
