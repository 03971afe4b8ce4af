------------------------------ MODULE MCParts -------------------------------
(***************************************************************************)
(* Instances for TLC of the parts that keep state of their own: the        *)
(* watchdog and recorders of a session, the captured elements, replay, the *)
(* agent's files and the daemon's sessions.  They share no variable, so    *)
(* one of them takes all the steps of a behaviour.                         *)
(***************************************************************************)
EXTENDS LifecycleWatchdog, PdfDownloads, HarRecorder, VideoRecorder, StorageState,
        KeyInput, ElementIndex, ActionReplay, ManagedFiles, DaemonSessions, Artifacts, ActionExecutor,
        TaskUrls, LaunchPlan

VARIABLE part  \* the part that takes the steps

\* HarRecorder: "a" is the document, at two origins in turn; "b" is the icon of
\* its first page, redirected to plain http.
MCIsHttps(r, hop) == ~(r = "b" /\ hop = 2)
MCOriginOf(r, hop) == IF r = "b" /\ hop = 1 THEN 1 ELSE hop
MCIsFavicon(r, hop) == r = "b" /\ hop = 1
MCIsDocument(r) == r = "a"

\* PdfDownloads: two documents that ask for one name.
MCFileNameOf(u) == "n"

MCKeyTexts == {<<"ctrl", "a">>, <<"ctrl", "shift", "enter">>, <<"enter">>, <<"hello">>}

\* ElementIndex: an element kept out of the capture comes first, and one of the
\* frame goes.
CONSTANTS button, link, field, banner
MCElements == {button, link, field, banner}
MCPages ==
  LET shows(page, frame) == [t \in {Page, Frame} |-> IF t = Page THEN page ELSE frame]
  IN  {shows(<<button>>, <<link, field>>), shows(<<banner, button>>, <<link>>)}
MCAxSuppressed == {banner}

\* ActionReplay: elements with and without an attribute to tell them by, two
\* fields of one name, two buttons alike.
RpLook(tag, id, name, ax) == [tag |-> tag, id |-> id, name |-> name, ax |-> ax, class |-> "btn"]
MCLooks ==
  [save |-> RpLook("button", "", "", "Save"), ad |-> RpLook("button", "", "", "Ad"),
   mail |-> RpLook("input", "m", "mail", ""), other |-> RpLook("input", "o", "mail", ""),
   twin1 |-> RpLook("button", "", "del", "Delete"), twin2 |-> RpLook("button", "", "del", "Delete")]
MCOriginals == {<<"save", "mail">>, <<"twin1", "twin2">>}
MCHistories ==
  LET click(i) == [kind |-> "click", index |-> i]
      other(kind) == [kind |-> kind, index |-> 0]
  IN  {<<click(1), click(2)>>, <<click(2), other("done")>>, <<other("wait"), click(1)>>,
       <<other("done")>>, <<other("navigate"), click(1)>>}

-----------------------------------------------------------------------------
\* ActionExecutor: every kind of action alone, with the parameters that matter,
\* and some of them before others.
MCActions ==
  {XeAction(kind, {}) : kind \in DOMAIN OneCall}
  \cup {XeAction("click", with) : with \in {{}, {"index"}, {"index", "zero"}, {"coordinates"}}}
  \cup {XeAction("screenshot", with) : with \in {{}, {"name"}}}
  \cup {XeAction("extract", with) : with \in SUBSET {"links", "images"}}
  \cup {XeAction("search_page", with) : with \in {{}, {"scope"}}}
  \cup {XeAction("save_as_pdf", with) : with \in {{}, {"name"}}}
  \cup {XeAction("upload_file", {"available"})}
MCAnswers ==
  LET first == {XeAction("click", {"index"}), XeAction("send_keys", {}), XeAction("extract", {"links"})}
      then == {XeAction("click", {"coordinates"}), XeAction("done", {}), XeAction("save_as_pdf", {})}
  IN  {<<a>> : a \in MCActions} \cup {<<a, b>> : a \in first, b \in then}
      \cup {<<a, b, b>> : a \in first, b \in then}

\* TaskUrls: what follows the "?" is told by its first letter and its length; a
\* mark is shorter than what it stands for by one letter.
MCDigest(after) == <<after[1], Len(after)>>
MCAfters == {<<>>, <<"a", "a", "a">>, <<"a", "a", "b">>, <<"b", "a", "a">>, <<"b", "b", "a", "a">>}
MCUrls == [base : {"x", "y"}, after : MCAfters, mark : {<<>>}]
MCRequests ==
  [1..2 -> {[role |-> role, text |-> text] :
              role \in {"system", "user"}, text \in BoundedSeq(MCUrls, 1)}]

\* A request's short forms are undone, at every limit.
ASSUME ShorteningHolds ==
  \A messages \in MCRequests, limit \in {0, 1, 2} : ShorteningIsUndone(messages, limit)

\* The start URL of tasks of up to two mentions, with the negation out of sight,
\* in sight of both patterns, or of the full one only.
MCMentions(hosts) == Mentions(hosts, {8, 15, 30})
ASSUME StartUrlHolds ==
  /\ OpensTheOneUrl(<<>>)
  /\ \A m \in MCMentions({"x"}) : Misread(m)
  /\ \A m \in {m \in MCMentions({"x"}) : Agreed(m)}, n \in {n \in MCMentions({"x", "y"}) : Agreed(n)} :
        OpensTheOneUrl(<<m>>) /\ OpensTheOneUrl(<<m, n>>)

\* LaunchPlan: a few of the arguments of each table.
MCDefaultArgs == <<Bare("--no-first-run"), Arg("--enable-features", <<"N">>), Bare("--disable-dev-shm-usage")>>
MCDockerArgs == <<Bare("--no-sandbox"), Bare("--disable-dev-shm-usage")>>
MCSecurityArgs == <<Arg("--disable-features", <<"Isolate", "perProcess">>)>>
MCDeterministicArgs == <<Arg("--js-flags", <<"seed">>)>>
MCUserArgs ==
  {Bare("--disable-features"), Arg("--disable-features", <<"Isolate", "", "T">>),
   Arg("--disable-features", <<"">>), Arg("--window-size", <<"1,1">>), Bare("--no-first-run")}
MCProfiles ==
  {[ignore_default_args |-> ignored, remote_debugging_port |-> "0", window_size |-> "2,2",
    window_position |-> "", headless |-> flags[1], devtools |-> flags[2], no_viewport |-> flags[3],
    user_data_dir |-> "dir", profile_directory |-> "Default", chromium_sandbox |-> flags[4],
    disable_security |-> flags[5], deterministic_rendering |-> flags[5],
    proxy |-> "", proxy_bypass |-> "b", user_agent |-> "ua", args |-> args] :
     ignored \in {[kind |-> "all"], [kind |-> "none"], [kind |-> "list", args |-> {Bare("--no-first-run")}]},
     flags \in [1..5 -> BOOLEAN], args \in BoundedSeq(MCUserArgs, 2)}

\* The command line of a profile is normal, or there is none: headless goes with
\* neither devtools nor the lack of a viewport.
ASSUME LaunchHolds ==
  \A profile \in MCProfiles :
    IF profile.headless /\ (profile.devtools \/ profile.no_viewport) THEN LaunchPlanOf(profile) = <<>>
    ELSE ArgsAreNormal(BuildArgs(profile)) /\ LaunchPlanOf(profile)[1] = NormalizeArgs(BuildArgs(profile))

\* Every kind of channel, with some of the executables there.
ASSUME ExecutableHolds ==
  \A explicit \in {<<>>, <<"mine">>}, env \in {<<>>, <<"env">>, <<"chromium">>},
     channel \in {"none", "chromium", "chrome", "chrome-beta", "msedge"},
     there \in SUBSET {"mine", "env", "chromium", "google-chrome", "google-chrome-stable", "microsoft-edge"} :
       ResolvesWithinChannel(explicit, env, channel, there)
ASSUME PortFileHolds ==
  \A lines \in BoundedSeq({"", "9222", "/path"}, 3) : PortFileAgrees("localhost", lines)

-----------------------------------------------------------------------------
Parts == {"watchdog", "downloads", "har", "video", "storage",
          "keys", "elements", "replay", "files", "daemon", "artifacts", "executor"}
partsVars == <<lwVars, dlVars, hrVars, vrVars, stVars, kiVars, eiVars, rpVars, mfVars, dsVars, arVars, xeVars>>

PartsInit ==
    /\ part \in Parts
    /\ LwInit /\ DlInit /\ VrInit /\ StInit /\ KiInit /\ MfInit /\ DsInit /\ ArInit
    /\ XeInit /\ (part # "executor" => xePage = 1 /\ xeMode = "agent")
    /\ HrInit /\ (part # "har" => hrConfig = [content |-> "omit", mode |-> "full"])
    /\ EiInit /\ (part # "elements" => eiPage = CHOOSE page \in Pages : TRUE)
    /\ RpInit /\ (part # "replay" =>
                    LET page == CHOOSE o \in Originals : TRUE
                    IN  /\ rpPage = [n \in DOMAIN page |-> Shown(page[n])]
                        /\ rpLeft = Historical(CHOOSE h \in Histories : TRUE, rpPage))

PartsNext ==
    \/ /\ part = "watchdog" /\ LwNext
       /\ UNCHANGED <<part, dlVars, hrVars, vrVars, stVars, kiVars, eiVars, rpVars, mfVars, dsVars, arVars, xeVars>>
    \/ /\ part = "downloads" /\ DlNext
       /\ UNCHANGED <<part, lwVars, hrVars, vrVars, stVars, kiVars, eiVars, rpVars, mfVars, dsVars, arVars, xeVars>>
    \/ /\ part = "har" /\ HrNext
       /\ UNCHANGED <<part, lwVars, dlVars, vrVars, stVars, kiVars, eiVars, rpVars, mfVars, dsVars, arVars, xeVars>>
    \/ /\ part = "video" /\ VrNext
       /\ UNCHANGED <<part, lwVars, dlVars, hrVars, stVars, kiVars, eiVars, rpVars, mfVars, dsVars, arVars, xeVars>>
    \/ /\ part = "storage" /\ StNext
       /\ UNCHANGED <<part, lwVars, dlVars, hrVars, vrVars, kiVars, eiVars, rpVars, mfVars, dsVars, arVars, xeVars>>
    \/ /\ part = "keys" /\ KiNext
       /\ UNCHANGED <<part, lwVars, dlVars, hrVars, vrVars, stVars, eiVars, rpVars, mfVars, dsVars, arVars, xeVars>>
    \/ /\ part = "elements" /\ EiNext
       /\ UNCHANGED <<part, lwVars, dlVars, hrVars, vrVars, stVars, kiVars, rpVars, mfVars, dsVars, arVars, xeVars>>
    \/ /\ part = "replay" /\ RpNext
       /\ UNCHANGED <<part, lwVars, dlVars, hrVars, vrVars, stVars, kiVars, eiVars, mfVars, dsVars, arVars, xeVars>>
    \/ /\ part = "files" /\ MfNext
       /\ UNCHANGED <<part, lwVars, dlVars, hrVars, vrVars, stVars, kiVars, eiVars, rpVars, dsVars, arVars, xeVars>>
    \/ /\ part = "daemon" /\ DsNext
       /\ UNCHANGED <<part, lwVars, dlVars, hrVars, vrVars, stVars, kiVars, eiVars, rpVars, mfVars, arVars, xeVars>>
    \/ /\ part = "artifacts" /\ ArNext
       /\ UNCHANGED <<part, lwVars, dlVars, hrVars, vrVars, stVars, kiVars, eiVars, rpVars, mfVars, dsVars, xeVars>>
    \/ /\ part = "executor" /\ XeNext
       /\ UNCHANGED <<part, lwVars, dlVars, hrVars, vrVars, stVars, kiVars, eiVars, rpVars, mfVars, dsVars, arVars>>

PartsSpec == PartsInit /\ [][PartsNext]_<<part, partsVars>>

\* The types of all parts' variables.
PartsTypeOK ==
    /\ LwTypeOK /\ DlTypeOK /\ HrTypeOK /\ VrTypeOK /\ StTypeOK
    /\ KiTypeOK /\ EiTypeOK /\ RpTypeOK /\ MfTypeOK /\ DsTypeOK /\ ArTypeOK /\ XeTypeOK
=============================================================================
