------------------------------ MODULE LaunchPlan ------------------------------
(***************************************************************************)
(* How a browser is found and started: the executable that is chosen, the  *)
(* arguments of its command line from the profile and how they are made    *)
(* unique, and the endpoints a CDP URL or the browser's port file stand    *)
(* for.  An argument is a switch and its values: none for a bare switch,   *)
(* the listed features for --disable-features.                             *)
(***************************************************************************)
EXTENDS Naturals, Sequences, SequencesExt, FiniteSets, FiniteSetsExt, Orders

Arg(switch, values) == [switch |-> switch, values |-> values]
Bare(switch) == Arg(switch, <<>>)

-----------------------------------------------------------------------------
CONSTANTS
  DefaultArgs,        \* CHROME_DEFAULT_ARGS
  DockerArgs,         \* CHROME_DOCKER_ARGS
  DisableSecurityArgs,
  DeterministicArgs   \* CHROME_DETERMINISTIC_RENDERING_ARGS

\* default_chrome_args: all, none, or all but the listed ones.
DefaultChromeArgs(ignored) ==
  CASE ignored.kind = "all" -> <<>>
    [] ignored.kind = "none" -> DefaultArgs
    [] ignored.kind = "list" -> SelectSeq(DefaultArgs, LAMBDA arg : arg \notin ignored.args)

When(condition, args) == IF condition THEN args ELSE <<>>

\* build_launch_plan, before it is normalised: what comes later wins.
BuildArgs(profile) ==
  LET given(switch, value) == When(value # "", <<Arg(switch, <<value>>)>>)
  IN  DefaultChromeArgs(profile.ignore_default_args)
      \o given("--remote-debugging-port", profile.remote_debugging_port)
      \o given("--window-size", profile.window_size)
      \o given("--window-position", profile.window_position)
      \o When(profile.headless, <<Arg("--headless", <<"new">>)>>)
      \o When(profile.devtools, <<Bare("--auto-open-devtools-for-tabs")>>)
      \o given("--user-data-dir", profile.user_data_dir)
      \o When(profile.user_data_dir # "", given("--profile-directory", profile.profile_directory))
      \o When(~profile.chromium_sandbox, DockerArgs)
      \o When(profile.disable_security, DisableSecurityArgs)
      \o When(profile.deterministic_rendering, DeterministicArgs)
      \o given("--proxy-server", profile.proxy)
      \o When(profile.proxy # "", given("--proxy-bypass-list", profile.proxy_bypass))
      \o given("--user-agent", profile.user_agent)
      \o profile.args

\* try_launch_plan refuses a headless browser with devtools or no viewport.
ValidProfile(profile) == ~(profile.headless /\ (profile.devtools \/ profile.no_viewport))

-----------------------------------------------------------------------------
\* merge_disable_features_args: the features of all --disable-features=... in
\* the place of the last, each where it is named first; a bare one stays.
DisablesFeatures(arg) == arg.switch = "--disable-features" /\ arg.values # <<>>

\* merged_disable_features_value: what the lists name, once each and in order.
FirstMentions(lists) ==
  LET named == {p \in Spots(lists) : lists[p[1]][p[2]] # ""}
      first == {p \in named : \A q \in named : Before(q, p) => lists[q[1]][q[2]] # lists[p[1]][p[2]]}
      at(n) == CHOOSE p \in first : SpotPlace(first, p) = n
  IN  [n \in 1..Cardinality(first) |-> lists[at(n)[1]][at(n)[2]]]

MergeDisableFeatures(args) ==
  LET places == {i \in DOMAIN args : DisablesFeatures(args[i])}
      features == FirstMentions([i \in places |-> args[i].values])
      kept == {i \in DOMAIN args : i \in places => features # <<>> /\ i = Max(places)}
  IN  InOrder([i \in kept |-> IF i \in places THEN Arg("--disable-features", features) ELSE args[i]])

\* dedupe_launch_args_by_switch: of every switch the last, in order.
DedupeBySwitch(args) ==
  LET last == {i \in DOMAIN args : \A j \in (i+1)..Len(args) : args[j].switch # args[i].switch}
  IN  InOrder([i \in last |-> args[i]])

NormalizeArgs(args) == DedupeBySwitch(MergeDisableFeatures(args))
LaunchPlanOf(profile) ==
  IF ValidProfile(profile) THEN <<NormalizeArgs(BuildArgs(profile))>> ELSE <<>>

-----------------------------------------------------------------------------
\* Whatever a profile combines, a switch is on the command line once, and with
\* the value that was given last; a feature somebody disables stays disabled,
\* whoever else disables others, unless a bare --disable-features comes after;
\* and normalising again changes nothing.
ArgsAreNormal(args) ==
  LET normal == NormalizeArgs(args)
      switches(list) == {list[i].switch : i \in DOMAIN list}
      last(switch) == args[Max({i \in DOMAIN args : args[i].switch = switch})]
      disabled == (UNION {ToSet(args[i].values) : i \in {i \in DOMAIN args : DisablesFeatures(args[i])}})
                    \ {""}
      one(switch) == normal[CHOOSE i \in DOMAIN normal : normal[i].switch = switch]
  IN  /\ Len(normal) = Cardinality(switches(normal))
      /\ switches(normal) \subseteq switches(args)
      /\ \A s \in switches(args) \ {"--disable-features"} : s \in switches(normal) /\ one(s) = last(s)
      /\ disabled # {} /\ last("--disable-features").values # <<>> =>
           "--disable-features" \in switches(normal) /\ ToSet(one("--disable-features").values) = disabled
      /\ NormalizeArgs(normal) = normal

-----------------------------------------------------------------------------
\* resolve_chrome_executable: the first of the explicit path, the one of the
\* environment and the channel's candidates that is there; or all it looked at.
ResolveExecutable(explicit, env, candidates, there) ==
  LET checked == explicit \o env \o candidates
      found == {i \in DOMAIN checked : checked[i] \in there}
  IN  IF found = {} THEN [ok |-> FALSE, paths |-> checked]
      ELSE [ok |-> TRUE, paths |-> <<checked[Min(found)]>>]

\* default_chrome_candidates and browser_channel_candidates, on Linux.
DefaultCandidates == <<"google-chrome", "google-chrome-stable", "chromium", "chromium-browser">>
ChannelCandidates(channel) ==
  CASE channel = "chromium" -> <<"chromium", "chromium-browser">>
    [] channel = "chrome" -> <<"google-chrome", "google-chrome-stable">>
    [] channel = "chrome-beta" -> <<"google-chrome-beta">>
    [] channel = "chrome-dev" -> <<"google-chrome-unstable">>
    [] channel = "chrome-canary" -> <<"google-chrome-canary">>
    [] channel = "msedge" -> <<"microsoft-edge", "microsoft-edge-stable">>
    [] channel = "msedge-beta" -> <<"microsoft-edge-beta">>
    [] channel = "msedge-dev" -> <<"microsoft-edge-dev">>
    [] channel = "msedge-canary" -> <<"microsoft-edge-canary">>
    [] channel = "none" -> DefaultCandidates

\* The explicit path is taken if it is there, then BROWSER_USE_CHROME, whatever
\* the channel; only when neither is there one of the channel asked for, never
\* of another; and none is reported only when none of all these is there.
ResolvesWithinChannel(explicit, env, channel, there) ==
  LET result == ResolveExecutable(explicit, env, ChannelCandidates(channel), there)
      taken == result.paths[1]
      isThere(paths) == ToSet(paths) \cap there # {}
  IN  /\ isThere(explicit) => result.ok /\ result.paths = explicit
      /\ ~isThere(explicit) /\ isThere(env) => result.ok /\ result.paths = env
      /\ result.ok /\ ~isThere(explicit) /\ ~isThere(env) =>
           taken \in ToSet(ChannelCandidates(channel)) \cap there
      /\ result.ok <=> isThere(explicit) \/ isThere(env) \/ isThere(ChannelCandidates(channel))

-----------------------------------------------------------------------------
\* from_cdp_url: "ws" and "wss" only; path, query and fragment are dropped.
EndpointOfCdpUrl(url) ==
  IF url.scheme \notin {"ws", "wss"} THEN <<>>
  ELSE <<[http |-> [scheme |-> IF url.scheme = "wss" THEN "https" ELSE "http",
                    authority |-> url.authority, path |-> ""],
          websocket |-> url]>>

\* from_active_port_file: the lines of a file that may still be in writing.
EndpointOfPortFile(host, lines) ==
  IF Len(lines) < 2 THEN <<>>
  ELSE IF lines[1] = "" \/ lines[2] = "" THEN <<>>
  ELSE LET authority == <<host, lines[1]>>
       IN  <<[http |-> [scheme |-> "http", authority |-> authority, path |-> ""],
              websocket |-> [scheme |-> "ws", authority |-> authority, path |-> lines[2]]]>>

\* A port file without its second line, as it may be read while the browser
\* writes it, gives no endpoint; the endpoint of a whole one is that of its
\* websocket URL.
PortFileAgrees(host, lines) ==
  LET endpoint == EndpointOfPortFile(host, lines)
  IN  /\ Len(lines) < 2 => endpoint = <<>>
      /\ endpoint # <<>> => endpoint = EndpointOfCdpUrl(endpoint[1].websocket)
=============================================================================
