------------------------------- MODULE TaskUrls -------------------------------
(***************************************************************************)
(* The URLs of a task and of a request: the one the agent opens by itself  *)
(* before its first step, and the long ones that are shortened for the     *)
(* model and put back into what the model answers.                         *)
(*                                                                         *)
(* A URL of a request is what precedes its first "?" or "#", what follows, *)
(* and the mark of a shortened one.  A mention in a task is a URL as it is *)
(* written there and what the two patterns that look for it are told by.   *)
(***************************************************************************)
EXTENDS Naturals, Sequences, SequencesExt, Orders

CONSTANTS
  Digest(_),     \* the first digits of the MD5 of what follows the "?"
  MarkLength,    \* the three dots and the seven digits
  NoShortening   \* url_shortening_limit: None

ASSUME TaskUrlsAssumption == MarkLength \in Nat

-----------------------------------------------------------------------------
\* shorten_url: <<>> where nothing is gained.
ShortenUrl(url, limit) ==
  IF Len(url.after) <= limit \/ limit + MarkLength >= Len(url.after) THEN <<>>
  ELSE <<[base |-> url.base, after |-> SubSeq(url.after, 1, limit), mark |-> <<Digest(url.after)>>]>>

\* shorten_urls_in_text.
ShortenText(text, limit) ==
  [i \in DOMAIN text |->
     LET short == ShortenUrl(text[i], limit) IN IF short = <<>> THEN text[i] ELSE short[1]]

\* request_with_shortened_urls: the texts of the user and of the assistant, and
\* the replacements; a later URL with the same short form takes the place of an
\* earlier one.
Rewrites(message, limit) ==
  limit # NoShortening /\ limit # 0 /\ message.role \in {"user", "assistant"}
ShortenedRequest(messages, limit) ==
  [i \in DOMAIN messages |->
     IF Rewrites(messages[i], limit)
     THEN [messages[i] EXCEPT !.text = ShortenText(@, limit)] ELSE messages[i]]
Replacements(messages, limit) ==
  LET rewritten == {i \in DOMAIN messages : Rewrites(messages[i], limit)}
      url(p) == messages[p[1]].text[p[2]]
      short(p) == ShortenUrl(url(p), limit)
      shortened == {p \in Spots([i \in rewritten |-> messages[i].text]) : short(p) # <<>>}
      last == {p \in shortened : \A q \in shortened : Before(p, q) => short(q) # short(p)}
  IN  [form \in {short(p)[1] : p \in shortened} |-> url(CHOOSE p \in last : short(p)[1] = form)]

\* restore_shortened_urls_in_agent_output: every text of the answer.
RestoreText(text, replacements) ==
  [i \in DOMAIN text |-> IF text[i] \in DOMAIN replacements THEN replacements[text[i]] ELSE text[i]]

-----------------------------------------------------------------------------
\* What the model repeats of a request comes back as the URLs the request had,
\* whichever of its messages they were in, unless two different URLs of it are
\* shortened to one; and what is shortened gets shorter.
ShorteningIsUndone(messages, limit) ==
  LET sent == ShortenedRequest(messages, limit)
      all == UNION {ToSet(messages[i].text) : i \in DOMAIN messages}
      clash == \E u, v \in all : /\ u # v
                                 /\ ShortenUrl(u, limit) # <<>>
                                 /\ ShortenUrl(u, limit) = ShortenUrl(v, limit)
  IN  limit # NoShortening /\ ~clash =>
        \A i \in DOMAIN messages :
          /\ RestoreText(sent[i].text, Replacements(messages, limit)) = messages[i].text
          /\ \A j \in DOMAIN sent[i].text :
               LET length(u) == Len(u.after) + (IF u.mark = <<>> THEN 0 ELSE MarkLength)
               IN  sent[i].text[j] # messages[i].text[j] =>
                     length(sent[i].text[j]) < length(messages[i].text[j])

-----------------------------------------------------------------------------
\* A mention in a task: its scheme or "", its host and whether that has a dot;
\* what follows, "" or a path or what begins with a port or a "?"; where an
\* excluded file extension stands in it; and how many characters before it the
\* nearest "never", "dont", "not" or "don't" begins.
Mentions(hosts, distances) ==
  {m \in [scheme : {"", "http", "https"}, host : hosts, dotted : BOOLEAN,
          rest : {"", "path", "port", "query"}, extension : {"no", "host", "rest"},
          negation : distances] :
     /\ m.scheme = "" => m.dotted
     /\ m.rest = "" => m.extension # "rest"}

ContextLength == 20
SchemeLength(scheme) == CASE scheme = "https" -> 8 [] scheme = "http" -> 7 [] OTHER -> 0
Found(scheme, host, rest) == [scheme |-> scheme, host |-> host, rest |-> rest]

\* The pattern that wants "http://" or "https://".
FullMatch(m) ==
  IF m.scheme # "" /\ m.extension = "no" /\ m.negation > ContextLength
  THEN {Found(m.scheme, m.host, m.rest)} ELSE {}

\* The pattern that wants a dot, from the host on; it stops at a port and at a
\* query without a path, and what it finds is taken for https.
DomainMatch(m) ==
  LET rest == IF m.rest = "path" THEN "path" ELSE ""
  IN  IF /\ m.dotted
         /\ m.extension # "host" /\ ~(m.extension = "rest" /\ rest # "")
         /\ m.negation + SchemeLength(m.scheme) > ContextLength
      THEN {Found("https", m.host, rest)} ELSE {}

\* extract_start_url_from_task: the one URL found, <<>> if there is none or more.
StartUrl(task) ==
  LET found == UNION {FullMatch(m) \cup DomainMatch(m) : m \in ToSet(task)}
  IN  IF \E f \in found : found = {f} THEN <<CHOOSE f \in found : TRUE>> ELSE <<>>

\* settings_with_direct_start_url.
InitialActions(task, directlyOpen, actions) ==
  IF directlyOpen /\ actions = <<>> /\ StartUrl(task) # <<>>
  THEN <<[navigate |-> StartUrl(task)[1]]>> ELSE actions

-----------------------------------------------------------------------------
\* A mention the patterns agree on: https or no scheme, with a path or nothing
\* after the host, and no negation that only one of them sees.
Agreed(m) ==
  /\ m.scheme # "http" /\ m.rest \in {"", "path"} /\ m.dotted
  /\ m.negation <= ContextLength => m.negation + SchemeLength(m.scheme) <= ContextLength

\* Of a task whose mentions the patterns agree on, the agent opens the URL that
\* is mentioned without an excluded extension and without a negation before it,
\* if there is exactly one, and it opens nothing in place of the user's actions.
OpensTheOneUrl(task) ==
  LET wanted == {Found("https", m.host, m.rest) :
                   m \in {n \in ToSet(task) : n.extension = "no" /\ n.negation > ContextLength}}
  IN  (\A m \in ToSet(task) : Agreed(m)) =>
        /\ \A f \in wanted : wanted = {f} => InitialActions(task, TRUE, <<>>) = <<[navigate |-> f]>>
        /\ (\A f \in wanted : wanted # {f}) => InitialActions(task, TRUE, <<>>) = <<>>
        /\ InitialActions(task, FALSE, <<>>) = <<>>
        /\ InitialActions(task, TRUE, <<"click">>) = <<"click">>

\* What a single mention outside of these may do.  A host with a dot is found
\* twice, as two URLs, with http, a port or a bare query: nothing is opened.  A
\* negation that only the full pattern sees, or an excluded file behind a port
\* or a bare query, leaves the domain pattern's URL to be opened.
Misread(m) ==
  /\ m.dotted /\ m.extension = "no" /\ m.negation > ContextLength
     /\ m.scheme # "" /\ (m.scheme = "http" \/ m.rest \in {"port", "query"})
     => StartUrl(<<m>>) = <<>>
  /\ m.dotted /\ m.extension = "no" /\ m.scheme # "" /\ m.negation <= ContextLength
     /\ m.negation + SchemeLength(m.scheme) > ContextLength
     => StartUrl(<<m>>) = <<Found("https", m.host, IF m.rest = "path" THEN "path" ELSE "")>>
  /\ m.dotted /\ m.extension = "rest" /\ m.rest \in {"port", "query"}
     /\ m.negation > ContextLength
     => StartUrl(<<m>>) = <<Found("https", m.host, "")>>
=============================================================================
