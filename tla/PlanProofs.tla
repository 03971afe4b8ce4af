------------------------------ MODULE PlanProofs ------------------------------
(***************************************************************************)
(* What the pure functions compute, for every input: the URL a task opens  *)
(* and the URLs that are shortened and restored, the command line, the     *)
(* executable and the endpoints of a browser, and the policy's verdicts.   *)
(***************************************************************************)
EXTENDS TaskUrls, LaunchPlan, UrlPolicy, ActionPartsProofs

-----------------------------------------------------------------------------
(***************************************************************************)
(* The URL a task opens.                                                   *)
(***************************************************************************)

\* Where the patterns agree on a mention, they find it as it is written, or
\* neither finds it.
LEMMA AgreedIsFound ==
  ASSUME NEW hosts, NEW distances \in SUBSET Nat, NEW m \in Mentions(hosts, distances), Agreed(m)
  PROVE  FullMatch(m) \cup DomainMatch(m)
           = IF m.extension = "no" /\ m.negation > ContextLength
             THEN {Found("https", m.host, m.rest)} ELSE {}
<1>1. /\ m.scheme \in {"", "http", "https"} /\ m.rest \in {"", "path", "port", "query"}
      /\ m.extension \in {"no", "host", "rest"} /\ m.negation \in Nat
      /\ m.rest = "" => m.extension # "rest"
  BY DEF Mentions
<1>2. /\ m.scheme \in {"", "https"} /\ m.rest \in {"", "path"} /\ m.dotted
      /\ m.negation <= ContextLength => m.negation + SchemeLength(m.scheme) <= ContextLength
  BY <1>1 DEF Agreed
<1>3. SchemeLength(m.scheme) \in Nat /\ ContextLength \in Nat
  BY <1>2 DEF SchemeLength, ContextLength
<1>4. m.negation + SchemeLength(m.scheme) > ContextLength <=> m.negation > ContextLength
  <2> DEFINE before == m.negation
             scheme == SchemeLength(m.scheme)
  <2>1. before \in Nat /\ scheme \in Nat /\ ContextLength \in Nat
    BY <1>1, <1>3
  <2>2. before <= ContextLength => before + scheme <= ContextLength
    BY <1>2
  <2> HIDE DEF before, scheme
  <2>3. before + scheme > ContextLength <=> before > ContextLength
    BY <2>1, <2>2
  <2> QED  BY <2>3 DEF before, scheme
<1>5. m.extension # "host" /\ ~(m.extension = "rest" /\ m.rest # "") <=> m.extension = "no"
  BY <1>1
<1>6. (IF m.rest = "path" THEN "path" ELSE "") = m.rest
  BY <1>2
<1>7. DomainMatch(m) = IF m.extension = "no" /\ m.negation > ContextLength
                       THEN {Found("https", m.host, m.rest)} ELSE {}
  <2>1. (/\ m.dotted
         /\ m.extension # "host" /\ ~(m.extension = "rest" /\ m.rest # "")
         /\ m.negation + SchemeLength(m.scheme) > ContextLength)
          <=> m.extension = "no" /\ m.negation > ContextLength
    BY <1>2, <1>4, <1>5
  <2> QED  BY <1>6, <2>1, Zenon DEF DomainMatch
<1>8. FullMatch(m) \subseteq DomainMatch(m)
  <2>1. CASE m.scheme = ""  BY <2>1 DEF FullMatch
  <2>2. CASE m.scheme = "https"  BY <2>2, <1>7 DEF FullMatch
  <2> QED  BY <1>2, <2>1, <2>2
<1> QED  BY <1>7, <1>8

\* A task opens what is found in it, if that is one URL.
LEMMA OneIsOpened ==
  ASSUME NEW task, NEW found, found = UNION {FullMatch(m) \cup DomainMatch(m) : m \in ToSet(task)}
  PROVE  /\ \A f : found = {f} => StartUrl(task) = <<f>>
         /\ (\A f : found # {f}) => StartUrl(task) = <<>>
<1> DEFINE all == UNION {FullMatch(m) \cup DomainMatch(m) : m \in ToSet(task)}
<1>1. StartUrl(task) = IF \E f \in all : all = {f} THEN <<CHOOSE f \in all : TRUE>> ELSE <<>>
  BY DEF StartUrl
<1>2. all = found
  OBVIOUS
<1> HIDE DEF all
<1>3. ASSUME NEW f, found = {f}
      PROVE  StartUrl(task) = <<f>>
  <2>1. all = {f} /\ f \in all  BY <1>2, <1>3
  <2>2. (CHOOSE g \in all : TRUE) = f  BY <2>1
  <2> QED  BY <1>1, <2>1, <2>2
<1>4. ASSUME \A f : found # {f}
      PROVE  StartUrl(task) = <<>>
  BY <1>1, <1>2, <1>4
<1> QED  BY <1>3, <1>4

\* Where a negation stands before the host, it stands before the scheme as well.
LEMMA FurtherFromTheHost ==
  ASSUME NEW m, m.negation \in Nat, m.negation > ContextLength, SchemeLength(m.scheme) \in Nat
  PROVE  m.negation + SchemeLength(m.scheme) > ContextLength
<1> DEFINE before == m.negation
           scheme == SchemeLength(m.scheme)
<1>1. before \in Nat /\ scheme \in Nat /\ before > ContextLength
  OBVIOUS
<1>2. ContextLength \in Nat
  BY DEF ContextLength
<1> HIDE DEF before, scheme
<1>3. before + scheme > ContextLength
  BY <1>1, <1>2
<1> QED  BY <1>3 DEF before, scheme

\* Of any task whose mentions the patterns agree on, the agent opens by itself
\* the one URL that is mentioned without an excluded extension or a negation
\* before it, and none if there are more or fewer.
THEOREM TheOneUrlIsOpened ==
  ASSUME NEW hosts, NEW distances \in SUBSET Nat, NEW task \in Seq(Mentions(hosts, distances))
  PROVE  OpensTheOneUrl(task)
<1> DEFINE mentions == {n \in ToSet(task) : n.extension = "no" /\ n.negation > ContextLength}
           wanted == {Found("https", m.host, m.rest) : m \in mentions}
           found == UNION {FullMatch(m) \cup DomainMatch(m) : m \in ToSet(task)}
<1> SUFFICES ASSUME \A m \in ToSet(task) : Agreed(m)
             PROVE  /\ \A f \in wanted : wanted = {f} =>
                          InitialActions(task, TRUE, <<>>) = <<[navigate |-> f]>>
                    /\ (\A f \in wanted : wanted # {f}) => InitialActions(task, TRUE, <<>>) = <<>>
                    /\ InitialActions(task, FALSE, <<>>) = <<>>
                    /\ InitialActions(task, TRUE, <<"click">>) = <<"click">>
  BY DEF OpensTheOneUrl
<1>1. \A m \in ToSet(task) : m \in Mentions(hosts, distances)
  BY DEF ToSet
<1>2. \A m \in ToSet(task) : FullMatch(m) \cup DomainMatch(m)
        = IF m \in mentions THEN {Found("https", m.host, m.rest)} ELSE {}
  BY <1>1, AgreedIsFound
<1>3. found = wanted
  <2> HIDE DEF mentions
  <2>1. \A m \in mentions : m \in ToSet(task)
    BY DEF mentions
  <2> QED  BY <1>2, <2>1
<1>4. /\ \A f : wanted = {f} => StartUrl(task) = <<f>>
      /\ (\A f : wanted # {f}) => StartUrl(task) = <<>>
  BY <1>3, OneIsOpened
<1> HIDE DEF wanted, found
<1>5. ASSUME NEW f \in wanted, wanted = {f}
      PROVE  InitialActions(task, TRUE, <<>>) = <<[navigate |-> f]>>
  <2>1. StartUrl(task) = <<f>>  BY <1>4, <1>5
  <2>2. StartUrl(task) # <<>> /\ StartUrl(task)[1] = f  BY <2>1
  <2> QED  BY <2>2 DEF InitialActions
<1>6. ASSUME \A f \in wanted : wanted # {f}
      PROVE  InitialActions(task, TRUE, <<>>) = <<>>
  <2>1. StartUrl(task) = <<>>  BY <1>4, <1>6
  <2> QED  BY <2>1 DEF InitialActions
<1>7. InitialActions(task, FALSE, <<>>) = <<>>  BY DEF InitialActions
<1>8. InitialActions(task, TRUE, <<"click">>) = <<"click">>
  <2>1. <<"click">> # <<>>  OBVIOUS
  <2> QED  BY <2>1 DEF InitialActions
<1> QED  BY <1>5, <1>6, <1>7, <1>8

\* What the two patterns make of any single mention they do not agree on.
THEOREM DisagreementsAreMisread ==
  ASSUME NEW hosts, NEW distances \in SUBSET Nat, NEW m \in Mentions(hosts, distances)
  PROVE  Misread(m)
<1> DEFINE found == FullMatch(m) \cup DomainMatch(m)
           domain == IF m.rest = "path" THEN "path" ELSE ""
<1>1. /\ m.scheme \in {"", "http", "https"} /\ m.rest \in {"", "path", "port", "query"}
      /\ m.extension \in {"no", "host", "rest"} /\ m.negation \in Nat
      /\ m.rest = "" => m.extension # "rest"
  BY DEF Mentions
<1>2. SchemeLength(m.scheme) \in Nat /\ ContextLength \in Nat
  BY <1>1 DEF SchemeLength, ContextLength
<1>3. /\ \A f : found = {f} => StartUrl(<<m>>) = <<f>>
      /\ (\A f : found # {f}) => StartUrl(<<m>>) = <<>>
  <2>1. ToSet(<<m>>) = {m}
    BY DEF ToSet
  <2>2. found = UNION {FullMatch(n) \cup DomainMatch(n) : n \in ToSet(<<m>>)}
    BY <2>1, Zenon
  <2> HIDE DEF found
  <2> QED  BY <2>2, OneIsOpened
<1>4. ASSUME m.dotted, m.extension = "no", m.negation > ContextLength, m.scheme # "",
             m.scheme = "http" \/ m.rest \in {"port", "query"}
      PROVE  StartUrl(<<m>>) = <<>>
  <2>1. FullMatch(m) = {Found(m.scheme, m.host, m.rest)}
    BY <1>4 DEF FullMatch
  <2>2. m.negation + SchemeLength(m.scheme) > ContextLength
    BY <1>1, <1>2, <1>4, FurtherFromTheHost
  <2>3. DomainMatch(m) = {Found("https", m.host, domain)}
    BY <1>4, <2>2 DEF DomainMatch
  <2>4. Found(m.scheme, m.host, m.rest) # Found("https", m.host, domain)
    BY <1>1, <1>4 DEF Found
  <2>5. \A f : found # {f}
    <3> HIDE DEF domain
    <3> QED  BY <2>1, <2>3, <2>4
  <2> QED  BY <1>3, <2>5
<1>5. ASSUME NEW rest, FullMatch(m) = {}, DomainMatch(m) = {Found("https", m.host, rest)}
      PROVE  StartUrl(<<m>>) = <<Found("https", m.host, rest)>>
  <2>1. found = {Found("https", m.host, rest)}
    BY <1>5
  <2> QED  BY <1>3, <2>1
<1>6. ASSUME m.dotted, m.extension = "no", m.scheme # "", m.negation <= ContextLength,
             m.negation + SchemeLength(m.scheme) > ContextLength
      PROVE  StartUrl(<<m>>) = <<Found("https", m.host, domain)>>
  <2>1. ~(m.negation > ContextLength)
    <3>1. m.negation \in Nat /\ m.negation <= ContextLength /\ ContextLength \in Nat
      BY <1>1, <1>2, <1>6
    <3> QED  BY <3>1
  <2>2. FullMatch(m) = {}
    BY <2>1 DEF FullMatch
  <2>3. DomainMatch(m) = {Found("https", m.host, domain)}
    BY <1>6 DEF DomainMatch
  <2> HIDE DEF domain
  <2> QED  BY <1>5, <2>2, <2>3
<1>7. ASSUME m.dotted, m.extension = "rest", m.rest \in {"port", "query"}, m.negation > ContextLength
      PROVE  StartUrl(<<m>>) = <<Found("https", m.host, "")>>
  <2>1. FullMatch(m) = {}
    BY <1>7 DEF FullMatch
  <2>2. m.negation + SchemeLength(m.scheme) > ContextLength
    BY <1>1, <1>2, <1>7, FurtherFromTheHost
  <2>3. DomainMatch(m) = {Found("https", m.host, "")}
    BY <1>7, <2>2 DEF DomainMatch
  <2> QED  BY <1>5, <2>1, <2>3
<1> QED  BY <1>4, <1>6, <1>7 DEF Misread

-----------------------------------------------------------------------------
(***************************************************************************)
(* Orders.                                                                 *)
(***************************************************************************)

\* A strict order of the elements of a set.
StrictlyOrders(R, S) ==
  /\ \A s \in S : <<s, s>> \notin R
  /\ \A s, t \in S : s = t \/ <<s, t>> \in R \/ <<t, s>> \in R
  /\ \A s, t, u \in S : <<s, t>> \in R /\ <<t, u>> \in R => <<s, u>> \in R

\* How many elements there are up to each.
Rank(R, S) == [s \in S |-> Cardinality({t \in S : t = s \/ <<t, s>> \in R})]

\* The elements of a finite set that is strictly ordered by R have ranks of
\* their own, from 1 to its size, and in that order.
LEMMA RanksAreTheirs ==
  ASSUME NEW S, IsFiniteSet(S), NEW R, StrictlyOrders(R, S)
  PROVE  /\ Cardinality(S) \in Nat
         /\ Rank(R, S) \in [S -> 1..Cardinality(S)]
         /\ \A s, t \in S : <<s, t>> \in R <=> Rank(R, S)[s] < Rank(R, S)[t]
         /\ \A s, t \in S : Rank(R, S)[s] = Rank(R, S)[t] => s = t
         /\ \A k \in 1..Cardinality(S) : \E s \in S : Rank(R, S)[s] = k
<1> DEFINE Upto(s) == {t \in S : t = s \/ <<t, s>> \in R}
           rank == Rank(R, S)
           size == Cardinality(S)
<1> rank = [s \in S |-> Cardinality(Upto(s))]
  BY DEF Rank
<1>1. size \in Nat
  BY FS_CardinalityType
<1>2. ASSUME NEW s \in S
      PROVE  rank[s] \in 1..size /\ IsFiniteSet(Upto(s))
  <2>1. Upto(s) \in SUBSET S /\ s \in Upto(s)
    OBVIOUS
  <2>2. IsFiniteSet(Upto(s)) /\ Cardinality(Upto(s)) <= size
    BY <2>1, FS_Subset
  <2>3. Cardinality(Upto(s)) \in Nat
    BY <2>2, FS_CardinalityType
  <2>4. Cardinality(Upto(s)) # 0
    BY <2>1, <2>2, FS_EmptySet
  <2> QED  BY <1>1, <2>2, <2>3, <2>4
<1>3. ASSUME NEW s \in S, NEW t \in S, <<s, t>> \in R
      PROVE  rank[s] < rank[t]
  <2>1. Upto(s) \in SUBSET Upto(t)
    <3>1. ASSUME NEW u \in Upto(s)
          PROVE  <<u, t>> \in R
      BY <1>3, Zenon DEF StrictlyOrders
    <3> QED  BY <3>1
  <2>2. t \in Upto(t) /\ t \notin Upto(s)
    <3>1. <<t, s>> \notin R
      BY <1>3, Zenon DEF StrictlyOrders
    <3>2. t # s
      BY <1>3 DEF StrictlyOrders
    <3> QED  BY <3>1, <3>2
  <2>3. Upto(s) # Upto(t)
    BY <2>2
  <2>4. Cardinality(Upto(s)) <= Cardinality(Upto(t)) /\ Cardinality(Upto(s)) # Cardinality(Upto(t))
    BY <1>2, <2>1, <2>3, FS_Subset
  <2>5. rank[s] \in Nat /\ rank[t] \in Nat
    BY <1>1, <1>2
  <2> QED  BY <2>4, <2>5
<1>4. \A s \in S : rank[s] \in Nat
  BY <1>1, <1>2
<1> HIDE DEF rank
<1>5. ASSUME NEW s \in S, NEW t \in S
      PROVE  /\ rank[s] = rank[t] => s = t
             /\ <<s, t>> \in R <=> rank[s] < rank[t]
  <2>1. s = t \/ <<s, t>> \in R \/ <<t, s>> \in R
    BY DEF StrictlyOrders
  <2>2. (<<s, t>> \in R => rank[s] < rank[t]) /\ (<<t, s>> \in R => rank[t] < rank[s])
    BY <1>3
  <2>3. rank[s] \in Nat /\ rank[t] \in Nat
    BY <1>4
  <2> QED  BY <2>1, <2>2, <2>3
<1>7. rank \in [S -> 1..size]
  BY <1>2 DEF rank
<1>8. \A k \in 1..size : \E s \in S : rank[s] = k
  <2>0. Cardinality(S) = size
    OBVIOUS
  <2> HIDE DEF size
  <2>1. rank \in Injection(S, 1..size)
    <3>1. \A s, t \in S : rank[s] = rank[t] => s = t
      BY <1>5
    <3>2. DOMAIN rank = S
      BY <1>7
    <3>3. IsInjective(rank)
      BY <3>1, <3>2, Zenon DEF IsInjective
    <3> QED  BY <1>7, <3>3 DEF Injection
  <2>2. IsFiniteSet(1..size) /\ Cardinality(1..size) = size
    <3>1. 1 \in Int /\ size \in Int
      BY <1>1
    <3>2. IsFiniteSet(1..size) /\ Cardinality(1..size) = IF 1 > size THEN 0 ELSE size - 1 + 1
      BY <3>1, FS_Interval
    <3>3. (IF 1 > size THEN 0 ELSE size - 1 + 1) = size
      BY <1>1
    <3> QED  BY <3>2, <3>3
  <2>3. rank \in Surjection(S, 1..size)
    BY <2>0, <2>1, <2>2, FS_Injection
  <2> QED  BY <2>3 DEF Surjection
<1> QED  BY <1>1, <1>5, <1>7, <1>8 DEF rank

\* The element before, and after, all others.
FirstOf(R, S) == CHOOSE s \in S : \A t \in S : t = s \/ <<s, t>> \in R
LastOf(R, S) == CHOOSE s \in S : \A t \in S : t = s \/ <<t, s>> \in R

\* Such a set has a first element and a last one, unless it is empty.
LEMMA OrderedSetsEnd ==
  ASSUME NEW S, IsFiniteSet(S), S # {}, NEW R, StrictlyOrders(R, S)
  PROVE  /\ FirstOf(R, S) \in S /\ \A t \in S : t = FirstOf(R, S) \/ <<FirstOf(R, S), t>> \in R
         /\ LastOf(R, S) \in S /\ \A t \in S : t = LastOf(R, S) \/ <<t, LastOf(R, S)>> \in R
<1> DEFINE rank == Rank(R, S)
           size == Cardinality(S)
<1>1. /\ size \in Nat /\ rank \in [S -> 1..size]
      /\ \A s, t \in S : <<s, t>> \in R <=> rank[s] < rank[t]
      /\ \A s, t \in S : rank[s] = rank[t] => s = t
      /\ \A k \in 1..size : \E s \in S : rank[s] = k
  BY RanksAreTheirs
<1> HIDE DEF rank, size
<1>2. size # 0
  BY <1>1
<1>3. PICK first \in S : rank[first] = 1
  BY <1>1, <1>2
<1>4. PICK last \in S : rank[last] = size
  BY <1>1, <1>2
<1>5. \A t \in S : rank[t] \in Nat /\ 1 <= rank[t] /\ rank[t] <= size
  BY <1>1
<1>6. \A t \in S : t = first \/ <<first, t>> \in R
  BY <1>1, <1>3, <1>5
<1>7. \A t \in S : t = last \/ <<t, last>> \in R
  BY <1>1, <1>4, <1>5
<1> QED  BY <1>6, <1>7, Zenon DEF FirstOf, LastOf

\* A finite set of numbers has a least and a greatest one.
LEMMA NumbersEnd ==
  ASSUME NEW D \in SUBSET Nat, IsFiniteSet(D), D # {}
  PROVE  /\ Min(D) \in D /\ \A d \in D : Min(D) <= d
         /\ Max(D) \in D /\ \A d \in D : d <= Max(D)
<1>0. PICK R : R = {p \in D \X D : p[1] < p[2]}
  OBVIOUS
<1>1. \A s \in D : s \in Nat
  OBVIOUS
<1>2. \A s, t \in D : <<s, t>> \in R <=> s < t
  BY <1>0
<1>3. \A s \in D : <<s, s>> \notin R
  BY <1>1, <1>2
<1>4. \A s, t \in D : s = t \/ <<s, t>> \in R \/ <<t, s>> \in R
  <2>1. \A s, t \in D : s = t \/ s < t \/ t < s
    BY <1>1
  <2> QED  BY <1>2, <2>1, Zenon
<1>5. \A s, t, u \in D : <<s, t>> \in R /\ <<t, u>> \in R => <<s, u>> \in R
  BY <1>1, <1>2
<1> StrictlyOrders(R, D)
  BY <1>3, <1>4, <1>5, Zenon DEF StrictlyOrders
<1>6. /\ FirstOf(R, D) \in D /\ \A t \in D : t = FirstOf(R, D) \/ <<FirstOf(R, D), t>> \in R
      /\ LastOf(R, D) \in D /\ \A t \in D : t = LastOf(R, D) \/ <<t, LastOf(R, D)>> \in R
  BY OrderedSetsEnd
<1>7. \E s \in D : \A t \in D : s <= t
  <2>1. PICK s \in D : \A t \in D : t = s \/ <<s, t>> \in R
    BY <1>6, Zenon
  <2>2. \A t \in D : t = s \/ s < t
    BY <1>2, <2>1
  <2> QED  BY <1>1, <2>2
<1>8. \E s \in D : \A t \in D : s >= t
  <2>1. PICK s \in D : \A t \in D : t = s \/ <<t, s>> \in R
    BY <1>6, Zenon
  <2>2. \A t \in D : t = s \/ t < s
    BY <1>2, <2>1
  <2> QED  BY <1>1, <2>2
<1>9. Min(D) \in D /\ \A d \in D : Min(D) <= d
  BY <1>7, Zenon DEF Min
<1>10. Max(D) \in D /\ \A d \in D : Max(D) >= d
  BY <1>8, Zenon DEF Max
<1> QED  BY <1>1, <1>9, <1>10

\* The spots of finitely many finite lists are ordered by Before.
LEMMA SpotsAreOrdered ==
  ASSUME NEW D, \A p \in D : p \in Nat \X Nat
  PROVE  /\ \A p \in D : ~Before(p, p)
         /\ \A p, q \in D : p = q \/ Before(p, q) \/ Before(q, p)
         /\ \A p, q, r \in D : Before(p, q) /\ Before(q, r) => Before(p, r)
<1>1. \A p \in D : p[1] \in Nat /\ p[2] \in Nat /\ p = <<p[1], p[2]>>
  OBVIOUS
<1>2. \A p \in D : ~Before(p, p)
  BY <1>1 DEF Before
<1>3. \A p, q \in D : p = q \/ Before(p, q) \/ Before(q, p)
  BY <1>1 DEF Before
<1>4. \A p, q, r \in D : Before(p, q) /\ Before(q, r) => Before(p, r)
  BY <1>1 DEF Before
<1> QED  BY <1>2, <1>3, <1>4

-----------------------------------------------------------------------------
(***************************************************************************)
(* The executable and the endpoint.                                        *)
(***************************************************************************)

\* The executable is the first of the paths looked at that is there.
LEMMA FirstThereIsTaken ==
  ASSUME NEW paths, NEW explicit \in Seq(paths), NEW env \in Seq(paths),
         NEW candidates \in Seq(paths), NEW there
  PROVE  LET given == explicit \o env
             checked == given \o candidates
             result == ResolveExecutable(explicit, env, candidates, there)
             found == {i \in 1..(Len(given) + Len(candidates)) : checked[i] \in there}
         IN  /\ found = {} => ~result.ok
             /\ found # {} => \E i \in found : /\ \A j \in found : i <= j
                                               /\ result.ok /\ result.paths = <<checked[i]>>
<1> DEFINE given == explicit \o env
           checked == given \o candidates
           found == {i \in 1..(Len(given) + Len(candidates)) : checked[i] \in there}
           result == ResolveExecutable(explicit, env, candidates, there)
<1>1. given \in Seq(paths) /\ Len(given) \in Nat /\ Len(candidates) \in Nat
  BY ConcatProperties
<1>2. checked \in Seq(paths) /\ Len(checked) = Len(given) + Len(candidates)
  BY <1>1, ConcatProperties, Zenon
<1>3. explicit \o env \o candidates = checked
  OBVIOUS
<1>4. DOMAIN checked = 1..(Len(given) + Len(candidates))
  BY <1>2
<1>5. {i \in DOMAIN checked : checked[i] \in there} = found
  BY <1>4
<1>6. result = IF found = {} THEN [ok |-> FALSE, paths |-> checked]
               ELSE [ok |-> TRUE, paths |-> <<checked[Min(found)]>>]
  BY <1>3, <1>5 DEF ResolveExecutable
<1>7. IsFiniteSet(found) /\ found \in SUBSET Nat
  <2>1. IsFiniteSet(1..(Len(given) + Len(candidates)))
    BY <1>1, FS_Interval
  <2>2. found \in SUBSET (1..(Len(given) + Len(candidates)))
    OBVIOUS
  <2> QED  BY <1>1, <2>1, <2>2, FS_Subset
<1> HIDE DEF checked, found, result
<1>8. CASE found = {}
  BY <1>6, <1>8 DEF checked, found, result
<1>9. CASE found # {}
  <2>1. Min(found) \in found /\ \A j \in found : Min(found) <= j
    BY <1>7, <1>9, NumbersEnd
  <2>2. result.ok /\ result.paths = <<checked[Min(found)]>>
    BY <1>6, <1>9
  <2> QED  BY <1>9, <2>1, <2>2 DEF checked, found, result
<1> QED  BY <1>8, <1>9

\* Lists written out are lists of what they are written of.
LEMMA TuplesAreLists ==
  ASSUME NEW S
  PROVE  /\ \A a \in S : <<a>> \in Seq(S)
         /\ \A a, b \in S : <<a, b>> \in Seq(S)
         /\ \A a, b, c, d \in S : <<a, b, c, d>> \in Seq(S)
<1>1. \A a \in S : <<a>> \in Seq(S)
  OBVIOUS
<1>2. \A a, b \in S : <<a, b>> \in Seq(S)
  OBVIOUS
<1>3. \A a, b, c, d \in S : <<a, b, c, d>> \in Seq(S)
  OBVIOUS
<1> QED  BY <1>1, <1>2, <1>3

\* The channels a profile can name.
Channels == {"chromium", "chrome", "chrome-beta", "chrome-dev", "chrome-canary",
             "msedge", "msedge-beta", "msedge-dev", "msedge-canary", "none"}

\* The executables they stand for; an explicit path may be any other.
CandidateNames ==
  {"chromium", "chromium-browser", "google-chrome", "google-chrome-stable", "google-chrome-beta",
   "google-chrome-unstable", "google-chrome-canary", "microsoft-edge", "microsoft-edge-stable",
   "microsoft-edge-beta", "microsoft-edge-dev", "microsoft-edge-canary"}

\* Whatever is installed, the executable is the explicit path if that is there,
\* else the one BROWSER_USE_CHROME names, else one of the channel asked for;
\* and none is reported only when none of them is there.
THEOREM ChannelIsResolved ==
  ASSUME NEW others,
         NEW explicit \in Seq(CandidateNames \cup others), Len(explicit) <= 1,
         NEW env \in Seq(CandidateNames \cup others), Len(env) <= 1,
         NEW channel \in Channels, NEW there
  PROVE  ResolvesWithinChannel(explicit, env, channel, there)
<1> DEFINE paths == CandidateNames \cup others
           candidates == ChannelCandidates(channel)
           given == explicit \o env
           checked == given \o candidates
           result == ResolveExecutable(explicit, env, candidates, there)
           found == {i \in 1..(Len(given) + Len(candidates)) : checked[i] \in there}
           isThere(list) == ToSet(list) \cap there # {}
<1>1. candidates \in Seq(paths)
  <2>1. /\ \A a \in paths : <<a>> \in Seq(paths)
        /\ \A a, b \in paths : <<a, b>> \in Seq(paths)
        /\ \A a, b, c, d \in paths : <<a, b, c, d>> \in Seq(paths)
    BY TuplesAreLists
  <2>2. CASE channel = "chromium"
    <3>1. <<"chromium", "chromium-browser">> \in Seq(paths)
      BY <2>1 DEF CandidateNames
    <3> QED  BY <2>2, <3>1 DEF ChannelCandidates
  <2>3. CASE channel = "chrome"
    <3>1. <<"google-chrome", "google-chrome-stable">> \in Seq(paths)
      BY <2>1 DEF CandidateNames
    <3> QED  BY <2>3, <3>1 DEF ChannelCandidates
  <2>4. CASE channel = "chrome-beta"
    <3>1. <<"google-chrome-beta">> \in Seq(paths)
      BY <2>1 DEF CandidateNames
    <3> QED  BY <2>4, <3>1 DEF ChannelCandidates
  <2>5. CASE channel = "chrome-dev"
    <3>1. <<"google-chrome-unstable">> \in Seq(paths)
      BY <2>1 DEF CandidateNames
    <3> QED  BY <2>5, <3>1 DEF ChannelCandidates
  <2>6. CASE channel = "chrome-canary"
    <3>1. <<"google-chrome-canary">> \in Seq(paths)
      BY <2>1 DEF CandidateNames
    <3> QED  BY <2>6, <3>1 DEF ChannelCandidates
  <2>7. CASE channel = "msedge"
    <3>1. <<"microsoft-edge", "microsoft-edge-stable">> \in Seq(paths)
      BY <2>1 DEF CandidateNames
    <3> QED  BY <2>7, <3>1 DEF ChannelCandidates
  <2>8. CASE channel = "msedge-beta"
    <3>1. <<"microsoft-edge-beta">> \in Seq(paths)
      BY <2>1 DEF CandidateNames
    <3> QED  BY <2>8, <3>1 DEF ChannelCandidates
  <2>9. CASE channel = "msedge-dev"
    <3>1. <<"microsoft-edge-dev">> \in Seq(paths)
      BY <2>1 DEF CandidateNames
    <3> QED  BY <2>9, <3>1 DEF ChannelCandidates
  <2>10. CASE channel = "msedge-canary"
    <3>1. <<"microsoft-edge-canary">> \in Seq(paths)
      BY <2>1 DEF CandidateNames
    <3> QED  BY <2>10, <3>1 DEF ChannelCandidates
  <2>11. CASE channel = "none"
    <3>1. <<"google-chrome", "google-chrome-stable", "chromium", "chromium-browser">> \in Seq(paths)
      BY <2>1 DEF CandidateNames
    <3> QED  BY <2>11, <3>1 DEF ChannelCandidates, DefaultCandidates
  <2> QED  BY <2>2, <2>3, <2>4, <2>5, <2>6, <2>7, <2>8, <2>9, <2>10, <2>11 DEF Channels
<1> HIDE DEF candidates
<1>2. /\ given \in Seq(paths) /\ Len(given) = Len(explicit) + Len(env)
      /\ Len(explicit) \in {0, 1} /\ Len(env) \in {0, 1} /\ Len(candidates) \in Nat
  <2>1. given \in Seq(paths) /\ Len(given) = Len(explicit) + Len(env)
    BY ConcatProperties, Zenon
  <2>2. Len(explicit) \in Nat /\ Len(env) \in Nat /\ Len(candidates) \in Nat
    BY <1>1
  <2>3. \A n \in Nat : n <= 1 => n \in {0, 1}
    OBVIOUS
  <2> QED  BY <2>1, <2>2, <2>3
<1>3. /\ \A i \in 1..Len(explicit) : given[i] = explicit[i]
      /\ \A i \in 1..Len(env) : given[Len(explicit) + i] = env[i]
  BY ConcatProperties
<1>4. /\ \A i \in 1..Len(given) : checked[i] = given[i]
      /\ \A i \in 1..Len(candidates) : checked[Len(given) + i] = candidates[i]
  BY <1>1, <1>2, ConcatProperties
<1>5. /\ found = {} => ~result.ok
      /\ found # {} => \E i \in found : /\ \A j \in found : i <= j
                                        /\ result.ok /\ result.paths = <<checked[i]>>
  BY <1>1, FirstThereIsTaken, Zenon
<1> HIDE DEF result, checked, given
\* Where each of the three is looked at.
<1>6. \A list \in Seq(paths) : isThere(list) <=> \E i \in 1..Len(list) : list[i] \in there
  BY DEF ToSet
<1>7. isThere(explicit) <=> Len(explicit) = 1 /\ explicit[1] \in there
  <2>1. isThere(explicit) <=> \E i \in 1..Len(explicit) : explicit[i] \in there
    BY <1>6
  <2> QED  BY <1>2, <2>1
<1>8. isThere(env) <=> Len(env) = 1 /\ env[1] \in there
  <2>1. isThere(env) <=> \E i \in 1..Len(env) : env[i] \in there
    BY <1>6
  <2> QED  BY <1>2, <2>1
<1>9. isThere(candidates) <=> \E i \in 1..Len(candidates) : candidates[i] \in there
  BY <1>1, <1>6
<1>10. Len(explicit) = 1 => checked[1] = explicit[1]
  BY <1>2, <1>3, <1>4
<1>11. Len(env) = 1 => checked[Len(explicit) + 1] = env[1]
  BY <1>2, <1>3, <1>4
<1> HIDE DEF isThere
<1>12. ASSUME isThere(explicit)
       PROVE  result.ok /\ result.paths = explicit
  <2>1. Len(explicit) = 1 /\ checked[1] = explicit[1] /\ checked[1] \in there
    BY <1>7, <1>10, <1>12
  <2>2. 1 \in found
    BY <1>2, <2>1
  <2>3. PICK i \in found : (\A j \in found : i <= j) /\ result.ok /\ result.paths = <<checked[i]>>
    BY <1>5, <2>2, Zenon
  <2>4. i = 1
    BY <1>2, <2>2, <2>3
  <2>5. <<explicit[1]>> = explicit
    BY <2>1
  <2> QED  BY <2>1, <2>3, <2>4, <2>5
<1>13. ASSUME ~isThere(explicit), isThere(env)
       PROVE  result.ok /\ result.paths = env
  <2> DEFINE first == Len(explicit) + 1
  <2>1. Len(env) = 1 /\ checked[first] = env[1] /\ checked[first] \in there
    BY <1>8, <1>11, <1>13
  <2>2. first \in found
    BY <1>2, <2>1
  <2>3. PICK i \in found : (\A j \in found : i <= j) /\ result.ok /\ result.paths = <<checked[i]>>
    BY <1>5, <2>2, Zenon
  <2>4. i \in Nat /\ 1 <= i /\ i <= first /\ checked[i] \in there
    BY <1>2, <2>2, <2>3
  <2>5. i = first
    <3>1. SUFFICES ASSUME i # first PROVE FALSE
      OBVIOUS
    <3>2. i = 1 /\ Len(explicit) = 1
      BY <1>2, <2>4, <3>1
    <3> QED  BY <1>7, <1>10, <1>13, <2>4, <3>2
  <2>6. <<env[1]>> = env
    BY <2>1
  <2> QED  BY <2>1, <2>3, <2>5, <2>6
<1>14. ASSUME result.ok, ~isThere(explicit), ~isThere(env)
       PROVE  isThere(candidates) /\ result.paths[1] \in ToSet(candidates) \cap there
  <2>1. PICK i \in found : result.paths = <<checked[i]>>
    BY <1>5, <1>14, Zenon
  <2>2. result.paths[1] = checked[i] /\ checked[i] \in there /\ i \in 1..(Len(given) + Len(candidates))
    BY <2>1
  <2>3. ~(i <= Len(given))
    <3>1. SUFFICES ASSUME i <= Len(given) PROVE FALSE
      OBVIOUS
    <3>2. i \in Nat /\ 1 <= i /\ i <= Len(explicit) + Len(env)
      BY <1>2, <2>2, <3>1
    <3>3. CASE i <= Len(explicit)
      <4>1. i = 1 /\ Len(explicit) = 1
        BY <1>2, <3>2, <3>3
      <4> QED  BY <1>7, <1>10, <1>14, <2>2, <4>1
    <3>4. CASE ~(i <= Len(explicit))
      <4>1. i = Len(explicit) + 1 /\ Len(env) = 1
        BY <1>2, <3>2, <3>4
      <4> QED  BY <1>8, <1>11, <1>14, <2>2, <4>1
    <3> QED  BY <3>3, <3>4
  <2>4. i - Len(given) \in 1..Len(candidates) /\ Len(given) + (i - Len(given)) = i
    BY <1>2, <2>2, <2>3
  <2>5. checked[i] = candidates[i - Len(given)]
    BY <1>4, <2>4
  <2>6. checked[i] \in ToSet(candidates)
    BY <1>1, <2>4, <2>5 DEF ToSet
  <2> QED  BY <2>2, <2>6 DEF isThere
<1>15. ASSUME isThere(candidates)
       PROVE  result.ok
  <2>1. PICK i \in 1..Len(candidates) : candidates[i] \in there
    BY <1>9, <1>15
  <2>2. Len(given) + i \in found
    BY <1>2, <1>4, <2>1
  <2> QED  BY <1>5, <2>2, Zenon
<1>16. result.ok <=> isThere(explicit) \/ isThere(env) \/ isThere(candidates)
  BY <1>12, <1>13, <1>14, <1>15
<1> QED
  BY <1>12, <1>13, <1>14, <1>16 DEF ResolvesWithinChannel, candidates, result, isThere

\* Of a port file of any lines: it gives no endpoint before its second line is
\* there, and then the endpoint of its websocket URL.
THEOREM PortFilesAgree ==
  ASSUME NEW host, NEW lines \in Seq(STRING)
  PROVE  PortFileAgrees(host, lines)
<1>1. Len(lines) \in Nat
  OBVIOUS
<1>2. CASE Len(lines) < 2
  BY <1>1, <1>2 DEF PortFileAgrees, EndpointOfPortFile
<1>3. CASE ~(Len(lines) < 2) /\ (lines[1] = "" \/ lines[2] = "")
  BY <1>1, <1>3 DEF PortFileAgrees, EndpointOfPortFile
<1>4. CASE ~(Len(lines) < 2) /\ ~(lines[1] = "" \/ lines[2] = "")
  <2> DEFINE authority == <<host, lines[1]>>
             websocket == [scheme |-> "ws", authority |-> authority, path |-> lines[2]]
             endpoint == [http |-> [scheme |-> "http", authority |-> authority, path |-> ""],
                          websocket |-> websocket]
  <2>1. EndpointOfPortFile(host, lines) = <<endpoint>>
    BY <1>4 DEF EndpointOfPortFile
  <2>2. <<endpoint>>[1].websocket = websocket
    OBVIOUS
  <2>3. EndpointOfCdpUrl(websocket) = <<endpoint>>
    BY DEF EndpointOfCdpUrl
  <2> HIDE DEF websocket, endpoint
  <2> QED  BY <1>4, <2>1, <2>2, <2>3 DEF PortFileAgrees
<1> QED  BY <1>2, <1>3, <1>4

-----------------------------------------------------------------------------
(***************************************************************************)
(* The spots of a list of lists.                                           *)
(***************************************************************************)

\* The spots of finitely many finite lists are finitely many pairs.
LEMMA SpotsAreFinite ==
  ASSUME NEW lists, DOMAIN lists \in SUBSET Nat, IsFiniteSet(DOMAIN lists),
         \A i \in DOMAIN lists : DOMAIN lists[i] \in SUBSET Nat /\ IsFiniteSet(DOMAIN lists[i])
  PROVE  /\ IsFiniteSet(Spots(lists))
         /\ \A p \in Spots(lists) : /\ p \in Nat \X Nat /\ p = <<p[1], p[2]>>
                                    /\ p[1] \in DOMAIN lists /\ p[2] \in DOMAIN lists[p[1]]
         /\ \A i \in DOMAIN lists : \A j \in DOMAIN lists[i] : <<i, j>> \in Spots(lists)
<1> DEFINE D == DOMAIN lists
           row == [i \in D |-> {i} \X DOMAIN lists[i]]
           rows == {row[i] : i \in D}
<1>1. Spots(lists) = UNION rows
  BY DEF Spots
<1>2. row \in Surjection(D, rows)
  BY DEF Surjection
<1>3. IsFiniteSet(rows)
  BY <1>2, FS_Surjection
<1>4. ASSUME NEW r \in rows
      PROVE  IsFiniteSet(r)
  <2>1. PICK i \in D : r = {i} \X DOMAIN lists[i]
    OBVIOUS
  <2>2. IsFiniteSet({i}) /\ IsFiniteSet(DOMAIN lists[i])
    BY FS_Singleton
  <2>3. IsFiniteSet({i} \X DOMAIN lists[i])
    BY <2>2, FS_Product
  <2> QED  BY <2>1, <2>3
<1>5. IsFiniteSet(Spots(lists))
  <2> HIDE DEF rows
  <2> QED  BY <1>1, <1>3, <1>4, FS_UNION
<1>6. ASSUME NEW p \in Spots(lists)
      PROVE  /\ p \in Nat \X Nat /\ p = <<p[1], p[2]>>
             /\ p[1] \in DOMAIN lists /\ p[2] \in DOMAIN lists[p[1]]
  <2>1. PICK i \in D : p \in {i} \X DOMAIN lists[i]
    BY DEF Spots
  <2>2. PICK j \in DOMAIN lists[i] : p = <<i, j>>
    BY <2>1
  <2>3. i \in Nat /\ j \in Nat /\ p[1] = i /\ p[2] = j
    BY <2>2
  <2> QED  BY <2>2, <2>3
<1>7. ASSUME NEW i \in DOMAIN lists, NEW j \in DOMAIN lists[i]
      PROVE  <<i, j>> \in Spots(lists)
  <2>1. <<i, j>> \in {i} \X DOMAIN lists[i]
    OBVIOUS
  <2> QED  BY <2>1 DEF Spots
<1> QED  BY <1>5, <1>6, <1>7

\* Some of them have a first one and a last one, and places as numbers have.
LEMMA SpotsHavePlaces ==
  ASSUME NEW D, IsFiniteSet(D), \A p \in D : p \in Nat \X Nat
  PROVE  /\ D # {} => \E p \in D : \A q \in D : q = p \/ Before(p, q)
         /\ D # {} => \E p \in D : \A q \in D : q = p \/ Before(q, p)
         /\ Cardinality(D) \in Nat
         /\ \A p \in D : SpotPlace(D, p) \in 1..Cardinality(D)
         /\ \A p, q \in D : SpotPlace(D, p) = SpotPlace(D, q) => p = q
         /\ \A k \in 1..Cardinality(D) : \E p \in D : SpotPlace(D, p) = k
<1>1. PICK R : R = {pair \in D \X D : Before(pair[1], pair[2])}
  OBVIOUS
<1>2. \A p, q \in D : <<p, q>> \in R <=> Before(p, q)
  BY <1>1
<1>3. StrictlyOrders(R, D)
  <2>1. \A p \in D : <<p, p>> \notin R
    BY <1>2, SpotsAreOrdered
  <2>2. \A p, q \in D : p = q \/ <<p, q>> \in R \/ <<q, p>> \in R
    <3>1. \A p, q \in D : p = q \/ Before(p, q) \/ Before(q, p)
      BY SpotsAreOrdered
    <3> QED  BY <1>2, <3>1, Zenon
  <2>3. \A p, q, r \in D : <<p, q>> \in R /\ <<q, r>> \in R => <<p, r>> \in R
    <3>1. \A p, q, r \in D : Before(p, q) /\ Before(q, r) => Before(p, r)
      BY SpotsAreOrdered
    <3> QED  BY <1>2, <3>1, Zenon
  <2> QED  BY <2>1, <2>2, <2>3, Zenon DEF StrictlyOrders
<1>4. ASSUME D # {}
      PROVE  /\ \E p \in D : \A q \in D : q = p \/ Before(p, q)
             /\ \E p \in D : \A q \in D : q = p \/ Before(q, p)
  <2>1. /\ FirstOf(R, D) \in D /\ \A q \in D : q = FirstOf(R, D) \/ <<FirstOf(R, D), q>> \in R
        /\ LastOf(R, D) \in D /\ \A q \in D : q = LastOf(R, D) \/ <<q, LastOf(R, D)>> \in R
    BY <1>3, <1>4, OrderedSetsEnd
  <2> QED  BY <1>2, <2>1, Zenon
<1>5. /\ Cardinality(D) \in Nat
      /\ Rank(R, D) \in [D -> 1..Cardinality(D)]
      /\ \A p, q \in D : Rank(R, D)[p] = Rank(R, D)[q] => p = q
      /\ \A k \in 1..Cardinality(D) : \E p \in D : Rank(R, D)[p] = k
  BY <1>3, RanksAreTheirs
<1>6. ASSUME NEW p \in D
      PROVE  SpotPlace(D, p) = Rank(R, D)[p]
  <2>1. {q \in D : q = p \/ Before(q, p)} = {q \in D : q = p \/ <<q, p>> \in R}
    BY <1>2
  <2> QED  BY <2>1 DEF SpotPlace, Rank
<1>7. \A p \in D : SpotPlace(D, p) \in 1..Cardinality(D)
  BY <1>5, <1>6
<1>8. \A p, q \in D : SpotPlace(D, p) = SpotPlace(D, q) => p = q
  BY <1>5, <1>6, Zenon
<1>9. \A k \in 1..Cardinality(D) : \E p \in D : SpotPlace(D, p) = k
  BY <1>5, <1>6
<1> QED  BY <1>4, <1>5, <1>7, <1>8, <1>9

-----------------------------------------------------------------------------
(***************************************************************************)
(* The shortened URLs.                                                     *)
(***************************************************************************)

\* The requests: their URLs have no mark before they are shortened.
Urls(bases, letters) == [base : bases, after : Seq(letters), mark : {<<>>}]
Requested(roles, bases, letters) == Seq([role : roles, text : Seq(Urls(bases, letters))])

\* What a request is made of.
LEMMA RequestsAreTyped ==
  ASSUME NEW roles, NEW bases, NEW letters, NEW messages \in Requested(roles, bases, letters)
  PROVE  /\ Len(messages) \in Nat /\ DOMAIN messages = 1..Len(messages)
         /\ \A i \in DOMAIN messages : /\ messages[i] \in [role : roles, text : Seq(Urls(bases, letters))]
                                       /\ messages[i].text \in Seq(Urls(bases, letters))
<1> DEFINE texts == Seq(Urls(bases, letters))
           M == [role : roles, text : texts]
<1>1. messages \in Seq(M)
  BY DEF Requested
<1> HIDE DEF M
<1>2. Len(messages) \in Nat /\ DOMAIN messages = 1..Len(messages)
  BY <1>1
<1>3. \A i \in DOMAIN messages : messages[i] \in M
  BY <1>1
<1> HIDE DEF texts
<1>4. \A m \in M : m.text \in texts
  BY DEF M
<1> QED  BY <1>2, <1>3, <1>4 DEF M, texts

\* The length of a URL without its base.
LengthOf(u) == Len(u.after) + (IF u.mark = <<>> THEN 0 ELSE MarkLength)

\* A short form is marked and is shorter than its URL.
LEMMA ShortIsShorter ==
  ASSUME NEW bases, NEW letters, NEW u \in Urls(bases, letters), NEW limit \in Nat,
         ShortenUrl(u, limit) # <<>>
  PROVE  /\ ShortenUrl(u, limit) = <<ShortenUrl(u, limit)[1]>>
         /\ ShortenUrl(u, limit)[1].mark # <<>>
         /\ LengthOf(ShortenUrl(u, limit)[1]) < LengthOf(u)
<1> DEFINE short == [base |-> u.base, after |-> SubSeq(u.after, 1, limit), mark |-> <<Digest(u.after)>>]
<1>1. u.after \in Seq(letters) /\ Len(u.after) \in Nat /\ u.mark = <<>>
  BY DEF Urls
<1> MarkLength \in Nat
  BY TaskUrlsAssumption DEF TaskUrlsAssumption
<1>2. ShortenUrl(u, limit) = <<short>> /\ ~(Len(u.after) <= limit) /\ ~(limit + MarkLength >= Len(u.after))
  BY DEF ShortenUrl
<1>3. ShortenUrl(u, limit)[1] = short
  BY <1>2
<1>4. short.mark # <<>> /\ short.after = SubSeq(u.after, 1, limit)
  OBVIOUS
<1> HIDE DEF short
<1>5. Len(SubSeq(u.after, 1, limit)) = limit
  <2>1. 1 \in 1..(Len(u.after) + 1) /\ limit \in 0..Len(u.after)
    BY <1>1, <1>2
  <2> QED  BY <1>1, <1>2, <2>1, SubSeqProperties
<1>6. LengthOf(short) = limit + MarkLength
  BY <1>4, <1>5 DEF LengthOf
<1>7. LengthOf(u) = Len(u.after)
  BY <1>1 DEF LengthOf
<1>8. limit + MarkLength < Len(u.after)
  BY <1>1, <1>2
<1> QED  BY <1>2, <1>3, <1>4, <1>6, <1>7, <1>8

\* What replaces a short form is a URL of the request that has it, and only
\* marked forms are replaced.
LEMMA ReplacementsAreOfTheRequest ==
  ASSUME NEW roles, NEW bases, NEW letters, NEW messages \in Requested(roles, bases, letters),
         NEW limit \in Nat
  PROVE  LET replacements == Replacements(messages, limit)
         IN  /\ \A form \in DOMAIN replacements :
                  /\ form.mark # <<>>
                  /\ \E i \in DOMAIN messages : \E j \in DOMAIN messages[i].text :
                       /\ replacements[form] = messages[i].text[j]
                       /\ ShortenUrl(messages[i].text[j], limit) = <<form>>
             /\ \A i \in DOMAIN messages : \A j \in DOMAIN messages[i].text :
                  Rewrites(messages[i], limit) /\ ShortenUrl(messages[i].text[j], limit) # <<>> =>
                    ShortenUrl(messages[i].text[j], limit)[1] \in DOMAIN replacements
<1> DEFINE rewritten == {i \in DOMAIN messages : Rewrites(messages[i], limit)}
           lists == [i \in rewritten |-> messages[i].text]
           url(p) == messages[p[1]].text[p[2]]
           short(p) == ShortenUrl(url(p), limit)
           shortened == {p \in Spots(lists) : short(p) # <<>>}
           last == {p \in shortened : \A q \in shortened : Before(p, q) => short(q) # short(p)}
           forms == {short(p)[1] : p \in shortened}
           replacements == [form \in forms |-> url(CHOOSE p \in last : short(p)[1] = form)]
<1>1. Replacements(messages, limit) = replacements
  BY DEF Replacements
<1>2. \A i \in DOMAIN messages : messages[i].text \in Seq(Urls(bases, letters))
  BY RequestsAreTyped
<1>3. DOMAIN messages \in SUBSET Nat /\ IsFiniteSet(DOMAIN messages)
  <2>1. Len(messages) \in Nat /\ DOMAIN messages = 1..Len(messages)
    BY RequestsAreTyped
  <2> QED  BY <2>1, FS_Interval
<1>4. DOMAIN lists \in SUBSET Nat /\ IsFiniteSet(DOMAIN lists) /\ rewritten \in SUBSET DOMAIN messages
  <2>1. rewritten \in SUBSET DOMAIN messages /\ DOMAIN lists = rewritten
    OBVIOUS
  <2> QED  BY <1>3, <2>1, FS_Subset
<1>5. ASSUME NEW i \in DOMAIN lists
      PROVE  DOMAIN lists[i] \in SUBSET Nat /\ IsFiniteSet(DOMAIN lists[i])
  <2>1. lists[i] \in Seq(Urls(bases, letters))
    BY <1>2, <1>4
  <2> HIDE DEF lists
  <2>2. Len(lists[i]) \in Nat /\ DOMAIN lists[i] = 1..Len(lists[i])
    BY <2>1
  <2> QED  BY <2>2, FS_Interval
<1>6. /\ IsFiniteSet(Spots(lists))
      /\ \A p \in Spots(lists) : /\ p \in Nat \X Nat /\ p = <<p[1], p[2]>>
                                 /\ p[1] \in DOMAIN lists /\ p[2] \in DOMAIN lists[p[1]]
      /\ \A i \in DOMAIN lists : \A j \in DOMAIN lists[i] : <<i, j>> \in Spots(lists)
  <2> HIDE DEF lists
  <2> QED  BY <1>4, <1>5, SpotsAreFinite
<1>7. ASSUME NEW p \in shortened
      PROVE  /\ p[1] \in rewritten /\ p[1] \in DOMAIN messages
             /\ p[2] \in DOMAIN messages[p[1]].text /\ url(p) \in Urls(bases, letters)
  <2>1. p[1] \in rewritten /\ p[2] \in DOMAIN lists[p[1]]
    BY <1>6
  <2>2. p[2] \in DOMAIN messages[p[1]].text
    BY <2>1
  <2>3. messages[p[1]].text \in Seq(Urls(bases, letters))
    BY <1>2, <1>4, <2>1
  <2> QED  BY <1>4, <2>1, <2>2, <2>3
<1>8. ASSUME NEW p \in shortened
      PROVE  short(p) = <<short(p)[1]>> /\ short(p)[1].mark # <<>>
  BY <1>7, ShortIsShorter
<1>9. ASSUME NEW form \in forms
      PROVE  \E p \in last : short(p)[1] = form
  <2> DEFINE having == {p \in shortened : short(p)[1] = form}
  <2>1. having # {}
    OBVIOUS
  <2>2. IsFiniteSet(having) /\ \A p \in having : p \in Nat \X Nat
    <3>1. having \in SUBSET Spots(lists)
      OBVIOUS
    <3> QED  BY <1>6, <3>1, FS_Subset
  <2>3. \A p \in having : p \in shortened /\ short(p)[1] = form
    OBVIOUS
  <2>4. \A p \in shortened : short(p)[1] = form => p \in having
    OBVIOUS
  <2> HIDE DEF having, shortened, short
  <2>5. PICK p \in having : \A q \in having : q = p \/ Before(q, p)
    BY <2>1, <2>2, SpotsHavePlaces
  <2>6. ASSUME NEW q \in shortened, Before(p, q), short(q) = short(p)
        PROVE  FALSE
    <3>1. q \in having
      BY <2>3, <2>4, <2>6
    <3>2. q = p \/ Before(q, p)
      BY <2>5, <3>1
    <3>3. ~Before(p, p) /\ (Before(p, q) /\ Before(q, p) => Before(p, p))
      BY <2>2, <3>1, SpotsAreOrdered
    <3> QED  BY <2>6, <3>2, <3>3
  <2>7. p \in last
    BY <2>3, <2>6
  <2> QED  BY <2>3, <2>7
<1>10. ASSUME NEW form \in forms
       PROVE  \E p \in last : short(p)[1] = form /\ replacements[form] = url(p)
  <2> DEFINE chosen == CHOOSE p \in last : short(p)[1] = form
  <2>1. chosen \in last /\ short(chosen)[1] = form
    <3> HIDE DEF last, short
    <3> QED  BY <1>9, Zenon
  <2>2. replacements[form] = url(chosen)
    OBVIOUS
  <2> QED  BY <2>1, <2>2, Zenon
<1>11. ASSUME NEW form \in DOMAIN replacements
       PROVE  /\ form.mark # <<>>
              /\ \E i \in DOMAIN messages : \E j \in DOMAIN messages[i].text :
                   /\ replacements[form] = messages[i].text[j]
                   /\ ShortenUrl(messages[i].text[j], limit) = <<form>>
  <2>1. PICK p \in last : short(p)[1] = form /\ replacements[form] = url(p)
    BY <1>10, Zenon
  <2>2. p \in shortened
    BY <2>1
  <2>3. short(p) = <<form>> /\ form.mark # <<>>
    <3> HIDE DEF shortened, short, replacements
    <3> QED  BY <1>8, <2>1, <2>2
  <2>4. p[1] \in DOMAIN messages /\ p[2] \in DOMAIN messages[p[1]].text
    BY <1>7, <2>2
  <2> HIDE DEF replacements
  <2> QED  BY <2>1, <2>3, <2>4
<1>12. ASSUME NEW i \in DOMAIN messages, NEW j \in DOMAIN messages[i].text,
              Rewrites(messages[i], limit), ShortenUrl(messages[i].text[j], limit) # <<>>
       PROVE  ShortenUrl(messages[i].text[j], limit)[1] \in DOMAIN replacements
  <2>1. i \in DOMAIN lists /\ j \in DOMAIN lists[i]
    BY <1>12
  <2>2. <<i, j>> \in Spots(lists)
    BY <1>6, <2>1
  <2>3. url(<<i, j>>) = messages[i].text[j]
    OBVIOUS
  <2>4. <<i, j>> \in shortened
    BY <1>12, <2>2, <2>3
  <2>5. short(<<i, j>>)[1] \in forms
    BY <2>4
  <2> QED  BY <2>3, <2>5
<1> HIDE DEF replacements
<1> QED  BY <1>1, <1>11, <1>12

\* Whatever URLs a request has, in however many messages, what its model
\* repeats of them is restored, unless two of them have one short form; and what
\* is shortened got shorter.
THEOREM ShortUrlsAreRestored ==
  ASSUME NEW roles, NEW bases, NEW letters, NEW messages \in Requested(roles, bases, letters),
         NEW limit \in Nat
  PROVE  ShorteningIsUndone(messages, limit)
<1> DEFINE sent == ShortenedRequest(messages, limit)
           replacements == Replacements(messages, limit)
           all == UNION {ToSet(messages[i].text) : i \in DOMAIN messages}
           clash == \E u, v \in all : /\ u # v
                                      /\ ShortenUrl(u, limit) # <<>>
                                      /\ ShortenUrl(u, limit) = ShortenUrl(v, limit)
<1> SUFFICES ASSUME ~clash, NEW i \in DOMAIN messages
             PROVE  /\ RestoreText(sent[i].text, replacements) = messages[i].text
                    /\ \A j \in DOMAIN sent[i].text :
                         sent[i].text[j] # messages[i].text[j] =>
                           LengthOf(sent[i].text[j]) < LengthOf(messages[i].text[j])
  BY Zenon DEF ShorteningIsUndone, LengthOf
<1> DEFINE text == messages[i].text
<1>1. \A k \in DOMAIN messages : messages[k].text \in Seq(Urls(bases, letters))
  BY RequestsAreTyped
<1>2. ASSUME NEW k \in DOMAIN messages, NEW j \in DOMAIN messages[k].text
      PROVE  /\ messages[k].text[j] \in Urls(bases, letters)
             /\ messages[k].text[j] \in all /\ messages[k].text[j].mark = <<>>
  <2>1. messages[k].text[j] \in Urls(bases, letters)
    BY <1>1
  <2>2. messages[k].text[j] \in ToSet(messages[k].text)
    BY DEF ToSet
  <2> QED  BY <2>1, <2>2 DEF Urls
<1>3. /\ \A form \in DOMAIN replacements :
           /\ form.mark # <<>>
           /\ \E k \in DOMAIN messages : \E j \in DOMAIN messages[k].text :
                /\ replacements[form] = messages[k].text[j]
                /\ ShortenUrl(messages[k].text[j], limit) = <<form>>
      /\ \A k \in DOMAIN messages : \A j \in DOMAIN messages[k].text :
           Rewrites(messages[k], limit) /\ ShortenUrl(messages[k].text[j], limit) # <<>> =>
             ShortenUrl(messages[k].text[j], limit)[1] \in DOMAIN replacements
  BY ReplacementsAreOfTheRequest, Zenon
<1> HIDE DEF replacements, all
<1>4. /\ DOMAIN sent[i].text = DOMAIN text
      /\ \A j \in DOMAIN text :
           sent[i].text[j] = IF Rewrites(messages[i], limit) /\ ShortenUrl(text[j], limit) # <<>>
                             THEN ShortenUrl(text[j], limit)[1] ELSE text[j]
  <2>1. messages[i] \in [role : roles, text : Seq(Urls(bases, letters))]
    BY RequestsAreTyped
  <2>2. sent[i] = IF Rewrites(messages[i], limit)
                  THEN [messages[i] EXCEPT !.text = ShortenText(@, limit)] ELSE messages[i]
    BY DEF ShortenedRequest
  <2>3. CASE Rewrites(messages[i], limit)
    <3>1. sent[i].text = ShortenText(text, limit)
      BY <2>1, <2>2, <2>3
    <3> QED  BY <2>3, <3>1 DEF ShortenText
  <2>4. CASE ~Rewrites(messages[i], limit)
    <3>1. sent[i].text = text
      BY <2>2, <2>4
    <3> QED  BY <2>4, <3>1
  <2> QED  BY <2>3, <2>4
<1> HIDE DEF sent
<1>5. ASSUME NEW j \in DOMAIN text
      PROVE  /\ (IF sent[i].text[j] \in DOMAIN replacements
                 THEN replacements[sent[i].text[j]] ELSE sent[i].text[j]) = text[j]
             /\ sent[i].text[j] # text[j] => LengthOf(sent[i].text[j]) < LengthOf(text[j])
  <2> DEFINE url == text[j]
             short == ShortenUrl(url, limit)
  <2>1. url \in Urls(bases, letters) /\ url \in all /\ url.mark = <<>>
    BY <1>2
  <2>2. CASE Rewrites(messages[i], limit) /\ short # <<>>
    <3>1. sent[i].text[j] = short[1]
      BY <1>4, <2>2
    <3>2. short = <<short[1]>> /\ LengthOf(short[1]) < LengthOf(url)
      BY <2>1, <2>2, ShortIsShorter
    <3>3. short[1] \in DOMAIN replacements
      BY <1>3, <2>2
    <3>0. PICK k \in DOMAIN messages : \E n \in DOMAIN messages[k].text :
            /\ replacements[short[1]] = messages[k].text[n]
            /\ ShortenUrl(messages[k].text[n], limit) = <<short[1]>>
      BY <1>3, <3>3
    <3>4. PICK n \in DOMAIN messages[k].text :
            /\ replacements[short[1]] = messages[k].text[n]
            /\ ShortenUrl(messages[k].text[n], limit) = <<short[1]>>
      BY <3>0
    <3>5. messages[k].text[n] \in all
      BY <1>2
    <3> HIDE DEF short, url
    <3>6. messages[k].text[n] = url
      BY <2>1, <2>2, <3>2, <3>4, <3>5 DEF short
    <3> QED  BY <3>1, <3>2, <3>3, <3>4, <3>6 DEF url
  <2>3. CASE ~(Rewrites(messages[i], limit) /\ short # <<>>)
    <3>1. sent[i].text[j] = url
      BY <1>4, <2>3
    <3>2. url \notin DOMAIN replacements
      BY <1>3, <2>1
    <3> QED  BY <3>1, <3>2
  <2> QED  BY <2>2, <2>3
<1>6. RestoreText(sent[i].text, replacements) = text
  <2>1. RestoreText(sent[i].text, replacements)
          = [j \in DOMAIN text |-> IF sent[i].text[j] \in DOMAIN replacements
                                   THEN replacements[sent[i].text[j]] ELSE sent[i].text[j]]
    BY <1>4 DEF RestoreText
  <2>2. text = [j \in DOMAIN text |-> text[j]]
    BY <1>1
  <2> QED  BY <1>5, <2>1, <2>2
<1> QED  BY <1>4, <1>5, <1>6

-----------------------------------------------------------------------------
(***************************************************************************)
(* The command line.                                                       *)
(***************************************************************************)

\* InOrder has every entry at the place of its number, and keeps their order.
LEMMA InOrderHasAll ==
  ASSUME NEW f, DOMAIN f \in SUBSET Nat, IsFiniteSet(DOMAIN f),
         NEW S, \A n \in DOMAIN f : f[n] \in S
  PROVE  /\ \A n \in DOMAIN f : /\ Place(DOMAIN f, n) \in 1..Cardinality(DOMAIN f)
                                /\ InOrder(f)[Place(DOMAIN f, n)] = f[n]
         /\ \A m, n \in DOMAIN f : Place(DOMAIN f, m) < Place(DOMAIN f, n) => m < n
<1> DEFINE D == DOMAIN f
           size == Cardinality(D)
<1>1. size \in Nat /\ \A n \in D : Place(D, n) \in 1..size
  BY PlaceOnto
<1>2. ASSUME NEW n \in D
      PROVE  InOrder(f)[Place(D, n)] = f[n]
  <2>1. PICK m \in D : Place(D, m) = Place(D, n) /\ InOrder(f)[Place(D, n)] = f[m]
    BY <1>1, InOrderAt
  <2>2. m = n
    BY <2>1, PlaceInjective
  <2> QED  BY <2>1, <2>2
<1>3. ASSUME NEW m \in D, NEW n \in D, n <= m
      PROVE  Place(D, n) <= Place(D, m)
  <2> DEFINE A == {k \in D : k <= n}
             B == {k \in D : k <= m}
  <2>1. IsFiniteSet(B)
    BY FS_Subset, B \in SUBSET D
  <2>2. A \in SUBSET B
    <3>1. m \in Nat /\ n \in Nat /\ \A k \in D : k \in Nat
      OBVIOUS
    <3>2. \A k \in D : k <= n => k <= m
      BY <1>3, <3>1
    <3> QED  BY <3>2
  <2>3. Cardinality(A) <= Cardinality(B)
    BY <2>1, <2>2, FS_Subset
  <2> QED  BY <2>3 DEF Place
<1>4. ASSUME NEW m \in D, NEW n \in D, Place(D, m) < Place(D, n)
      PROVE  m < n
  <2>1. m \in Nat /\ n \in Nat /\ Place(D, m) \in Nat /\ Place(D, n) \in Nat
    BY <1>1
  <2>2. CASE n <= m
    BY <1>3, <1>4, <2>1, <2>2
  <2> QED  BY <2>1, <2>2
<1> QED  BY <1>1, <1>2, <1>4

\* Of a list, InOrder is the list.
LEMMA InOrderOfAList ==
  ASSUME NEW S, NEW list \in Seq(S)
  PROVE  InOrder(list) = list
<1> DEFINE size == Len(list)
<1>1. size \in Nat /\ DOMAIN list = 1..size /\ \A n \in 1..size : list[n] \in S
  OBVIOUS
<1>2. IsFiniteSet(1..size) /\ Cardinality(1..size) = size
  <2> HIDE DEF size
  <2> QED  BY <1>1, FS_Interval
<1>3. 1..size \in SUBSET Nat /\ 1..size \in SUBSET (Nat \ {0})
  BY <1>1
<1>4. /\ InOrder(list) \in Seq(S) /\ DOMAIN InOrder(list) = 1..size
      /\ \A n \in 1..size : InOrder(list)[Place(1..size, n)] = list[n]
  BY <1>1, <1>2, <1>3, InOrderAt, InOrderHasAll
<1>5. ASSUME NEW n \in 1..size
      PROVE  InOrder(list)[n] = list[n]
  <2>1. n \in Nat /\ 1..n \subseteq 1..size
    BY <1>1
  <2>2. Place(1..size, n) = n
    BY <1>3, <2>1, PlaceOfPrefix
  <2> QED  BY <1>4, <2>2
<1> QED  BY <1>1, <1>4, <1>5

\* The entries of a list are of what it is a list of.
LEMMA EntriesAreOf ==
  ASSUME NEW V, NEW list \in Seq(V), NEW n \in DOMAIN list
  PROVE  list[n] \in V
<1>1. DOMAIN list = 1..Len(list)
  BY LenProperties
<1> QED  BY <1>1, ElementOfSeq

\* The features named in some lists, once each.
LEMMA FeaturesAreMentioned ==
  ASSUME NEW V, NEW lists, DOMAIN lists \in SUBSET Nat, IsFiniteSet(DOMAIN lists),
         \A i \in DOMAIN lists : lists[i] \in Seq(V)
  PROVE  /\ FirstMentions(lists) \in Seq(V)
         /\ \A k \in DOMAIN FirstMentions(lists) : FirstMentions(lists)[k] # ""
         /\ \A k, l \in DOMAIN FirstMentions(lists) :
              FirstMentions(lists)[k] = FirstMentions(lists)[l] => k = l
         /\ ToSet(FirstMentions(lists)) = (UNION {ToSet(lists[i]) : i \in DOMAIN lists}) \ {""}
<1> DEFINE D == DOMAIN lists
           value(p) == lists[p[1]][p[2]]
           named == {p \in Spots(lists) : value(p) # ""}
           first == {p \in named : \A q \in named : Before(q, p) => value(q) # value(p)}
           at(n) == CHOOSE p \in first : SpotPlace(first, p) = n
           size == Cardinality(first)
           mentions == [n \in 1..size |-> value(at(n))]
<1>1. FirstMentions(lists) = mentions
  BY DEF FirstMentions
<1>2. ASSUME NEW i \in D
      PROVE  DOMAIN lists[i] \in SUBSET Nat /\ IsFiniteSet(DOMAIN lists[i])
  <2>1. Len(lists[i]) \in Nat /\ DOMAIN lists[i] = 1..Len(lists[i])
    OBVIOUS
  <2> QED  BY <2>1, FS_Interval
<1>3. /\ IsFiniteSet(Spots(lists))
      /\ \A p \in Spots(lists) : /\ p \in Nat \X Nat /\ p = <<p[1], p[2]>>
                                 /\ p[1] \in D /\ p[2] \in DOMAIN lists[p[1]]
      /\ \A i \in D : \A j \in DOMAIN lists[i] : <<i, j>> \in Spots(lists)
  BY <1>2, SpotsAreFinite
<1>4. ASSUME NEW p \in named
      PROVE  value(p) \in V /\ value(p) # "" /\ p \in Nat \X Nat
  <2>1. p[1] \in D /\ p[2] \in DOMAIN lists[p[1]] /\ p \in Nat \X Nat
    BY <1>3
  <2>2. value(p) \in V
    BY <2>1, EntriesAreOf, Zenon
  <2> QED  BY <2>1, <2>2
<1>5. first \in SUBSET named /\ named \in SUBSET Spots(lists)
  OBVIOUS
<1>6. IsFiniteSet(first) /\ IsFiniteSet(named)
  BY <1>3, <1>5, FS_Subset
<1> HIDE DEF value, named
<1>7. ASSUME NEW p \in named
      PROVE  \E q \in first : value(q) = value(p)
  <2> DEFINE same == {q \in named : value(q) = value(p)}
  <2>1. same # {} /\ same \in SUBSET named /\ \A q \in same : q \in Nat \X Nat
    BY <1>4
  <2>2. IsFiniteSet(same)
    BY <1>6, <2>1, FS_Subset
  <2>3. \A q \in named : value(q) = value(p) => q \in same
    OBVIOUS
  <2>4. \A q \in same : value(q) = value(p)
    OBVIOUS
  <2> HIDE DEF same
  <2>5. PICK f \in same : \A q \in same : q = f \/ Before(f, q)
    BY <2>1, <2>2, SpotsHavePlaces
  <2>6. ASSUME NEW q \in named, Before(q, f), value(q) = value(f)
        PROVE  FALSE
    <3>1. q \in same
      BY <2>3, <2>4, <2>6
    <3>2. q = f \/ Before(f, q)
      BY <2>5, <3>1
    <3>3. ~Before(f, f) /\ (Before(f, q) /\ Before(q, f) => Before(f, f))
      BY <2>1, <3>1, SpotsAreOrdered
    <3> QED  BY <2>6, <3>2, <3>3
  <2>7. f \in first
    BY <2>1, <2>6
  <2> QED  BY <2>4, <2>7
<1>8. /\ \A p \in first : p \in named
      /\ \A p, q \in first : value(p) = value(q) => p = q
  <2>1. \A p \in first : p \in named /\ p \in Nat \X Nat
    BY <1>4, <1>5
  <2>2. \A p, q \in first : p = q \/ Before(p, q) \/ Before(q, p)
    BY <2>1, SpotsAreOrdered
  <2> QED  BY <2>1, <2>2
<1>9. /\ size \in Nat
      /\ \A p \in first : SpotPlace(first, p) \in 1..size
      /\ \A p, q \in first : SpotPlace(first, p) = SpotPlace(first, q) => p = q
      /\ \A k \in 1..size : \E p \in first : SpotPlace(first, p) = k
  <2>1. \A p \in first : p \in Nat \X Nat
    BY <1>4, <1>5
  <2> HIDE DEF first
  <2> QED  BY <1>6, <2>1, SpotsHavePlaces
<1> HIDE DEF first, size
<1>10. ASSUME NEW k \in 1..size
       PROVE  at(k) \in first /\ SpotPlace(first, at(k)) = k
  BY <1>9, Zenon
<1>11. \A p \in first : at(SpotPlace(first, p)) = p
  <2>1. ASSUME NEW p \in first
        PROVE  at(SpotPlace(first, p)) = p
    <3>1. /\ at(SpotPlace(first, p)) \in first
          /\ SpotPlace(first, at(SpotPlace(first, p))) = SpotPlace(first, p)
      BY <1>9, <1>10, Zenon
    <3> QED  BY <1>9, <3>1, Zenon
  <2> QED  BY <2>1, Zenon
<1> HIDE DEF at
<1>12. /\ mentions \in Seq(V) /\ DOMAIN mentions = 1..size
       /\ \A k \in 1..size : mentions[k] = value(at(k))
  <2>1. \A k \in 1..size : value(at(k)) \in V
    BY <1>4, <1>8, <1>10
  <2>2. mentions \in [1..size -> V]
    BY <2>1
  <2>3. mentions \in Seq(V)
    BY <1>9, <2>2
  <2> QED  BY <2>3
<1> HIDE DEF mentions
<1>13. \A k \in 1..size : mentions[k] # ""
  BY <1>4, <1>8, <1>10, <1>12
<1>14. \A k, l \in 1..size : mentions[k] = mentions[l] => k = l
  <2>1. ASSUME NEW k \in 1..size, NEW l \in 1..size, mentions[k] = mentions[l]
        PROVE  k = l
    <3>1. at(k) = at(l)
      BY <1>8, <1>10, <1>12, <2>1
    <3> QED  BY <1>10, <3>1
  <2> QED  BY <2>1
<1>15. ASSUME NEW v \in ToSet(mentions)
       PROVE  v \in (UNION {ToSet(lists[i]) : i \in D}) \ {""}
  <2>1. PICK k \in 1..size : v = mentions[k]
    BY <1>12 DEF ToSet
  <2>2. at(k) \in Spots(lists) /\ v = value(at(k))
    BY <1>5, <1>8, <1>10, <1>12, <2>1
  <2>3. PICK i \in D : i = at(k)[1] /\ at(k)[2] \in DOMAIN lists[i] /\ v = lists[i][at(k)[2]]
    BY <1>3, <2>2 DEF value
  <2>4. v \in ToSet(lists[i])
    BY <2>3 DEF ToSet
  <2> QED  BY <1>13, <2>1, <2>4
<1>16. ASSUME NEW v \in (UNION {ToSet(lists[i]) : i \in D}) \ {""}
       PROVE  v \in ToSet(mentions)
  <2>1. PICK i \in D : v \in ToSet(lists[i])
    OBVIOUS
  <2>2. PICK j \in DOMAIN lists[i] : v = lists[i][j]
    BY <2>1 DEF ToSet
  <2>3. <<i, j>> \in Spots(lists) /\ value(<<i, j>>) = v
    BY <1>3, <2>2 DEF value
  <2>4. <<i, j>> \in named
    BY <2>3 DEF named
  <2>5. PICK q \in first : value(q) = v
    BY <1>7, <2>3, <2>4
  <2>6. SpotPlace(first, q) \in 1..size /\ mentions[SpotPlace(first, q)] = v
    BY <1>9, <1>11, <1>12, <2>5
  <2> QED  BY <1>12, <2>6 DEF ToSet
<1>17. ToSet(mentions) = (UNION {ToSet(lists[i]) : i \in D}) \ {""}
  BY <1>15, <1>16
<1> QED  BY <1>1, <1>12, <1>13, <1>14, <1>17

\* Arguments, and lists of them that name no switch twice and no feature twice
\* or without a name.
Arguments(switches, features) == [switch : switches \cup {"--disable-features"}, values : Seq(features)]
SwitchesDiffer(list) ==
  \A k, l \in DOMAIN list : list[k].switch = list[l].switch => k = l
NamesEachOnce(features) ==
  /\ \A j \in DOMAIN features : features[j] # ""
  /\ \A i, j \in DOMAIN features : features[i] = features[j] => i = j
FeaturesAreClean(list) ==
  \A k \in DOMAIN list : DisablesFeatures(list[k]) => NamesEachOnce(list[k].values)

\* The arguments after which there is none with their switch.
LastsOf(args) == {i \in DOMAIN args : \A j \in (i + 1)..Len(args) : args[j].switch # args[i].switch}

\* The last argument with a switch is the only one kept of those with it.
LEMMA DedupeKeepsTheLast ==
  ASSUME NEW A, NEW args \in Seq(A)
  PROVE  /\ DedupeBySwitch(args) \in Seq(A) /\ SwitchesDiffer(DedupeBySwitch(args))
         /\ \A k \in DOMAIN DedupeBySwitch(args) : \E i \in LastsOf(args) :
              DedupeBySwitch(args)[k] = args[i]
         /\ \A i \in LastsOf(args) : \E k \in DOMAIN DedupeBySwitch(args) :
              DedupeBySwitch(args)[k] = args[i]
<1> DEFINE kept == DedupeBySwitch(args)
           last == LastsOf(args)
           f == [i \in last |-> args[i]]
<1>1. kept = InOrder(f)
  BY DEF DedupeBySwitch, LastsOf
<1>2. Len(args) \in Nat /\ DOMAIN args = 1..Len(args)
  BY LenProperties
<1>3. last \in SUBSET DOMAIN args /\ DOMAIN f = last /\ \A i \in last : f[i] = args[i]
  BY DEF LastsOf
<1>4. IsFiniteSet(last) /\ last \in SUBSET Nat
  <2>1. IsFiniteSet(DOMAIN args) /\ DOMAIN args \in SUBSET Nat
    BY <1>2, FS_Interval
  <2> QED  BY <1>3, <2>1, FS_Subset
<1>5. \A i \in last : f[i] \in A
  BY <1>3, EntriesAreOf
<1>6. ASSUME NEW i \in last, NEW j \in last, args[i].switch = args[j].switch
      PROVE  i = j
  <2>1. i \in Nat /\ j \in Nat /\ i <= Len(args) /\ j <= Len(args)
    BY <1>2, <1>3
  <2>2. CASE i < j
    <3>1. j \in (i + 1)..Len(args)
      BY <1>2, <2>1, <2>2
    <3> QED  BY <1>6, <3>1 DEF LastsOf
  <2>3. CASE j < i
    <3>1. i \in (j + 1)..Len(args)
      BY <1>2, <2>1, <2>3
    <3> QED  BY <1>6, <3>1 DEF LastsOf
  <2> QED  BY <2>1, <2>2, <2>3
<1> HIDE DEF kept, last, f
<1>7. /\ kept \in Seq(A) /\ DOMAIN kept = 1..Cardinality(last)
      /\ \A k \in DOMAIN kept : \E i \in last : Place(last, i) = k /\ kept[k] = f[i]
  BY <1>1, <1>3, <1>4, <1>5, InOrderAt
<1>8. \A i \in last : Place(last, i) \in 1..Cardinality(last) /\ kept[Place(last, i)] = f[i]
  BY <1>1, <1>3, <1>4, <1>5, InOrderHasAll
<1>9. SwitchesDiffer(kept)
  <2>1. ASSUME NEW k \in DOMAIN kept, NEW l \in DOMAIN kept, kept[k].switch = kept[l].switch
        PROVE  k = l
    <3>1. PICK i \in last : Place(last, i) = k /\ kept[k] = args[i]
      BY <1>3, <1>7
    <3>2. PICK j \in last : Place(last, j) = l /\ kept[l] = args[j]
      BY <1>3, <1>7
    <3>3. i = j
      BY <1>6, <2>1, <3>1, <3>2
    <3> QED  BY <3>1, <3>2, <3>3
  <2> QED  BY <2>1 DEF SwitchesDiffer
<1>10. \A k \in DOMAIN kept : \E i \in last : kept[k] = args[i]
  BY <1>3, <1>7
<1>11. \A i \in last : \E k \in DOMAIN kept : kept[k] = args[i]
  BY <1>3, <1>7, <1>8
<1> QED  BY <1>7, <1>9, <1>10, <1>11 DEF kept, last

\* The lists of disabled features of a command line, and what they name.
FeatureLists(args) == [i \in {i \in DOMAIN args : DisablesFeatures(args[i])} |-> args[i].values]
Features(args) == FirstMentions(FeatureLists(args))
Disabled(args) == (UNION {ToSet(args[i].values) : i \in DOMAIN FeatureLists(args)}) \ {""}

\* What merging puts in an argument's place, and which it keeps.
MergedArg(args, i) ==
  IF DisablesFeatures(args[i]) THEN Arg("--disable-features", Features(args)) ELSE args[i]
MergeKeeps(args) ==
  {i \in DOMAIN args : DisablesFeatures(args[i]) =>
     Features(args) # <<>> /\ \A j \in DOMAIN args : DisablesFeatures(args[j]) => j <= i}

\* All disabled features are in one argument, each once.
LEMMA FeaturesAreMerged ==
  ASSUME NEW S, NEW V, NEW args \in Seq(Arguments(S, V))
  PROVE  /\ Features(args) \in Seq(V)
         /\ \A k \in DOMAIN Features(args) : Features(args)[k] # ""
         /\ \A k, l \in DOMAIN Features(args) : Features(args)[k] = Features(args)[l] => k = l
         /\ ToSet(Features(args)) = Disabled(args)
<1> DEFINE lists == FeatureLists(args)
<1>1. Len(args) \in Nat /\ DOMAIN args = 1..Len(args)
  BY LenProperties
<1>2. DOMAIN lists \in SUBSET DOMAIN args /\ \A i \in DOMAIN lists : lists[i] = args[i].values
  BY DEF FeatureLists
<1>3. IsFiniteSet(DOMAIN lists) /\ DOMAIN lists \in SUBSET Nat
  <2>1. IsFiniteSet(DOMAIN args) /\ DOMAIN args \in SUBSET Nat
    BY <1>1, FS_Interval
  <2> QED  BY <1>2, <2>1, FS_Subset
<1>4. \A i \in DOMAIN lists : lists[i] \in Seq(V)
  <2>1. \A i \in DOMAIN args : args[i] \in Arguments(S, V)
    BY EntriesAreOf
  <2>2. \A a \in Arguments(S, V) : a.values \in Seq(V)
    BY DEF Arguments
  <2> QED  BY <1>2, <2>1, <2>2
<1>5. UNION {ToSet(lists[i]) : i \in DOMAIN lists} = UNION {ToSet(args[i].values) : i \in DOMAIN lists}
  BY <1>2
<1> HIDE DEF lists
<1>6. /\ FirstMentions(lists) \in Seq(V)
      /\ \A k \in DOMAIN FirstMentions(lists) : FirstMentions(lists)[k] # ""
      /\ \A k, l \in DOMAIN FirstMentions(lists) :
           FirstMentions(lists)[k] = FirstMentions(lists)[l] => k = l
      /\ ToSet(FirstMentions(lists)) = (UNION {ToSet(lists[i]) : i \in DOMAIN lists}) \ {""}
  BY <1>3, <1>4, FeaturesAreMentioned
<1>7. FirstMentions(lists) = Features(args)
  BY DEF lists, Features
<1>8. (UNION {ToSet(args[i].values) : i \in DOMAIN lists}) \ {""} = Disabled(args)
  BY DEF lists, Disabled
<1> QED  BY <1>5, <1>6, <1>7, <1>8

\* Merging keeps the arguments in order, with the merged one in the place of the
\* last that disables features.
LEMMA MergeKeepsTheOrder ==
  ASSUME NEW S, NEW V, NEW args \in Seq(Arguments(S, V))
  PROVE  LET merged == MergeDisableFeatures(args)
             kept == MergeKeeps(args)
         IN  /\ merged \in Seq(Arguments(S, V)) /\ kept \in SUBSET DOMAIN args
             /\ merged = InOrder([i \in kept |-> MergedArg(args, i)])
             /\ \A k \in DOMAIN merged : \E i \in kept : Place(kept, i) = k /\ merged[k] = MergedArg(args, i)
             /\ \A i \in kept : Place(kept, i) \in DOMAIN merged /\ merged[Place(kept, i)] = MergedArg(args, i)
             /\ \A i, j \in kept : Place(kept, i) < Place(kept, j) => i < j
<1> DEFINE merged == MergeDisableFeatures(args)
           kept == MergeKeeps(args)
           places == {i \in DOMAIN args : DisablesFeatures(args[i])}
           keeps == {i \in DOMAIN args : i \in places => Features(args) # <<>> /\ i = Max(places)}
           f == [i \in kept |-> MergedArg(args, i)]
<1>1. Len(args) \in Nat /\ DOMAIN args = 1..Len(args)
  BY LenProperties
<1>2. IsFiniteSet(DOMAIN args) /\ DOMAIN args \in SUBSET Nat
  BY <1>1, FS_Interval
<1>3. \A i \in DOMAIN args : i \in places => (i = Max(places) <=> \A j \in DOMAIN args : j \in places => j <= i)
  <2>1. places \in SUBSET DOMAIN args
    OBVIOUS
  <2>2. IsFiniteSet(places) /\ places \in SUBSET Nat
    BY <1>2, <2>1, FS_Subset
  <2> HIDE DEF places
  <2>3. places # {} => Max(places) \in places /\ \A j \in places : j <= Max(places)
    BY <2>2, NumbersEnd
  <2>4. ASSUME NEW i \in places
        PROVE  i = Max(places) <=> \A j \in DOMAIN args : j \in places => j <= i
    <3>1. Max(places) \in places /\ Max(places) \in DOMAIN args /\ \A j \in places : j <= Max(places)
      BY <2>1, <2>3
    <3>2. i \in Nat /\ Max(places) \in Nat
      BY <2>2, <3>1
    <3>3. (\A j \in DOMAIN args : j \in places => j <= i) => Max(places) <= i
      BY <3>1
    <3>4. i <= Max(places)
      BY <3>1
    <3>5. Max(places) <= i => i = Max(places)
      BY <3>2, <3>4
    <3> QED  BY <3>1, <3>3, <3>5
  <2> QED  BY <2>4
<1>4. keeps = kept
  BY <1>3 DEF MergeKeeps
<1>5. merged = InOrder(f)
  <2> DEFINE g == [i \in keeps |-> IF i \in places THEN Arg("--disable-features", Features(args)) ELSE args[i]]
  <2>1. merged = InOrder(g)
    BY DEF MergeDisableFeatures, Features, FeatureLists
  <2>2. \A i \in kept : i \in DOMAIN args
    BY DEF MergeKeeps
  <2>3. \A i \in kept : g[i] = MergedArg(args, i)
    BY <1>4, <2>2 DEF MergedArg
  <2>4. g = f
    BY <1>4, <2>3
  <2> QED  BY <2>1, <2>4
<1>6. kept \in SUBSET DOMAIN args /\ DOMAIN f = kept /\ \A i \in kept : f[i] = MergedArg(args, i)
  BY DEF MergeKeeps
<1>7. IsFiniteSet(kept) /\ kept \in SUBSET Nat
  BY <1>2, <1>6, FS_Subset
<1>8. ASSUME NEW i \in kept
      PROVE  f[i] \in Arguments(S, V)
  <2>1. args[i] \in Arguments(S, V)
    BY <1>6, EntriesAreOf
  <2>2. Features(args) \in Seq(V)
    BY FeaturesAreMerged
  <2>3. Arg("--disable-features", Features(args)) \in Arguments(S, V)
    BY <2>2 DEF Arg, Arguments
  <2> QED  BY <1>6, <2>1, <2>3 DEF MergedArg
<1> HIDE DEF merged, kept, f
<1>9. /\ merged \in Seq(Arguments(S, V)) /\ DOMAIN merged = 1..Cardinality(kept)
      /\ \A k \in DOMAIN merged : \E i \in kept : Place(kept, i) = k /\ merged[k] = f[i]
  BY <1>5, <1>6, <1>7, <1>8, InOrderAt
<1>10. /\ \A i \in kept : Place(kept, i) \in 1..Cardinality(kept) /\ merged[Place(kept, i)] = f[i]
       /\ \A i, j \in kept : Place(kept, i) < Place(kept, j) => i < j
  BY <1>5, <1>6, <1>7, <1>8, InOrderHasAll
<1>11. \A k \in DOMAIN merged : \E i \in kept : Place(kept, i) = k /\ merged[k] = MergedArg(args, i)
  BY <1>6, <1>9
<1>12. \A i \in kept : Place(kept, i) \in DOMAIN merged /\ merged[Place(kept, i)] = MergedArg(args, i)
  BY <1>6, <1>9, <1>10
<1>13. merged = InOrder([i \in kept |-> MergedArg(args, i)])
  BY <1>5 DEF f
<1> QED  BY <1>6, <1>9, <1>10, <1>11, <1>12, <1>13 DEF merged, kept

\* A kept argument after which none with its switch is kept is in the normal form.
LEMMA LastOfASwitchStays ==
  ASSUME NEW S, NEW V, NEW args \in Seq(Arguments(S, V)), NEW i \in MergeKeeps(args),
         \A j \in MergeKeeps(args) : i < j => MergedArg(args, j).switch # MergedArg(args, i).switch
  PROVE  \E k \in DOMAIN NormalizeArgs(args) : NormalizeArgs(args)[k] = MergedArg(args, i)
<1> DEFINE merged == MergeDisableFeatures(args)
           kept == MergeKeeps(args)
           place == Place(kept, i)
<1>1. /\ merged \in Seq(Arguments(S, V))
      /\ \A k \in DOMAIN merged : \E j \in kept : Place(kept, j) = k /\ merged[k] = MergedArg(args, j)
      /\ place \in DOMAIN merged /\ merged[place] = MergedArg(args, i)
      /\ \A j \in kept : place < Place(kept, j) => i < j
  BY MergeKeepsTheOrder
<1> HIDE DEF merged, kept, place
<1>2. Len(merged) \in Nat /\ DOMAIN merged = 1..Len(merged)
  BY <1>1, LenProperties
<1>3. ASSUME NEW l \in (place + 1)..Len(merged)
      PROVE  merged[l].switch # merged[place].switch
  <2>1. place \in Nat /\ l \in 1..Len(merged) /\ place < l
    BY <1>1, <1>2
  <2>2. PICK j \in kept : Place(kept, j) = l /\ merged[l] = MergedArg(args, j)
    BY <1>1, <1>2, <2>1
  <2>3. i < j
    BY <1>1, <2>1, <2>2
  <2>4. MergedArg(args, j).switch # MergedArg(args, i).switch
    BY <2>2, <2>3 DEF kept
  <2> QED  BY <1>1, <2>2, <2>4
<1>4. place \in LastsOf(merged)
  BY <1>1, <1>3 DEF LastsOf
<1>5. \E k \in DOMAIN DedupeBySwitch(merged) : DedupeBySwitch(merged)[k] = merged[place]
  BY <1>1, <1>4, DedupeKeepsTheLast
<1>6. NormalizeArgs(args) = DedupeBySwitch(merged)
  BY DEF NormalizeArgs, merged
<1> QED  BY <1>1, <1>5, <1>6

\* What a normal form is made of.
LEMMA NormalFormIsClean ==
  ASSUME NEW S, NEW V, NEW args \in Seq(Arguments(S, V))
  PROVE  /\ NormalizeArgs(args) \in Seq(Arguments(S, V))
         /\ SwitchesDiffer(NormalizeArgs(args)) /\ FeaturesAreClean(NormalizeArgs(args))
         /\ \A k \in DOMAIN NormalizeArgs(args) :
              \E i \in MergeKeeps(args) : NormalizeArgs(args)[k] = MergedArg(args, i)
<1> DEFINE merged == MergeDisableFeatures(args)
           kept == MergeKeeps(args)
           normal == DedupeBySwitch(merged)
<1>1. NormalizeArgs(args) = normal
  BY DEF NormalizeArgs
<1>2. /\ merged \in Seq(Arguments(S, V)) /\ kept \in SUBSET DOMAIN args
      /\ merged = InOrder([i \in kept |-> MergedArg(args, i)])
      /\ \A k \in DOMAIN merged : \E i \in kept : Place(kept, i) = k /\ merged[k] = MergedArg(args, i)
      /\ \A i \in kept : Place(kept, i) \in DOMAIN merged /\ merged[Place(kept, i)] = MergedArg(args, i)
      /\ \A i, j \in kept : Place(kept, i) < Place(kept, j) => i < j
  BY MergeKeepsTheOrder
<1> HIDE DEF merged, kept
<1>3. /\ normal \in Seq(Arguments(S, V)) /\ SwitchesDiffer(normal)
      /\ \A k \in DOMAIN normal : \E l \in DOMAIN merged : normal[k] = merged[l]
  <2>1. /\ normal \in Seq(Arguments(S, V)) /\ SwitchesDiffer(normal)
        /\ \A k \in DOMAIN normal : \E l \in LastsOf(merged) : normal[k] = merged[l]
    BY <1>2, DedupeKeepsTheLast
  <2>2. \A l \in LastsOf(merged) : l \in DOMAIN merged
    BY DEF LastsOf
  <2> HIDE DEF normal
  <2> QED  BY <2>1, <2>2
<1> HIDE DEF normal
<1>4. \A k \in DOMAIN normal : \E i \in kept : normal[k] = MergedArg(args, i)
  BY <1>2, <1>3
<1>5. ASSUME NEW k \in DOMAIN normal, DisablesFeatures(normal[k])
      PROVE  NamesEachOnce(normal[k].values)
  <2>1. PICK i \in kept : normal[k] = MergedArg(args, i)
    BY <1>4
  <2>2. DisablesFeatures(args[i])
    BY <1>5, <2>1 DEF MergedArg
  <2>3. normal[k].values = Features(args)
    BY <2>1, <2>2 DEF MergedArg, Arg
  <2> QED  BY <2>3, FeaturesAreMerged DEF NamesEachOnce
<1>6. FeaturesAreClean(normal)
  BY <1>5 DEF FeaturesAreClean
<1> QED  BY <1>1, <1>3, <1>4, <1>6 DEF kept

\* As many spots as numbers, in one list.
LEMMA SpotsOfOneList ==
  ASSUME NEW n \in Nat, NEW row
  PROVE  /\ IsFiniteSet({<<row, m>> : m \in 1..n})
         /\ Cardinality({<<row, m>> : m \in 1..n}) = n
<1> DEFINE spots == {<<row, m>> : m \in 1..n}
           f == [m \in 1..n |-> <<row, m>>]
<1>1. f \in Surjection(1..n, spots)
  BY DEF Surjection
<1>2. f \in Injection(1..n, spots)
  BY DEF Injection, IsInjective
<1>3. IsFiniteSet(1..n) /\ Cardinality(1..n) = n
  BY FS_Interval
<1> HIDE DEF f, spots
<1>4. IsFiniteSet(spots) /\ Cardinality(spots) = n
  BY <1>1, <1>2, <1>3, FS_Surjection
<1> QED  BY <1>4 DEF spots

\* A single clean list of features is merged into itself.
LEMMA OneListIsItself ==
  ASSUME NEW V, NEW v \in Seq(V), NEW row \in Nat, NamesEachOnce(v)
  PROVE  FirstMentions([i \in {row} |-> v]) = v
<1> DEFINE lists == [i \in {row} |-> v]
           value(p) == lists[p[1]][p[2]]
           named == {p \in Spots(lists) : value(p) # ""}
           first == {p \in named : \A q \in named : Before(q, p) => value(q) # value(p)}
           at(k) == CHOOSE p \in first : SpotPlace(first, p) = k
           size == Cardinality(first)
           mentions == [k \in 1..size |-> value(at(k))]
           length == Len(v)
<1>1. FirstMentions(lists) = mentions
  BY DEF FirstMentions
<1>2. length \in Nat /\ DOMAIN v = 1..length
  BY LenProperties
<1> HIDE DEF length
<1>3. \A j \in 1..length : value(<<row, j>>) = v[j]
  OBVIOUS
<1>4. Spots(lists) = {<<row, m>> : m \in 1..length}
  <2>1. {{i} \X DOMAIN lists[i] : i \in DOMAIN lists} = {{row} \X (1..length)}
    BY <1>2
  <2>2. UNION {{row} \X (1..length)} = {<<row, m>> : m \in 1..length}
    OBVIOUS
  <2> QED  BY <2>1, <2>2, Zenon DEF Spots
<1>5. \A p \in Spots(lists) : \E j \in 1..length : p = <<row, j>> /\ value(p) = v[j]
  BY <1>3, <1>4
<1> HIDE DEF value, lists
<1>6. \A p \in Spots(lists) : value(p) # ""
  <2>1. \A j \in 1..length : v[j] # ""
    BY <1>2, Zenon DEF NamesEachOnce
  <2> QED  BY <1>5, <2>1, Zenon
<1>7. \A p, q \in Spots(lists) : value(p) = value(q) => p = q
  <2>1. \A i, j \in 1..length : v[i] = v[j] => i = j
    BY <1>2, Zenon DEF NamesEachOnce
  <2> QED  BY <1>5, <2>1, Zenon
<1>8. \A p \in Spots(lists) : ~Before(p, p)
  BY <1>2, <1>4 DEF Before
<1>9. first = Spots(lists)
  BY <1>6, <1>7, <1>8
<1> HIDE DEF first, named
<1>10. IsFiniteSet(first) /\ size = length /\ \A p \in first : p \in Nat \X Nat
  <2>1. first = {<<row, m>> : m \in 1..length}
    BY <1>4, <1>9
  <2>2. \A p \in first : p \in Nat \X Nat
    BY <1>2, <2>1
  <2> QED  BY <1>2, <2>1, <2>2, SpotsOfOneList
<1>11. ASSUME NEW j \in 1..length
       PROVE  <<row, j>> \in first /\ SpotPlace(first, <<row, j>>) = j
  <2>1. j \in Nat /\ \A m \in 1..length : m \in Nat /\ (m <= j <=> m \in 1..j)
    BY <1>2
  <2>2. {q \in first : q = <<row, j>> \/ Before(q, <<row, j>>)} = {<<row, m>> : m \in 1..j}
    <3>1. ASSUME NEW m \in 1..length
          PROVE  (<<row, m>> = <<row, j>> \/ Before(<<row, m>>, <<row, j>>)) <=> m \in 1..j
      BY <2>1 DEF Before
    <3>2. \A m \in 1..j : m \in 1..length
      BY <1>2
    <3> QED  BY <1>4, <1>9, <3>1, <3>2
  <2>3. Cardinality({<<row, m>> : m \in 1..j}) = j
    BY <2>1, SpotsOfOneList
  <2> QED  BY <1>4, <1>9, <2>2, <2>3 DEF SpotPlace
<1>12. \A p, q \in first : SpotPlace(first, p) = SpotPlace(first, q) => p = q
  BY <1>10, SpotsHavePlaces
<1>13. ASSUME NEW j \in 1..length
       PROVE  at(j) = <<row, j>>
  BY <1>11, <1>12
<1> HIDE DEF at, size
<1>14. mentions = [j \in 1..length |-> v[j]]
  BY <1>3, <1>10, <1>13
<1>15. v = [j \in 1..length |-> v[j]]
  BY <1>2
<1> QED  BY <1>1, <1>14, <1>15 DEF lists

\* A command line without a switch or a feature twice is its own normal form.
LEMMA CleanIsNormal ==
  ASSUME NEW S, NEW V, NEW list \in Seq(Arguments(S, V)),
         SwitchesDiffer(list), FeaturesAreClean(list)
  PROVE  NormalizeArgs(list) = list
<1>1. Len(list) \in Nat /\ DOMAIN list = 1..Len(list)
  BY LenProperties
<1>2. \A i \in DOMAIN list : list[i] \in Arguments(S, V)
  BY EntriesAreOf
<1>3. list = [i \in DOMAIN list |-> list[i]]
  BY <1>1
<1>4. DedupeBySwitch(list) = list
  <2>1. \A i \in DOMAIN list : \A j \in (i + 1)..Len(list) : list[j].switch # list[i].switch
    <3>1. ASSUME NEW i \in DOMAIN list, NEW j \in (i + 1)..Len(list)
          PROVE  list[j].switch # list[i].switch
      <4>1. j \in DOMAIN list /\ i # j
        BY <1>1
      <4> QED  BY <4>1 DEF SwitchesDiffer
    <3> QED  BY <3>1
  <2>2. LastsOf(list) = DOMAIN list
    BY <2>1 DEF LastsOf
  <2>3. DedupeBySwitch(list) = InOrder([i \in LastsOf(list) |-> list[i]])
    BY DEF DedupeBySwitch, LastsOf
  <2> QED  BY <1>3, <2>2, <2>3, InOrderOfAList
<1>5. ASSUME NEW i \in DOMAIN list, DisablesFeatures(list[i])
      PROVE  Features(list) = list[i].values /\ list[i].values # <<>>
  <2> DEFINE places == {j \in DOMAIN list : DisablesFeatures(list[j])}
  <2>1. \A j \in places : j = i
    BY <1>5 DEF SwitchesDiffer, DisablesFeatures
  <2>2. places = {i}
    BY <1>5, <2>1
  <2>3. FeatureLists(list) = [j \in {i} |-> list[i].values]
    BY <2>2 DEF FeatureLists
  <2>4. list[i].values \in Seq(V)
    BY <1>2 DEF Arguments
  <2>5. NamesEachOnce(list[i].values)
    BY <1>5 DEF FeaturesAreClean
  <2>6. FirstMentions([j \in {i} |-> list[i].values]) = list[i].values
    <3>1. i \in Nat
      BY <1>1
    <3> QED  BY <2>4, <2>5, <3>1, OneListIsItself
  <2> QED  BY <1>5, <2>3, <2>6 DEF Features, DisablesFeatures
<1>6. ASSUME NEW i \in DOMAIN list
      PROVE  i \in MergeKeeps(list) /\ MergedArg(list, i) = list[i]
  <2>1. CASE DisablesFeatures(list[i])
    <3>1. \A j \in DOMAIN list : DisablesFeatures(list[j]) => j = i
      BY <2>1 DEF SwitchesDiffer, DisablesFeatures
    <3>2. i <= i
      BY <1>1
    <3>3. i \in MergeKeeps(list)
      BY <1>5, <2>1, <3>1, <3>2 DEF MergeKeeps
    <3>4. list[i] = Arg("--disable-features", list[i].values)
      BY <1>2, <2>1 DEF Arguments, DisablesFeatures, Arg
    <3>5. MergedArg(list, i) = Arg("--disable-features", Features(list))
      BY <2>1 DEF MergedArg
    <3> QED  BY <1>5, <2>1, <3>3, <3>4, <3>5
  <2>2. CASE ~DisablesFeatures(list[i])
    BY <2>2 DEF MergeKeeps, MergedArg
  <2> QED  BY <2>1, <2>2
<1>7. MergeDisableFeatures(list) = list
  <2>1. MergeKeeps(list) = DOMAIN list
    BY <1>6 DEF MergeKeeps
  <2>2. [i \in MergeKeeps(list) |-> MergedArg(list, i)] = list
    BY <1>3, <1>6, <2>1
  <2>3. MergeDisableFeatures(list) = InOrder([i \in MergeKeeps(list) |-> MergedArg(list, i)])
    BY MergeKeepsTheOrder, Zenon
  <2> QED  BY <2>2, <2>3, InOrderOfAList
<1> QED  BY <1>4, <1>7 DEF NormalizeArgs

\* The one argument of a switch in a list that has every switch once.
LEMMA OneOfASwitch ==
  ASSUME NEW list, SwitchesDiffer(list), NEW k \in DOMAIN list
  PROVE  list[CHOOSE i \in DOMAIN list : list[i].switch = list[k].switch] = list[k]
<1> DEFINE i == CHOOSE i \in DOMAIN list : list[i].switch = list[k].switch
<1>1. i \in DOMAIN list /\ list[i].switch = list[k].switch
  BY Zenon
<1>2. i = k
  BY <1>1, Zenon DEF SwitchesDiffer
<1> QED  BY <1>2

\* The last argument of a switch.
LEMMA LastOfASwitch ==
  ASSUME NEW A, NEW args \in Seq(A), NEW s, \E i \in DOMAIN args : args[i].switch = s
  PROVE  LET last == Max({i \in DOMAIN args : args[i].switch = s})
         IN  /\ last \in DOMAIN args /\ args[last].switch = s
             /\ \A j \in DOMAIN args : last < j => args[j].switch # s
<1> DEFINE D == {i \in DOMAIN args : args[i].switch = s}
           last == Max(D)
<1>1. Len(args) \in Nat /\ DOMAIN args = 1..Len(args)
  BY LenProperties
<1>2. IsFiniteSet(DOMAIN args) /\ DOMAIN args \in SUBSET Nat
  BY <1>1, FS_Interval
<1>3. IsFiniteSet(D) /\ D \in SUBSET Nat /\ D # {}
  <2>1. D \in SUBSET DOMAIN args /\ D # {}
    OBVIOUS
  <2> QED  BY <1>2, <2>1, FS_Subset
<1>4. last \in D /\ \A d \in D : d <= last
  <2> HIDE DEF D
  <2> QED  BY <1>3, NumbersEnd
<1>5. ASSUME NEW j \in DOMAIN args, last < j, args[j].switch = s
      PROVE  FALSE
  <2>1. j \in D
    BY <1>5
  <2>2. j <= last /\ j \in Nat /\ last \in Nat
    BY <1>3, <1>4, <2>1
  <2> QED  BY <1>5, <2>2
<1> QED  BY <1>4, <1>5

\* Whatever arguments are combined: a switch is on the command line once and
\* with its last value, every disabled feature is disabled once and by one
\* argument, and normalising again changes nothing.
THEOREM ArgumentsAreNormal ==
  ASSUME NEW S, NEW V, NEW args \in Seq(Arguments(S, V))
  PROVE  ArgsAreNormal(args)
<1> DEFINE normal == NormalizeArgs(args)
           switches(list) == {list[i].switch : i \in DOMAIN list}
           lastOf(s) == Max({i \in DOMAIN args : args[i].switch = s})
           disabled == (UNION {ToSet(args[i].values) : i \in {i \in DOMAIN args : DisablesFeatures(args[i])}})
                         \ {""}
           one(s) == normal[CHOOSE i \in DOMAIN normal : normal[i].switch = s]
           feature == "--disable-features"
<1>1. /\ normal \in Seq(Arguments(S, V)) /\ SwitchesDiffer(normal) /\ FeaturesAreClean(normal)
      /\ \A k \in DOMAIN normal : \E i \in MergeKeeps(args) : normal[k] = MergedArg(args, i)
  BY NormalFormIsClean
<1>2. NormalizeArgs(normal) = normal
  BY <1>1, CleanIsNormal
<1>3. disabled = Disabled(args)
  BY DEF Disabled, FeatureLists
<1> HIDE DEF normal, disabled
<1>4. Len(normal) = Cardinality(switches(normal))
  <2> DEFINE f == [k \in DOMAIN normal |-> normal[k].switch]
             length == Len(normal)
  <2>1. length \in Nat /\ DOMAIN normal = 1..length
    BY <1>1, LenProperties
  <2>2. f \in Surjection(DOMAIN normal, switches(normal))
    BY DEF Surjection
  <2>3. f \in Injection(DOMAIN normal, switches(normal))
    BY <1>1, <2>2 DEF SwitchesDiffer, Injection, IsInjective, Surjection
  <2> HIDE DEF f, length
  <2>4. IsFiniteSet(DOMAIN normal) /\ Cardinality(DOMAIN normal) = length
    BY <2>1, FS_Interval
  <2>5. Cardinality(switches(normal)) = length
    BY <2>2, <2>3, <2>4, FS_Surjection
  <2> QED  BY <2>5 DEF length
<1>5. switches(normal) \subseteq switches(args)
  <2>1. ASSUME NEW k \in DOMAIN normal
        PROVE  normal[k].switch \in switches(args)
    <3>1. PICK i \in MergeKeeps(args) : normal[k] = MergedArg(args, i)
      BY <1>1
    <3>2. i \in DOMAIN args
      BY DEF MergeKeeps
    <3>3. normal[k].switch = args[i].switch
      BY <3>1 DEF MergedArg, Arg, DisablesFeatures
    <3> QED  BY <3>2, <3>3
  <2> QED  BY <2>1
<1>6. ASSUME NEW s, NEW m, NEW k \in DOMAIN normal, normal[k] = m, m.switch = s
      PROVE  s \in switches(normal) /\ one(s) = m
  BY <1>1, <1>6, OneOfASwitch
<1>7. ASSUME NEW s \in switches(args) \ {feature}
      PROVE  s \in switches(normal) /\ one(s) = args[lastOf(s)]
  <2> DEFINE i == lastOf(s)
  <2>1. \E n \in DOMAIN args : args[n].switch = s
    OBVIOUS
  <2>2. /\ i \in DOMAIN args /\ args[i].switch = s
        /\ \A j \in DOMAIN args : i < j => args[j].switch # s
    BY <2>1, LastOfASwitch
  <2> HIDE DEF i
  <2>3. i \in MergeKeeps(args) /\ MergedArg(args, i) = args[i]
    BY <2>2 DEF MergeKeeps, MergedArg, DisablesFeatures
  <2>4. ASSUME NEW j \in MergeKeeps(args), i < j
        PROVE  MergedArg(args, j).switch # MergedArg(args, i).switch
    <3>1. j \in DOMAIN args /\ args[j].switch # s
      BY <2>2, <2>4 DEF MergeKeeps
    <3> QED  BY <2>2, <2>3, <3>1 DEF MergedArg, Arg
  <2>5. PICK k \in DOMAIN normal : normal[k] = args[i]
    BY <2>3, <2>4, LastOfASwitchStays DEF normal
  <2>6. s \in switches(normal) /\ one(s) = args[i]
    BY <1>6, <2>2, <2>5
  <2> QED  BY <2>6 DEF i
<1>8. ASSUME disabled # {}, args[lastOf(feature)].values # <<>>
      PROVE  feature \in switches(normal) /\ ToSet(one(feature).values) = disabled
  <2> DEFINE i == lastOf(feature)
             m == Arg(feature, Features(args))
  <2>1. \E n \in DOMAIN args : args[n].switch = feature
    BY <1>8 DEF disabled, DisablesFeatures
  <2>2. /\ i \in DOMAIN args /\ args[i].switch = feature
        /\ \A j \in DOMAIN args : i < j => args[j].switch # feature
    BY <2>1, LastOfASwitch
  <2>3. DisablesFeatures(args[i])
    BY <1>8, <2>2 DEF DisablesFeatures
  <2>4. Len(args) \in Nat /\ DOMAIN args = 1..Len(args)
    BY LenProperties
  <2> HIDE DEF i
  <2>5. ToSet(Features(args)) = disabled
    BY <1>3, FeaturesAreMerged
  <2>6. Features(args) # <<>>
    BY <1>8, <2>5 DEF ToSet
  <2>7. \A j \in DOMAIN args : DisablesFeatures(args[j]) => j <= i
    <3>1. \A j \in DOMAIN args : ~(i < j) => j <= i
      BY <2>2, <2>4
    <3> QED  BY <2>2, <3>1 DEF DisablesFeatures
  <2>8. i \in MergeKeeps(args) /\ MergedArg(args, i) = m
    BY <2>2, <2>3, <2>6, <2>7 DEF MergeKeeps, MergedArg
  <2>9. m.switch = feature /\ m.values = Features(args)
    BY DEF Arg
  <2>10. ASSUME NEW j \in MergeKeeps(args), i < j
         PROVE  MergedArg(args, j).switch # MergedArg(args, i).switch
    <3>1. j \in DOMAIN args /\ args[j].switch # feature
      BY <2>2, <2>10 DEF MergeKeeps
    <3> QED  BY <2>8, <2>9, <3>1 DEF MergedArg, DisablesFeatures
  <2>11. PICK k \in DOMAIN normal : normal[k] = m
    BY <2>8, <2>10, LastOfASwitchStays DEF normal
  <2> HIDE DEF m
  <2>12. feature \in switches(normal) /\ one(feature) = m
    BY <1>6, <2>9, <2>11
  <2> QED  BY <2>5, <2>9, <2>12
<1>9. \A s \in switches(args) \ {feature} : s \in switches(normal) /\ one(s) = args[lastOf(s)]
  BY <1>7
<1>10. disabled # {} /\ args[lastOf(feature)].values # <<>>
         => feature \in switches(normal) /\ ToSet(one(feature).values) = disabled
  BY <1>8
<1> QED
  BY <1>2, <1>4, <1>5, <1>9, <1>10, Zenon DEF ArgsAreNormal, normal, disabled

-----------------------------------------------------------------------------
(***************************************************************************)
(* The policy's verdicts.                                                  *)
(***************************************************************************)

\* What is under a domain under a domain is under that one.
LEMMA UnderIsTransitive ==
  ASSUME NEW L, NEW a \in Seq(L), NEW b \in Seq(L), NEW c \in Seq(L), HostUnder(a, b), HostUnder(b, c)
  PROVE  HostUnder(a, c)
<1> DEFINE p == Len(a)
           q == Len(b)
           r == Len(c)
<1>1. p \in Nat /\ q \in Nat /\ r \in Nat /\ p >= q /\ q >= r
  BY DEF HostUnder
<1>2. \A k \in 1..q : b[k] = a[p - q + k]
  <2>1. b = SubSeq(a, p - q + 1, p)
    BY DEF HostUnder
  <2>2. \A k \in 1..q : SubSeq(a, p - q + 1, p)[k] = a[p - q + 1 + k - 1]
    BY <1>1
  <2>3. \A k \in 1..q : p - q + 1 + k - 1 = p - q + k
    BY <1>1
  <2> QED  BY <2>1, <2>2, <2>3
<1>3. \A k \in 1..r : c[k] = b[q - r + k]
  <2>1. c = SubSeq(b, q - r + 1, q)
    BY DEF HostUnder
  <2>2. \A k \in 1..r : SubSeq(b, q - r + 1, q)[k] = b[q - r + 1 + k - 1]
    BY <1>1
  <2>3. \A k \in 1..r : q - r + 1 + k - 1 = q - r + k
    BY <1>1
  <2> QED  BY <2>1, <2>2, <2>3
<1>4. \A k \in 1..r : c[k] = a[p - r + k]
  <2> SUFFICES ASSUME NEW k \in 1..r  PROVE c[k] = a[p - r + k]
    OBVIOUS
  <2>1. q - r + k \in 1..q /\ p - q + (q - r + k) = p - r + k
    BY <1>1
  <2> QED  BY <1>2, <1>3, <2>1
<1>5. SubSeq(a, p - r + 1, p) \in Seq(L) /\ Len(SubSeq(a, p - r + 1, p)) = r
  BY <1>1
<1>6. \A k \in 1..r : SubSeq(a, p - r + 1, p)[k] = c[k]
  <2>1. \A k \in 1..r : SubSeq(a, p - r + 1, p)[k] = a[p - r + 1 + k - 1]
    BY <1>1
  <2>2. \A k \in 1..r : p - r + 1 + k - 1 = p - r + k
    BY <1>1
  <2> QED  BY <1>4, <2>1, <2>2
<1>7. SubSeq(a, p - r + 1, p) = c
  BY <1>5, <1>6
<1> QED  BY <1>1, <1>7 DEF HostUnder

\* A "*.domain" pattern matches whatever is under a host it matches
\* (is_url_pattern_match): who may see a site may see its subdomains too.
THEOREM SubdomainsGoTogether ==
  ASSUME NEW L, NEW p, NEW url, NEW sub, p.domain \in Seq(L), url.host \in Seq(L), sub.host \in Seq(L),
         p.kind = "subdomains", PatternMatches(p, url),
         sub.scheme \in {"http", "https"}, HostUnder(sub.host, url.host)
  PROVE  PatternMatches(p, sub)
<1>1. HostUnder(url.host, p.domain)
  BY DEF PatternMatches
<1>2. HostUnder(sub.host, p.domain)
  BY <1>1, UnderIsTransitive
<1> QED  BY <1>2 DEF PatternMatches

\* A policy with more patterns: a longer block list forbids what the shorter one
\* did, a longer allow list (that was not empty) allows what the shorter one
\* did, and beside an allow list the block list is not looked at
\* (UrlAccessPolicy::is_allowed).
THEOREM PatternsOnlyAdd ==
  ASSUME NEW policy, NEW more, NEW url, more.blockIps = policy.blockIps
  PROVE  /\ policy.allowed = more.allowed /\ policy.prohibited \subseteq more.prohibited
              => (IsAllowed(more, url) => IsAllowed(policy, url))
         /\ policy.allowed # {} /\ policy.allowed \subseteq more.allowed
              => (IsAllowed(policy, url) => IsAllowed(more, url))
<1>1. policy.prohibited \subseteq more.prohibited
        => (AnyMatches(policy.prohibited, url) => AnyMatches(more.prohibited, url))
  BY DEF AnyMatches
<1>2. policy.allowed \subseteq more.allowed
        => (AnyMatches(policy.allowed, url) => AnyMatches(more.allowed, url))
  BY DEF AnyMatches
<1>3. ASSUME policy.allowed = more.allowed, policy.prohibited \subseteq more.prohibited, IsAllowed(more, url)
      PROVE  IsAllowed(policy, url)
  BY <1>1, <1>3 DEF IsAllowed
<1>4. ASSUME policy.allowed # {}, policy.allowed \subseteq more.allowed, IsAllowed(policy, url)
      PROVE  IsAllowed(more, url)
  BY <1>2, <1>4 DEF IsAllowed
<1> QED  BY <1>3, <1>4

\* The reason given for a URL that is not allowed is why it is not: block_reason
\* decides again, in another order than is_allowed, and the two agree (a URL
\* without a host, which no list allows, is blamed on the block list).
THEOREM ReasonsAreTrue ==
  ASSUME NEW policy, NEW url, url.form \in {"internal", "invalid", "data", "nohost", "web"},
         ~IsAllowed(policy, url)
  PROVE  /\ url.form \in {"invalid", "nohost", "web"}
         /\ BlockReason(policy, url) = "invalid_url" <=> url.form = "invalid"
         /\ BlockReason(policy, url) = "ip_address_blocked" => policy.blockIps /\ IsIpAddress(url)
         /\ BlockReason(policy, url) = "not_in_allowed_domains"
              => policy.allowed # {} /\ (url.form = "web" => ~AnyMatches(policy.allowed, url))
         /\ BlockReason(policy, url) = "in_prohibited_domains"
              => policy.allowed = {} /\ (url.form = "web" => AnyMatches(policy.prohibited, url))
<1>1. url.form \in {"invalid", "nohost", "web"}
  BY DEF IsAllowed
<1>2. CASE url.form = "invalid"
  <2>1. BlockReason(policy, url) = "invalid_url"
    BY <1>2 DEF BlockReason
  <2> QED  BY <1>2, <2>1
<1>3. CASE url.form # "invalid" /\ policy.blockIps /\ IsIpAddress(url)
  <2>1. BlockReason(policy, url) = "ip_address_blocked"
    BY <1>3 DEF BlockReason
  <2> QED  BY <1>1, <1>3, <2>1
<1>4. CASE url.form # "invalid" /\ ~(policy.blockIps /\ IsIpAddress(url)) /\ policy.allowed # {}
  <2>1. BlockReason(policy, url) = "not_in_allowed_domains"
    BY <1>4 DEF BlockReason
  <2>2. url.form = "web" => ~AnyMatches(policy.allowed, url)
    BY <1>4 DEF IsAllowed
  <2> QED  BY <1>1, <1>4, <2>1, <2>2
<1>5. CASE url.form # "invalid" /\ ~(policy.blockIps /\ IsIpAddress(url)) /\ policy.allowed = {}
  <2>1. BlockReason(policy, url) = "in_prohibited_domains"
    BY <1>5 DEF BlockReason
  <2>2. url.form = "web" => AnyMatches(policy.prohibited, url)
    BY <1>5 DEF IsAllowed
  <2> QED  BY <1>1, <1>5, <2>1, <2>2
<1> QED  BY <1>2, <1>3, <1>4, <1>5
=============================================================================
