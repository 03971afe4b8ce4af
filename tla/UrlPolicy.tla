------------------------------ MODULE UrlPolicy ------------------------------
(***************************************************************************)
(* The URL access policy of a browser profile (policy.rs): which addresses *)
(* a page may show, and the reason given for the others.                   *)
(*                                                                         *)
(* A URL is a record: its form ("internal" for the pages of Chrome that    *)
(* are always allowed, "invalid" when it does not parse, "data" for data:  *)
(* and blob:, "nohost", "web"), its scheme, the labels of its host, and    *)
(* octets, the values of those labels when each of them is a number in     *)
(* decimal, octal or hexadecimal (ip6 for a bracketed IPv6 host).  A       *)
(* pattern is the record of what is_url_pattern_match tells apart; a glob  *)
(* or a "scheme://" prefix is abstracted to the URLs it matches.           *)
(***************************************************************************)
EXTENDS Naturals, Sequences, FiniteSets

CONSTANT OctetBase      \* values of an address octet (256 in the code)

\* A numeric host names an address when its last part fits the octets the
\* parts before it leave over.
NumericAddress(octets) ==
    LET n == Len(octets) IN
    /\ n \in 1..4
    /\ \A i \in 1..(n - 1) : octets[i] < OctetBase
    /\ octets[n] < OctetBase ^ (5 - n)

IsIpAddress(url) == url.ip6 \/ NumericAddress(url.octets)

\* host = domain, or host ends with ".domain"
HostUnder(host, domain) ==
    /\ Len(host) >= Len(domain)
    /\ SubSeq(host, Len(host) - Len(domain) + 1, Len(host)) = domain

IsRootDomain(domain) == Len(domain) = 2

PatternMatches(p, url) ==
    \/ p.kind = "subdomains" /\ url.scheme \in {"http", "https"}
                             /\ HostUnder(url.host, p.domain)
    \/ p.kind \in {"glob", "prefix"} /\ url \in p.matches
    \/ p.kind = "host"
       /\ \/ url.host = p.domain
          \/ IsRootDomain(p.domain) /\ url.host = <<"www">> \o p.domain

AnyMatches(patterns, url) == \E p \in patterns : PatternMatches(p, url)

IsUnrestricted(policy) ==
    policy.allowed = {} /\ policy.prohibited = {} /\ ~policy.blockIps

IsAllowed(policy, url) ==
    \/ url.form \in {"internal", "data"}
    \/ /\ url.form = "web"
       /\ ~(policy.blockIps /\ IsIpAddress(url))
       /\ IF policy.allowed # {}
          THEN AnyMatches(policy.allowed, url)
          ELSE ~AnyMatches(policy.prohibited, url)

BlockReason(policy, url) ==
    CASE url.form = "invalid" -> "invalid_url"
      [] url.form # "invalid" /\ policy.blockIps /\ IsIpAddress(url) -> "ip_address_blocked"
      [] url.form # "invalid" /\ ~(policy.blockIps /\ IsIpAddress(url))
         /\ policy.allowed # {} -> "not_in_allowed_domains"
      [] OTHER -> "in_prohibited_domains"
=============================================================================
