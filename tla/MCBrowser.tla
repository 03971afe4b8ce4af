------------------------------ MODULE MCBrowser ------------------------------
(* An instance of BrowserSession for TLC: one prohibited host. *)
EXTENDS BrowserSession

MCUrlInfo ==
    LET web(host) == [form |-> "web", scheme |-> "https", host |-> host,
                      octets |-> <<>>, ip6 |-> FALSE]
    IN [blank |-> [web(<<>>) EXCEPT !.form = "internal"],
        shop |-> web(<<"shop", "example", "com">>),
        ads |-> web(<<"ads", "example", "org">>)]
MCUrls == DOMAIN MCUrlInfo
MCPolicy == [allowed |-> {}, blockIps |-> TRUE,
             prohibited |-> {[kind |-> "subdomains", domain |-> <<"example", "org">>]}]
=============================================================================
