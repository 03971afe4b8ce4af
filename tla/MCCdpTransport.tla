--------------------------- MODULE MCCdpTransport ---------------------------
(* Small instances of CdpTransport for TLC.                                 *)
EXTENDS CdpTransport

CONSTANTS c1, c2

TwoCallers == {c1, c2}
OneCaller == {c1}
Nobody == {}
SecondCaller == {c2}
=============================================================================
