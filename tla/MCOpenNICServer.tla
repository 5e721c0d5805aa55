--------------------------- MODULE MCOpenNICServer ---------------------------
(* Instances of OpenNICServer for TLC: two or three T1 resolvers, one or   *)
(* two that only dig reports, and a resolv.conf of one or two lines.       *)
EXTENDS OpenNICServer

CONSTANTS a, b, c, d, e, isp1, isp2

MCLine == {a, b, c, d, e, isp1, isp2}
OneLine == <<isp1>>
TwoLines == <<isp1, isp2>>
=============================================================================
