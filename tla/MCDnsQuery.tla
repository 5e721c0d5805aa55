----------------------------- MODULE MCDnsQuery -----------------------------
(* Instances of DnsQuery for TLC. *)
EXTENDS DnsQuery, TLC

CONSTANTS q1, q2, q3, q4, r1, r2, p1, p2, name

FourQueries == {q1, q2, q3, q4}
OneResolver == {r1}
TwoResolvers == {r1, r2}
TwoPorts == {p1, p2}
Names == {name}

(* Objects and ports are interchangeable. *)
Interchange == Permutations(Query) \cup Permutations(Port)
=============================================================================
