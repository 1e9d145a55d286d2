------------------------------ MODULE MCGossip ------------------------------
(* Instances of Gossip for TLC: small networks of up to four peers.        *)
EXTENDS Gossip

CONSTANTS o, a, b, c

Both(n, m) == {<<n, m>>, <<m, n>>}

Pair     == Both(o, a)
Triangle == Both(o, a) \cup Both(o, b) \cup Both(a, b)
Diamond  == Both(o, a) \cup Both(o, b) \cup Both(a, c) \cup Both(b, c)
Late     == {<<o, b>>, <<b, a>>}
FailsAtA == {<<a, 1>>}
=============================================================================
