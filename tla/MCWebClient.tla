--------------------------- MODULE MCWebClient ---------------------------
(* Small pages for TLC: the shipped one, and one per group of controllers  *)
(* that share something.  The last is the part of node.html that is        *)
(* commented out, which has no messaging element.                          *)
EXTENDS WebClient

MCPages ==
    {<<"flash", "peerInfo", "blockchain", "dataSharing">>,
     <<"flash", "peerInfo", "messaging", "unicast", "packets", "broadcast">>,
     <<"flash", "peerInfo", "routing">>,
     <<"flash", "peerInfo", "catalog", "search">>,
     <<"flash", "peerInfo", "unicast", "packets", "naming">>}

\* A routing call goes through three stages: one click there makes as many
\* states as two elsewhere, and overlaps with the update of the start.
MCMaxClicks ==
    [p \in MCPages |-> IF \E i \in DOMAIN p : p[i] = "routing" THEN 1 ELSE 2]
==========================================================================
