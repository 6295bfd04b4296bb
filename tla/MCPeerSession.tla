---------------------------- MODULE MCPeerSession ----------------------------
(* Instances of PeerSession for TLC.                                        *)
EXTENDS PeerSession

\* The election order is bound on wire 2.0 alone, so here the lowest surviving
\* id succeeds.  The first authority is the highest id: every other player
\* comes before it.
NoOrder == <<>>
Ids == {1, 2, 3}

\* One shot of player 2: it can be a follower of 3 or of 1, or the authority.
ShotOfTwo == {<<2, 1>>}
=============================================================================
