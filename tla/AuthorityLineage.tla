--------------------------- MODULE AuthorityLineage ---------------------------
(***************************************************************************)
(* What a session promises about authority, whatever the wire: every       *)
(* player starts under the elected authority in epoch 1; a player that is  *)
(* not its own authority may pass to the next epoch, under anybody, or     *)
(* move to a lower id inside its epoch; a player that is its own authority *)
(* stays so.  Wire 1.2 (PeerSession) and wire 2.0 (M3Session) implement it.*)
(***************************************************************************)
EXTENDS Naturals

CONSTANTS Player, FirstAuthority

VARIABLES authority, epoch

vars == <<authority, epoch>>

Init ==
    /\ authority = [p \in Player |-> FirstAuthority]
    /\ epoch = [p \in Player |-> 1]

\* The authority of p is lost; p enters the next epoch under a.
Succeed(p, a) ==
    /\ authority[p] # p
    /\ authority' = [authority EXCEPT ![p] = a]
    /\ epoch' = [epoch EXCEPT ![p] = @ + 1]

\* A split election converges toward the lower id.
Converge(p, a) ==
    /\ authority[p] # p /\ a < authority[p]
    /\ authority' = [authority EXCEPT ![p] = a]
    /\ UNCHANGED epoch

Next == \E p, a \in Player : Succeed(p, a) \/ Converge(p, a)

Spec == Init /\ [][Next]_vars
=============================================================================
