----------------------------- MODULE MCM3Session -----------------------------
(* Instances of M3Session for TLC.                                          *)
EXTENDS M3Session

\* configure_migration_election binds an order that the first authority heads.
Ids == {1, 2, 3}
Order == <<1, 3, 2>>

FourIds == {1, 2, 3, 4}
FourOrder == <<4, 3, 2, 1>>
=============================================================================
