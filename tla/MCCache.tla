------------------------------ MODULE MCCache ------------------------------
(***************************************************************************)
(* Small instances of CacheOnce for TLC.                                   *)
(***************************************************************************)
EXTENDS CacheOnce

\* Expired for a second; half a second; one and a half.
SomeTtls == {-2, 1, 3}
=============================================================================
