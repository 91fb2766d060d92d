---------------------------- MODULE MCInitialize ----------------------------
(***************************************************************************)
(* Instances of Initialize for TLC.  Account and mint addresses are        *)
(* interchangeable; users and derived addresses are not.                   *)
(***************************************************************************)
EXTENDS Initialize, TLC

CONSTANTS p, q, authorityOfP, authorityOfQ

MCSwapAuthority(x) == IF x = p THEN authorityOfP ELSE authorityOfQ

Addresses == Permutations(Account) \cup Permutations(Mint)
=============================================================================
