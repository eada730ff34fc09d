----------------------------- MODULE MCIdentity -----------------------------
(***************************************************************************)
(* Identity for TLC: one user there is, one address two may want.          *)
(***************************************************************************)
EXTENDS Identity

TLC == INSTANCE TLC

CONSTANTS u1, e1

OneUser == u1 :> [NewUser(e1) EXCEPT !.status = "active", !.verified = TRUE]

Keys == User \union Session \union Challenge

Symmetry == TLC!Permutations(Call)
=============================================================================
