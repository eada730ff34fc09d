------------------------------ MODULE EventIds ------------------------------
(***************************************************************************)
(* The eventIds by which writers, relays and consumers name an envelope.   *)
(***************************************************************************)
CONSTANT Event    \* eventIds; the relay takes their order for that of createdAt
=============================================================================
