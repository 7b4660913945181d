--------------------------- MODULE MCForgeDelivery ---------------------------
(***************************************************************************)
(* A small instance of ForgeDelivery for TLC: every call may fail.         *)
(* Executors that outlive a restart are left to Delivery, where they       *)
(* report; Forge itself sees no more of one than the pid it occupies.      *)
(***************************************************************************)
EXTENDS ForgeDelivery

AnyCall == FailurePoints \ {"orphan"}
=============================================================================
