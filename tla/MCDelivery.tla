------------------------------ MODULE MCDelivery ------------------------------
(* Small instances of Delivery for TLC. *)
EXTENDS Delivery, TLC

CONSTANTS e1, e2

OneEnvelope  == <<e1>>
TwoEnvelopes == <<e1, e2>>

AnyFault == {"lookup", "launch", "store", "refetch", "resume_store",
             "inject", "crash", "orphan"}
====================
