----------------------------- MODULE MCDelivery -----------------------------
(***************************************************************************)
(* Delivery of four frames, the third of which does not decode, beside two *)
(* posted messages.                                                        *)
(***************************************************************************)
EXTENDS Delivery
=============================================================================
