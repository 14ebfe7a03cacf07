-------------------------- MODULE MCNftMarketplace --------------------------
(* NftMarketplace on three users: a token can come back to a former owner. *)
EXTENDS NftMarketplace, TLC

Symmetry == Permutations(Users)
=============================================================================
