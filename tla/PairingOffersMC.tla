-------------------------- MODULE PairingOffersMC --------------------------
(* Small instances of PairingOffers. *)
EXTENDS PairingOffers, TLC

Symmetry == Permutations(Calls) \cup Permutations(Operations)
            \cup Permutations(Prints) \cup Permutations(Ids)
            \cup Permutations(Attempts)
=============================================================================
