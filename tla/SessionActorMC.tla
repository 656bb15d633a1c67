--------------------------- MODULE SessionActorMC ---------------------------
(* Small instances of SessionActor.                                        *)
EXTENDS SessionActor, TLC

Symmetry == Permutations(Attachments) \cup Permutations(Operations)
              \cup Permutations(Colors)
=============================================================================
