------------------------------- MODULE DaemonMC ------------------------------
(***************************************************************************)
(* What the daemon keeps, on small instances: SessionRegistry, and         *)
(* DeviceAuthorization with a store that may answer after its callers have *)
(* given up.                                                               *)
(*                                                                         *)
(* `part' says which of them a behaviour is about.  SessionRegistry has    *)
(* its own variables; those of the other are the slots s1 to s14.  What a  *)
(* behaviour is not about stays at rest.                                   *)
(***************************************************************************)
EXTENDS SessionRegistry, TLC

VARIABLES part, s1, s2, s3, s4, s5, s6, s7, s8, s9, s10, s11, s12, s13, s14

slots == <<s1, s2, s3, s4, s5, s6, s7, s8, s9, s10, s11, s12, s13, s14>>
runVars == <<vars, part, slots>>

\* Creations, identities and stop requests are interchangeable; so are the
\* names other than Main.
Symmetry == Permutations(Creations) \cup Permutations(Ids)
              \cup Permutations(Stoppers) \cup Permutations(Names \ {Main})

-----------------------------------------------------------------------------
(* A device with two handshakes, two offers and a revocation.              *)

Late == INSTANCE DeviceAuthorization WITH
  Inbound <- {"c"}, Outbound <- {}, Revokers <- {"r"}, Pairers <- Creations,
  Offers <- Ids, MaxGeneration <- 4,
  row <- s1, entry <- s2, lock <- s3, store <- s4, candidate <- s5,
  effect <- s6, actor <- s7, attached <- s8, revoke <- s9, pair <- s10,
  offer <- s11, granted <- s12, revoked <- s13, behind <- s14

-----------------------------------------------------------------------------
RunInit ==
  /\ Init
  /\ \/ /\ part = "registry"
        /\ s1 = 0 /\ s2 = 0 /\ s3 = 0 /\ s4 = 0 /\ s5 = 0 /\ s6 = 0 /\ s7 = 0
        /\ s8 = 0 /\ s9 = 0 /\ s10 = 0 /\ s11 = 0 /\ s12 = 0 /\ s13 = 0 /\ s14 = 0
     \/ part = "late" /\ Late!Init

RunNext ==
  \/ part = "registry" /\ Next /\ UNCHANGED <<part, slots>>
  \/ part = "late" /\ Late!Next /\ UNCHANGED <<vars, part>>

RunSpec == RunInit /\ [][RunNext]_runVars

-----------------------------------------------------------------------------
\* DeviceAuthorization with a store that answers late: effects see the
\* authorization they were admitted with, memory follows the disk, an offer is
\* used once, and nothing of a revoked device is left.
LateStoreIsSafe ==
  part = "late" =>
    /\ Late!EffectAuthorized /\ Late!DurableFirst
    /\ Late!OfferSingleUse /\ Late!RevokedIsGone
=============================================================================
