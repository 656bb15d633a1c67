-------------------------- MODULE ControllerLease ---------------------------
(***************************************************************************)
(* What a session promises about its input: one holder at a time, each     *)
(* grant with a higher generation than all before, input only under the    *)
(* lease that is held, and no second grant to an attachment that lost it.  *)
(* SessionActor implements it.                                             *)
(***************************************************************************)
EXTENDS Naturals

CONSTANTS Attachments, None

VARIABLES
  lease,       \* [attachment, generation] of the holder, None and 0 for nobody
  generation,  \* the highest generation drawn
  lost,        \* the attachments that have held the lease and lost it
  writer       \* the lease under which input was last written

leaseVars == <<lease, generation, lost, writer>>

NobodyHolds == [attachment |-> None, generation |-> 0]

LeaseInit ==
  /\ lease = NobodyHolds
  /\ generation = 0
  /\ lost = {}
  /\ writer = NobodyHolds

\* The holder, if any, loses the lease to a, or a finds it free.
GrantTo(a) ==
  /\ a \notin lost
  /\ generation' > generation
  /\ lease' = [attachment |-> a, generation |-> generation']
  /\ lost' = lost \cup ({lease.attachment} \ {None})
  /\ UNCHANGED writer

Release ==
  /\ lease # NobodyHolds
  /\ lease' = NobodyHolds
  /\ lost' = lost \cup {lease.attachment}
  /\ UNCHANGED <<generation, writer>>

\* A generation is drawn by a grant that then fails.
Draw ==
  /\ generation' > generation
  /\ UNCHANGED <<lease, lost, writer>>

Write ==
  /\ lease # NobodyHolds
  /\ writer' = lease
  /\ UNCHANGED <<lease, generation, lost>>

LeaseNext ==
  \/ \E a \in Attachments : GrantTo(a)
  \/ Release
  \/ Draw
  \/ Write

LeaseSpec == LeaseInit /\ [][LeaseNext]_leaseVars
=============================================================================
