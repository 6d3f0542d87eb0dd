------------------------------- MODULE Lease -------------------------------
(***************************************************************************)
(* What the chat sessions of a host may rely on about the single-host      *)
(* execution lease.  At most one boot id is recorded as the owner.  A host *)
(* clears its `lost` flag only to confirm a claim of its own that the      *)
(* database committed; between the commit and the flag another host may    *)
(* already have taken the row over.  How hosts come to claim, lose and     *)
(* give up the lease (heartbeats, staleness, the probe of the recorded     *)
(* owner) is left to ExecutionOwner, which implements this specification.  *)
(***************************************************************************)
CONSTANTS Hosts,    \* the boots (one random boot id each) that may start
          NoHost    \* the execution_owner row is absent

ASSUME NoHostAssumption == NoHost \notin Hosts

VARIABLES owner,    \* execution_owner.boot_id
          lost,     \* ExecutionOwnership.lost of every boot
          claimed   \* a committed claim whose flags are not stored yet

leaseVars == <<owner, lost, claimed>>

LeaseTypeOK == /\ owner \in Hosts \cup {NoHost}
               /\ lost \in [Hosts -> BOOLEAN]
               /\ claimed \in [Hosts -> BOOLEAN]

LeaseInit == /\ owner = NoHost
             /\ lost = [h \in Hosts |-> FALSE]
             /\ claimed = [h \in Hosts |-> FALSE]

(* A claim transaction committed for boot h. *)
Claim(h) == /\ owner' = h
            /\ claimed' = [claimed EXCEPT ![h] = TRUE]
            /\ UNCHANGED lost

(* try_claim stores its flags after the claim answered Acquired. *)
Confirm(h) == /\ claimed[h]
              /\ claimed' = [claimed EXCEPT ![h] = FALSE]
              /\ lost' = [lost EXCEPT ![h] = FALSE]
              /\ UNCHANGED owner

(* A host notices that it was displaced, or gives up after failures. *)
GiveUp(h) == /\ lost' = [lost EXCEPT ![h] = TRUE]
             /\ UNCHANGED <<owner, claimed>>

(* The ownership value is dropped: the host deletes its own row. *)
Vacate(h) == /\ owner = h
             /\ owner' = NoHost
             /\ UNCHANGED <<lost, claimed>>

LeaseNext == \E h \in Hosts : Claim(h) \/ Confirm(h) \/ GiveUp(h) \/ Vacate(h)

LeaseSpec == LeaseInit /\ [][LeaseNext]_leaseVars
=============================================================================
