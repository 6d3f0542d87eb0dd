--------------------------- MODULE ExecutionOwner ---------------------------
(***************************************************************************)
(* The execution_owner lease of the registry database and the              *)
(* ExecutionOwnership value of every web host that shares the database     *)
(* (execution_ownership.rs over execution_recovery.rs).                    *)
(*                                                                         *)
(* Time is counted in heartbeat periods (HEARTBEAT_EVERY, 10 s): Tick      *)
(* closes a period once every running host has either run its heartbeat    *)
(* or missed it.  `age` is the number of periods since the row's           *)
(* heartbeat_unix_ms was written, so a lease is stale when                 *)
(* age > StaleAfter (30 s = 3 periods in the code).                        *)
(***************************************************************************)
EXTENDS Integers

CONSTANTS Hosts,        \* boot ids; a restarted process is another boot
          NoHost,       \* the row is absent
          StaleAfter,   \* STALE_AFTER_MS in heartbeat periods
          MaxFailures   \* heartbeat errors in a row that give the lease up

ASSUME OwnerAssumption == /\ NoHost \notin Hosts
                          /\ StaleAfter \in Nat
                          /\ MaxFailures \in Nat \ {0}
                          /\ MaxFailures <= StaleAfter

VARIABLES owner,     \* execution_owner.boot_id, or NoHost
          age,       \* periods since execution_owner.heartbeat_unix_ms
          status,    \* "new", "up" or "gone" process of each boot
          lost,      \* ExecutionOwnership.lost
          failures,  \* consecutive_heartbeat_failures
          pc,        \* where a try_claim of the host stands: "second" before
                     \* its second claim, "flags" after a claim committed
          beat,      \* the heartbeat of this period is behind the host
          silent     \* the host missed a heartbeat since its last success

vars == <<owner, age, status, lost, failures, pc, beat, silent>>

-----------------------------------------------------------------------------

(* The types of the variables.  The age of the row never grows past the    *)
(* first stale value, and heartbeat failures are counted up from zero      *)
(* (consecutive_heartbeat_failures).                                       *)
TypeOK == /\ owner \in Hosts \cup {NoHost}
          /\ age \in 0..(StaleAfter + 1)
          /\ status \in [Hosts -> {"new", "up", "gone"}]
          /\ lost \in [Hosts -> BOOLEAN]
          /\ failures \in [Hosts -> Nat]
          /\ pc \in [Hosts -> {"idle", "second", "flags"}]
          /\ beat \in [Hosts -> BOOLEAN]
          /\ silent \in [Hosts -> BOOLEAN]

Init == /\ owner = NoHost
        /\ age = 0
        /\ status = [h \in Hosts |-> "new"]
        /\ lost = [h \in Hosts |-> FALSE]
        /\ failures = [h \in Hosts |-> 0]
        /\ pc = [h \in Hosts |-> "idle"]
        /\ beat = [h \in Hosts |-> TRUE]
        /\ silent = [h \in Hosts |-> FALSE]

Up(h) == status[h] = "up"

Stale == age > StaleAfter

(* ExecutionOwnership::new: a fresh boot id, no lease claimed yet. *)
Start(h) == /\ status[h] = "new"
            /\ status' = [status EXCEPT ![h] = "up"]
            /\ UNCHANGED <<owner, age, lost, failures, pc, beat, silent>>

(* claim_execution_owner committed for h: the row is the caller's with a  *)
(* fresh heartbeat.  try_claim stores its flags after that (StoreFlags).   *)
Acquired(h) == /\ owner' = h
               /\ age' = 0
               /\ silent' = [silent EXCEPT ![h] = FALSE]
               /\ pc' = [pc EXCEPT ![h] = "flags"]

(* Mutant: a lease exactly STALE_AFTER_MS old already counts as stale. *)
HeldByOtherInclusive(h) == owner \notin {h, NoHost} /\ age < StaleAfter

(* claim_execution_owner with the stale limit answers HeldBy. *)
HeldByOther(h) == owner \notin {h, NoHost} /\ ~Stale

(* The probe of the recorded holder may prove it gone only when it is; it  *)
(* may also be inconclusive (the pid was reused).                          *)
ProbedDead(g) == status[g] = "gone"

(* try_claim up to the second claim: acquired, refused, or the holder was  *)
(* proved dead and the second claim follows in a transaction of its own.   *)
FirstClaim(h) ==
    \/ /\ ~HeldByOther(h)
       /\ Acquired(h)
    \/ /\ HeldByOther(h)
       /\ ProbedDead(owner)
       /\ pc' = [pc EXCEPT ![h] = "second"]
       /\ UNCHANGED <<owner, age, silent>>
    \/ UNCHANGED <<owner, age, silent, pc>>

(* The claim with stale limit -1: whatever row it finds is taken over,     *)
(* unless the transaction itself fails.                                    *)
SecondClaim(h) ==
    /\ Up(h) /\ pc[h] = "second"
    /\ \/ Acquired(h)
       \/ /\ pc' = [pc EXCEPT ![h] = "idle"]
          /\ UNCHANGED <<owner, age, silent>>
    /\ UNCHANGED <<status, lost, failures, beat>>

(* try_claim after Acquired: the flags are stored, in memory, by a thread  *)
(* that may have been overtaken by the heartbeat task.                     *)
StoreFlags(h) == /\ Up(h) /\ pc[h] = "flags"
                 /\ pc' = [pc EXCEPT ![h] = "idle"]
                 /\ lost' = [lost EXCEPT ![h] = FALSE]
                 /\ failures' = [failures EXCEPT ![h] = 0]
                 /\ UNCHANGED <<owner, age, status, beat, silent>>

(* ensure_owner: an attach, or the startup dispatch, asks for the lease. *)
EnsureOwner(h) == /\ Up(h) /\ pc[h] = "idle"
                  /\ FirstClaim(h)
                  /\ UNCHANGED <<status, lost, failures, beat>>

(* Mutant: heartbeat() of a host that lost the lease just returns. *)
HeartbeatGivesUp(h) ==
    /\ Up(h) /\ ~beat[h] /\ lost[h] /\ pc[h] = "idle"
    /\ beat' = [beat EXCEPT ![h] = TRUE]
    /\ UNCHANGED <<owner, age, status, lost, failures, pc, silent>>

(* Mutant: the flag is cleared before the claim instead of after it. *)
HeartbeatClearsFirst(h) ==
    /\ Up(h) /\ ~beat[h] /\ lost[h] /\ pc[h] = "idle"
    /\ FirstClaim(h)
    /\ beat' = [beat EXCEPT ![h] = TRUE]
    /\ lost' = [lost EXCEPT ![h] = FALSE]
    /\ UNCHANGED <<status, failures>>

(* heartbeat() of a host that lost the lease: it tries to claim again. *)
HeartbeatReclaim(h) ==
    /\ Up(h) /\ ~beat[h] /\ lost[h] /\ pc[h] = "idle"
    /\ FirstClaim(h)
    /\ beat' = [beat EXCEPT ![h] = TRUE]
    /\ UNCHANGED <<status, lost, failures>>

(* heartbeat_execution_owner answered: the row is still ours (and its      *)
(* heartbeat is renewed), or another host holds it.                        *)
HeartbeatAnswered(h) ==
    /\ Up(h) /\ ~beat[h] /\ ~lost[h]
    /\ IF owner = h
       THEN /\ age' = 0
            /\ failures' = [failures EXCEPT ![h] = 0]
            /\ silent' = [silent EXCEPT ![h] = FALSE]
            /\ UNCHANGED lost
       ELSE /\ lost' = [lost EXCEPT ![h] = TRUE]
            /\ UNCHANGED <<age, failures, silent>>
    /\ beat' = [beat EXCEPT ![h] = TRUE]
    /\ UNCHANGED <<owner, status, pc>>

(* Mutant: the value before the increment is compared with the limit. *)
HeartbeatFailedLate(h) ==
    /\ Up(h) /\ ~beat[h] /\ ~lost[h]
    /\ failures' = [failures EXCEPT ![h] = @ + 1]
    /\ lost' = IF failures[h] >= MaxFailures
               THEN [lost EXCEPT ![h] = TRUE] ELSE lost
    /\ beat' = [beat EXCEPT ![h] = TRUE]
    /\ UNCHANGED <<owner, age, status, pc, silent>>

(* Mutant: failures are counted down. *)
HeartbeatFailedDown(h) ==
    /\ Up(h) /\ ~beat[h] /\ ~lost[h]
    /\ failures' = [failures EXCEPT ![h] = @ - 1]
    /\ lost' = IF failures[h] + 1 >= MaxFailures
               THEN [lost EXCEPT ![h] = TRUE] ELSE lost
    /\ beat' = [beat EXCEPT ![h] = TRUE]
    /\ UNCHANGED <<owner, age, status, pc, silent>>

(* heartbeat_execution_owner failed: the third error in a row gives up. *)
HeartbeatFailed(h) ==
    /\ Up(h) /\ ~beat[h] /\ ~lost[h]
    /\ failures' = [failures EXCEPT ![h] = @ + 1]
    /\ lost' = IF failures[h] + 1 >= MaxFailures
               THEN [lost EXCEPT ![h] = TRUE] ELSE lost
    /\ beat' = [beat EXCEPT ![h] = TRUE]
    /\ UNCHANGED <<owner, age, status, pc, silent>>

(* The heartbeat task did not run in this period: the process was paused,  *)
(* or the task starved behind a long sweep.                                *)
MissHeartbeat(h) == /\ Up(h) /\ ~beat[h]
                    /\ beat' = [beat EXCEPT ![h] = TRUE]
                    /\ silent' = [silent EXCEPT ![h] = TRUE]
                    /\ UNCHANGED <<owner, age, status, lost, failures, pc>>

(* One heartbeat period passes.  Storing the flags of a committed claim    *)
(* is assumed to take less than a period.                                  *)
Tick == /\ \A h \in Hosts : Up(h) => beat[h] /\ pc[h] # "flags"
        /\ beat' = [h \in Hosts |-> FALSE]
        /\ age' = IF owner = NoHost THEN 0
                  ELSE IF Stale THEN age ELSE age + 1
        /\ UNCHANGED <<owner, status, lost, failures, pc, silent>>

(* The process ends without running destructors (a crash, or exit(0)). *)
Crash(h) == /\ Up(h)
            /\ status' = [status EXCEPT ![h] = "gone"]
            /\ UNCHANGED <<owner, age, lost, failures, pc, beat, silent>>

(* The ownership value is dropped: release_execution_owner. *)
Stop(h) == /\ Up(h)
           /\ status' = [status EXCEPT ![h] = "gone"]
           /\ owner' = IF owner = h THEN NoHost ELSE owner
           /\ age' = IF owner = h THEN 0 ELSE age
           /\ UNCHANGED <<lost, failures, pc, beat, silent>>

Next == \/ Tick
        \/ \E h \in Hosts : \/ Start(h) \/ EnsureOwner(h) \/ SecondClaim(h) \/ StoreFlags(h)
                            \/ HeartbeatReclaim(h) \/ HeartbeatAnswered(h)
                            \/ HeartbeatFailed(h) \/ MissHeartbeat(h)
                            \/ Crash(h) \/ Stop(h)

Spec == Init /\ [][Next]_vars

(* Time passes.  The heartbeat loop runs as long as the process, and       *)
(* neither store errors nor pauses last forever: a heartbeat or claim that *)
(* is possible again and again is eventually answered.                     *)
Fairness ==
    /\ SF_vars(Tick)
    /\ \A h \in Hosts :
          /\ SF_vars(HeartbeatAnswered(h))
          /\ SF_vars(HeartbeatReclaim(h) /\ pc'[h] # "idle")
          /\ SF_vars(SecondClaim(h) /\ owner' = h)
          /\ WF_vars(StoreFlags(h))
          /\ WF_vars(MissHeartbeat(h))

FairSpec == Spec /\ Fairness

-----------------------------------------------------------------------------

(* A host that runs its heartbeats and believes in its lease. *)
Healthy(h) == Up(h) /\ ~lost[h] /\ ~silent[h]

(* The age of a healthy owner's row is explained by failed heartbeats. *)
AgeExplained == \A h \in Hosts :
    owner = h /\ Healthy(h) =>
        age <= failures[h] + (IF beat[h] THEN 0 ELSE 1)

(* A host that believes in its lease has not failed MaxFailures times. *)
FailuresBounded == \A h \in Hosts : ~lost[h] => failures[h] < MaxFailures

(* A row claimed by h is fresh until h has stored its flags. *)
FlagsFresh == \A h \in Hosts :
    Up(h) /\ pc[h] = "flags" /\ owner = h => age = 0

(* A boot that was not started has touched nothing. *)
NewUntouched == \A h \in Hosts :
    status[h] = "new" => owner # h /\ pc[h] = "idle"

IInv == /\ TypeOK
        /\ AgeExplained
        /\ FailuresBounded
        /\ FlagsFresh
        /\ NewUntouched

(* A host whose heartbeats run, even when every one of them fails, gives   *)
(* its lease up before another host may regard it as stale: the three      *)
(* failures of 10 s each fit in the 30 s of STALE_AFTER_MS.                *)
HealthyOwnerFresh == \A h \in Hosts : owner = h /\ Healthy(h) => ~Stale

(* Outside the second claim of try_claim, a host takes over the lease of   *)
(* another only when that host is gone, was silent for a period, or had    *)
(* given the lease up by itself.                                           *)
TakeoverJustified ==
    [][\A g, h \in Hosts :
          owner = g /\ owner' = h /\ g # h /\ pc[h] # "second"
             => ~Healthy(g)]_vars

(* durable-execution.md: only a dead or silent owner is taken over; "a     *)
(* failed or inconclusive check does not authorize takeover".  The second  *)
(* claim does not repeat the check on the row it replaces.                 *)
OnlyUnhealthyReplaced ==
    [][\A g, h \in Hosts : owner = g /\ owner' = h /\ g # h
                               => ~Healthy(g)]_vars

(* A host that believes in a lease it does not hold finds out (or gets     *)
(* the lease, or ends): its heartbeat reports the row of another.          *)
DisplacedLearns ==
    \A h \in Hosts : (Up(h) /\ ~lost[h] /\ owner # h)
                         ~> (lost[h] \/ owner = h \/ ~Up(h))

(* A lease whose owner's process is gone passes to a running host, without *)
(* any attach: the heartbeat of a host that is not the owner claims it.    *)
DeadLeaseReplaced ==
    (owner \in Hosts /\ status[owner] = "gone")
        ~> (\/ owner \in Hosts /\ Up(owner)
           \/ \A h \in Hosts : ~Up(h))

(* Who has the lease, and who believes to have it, comes to agree with who *)
(* runs (heartbeat, try_claim).                                            *)
LeaseSettles == DisplacedLearns /\ DeadLeaseReplaced

(* The detailed protocol implements the abstract lease of TaskSession. *)
LeaseSide == INSTANCE Lease WITH claimed <- [h \in Hosts |-> pc[h] = "flags"]

ImplementsLease == LeaseSide!LeaseSpec
=============================================================================
