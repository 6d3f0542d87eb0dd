----------------------- MODULE SessionDirectoryProofs -----------------------
(* Proofs about a host: ExecutionOwner, the lease by which a process is    *)
(* one, for any set of boots and any limits that satisfy OwnerAssumption;  *)
(* then SessionDirectory, for any sets of chats and callers and any bounds. *)
EXTENDS ExecutionOwner, SessionDirectory, TLAPS

(* One step of the lease protocol keeps the types of its variables. *)
LEMMA TypeStep == TypeOK /\ [Next]_vars => TypeOK'
<1> SUFFICES ASSUME TypeOK, [Next]_vars
             PROVE  TypeOK'
  OBVIOUS
<1> USE OwnerAssumption
<1>1. CASE Tick
  BY <1>1 DEF TypeOK, Tick, Stale
<1>2. ASSUME NEW h \in Hosts, Start(h)
      PROVE  TypeOK'
  BY <1>2 DEF TypeOK, Start
<1>3. ASSUME NEW h \in Hosts, EnsureOwner(h)
      PROVE  TypeOK'
  <2>1. CASE Acquired(h)
    BY <1>3, <2>1 DEF TypeOK, EnsureOwner, Acquired
  <2>2. CASE UNCHANGED <<owner, age, silent>> /\ pc' = [pc EXCEPT ![h] = "second"]
    BY <1>3, <2>2 DEF TypeOK, EnsureOwner
  <2>3. CASE UNCHANGED <<owner, age, silent, pc>>
    BY <1>3, <2>3 DEF TypeOK, EnsureOwner
  <2> QED
    BY <1>3, <2>1, <2>2, <2>3 DEF EnsureOwner, FirstClaim
<1>4. ASSUME NEW h \in Hosts, SecondClaim(h)
      PROVE  TypeOK'
  <2>1. CASE Acquired(h)
    BY <1>4, <2>1 DEF TypeOK, SecondClaim, Acquired
  <2>2. CASE UNCHANGED <<owner, age, silent>> /\ pc' = [pc EXCEPT ![h] = "idle"]
    BY <1>4, <2>2 DEF TypeOK, SecondClaim
  <2> QED
    BY <1>4, <2>1, <2>2 DEF SecondClaim
<1>5. ASSUME NEW h \in Hosts, StoreFlags(h)
      PROVE  TypeOK'
  BY <1>5 DEF TypeOK, StoreFlags
<1>6. ASSUME NEW h \in Hosts, HeartbeatReclaim(h)
      PROVE  TypeOK'
  <2>1. CASE Acquired(h)
    BY <1>6, <2>1 DEF TypeOK, HeartbeatReclaim, Acquired
  <2>2. CASE UNCHANGED <<owner, age, silent>> /\ pc' = [pc EXCEPT ![h] = "second"]
    BY <1>6, <2>2 DEF TypeOK, HeartbeatReclaim
  <2>3. CASE UNCHANGED <<owner, age, silent, pc>>
    BY <1>6, <2>3 DEF TypeOK, HeartbeatReclaim
  <2> QED
    BY <1>6, <2>1, <2>2, <2>3 DEF HeartbeatReclaim, FirstClaim
<1>7. ASSUME NEW h \in Hosts, HeartbeatAnswered(h)
      PROVE  TypeOK'
  <2>1. CASE owner = h
    <3>1. /\ age' = 0
          /\ failures' = [failures EXCEPT ![h] = 0]
          /\ silent' = [silent EXCEPT ![h] = FALSE]
          /\ beat' = [beat EXCEPT ![h] = TRUE]
          /\ UNCHANGED <<owner, status, lost, pc>>
      BY <1>7, <2>1 DEF HeartbeatAnswered
    <3> QED
      BY <3>1 DEF TypeOK
  <2>2. CASE owner # h
    BY <1>7, <2>2 DEF TypeOK, HeartbeatAnswered
  <2> QED
    BY <2>1, <2>2
<1>8. ASSUME NEW h \in Hosts, HeartbeatFailed(h)
      PROVE  TypeOK'
  BY <1>8 DEF TypeOK, HeartbeatFailed
<1>9. ASSUME NEW h \in Hosts, MissHeartbeat(h)
      PROVE  TypeOK'
  BY <1>9 DEF TypeOK, MissHeartbeat
<1>10. ASSUME NEW h \in Hosts, Crash(h) \/ Stop(h)
       PROVE  TypeOK'
  BY <1>10 DEF TypeOK, Crash, Stop
<1>11. CASE UNCHANGED vars
  BY <1>11 DEF TypeOK, vars
<1> QED
  BY <1>1, <1>2, <1>3, <1>4, <1>5, <1>6, <1>7, <1>8, <1>9, <1>10, <1>11 DEF Next

(* The variables of the lease keep their types in every behaviour. *)
THEOREM TypeCorrect == Spec => []TypeOK
<1>1. Init => TypeOK
  BY OwnerAssumption DEF Init, TypeOK
<1> QED
  BY <1>1, TypeStep, PTL DEF Spec

(* A host that still believes in its lease failed fewer than MaxFailures   *)
(* heartbeats in a row: HeartbeatFailed gives up at the limit.             *)
LEMMA FailuresStep == TypeOK /\ FailuresBounded /\ [Next]_vars => FailuresBounded'
<1> SUFFICES ASSUME TypeOK, FailuresBounded, [Next]_vars,
                    NEW g \in Hosts, ~lost'[g]
             PROVE  failures'[g] < MaxFailures
  BY DEF FailuresBounded
<1> USE OwnerAssumption DEF TypeOK, FailuresBounded
<1>1. ASSUME NEW h \in Hosts, StoreFlags(h)
      PROVE  failures'[g] < MaxFailures
  BY <1>1 DEF StoreFlags
<1>2. ASSUME NEW h \in Hosts, HeartbeatAnswered(h)
      PROVE  failures'[g] < MaxFailures
  BY <1>2 DEF HeartbeatAnswered
<1>3. ASSUME NEW h \in Hosts, HeartbeatFailed(h)
      PROVE  failures'[g] < MaxFailures
  BY <1>3 DEF HeartbeatFailed
<1>4. CASE UNCHANGED <<lost, failures>>
  BY <1>4
<1> QED
  BY <1>1, <1>2, <1>3, <1>4
  DEF Next, vars, Tick, Start, EnsureOwner, SecondClaim, HeartbeatReclaim,
      MissHeartbeat, Crash, Stop

(* Only a boot that was started owns the row or is inside try_claim. *)
LEMMA NewStep == IInv /\ [Next]_vars => NewUntouched'
<1> SUFFICES ASSUME IInv, [Next]_vars, NEW g \in Hosts, status'[g] = "new"
             PROVE  owner' # g /\ pc'[g] = "idle"
  BY DEF NewUntouched
<1> USE OwnerAssumption DEF IInv, TypeOK, NewUntouched, Up
<1>1. ASSUME NEW h \in Hosts, Start(h)
      PROVE  owner' # g /\ pc'[g] = "idle"
  BY <1>1 DEF Start
<1>2. ASSUME NEW h \in Hosts, EnsureOwner(h) \/ HeartbeatReclaim(h)
      PROVE  owner' # g /\ pc'[g] = "idle"
  BY <1>2 DEF EnsureOwner, HeartbeatReclaim, FirstClaim, Acquired
<1>3. ASSUME NEW h \in Hosts, SecondClaim(h)
      PROVE  owner' # g /\ pc'[g] = "idle"
  BY <1>3 DEF SecondClaim, Acquired
<1>4. ASSUME NEW h \in Hosts, StoreFlags(h)
      PROVE  owner' # g /\ pc'[g] = "idle"
  BY <1>4 DEF StoreFlags
<1>5. ASSUME NEW h \in Hosts, Crash(h) \/ Stop(h)
      PROVE  owner' # g /\ pc'[g] = "idle"
  BY <1>5 DEF Crash, Stop
<1>6. CASE UNCHANGED <<owner, status, pc>>
  BY <1>6
<1> QED
  BY <1>1, <1>2, <1>3, <1>4, <1>5, <1>6
  DEF Next, vars, Tick, HeartbeatAnswered, HeartbeatFailed, MissHeartbeat

(* Between a committed claim and its flags the claimer's row does not age. *)
LEMMA FlagsStep == IInv /\ [Next]_vars => FlagsFresh'
<1> SUFFICES ASSUME IInv, [Next]_vars, NEW g \in Hosts,
                    status'[g] = "up", pc'[g] = "flags", owner' = g
             PROVE  age' = 0
  BY DEF FlagsFresh, Up
<1> USE OwnerAssumption DEF IInv, TypeOK, FlagsFresh, NewUntouched, Up
<1>1. CASE Tick
  BY <1>1 DEF Tick
<1>2. ASSUME NEW h \in Hosts, Start(h)
      PROVE  age' = 0
  BY <1>2 DEF Start
<1>3. ASSUME NEW h \in Hosts, EnsureOwner(h) \/ HeartbeatReclaim(h)
      PROVE  age' = 0
  BY <1>3 DEF EnsureOwner, HeartbeatReclaim, FirstClaim, Acquired
<1>4. ASSUME NEW h \in Hosts, SecondClaim(h)
      PROVE  age' = 0
  BY <1>4 DEF SecondClaim, Acquired
<1>5. ASSUME NEW h \in Hosts, StoreFlags(h)
      PROVE  age' = 0
  BY <1>5 DEF StoreFlags
<1>6. ASSUME NEW h \in Hosts, HeartbeatAnswered(h)
      PROVE  age' = 0
  BY <1>6 DEF HeartbeatAnswered
<1>7. ASSUME NEW h \in Hosts, Crash(h) \/ Stop(h)
      PROVE  age' = 0
  BY <1>7 DEF Crash, Stop
<1>8. CASE UNCHANGED <<owner, age, status, pc>>
  BY <1>8
<1> QED
  BY <1>1, <1>2, <1>3, <1>4, <1>5, <1>6, <1>7, <1>8
  DEF Next, vars, HeartbeatFailed, MissHeartbeat

(* The age of a healthy owner's row stays explained by its failures: Tick  *)
(* ages the row only after the owner's heartbeat of the period ran, and a  *)
(* heartbeat that does not renew the row counts a failure.                 *)
LEMMA AgeStep == IInv /\ [Next]_vars => AgeExplained'
<1> DEFINE Explained(g) == age' <= failures'[g] + (IF beat'[g] THEN 0 ELSE 1)
<1> SUFFICES ASSUME IInv, [Next]_vars, NEW g \in Hosts, owner' = g, Healthy(g)'
             PROVE  Explained(g)
  BY DEF AgeExplained
<1> USE OwnerAssumption DEF IInv, TypeOK, Healthy, Up, AgeExplained
<1>1. CASE Tick
  BY <1>1 DEF Tick, Stale
<1>2. ASSUME NEW h \in Hosts, Start(h)
      PROVE  Explained(g)
  BY <1>2 DEF Start, NewUntouched
<1>3. ASSUME NEW h \in Hosts, EnsureOwner(h)
      PROVE  Explained(g)
  <2>1. CASE Acquired(h)
    BY <1>3, <2>1 DEF EnsureOwner, Acquired
  <2>2. CASE UNCHANGED <<owner, age, silent>>
    BY <1>3, <2>2 DEF EnsureOwner
  <2> QED
    BY <1>3, <2>1, <2>2 DEF EnsureOwner, FirstClaim
<1>4. ASSUME NEW h \in Hosts, SecondClaim(h)
      PROVE  Explained(g)
  <2>1. CASE Acquired(h)
    BY <1>4, <2>1 DEF SecondClaim, Acquired
  <2>2. CASE UNCHANGED <<owner, age, silent>>
    BY <1>4, <2>2 DEF SecondClaim
  <2> QED
    BY <1>4, <2>1, <2>2 DEF SecondClaim
<1>5. ASSUME NEW h \in Hosts, StoreFlags(h)
      PROVE  Explained(g)
  BY <1>5 DEF StoreFlags, FlagsFresh
<1>6. ASSUME NEW h \in Hosts, HeartbeatReclaim(h)
      PROVE  Explained(g)
  <2>1. CASE Acquired(h)
    BY <1>6, <2>1 DEF HeartbeatReclaim, Acquired
  <2>2. CASE UNCHANGED <<owner, age, silent>>
    BY <1>6, <2>2 DEF HeartbeatReclaim
  <2> QED
    BY <1>6, <2>1, <2>2 DEF HeartbeatReclaim, FirstClaim
<1>7. ASSUME NEW h \in Hosts, HeartbeatAnswered(h)
      PROVE  Explained(g)
  BY <1>7 DEF HeartbeatAnswered
<1>8. ASSUME NEW h \in Hosts, HeartbeatFailed(h)
      PROVE  Explained(g)
  BY <1>8 DEF HeartbeatFailed
<1>9. ASSUME NEW h \in Hosts, MissHeartbeat(h)
      PROVE  Explained(g)
  BY <1>9 DEF MissHeartbeat
<1>10. ASSUME NEW h \in Hosts, Crash(h) \/ Stop(h)
       PROVE  Explained(g)
  BY <1>10 DEF Crash, Stop
<1>11. CASE UNCHANGED vars
  BY <1>11 DEF vars
<1> QED
  BY <1>1, <1>2, <1>3, <1>4, <1>5, <1>6, <1>7, <1>8, <1>9, <1>10, <1>11 DEF Next

(* The conjunction is inductive. *)
THEOREM Inductive == Spec => []IInv
<1>1. Init => IInv
  BY OwnerAssumption
  DEF Init, IInv, TypeOK, AgeExplained, FailuresBounded, FlagsFresh,
      NewUntouched, Healthy, Up
<1>2. IInv /\ [Next]_vars => IInv'
  BY TypeStep, FailuresStep, NewStep, FlagsStep, AgeStep DEF IInv
<1> QED
  BY <1>1, <1>2, PTL DEF Spec

(* In every behaviour a host that runs its heartbeats gives the lease up   *)
(* before it is stale: MaxFailures failed periods fit in StaleAfter.       *)
THEOREM HealthyFresh == Spec => []HealthyOwnerFresh
<1>1. IInv => HealthyOwnerFresh
  <2> SUFFICES ASSUME IInv, NEW h \in Hosts, owner = h, Healthy(h)
               PROVE  ~Stale
    BY DEF HealthyOwnerFresh
  <2>1. failures[h] < MaxFailures /\ failures[h] \in Nat
    BY DEF IInv, FailuresBounded, TypeOK, Healthy
  <2>2. age <= failures[h] + 1 /\ age \in Nat
    BY <2>1, OwnerAssumption DEF IInv, AgeExplained, TypeOK
  <2> QED
    BY <2>1, <2>2, OwnerAssumption DEF Stale
<1> QED
  BY <1>1, Inductive, PTL

(* A step that moves the row to another boot is a committed claim. *)
LEMMA ChangeIsClaim ==
    ASSUME [Next]_vars, NEW h \in Hosts, owner' = h, owner # h
    PROVE  \/ pc[h] = "second"
           \/ ~HeldByOther(h)
<1>1. ASSUME NEW g \in Hosts, EnsureOwner(g) \/ HeartbeatReclaim(g)
      PROVE  ~HeldByOther(h)
  BY <1>1 DEF EnsureOwner, HeartbeatReclaim, FirstClaim, Acquired
<1>2. ASSUME NEW g \in Hosts, SecondClaim(g)
      PROVE  pc[h] = "second"
  BY <1>2 DEF SecondClaim, Acquired
<1>3. ASSUME NEW g \in Hosts, Stop(g)
      PROVE  FALSE
  BY <1>3, OwnerAssumption DEF Stop
<1>4. CASE UNCHANGED owner
  BY <1>4
<1> QED
  BY <1>1, <1>2, <1>3, <1>4
  DEF Next, vars, Tick, Start, StoreFlags, HeartbeatAnswered, HeartbeatFailed,
      MissHeartbeat, Crash

(* Outside the second claim, only the lease of a host that is gone, silent *)
(* or resigned is taken over: a claim replaces another's row only when it  *)
(* is stale, and a healthy owner's row never is.                           *)
THEOREM Takeover == Spec => TakeoverJustified
<1> DEFINE A == \A g, h \in Hosts :
                   owner = g /\ owner' = h /\ g # h /\ pc[h] # "second"
                      => ~Healthy(g)
<1>1. IInv => HealthyOwnerFresh
  BY OwnerAssumption
  DEF IInv, HealthyOwnerFresh, FailuresBounded, AgeExplained, TypeOK, Healthy, Stale
<1>2. IInv /\ [Next]_vars => [A]_vars
  <2> SUFFICES ASSUME IInv, [Next]_vars, NEW g \in Hosts, NEW h \in Hosts,
                      owner = g, owner' = h, g # h, pc[h] # "second", Healthy(g)
               PROVE  FALSE
    OBVIOUS
  <2>1. ~HeldByOther(h)
    BY ChangeIsClaim
  <2>2. Stale
    BY <2>1, OwnerAssumption DEF HeldByOther
  <2> QED
    BY <1>1, <2>2 DEF HealthyOwnerFresh
<1>3. Spec => [][A]_vars
  BY <1>2, Inductive, PTL DEF Spec
<1> QED
  BY <1>3 DEF TakeoverJustified

(* The heartbeat protocol implements the abstract lease: a committed claim *)
(* is Claim, its flags are Confirm, a loss noticed is GiveUp, a drop is    *)
(* Vacate, and every other step leaves the abstract lease unchanged.       *)
THEOREM Refinement == Spec => ImplementsLease
<1> DEFINE claimedBar == [h \in Hosts |-> pc[h] = "flags"]
<1>1. Init => LeaseSide!LeaseInit
  BY DEF Init, LeaseSide!LeaseInit
<1>2. TypeOK /\ [Next]_vars => [LeaseSide!LeaseNext]_(LeaseSide!leaseVars)
  <2> SUFFICES ASSUME TypeOK, [Next]_vars
               PROVE  LeaseSide!LeaseNext \/ UNCHANGED <<owner, lost, claimedBar>>
    BY DEF LeaseSide!leaseVars
  <2> USE DEF TypeOK
  <2>1. ASSUME NEW h \in Hosts, Acquired(h), UNCHANGED lost
        PROVE  LeaseSide!LeaseNext
    BY <2>1 DEF Acquired, LeaseSide!LeaseNext, LeaseSide!Claim
  <2>2. ASSUME NEW h \in Hosts, StoreFlags(h)
        PROVE  LeaseSide!LeaseNext
    BY <2>2 DEF StoreFlags, LeaseSide!LeaseNext, LeaseSide!Confirm
  <2>3. ASSUME NEW h \in Hosts, lost' = [lost EXCEPT ![h] = TRUE],
               UNCHANGED <<owner, pc>>
        PROVE  LeaseSide!LeaseNext
    BY <2>3 DEF LeaseSide!LeaseNext, LeaseSide!GiveUp
  <2>4. ASSUME NEW h \in Hosts, Stop(h), owner = h
        PROVE  LeaseSide!LeaseNext
    BY <2>4 DEF Stop, LeaseSide!LeaseNext, LeaseSide!Vacate
  <2>5. ASSUME NEW h \in Hosts, pc[h] # "flags", UNCHANGED <<owner, lost>>,
               NEW q \in {"idle", "second"}, pc' = [pc EXCEPT ![h] = q]
        PROVE  UNCHANGED <<owner, lost, claimedBar>>
    BY <2>5
  <2>6. CASE UNCHANGED <<owner, lost, pc>>
    BY <2>6
  <2>7. ASSUME NEW h \in Hosts, EnsureOwner(h) \/ HeartbeatReclaim(h)
        PROVE  LeaseSide!LeaseNext \/ UNCHANGED <<owner, lost, claimedBar>>
    BY <2>1, <2>5, <2>6, <2>7 DEF EnsureOwner, HeartbeatReclaim, FirstClaim
  <2>8. ASSUME NEW h \in Hosts, SecondClaim(h)
        PROVE  LeaseSide!LeaseNext \/ UNCHANGED <<owner, lost, claimedBar>>
    BY <2>1, <2>5, <2>8 DEF SecondClaim
  <2>9. ASSUME NEW h \in Hosts, HeartbeatAnswered(h) \/ HeartbeatFailed(h)
        PROVE  LeaseSide!LeaseNext \/ UNCHANGED <<owner, lost, claimedBar>>
    BY <2>3, <2>6, <2>9 DEF HeartbeatAnswered, HeartbeatFailed
  <2>10. ASSUME NEW h \in Hosts, Stop(h)
         PROVE  LeaseSide!LeaseNext \/ UNCHANGED <<owner, lost, claimedBar>>
    BY <2>4, <2>6, <2>10 DEF Stop
  <2> QED
    BY <2>2, <2>6, <2>7, <2>8, <2>9, <2>10
    DEF Next, vars, Tick, Start, MissHeartbeat, Crash
<1> QED
  BY <1>1, <1>2, TypeCorrect, PTL DEF Spec, ImplementsLease, LeaseSide!LeaseSpec

-----------------------------------------------------------------------------
(* The directory of the host. *)

(* The entry of a chat leads to the actor of that chat, which runs.        *)
EntryFine(c) ==
    entry[c].actor # 0 =>
        actor[entry[c].actor].phase = "on" /\ actor[entry[c].actor].chat = c

(* An actor that runs is the one of its chat's entry; while it has an agent *)
(* there is a stored session.                                               *)
ActorFine(n) ==
    /\ actor[n].phase = "none" => ~actor[n].agent
    /\ actor[n].phase # "none" => actor[n].chat \in Chat
    /\ actor[n].phase = "on" =>
          /\ entry[actor[n].chat].actor = n
          /\ actor[n].agent /\ ~actor[n].slip => kept[actor[n].chat].data

(* Who acquires a chat, or holds it, has an actor that is not marked        *)
(* released while it runs, and ends only when its task was dropped.         *)
Fits(r) ==
    /\ r.at # "away" => r.chat \in Chat
    /\ r.at \in {"send", "held", "let"} =>
          r.actor \in Actor /\ actor[r.actor].phase # "none"
    /\ r.at \in {"send", "held"} /\ ~actor[r.actor].slip =>
          IF actor[r.actor].phase = "on"
          THEN entry[actor[r.actor].chat].released = "no"
          ELSE actor[r.actor].close
    /\ r.at = "held" /\ ~actor[r.actor].slip /\ actor[r.actor].phase = "on" =>
          kept[actor[r.actor].chat].data

JobFine == sweep.job.at \in {"drop", "join", "delete"} => sweep.job.of \in Chat

(* A chat that was queued before the start is handed out, or in hand.       *)
InHand(c) == /\ startup.at = "run" /\ caller[Headless].chat = c
             /\ caller[Headless].at \in {"ask", "evict", "remove", "insert",
                                         "send", "held"}

StartupFine ==
    /\ startup.at = "scan" => startup.tries < ClaimTries
    /\ startup.at # "scan" /\ ~startup.failed =>
          \A c \in Chat : kept[c].queued = "boot" =>
              startup.at # "over" /\ (c \in startup.left \/ InHand(c))

DirectoryIInv ==
    /\ DirectoryTypeOK
    /\ \A c \in Chat : EntryFine(c)
    /\ \A n \in Actor : ActorFine(n)
    /\ \A v \in Callers : Fits(caller[v])
    /\ JobFine
    /\ StartupFine

-----------------------------------------------------------------------------
(* Types of what is looked up.                                             *)
LEMMA Lookups ==
    ASSUME DirectoryTypeOK
    PROVE  /\ \A c \in Chat : entry[c] \in Entry /\ kept[c] \in Stored
           /\ \A n \in Actor : actor[n] \in ActorState /\ n \in Nat /\ n # 0
           /\ \A v \in Callers : caller[v] \in CallerState
           /\ Headless \in Callers
           /\ sweep.job \in Job /\ MaxActors \in Nat
           /\ sweep.visits \in 0..MaxVisits /\ sweep.losses \in 0..MaxLosses
           /\ MaxVisits \in Nat /\ MaxLosses \in Nat
           /\ ClaimTries \in Nat /\ startup.tries \in Nat
  BY DirectoryAssumption DEF DirectoryTypeOK, Actor, Callers, Startup

(* The chat of the actor that a caller asked for or holds.                 *)
LEMMA OnesChat ==
    ASSUME DirectoryIInv, NEW v \in Callers, caller[v].at \in {"send", "held", "let"}
    PROVE  /\ caller[v].chat \in Chat /\ caller[v].actor \in Actor
           /\ actor[caller[v].actor].chat \in Chat
           /\ actor[caller[v].actor].phase # "none"
  BY DEF DirectoryIInv, Fits, ActorFine

(* Setting one field of a caller, an actor, an entry, what is stored.      *)
LEMMA CallerSet ==
    ASSUME NEW r \in CallerState
    PROVE  /\ \A x \in {"away", "ask", "evict", "remove", "insert", "send",
                         "held", "let", "mark"} :
                 LET q == [r EXCEPT !.at = x]
                 IN  /\ q \in CallerState /\ q.at = x /\ q.chat = r.chat
                     /\ q.actor = r.actor /\ q.ask = r.ask /\ q.idle = r.idle
           /\ \A x \in {0} \cup Actor :
                 LET q == [r EXCEPT !.actor = x]
                 IN  /\ q \in CallerState /\ q.at = r.at /\ q.chat = r.chat
                     /\ q.actor = x /\ q.ask = r.ask /\ q.idle = r.idle
  BY DEF CallerState

LEMMA ActorSet ==
    ASSUME NEW r \in ActorState
    PROVE  /\ \A x \in {"none", "on", "ending", "gone"} :
                 LET q == [r EXCEPT !.phase = x]
                 IN  /\ q \in ActorState /\ q.chat = r.chat /\ q.phase = x
                     /\ q.holders = r.holders /\ q.agent = r.agent
                     /\ q.busy = r.busy /\ q.close = r.close /\ q.slip = r.slip
           /\ \A x \in Chat :
                 LET q == [r EXCEPT !.chat = x]
                 IN  /\ q \in ActorState /\ q.chat = x /\ q.phase = r.phase
                     /\ q.holders = r.holders /\ q.agent = r.agent
                     /\ q.busy = r.busy /\ q.close = r.close /\ q.slip = r.slip
           /\ \A x \in Nat :
                 LET q == [r EXCEPT !.holders = x]
                 IN  /\ q \in ActorState /\ q.chat = r.chat /\ q.phase = r.phase
                     /\ q.holders = x /\ q.agent = r.agent
                     /\ q.busy = r.busy /\ q.close = r.close /\ q.slip = r.slip
           /\ \A x \in BOOLEAN :
                 LET q == [r EXCEPT !.agent = x]
                 IN  /\ q \in ActorState /\ q.chat = r.chat /\ q.phase = r.phase
                     /\ q.holders = r.holders /\ q.agent = x
                     /\ q.busy = r.busy /\ q.close = r.close /\ q.slip = r.slip
           /\ \A x \in BOOLEAN :
                 LET q == [r EXCEPT !.busy = x]
                 IN  /\ q \in ActorState /\ q.chat = r.chat /\ q.phase = r.phase
                     /\ q.holders = r.holders /\ q.agent = r.agent
                     /\ q.busy = x /\ q.close = r.close /\ q.slip = r.slip
           /\ \A x \in BOOLEAN :
                 LET q == [r EXCEPT !.close = x]
                 IN  /\ q \in ActorState /\ q.chat = r.chat /\ q.phase = r.phase
                     /\ q.holders = r.holders /\ q.agent = r.agent
                     /\ q.busy = r.busy /\ q.close = x /\ q.slip = r.slip
           /\ \A x \in BOOLEAN :
                 LET q == [r EXCEPT !.slip = x]
                 IN  /\ q \in ActorState /\ q.chat = r.chat /\ q.phase = r.phase
                     /\ q.holders = r.holders /\ q.agent = r.agent
                     /\ q.busy = r.busy /\ q.close = r.close /\ q.slip = x
  BY DEF ActorState

(* Steps in which no entry changes its actor and no actor its phase: what  *)
(* was so of entries, actors and callers stays so, if each caller that     *)
(* moves fits where it goes.  No mark is set on an entry somebody holds,   *)
(* unless the actor slips.                                                 *)
ActorKeeps(n) ==
    /\ actor'[n].phase = actor[n].phase /\ actor'[n].chat = actor[n].chat
    /\ actor[n].close => actor'[n].close
    /\ actor[n].slip => actor'[n].slip
    /\ actor'[n].agent =>
          actor[n].agent \/ (actor[n].phase # "none" /\ kept'[actor[n].chat].data)

UnmarkedKeeps(v) ==
    LET n == caller[v].actor
    IN  caller[v].at \in {"send", "held"} /\ actor[n].phase = "on" =>
           \/ actor'[n].slip
           \/ entry[actor[n].chat].released # "no"
           \/ entry'[actor[n].chat].released = "no"

LEMMA Steady ==
    ASSUME DirectoryIInv, actor' \in [Actor -> ActorState],
           entry' \in [Chat -> Entry],
           \A c \in Chat : entry'[c].actor = entry[c].actor,
           \A n \in Actor : ActorKeeps(n),
           \A c \in Chat : kept[c].data => kept'[c].data,
           \A v \in Callers :
              IF caller'[v] = caller[v] THEN UnmarkedKeeps(v) ELSE Fits(caller[v])'
    PROVE  /\ \A c \in Chat : EntryFine(c)'
           /\ \A n \in Actor : ActorFine(n)'
           /\ \A v \in Callers : Fits(caller[v])'
<1>1. DirectoryTypeOK
  BY DEF DirectoryIInv
<1>2. ASSUME NEW c \in Chat PROVE EntryFine(c)'
  <2>1. EntryFine(c) /\ entry[c] \in Entry
    BY <1>1, Lookups DEF DirectoryIInv
  <2> QED
    BY <2>1 DEF EntryFine, Entry, ActorKeeps
<1>3. ASSUME NEW n \in Actor PROVE ActorFine(n)'
  <2>1. ActorFine(n)
    BY DEF DirectoryIInv
  <2> QED
    BY <2>1 DEF ActorFine, ActorKeeps
<1>4. ASSUME NEW v \in Callers PROVE Fits(caller[v])'
  <2>1. CASE caller'[v] # caller[v]
    BY <2>1
  <2>2. CASE caller'[v] = caller[v]
    <3> DEFINE n == caller[v].actor
    <3>1. Fits(caller[v])
      BY DEF DirectoryIInv
    <3>2. CASE caller[v].at \in {"send", "held", "let"}
      <4>1. n \in Actor /\ actor[n].phase # "none" /\ actor[n].chat \in Chat
        BY <3>1, <3>2 DEF Fits, DirectoryIInv, ActorFine
      <4> QED
        BY <2>2, <3>1, <3>2, <4>1 DEF Fits, ActorKeeps, UnmarkedKeeps
    <3>3. CASE caller[v].at \notin {"send", "held", "let"}
      BY <2>2, <3>1, <3>3 DEF Fits
    <3> QED
      BY <3>2, <3>3
  <2> QED
    BY <2>1, <2>2
<1> QED
  BY <1>2, <1>3, <1>4

(* The startup dispatch is not concerned: what it has in hand stays there. *)
LEMMA StartupStays ==
    ASSUME StartupFine, UNCHANGED startup,
           \A c \in Chat : kept'[c].queued = "boot" => kept[c].queued = "boot",
           \A c \in Chat : InHand(c) => InHand(c)'
    PROVE  StartupFine'
  BY DEF StartupFine

(* A step of one caller alone.                                             *)
LEMMA CallerMoves ==
    ASSUME DirectoryIInv, NEW v \in Callers, NEW r \in CallerState, Fits(r),
           UNCHANGED <<entry, actor, kept, owned>>,
           caller' = [caller EXCEPT ![v] = r],
           sweep' \in [job : Job, visits : 0..MaxVisits, losses : 0..MaxLosses],
           sweep'.job = sweep.job,
           startup' \in Startup, StartupFine'
    PROVE  DirectoryIInv'
<1>1. DirectoryTypeOK'
  BY DEF DirectoryTypeOK, DirectoryIInv
<1>2. /\ caller'[v] = r /\ \A w \in Callers : w # v => caller'[w] = caller[w]
  BY DEF DirectoryTypeOK, DirectoryIInv
<1>3. Fits(caller[v])'
  BY <1>2 DEF Fits
<1>4. \A w \in Callers : UnmarkedKeeps(w)
  BY DEF UnmarkedKeeps
<1>5. \A n \in Actor : ActorKeeps(n)
  BY DEF ActorKeeps
<1>6. /\ actor' \in [Actor -> ActorState] /\ entry' \in [Chat -> Entry]
  BY <1>1 DEF DirectoryTypeOK
<1>7. /\ \A c \in Chat : EntryFine(c)'
      /\ \A n \in Actor : ActorFine(n)'
      /\ \A w \in Callers : Fits(caller[w])'
  BY <1>2, <1>3, <1>4, <1>5, <1>6, Steady
<1>8. JobFine'
  BY DEF JobFine, DirectoryIInv
<1> QED
  BY <1>1, <1>7, <1>8 DEF DirectoryIInv

(* The same for a step on the way to an actor.                             *)
Way == {"ask", "evict", "remove", "insert"}

LEMMA OnTheWay ==
    ASSUME DirectoryIInv, NEW v \in Callers, NEW r \in CallerState,
           caller[v].at \in Way, r.at \in Way, r.chat = caller[v].chat,
           UNCHANGED <<entry, actor, kept, owned, sweep, startup>>,
           caller' = [caller EXCEPT ![v] = r]
    PROVE  DirectoryIInv'
<1>1. Fits(r)
  BY DEF DirectoryIInv, Fits, Way
<1>2. /\ caller \in [Callers -> CallerState] /\ Headless \in Callers
      /\ startup \in Startup
      /\ sweep \in [job : Job, visits : 0..MaxVisits, losses : 0..MaxLosses]
  BY Lookups DEF DirectoryIInv, DirectoryTypeOK
<1>3. \A c \in Chat : InHand(c) => InHand(c)'
  <2>1. CASE v = Headless
    <3>1. caller'[Headless] = r
      BY <1>2, <2>1
    <3> QED
      BY <2>1, <3>1 DEF InHand, Way
  <2>2. CASE v # Headless
    <3>1. caller'[Headless] = caller[Headless]
      BY <1>2, <2>2
    <3> QED
      BY <3>1 DEF InHand
  <2> QED
    BY <2>1, <2>2
<1>4. StartupFine'
  BY <1>3, StartupStays DEF DirectoryIInv
<1> QED
  BY <1>1, <1>2, <1>4, CallerMoves

LEMMA AskIdleStep ==
    ASSUME DirectoryIInv, NEW v \in Callers, AskIdle(v)
    PROVE  DirectoryIInv'
<1>1. caller[v].at = "ask" /\ caller[v] \in CallerState
  BY Lookups DEF AskIdle, Where, DirectoryIInv
<1>2. PICK d \in caller[v].ask :
          caller' = [caller EXCEPT ![v].ask = @ \ {d},
              ![v].idle = IF Live(entry[d].actor) /\ Evictable(entry[d].actor)
                          THEN @ \cup {d} ELSE @]
  BY DEF AskIdle
<1> DEFINE e == IF Live(entry[d].actor) /\ Evictable(entry[d].actor)
                THEN caller[v].idle \cup {d} ELSE caller[v].idle
           q == [caller[v] EXCEPT !.ask = caller[v].ask \ {d}]
           r == [q EXCEPT !.idle = e]
<1>3. /\ caller[v].ask \subseteq Chat /\ caller[v].idle \subseteq Chat
      /\ caller[v].ask \ {d} \subseteq Chat /\ e \subseteq Chat
  BY <1>1 DEF CallerState
<1>4. caller' = [caller EXCEPT ![v] = r]
  BY <1>2
<1> HIDE DEF e
<1>5. /\ q \in CallerState /\ q.at = "ask" /\ q.chat = caller[v].chat
  BY <1>1, <1>3 DEF CallerState
<1> HIDE DEF q
<1>6. /\ r \in CallerState /\ r.at = "ask" /\ r.chat = caller[v].chat
  BY <1>3, <1>5 DEF CallerState
<1> HIDE DEF r
<1> QED
  BY <1>1, <1>4, <1>6, OnTheWay DEF Way, AskIdle

LEMMA ChooseIdleStep ==
    ASSUME DirectoryIInv, NEW v \in Callers, ChooseIdle(v)
    PROVE  DirectoryIInv'
<1>1. caller[v].at = "ask" /\ caller[v] \in CallerState
  BY Lookups DEF ChooseIdle, Where, DirectoryIInv
<1>2. CASE Cardinality(caller[v].idle) < MaxIdle
  <2> DEFINE r == [caller[v] EXCEPT !.at = "insert"]
  <2>1. caller' = [caller EXCEPT ![v] = r]
    BY <1>2 DEF ChooseIdle, Moves
  <2>2. r \in CallerState /\ r.at = "insert" /\ r.chat = caller[v].chat
    BY <1>1, CallerSet
  <2> HIDE DEF r
  <2> QED
    BY <1>1, <2>1, <2>2, OnTheWay DEF Way, ChooseIdle
<1>3. CASE ~(Cardinality(caller[v].idle) < MaxIdle)
  <2>1. PICK go \in kSubset(Cardinality(caller[v].idle) - MaxIdle + 1,
                            caller[v].idle) :
            caller' = [caller EXCEPT ![v].at = "evict", ![v].idle = go]
    BY <1>3 DEF ChooseIdle
  <2>2. go \subseteq Chat
    BY <1>1 DEF kSubset, CallerState
  <2> DEFINE q == [caller[v] EXCEPT !.at = "evict"]
             r == [q EXCEPT !.idle = go]
  <2>3. caller' = [caller EXCEPT ![v] = r]
    BY <2>1
  <2>4. q \in CallerState /\ q.at = "evict" /\ q.chat = caller[v].chat
    BY <1>1, CallerSet
  <2> HIDE DEF q
  <2>5. r \in CallerState /\ r.at = "evict" /\ r.chat = caller[v].chat
    BY <2>2, <2>4 DEF CallerState
  <2> HIDE DEF r
  <2> QED
    BY <1>1, <2>3, <2>5, OnTheWay DEF Way, ChooseIdle
<1> QED
  BY <1>2, <1>3

LEMMA LookAgainStep ==
    ASSUME DirectoryIInv, NEW v \in Callers, LookAgain(v)
    PROVE  DirectoryIInv'
<1>1. caller[v].at = "evict" /\ caller[v] \in CallerState
  BY Lookups DEF LookAgain, Where, DirectoryIInv
<1>2. PICK d \in caller[v].idle :
          \/ caller' = [caller EXCEPT ![v].at = "remove", ![v].ask = {d},
                                      ![v].idle = @ \ {d}]
          \/ caller' = [caller EXCEPT ![v].idle = @ \ {d}]
  BY DEF LookAgain
<1>3. /\ {d} \subseteq Chat /\ caller[v].idle \ {d} \subseteq Chat
  BY <1>1 DEF CallerState
<1>4. CASE caller' = [caller EXCEPT ![v].at = "remove", ![v].ask = {d},
                                    ![v].idle = @ \ {d}]
  <2> DEFINE p == [caller[v] EXCEPT !.at = "remove"]
             q == [p EXCEPT !.ask = {d}]
             r == [q EXCEPT !.idle = caller[v].idle \ {d}]
  <2>1. caller' = [caller EXCEPT ![v] = r]
    BY <1>1, <1>4 DEF CallerState
  <2>2. p \in CallerState /\ p.at = "remove" /\ p.chat = caller[v].chat
    BY <1>1, CallerSet
  <2> HIDE DEF p
  <2>3. q \in CallerState /\ q.at = "remove" /\ q.chat = caller[v].chat
    BY <1>3, <2>2 DEF CallerState
  <2> HIDE DEF q
  <2>4. r \in CallerState /\ r.at = "remove" /\ r.chat = caller[v].chat
    BY <1>3, <2>3 DEF CallerState
  <2> HIDE DEF r
  <2> QED
    BY <1>1, <2>1, <2>4, OnTheWay DEF Way, LookAgain
<1>5. CASE caller' = [caller EXCEPT ![v].idle = @ \ {d}]
  <2> DEFINE r == [caller[v] EXCEPT !.idle = caller[v].idle \ {d}]
  <2>1. caller' = [caller EXCEPT ![v] = r]
    BY <1>5
  <2>2. r \in CallerState /\ r.at = "evict" /\ r.chat = caller[v].chat
    BY <1>1, <1>3 DEF CallerState
  <2> HIDE DEF r
  <2> QED
    BY <1>1, <2>1, <2>2, OnTheWay DEF Way, LookAgain
<1> QED
  BY <1>2, <1>4, <1>5

LEMMA EvictsAllStep ==
    ASSUME DirectoryIInv, NEW v \in Callers, EvictsAll(v)
    PROVE  DirectoryIInv'
<1>1. caller[v].at = "evict" /\ caller[v] \in CallerState
  BY Lookups DEF EvictsAll, Where, DirectoryIInv
<1> DEFINE r == [caller[v] EXCEPT !.at = "insert"]
<1>2. caller' = [caller EXCEPT ![v] = r]
  BY DEF EvictsAll, Moves
<1>3. r \in CallerState /\ r.at = "insert" /\ r.chat = caller[v].chat
  BY <1>1, CallerSet
<1> HIDE DEF r
<1> QED
  BY <1>1, <1>2, <1>3, OnTheWay DEF Way, EvictsAll

(* Whoever acquires a chat is sent to the actor of its entry, or looks for *)
(* idle chats first.                                                       *)
LEMMA VisitsKeep ==
    ASSUME DirectoryIInv, NEW v \in Callers, NEW c \in Chat, Visits(v, c)
    PROVE  /\ caller' \in [Callers -> CallerState]
           /\ entry' \in [Chat -> Entry]
           /\ UNCHANGED <<actor, kept, owned>>
           /\ \A d \in Chat : EntryFine(d)'
           /\ \A n \in Actor : ActorFine(n)'
           /\ \A w \in Callers : Fits(caller[w])'
           /\ caller'[v].chat = c /\ caller'[v].at \in {"send", "ask"}
           /\ \A w \in Callers \ {v} : caller'[w] = caller[w]
<1>1. /\ caller \in [Callers -> CallerState] /\ entry \in [Chat -> Entry]
      /\ actor \in [Actor -> ActorState] /\ entry[c] \in Entry
  BY Lookups DEF DirectoryIInv, DirectoryTypeOK
<1>2. UNCHANGED <<actor, kept, owned>>
  BY DEF Visits
<1>3. CASE entry[c].actor # 0
  <2> DEFINE n == entry[c].actor
             r == [Away EXCEPT !.at = "send", !.chat = c, !.actor = n]
             e == [entry[c] EXCEPT !.released = "no"]
  <2>1. /\ entry' = [entry EXCEPT ![c] = e] /\ caller' = [caller EXCEPT ![v] = r]
    BY <1>3 DEF Visits
  <2>2. /\ n \in Actor /\ actor[n].phase = "on" /\ actor[n].chat = c
        /\ ActorFine(n)
    BY <1>1, <1>3 DEF DirectoryIInv, EntryFine, Entry
  <2>3. /\ e \in Entry /\ e.actor = n /\ e.released = "no"
    BY <1>1 DEF Entry
  <2>4. /\ r \in CallerState /\ r.at = "send" /\ r.actor = n /\ r.chat = c
    BY <2>2 DEF Away, CallerState
  <2> HIDE DEF r, e, n
  <2>5. /\ entry' \in [Chat -> Entry] /\ caller' \in [Callers -> CallerState]
        /\ entry'[c] = e /\ caller'[v] = r
        /\ \A d \in Chat : d # c => entry'[d] = entry[d]
        /\ \A w \in Callers : w # v => caller'[w] = caller[w]
    BY <1>1, <2>1, <2>3, <2>4
  <2>6. \A d \in Chat : entry'[d].actor = entry[d].actor
    BY <2>3, <2>5 DEF n
  <2>7. \A d \in Chat : entry[d].released = "no" => entry'[d].released = "no"
    BY <2>3, <2>5
  <2>8. Fits(caller[v])'
    BY <1>2, <2>2, <2>3, <2>4, <2>5 DEF Fits
  <2>9. \A w \in Callers : UnmarkedKeeps(w)
    BY <2>7, OnesChat DEF UnmarkedKeeps
  <2>10. \A w \in Callers :
            IF caller'[w] = caller[w] THEN UnmarkedKeeps(w) ELSE Fits(caller[w])'
    BY <2>5, <2>8, <2>9
  <2>11. /\ actor' \in [Actor -> ActorState]
         /\ \A k \in Actor : ActorKeeps(k)
         /\ \A d \in Chat : kept[d].data => kept'[d].data
    BY <1>1, <1>2 DEF ActorKeeps
  <2>12. /\ \A d \in Chat : EntryFine(d)'
         /\ \A k \in Actor : ActorFine(k)'
         /\ \A w \in Callers : Fits(caller[w])'
    BY <2>5, <2>6, <2>10, <2>11, Steady
  <2> QED
    BY <1>2, <2>4, <2>5, <2>12
<1>4. CASE entry[c].actor = 0
  <2> DEFINE A == {d \in Chat : entry[d].actor # 0 /\ entry[d].released = "old"}
             r == [Away EXCEPT !.at = "ask", !.chat = c, !.ask = A]
  <2>1. entry' = entry /\ caller' = [caller EXCEPT ![v] = r]
    BY <1>4 DEF Visits
  <2>2. A \subseteq Chat
    OBVIOUS
  <2> HIDE DEF A
  <2>3. /\ r \in CallerState /\ r.at = "ask" /\ r.chat = c
    BY <2>2 DEF Away, CallerState
  <2> HIDE DEF r
  <2>4. /\ caller' \in [Callers -> CallerState] /\ caller'[v] = r
        /\ \A w \in Callers : w # v => caller'[w] = caller[w]
    BY <1>1, <2>1, <2>3
  <2>6. \A w \in Callers : Fits(caller[w])'
    BY <1>2, <2>1, <2>3, <2>4 DEF Fits, DirectoryIInv
  <2>7. \A d \in Chat : EntryFine(d)'
    BY <1>2, <2>1 DEF EntryFine, DirectoryIInv
  <2>8. \A k \in Actor : ActorFine(k)'
    BY <1>2, <2>1 DEF ActorFine, DirectoryIInv
  <2> QED
    BY <1>1, <1>2, <2>1, <2>3, <2>4, <2>6, <2>7, <2>8
<1> QED
  BY <1>3, <1>4

LEMMA StartAcquireStep ==
    ASSUME DirectoryIInv, NEW v \in Callers, NEW c \in Chat, StartAcquire(v, c)
    PROVE  DirectoryIInv'
<1>1. /\ Visits(v, c) /\ v # Headless /\ UNCHANGED startup
      /\ sweep.visits < MaxVisits
      /\ sweep' = [sweep EXCEPT !.visits = @ + 1]
  BY DEF StartAcquire
<1>2. /\ sweep' \in [job : Job, visits : 0..MaxVisits, losses : 0..MaxLosses]
      /\ sweep'.job = sweep.job
  BY <1>1, Lookups DEF DirectoryIInv, DirectoryTypeOK
<1>3. /\ caller' \in [Callers -> CallerState]
      /\ entry' \in [Chat -> Entry]
      /\ UNCHANGED <<actor, kept, owned>>
      /\ \A d \in Chat : EntryFine(d)'
      /\ \A n \in Actor : ActorFine(n)'
      /\ \A w \in Callers : Fits(caller[w])'
      /\ \A w \in Callers \ {v} : caller'[w] = caller[w]
  BY <1>1, VisitsKeep
<1>4. caller'[Headless] = caller[Headless]
  BY <1>1, <1>3 DEF Callers
<1>5. StartupFine'
  BY <1>1, <1>3, <1>4, StartupStays DEF InHand, DirectoryIInv
<1> QED
  BY <1>1, <1>2, <1>3, <1>5 DEF DirectoryIInv, DirectoryTypeOK, JobFine

LEMMA HeadlessTakesStep ==
    ASSUME DirectoryIInv, HeadlessTakes
    PROVE  DirectoryIInv'
<1>1. PICK c \in startup.left :
          /\ Visits(Headless, c)
          /\ startup' = [startup EXCEPT !.left = @ \ {c}]
  BY DEF HeadlessTakes
<1>2. /\ startup.at = "run" /\ UNCHANGED sweep /\ startup \in Startup
      /\ Headless \in Callers /\ c \in Chat
  BY <1>1 DEF HeadlessTakes, DirectoryIInv, DirectoryTypeOK, Startup, Callers
<1>3. /\ caller' \in [Callers -> CallerState]
      /\ entry' \in [Chat -> Entry]
      /\ UNCHANGED <<actor, kept, owned>>
      /\ \A d \in Chat : EntryFine(d)'
      /\ \A n \in Actor : ActorFine(n)'
      /\ \A w \in Callers : Fits(caller[w])'
      /\ caller'[Headless].chat = c /\ caller'[Headless].at \in {"send", "ask"}
  BY <1>1, <1>2, VisitsKeep
<1>4. /\ startup' \in Startup /\ startup'.at = "run"
      /\ startup'.failed = startup.failed /\ startup'.left = startup.left \ {c}
  BY <1>1, <1>2 DEF Startup
<1>5. ~InHand(c) => caller[Headless].at = "away" \/ caller[Headless].chat # c
  BY <1>1, <1>2 DEF Visits, Where
<1>6. caller[Headless].at = "away"
  BY <1>1 DEF Visits, Where
<1>7. StartupFine'
  <2> SUFFICES ASSUME ~startup.failed, NEW d \in Chat, kept[d].queued = "boot"
               PROVE  d \in startup'.left \/ InHand(d)'
    BY <1>3, <1>4 DEF StartupFine
  <2>1. d \in startup.left
    BY <1>2, <1>6 DEF DirectoryIInv, StartupFine, InHand
  <2> QED
    BY <1>3, <1>4, <2>1 DEF InHand
<1> QED
  BY <1>2, <1>3, <1>4, <1>7 DEF DirectoryIInv, DirectoryTypeOK, JobFine

(* A step of an actor or of the cleanup that moves no entry and no caller. *)
LEMMA Quiet ==
    ASSUME DirectoryIInv, UNCHANGED <<entry, caller, startup>>,
           actor' \in [Actor -> ActorState], kept' \in [Chat -> Stored],
           owned' \in [Chat -> BOOLEAN],
           sweep' \in [job : Job, visits : 0..MaxVisits, losses : 0..MaxLosses],
           \A n \in Actor : ActorKeeps(n),
           \A c \in Chat : kept[c].data => kept'[c].data,
           \A c \in Chat : kept'[c].queued = "boot" => kept[c].queued = "boot",
           JobFine'
    PROVE  DirectoryIInv'
<1>1. DirectoryTypeOK'
  BY DEF DirectoryIInv, DirectoryTypeOK
<1>2. \A v \in Callers : UnmarkedKeeps(v)
  BY DEF UnmarkedKeeps
<1>3. /\ entry' \in [Chat -> Entry]
      /\ \A c \in Chat : entry'[c].actor = entry[c].actor
  BY <1>1 DEF DirectoryTypeOK
<1>4. /\ \A c \in Chat : EntryFine(c)'
      /\ \A n \in Actor : ActorFine(n)'
      /\ \A v \in Callers : Fits(caller[v])'
  BY <1>2, <1>3, Steady
<1>5. StartupFine'
  BY StartupStays DEF InHand, DirectoryIInv
<1> QED
  BY <1>1, <1>4, <1>5 DEF DirectoryIInv

LEMMA ActorSendsStep ==
    ASSUME DirectoryIInv, NEW n \in Actor, ActorSends(n)
    PROVE  DirectoryIInv'
<1> DEFINE r == [actor[n] EXCEPT !.busy = TRUE]
           c == actor[n].chat
           k == [kept[c] EXCEPT !.queued = "no"]
<1>1. /\ actor' = [actor EXCEPT ![n] = r] /\ kept' = [kept EXCEPT ![c] = k]
      /\ UNCHANGED <<entry, caller, startup, owned, sweep>>
      /\ actor[n].phase # "none"
  BY DEF ActorSends, Calls
<1>2. /\ c \in Chat /\ actor[n] \in ActorState /\ kept[c] \in Stored
  BY <1>1, Lookups DEF DirectoryIInv, ActorFine
<1>3. /\ r \in ActorState /\ r.phase = actor[n].phase /\ r.chat = actor[n].chat
      /\ r.close = actor[n].close /\ r.slip = actor[n].slip
      /\ r.agent = actor[n].agent
  BY <1>2, ActorSet
<1>4. /\ k \in Stored /\ k.queued = "no" /\ k.data = kept[c].data
  BY <1>2 DEF Stored
<1> HIDE DEF r, c, k
<1>5. \A m \in Actor : ActorKeeps(m)
  BY <1>1, <1>3 DEF ActorKeeps, DirectoryIInv, DirectoryTypeOK
<1> QED
  BY <1>1, <1>2, <1>3, <1>4, <1>5, Quiet
  DEF DirectoryIInv, DirectoryTypeOK, JobFine

LEMMA TurnEndsStep ==
    ASSUME DirectoryIInv, NEW n \in Actor, TurnEnds(n)
    PROVE  DirectoryIInv'
<1> DEFINE r == [actor[n] EXCEPT !.busy = FALSE]
<1>1. /\ actor' = [actor EXCEPT ![n] = r]
      /\ UNCHANGED <<entry, caller, startup, kept, owned, sweep>>
  BY DEF TurnEnds
<1>a. actor[n] \in ActorState
  BY Lookups DEF DirectoryIInv
<1>2. /\ r \in ActorState /\ r.phase = actor[n].phase /\ r.chat = actor[n].chat
      /\ r.close = actor[n].close /\ r.slip = actor[n].slip
      /\ r.agent = actor[n].agent
  BY <1>a, ActorSet
<1> HIDE DEF r
<1>3. \A m \in Actor : ActorKeeps(m)
  BY <1>1, <1>2 DEF ActorKeeps, DirectoryIInv, DirectoryTypeOK
<1> QED
  BY <1>1, <1>2, <1>3, Quiet DEF DirectoryIInv, DirectoryTypeOK, JobFine

LEMMA AgentGoesStep ==
    ASSUME DirectoryIInv, NEW n \in Actor, AgentGoes(n)
    PROVE  DirectoryIInv'
<1> DEFINE q == [actor[n] EXCEPT !.agent = FALSE]
           r == [q EXCEPT !.busy = FALSE]
<1>1. /\ actor' = [actor EXCEPT ![n] = r]
      /\ sweep' = [sweep EXCEPT !.losses = @ + 1] /\ sweep.losses < MaxLosses
      /\ UNCHANGED <<entry, caller, startup, kept, owned>>
  BY DEF AgentGoes
<1>a. actor[n] \in ActorState
  BY Lookups DEF DirectoryIInv
<1>2. /\ q \in ActorState /\ q.phase = actor[n].phase /\ q.chat = actor[n].chat
      /\ q.close = actor[n].close /\ q.slip = actor[n].slip /\ ~q.agent
  BY <1>a, ActorSet
<1> HIDE DEF q
<1>3. /\ r \in ActorState /\ r.phase = actor[n].phase /\ r.chat = actor[n].chat
      /\ r.close = actor[n].close /\ r.slip = actor[n].slip /\ ~r.agent
  BY <1>2, ActorSet
<1> HIDE DEF r
<1>4. \A m \in Actor : ActorKeeps(m)
  BY <1>1, <1>3 DEF ActorKeeps, DirectoryIInv, DirectoryTypeOK
<1>5. /\ sweep' \in [job : Job, visits : 0..MaxVisits, losses : 0..MaxLosses]
      /\ sweep'.job = sweep.job
  BY <1>1, Lookups DEF DirectoryIInv, DirectoryTypeOK
<1> QED
  BY <1>1, <1>3, <1>4, <1>5, Quiet DEF DirectoryIInv, DirectoryTypeOK, JobFine

LEMMA ActorResumesStep ==
    ASSUME DirectoryIInv, NEW n \in Actor, ActorResumes(n)
    PROVE  DirectoryIInv'
<1> DEFINE r == [actor[n] EXCEPT !.agent = TRUE]
<1>1. /\ actor' = [actor EXCEPT ![n] = r]
      /\ UNCHANGED <<entry, caller, startup, kept, owned, sweep>>
      /\ actor[n].phase # "none" /\ kept[actor[n].chat].data
  BY DEF ActorResumes, Calls
<1>a. actor[n] \in ActorState
  BY Lookups DEF DirectoryIInv
<1>2. /\ r \in ActorState /\ r.phase = actor[n].phase /\ r.chat = actor[n].chat
      /\ r.close = actor[n].close /\ r.slip = actor[n].slip
  BY <1>a, ActorSet
<1> HIDE DEF r
<1>3. \A m \in Actor : ActorKeeps(m)
  BY <1>1, <1>2 DEF ActorKeeps, DirectoryIInv, DirectoryTypeOK
<1> QED
  BY <1>1, <1>2, <1>3, Quiet DEF DirectoryIInv, DirectoryTypeOK, JobFine

LEMMA SubmitThereStep ==
    ASSUME DirectoryIInv, NEW v \in Callers, SubmitThere(v)
    PROVE  DirectoryIInv'
<1> DEFINE c == caller[v].chat
           k == [kept[c] EXCEPT !.queued = "later"]
<1>1. /\ kept' = [kept EXCEPT ![c] = k] /\ caller[v].at = "held"
      /\ sweep' = [sweep EXCEPT !.losses = @ + 1] /\ sweep.losses < MaxLosses
      /\ UNCHANGED <<entry, caller, startup, actor, owned>>
  BY DEF SubmitThere, Where
<1>2. c \in Chat /\ kept[c] \in Stored
  BY <1>1, Lookups DEF DirectoryIInv, Fits
<1>3. /\ k \in Stored /\ k.queued = "later" /\ k.data = kept[c].data
  BY <1>2 DEF Stored
<1> HIDE DEF c, k
<1>4. \A m \in Actor : ActorKeeps(m)
  BY <1>1 DEF ActorKeeps
<1>5. /\ sweep' \in [job : Job, visits : 0..MaxVisits, losses : 0..MaxLosses]
      /\ sweep'.job = sweep.job
  BY <1>1, Lookups DEF DirectoryIInv, DirectoryTypeOK
<1> QED
  BY <1>1, <1>2, <1>3, <1>4, <1>5, Quiet
  DEF DirectoryIInv, DirectoryTypeOK, JobFine

LEMMA GraceEndsStep ==
    ASSUME DirectoryIInv, NEW c \in Chat, GraceEnds(c)
    PROVE  DirectoryIInv'
<1> DEFINE e == [entry[c] EXCEPT !.released = "old"]
<1>1. /\ entry' = [entry EXCEPT ![c] = e] /\ entry[c].released = "new"
      /\ UNCHANGED <<actor, kept, owned, caller, sweep, startup>>
  BY DEF GraceEnds
<1>2. entry[c] \in Entry /\ entry \in [Chat -> Entry]
  BY Lookups DEF DirectoryIInv, DirectoryTypeOK
<1>3. e \in Entry /\ e.actor = entry[c].actor
  BY <1>2 DEF Entry
<1> HIDE DEF e
<1>4. /\ entry' \in [Chat -> Entry]
      /\ \A d \in Chat : entry'[d].actor = entry[d].actor
      /\ \A d \in Chat : entry[d].released = "no" => entry'[d].released = "no"
  BY <1>1, <1>2, <1>3
<1>5. \A v \in Callers : UnmarkedKeeps(v)
  BY <1>4, OnesChat DEF UnmarkedKeeps
<1>6. /\ DirectoryTypeOK' /\ JobFine'
      /\ actor' \in [Actor -> ActorState]
      /\ \A n \in Actor : ActorKeeps(n)
  BY <1>1, <1>4 DEF DirectoryIInv, DirectoryTypeOK, JobFine, ActorKeeps
<1>7. /\ \A d \in Chat : EntryFine(d)'
      /\ \A n \in Actor : ActorFine(n)'
      /\ \A v \in Callers : Fits(caller[v])'
  BY <1>1, <1>4, <1>5, <1>6, Steady
<1>8. StartupFine'
  BY <1>1, StartupStays DEF InHand, DirectoryIInv
<1> QED
  BY <1>6, <1>7, <1>8 DEF DirectoryIInv

(* A step of the cleanup alone.                                            *)
LEMMA SweepMoves ==
    ASSUME DirectoryIInv, UNCHANGED <<entry, actor, kept, caller, startup>>,
           owned' \in [Chat -> BOOLEAN], NEW j \in Job, NEW l \in 0..MaxLosses,
           j.at \in {"drop", "join", "delete"} => j.of \in Chat,
           sweep' = [sweep EXCEPT !.job = j, !.losses = l]
    PROVE  DirectoryIInv'
<1>1. /\ sweep' \in [job : Job, visits : 0..MaxVisits, losses : 0..MaxLosses]
      /\ sweep'.job = j
  BY DEF DirectoryIInv, DirectoryTypeOK
<1>2. \A m \in Actor : ActorKeeps(m)
  BY DEF ActorKeeps
<1> QED
  BY <1>1, <1>2, Quiet DEF DirectoryIInv, DirectoryTypeOK, JobFine

LEMMA JobSet ==
    ASSUME NEW r \in Job
    PROVE  /\ \A x \in {"off", "each", "drop", "join", "delete"} :
                 LET q == [r EXCEPT !.at = x]
                 IN  /\ q \in Job /\ q.at = x /\ q.of = r.of
                     /\ q.todo = r.todo /\ q.actor = r.actor
           /\ \A x \in Chat \cup {"none"} :
                 LET q == [r EXCEPT !.of = x]
                 IN  /\ q \in Job /\ q.at = r.at /\ q.of = x
                     /\ q.todo = r.todo /\ q.actor = r.actor
           /\ \A x \in {0} \cup Actor :
                 LET q == [r EXCEPT !.actor = x]
                 IN  /\ q \in Job /\ q.at = r.at /\ q.of = r.of
                     /\ q.todo = r.todo /\ q.actor = x
  BY DEF Job

LEMMA TaskGoesStep ==
    ASSUME DirectoryIInv, NEW c \in Chat, TaskGoes(c)
    PROVE  DirectoryIInv'
<1>1. /\ owned' = [owned EXCEPT ![c] = FALSE] /\ sweep.losses < MaxLosses
      /\ UNCHANGED <<entry, actor, kept, caller, startup>>
  BY DEF TaskGoes
<1> DEFINE T == {d \in Chat : entry[d].actor # 0 /\ ~owned'[d]}
           j1 == [at |-> "each", of |-> "none", todo |-> T, actor |-> 0]
           j2 == [at |-> "drop", of |-> c, todo |-> {}, actor |-> 0]
<1>2. \/ sweep' = [sweep EXCEPT !.job = j1, !.losses = sweep.losses + 1]
      \/ sweep' = [sweep EXCEPT !.job = j2, !.losses = sweep.losses + 1]
  BY DEF TaskGoes, NoSweep
<1>3. /\ owned' \in [Chat -> BOOLEAN] /\ sweep.losses + 1 \in 0..MaxLosses
  BY <1>1, Lookups DEF DirectoryIInv, DirectoryTypeOK
<1>4. T \subseteq Chat
  OBVIOUS
<1> HIDE DEF T
<1>5. /\ j1 \in Job /\ j1.at = "each"
      /\ j2 \in Job /\ j2.of \in Chat
  BY <1>4 DEF Job
<1> HIDE DEF j1, j2
<1> QED
  BY <1>1, <1>2, <1>3, <1>5, SweepMoves

LEMMA TaskReturnsStep ==
    ASSUME DirectoryIInv, NEW c \in Chat, TaskReturns(c)
    PROVE  DirectoryIInv'
<1>1. /\ owned' = [owned EXCEPT ![c] = TRUE] /\ sweep.losses < MaxLosses
      /\ sweep' = [sweep EXCEPT !.losses = @ + 1]
      /\ UNCHANGED <<entry, actor, kept, caller, startup>>
  BY DEF TaskReturns
<1>2. /\ owned' \in [Chat -> BOOLEAN] /\ sweep.losses + 1 \in 0..MaxLosses
      /\ sweep.job \in Job
  BY <1>1, Lookups DEF DirectoryIInv, DirectoryTypeOK
<1>3. sweep' = [sweep EXCEPT !.job = sweep.job, !.losses = sweep.losses + 1]
  BY <1>1 DEF DirectoryIInv, DirectoryTypeOK
<1> QED
  BY <1>1, <1>2, <1>3, SweepMoves DEF DirectoryIInv, JobFine

LEMMA SweepNextStep ==
    ASSUME DirectoryIInv, SweepNext
    PROVE  DirectoryIInv'
<1>1. /\ sweep.job.at = "each" /\ sweep.job \in Job
      /\ UNCHANGED <<entry, actor, kept, owned, caller, startup>>
      /\ sweep.losses \in 0..MaxLosses /\ owned' \in [Chat -> BOOLEAN]
  BY Lookups DEF SweepNext, DirectoryIInv, DirectoryTypeOK
<1>2. CASE sweep.job.todo = {}
  <2>1. sweep' = [sweep EXCEPT !.job = NoSweep, !.losses = sweep.losses]
    BY <1>2 DEF SweepNext, DirectoryIInv, DirectoryTypeOK
  <2>2. NoSweep \in Job /\ NoSweep.at = "off"
    BY DEF NoSweep, Job
  <2> QED
    BY <1>1, <2>1, <2>2, SweepMoves
<1>3. CASE sweep.job.todo # {}
  <2>1. PICK c \in sweep.job.todo :
            sweep' = IF owned[c]
                     THEN [sweep EXCEPT !.job.todo = @ \ {c}]
                     ELSE [sweep EXCEPT !.job.at = "drop", !.job.of = c]
    BY <1>3 DEF SweepNext
  <2>2. c \in Chat
    BY <1>1 DEF Job
  <2>3. CASE owned[c]
    <3> DEFINE j == [sweep.job EXCEPT !.todo = sweep.job.todo \ {c}]
    <3>1. sweep' = [sweep EXCEPT !.job = j, !.losses = sweep.losses]
      BY <2>1, <2>3 DEF DirectoryIInv, DirectoryTypeOK
    <3>2. j \in Job /\ j.at = "each"
      BY <1>1 DEF Job
    <3> HIDE DEF j
    <3> QED
      BY <1>1, <3>1, <3>2, SweepMoves
  <2>4. CASE ~owned[c]
    <3> DEFINE i == [sweep.job EXCEPT !.at = "drop"]
               j == [i EXCEPT !.of = c]
    <3>1. sweep' = [sweep EXCEPT !.job = j, !.losses = sweep.losses]
      BY <2>1, <2>4 DEF DirectoryIInv, DirectoryTypeOK
    <3>2. i \in Job
      BY <1>1, JobSet
    <3> HIDE DEF i
    <3>3. j \in Job /\ j.of = c
      BY <2>2, <3>2 DEF Job
    <3> HIDE DEF j
    <3> QED
      BY <1>1, <2>2, <3>1, <3>3, SweepMoves
  <2> QED
    BY <2>3, <2>4
<1> QED
  BY <1>2, <1>3

LEMMA JoinDroppedStep ==
    ASSUME DirectoryIInv, JoinDropped
    PROVE  DirectoryIInv'
<1>1. /\ sweep.job.at = "join" /\ sweep.job \in Job /\ sweep.job.of \in Chat
      /\ UNCHANGED <<entry, actor, kept, owned, caller, startup>>
      /\ sweep.losses \in 0..MaxLosses /\ owned' \in [Chat -> BOOLEAN]
  BY Lookups DEF JoinDropped, DirectoryIInv, DirectoryTypeOK, JobFine
<1>2. CASE Sweeping /\ owned[sweep.job.of]
  <2> DEFINE i == [sweep.job EXCEPT !.at = "each"]
             j == [i EXCEPT !.todo = sweep.job.todo \ {sweep.job.of}]
  <2>1. sweep' = [sweep EXCEPT !.job = j, !.losses = sweep.losses]
    BY <1>1, <1>2 DEF JoinDropped, DirectoryIInv, DirectoryTypeOK, Job
  <2>2. i \in Job /\ i.at = "each" /\ sweep.job.todo \ {sweep.job.of} \subseteq Chat
    BY <1>1, JobSet DEF Job
  <2> HIDE DEF i
  <2>3. j \in Job /\ j.at = "each"
    BY <2>2 DEF Job
  <2> HIDE DEF j
  <2> QED
    BY <1>1, <2>1, <2>3, SweepMoves
<1>3. CASE ~(Sweeping /\ owned[sweep.job.of])
  <2> DEFINE j == [sweep.job EXCEPT !.at = "delete"]
  <2>1. sweep' = [sweep EXCEPT !.job = j, !.losses = sweep.losses]
    BY <1>3 DEF JoinDropped, DirectoryIInv, DirectoryTypeOK
  <2>2. j \in Job /\ j.of = sweep.job.of
    BY <1>1, JobSet
  <2> HIDE DEF j
  <2> QED
    BY <1>1, <2>1, <2>2, SweepMoves
<1> QED
  BY <1>2, <1>3

-----------------------------------------------------------------------------
(* The steps of the startup dispatch alone.                                *)
LEMMA DispatchMoves ==
    ASSUME DirectoryIInv, UNCHANGED <<entry, actor, kept, owned, caller, sweep>>,
           startup' \in Startup, StartupFine'
    PROVE  DirectoryIInv'
<1>1. DirectoryTypeOK'
  BY DEF DirectoryIInv, DirectoryTypeOK
<1>2. /\ \A n \in Actor : ActorKeeps(n)
      /\ \A v \in Callers : UnmarkedKeeps(v)
      /\ actor' \in [Actor -> ActorState] /\ entry' \in [Chat -> Entry]
  BY <1>1 DEF ActorKeeps, UnmarkedKeeps, DirectoryTypeOK
<1>3. /\ \A c \in Chat : EntryFine(c)'
      /\ \A n \in Actor : ActorFine(n)'
      /\ \A v \in Callers : Fits(caller[v])'
  BY <1>2, Steady
<1> QED
  BY <1>1, <1>3 DEF DirectoryIInv, JobFine

LEMMA ScanFailsStep ==
    ASSUME DirectoryIInv, ScanFails
    PROVE  DirectoryIInv'
<1>1. /\ startup \in Startup /\ startup.at = "scan" /\ startup.tries < ClaimTries
      /\ startup.tries \in Nat /\ ClaimTries \in Nat
      /\ UNCHANGED <<entry, actor, kept, owned, caller, sweep>>
  BY Lookups DEF ScanFails, DirectoryIInv, DirectoryTypeOK, StartupFine
<1> DEFINE k == startup.tries + 1
           f == startup.failed \/ k = ClaimTries
           a == IF k = ClaimTries THEN "over" ELSE "scan"
           p == [startup EXCEPT !.tries = k]
           q == [p EXCEPT !.failed = f]
           r == [q EXCEPT !.at = a]
<1>2. startup' = r
  BY <1>1 DEF ScanFails
<1>3. /\ k \in 0..ClaimTries /\ f \in BOOLEAN /\ a \in {"scan", "over"}
      /\ a = "scan" => k < ClaimTries
      /\ a # "scan" => f
  BY <1>1
<1> HIDE DEF k, f, a
<1>4. p \in Startup /\ p.tries = k
  BY <1>1, <1>3 DEF Startup
<1> HIDE DEF p
<1>5. q \in Startup /\ q.tries = k /\ q.failed = f
  BY <1>3, <1>4 DEF Startup
<1> HIDE DEF q
<1>6. r \in Startup /\ r.tries = k /\ r.failed = f /\ r.at = a
  BY <1>3, <1>5 DEF Startup
<1> HIDE DEF r
<1>7. StartupFine'
  BY <1>2, <1>3, <1>6 DEF StartupFine
<1> QED
  BY <1>1, <1>2, <1>6, <1>7, DispatchMoves

(* The last scan hands out every chat that has a queue, or has failed.     *)
LEMMA ScanFindsStep ==
    ASSUME DirectoryIInv, ScanFinds
    PROVE  DirectoryIInv'
<1>1. /\ startup \in Startup /\ startup.at = "scan" /\ startup.tries < ClaimTries
      /\ startup.tries \in Nat /\ ClaimTries \in Nat
      /\ UNCHANGED <<entry, actor, kept, owned, caller, sweep>>
  BY Lookups DEF ScanFinds, DirectoryIInv, DirectoryTypeOK, StartupFine
<1>2. PICK found \in SUBSET WithQueue :
          LET given == startup.given \cup found
              whole == found = WithQueue
              ends == whole \/ startup.tries + 1 = ClaimTries
              targets == {c \in given : owned[c]}
          IN  startup' = [at |-> IF ends THEN "run" ELSE "scan",
                          tries |-> startup.tries + 1, given |-> given,
                          left |-> IF ends THEN targets ELSE {},
                          failed |-> ends /\ ~(whole /\ targets = given)]
  BY DEF ScanFinds
<1> DEFINE given == startup.given \cup found
           whole == found = WithQueue
           ends == whole \/ startup.tries + 1 = ClaimTries
           targets == {c \in given : owned[c]}
<1>3. /\ startup'.at = IF ends THEN "run" ELSE "scan"
      /\ startup'.tries = startup.tries + 1
      /\ startup'.left = IF ends THEN targets ELSE {}
      /\ startup'.failed = (ends /\ ~(whole /\ targets = given))
  BY <1>2
<1>4. startup' \in Startup
  <2>1. given \subseteq Chat
    BY <1>1 DEF Startup, WithQueue
  <2>2. targets \subseteq Chat /\ startup.tries + 1 \in 0..ClaimTries
    BY <1>1, <2>1
  <2> HIDE DEF given, targets, ends, whole
  <2> QED
    BY <1>2, <2>1, <2>2 DEF Startup, given, targets, ends, whole
<1>5. StartupFine'
  <2>1. startup'.at = "scan" => startup'.tries < ClaimTries
    BY <1>1, <1>3
  <2>2. ASSUME startup'.at # "scan", ~startup'.failed, NEW c \in Chat,
               kept[c].queued = "boot"
        PROVE  startup'.at # "over" /\ c \in startup'.left
    <3>1. ends /\ whole /\ targets = given
      BY <1>3, <2>2
    <3>2. c \in found
      BY <2>2, <3>1 DEF WithQueue
    <3> QED
      BY <1>3, <3>1, <3>2
  <2> QED
    BY <1>1, <2>1, <2>2 DEF StartupFine
<1> QED
  BY <1>1, <1>4, <1>5, DispatchMoves

LEMMA HeadlessPollsStep ==
    ASSUME DirectoryIInv, HeadlessPolls
    PROVE  DirectoryIInv'
<1> DEFINE c == caller[Headless].chat
<1>1. /\ startup \in Startup /\ startup.at = "run"
      /\ UNCHANGED <<entry, actor, kept, owned, caller, sweep>>
  BY DEF HeadlessPolls, DirectoryIInv, DirectoryTypeOK
<1>2. CASE /\ kept[c].queued = "no"
           /\ startup' = [startup EXCEPT !.at = "release"]
  <2>1. /\ startup' \in Startup /\ startup'.at = "release"
        /\ startup'.failed = startup.failed /\ startup'.left = startup.left
    BY <1>1, <1>2 DEF Startup
  <2>2. \A d \in Chat : kept[d].queued = "boot" => ~InHand(d)
    BY <1>2 DEF InHand
  <2>3. StartupFine'
    BY <1>1, <2>1, <2>2 DEF DirectoryIInv, StartupFine
  <2> QED
    BY <1>1, <2>1, <2>3, DispatchMoves
<1>3. CASE startup' = [startup EXCEPT !.at = "release", !.failed = TRUE]
  <2> DEFINE q == [startup EXCEPT !.at = "release"]
             r == [q EXCEPT !.failed = TRUE]
  <2>1. startup' = r
    BY <1>3
  <2>2. q \in Startup /\ q.at = "release"
    BY <1>1 DEF Startup
  <2> HIDE DEF q
  <2>3. r \in Startup /\ r.at = "release" /\ r.failed
    BY <2>2 DEF Startup
  <2> HIDE DEF r
  <2>4. StartupFine'
    BY <2>1, <2>3 DEF StartupFine
  <2> QED
    BY <1>1, <2>1, <2>3, <2>4, DispatchMoves
<1> QED
  BY <1>2, <1>3 DEF HeadlessPolls, PolledIdle

LEMMA HeadlessEndsStep ==
    ASSUME DirectoryIInv, HeadlessEnds
    PROVE  DirectoryIInv'
<1>1. /\ startup \in Startup /\ startup.at = "run" /\ startup.left = {}
      /\ caller[Headless].at = "away"
      /\ startup' = [startup EXCEPT !.at = "over"]
      /\ UNCHANGED <<entry, actor, kept, owned, caller, sweep>>
  BY DEF HeadlessEnds, Where, DirectoryIInv, DirectoryTypeOK
<1>2. /\ startup' \in Startup /\ startup'.at = "over"
      /\ startup'.failed = startup.failed
  BY <1>1 DEF Startup
<1>3. StartupFine'
  BY <1>1, <1>2 DEF DirectoryIInv, StartupFine, InHand
<1> QED
  BY <1>1, <1>2, <1>3, DispatchMoves

-----------------------------------------------------------------------------
(* Who is not on the way to an actor, nor holds one, has nothing in hand.  *)
LEMMA NotInHand ==
    ASSUME DirectoryIInv, NEW v \in Callers, caller[v].at \in {"away", "let", "mark"},
           \A w \in Callers \ {v} : caller'[w] = caller[w],
           UNCHANGED startup,
           \A c \in Chat : kept'[c].queued = "boot" => kept[c].queued = "boot"
    PROVE  StartupFine'
<1>1. \A c \in Chat : InHand(c) => InHand(c)'
  <2>1. CASE v = Headless
    BY <2>1 DEF InHand
  <2>2. CASE v # Headless
    <3>1. caller'[Headless] = caller[Headless]
      BY <2>2 DEF Callers
    <3> QED
      BY <3>1 DEF InHand
  <2> QED
    BY <2>1, <2>2
<1> QED
  BY <1>1, StartupStays DEF DirectoryIInv

LEMMA StartReleaseStep ==
    ASSUME DirectoryIInv, NEW v \in Callers, StartRelease(v)
    PROVE  DirectoryIInv'
<1> DEFINE c == caller[v].chat
           n == entry[c].actor
           q == [caller[v] EXCEPT !.at = "let"]
           r == IF n = 0 THEN Away ELSE [q EXCEPT !.actor = n]
<1>1. /\ caller' = [caller EXCEPT ![v] = r] /\ caller[v].at = "held"
      /\ v = Headless => startup.at = "release"
      /\ UNCHANGED <<entry, actor, kept, owned, sweep>>
  BY DEF StartRelease, Where
<1>2. /\ caller[v] \in CallerState /\ c \in Chat /\ entry[c] \in Entry
      /\ startup \in Startup
  BY <1>1, Lookups DEF DirectoryIInv, DirectoryTypeOK, Fits
<1>3. r \in CallerState /\ Fits(r)
  <2>1. CASE n = 0
    BY <2>1 DEF Away, CallerState, Fits
  <2>2. CASE n # 0
    <3>1. n \in Actor /\ actor[n].phase = "on"
      BY <1>2, <2>2 DEF Entry, EntryFine, DirectoryIInv
    <3>2. q \in CallerState /\ q.at = "let" /\ q.chat = c
      BY <1>2, CallerSet
    <3> HIDE DEF q
    <3>3. r \in CallerState /\ r.at = "let" /\ r.chat = c /\ r.actor = n
      BY <2>2, <3>1, <3>2 DEF CallerState
    <3> HIDE DEF r, n, c
    <3> QED
      BY <1>2, <3>1, <3>3 DEF Fits
  <2> QED
    BY <2>1, <2>2
<1> HIDE DEF r
<1>4. startup' \in Startup /\ StartupFine'
  <2>1. CASE v = Headless
    <3>1. startup' = [startup EXCEPT !.at = "run"] /\ startup.at = "release"
      BY <1>1, <2>1 DEF StartRelease
    <3>2. /\ startup' \in Startup /\ startup'.at = "run"
          /\ startup'.failed = startup.failed /\ startup'.left = startup.left
      BY <1>2, <3>1 DEF Startup
    <3> QED
      BY <1>1, <3>1, <3>2 DEF DirectoryIInv, StartupFine, InHand
  <2>2. CASE v # Headless
    <3>1. startup' = startup
      BY <2>2 DEF StartRelease
    <3>2. caller'[Headless] = caller[Headless]
      BY <1>1, <2>2 DEF Callers, DirectoryIInv, DirectoryTypeOK
    <3> QED
      BY <1>1, <1>2, <3>1, <3>2, StartupStays DEF InHand, DirectoryIInv
  <2> QED
    BY <2>1, <2>2
<1> QED
  BY <1>1, <1>3, <1>4, CallerMoves DEF DirectoryIInv, DirectoryTypeOK

LEMMA SendReleaseStep ==
    ASSUME DirectoryIInv, NEW v \in Callers, SendRelease(v)
    PROVE  DirectoryIInv'
<1> DEFINE n == caller[v].actor
           r == [caller[v] EXCEPT !.at = "mark"]
           h == IF actor[n].holders = 0 THEN 0 ELSE actor[n].holders - 1
           a == [actor[n] EXCEPT !.holders = h]
<1>1. /\ caller' = [caller EXCEPT ![v] = r] /\ caller[v].at = "let"
      /\ actor' = [actor EXCEPT ![n] = a] \/ UNCHANGED actor
      /\ UNCHANGED <<entry, kept, owned, sweep, startup>>
  BY DEF SendRelease, Where, Moves
<1>2. /\ caller[v] \in CallerState /\ caller[v].chat \in Chat
      /\ n \in Actor
  BY <1>1, Lookups DEF DirectoryIInv, Fits
<1>3. /\ actor[n] \in ActorState /\ actor[n].holders \in Nat
  BY <1>2, Lookups DEF DirectoryIInv, ActorState
<1>4. h \in Nat
  BY <1>3
<1> HIDE DEF h
<1>5. /\ a \in ActorState /\ a.phase = actor[n].phase /\ a.chat = actor[n].chat
      /\ a.close = actor[n].close /\ a.slip = actor[n].slip
      /\ a.agent = actor[n].agent
  BY <1>3, <1>4 DEF ActorState
<1>6. /\ r \in CallerState /\ r.at = "mark" /\ r.chat \in Chat
  BY <1>2, CallerSet
<1> HIDE DEF a, r
<1>7. /\ actor' \in [Actor -> ActorState]
      /\ \A m \in Actor : ActorKeeps(m)
  BY <1>1, <1>5 DEF ActorKeeps, DirectoryIInv, DirectoryTypeOK
<1>8. /\ caller' \in [Callers -> CallerState] /\ caller'[v] = r
      /\ \A w \in Callers \ {v} : caller'[w] = caller[w]
  BY <1>1, <1>6 DEF DirectoryIInv, DirectoryTypeOK
<1>9. /\ Fits(caller[v])' /\ \A w \in Callers : UnmarkedKeeps(w)
  BY <1>1, <1>6, <1>8 DEF Fits, UnmarkedKeeps
<1>10. /\ DirectoryTypeOK' /\ JobFine' /\ entry' \in [Chat -> Entry]
  BY <1>1, <1>7, <1>8 DEF DirectoryIInv, DirectoryTypeOK, JobFine
<1>11. /\ \A c \in Chat : EntryFine(c)'
       /\ \A m \in Actor : ActorFine(m)'
       /\ \A w \in Callers : Fits(caller[w])'
  BY <1>1, <1>7, <1>8, <1>9, <1>10, Steady
<1>12. StartupFine'
  BY <1>1, <1>8, NotInHand
<1> QED
  BY <1>10, <1>11, <1>12 DEF DirectoryIInv

(* The mark is set on an actor nobody else asked for or holds, or it slips. *)
LEMMA MarkReleasedStep ==
    ASSUME DirectoryIInv, NEW v \in Callers, MarkReleased(v)
    PROVE  DirectoryIInv'
<1> DEFINE c == caller[v].chat
           n == entry[c].actor
           other == \E w \in Callers \ {v} : \/ Holds(w, n)
                                             \/ Where(w, "send") /\ caller[w].actor = n
           e == [entry[c] EXCEPT !.released = "new"]
           a == [actor[n] EXCEPT !.slip = TRUE]
<1>1. /\ caller' = [caller EXCEPT ![v] = Away] /\ caller[v].at = "mark"
      /\ entry' = IF n = 0 THEN entry ELSE [entry EXCEPT ![c] = e]
      /\ actor' = IF n # 0 /\ other THEN [actor EXCEPT ![n] = a] ELSE actor
      /\ UNCHANGED <<kept, owned, sweep, startup>>
  BY DEF MarkReleased, Where
<1>2. /\ c \in Chat /\ entry[c] \in Entry
      /\ n # 0 => n \in Actor /\ actor[n] \in ActorState
      /\ entry \in [Chat -> Entry] /\ actor \in [Actor -> ActorState]
      /\ caller \in [Callers -> CallerState]
  BY <1>1, Lookups DEF DirectoryIInv, DirectoryTypeOK, Fits, Entry
<1>3. e \in Entry /\ e.actor = n
  BY <1>2 DEF Entry
<1>4. n # 0 => /\ a \in ActorState /\ a.phase = actor[n].phase
               /\ a.chat = actor[n].chat /\ a.close = actor[n].close
               /\ a.agent = actor[n].agent /\ a.slip
  BY <1>2, ActorSet
<1> HIDE DEF e, a
<1>5. /\ actor' \in [Actor -> ActorState]
      /\ \A m \in Actor : ActorKeeps(m)
  BY <1>1, <1>2, <1>4 DEF ActorKeeps
<1>6. /\ entry' \in [Chat -> Entry]
      /\ \A d \in Chat : entry'[d].actor = entry[d].actor
      /\ \A d \in Chat : d # c => entry'[d] = entry[d]
  BY <1>1, <1>2, <1>3
<1>7. /\ caller' \in [Callers -> CallerState] /\ caller'[v] = Away
      /\ \A w \in Callers \ {v} : caller'[w] = caller[w]
  BY <1>1, <1>2 DEF Away, CallerState
<1>8. Fits(caller[v])'
  BY <1>7 DEF Fits, Away
<1>9. ASSUME NEW w \in Callers PROVE UnmarkedKeeps(w)
  <2> SUFFICES ASSUME caller[w].at \in {"send", "held"},
                      actor[caller[w].actor].phase = "on",
                      actor[caller[w].actor].chat = c
               PROVE  actor'[caller[w].actor].slip
    BY <1>6, OnesChat DEF UnmarkedKeeps
  <2>1. caller[w].actor \in Actor /\ caller[w].actor # 0
    BY OnesChat, Lookups DEF DirectoryIInv
  <2>2. caller[w].actor = n
    BY <2>1 DEF DirectoryIInv, ActorFine
  <2>3. w # v
    BY <1>1
  <2>4. other
    BY <2>2, <2>3 DEF Holds, Where
  <2> QED
    BY <1>1, <1>2, <1>4, <2>1, <2>2, <2>4
<1>10. DirectoryTypeOK' /\ JobFine'
  BY <1>1, <1>5, <1>6, <1>7 DEF DirectoryIInv, DirectoryTypeOK, JobFine
<1>11. /\ \A d \in Chat : EntryFine(d)'
       /\ \A m \in Actor : ActorFine(m)'
       /\ \A w \in Callers : Fits(caller[w])'
  BY <1>1, <1>5, <1>6, <1>7, <1>8, <1>9, Steady
<1>12. StartupFine'
  BY <1>1, <1>7, NotInHand
<1> QED
  BY <1>10, <1>11, <1>12 DEF DirectoryIInv

(* The actor of an entry ends: its task was dropped, or the entry was      *)
(* marked released.                                                        *)
LEMMA EntryGoes ==
    ASSUME DirectoryIInv, NEW c \in Chat, entry[c].actor # 0, NEW a \in ActorState,
           entry' = [entry EXCEPT ![c] = NoEntry],
           actor' = [actor EXCEPT ![entry[c].actor] = a],
           a.phase = "ending", a.chat = actor[entry[c].actor].chat,
           a.slip = actor[entry[c].actor].slip,
           a.close \/ entry[c].released # "no",
           UNCHANGED kept,
           \A w \in Callers : \/ caller'[w] = caller[w]
                              \/ caller'[w].at \in Way /\ caller'[w].chat \in Chat
    PROVE  /\ entry' \in [Chat -> Entry] /\ actor' \in [Actor -> ActorState]
           /\ \A d \in Chat : EntryFine(d)'
           /\ \A m \in Actor : ActorFine(m)'
           /\ \A w \in Callers : Fits(caller[w])'
<1> DEFINE n == entry[c].actor
<1>1. /\ n \in Actor /\ actor[n].phase = "on" /\ actor[n].chat = c
      /\ entry \in [Chat -> Entry] /\ actor \in [Actor -> ActorState]
  BY Lookups DEF DirectoryIInv, DirectoryTypeOK, Entry, EntryFine
<1>2. /\ entry' \in [Chat -> Entry] /\ actor' \in [Actor -> ActorState]
      /\ entry'[c].actor = 0 /\ actor'[n] = a
      /\ \A d \in Chat : d # c => entry'[d] = entry[d]
      /\ \A m \in Actor : m # n => actor'[m] = actor[m]
  BY <1>1 DEF NoEntry, Entry
<1>3. ASSUME NEW m \in Actor, actor[m].phase = "on", m # n
      PROVE  actor[m].chat \in Chat /\ actor[m].chat # c
  BY <1>3 DEF DirectoryIInv, ActorFine
<1>4. \A d \in Chat : EntryFine(d)'
  <2> SUFFICES ASSUME NEW d \in Chat, d # c, entry[d].actor # 0
               PROVE  actor'[entry[d].actor] = actor[entry[d].actor]
                      /\ EntryFine(d)
    BY <1>2 DEF EntryFine
  <2>1. EntryFine(d) /\ entry[d].actor \in Actor
    BY <1>1 DEF DirectoryIInv, Entry
  <2>2. entry[d].actor # n
    BY <1>1, <2>1 DEF EntryFine
  <2> QED
    BY <1>2, <2>1, <2>2
<1>5. \A m \in Actor : ActorFine(m)'
  <2> TAKE m \in Actor
  <2>1. ActorFine(m)
    BY DEF DirectoryIInv
  <2>2. CASE m = n
    BY <1>1, <1>2, <2>2 DEF ActorFine
  <2>3. CASE m # n
    BY <1>2, <1>3, <2>1, <2>3 DEF ActorFine
  <2> QED
    BY <2>2, <2>3
<1>6. \A w \in Callers : Fits(caller[w])'
  <2> TAKE w \in Callers
  <2>1. CASE caller'[w].at \in Way /\ caller'[w].chat \in Chat
    BY <2>1 DEF Fits, Way
  <2>2. CASE caller'[w] = caller[w]
    <3>1. Fits(caller[w])
      BY DEF DirectoryIInv
    <3>2. CASE caller[w].at \notin {"send", "held", "let"}
      BY <2>2, <3>1, <3>2 DEF Fits
    <3>3. CASE caller[w].at \in {"send", "held", "let"} /\ caller[w].actor = n
      BY <1>1, <1>2, <2>2, <3>1, <3>3 DEF Fits
    <3>4. CASE caller[w].at \in {"send", "held", "let"} /\ caller[w].actor # n
      <4>1. caller[w].actor \in Actor
        BY <3>4, OnesChat
      <4>2. actor'[caller[w].actor] = actor[caller[w].actor]
        BY <1>2, <3>4, <4>1
      <4>3. actor[caller[w].actor].phase = "on" =>
                entry'[actor[caller[w].actor].chat] = entry[actor[caller[w].actor].chat]
        BY <1>2, <1>3, <3>4, <4>1
      <4> QED
        BY <2>2, <3>1, <4>2, <4>3 DEF Fits
    <3> QED
      BY <3>2, <3>3, <3>4
  <2> QED
    BY <2>1, <2>2
<1> QED
  BY <1>2, <1>4, <1>5, <1>6

LEMMA Evict1Step ==
    ASSUME DirectoryIInv, NEW v \in Callers, Evict1(v)
    PROVE  DirectoryIInv'
<1> DEFINE q == [caller[v] EXCEPT !.at = "evict"]
           r == [q EXCEPT !.ask = {}]
<1>1. /\ caller' = [caller EXCEPT ![v] = r] /\ caller[v].at = "remove"
      /\ UNCHANGED <<kept, owned, sweep, startup>>
  BY DEF Evict1, Where
<1>2. /\ caller[v] \in CallerState /\ caller \in [Callers -> CallerState]
      /\ caller[v].chat \in Chat
  BY <1>1, Lookups DEF DirectoryIInv, DirectoryTypeOK, Fits
<1>3. q \in CallerState /\ q.at = "evict" /\ q.chat = caller[v].chat
  BY <1>2, CallerSet
<1> HIDE DEF q
<1>4. r \in CallerState /\ r.at = "evict" /\ r.chat = caller[v].chat
  BY <1>3 DEF CallerState
<1> HIDE DEF r
<1>5. PICK d \in caller[v].ask :
          IF Removable(d)
          THEN /\ entry' = [entry EXCEPT ![d] = NoEntry]
               /\ actor' = [actor EXCEPT ![entry[d].actor].phase = "ending"]
          ELSE UNCHANGED <<entry, actor>>
  BY DEF Evict1
<1>6. d \in Chat
  BY <1>2 DEF CallerState
<1>7. CASE Removable(d)
  <2> DEFINE n == entry[d].actor
             a == [actor[n] EXCEPT !.phase = "ending"]
  <2>1. /\ n # 0 /\ entry[d].released # "no"
        /\ entry' = [entry EXCEPT ![d] = NoEntry]
        /\ actor' = [actor EXCEPT ![n] = a]
    BY <1>5, <1>7 DEF Removable
  <2>2. actor[n] \in ActorState
    BY <1>6, <2>1, Lookups DEF DirectoryIInv, Entry
  <2>3. /\ a \in ActorState /\ a.phase = "ending" /\ a.chat = actor[n].chat
        /\ a.slip = actor[n].slip
    BY <2>2, ActorSet
  <2> HIDE DEF a
  <2>4. /\ caller' \in [Callers -> CallerState]
        /\ \A w \in Callers : \/ caller'[w] = caller[w]
                              \/ caller'[w].at \in Way /\ caller'[w].chat \in Chat
    BY <1>1, <1>2, <1>4 DEF Way
  <2>5. /\ entry' \in [Chat -> Entry] /\ actor' \in [Actor -> ActorState]
        /\ \A c \in Chat : EntryFine(c)'
        /\ \A m \in Actor : ActorFine(m)'
        /\ \A w \in Callers : Fits(caller[w])'
    BY <1>1, <1>6, <2>1, <2>3, <2>4, EntryGoes
  <2>6. DirectoryTypeOK' /\ JobFine'
    BY <1>1, <2>4, <2>5 DEF DirectoryIInv, DirectoryTypeOK, JobFine
  <2>7. \A c \in Chat : InHand(c) => InHand(c)'
    <3>1. \/ caller'[Headless] = caller[Headless]
          \/ /\ caller'[Headless].at = "evict"
             /\ caller'[Headless].chat = caller[Headless].chat
      BY <1>1, <1>2, <1>4 DEF Callers
    <3> QED
      BY <1>1, <3>1 DEF InHand
  <2>8. StartupFine'
    BY <1>1, <2>7, StartupStays DEF DirectoryIInv
  <2> QED
    BY <2>5, <2>6, <2>8 DEF DirectoryIInv
<1>8. CASE ~Removable(d)
  BY <1>1, <1>2, <1>4, <1>5, <1>8, OnTheWay DEF Way
<1> QED
  BY <1>7, <1>8

(* drop_session.                                                           *)
LEMMA DropChatStep ==
    ASSUME DirectoryIInv, DropChat
    PROVE  DirectoryIInv'
<1> DEFINE c == sweep.job.of
           n == entry[c].actor
           i == [sweep.job EXCEPT !.at = "join"]
           j == [i EXCEPT !.actor = n]
<1>1. /\ sweep.job.at = "drop"
      /\ entry' = [entry EXCEPT ![c] = NoEntry]
      /\ actor' = IF n = 0 THEN actor
                  ELSE [actor EXCEPT ![n].phase = "ending", ![n].close = TRUE]
      /\ sweep' = [sweep EXCEPT !.job.at = "join", !.job.actor = n]
      /\ UNCHANGED <<kept, owned, caller, startup>>
  BY DEF DropChat
<1>2. /\ c \in Chat /\ sweep.job \in Job /\ entry[c] \in Entry
      /\ n \in {0} \cup Actor /\ sweep.losses \in 0..MaxLosses
  BY <1>1, Lookups DEF DirectoryIInv, JobFine, Entry
<1>3. sweep' = [sweep EXCEPT !.job = j]
  BY <1>1 DEF DirectoryIInv, DirectoryTypeOK
<1>4. i \in Job /\ i.of = c
  BY <1>2, JobSet
<1> HIDE DEF i
<1>5. j \in Job /\ j.of = c
  BY <1>2, <1>4 DEF Job
<1> HIDE DEF j
<1>6. /\ sweep' \in [job : Job, visits : 0..MaxVisits, losses : 0..MaxLosses]
      /\ JobFine'
  BY <1>2, <1>3, <1>5 DEF DirectoryIInv, DirectoryTypeOK, JobFine
<1>7. /\ entry' \in [Chat -> Entry] /\ actor' \in [Actor -> ActorState]
      /\ \A d \in Chat : EntryFine(d)'
      /\ \A m \in Actor : ActorFine(m)'
      /\ \A w \in Callers : Fits(caller[w])'
  <2>1. CASE n # 0
    <3> DEFINE b == [actor[n] EXCEPT !.phase = "ending"]
               a == [b EXCEPT !.close = TRUE]
    <3>1. actor[n] \in ActorState
      BY <1>2, <2>1, Lookups DEF DirectoryIInv
    <3>2. actor' = [actor EXCEPT ![n] = a]
      BY <1>1, <2>1
    <3>3. /\ b \in ActorState /\ b.phase = "ending" /\ b.chat = actor[n].chat
          /\ b.slip = actor[n].slip
      BY <3>1, ActorSet
    <3> HIDE DEF b
    <3>4. /\ a \in ActorState /\ a.phase = "ending" /\ a.chat = actor[n].chat
          /\ a.slip = actor[n].slip /\ a.close
      BY <3>3, ActorSet
    <3> HIDE DEF a
    <3> QED
      BY <1>1, <1>2, <2>1, <3>2, <3>4, EntryGoes
  <2>2. CASE n = 0
    <3>1. /\ entry' \in [Chat -> Entry] /\ actor' = actor
          /\ \A d \in Chat : entry'[d].actor = entry[d].actor
          /\ entry'[c].released = "no"
          /\ \A d \in Chat : d # c => entry'[d] = entry[d]
      BY <1>1, <2>2, <1>2 DEF NoEntry, Entry, DirectoryIInv, DirectoryTypeOK
    <3>2. \A m \in Actor : ActorKeeps(m)
      BY <3>1 DEF ActorKeeps
    <3>3. \A w \in Callers : UnmarkedKeeps(w)
      BY <3>1, OnesChat DEF UnmarkedKeeps
    <3> QED
      BY <1>1, <3>1, <3>2, <3>3, Steady DEF DirectoryIInv, DirectoryTypeOK
  <2> QED
    BY <2>1, <2>2
<1>8. DirectoryTypeOK'
  BY <1>1, <1>6, <1>7 DEF DirectoryIInv, DirectoryTypeOK
<1>9. StartupFine'
  BY <1>1, StartupStays DEF InHand, DirectoryIInv
<1> QED
  BY <1>6, <1>7, <1>8, <1>9 DEF DirectoryIInv

LEMMA ActorEndsStep ==
    ASSUME DirectoryIInv, NEW n \in Actor, ActorEnds(n)
    PROVE  DirectoryIInv'
<1> DEFINE b == [actor[n] EXCEPT !.phase = "gone"]
           d == [b EXCEPT !.agent = FALSE]
           e == [d EXCEPT !.busy = FALSE]
           a == [e EXCEPT !.holders = 0]
           c == actor[n].chat
           k == [kept[c] EXCEPT !.queued = "no"]
<1>1. /\ actor[n].phase = "ending"
      /\ actor' = [actor EXCEPT ![n] = a]
      /\ kept' = [kept EXCEPT ![c] = k] \/ UNCHANGED kept
      /\ UNCHANGED <<entry, owned, caller, sweep, startup>>
  BY DEF ActorEnds
<1>2. /\ actor[n] \in ActorState /\ c \in Chat /\ kept[c] \in Stored
      /\ kept \in [Chat -> Stored] /\ actor \in [Actor -> ActorState]
  BY <1>1, Lookups DEF DirectoryIInv, DirectoryTypeOK, ActorFine
<1>3. /\ b \in ActorState /\ b.phase = "gone" /\ b.chat = c
      /\ b.close = actor[n].close /\ b.slip = actor[n].slip
  BY <1>2 DEF ActorState
<1> HIDE DEF b
<1>4. /\ d \in ActorState /\ d.phase = "gone" /\ d.chat = c
      /\ d.close = actor[n].close /\ d.slip = actor[n].slip
  BY <1>3, ActorSet
<1> HIDE DEF d
<1>5. /\ e \in ActorState /\ e.phase = "gone" /\ e.chat = c
      /\ e.close = actor[n].close /\ e.slip = actor[n].slip
  BY <1>4, ActorSet
<1> HIDE DEF e
<1>6. /\ a \in ActorState /\ a.phase = "gone" /\ a.chat = c
      /\ a.close = actor[n].close /\ a.slip = actor[n].slip
  BY <1>5 DEF ActorState
<1> HIDE DEF a
<1>7. k \in Stored /\ k.queued = "no" /\ k.data = kept[c].data
  BY <1>2 DEF Stored
<1> HIDE DEF k
<1>8. /\ kept' \in [Chat -> Stored] /\ actor' \in [Actor -> ActorState]
      /\ \A x \in Chat : kept'[x].data = kept[x].data
      /\ \A x \in Chat : kept'[x].queued = "boot" => kept[x].queued = "boot"
      /\ actor'[n] = a /\ \A m \in Actor : m # n => actor'[m] = actor[m]
  BY <1>1, <1>2, <1>6, <1>7
<1>9. \A x \in Chat : EntryFine(x)'
  <2> SUFFICES ASSUME NEW x \in Chat, entry[x].actor # 0
               PROVE  actor'[entry[x].actor] = actor[entry[x].actor]
    BY <1>1 DEF DirectoryIInv, EntryFine
  <2>1. entry[x].actor \in Actor /\ actor[entry[x].actor].phase = "on"
    BY Lookups DEF DirectoryIInv, EntryFine, Entry
  <2> QED
    BY <1>1, <1>8, <2>1
<1>10. \A m \in Actor : ActorFine(m)'
  <2> TAKE m \in Actor
  <2>1. ActorFine(m)
    BY DEF DirectoryIInv
  <2>2. CASE m = n
    BY <1>2, <1>6, <1>8, <2>2 DEF ActorFine
  <2>3. CASE m # n
    BY <1>1, <1>8, <2>1, <2>3 DEF ActorFine
  <2> QED
    BY <2>2, <2>3
<1>11. \A w \in Callers : Fits(caller[w])'
  <2> TAKE w \in Callers
  <2>1. Fits(caller[w]) /\ caller'[w] = caller[w]
    BY <1>1 DEF DirectoryIInv
  <2>2. CASE caller[w].at \notin {"send", "held", "let"}
    BY <2>1, <2>2 DEF Fits
  <2>3. CASE caller[w].at \in {"send", "held", "let"} /\ caller[w].actor = n
    BY <1>1, <1>6, <1>8, <2>1, <2>3 DEF Fits
  <2>4. CASE caller[w].at \in {"send", "held", "let"} /\ caller[w].actor # n
    <3>1. /\ caller[w].actor \in Actor /\ actor[caller[w].actor].chat \in Chat
          /\ actor'[caller[w].actor] = actor[caller[w].actor]
      BY <1>8, <2>4, OnesChat
    <3> QED
      BY <1>1, <1>8, <2>1, <3>1 DEF Fits
  <2> QED
    BY <2>2, <2>3, <2>4
<1>12. DirectoryTypeOK' /\ JobFine'
  BY <1>1, <1>8 DEF DirectoryIInv, DirectoryTypeOK, JobFine
<1>13. StartupFine'
  BY <1>1, <1>8, StartupStays DEF InHand, DirectoryIInv
<1> QED
  BY <1>9, <1>10, <1>11, <1>12, <1>13 DEF DirectoryIInv

(* The cleanup of the task before deletes what a new actor has stored: that *)
(* actor slips; after a sweep's own look there is none.                     *)
LEMMA DeleteStoredStep ==
    ASSUME DirectoryIInv, DeleteStored
    PROVE  DirectoryIInv'
<1> DEFINE c == sweep.job.of
           n == entry[c].actor
           k == [data |-> FALSE, queued |-> "no"]
           a == [actor[n] EXCEPT !.slip = TRUE]
           i == [sweep.job EXCEPT !.at = "each"]
           j == IF Sweeping THEN [i EXCEPT !.todo = sweep.job.todo \ {c}] ELSE NoSweep
<1>1. /\ sweep.job.at = "delete"
      /\ UNCHANGED <<entry, owned, caller, startup>>
  BY DEF DeleteStored
<1>2. /\ c \in Chat /\ sweep.job \in Job /\ entry[c] \in Entry
      /\ sweep.losses \in 0..MaxLosses /\ n \in {0} \cup Actor
  BY <1>1, Lookups DEF DirectoryIInv, JobFine, Entry
<1>3. sweep' = [sweep EXCEPT !.job = j]
  BY DEF DeleteStored, DirectoryIInv, DirectoryTypeOK, Job
<1>4. j \in Job /\ j.at \in {"off", "each"}
  <2>1. CASE Sweeping
    <3>1. i \in Job /\ i.at = "each" /\ sweep.job.todo \ {c} \subseteq Chat
      BY <1>2, JobSet DEF Job
    <3> HIDE DEF i
    <3> QED
      BY <2>1, <3>1 DEF Job
  <2>2. CASE ~Sweeping
    BY <2>2 DEF NoSweep, Job
  <2> QED
    BY <2>1, <2>2
<1> HIDE DEF j, i
<1>5. sweep' \in [job : Job, visits : 0..MaxVisits, losses : 0..MaxLosses]
  BY <1>3, <1>4 DEF DirectoryIInv, DirectoryTypeOK
<1>6. JobFine'
  BY <1>3, <1>4 DEF JobFine, DirectoryIInv, DirectoryTypeOK
<1>7. CASE ~Deletable(c)
  <2>1. UNCHANGED <<kept, actor>>
    BY <1>7 DEF DeleteStored
  <2> QED
    BY <1>1, <1>5, <1>6, <2>1, Quiet
    DEF DirectoryIInv, DirectoryTypeOK, ActorKeeps
<1>8. CASE Deletable(c)
  <2>1. /\ kept' = [kept EXCEPT ![c] = k]
        /\ actor' = IF n = 0 THEN actor ELSE [actor EXCEPT ![n] = a]
    BY <1>8 DEF DeleteStored, Deletable
  <2>2. n # 0 => /\ n \in Actor /\ a \in ActorState /\ a.slip
                 /\ a.phase = actor[n].phase /\ a.chat = actor[n].chat
                 /\ a.close = actor[n].close /\ a.agent = actor[n].agent
    <3> SUFFICES ASSUME n # 0
                 PROVE  /\ n \in Actor /\ a \in ActorState /\ a.slip
                        /\ a.phase = actor[n].phase /\ a.chat = actor[n].chat
                        /\ a.close = actor[n].close /\ a.agent = actor[n].agent
      OBVIOUS
    <3>1. n \in Actor
      BY <1>2
    <3>2. actor[n] \in ActorState
      BY <3>1, Lookups DEF DirectoryIInv
    <3> QED
      BY <3>1, <3>2 DEF ActorState
  <2> HIDE DEF a
  <2>3. /\ actor' \in [Actor -> ActorState]
        /\ \A m \in Actor :
              /\ actor'[m].phase = actor[m].phase /\ actor'[m].chat = actor[m].chat
              /\ actor'[m].close = actor[m].close /\ actor'[m].agent = actor[m].agent
              /\ actor[m].slip => actor'[m].slip
        /\ n # 0 => actor'[n].slip
    BY <2>1, <2>2 DEF DirectoryIInv, DirectoryTypeOK
  <2>4. /\ kept' \in [Chat -> Stored] /\ kept'[c].queued = "no"
        /\ \A d \in Chat : d # c => kept'[d] = kept[d]
    BY <1>2, <2>1 DEF DirectoryIInv, DirectoryTypeOK, Stored
  <2>5. ASSUME NEW m \in Actor, actor[m].phase = "on", ~actor'[m].slip
        PROVE  actor[m].chat \in Chat /\ kept'[actor[m].chat] = kept[actor[m].chat]
    <3>1. actor[m].chat \in Chat /\ entry[actor[m].chat].actor = m /\ m # 0
      BY <2>5, Lookups DEF DirectoryIInv, ActorFine
    <3>2. actor[m].chat # c
      BY <2>3, <2>5, <3>1
    <3> QED
      BY <2>4, <3>1, <3>2
  <2>6. \A d \in Chat : EntryFine(d)'
    BY <1>1, <2>3 DEF DirectoryIInv, DirectoryTypeOK, EntryFine, Entry
  <2>7. \A m \in Actor : ActorFine(m)'
    <3> TAKE m \in Actor
    <3>1. ActorFine(m)
      BY DEF DirectoryIInv
    <3> QED
      BY <1>1, <2>3, <2>5, <3>1 DEF ActorFine
  <2>8. \A w \in Callers : Fits(caller[w])'
    <3> TAKE w \in Callers
    <3>1. Fits(caller[w]) /\ caller'[w] = caller[w]
      BY <1>1 DEF DirectoryIInv
    <3>2. CASE caller[w].at \notin {"send", "held", "let"}
      BY <3>1, <3>2 DEF Fits
    <3>3. CASE caller[w].at \in {"send", "held", "let"}
      <4>1. caller[w].actor \in Actor
        BY <3>3, OnesChat
      <4> QED
        BY <1>1, <2>3, <2>5, <3>1, <4>1 DEF Fits
    <3> QED
      BY <3>2, <3>3
  <2>9. DirectoryTypeOK'
    BY <1>1, <1>5, <2>3, <2>4 DEF DirectoryIInv, DirectoryTypeOK
  <2>10. StartupFine'
    BY <1>1, <2>4, StartupStays DEF InHand, DirectoryIInv
  <2> QED
    BY <1>6, <2>6, <2>7, <2>8, <2>9, <2>10 DEF DirectoryIInv
<1> QED
  BY <1>7, <1>8

-----------------------------------------------------------------------------
(* The entry is there by now, or its actor is made.                        *)
LEMMA InsertStep ==
    ASSUME DirectoryIInv, NEW v \in Callers, Insert(v)
    PROVE  DirectoryIInv'
<1> DEFINE c == caller[v].chat
           q == [caller[v] EXCEPT !.at = "send"]
<1>1. /\ caller[v].at = "insert"
      /\ UNCHANGED <<kept, owned, sweep, startup>>
  BY DEF Insert, Where
<1>2. /\ caller[v] \in CallerState /\ c \in Chat /\ entry[c] \in Entry
      /\ caller \in [Callers -> CallerState] /\ entry \in [Chat -> Entry]
      /\ actor \in [Actor -> ActorState]
  BY <1>1, Lookups DEF DirectoryIInv, DirectoryTypeOK, Fits
<1>3. q \in CallerState /\ q.at = "send" /\ q.chat = c
  BY <1>2 DEF CallerState
<1> HIDE DEF q
<1>4. SUFFICES /\ entry' \in [Chat -> Entry] /\ actor' \in [Actor -> ActorState]
               /\ \A d \in Chat : EntryFine(d)'
               /\ \A m \in Actor : ActorFine(m)'
               /\ \A w \in Callers : Fits(caller[w])'
               /\ \E m \in Actor : caller' = [caller EXCEPT ![v] = [q EXCEPT !.actor = m]]
  <2>1. PICK m \in Actor : caller' = [caller EXCEPT ![v] = [q EXCEPT !.actor = m]]
    BY <1>4
  <2> DEFINE r == [q EXCEPT !.actor = m]
  <2>2. r \in CallerState /\ r.at = "send" /\ r.chat = c
    BY <1>3 DEF CallerState
  <2> HIDE DEF r
  <2>3. /\ caller' = [caller EXCEPT ![v] = r]
    BY <2>1 DEF r
  <2>4. DirectoryTypeOK' /\ JobFine'
    BY <1>1, <1>2, <1>4, <2>2, <2>3 DEF DirectoryIInv, DirectoryTypeOK, JobFine
  <2>5. \/ caller'[Headless] = caller[Headless]
        \/ caller'[Headless].at = "send" /\ caller'[Headless].chat = caller[Headless].chat
    BY <1>2, <2>2, <2>3 DEF Callers
  <2>6. StartupFine'
    BY <1>1, <2>5, StartupStays DEF InHand, DirectoryIInv
  <2> QED
    BY <1>4, <2>4, <2>6 DEF DirectoryIInv
<1>5. CASE /\ entry[c].actor # 0
           /\ entry' = [entry EXCEPT ![c].released = "no"]
           /\ caller' = [caller EXCEPT ![v].at = "send", ![v].actor = entry[c].actor]
           /\ UNCHANGED actor
  <2> DEFINE n == entry[c].actor
             r == [q EXCEPT !.actor = n]
             e == [entry[c] EXCEPT !.released = "no"]
  <2>1. /\ entry' = [entry EXCEPT ![c] = e] /\ caller' = [caller EXCEPT ![v] = r]
        /\ UNCHANGED actor
    BY <1>5 DEF q
  <2>2. /\ n \in Actor /\ actor[n].phase = "on" /\ actor[n].chat = c
    BY <1>2, <1>5 DEF DirectoryIInv, EntryFine, Entry
  <2>3. /\ e \in Entry /\ e.actor = n /\ e.released = "no"
    BY <1>2 DEF Entry
  <2>4. /\ r \in CallerState /\ r.at = "send" /\ r.actor = n /\ r.chat = c
    BY <1>3, <2>2 DEF CallerState
  <2>5. caller' = [caller EXCEPT ![v] = [q EXCEPT !.actor = n]]
    BY <2>1
  <2> HIDE DEF r, e, n
  <2>6. /\ entry' \in [Chat -> Entry] /\ entry'[c] = e /\ caller'[v] = r
        /\ \A d \in Chat : d # c => entry'[d] = entry[d]
        /\ \A w \in Callers : w # v => caller'[w] = caller[w]
    BY <1>2, <2>1, <2>3, <2>4
  <2>7. \A d \in Chat : /\ entry'[d].actor = entry[d].actor
                        /\ entry[d].released = "no" => entry'[d].released = "no"
    BY <2>3, <2>6 DEF n
  <2>8. Fits(caller[v])'
    BY <1>2, <2>1, <2>2, <2>3, <2>4, <2>6 DEF Fits
  <2>9. \A w \in Callers : UnmarkedKeeps(w)
    BY <2>7, OnesChat DEF UnmarkedKeeps
  <2>10. /\ actor' \in [Actor -> ActorState]
         /\ \A k \in Actor : ActorKeeps(k)
    BY <1>2, <2>1 DEF ActorKeeps
  <2>11. /\ \A d \in Chat : EntryFine(d)'
         /\ \A k \in Actor : ActorFine(k)'
         /\ \A w \in Callers : Fits(caller[w])'
    BY <1>1, <2>6, <2>7, <2>8, <2>9, <2>10, Steady
  <2> QED
    BY <2>2, <2>5, <2>6, <2>10, <2>11
<1>6. CASE \E n \in NewActor :
              /\ entry[c].actor = 0
              /\ entry' = [entry EXCEPT ![c] = [actor |-> n, released |-> "no"]]
              /\ actor' = [actor EXCEPT ![n].chat = c, ![n].phase = "on"]
              /\ caller' = [caller EXCEPT ![v].at = "send", ![v].actor = n]
  <2>1. PICK n \in NewActor :
              /\ entry[c].actor = 0
              /\ entry' = [entry EXCEPT ![c] = [actor |-> n, released |-> "no"]]
              /\ actor' = [actor EXCEPT ![n].chat = c, ![n].phase = "on"]
              /\ caller' = [caller EXCEPT ![v].at = "send", ![v].actor = n]
    BY <1>6
  <2> DEFINE r == [q EXCEPT !.actor = n]
             b == [actor[n] EXCEPT !.chat = c]
             a == [b EXCEPT !.phase = "on"]
  <2>2. /\ actor' = [actor EXCEPT ![n] = a] /\ caller' = [caller EXCEPT ![v] = r]
    BY <2>1 DEF q
  <2>3. /\ n \in Actor /\ n # 0 /\ actor[n].phase = "none" /\ ~actor[n].agent
        /\ actor[n] \in ActorState
    BY Lookups DEF NewActor, DirectoryIInv, ActorFine
  <2>4. b \in ActorState /\ b.chat = c /\ ~b.agent
    BY <1>2, <2>3 DEF ActorState
  <2> HIDE DEF b
  <2>5. a \in ActorState /\ a.chat = c /\ ~a.agent /\ a.phase = "on"
    BY <2>4 DEF ActorState
  <2>6. r \in CallerState /\ r.at = "send" /\ r.actor = n /\ r.chat = c
    BY <1>3, <2>3 DEF CallerState
  <2>7. caller' = [caller EXCEPT ![v] = [q EXCEPT !.actor = n]]
    BY <2>2
  <2> HIDE DEF a, r
  <2>8. /\ entry' \in [Chat -> Entry] /\ actor' \in [Actor -> ActorState]
        /\ entry'[c].actor = n /\ entry'[c].released = "no"
        /\ actor'[n] = a /\ caller'[v] = r
        /\ \A d \in Chat : d # c => entry'[d] = entry[d]
        /\ \A m \in Actor : m # n => actor'[m] = actor[m]
        /\ \A w \in Callers : w # v => caller'[w] = caller[w]
    <3>1. /\ entry' \in [Chat -> Entry]
          /\ entry'[c].actor = n /\ entry'[c].released = "no"
          /\ \A d \in Chat : d # c => entry'[d] = entry[d]
      BY <1>2, <2>1, <2>3 DEF Entry
    <3>2. /\ actor' \in [Actor -> ActorState] /\ actor'[n] = a
          /\ \A m \in Actor : m # n => actor'[m] = actor[m]
      BY <1>2, <2>2, <2>3, <2>5
    <3>3. caller'[v] = r /\ \A w \in Callers : w # v => caller'[w] = caller[w]
      BY <1>2, <2>2
    <3> QED
      BY <3>1, <3>2, <3>3
  <2>9. ASSUME NEW m \in Actor, actor[m].phase = "on"
        PROVE  m # n /\ actor[m].chat \in Chat /\ actor[m].chat # c
    BY <2>1, <2>3, <2>9, Lookups DEF DirectoryIInv, ActorFine
  <2>10. \A d \in Chat : EntryFine(d)'
    <3> TAKE d \in Chat
    <3>1. CASE d = c
      BY <2>5, <2>8, <3>1 DEF EntryFine
    <3>2. CASE d # c
      <4>1. EntryFine(d) /\ entry[d] \in Entry
        BY <1>2 DEF DirectoryIInv
      <4> QED
        BY <2>8, <2>9, <3>2, <4>1 DEF EntryFine, Entry
    <3> QED
      BY <3>1, <3>2
  <2>11. \A m \in Actor : ActorFine(m)'
    <3> TAKE m \in Actor
    <3>1. CASE m = n
      BY <1>2, <2>5, <2>8, <3>1 DEF ActorFine
    <3>2. CASE m # n
      <4>1. ActorFine(m)
        BY DEF DirectoryIInv
      <4> QED
        BY <1>1, <2>8, <2>9, <3>2, <4>1 DEF ActorFine
    <3> QED
      BY <3>1, <3>2
  <2>12. \A w \in Callers : Fits(caller[w])'
    <3> TAKE w \in Callers
    <3>1. CASE w = v
      BY <1>2, <2>3, <2>5, <2>6, <2>8, <3>1 DEF Fits
    <3>2. CASE w # v
      <4>1. Fits(caller[w]) /\ caller'[w] = caller[w]
        BY <2>8, <3>2 DEF DirectoryIInv
      <4>2. CASE caller[w].at \notin {"send", "held", "let"}
        BY <4>1, <4>2 DEF Fits
      <4>3. CASE caller[w].at \in {"send", "held", "let"}
        <5>1. /\ caller[w].actor \in Actor /\ caller[w].actor # n
              /\ actor'[caller[w].actor] = actor[caller[w].actor]
          BY <2>3, <2>8, <4>3, OnesChat
        <5> QED
          BY <1>1, <2>8, <2>9, <4>1, <5>1 DEF Fits
      <4> QED
        BY <4>2, <4>3
    <3> QED
      BY <3>1, <3>2
  <2> QED
    BY <2>3, <2>7, <2>8, <2>10, <2>11, <2>12
<1> QED
  BY <1>5, <1>6 DEF Insert

LEMMA SendAcquireStep ==
    ASSUME DirectoryIInv, NEW v \in Callers, SendAcquire(v)
    PROVE  DirectoryIInv'
<1> DEFINE n == caller[v].actor
           c == actor[n].chat
           r == [caller[v] EXCEPT !.at = "held"]
           k == [kept[c] EXCEPT !.data = TRUE]
           a1 == [actor[n] EXCEPT !.holders = actor[n].holders + 1]
           b == [actor[n] EXCEPT !.holders = 1]
           a2 == [b EXCEPT !.agent = TRUE]
<1>1. caller[v].at = "send" /\ UNCHANGED <<entry, owned, sweep>>
  BY DEF SendAcquire, Where
<1>2. /\ caller[v] \in CallerState /\ n \in Actor /\ c \in Chat
      /\ caller[v].chat \in Chat /\ actor[n].phase # "none"
      /\ Fits(caller[v]) /\ ActorFine(n)
  BY <1>1, OnesChat, Lookups DEF DirectoryIInv
<1>3. /\ actor[n] \in ActorState /\ actor[n].holders \in Nat
      /\ kept[c] \in Stored /\ startup \in Startup
      /\ caller \in [Callers -> CallerState] /\ kept \in [Chat -> Stored]
      /\ actor \in [Actor -> ActorState] /\ entry \in [Chat -> Entry]
  BY <1>2, Lookups DEF DirectoryIInv, DirectoryTypeOK, ActorState
<1>4. r \in CallerState /\ r.at = "held" /\ r.actor = n /\ r.chat = caller[v].chat
  BY <1>2 DEF CallerState
<1>5. /\ a1 \in ActorState /\ a1.phase = actor[n].phase /\ a1.chat = c
      /\ a1.close = actor[n].close /\ a1.slip = actor[n].slip
      /\ a1.agent = actor[n].agent
  BY <1>3 DEF ActorState
<1>6. /\ b \in ActorState /\ b.phase = actor[n].phase /\ b.chat = c
      /\ b.close = actor[n].close /\ b.slip = actor[n].slip
  BY <1>3 DEF ActorState
<1> HIDE DEF b
<1>7. /\ a2 \in ActorState /\ a2.phase = actor[n].phase /\ a2.chat = c
      /\ a2.close = actor[n].close /\ a2.slip = actor[n].slip
  BY <1>6 DEF ActorState
<1>8. k \in Stored /\ k.data /\ k.queued = kept[c].queued
  BY <1>3 DEF Stored
<1>9. /\ \/ /\ actor[n].agent /\ actor' = [actor EXCEPT ![n] = a1]
            /\ caller' = [caller EXCEPT ![v] = r] /\ UNCHANGED kept
         \/ /\ actor' = [actor EXCEPT ![n] = a2] /\ kept' = [kept EXCEPT ![c] = k]
            /\ caller' = [caller EXCEPT ![v] = r]
         \/ /\ caller' = [caller EXCEPT ![v] = Away] /\ UNCHANGED <<actor, kept>>
  BY DEF SendAcquire, Moves, b
<1> HIDE DEF a1, a2, k, r
<1>10. /\ actor' \in [Actor -> ActorState] /\ kept' \in [Chat -> Stored]
       /\ \A d \in Chat : kept[d].data => kept'[d].data
       /\ \A d \in Chat : kept'[d].queued = kept[d].queued
       /\ \A w \in Callers \ {v} : caller'[w] = caller[w]
       /\ actor'[n].phase = actor[n].phase /\ actor'[n].slip = actor[n].slip
       /\ actor'[n].chat = c /\ actor'[n].close = actor[n].close
  <2>1. CASE actor' = [actor EXCEPT ![n] = a1] /\ UNCHANGED kept
    BY <1>2, <1>3, <1>5, <1>9, <2>1
  <2>2. CASE actor' = [actor EXCEPT ![n] = a2] /\ kept' = [kept EXCEPT ![c] = k]
    BY <1>2, <1>3, <1>7, <1>8, <1>9, <2>2
  <2>3. CASE UNCHANGED <<actor, kept>>
    BY <1>2, <1>3, <1>9, <2>3
  <2> QED
    BY <1>9, <2>1, <2>2, <2>3
<1>11. \/ caller'[v] = Away
       \/ /\ caller'[v] = r
          /\ ~actor[n].slip /\ actor[n].phase = "on" => kept'[c].data
  <2>1. CASE actor[n].agent /\ caller' = [caller EXCEPT ![v] = r] /\ UNCHANGED kept
    BY <1>2, <1>3, <2>1 DEF ActorFine
  <2>2. CASE kept' = [kept EXCEPT ![c] = k] /\ caller' = [caller EXCEPT ![v] = r]
    BY <1>2, <1>3, <1>8, <2>2
  <2>3. CASE caller' = [caller EXCEPT ![v] = Away]
    BY <1>3, <2>3
  <2> QED
    BY <1>9, <2>1, <2>2, <2>3
<1>12. /\ \A m \in Actor : ActorKeeps(m)
       /\ \A w \in Callers : UnmarkedKeeps(w)
  <2>1. ASSUME NEW m \in Actor PROVE ActorKeeps(m)
    <3>1. CASE m # n
      BY <1>3, <1>9, <3>1 DEF ActorKeeps
    <3>2. CASE m = n
      <4>1. actor'[n].agent => actor[n].agent \/ kept'[c].data
        BY <1>2, <1>3, <1>5, <1>8, <1>9
      <4> QED
        BY <1>2, <1>10, <3>2, <4>1 DEF ActorKeeps
    <3> QED
      BY <3>1, <3>2
  <2> QED
    BY <1>1, <2>1 DEF UnmarkedKeeps
<1>13. Away \in CallerState /\ Away.at = "away"
  BY DEF Away, CallerState
<1>14. Fits(caller[v])'
  <2>1. CASE caller'[v] = Away
    BY <1>13, <2>1 DEF Fits
  <2>2. CASE /\ caller'[v] = r
             /\ ~actor[n].slip /\ actor[n].phase = "on" => kept'[c].data
    BY <1>1, <1>2, <1>4, <1>10, <2>2 DEF Fits
  <2> QED
    BY <1>11, <2>1, <2>2
<1>15. caller' \in [Callers -> CallerState]
  BY <1>3, <1>4, <1>9, <1>13
<1>16. /\ \A d \in Chat : EntryFine(d)'
       /\ \A m \in Actor : ActorFine(m)'
       /\ \A w \in Callers : Fits(caller[w])'
  BY <1>1, <1>3, <1>10, <1>12, <1>14, Steady
<1>17. startup' \in Startup /\ StartupFine'
  <2>1. CASE v = Headless /\ caller'[v] = Away
    <3>1. startup' = [startup EXCEPT !.failed = TRUE]
      BY <2>1 DEF SendAcquire
    <3>2. /\ startup' \in Startup /\ startup'.at = startup.at
          /\ startup'.tries = startup.tries /\ startup'.failed
      BY <1>3, <3>1 DEF Startup
    <3> QED
      BY <3>2 DEF StartupFine, DirectoryIInv
  <2>2. CASE ~(v = Headless /\ caller'[v] = Away)
    <3>1. startup' = startup
      BY <2>2 DEF SendAcquire
    <3>2. \/ caller'[Headless] = caller[Headless]
          \/ /\ caller'[Headless].at = "held"
             /\ caller'[Headless].chat = caller[Headless].chat
      BY <1>4, <1>10, <1>11, <2>2 DEF Callers
    <3> QED
      BY <1>3, <1>10, <3>1, <3>2, StartupStays DEF InHand, DirectoryIInv
  <2> QED
    BY <2>1, <2>2
<1>18. DirectoryTypeOK' /\ JobFine'
  BY <1>1, <1>10, <1>15, <1>17 DEF DirectoryIInv, DirectoryTypeOK, JobFine
<1> QED
  BY <1>16, <1>17, <1>18 DEF DirectoryIInv

-----------------------------------------------------------------------------
LEMMA DirectoryStart == DirectoryInit => DirectoryIInv
<1> SUFFICES ASSUME DirectoryInit PROVE DirectoryIInv
  OBVIOUS
<1>1. PICK queued \in SUBSET Chat :
          /\ kept = [c \in Chat |-> [data |-> c \in queued,
                           queued |-> IF c \in queued THEN "boot" ELSE "no"]]
          /\ startup = [at |-> IF queued = {} THEN "over" ELSE "scan",
                        tries |-> 0, left |-> {}, given |-> {}, failed |-> FALSE]
          /\ sweep = [job |-> NoSweep,
                      visits |-> IF queued = {} THEN 0 ELSE MaxVisits - 1,
                      losses |-> IF queued = {} THEN 0 ELSE MaxLosses]
  BY DEF DirectoryInit
<1>2. /\ kept \in [Chat -> Stored] /\ startup \in Startup
      /\ sweep \in [job : Job, visits : 0..MaxVisits, losses : 0..MaxLosses]
  BY <1>1, DirectoryAssumption DEF Stored, Startup, NoSweep, Job
<1>3. /\ entry \in [Chat -> Entry] /\ actor \in [Actor -> ActorState]
      /\ owned \in [Chat -> BOOLEAN] /\ caller \in [Callers -> CallerState]
  BY DEF DirectoryInit, NoEntry, Entry, Unused, ActorState, Away, CallerState
<1>4. DirectoryTypeOK
  BY <1>2, <1>3 DEF DirectoryTypeOK
<1>5. /\ \A c \in Chat : EntryFine(c)
      /\ \A n \in Actor : ActorFine(n)
      /\ \A v \in Callers : Fits(caller[v])
  BY DEF DirectoryInit, EntryFine, NoEntry, ActorFine, Unused, Fits, Away
<1>6. JobFine
  BY <1>1 DEF JobFine, NoSweep
<1>7. StartupFine
  BY <1>1, DirectoryAssumption DEF StartupFine
<1> QED
  BY <1>4, <1>5, <1>6, <1>7 DEF DirectoryIInv

LEMMA DirectoryStep == DirectoryIInv /\ [DirectoryNext]_directoryVars => DirectoryIInv'
<1> SUFFICES ASSUME DirectoryIInv, [DirectoryNext]_directoryVars
             PROVE  DirectoryIInv'
  OBVIOUS
<1>1. ASSUME NEW v \in Callers, CallerSteps(v) PROVE DirectoryIInv'
  BY <1>1, StartAcquireStep, AskIdleStep, ChooseIdleStep, LookAgainStep,
     EvictsAllStep, Evict1Step, InsertStep, SendAcquireStep, StartReleaseStep,
     SendReleaseStep, MarkReleasedStep, SubmitThereStep DEF CallerSteps
<1>2. ASSUME NEW n \in Actor,
             \/ ActorSends(n) \/ TurnEnds(n) \/ AgentGoes(n)
             \/ ActorEnds(n) \/ ActorResumes(n)
      PROVE  DirectoryIInv'
  BY <1>2, ActorSendsStep, TurnEndsStep, AgentGoesStep, ActorEndsStep,
     ActorResumesStep
<1>3. ASSUME NEW c \in Chat, GraceEnds(c) \/ TaskGoes(c) \/ TaskReturns(c)
      PROVE  DirectoryIInv'
  BY <1>3, GraceEndsStep, TaskGoesStep, TaskReturnsStep
<1>4. ASSUME SweepNext \/ DropChat \/ JoinDropped \/ DeleteStored
      PROVE  DirectoryIInv'
  BY <1>4, SweepNextStep, DropChatStep, JoinDroppedStep, DeleteStoredStep
<1>5. ASSUME \/ ScanFails \/ ScanFinds \/ HeadlessTakes \/ HeadlessPolls
             \/ HeadlessEnds
      PROVE  DirectoryIInv'
  BY <1>5, ScanFailsStep, ScanFindsStep, HeadlessTakesStep, HeadlessPollsStep,
     HeadlessEndsStep
<1>6. CASE UNCHANGED directoryVars
  <2>1. UNCHANGED <<entry, actor, kept, owned, caller, sweep, startup>>
    BY <1>6 DEF directoryVars
  <2>2. startup' \in Startup /\ StartupFine'
    BY <2>1, StartupStays DEF DirectoryIInv, DirectoryTypeOK, InHand
  <2> QED
    BY <2>1, <2>2, DispatchMoves
<1> QED
  BY <1>1, <1>2, <1>3, <1>4, <1>5, <1>6 DEF DirectoryNext

LEMMA DirectoryInvariant == DirectorySpec => []DirectoryIInv
  BY DirectoryStart, DirectoryStep, PTL DEF DirectorySpec

(* Every state of the directory has the types it should.                   *)
THEOREM DirectoryTypeCorrect == DirectorySpec => []DirectoryTypeOK
<1>1. DirectoryIInv => DirectoryTypeOK
  BY DEF DirectoryIInv
<1> QED
  BY <1>1, DirectoryInvariant, PTL

(* The actor a caller holds goes on until its task is dropped, and the      *)
(* stored session of its chat stays; a start whose dispatch met no failure  *)
(* leaves no prompt that was stored before it.                              *)
THEOREM DirectoryServesAll == DirectorySpec => []DirectoryServes
<1>1. DirectoryIInv => DirectoryServes
  <2> SUFFICES ASSUME DirectoryIInv PROVE DirectoryServes
    OBVIOUS
  <2>1. ASSUME NEW v \in Callers, NEW n \in Actor, Holds(v, n), ~actor[n].slip
        PROVE  /\ actor[n].phase # "on" => actor[n].close
               /\ actor[n].phase = "on" => kept[actor[n].chat].data
    BY <2>1 DEF DirectoryIInv, Fits, Holds
  <2>2. startup.at = "over" /\ ~startup.failed =>
            \A c \in Chat : kept[c].queued # "boot"
    BY DEF DirectoryIInv, StartupFine
  <2> QED
    BY <2>1, <2>2 DEF DirectoryServes
<1> QED
  BY <1>1, DirectoryInvariant, PTL
=============================================================================
