-------------------------- MODULE WebRuntimeProofs --------------------------
(* Proofs about the web runtime: its OperationGate, for any set of         *)
(* requests, its PushHub, for any set of endpoints, and WebState, for any   *)
(* number of handlers, reports and faults; all for any bounds.              *)
EXTENDS OperationGate, PushHub, WebState, FilterProofs, TLAPS

(* What Keeping keeps, in the words of the gate.                           *)
LEMMA KeepingSet ==
    ASSUME NEW R, NEW s \in Seq(R), NEW S
    PROVE  /\ Keeping(s, S) \in Seq(R)
           /\ Len(Keeping(s, S)) <= Len(s)
           /\ ToSet(Keeping(s, S)) = ToSet(s) \cap S
<1>1. /\ Keeping(s, S) \in Seq(R)
      /\ Len(Keeping(s, S)) <= Len(s)
      /\ Members(Keeping(s, S)) = Members(s) \cap S
  BY KeepingElements
<1>2. \A t : ToSet(t) = Members(t)
  BY DEF ToSet, Members
<1> QED
  BY <1>1, <1>2

(* The list of outcomes after one more: it is there, nothing that was not  *)
(* is, and the list is not too long.                                       *)
LEMMA RememberElements ==
    ASSUME NEW ids \in Seq(Request), Len(ids) <= Keep, NEW r \in Request
    PROVE  /\ Remember(ids, r) \in Seq(Request)
           /\ Len(Remember(ids, r)) <= Keep
           /\ r \in ToSet(Remember(ids, r))
<1> DEFINE kept == Keeping(ids, Request \ {r})
           new == Append(kept, r)
<1>1. Keep \in Nat \ {0}
  BY GateAssumption
<1>2. kept \in Seq(Request) /\ Len(kept) <= Len(ids)
  BY KeepingSet
<1>3. Remember(ids, r) = IF Len(new) > Keep THEN Tail(new) ELSE new
  BY DEF Remember
<1> HIDE DEF kept
<1>4. new \in Seq(Request) /\ Len(new) = Len(kept) + 1 /\ new[Len(new)] = r
  BY <1>2
<1>5. CASE Len(new) > Keep
  <2>1. Len(new) = Keep + 1
    BY <1>1, <1>2, <1>4, <1>5
  <2>2. Tail(new) \in Seq(Request) /\ Len(Tail(new)) = Keep
    BY <1>1, <1>4, <2>1
  <2>3. Tail(new)[Keep] = r
    BY <1>1, <1>4, <2>1
  <2>4. Keep \in DOMAIN Tail(new)
    BY <1>1, <2>2
  <2>5. r \in ToSet(Tail(new))
    BY <2>3, <2>4 DEF ToSet
  <2> QED
    BY <1>1, <1>3, <1>5, <2>2, <2>5
<1>6. CASE ~ (Len(new) > Keep)
  <2>1. r \in ToSet(new)
    BY <1>4 DEF ToSet
  <2>2. Len(new) <= Keep
    BY <1>1, <1>2, <1>4, <1>6
  <2> QED
    BY <1>3, <1>4, <1>6, <2>1, <2>2
<1> QED
  BY <1>5, <1>6

-----------------------------------------------------------------------------
(* Whatever was carried out is still in flight, or its outcome can be      *)
(* given again, or it is excused; an old outcome is.                       *)
RanIsKnown ==
    /\ aged \subseteq excused
    /\ \A r \in Request : ran[r] > 0 => r \in inFlight \/ Replayable(r) \/ r \in excused

(* The newest snapshot is the list itself, and it is in the file when none *)
(* is left to write.                                                       *)
NewestIsComplete ==
    IF seq.persisted = seq.written
    THEN missed \/ ToSet(completed) \subseteq ToSet(file)
    ELSE \E w \in writes : w.seq = seq.written /\ w.ids = completed

GateIInv == GateTypeOK /\ RanIsKnown /\ RunsOnce /\ NewestIsComplete

(* Each step of the gate keeps the types of its variables.                 *)
LEMMA GateTypeStep == GateTypeOK /\ [GateNext]_gateVars => GateTypeOK'
<1> SUFFICES ASSUME GateTypeOK, [GateNext]_gateVars
             PROVE  GateTypeOK'
  OBVIOUS
<1> USE DEF GateTypeOK
<1>0. NoId \notin Request /\ Keep \in Nat \ {0} /\ MaxSends \in Nat /\ MaxGateFaults \in Nat
  BY GateAssumption
<1>1. ASSUME Fault
      PROVE  chances' \in [sends : 0..MaxSends, faults : 0..MaxGateFaults]
  <2>1. chances' = [sends |-> chances.sends, faults |-> chances.faults - 1]
        /\ chances.faults - 1 \in 0..MaxGateFaults
    BY SMTT(30), <1>0, <1>1 DEF Fault
  <2> QED
    BY <2>1
<1>2. ASSUME NEW r \in Request \cup {NoId}, Send(r)
      PROVE  GateTypeOK'
  <2>1. chances' \in [sends : 0..MaxSends, faults : 0..MaxGateFaults]
    <3>1. chances' = [sends |-> chances.sends - 1, faults |-> chances.faults]
          /\ chances.sends - 1 \in 0..MaxSends
      BY <1>0, <1>2 DEF Send
    <3> QED
      BY <3>1
  <2>2. inFlight' \subseteq Request \cup {NoId}
    BY <1>2 DEF Send
  <2>3. ran' \in [Request -> Nat]
    BY <1>2 DEF Send
  <2> QED
    BY <1>2, <2>1, <2>2, <2>3 DEF Send
<1>3. ASSUME NEW r \in Request \cup {NoId}, Finish(r)
      PROVE  GateTypeOK'
  <2>1. CASE r = NoId
    BY <1>3, <2>1 DEF Finish
  <2>2. CASE r # NoId
    <3>1. completed' = Remember(completed, r) /\ r \in Request
      BY <1>3, <2>2 DEF Finish
    <3>2. completed' \in Seq(Request) /\ Len(completed') <= Keep
      BY <3>1, RememberElements
    <3>3. seq' = [written |-> seq.written + 1, persisted |-> seq.persisted]
      BY <1>3, <2>2 DEF Finish
    <3>4. writes' = writes \cup {[seq |-> seq.written + 1, ids |-> completed']}
      BY <1>3, <2>2 DEF Finish
    <3>5. seq' \in [written : Nat, persisted : Nat] /\ seq'.persisted <= seq'.written
      BY <3>3
    <3>6. \A w \in writes' : /\ w \in [seq : 1..seq'.written, ids : Seq(Request)]
                              /\ Len(w.ids) <= Keep
      BY <3>2, <3>3, <3>4
    <3>7. \A v, w \in writes' : v.seq = w.seq => v = w
      BY <3>4
    <3>8. excused' = excused \cup (ToSet(completed) \ ToSet(completed'))
      BY <1>3, <2>2 DEF Finish
    <3>9. ToSet(completed) \subseteq Request
      BY DEF ToSet
    <3> QED
      BY <1>3, <2>2, <3>2, <3>5, <3>6, <3>7, <3>8, <3>9 DEF Finish
  <2> QED
    BY <2>1, <2>2
<1>4. ASSUME NEW r \in Request, Age(r)
      PROVE  GateTypeOK'
  BY <1>1, <1>4 DEF Age
<1>5. ASSUME NEW w \in writes, Persist(w)
      PROVE  GateTypeOK'
  <2>1. w.seq \in 1..seq.written /\ w.ids \in Seq(Request)
    OBVIOUS
  <2>2. seq' \in [written : Nat, persisted : Nat] /\ seq'.persisted <= seq'.written
        /\ seq'.written = seq.written
    BY <1>5, <2>1 DEF Persist
  <2>3. chances' \in [sends : 0..MaxSends, faults : 0..MaxGateFaults]
    BY <1>1, <1>5 DEF Persist
  <2>4. file' \in Seq(Request) /\ Len(file') <= Keep /\ missed' \in BOOLEAN
    BY <1>5, <2>1 DEF Persist
  <2>5. \A v \in writes' : v \in writes
    BY <1>5 DEF Persist
  <2>6. /\ \A v \in writes' : /\ v \in [seq : 1..seq'.written, ids : Seq(Request)]
                             /\ Len(v.ids) <= Keep
        /\ \A v, x \in writes' : v.seq = x.seq => v = x
    BY <2>2, <2>5
  <2> QED
    BY <1>5, <2>2, <2>3, <2>4, <2>6 DEF Persist
<1>6. CASE Restart
  <2>1. completed' \in Seq(Request) /\ Len(completed') <= Keep
    BY <1>0, <1>6, KeepingSet DEF Restart, LoadPersistent
  <2>2. ToSet(completed) \subseteq Request
    BY DEF ToSet
  <2>3. excused' \subseteq Request
    BY <1>6, <2>2 DEF Restart
  <2>4. seq' = [written |-> 0, persisted |-> 0] /\ writes' = {} /\ inFlight' = {}
        /\ missed' = FALSE /\ UNCHANGED <<aged, file, ran>>
    BY <1>6 DEF Restart
  <2>5. seq' \in [written : Nat, persisted : Nat] /\ seq'.persisted <= seq'.written
    BY <2>4
  <2>6. chances' \in [sends : 0..MaxSends, faults : 0..MaxGateFaults]
    BY <1>1, <1>6 DEF Restart
  <2> QED
    BY <2>1, <2>3, <2>4, <2>5, <2>6
<1>7. CASE UNCHANGED gateVars
  BY <1>7 DEF gateVars
<1> QED
  BY <1>2, <1>3, <1>4, <1>5, <1>6, <1>7 DEF GateNext

(* Each step keeps track of what was carried out.                          *)
LEMMA RanStep == GateIInv /\ [GateNext]_gateVars => RanIsKnown' /\ RunsOnce'
<1> SUFFICES ASSUME GateIInv, [GateNext]_gateVars
             PROVE  RanIsKnown' /\ RunsOnce'
  OBVIOUS
<1> USE DEF GateIInv, GateTypeOK, RanIsKnown, RunsOnce, Replayable
<1>1. ASSUME NEW r \in Request \cup {NoId}, Send(r)
      PROVE  RanIsKnown' /\ RunsOnce'
  <2>1. CASE ~Replayable(r) /\ inFlight = {} /\ r # NoId
    <3>1. /\ inFlight' = {r} /\ ran' = [ran EXCEPT ![r] = @ + 1]
          /\ UNCHANGED <<completed, aged, excused>>
      BY <1>1, <2>1 DEF Send
    <3>2. r \in Request /\ (ran[r] = 0 \/ r \in excused)
      BY <2>1
    <3> QED
      BY <2>1, <3>1, <3>2
  <2>2. CASE UNCHANGED ran
    BY <1>1, <2>2 DEF Send
  <2> QED
    BY <1>1, <2>1, <2>2 DEF Send
<1>2. ASSUME NEW r \in Request \cup {NoId}, Finish(r)
      PROVE  RanIsKnown' /\ RunsOnce'
  <2>1. CASE r = NoId
    BY <1>2, <2>1, GateAssumption DEF Finish
  <2>2. CASE r # NoId
    <3>1. /\ completed' = Remember(completed, r) /\ aged' = aged \ {r}
          /\ excused' = excused \cup (ToSet(completed) \ ToSet(completed'))
          /\ inFlight' = inFlight \ {r} /\ UNCHANGED ran
      BY <1>2, <2>2 DEF Finish
    <3>2. r \in ToSet(completed')
      BY <2>2, <3>1, RememberElements
    <3> QED
      BY <3>1, <3>2
  <2> QED
    BY <2>1, <2>2
<1>3. ASSUME NEW r \in Request, Age(r)
      PROVE  RanIsKnown' /\ RunsOnce'
  BY <1>3 DEF Age
<1>4. ASSUME NEW w \in writes, Persist(w)
      PROVE  RanIsKnown' /\ RunsOnce'
  BY <1>4 DEF Persist
<1>5. CASE Restart
  <2>1. ToSet(completed') = ToSet(file) \cap (Request \ aged)
    BY <1>5, KeepingSet DEF Restart, LoadPersistent
  <2>2. ToSet(file) \subseteq Request
    BY DEF ToSet
  <2>3. /\ excused' = excused \cup (inFlight \ {NoId})
                             \cup (ToSet(completed) \ ToSet(file))
        /\ UNCHANGED <<aged, ran>>
    BY <1>5 DEF Restart
  <2> QED
    BY <2>1, <2>2, <2>3, GateAssumption
<1>6. CASE UNCHANGED gateVars
  BY <1>6 DEF gateVars
<1> QED
  BY <1>1, <1>2, <1>3, <1>4, <1>5, <1>6 DEF GateNext

(* Each step keeps the newest snapshot complete.                           *)
LEMMA NewestStep == GateIInv /\ [GateNext]_gateVars => NewestIsComplete'
<1> SUFFICES ASSUME GateIInv, [GateNext]_gateVars
             PROVE  NewestIsComplete'
  OBVIOUS
<1> USE DEF GateIInv, GateTypeOK, NewestIsComplete
<1>1. ASSUME NEW r \in Request \cup {NoId}, Finish(r)
      PROVE  NewestIsComplete'
  <2>1. CASE r = NoId
    BY <1>1, <2>1 DEF Finish
  <2>2. CASE r # NoId
    <3>1. seq'.written = seq.written + 1 /\ seq'.persisted = seq.persisted
      BY <1>1, <2>2 DEF Finish
    <3>2. [seq |-> seq.written + 1, ids |-> completed'] \in writes'
      BY <1>1, <2>2 DEF Finish
    <3>3. seq'.persisted # seq'.written
      BY <3>1
    <3> QED
      BY <3>1, <3>2, <3>3
  <2> QED
    BY <2>1, <2>2
<1>2. ASSUME NEW w \in writes, Persist(w)
      PROVE  NewestIsComplete'
  <2>1. w.seq \in 1..seq.written
    OBVIOUS
  <2>2. writes' = writes \ {w} /\ UNCHANGED completed
    BY <1>2 DEF Persist
  <2>3. CASE w.seq > seq.persisted
    <3>1. seq'.persisted = w.seq /\ seq'.written = seq.written
      BY <1>2, <2>3 DEF Persist, Newest
    <3>2. missed' \/ file' = w.ids
      BY <1>2, <2>3 DEF Persist, Newest, Fault
    <3>3. seq.persisted # seq.written
      BY <2>1, <2>3
    <3>4. PICK v \in writes : v.seq = seq.written /\ v.ids = completed
      BY <3>3
    <3>5. CASE w.seq = seq.written
      <4>1. v = w
        BY <3>4, <3>5
      <4> QED
        BY <2>2, <3>1, <3>2, <3>4, <3>5, <4>1
    <3>6. CASE w.seq # seq.written
      BY <2>2, <3>1, <3>4, <3>6
    <3> QED
      BY <3>5, <3>6
  <2>4. CASE ~ (w.seq > seq.persisted)
    <3>1. UNCHANGED <<seq, file, missed>>
      BY <1>2, <2>4 DEF Persist, Newest
    <3>2. seq.persisted # seq.written => w.seq # seq.written
      BY <2>1, <2>4
    <3> QED
      BY <2>2, <3>1, <3>2
  <2> QED
    BY <2>3, <2>4
<1>3. CASE Restart
  <2>1. ToSet(completed') \subseteq ToSet(file)
    BY <1>3, KeepingSet DEF Restart, LoadPersistent
  <2> QED
    BY <1>3, <2>1 DEF Restart
<1>4. CASE UNCHANGED <<completed, writes, seq, file, missed>>
  BY <1>4
<1> QED
  BY <1>1, <1>2, <1>3, <1>4 DEF GateNext, gateVars, Send, Age

(* The gate starts in order.                                               *)
LEMMA GateStart == GateInit => GateTypeOK /\ GateIInv
<1> SUFFICES ASSUME GateInit
             PROVE  GateTypeOK /\ GateIInv
  OBVIOUS
<1>1. NoId \notin Request /\ Keep \in Nat \ {0} /\ MaxSends \in Nat /\ MaxGateFaults \in Nat
  BY GateAssumption
<1>2. /\ completed \in Seq(Request) /\ Len(completed) <= Keep
      /\ file \in Seq(Request) /\ Len(file) <= Keep /\ completed = file
  BY <1>1 DEF GateInit
<1>3. seq \in [written : Nat, persisted : Nat] /\ seq.persisted <= seq.written
      /\ seq.persisted = seq.written
  BY DEF GateInit
<1>4. chances \in [sends : 0..MaxSends, faults : 0..MaxGateFaults]
  BY <1>1 DEF GateInit
<1>5. writes = {} /\ aged = {} /\ excused = {} /\ inFlight = {} /\ missed = FALSE
      /\ ran \in [Request -> Nat]
  BY DEF GateInit
<1>6. GateTypeOK
  BY <1>1, <1>2, <1>3, <1>4, <1>5 DEF GateTypeOK
<1>7. RanIsKnown /\ RunsOnce
  BY DEF GateInit, RanIsKnown, RunsOnce
<1>8. NewestIsComplete
  BY <1>2, <1>3 DEF NewestIsComplete
<1> QED
  BY <1>6, <1>7, <1>8 DEF GateIInv

-----------------------------------------------------------------------------
(* The gate, its outcomes and their file keep their types.                 *)
THEOREM GateTypeCorrect == GateSpec => []GateTypeOK
<1>1. GateInit => GateTypeOK
  BY GateStart
<1> QED
  BY <1>1, GateTypeStep, PTL DEF GateSpec

(* A request is carried out once, however often it is sent, and its        *)
(* outcome outlives the host, in whatever order the handlers write their   *)
(* snapshots of the outcomes (OperationCoordinator, PendingOutcomeWrite).  *)
THEOREM GateRunsOnce == GateSpec => []RequestRunsOnce
<1>1. GateInit => GateIInv
  BY GateStart
<1>2. GateIInv /\ [GateNext]_gateVars => GateIInv'
  BY GateTypeStep, RanStep, NewestStep DEF GateIInv
<1>3. GateIInv => OutcomesReachFile
  <2> SUFFICES ASSUME GateIInv, NEW r \in ToSet(completed)
               PROVE  \/ r \in ToSet(file) \/ missed
                      \/ \E w \in writes : w.seq > seq.persisted /\ r \in ToSet(w.ids)
    BY DEF OutcomesReachFile
  <2>1. CASE seq.persisted = seq.written
    BY <2>1 DEF GateIInv, NewestIsComplete
  <2>2. CASE seq.persisted # seq.written
    <3>1. PICK w \in writes : w.seq = seq.written /\ w.ids = completed
      BY <2>2 DEF GateIInv, NewestIsComplete
    <3>2. seq.written > seq.persisted
      BY <2>2 DEF GateIInv, GateTypeOK
    <3> QED
      BY <3>1, <3>2
  <2> QED
    BY <2>1, <2>2
<1>4. GateIInv => RequestRunsOnce
  BY <1>3 DEF GateIInv, RequestRunsOnce
<1> QED
  BY <1>1, <1>2, <1>4, PTL DEF GateSpec

-----------------------------------------------------------------------------
(* What the flusher has read is what the store holds, unless a change has  *)
(* come in since, and that change has notified it again; what it settles   *)
(* is what it has written.                                                 *)
FlushInHand ==
    /\ flu.at \in {"writes", "settles"} => hub.dirty
    /\ flu.at \in {"writes", "settles"} => hub.store = flu.took \/ hub.permit
    /\ flu.at = "settles" => subsFile = flu.took

HubIInv == HubTypeOK /\ SubscriptionsStored /\ FlushInHand

(* Each step of the hub keeps the types of its variables.                  *)
LEMMA HubTypeStep == HubTypeOK /\ [HubNext]_hubVars => HubTypeOK'
<1> SUFFICES ASSUME HubTypeOK, [HubNext]_hubVars
             PROVE  HubTypeOK'
  OBVIOUS
<1> Attempts \in Nat \ {0} /\ MaxHubEvents \in Nat /\ MaxHubFaults \in Nat
  BY PushHubAssumption
<1> USE DEF HubTypeOK
<1>1. ASSUME Happened
      PROVE  /\ hubEnv' \in [events : 0..MaxHubEvents, faults : 0..MaxHubFaults]
             /\ hubEnv'.events \in 0..MaxHubEvents
  BY <1>1 DEF Happened
<1>2. ASSUME NEW store \in SUBSET Sub, Changed(store)
      PROVE  hub' \in [store : SUBSET Sub, dirty : BOOLEAN, permit : BOOLEAN]
  BY <1>2 DEF Changed
<1>3. CASE Subscribe
  <2>1. PICK e \in Endpoint : Changed({[at |-> e, keys |-> hubEnv'.events]})
    BY <1>3 DEF Subscribe
  <2>2. {[at |-> e, keys |-> hubEnv'.events]} \in SUBSET Sub
    BY <1>1, <1>3 DEF Subscribe, Sub
  <2> QED
    BY <1>1, <1>2, <1>3, <2>1, <2>2 DEF Subscribe
<1>4. CASE Unsubscribe
  <2>1. PICK gone \in {Endpoint} \cup {{e} : e \in Endpoint} :
            Changed({s \in hub.store : s.at \notin gone})
    BY <1>4 DEF Unsubscribe
  <2>2. {s \in hub.store : s.at \notin gone} \in SUBSET Sub
    OBVIOUS
  <2>3. hub' \in [store : SUBSET Sub, dirty : BOOLEAN, permit : BOOLEAN]
    BY <1>2, <2>1, <2>2
  <2> QED
    BY <1>1, <1>4, <2>3 DEF Unsubscribe
<1>5. CASE FlusherWakes \/ FlusherReads \/ FlusherSettles
  <2>1. CASE FlusherWakes
    BY <2>1 DEF FlusherWakes
  <2>2. CASE FlusherReads
    BY <2>2 DEF FlusherReads
  <2>3. CASE FlusherSettles
    BY <2>3 DEF FlusherSettles
  <2> QED
    BY <1>5, <2>1, <2>2, <2>3
<1>6. CASE FlusherWrites
  <2>1. \/ flu' = [at |-> "settles", took |-> flu.took, failed |-> FALSE]
        \/ flu' = [at |-> "waits", took |-> {}, failed |-> TRUE]
    BY <1>6 DEF FlusherWrites
  <2>2. flu' \in [at : {"waits", "woken", "writes", "settles"},
                 took : SUBSET Sub, failed : BOOLEAN]
    <3>1. flu.took \in SUBSET Sub /\ {} \in SUBSET Sub
      OBVIOUS
    <3>2. CASE flu' = [at |-> "settles", took |-> flu.took, failed |-> FALSE]
      BY <3>1, <3>2
    <3>3. CASE flu' = [at |-> "waits", took |-> {}, failed |-> TRUE]
      BY <3>1, <3>3
    <3> QED
      BY <2>1, <3>2, <3>3
  <2>3. subsFile' \in SUBSET Sub
    BY <1>6 DEF FlusherWrites
  <2>4. hubEnv' \in [events : 0..MaxHubEvents, faults : 0..MaxHubFaults]
    BY <1>6 DEF FlusherWrites
  <2> QED
    BY <1>6, <2>2, <2>3, <2>4 DEF FlusherWrites
<1>7. CASE StartJob
  <2>1. push' = [on |-> TRUE, left |-> hub.store, failed |-> {}, dead |-> {},
                 try |-> 1]
    BY <1>7 DEF StartJob, NoPush
  <2>2. push' \in [on : BOOLEAN, left : SUBSET Sub, failed : SUBSET Sub,
                  dead : SUBSET Endpoint, try : 0..Attempts]
    BY <2>1
  <2> QED
    BY <1>1, <1>7, <2>2 DEF StartJob
<1>8. CASE DeliverOne
  <2>1. PICK s \in push.left :
            LET rest == [push EXCEPT !.left = @ \ {s}]
            IN  \/ push' = rest
                \/ push' = [rest EXCEPT !.failed = @ \cup {s}]
                \/ push' = [rest EXCEPT !.dead = @ \cup {s.at}]
    BY <1>8 DEF DeliverOne
  <2>2. s \in Sub /\ s.at \in Endpoint
    BY DEF Sub
  <2>3. \E l, f \in SUBSET Sub, d \in SUBSET Endpoint :
            push' = [on |-> push.on, left |-> l, failed |-> f, dead |-> d,
                     try |-> push.try]
    <3>1. push.left \ {s} \in SUBSET Sub /\ push.failed \cup {s} \in SUBSET Sub
          /\ push.dead \cup {s.at} \in SUBSET Endpoint
          /\ push.failed \in SUBSET Sub /\ push.dead \in SUBSET Endpoint
      BY <2>2
    <3>a. push \in [on : BOOLEAN, left : SUBSET Sub, failed : SUBSET Sub,
                    dead : SUBSET Endpoint, try : 0..Attempts]
      OBVIOUS
    <3> HIDE DEF HubTypeOK
    <3>2. \/ push' = [on |-> push.on, left |-> push.left \ {s},
                     failed |-> push.failed, dead |-> push.dead, try |-> push.try]
          \/ push' = [on |-> push.on, left |-> push.left \ {s},
                     failed |-> push.failed \cup {s}, dead |-> push.dead,
                     try |-> push.try]
          \/ push' = [on |-> push.on, left |-> push.left \ {s},
                     failed |-> push.failed, dead |-> push.dead \cup {s.at},
                     try |-> push.try]
      BY <2>1, <3>a
    <3> QED
      BY <3>1, <3>2
  <2>4. push' \in [on : BOOLEAN, left : SUBSET Sub, failed : SUBSET Sub,
                  dead : SUBSET Endpoint, try : 0..Attempts]
    BY <2>3
  <2> QED
    BY <1>8, <2>4 DEF DeliverOne
<1>9. CASE RetryJob
  <2>1. push.try + 1 \in 0..Attempts
    BY <1>9 DEF RetryJob
  <2>2. push' = [on |-> push.on, left |-> push.failed, failed |-> {},
                 dead |-> push.dead, try |-> push.try + 1]
    BY <1>9 DEF RetryJob
  <2>3. push' \in [on : BOOLEAN, left : SUBSET Sub, failed : SUBSET Sub,
                  dead : SUBSET Endpoint, try : 0..Attempts]
    BY <2>1, <2>2
  <2> QED
    BY <1>9, <2>3 DEF RetryJob
<1>10. CASE EndJob
  <2>1. {s \in hub.store : s.at \notin push.dead} \in SUBSET Sub
    OBVIOUS
  <2>2. hub' \in [store : SUBSET Sub, dirty : BOOLEAN, permit : BOOLEAN]
    BY <1>2, <1>10, <2>1 DEF EndJob
  <2>3. NoPush \in [on : BOOLEAN, left : SUBSET Sub, failed : SUBSET Sub,
                    dead : SUBSET Endpoint, try : 0..Attempts]
    BY DEF NoPush
  <2> QED
    BY <1>10, <2>2, <2>3 DEF EndJob
<1>11. CASE HubRestarts
  BY <1>1, <1>11 DEF HubRestarts, NoPush
<1>12. CASE UNCHANGED hubVars
  BY <1>12 DEF hubVars
<1> QED
  BY <1>3, <1>4, <1>5, <1>6, <1>7, <1>8, <1>9, <1>10, <1>11, <1>12 DEF HubNext

(* Each step of the hub keeps what the flusher relies on.                  *)
LEMMA HubStep == HubIInv /\ [HubNext]_hubVars => HubIInv'
<1> SUFFICES ASSUME HubIInv, [HubNext]_hubVars
             PROVE  SubscriptionsStored' /\ FlushInHand'
  BY HubTypeStep DEF HubIInv
<1> USE DEF HubIInv, HubTypeOK, SubscriptionsStored, FlushInHand
<1>1. ASSUME NEW store, Changed(store), UNCHANGED <<subsFile, flu>>
      PROVE  SubscriptionsStored' /\ FlushInHand'
  BY <1>1 DEF Changed
<1>2. CASE Subscribe
  BY <1>1, <1>2 DEF Subscribe
<1>3. CASE Unsubscribe
  BY <1>1, <1>3 DEF Unsubscribe
<1>4. CASE FlusherWakes
  BY <1>4 DEF FlusherWakes
<1>5. CASE FlusherReads
  BY <1>5 DEF FlusherReads
<1>6. CASE FlusherWrites
  <2>1. CASE subsFile' = flu.took
             /\ flu' = [flu EXCEPT !.at = "settles", !.failed = FALSE]
    <3>1. flu' = [at |-> "settles", took |-> flu.took, failed |-> FALSE]
      BY <2>1
    <3> QED
      BY <1>6, <2>1, <3>1 DEF FlusherWrites
  <2>2. CASE flu' = [at |-> "waits", took |-> {}, failed |-> TRUE]
             /\ UNCHANGED subsFile
    BY <1>6, <2>2 DEF FlusherWrites
  <2> QED
    BY <1>6, <2>1, <2>2 DEF FlusherWrites
<1>7. CASE FlusherSettles
  BY <1>7 DEF FlusherSettles
<1>8. CASE StartJob \/ DeliverOne \/ RetryJob
  BY <1>8 DEF StartJob, DeliverOne, RetryJob
<1>9. CASE EndJob
  BY <1>1, <1>9 DEF EndJob
<1>10. CASE HubRestarts
  BY <1>10 DEF HubRestarts
<1>11. CASE UNCHANGED hubVars
  BY <1>11 DEF hubVars
<1> QED
  BY <1>2, <1>3, <1>4, <1>5, <1>6, <1>7, <1>8, <1>9, <1>10, <1>11 DEF HubNext

(* The store, its file, the flusher and the deliveries keep their types.   *)
THEOREM HubTypeCorrect == HubSpec => []HubTypeOK
<1>1. HubInit => HubTypeOK
  BY PushHubAssumption DEF HubInit, HubTypeOK, NoPush
<1> QED
  BY <1>1, HubTypeStep, PTL DEF HubSpec

(* No subscription, unsubscription or pruning is forgotten by the flusher, *)
(* whatever comes in while it writes (flush_if_dirty).                     *)
THEOREM HubStored == HubSpec => []SubscriptionsStored
<1>1. HubInit => HubIInv
  BY PushHubAssumption
  DEF HubInit, HubIInv, HubTypeOK, SubscriptionsStored, FlushInHand, NoPush
<1>2. HubIInv => SubscriptionsStored
  BY DEF HubIInv
<1> QED
  BY <1>1, <1>2, HubStep, PTL DEF HubSpec

-----------------------------------------------------------------------------
(* WebState.                                                               *)

JobType == [pc : Place, dirty : BOOLEAN, ctx : SUBSET Fact, seen : Nat,
            rev : Nat]
Job(pc, dirty, ctx, seen, rev) ==
    [pc |-> pc, dirty |-> dirty, ctx |-> ctx, seen |-> seen, rev |-> rev]

(* A copy goes by a revision of the database, and the one that goes by the *)
(* present revision has all that is stored.                                *)
Current(c) == c.seen <= savedRev /\ (c.seen = savedRev => saved \subseteq c.ctx)

RegistryKept ==
    /\ saved \subseteq Fact /\ savedRev \in Nat
    /\ savedRev = 0 => saved = {}
    /\ shared \in Copy /\ Current(shared)

(* Where each handler can be, and where it holds which lock.               *)
PlacesOf(h) ==
    CASE h = "action"        -> {"idle", "flight", "lane", "copy", "work", "commit"}
      [] h = "refresh"       -> {"idle", "flight", "copy", "work", "lane", "check",
                                 "commit", "deliver", "send", "lane2", "record",
                                 "last"}
      [] h = "start"         -> {"idle", "flight", "copy", "lane", "commit"}
      [] h = "model"         -> {"idle", "lane", "copy", "work"}
      [] h \in {"read", "ack"} -> {"idle", "copy", "work", "commit"}
      [] h \in Drainer       -> {"idle", "lane", "work", "commit", "end"}

LanePlaces(h) ==
    CASE h = "action"        -> {"copy", "work", "commit"}
      [] h = "refresh"       -> {"check", "commit", "record", "last"}
      [] h = "start"         -> {"commit"}
      [] h = "model"         -> {"copy", "work"}
      [] h \in {"read", "ack"} -> {}
      [] h \in Drainer       -> {"work", "commit", "end"}

FlightPlaces(h) ==
    CASE h = "action"  -> {"lane", "copy", "work", "commit"}
      [] h = "refresh" -> PlacesOf("refresh") \ {"idle", "flight"}
      [] h = "start"   -> {"copy"}
      [] h \in {"model", "read", "ack"} \cup Drainer -> {}

(* What a handler relies on between its steps.                             *)
HandlerInPlace(h) ==
    /\ job[h].pc \in PlacesOf(h)
    /\ lane = h <=> job[h].pc \in LanePlaces(h)
    /\ flight = h <=> job[h].pc \in FlightPlaces(h)
    /\ Current(job[h]) /\ job[h].rev <= shared.rev
    /\ h = "action" /\ job[h].dirty => "action" \in saved

Budget == [jobs : 0..MaxJobs, faults : 0..MaxSaveFaults]
Reports == [made : 0..MaxReports, applied : Seq(1..MaxReports)]
InOrder(s) == \A i, j \in 1..Len(s) : i < j => s[i] < s[j]
Applied == 1..Len(reports.applied)
Waiting == 1..Len(deferred)

(* The reports applied and the reports that wait are in order, and a       *)
(* report that waits comes after all that were applied, but for the front  *)
(* that a drainer has applied and not taken off the queue.                 *)
Popping == \E d \in Drainer : job[d].pc = "commit"

QueueInOrder ==
    /\ reports \in Reports /\ deferred \in Seq(1..MaxReports)
    /\ InOrder(reports.applied) /\ InOrder(deferred)
    /\ \A i \in Applied : reports.applied[i] <= reports.made
    /\ \A j \in Waiting : deferred[j] <= reports.made
    /\ \A i \in Applied, j \in Waiting :
          reports.applied[i] < deferred[j] \/ (j = 1 /\ Popping)
    /\ Popping => deferred # <<>>
    /\ deferred # <<>> =>
          \E d \in Drainer : job[d].pc \in {"lane", "work", "commit"}

WebIInv ==
    /\ RegistryKept
    /\ job \in [Handler -> JobType]
    /\ lane \in Handler \cup {"free"} /\ flight \in Handler \cup {"free"}
    /\ \A h \in Handler : HandlerInPlace(h)
    /\ QueueInOrder
    /\ answered \subseteq saved
    /\ delivered \in Nat /\ budget \in Budget

-----------------------------------------------------------------------------
(* What a step does to the registry and to the other handlers. *)

Grows ==
    /\ RegistryKept'
    /\ saved \subseteq saved' /\ savedRev <= savedRev'
    /\ savedRev' = savedRev => saved' = saved
    /\ shared.rev <= shared'.rev

(* A lock may be taken by h when it is free, or given back by h.           *)
LocksOf(h) ==
    /\ lane' = lane \/ (lane = "free" /\ lane' = h) \/ (lane = h /\ lane' = "free")
    /\ \/ flight' = flight \/ (flight = "free" /\ flight' = h)
       \/ flight = h /\ flight' = "free"

(* A save keeps all that is stored, because a copy that goes by the        *)
(* present revision has it and any other copy is merged with it.           *)
LEMMA SaveKeeps ==
    ASSUME RegistryKept, NEW c, c.ctx \subseteq Fact, c.seen \in Nat, Current(c),
           Save(c)
    PROVE  /\ saved' = Merged(c) /\ savedRev' = savedRev + 1
           /\ saved \subseteq saved' /\ c.ctx \subseteq saved'
           /\ saved' \subseteq Fact /\ savedRev' \in Nat
           /\ savedRev' # 0 /\ savedRev < savedRev' /\ c.seen < savedRev'
<1>1. saved' = Merged(c) /\ savedRev' = savedRev + 1 /\ savedRev \in Nat
  BY DEF Save, RegistryKept
<1>2. c.seen <= savedRev /\ (c.seen = savedRev => saved \subseteq c.ctx)
  BY DEF Current
<1>3. /\ saved \subseteq saved' /\ c.ctx \subseteq saved'
      /\ saved' \subseteq Fact
  BY <1>1, <1>2 DEF Merged, RegistryKept
<1> QED
  BY <1>1, <1>2, <1>3

(* What is stored grows and the shared registry stays or is replaced by a  *)
(* copy that is current.                                                   *)
LEMMA SharedStays ==
    ASSUME RegistryKept, saved' \subseteq Fact, saved \subseteq saved',
           savedRev' = savedRev + 1, shared' = shared
    PROVE  Grows
<1>1. savedRev \in Nat /\ shared.seen \in Nat /\ shared.rev \in Nat
      /\ shared.seen <= savedRev
  BY DEF RegistryKept, Copy, Current
<1>2. savedRev' \in Nat /\ savedRev' # 0 /\ savedRev <= savedRev'
      /\ savedRev' # savedRev /\ shared.seen <= savedRev'
      /\ shared.seen # savedRev' /\ shared.rev <= shared.rev
  BY <1>1
<1>3. Current(shared)'
  BY <1>2 DEF Current
<1> QED
  BY <1>1, <1>2, <1>3 DEF Grows, RegistryKept

LEMMA SharedReplaced ==
    ASSUME RegistryKept, UNCHANGED <<saved, savedRev>>,
           NEW ctx \in SUBSET Fact, NEW seen \in Nat, NEW rev \in Nat,
           seen <= savedRev, seen = savedRev => saved \subseteq ctx,
           shared.rev <= rev,
           shared' = [ctx |-> ctx, seen |-> seen, rev |-> rev]
    PROVE  Grows
<1>1. shared' \in Copy /\ shared'.ctx = ctx /\ shared'.seen = seen
      /\ shared'.rev = rev
  BY DEF Copy
<1>2. Current(shared)'
  BY <1>1 DEF Current
<1> QED
  BY <1>1, <1>2 DEF Grows, RegistryKept

(* The same together with a save.                                          *)
LEMMA SharedSaved ==
    ASSUME RegistryKept, saved' \subseteq Fact, saved \subseteq saved',
           savedRev' = savedRev + 1,
           NEW ctx \in SUBSET Fact, NEW seen \in Nat,
           seen <= savedRev', seen = savedRev' => saved' \subseteq ctx,
           shared' = [ctx |-> ctx, seen |-> seen, rev |-> shared.rev + 1]
    PROVE  Grows
<1>1. savedRev \in Nat /\ shared.rev \in Nat
  BY DEF RegistryKept, Copy
<1>2. savedRev' \in Nat /\ savedRev' # 0 /\ savedRev <= savedRev'
      /\ savedRev' # savedRev /\ shared.rev <= shared.rev + 1
      /\ shared.rev + 1 \in Nat
  BY <1>1
<1>3. shared' \in Copy /\ shared'.ctx = ctx /\ shared'.seen = seen
      /\ shared'.rev = shared.rev + 1
  BY <1>2 DEF Copy
<1>4. Current(shared)'
  BY <1>3 DEF Current
<1> QED
  BY <1>1, <1>2, <1>3, <1>4 DEF Grows, RegistryKept

LEMMA SharedSame ==
    ASSUME RegistryKept, UNCHANGED <<saved, savedRev, shared>>
    PROVE  Grows
<1>1. savedRev \in Nat /\ shared.rev \in Nat
  BY DEF RegistryKept, Copy
<1> QED
  BY <1>1 DEF Grows, RegistryKept, Current

(* The copy of a handler that does not move stays current or gets old.     *)
LEMMA CurrentStays ==
    ASSUME RegistryKept, Grows, NEW j \in JobType, Current(j), j.rev <= shared.rev
    PROVE  /\ j.seen <= savedRev'
           /\ j.seen = savedRev' => saved' \subseteq j.ctx
           /\ j.rev <= shared'.rev
<1>1. /\ j.seen \in Nat /\ j.rev \in Nat /\ savedRev \in Nat
      /\ savedRev' \in Nat /\ shared.rev \in Nat /\ shared'.rev \in Nat
  BY DEF JobType, RegistryKept, Grows, Copy
<1>2. /\ savedRev <= savedRev' /\ shared.rev <= shared'.rev
      /\ savedRev' = savedRev => saved' = saved
  BY DEF Grows
<1>3. j.seen <= savedRev /\ (j.seen = savedRev => saved \subseteq j.ctx)
  BY DEF Current
<1>4. j.seen <= savedRev' /\ j.rev <= shared'.rev
  BY <1>1, <1>2, <1>3
<1>5. ASSUME j.seen = savedRev' PROVE saved' \subseteq j.ctx
  BY <1>1, <1>2, <1>3, <1>5
<1> QED
  BY <1>4, <1>5

LEMMA OthersInPlace ==
    ASSUME RegistryKept, Grows, job \in [Handler -> JobType],
           NEW h \in Handler, NEW g \in Handler \ {h},
           LocksOf(h), job'[g] = job[g],
           lane \in Handler \cup {"free"}, flight \in Handler \cup {"free"},
           HandlerInPlace(g)
    PROVE  HandlerInPlace(g)'
<1>1. job[g] \in JobType /\ Current(job[g]) /\ job[g].rev <= shared.rev
  BY DEF HandlerInPlace
<1>2. Current(job[g])' /\ (job[g].rev <= shared.rev)'
  BY <1>1, CurrentStays DEF Current
<1>3. "free" \notin Handler
  BY DEF Handler, Drainer
<1>4. (lane' = g <=> lane = g) /\ (flight' = g <=> flight = g)
  BY <1>3 DEF LocksOf
<1>5. saved \subseteq saved'
  BY DEF Grows
<1> QED
  BY <1>2, <1>4, <1>5 DEF HandlerInPlace

-----------------------------------------------------------------------------
(* The places of the handlers. *)

LEMMA Handlers ==
    /\ Handler = {"action", "refresh", "start", "model", "read", "ack", "drain",
                  "drain2"}
    /\ Drainer = {"drain", "drain2"}
    /\ "free" \notin Handler
  BY DEF Handler, Drainer

LEMMA ActionPlaces ==
    /\ PlacesOf("action") = {"idle", "flight", "lane", "copy", "work", "commit"}
    /\ LanePlaces("action") = {"copy", "work", "commit"}
    /\ FlightPlaces("action") = {"lane", "copy", "work", "commit"}
  BY DEF PlacesOf, LanePlaces, FlightPlaces, Drainer

LEMMA RefreshPlaces ==
    /\ PlacesOf("refresh") = {"idle", "flight", "copy", "work", "lane", "check",
                              "commit", "deliver", "send", "lane2", "record",
                              "last"}
    /\ LanePlaces("refresh") = {"check", "commit", "record", "last"}
    /\ FlightPlaces("refresh") = {"copy", "work", "lane", "check", "commit",
                                  "deliver", "send", "lane2", "record", "last"}
  BY DEF PlacesOf, LanePlaces, FlightPlaces, Drainer

LEMMA StartPlaces ==
    /\ PlacesOf("start") = {"idle", "flight", "copy", "lane", "commit"}
    /\ LanePlaces("start") = {"commit"} /\ FlightPlaces("start") = {"copy"}
  BY DEF PlacesOf, LanePlaces, FlightPlaces, Drainer

LEMMA ModelPlaces ==
    /\ PlacesOf("model") = {"idle", "lane", "copy", "work"}
    /\ LanePlaces("model") = {"copy", "work"} /\ FlightPlaces("model") = {}
  BY DEF PlacesOf, LanePlaces, FlightPlaces, Drainer

LEMMA ReadPlaces ==
    ASSUME NEW h \in {"read", "ack"}
    PROVE  /\ PlacesOf(h) = {"idle", "copy", "work", "commit"}
           /\ LanePlaces(h) = {} /\ FlightPlaces(h) = {}
  BY DEF PlacesOf, LanePlaces, FlightPlaces, Drainer

LEMMA DrainPlaces ==
    ASSUME NEW h \in Drainer
    PROVE  /\ PlacesOf(h) = {"idle", "lane", "work", "commit", "end"}
           /\ LanePlaces(h) = {"work", "commit", "end"} /\ FlightPlaces(h) = {}
  BY DEF PlacesOf, LanePlaces, FlightPlaces, Drainer

LEMMA PlacesArePlaces ==
    ASSUME NEW h \in Handler
    PROVE  PlacesOf(h) \subseteq Place
  BY Handlers, ActionPlaces, RefreshPlaces, StartPlaces, ModelPlaces, ReadPlaces,
     DrainPlaces DEF Place

LEMMA IdleHoldsNothing ==
    ASSUME NEW h \in Handler
    PROVE  "idle" \in PlacesOf(h) /\ "idle" \notin LanePlaces(h)
           /\ "idle" \notin FlightPlaces(h)
  BY Handlers, ActionPlaces, RefreshPlaces, StartPlaces, ModelPlaces, ReadPlaces,
     DrainPlaces

-----------------------------------------------------------------------------
(* A step of one handler. *)

WebFacts ==
    /\ RegistryKept
    /\ job \in [Handler -> JobType]
    /\ lane \in Handler \cup {"free"} /\ flight \in Handler \cup {"free"}
    /\ \A h \in Handler : HandlerInPlace(h)
    /\ answered \subseteq saved
    /\ delivered \in Nat /\ budget \in Budget

MovesTo(h, j) == j \in JobType /\ job' = [job EXCEPT ![h] = j]

Moves(h) ==
    /\ Grows /\ LocksOf(h)
    /\ \E j : MovesTo(h, j)
    /\ HandlerInPlace(h)'
    /\ answered' \subseteq saved' /\ delivered' \in Nat /\ budget' \in Budget

LEMMA JobInPlace ==
    ASSUME WebFacts, NEW h \in Handler, NEW j, MovesTo(h, j),
           j.pc \in PlacesOf(h), lane' = h <=> j.pc \in LanePlaces(h),
           flight' = h <=> j.pc \in FlightPlaces(h),
           j.seen <= savedRev', j.seen = savedRev' => saved' \subseteq j.ctx,
           j.rev <= shared'.rev, h = "action" /\ j.dirty => "action" \in saved'
    PROVE  HandlerInPlace(h)'
<1>1. job'[h] = j
  BY DEF MovesTo, WebFacts
<1> QED
  BY <1>1 DEF HandlerInPlace, Current

(* The handler goes on with the copy it has.                               *)
LEMMA GoesInPlace ==
    ASSUME WebFacts, Grows, NEW h \in Handler, NEW place \in PlacesOf(h),
           Goes(h, place), lane' = h <=> place \in LanePlaces(h),
           flight' = h <=> place \in FlightPlaces(h)
    PROVE  (\E j : MovesTo(h, j)) /\ HandlerInPlace(h)'
<1> DEFINE j == [job[h] EXCEPT !.pc = place]
<1>1. job[h] \in JobType /\ place \in Place
  BY PlacesArePlaces DEF WebFacts
<1>2. /\ j \in JobType /\ j.pc = place /\ j.dirty = job[h].dirty
      /\ j.ctx = job[h].ctx /\ j.seen = job[h].seen /\ j.rev = job[h].rev
  BY <1>1 DEF JobType
<1>3. job' = [job EXCEPT ![h] = j]
  BY DEF Goes
<1>4. Current(job[h]) /\ job[h].rev <= shared.rev
      /\ (h = "action" /\ job[h].dirty => "action" \in saved)
  BY DEF WebFacts, HandlerInPlace
<1> HIDE DEF j
<1>5. MovesTo(h, j)
  BY <1>2, <1>3 DEF MovesTo
<1>6. /\ job[h].seen <= savedRev'
      /\ job[h].seen = savedRev' => saved' \subseteq job[h].ctx
      /\ job[h].rev <= shared'.rev
  BY <1>1, <1>4, CurrentStays DEF WebFacts
<1>7. saved \subseteq saved'
  BY DEF Grows
<1>8. HandlerInPlace(h)'
  BY <1>2, <1>4, <1>5, <1>6, <1>7, JobInPlace
<1> QED
  BY <1>5, <1>8

(* The handler returns and holds no lock.                                  *)
LEMMA ReturnsInPlace ==
    ASSUME WebFacts, Grows, NEW h \in Handler, Returns(h)
    PROVE  LocksOf(h) /\ MovesTo(h, Rest) /\ HandlerInPlace(h)'
<1>1. /\ job' = [job EXCEPT ![h] = Rest]
      /\ flight' = IF flight = h THEN "free" ELSE flight
      /\ lane' = IF lane = h THEN "free" ELSE lane
  BY DEF Returns
<1>2. Rest \in JobType /\ Rest.pc = "idle" /\ ~Rest.dirty /\ Rest.seen = 0
      /\ Rest.rev = 0
  BY DEF Rest, JobType, Place
<1>3. LocksOf(h) /\ lane' # h /\ flight' # h
  BY <1>1, Handlers DEF LocksOf
<1>4. savedRev' \in Nat /\ (savedRev' = 0 => saved' = {}) /\ shared'.rev \in Nat
  BY DEF Grows, RegistryKept, Copy
<1>5. MovesTo(h, Rest)
  BY <1>1, <1>2 DEF MovesTo
<1>6. 0 <= savedRev' /\ 0 <= shared'.rev
      /\ (0 = savedRev' => saved' \subseteq Rest.ctx)
  BY <1>4
<1>7. HandlerInPlace(h)'
  BY <1>2, <1>3, <1>5, <1>6, IdleHoldsNothing, JobInPlace
<1> QED
  BY <1>3, <1>5, <1>7

LEMMA FaultSpent ==
    ASSUME budget \in Budget, SaveFault
    PROVE  budget' \in Budget /\ UNCHANGED <<saved, savedRev>>
  BY WebAssumption DEF SaveFault, Budget

LEMMA JobSpent ==
    ASSUME budget \in Budget, budget.jobs > 0,
           budget' = [budget EXCEPT !.jobs = @ - 1]
    PROVE  budget' \in Budget
  BY WebAssumption DEF Budget

(* A handler begins, takes a lock or copies the shared registry.           *)
LEMMA LockStep ==
    ASSUME WebFacts, NEW h \in Handler,
           Begin(h) \/ TakeFlight(h) \/ TakeLane(h) \/ CopyShared(h)
    PROVE  Moves(h)
<1>1. /\ UNCHANGED <<saved, savedRev, shared, answered, delivered>>
      /\ RegistryKept /\ budget \in Budget /\ answered \subseteq saved
      /\ delivered \in Nat
  BY DEF Begin, TakeFlight, TakeLane, CopyShared, WebFacts
<1>2. Grows
  BY <1>1, SharedSame
<1>3. HandlerInPlace(h) /\ lane \in Handler \cup {"free"}
      /\ flight \in Handler \cup {"free"} /\ "free" # h
  BY Handlers DEF WebFacts
<1>4. CASE Begin(h)
  <2>1. h \notin Drainer /\ job[h].pc = "idle" /\ Goes(h, First(h))
        /\ UNCHANGED <<lane, flight>> /\ budget.jobs > 0
        /\ budget' = [budget EXCEPT !.jobs = @ - 1]
    BY <1>4 DEF Begin, At
  <2>2. First(h) \in PlacesOf(h) /\ First(h) \notin LanePlaces(h)
        /\ First(h) \notin FlightPlaces(h)
    BY <2>1, Handlers, ActionPlaces, RefreshPlaces, StartPlaces, ModelPlaces,
       ReadPlaces DEF First
  <2>3. lane # h /\ flight # h
    BY <1>3, <2>1, IdleHoldsNothing DEF HandlerInPlace
  <2>4. (\E j : MovesTo(h, j)) /\ HandlerInPlace(h)'
    BY <1>2, <2>1, <2>2, <2>3, GoesInPlace
  <2>5. budget' \in Budget
    BY <1>1, <2>1, JobSpent
  <2> QED
    BY <1>1, <1>2, <2>1, <2>4, <2>5 DEF Moves, LocksOf
<1>5. CASE TakeFlight(h)
  <2>1. job[h].pc = "flight" /\ flight = "free" /\ flight' = h
        /\ Goes(h, UnderFlight(h)) /\ UNCHANGED <<lane, budget>>
    BY <1>5 DEF TakeFlight, At
  <2>2. "flight" \in PlacesOf(h) /\ (lane = h => "flight" \in LanePlaces(h))
    BY <1>3, <2>1 DEF HandlerInPlace
  <2>3. h \in {"action", "refresh", "start"} /\ lane # h
    BY <2>2, Handlers, ActionPlaces, RefreshPlaces, StartPlaces, ModelPlaces,
       ReadPlaces, DrainPlaces
  <2>4. UnderFlight(h) \in PlacesOf(h) /\ UnderFlight(h) \notin LanePlaces(h)
        /\ UnderFlight(h) \in FlightPlaces(h)
    BY <2>3, ActionPlaces, RefreshPlaces, StartPlaces DEF UnderFlight
  <2>5. (\E j : MovesTo(h, j)) /\ HandlerInPlace(h)'
    BY <1>2, <2>1, <2>3, <2>4, GoesInPlace
  <2> QED
    BY <1>1, <1>2, <2>1, <2>5 DEF Moves, LocksOf
<1>6. CASE TakeLane(h)
  <2>1. PICK place : /\ lane = "free" /\ lane' = h /\ Goes(h, place)
                     /\ UNCHANGED <<flight, budget>>
                     /\ \/ job[h].pc = "lane" /\ place = UnderLane(h)
                        \/ job[h].pc = "lane2" /\ place = "record"
    BY <1>6 DEF TakeLane, At
  <2>2. job[h].pc \in PlacesOf(h) /\ (flight = h <=> job[h].pc \in FlightPlaces(h))
    BY <1>3 DEF HandlerInPlace
  <2>3. /\ place \in PlacesOf(h) /\ place \in LanePlaces(h)
        /\ flight = h <=> place \in FlightPlaces(h)
    <3>1. CASE job[h].pc = "lane2"
      <4>1. h = "refresh"
        BY <2>2, <3>1, Handlers, ActionPlaces, RefreshPlaces, StartPlaces,
           ModelPlaces, ReadPlaces, DrainPlaces
      <4> QED
        BY <2>1, <2>2, <3>1, <4>1, RefreshPlaces
    <3>2. CASE job[h].pc = "lane"
      <4>1. place = UnderLane(h)
        BY <2>1, <3>2
      <4>2. CASE h = "action"
        BY <2>2, <3>2, <4>1, <4>2, ActionPlaces DEF UnderLane
      <4>3. CASE h = "refresh"
        BY <2>2, <3>2, <4>1, <4>3, RefreshPlaces DEF UnderLane, Drainer
      <4>4. CASE h = "start"
        BY <2>2, <3>2, <4>1, <4>4, StartPlaces DEF UnderLane, Drainer
      <4>5. CASE h = "model"
        BY <2>2, <3>2, <4>1, <4>5, ModelPlaces DEF UnderLane, Drainer
      <4>6. CASE h \in {"read", "ack"}
        BY <2>2, <3>2, <4>6, ReadPlaces
      <4>7. CASE h \in Drainer
        BY <2>2, <3>2, <4>1, <4>7, DrainPlaces DEF UnderLane, Drainer
      <4> QED
        BY <4>2, <4>3, <4>4, <4>5, <4>6, <4>7, Handlers
    <3> QED
      BY <2>1, <3>1, <3>2
  <2>4. (\E j : MovesTo(h, j)) /\ HandlerInPlace(h)'
    BY <1>2, <2>1, <2>3, GoesInPlace
  <2> QED
    BY <1>1, <1>2, <2>1, <2>4 DEF Moves, LocksOf
<1>7. CASE CopyShared(h)
  <2> DEFINE place == IF h = "start" THEN "lane" ELSE "work"
             j == Job(place, FALSE, shared.ctx, shared.seen, shared.rev)
  <2>1. /\ job[h].pc = "copy" /\ job' = [job EXCEPT ![h] = j]
        /\ flight' = IF h = "start" THEN "free" ELSE flight
        /\ UNCHANGED <<lane, budget>>
    BY <1>7 DEF CopyShared, At, Job
  <2>2. shared \in Copy /\ Current(shared) /\ shared.rev <= shared'.rev
    BY <1>2 DEF WebFacts, RegistryKept, Grows
  <2>3. /\ j \in JobType /\ j.pc = place /\ ~j.dirty /\ j.ctx = shared.ctx
        /\ j.seen = shared.seen /\ j.rev = shared.rev
    BY <2>2 DEF Job, JobType, Place, Copy
  <2>4. /\ "copy" \in PlacesOf(h) /\ (lane = h <=> "copy" \in LanePlaces(h))
        /\ (flight = h <=> "copy" \in FlightPlaces(h))
    BY <1>3, <2>1 DEF HandlerInPlace
  <2>5. /\ place \in PlacesOf(h) /\ (lane' = h <=> place \in LanePlaces(h))
        /\ (flight' = h <=> place \in FlightPlaces(h))
    <3>1. CASE h = "action"
      BY <2>1, <2>4, <3>1, ActionPlaces
    <3>2. CASE h = "refresh"
      BY <2>1, <2>4, <3>2, RefreshPlaces
    <3>3. CASE h = "start"
      BY <2>1, <2>4, <3>3, StartPlaces
    <3>4. CASE h = "model"
      BY <2>1, <2>4, <3>4, ModelPlaces
    <3>5. CASE h \in {"read", "ack"}
      BY <2>1, <2>4, <3>5, ReadPlaces
    <3>6. CASE h \in Drainer
      BY <2>4, <3>6, DrainPlaces
    <3> QED
      BY <3>1, <3>2, <3>3, <3>4, <3>5, <3>6, Handlers
  <2> HIDE DEF j, place
  <2>6. MovesTo(h, j)
    BY <2>1, <2>3 DEF MovesTo
  <2>7. HandlerInPlace(h)'
    BY <1>1, <2>2, <2>3, <2>5, <2>6, JobInPlace DEF Current
  <2>8. LocksOf(h)
    <3>1. h = "start" => flight = h
      BY <2>4, StartPlaces
    <3> QED
      BY <2>1, <3>1 DEF LocksOf
  <2> QED
    BY <1>1, <1>2, <2>1, <2>6, <2>7, <2>8 DEF Moves
<1> QED
  BY <1>4, <1>5, <1>6, <1>7

(* The fields of a copy that is changed.                                   *)
LEMMA CopyFields ==
    ASSUME NEW r \in JobType, NEW ctx
    PROVE  [r EXCEPT !.ctx = ctx] = Job(r.pc, r.dirty, ctx, r.seen, r.rev)
  BY DEF JobType, Job

LEMMA DirtyField ==
    ASSUME NEW r \in JobType, NEW j,
           j = [r EXCEPT !.dirty = TRUE] \/ j = [r EXCEPT !.dirty = FALSE]
    PROVE  /\ j \in JobType /\ j.pc = r.pc /\ j.ctx = r.ctx /\ j.seen = r.seen
           /\ j.rev = r.rev
           /\ j = [r EXCEPT !.dirty = FALSE] => ~j.dirty
<1>1. CASE j = [r EXCEPT !.dirty = TRUE]
  <2>1. j \in JobType
    BY <1>1 DEF JobType
  <2>2. /\ j.pc = r.pc /\ j.ctx = r.ctx /\ j.seen = r.seen /\ j.rev = r.rev
        /\ j.dirty
    BY <1>1 DEF JobType
  <2>3. j # [r EXCEPT !.dirty = FALSE]
    BY <2>2 DEF JobType
  <2> QED
    BY <2>1, <2>2, <2>3
<1>2. CASE j = [r EXCEPT !.dirty = FALSE]
  BY <1>2 DEF JobType
<1> QED
  BY <1>1, <1>2

(* A handler writes into its copy and saves it, or keeps it unsaved.       *)
LEMMA WritesStep ==
    ASSUME WebFacts, NEW h \in Handler, NEW facts \in SUBSET Fact,
           NEW place \in PlacesOf(h), Writes(h, facts, place),
           h = "action" => facts = {"action"},
           UNCHANGED <<shared, flight, lane, answered, delivered>>,
           lane = h <=> place \in LanePlaces(h),
           flight = h <=> place \in FlightPlaces(h)
    PROVE  Moves(h)
<1> DEFINE c == [job[h] EXCEPT !.ctx = @ \cup facts, !.pc = place]
<1>1. job[h] \in JobType /\ place \in Place /\ RegistryKept /\ budget \in Budget
      /\ answered \subseteq saved /\ delivered \in Nat
  BY PlacesArePlaces DEF WebFacts
<1>2. c = Job(place, job[h].dirty, job[h].ctx \cup facts, job[h].seen, job[h].rev)
  <2> DEFINE r == [job[h] EXCEPT !.ctx = @ \cup facts]
  <2>1. r = Job(job[h].pc, job[h].dirty, job[h].ctx \cup facts, job[h].seen,
                job[h].rev)
    BY <1>1, CopyFields
  <2>2. c = [r EXCEPT !.pc = place]
    OBVIOUS
  <2> HIDE DEF c, r
  <2> QED
    BY <2>1, <2>2 DEF Job
<1>3. /\ c.pc = place /\ c.dirty = job[h].dirty /\ c.ctx = job[h].ctx \cup facts
      /\ c.seen = job[h].seen /\ c.rev = job[h].rev
      /\ c.ctx \subseteq Fact /\ c.seen \in Nat
  BY <1>1, <1>2 DEF Job, JobType
<1>4. Current(job[h]) /\ job[h].rev <= shared.rev
  BY DEF WebFacts, HandlerInPlace
<1>5. Current(c)
  BY <1>3, <1>4 DEF Current
<1>6. \/ Save(c) /\ UNCHANGED budget
         /\ job' = [job EXCEPT ![h] = [AfterSave(c) EXCEPT !.dirty = TRUE]]
      \/ SaveFault /\ job' = [job EXCEPT ![h] = [c EXCEPT !.dirty = FALSE]]
  BY DEF Writes
<1>7. CASE Save(c) /\ UNCHANGED budget
           /\ job' = [job EXCEPT ![h] = [AfterSave(c) EXCEPT !.dirty = TRUE]]
  <2> DEFINE j == [AfterSave(c) EXCEPT !.dirty = TRUE]
             r == [c EXCEPT !.ctx = Merged(c)]
  <2> HIDE DEF c
  <2>1. /\ saved' = Merged(c) /\ savedRev' = savedRev + 1
        /\ saved \subseteq saved' /\ c.ctx \subseteq saved'
        /\ saved' \subseteq Fact /\ savedRev' \in Nat
    BY <1>1, <1>3, <1>5, <1>7, SaveKeeps
  <2>2. AfterSave(c) = Job(place, job[h].dirty, saved', savedRev', job[h].rev)
    <3>1. r = Job(place, job[h].dirty, saved', job[h].seen, job[h].rev)
      BY <1>2, <2>1 DEF Job
    <3>2. AfterSave(c) = [r EXCEPT !.seen = savedRev + 1]
      BY DEF AfterSave
    <3> HIDE DEF r
    <3> QED
      BY <2>1, <3>1, <3>2 DEF Job
  <2>3. /\ AfterSave(c) \in JobType /\ AfterSave(c).pc = place
        /\ AfterSave(c).ctx = saved' /\ AfterSave(c).seen = savedRev'
        /\ AfterSave(c).rev = job[h].rev
    BY <1>1, <2>1, <2>2 DEF Job, JobType
  <2>4. /\ j \in JobType /\ j.pc = place /\ j.ctx = saved' /\ j.seen = savedRev'
        /\ j.rev = job[h].rev
    BY <2>3, DirtyField
  <2>5. MovesTo(h, j)
    BY <1>7, <2>4 DEF MovesTo
  <2> HIDE DEF j
  <2>6. Grows
    BY <1>1, <2>1, SharedStays
  <2>7. h = "action" => "action" \in saved'
    BY <1>3, <2>1
  <2>8. savedRev' <= savedRev'
    BY <2>1
  <2>9. HandlerInPlace(h)'
    BY <1>4, <2>4, <2>5, <2>7, <2>8, JobInPlace
  <2> QED
    BY <1>1, <1>7, <2>1, <2>5, <2>6, <2>9 DEF Moves, LocksOf
<1>8. CASE SaveFault /\ job' = [job EXCEPT ![h] = [c EXCEPT !.dirty = FALSE]]
  <2> DEFINE j == [c EXCEPT !.dirty = FALSE]
  <2> HIDE DEF c
  <2>1. UNCHANGED <<saved, savedRev>> /\ budget' \in Budget
    BY <1>1, <1>8, FaultSpent
  <2>2. c \in JobType
    BY <1>1, <1>2 DEF Job, JobType
  <2>3. /\ j \in JobType /\ j.pc = place /\ ~j.dirty
        /\ j.ctx = c.ctx /\ j.seen = job[h].seen /\ j.rev = job[h].rev
    BY <1>3, <2>2, DirtyField
  <2>4. MovesTo(h, j)
    BY <1>8, <2>3 DEF MovesTo
  <2> HIDE DEF j
  <2>5. Grows
    BY <1>1, <2>1, SharedSame
  <2>6. HandlerInPlace(h)'
    BY <1>3, <1>4, <1>5, <2>1, <2>3, <2>4, JobInPlace DEF Current
  <2> QED
    BY <1>1, <2>1, <2>4, <2>5, <2>6 DEF Moves, LocksOf
<1> QED
  BY <1>6, <1>7, <1>8

(* A copy that is current, or what is stored, is put into the shared       *)
(* registry.                                                               *)
LEMMA InstallGrows ==
    ASSUME WebFacts, NEW h \in Handler, UNCHANGED <<saved, savedRev>>,
           \/ shared' = Installed(job[h])
           \/ shared' = [Installed(job[h]) EXCEPT !.rev = shared.rev]
           \/ shared' = Reloaded \/ shared' = shared
    PROVE  Grows
<1>1. RegistryKept /\ job[h] \in JobType /\ Current(job[h])
  BY DEF WebFacts, HandlerInPlace
<1>2. /\ savedRev \in Nat /\ saved \subseteq Fact /\ shared.rev \in Nat
      /\ job[h].ctx \subseteq Fact /\ job[h].seen \in Nat
  BY <1>1 DEF RegistryKept, JobType, Copy
<1>3. shared.rev + 1 \in Nat /\ shared.rev <= shared.rev + 1
      /\ shared.rev <= shared.rev /\ savedRev <= savedRev
  BY <1>2
<1>4. job[h].seen <= savedRev /\ (job[h].seen = savedRev => saved \subseteq job[h].ctx)
  BY <1>1 DEF Current
<1>5. CASE shared' = Installed(job[h])
  <2>1. shared' = [ctx |-> job[h].ctx, seen |-> job[h].seen, rev |-> shared.rev + 1]
    BY <1>5 DEF Installed
  <2> QED
    BY <1>1, <1>2, <1>3, <1>4, <2>1, SharedReplaced
<1>6. CASE shared' = [Installed(job[h]) EXCEPT !.rev = shared.rev]
  <2>1. shared' = [ctx |-> job[h].ctx, seen |-> job[h].seen, rev |-> shared.rev]
    BY <1>6 DEF Installed
  <2> QED
    BY <1>1, <1>2, <1>3, <1>4, <2>1, SharedReplaced
<1>7. CASE shared' = Reloaded
  <2>1. shared' = [ctx |-> saved, seen |-> savedRev, rev |-> shared.rev + 1]
    BY <1>7 DEF Reloaded
  <2> QED
    BY <1>1, <1>2, <1>3, <2>1, SharedReplaced
<1>8. CASE shared' = shared
  BY <1>1, <1>8, SharedSame
<1> QED
  BY <1>5, <1>6, <1>7, <1>8

LEMMA ActionStep ==
    ASSUME WebFacts, ActionWork \/ ActionCommit
    PROVE  Moves("action")
<1> DEFINE h == "action"
<1>1. h \in Handler /\ HandlerInPlace(h) /\ RegistryKept /\ budget \in Budget
      /\ answered \subseteq saved /\ delivered \in Nat
  BY Handlers DEF WebFacts
<1>2. CASE ActionWork
  <2>1. job[h].pc = "work" /\ UNCHANGED <<shared, flight, lane, answered, delivered>>
    BY <1>2 DEF ActionWork, At
  <2>2. (lane = h <=> "commit" \in LanePlaces(h))
        /\ (flight = h <=> "commit" \in FlightPlaces(h)) /\ "commit" \in PlacesOf(h)
    BY <1>1, <2>1, ActionPlaces DEF HandlerInPlace
  <2>3. CASE Writes("action", {"action"}, "commit")
    <3>1. {"action"} \in SUBSET Fact
      BY DEF Fact
    <3> QED
      BY <1>1, <2>1, <2>2, <2>3, <3>1, WritesStep
  <2>4. CASE Goes("action", "commit") /\ UNCHANGED <<saved, savedRev, budget>>
    <3>1. Grows
      BY <1>1, <2>1, <2>4, SharedSame
    <3>2. (\E j : MovesTo(h, j)) /\ HandlerInPlace(h)'
      BY <1>1, <2>1, <2>2, <2>4, <3>1, GoesInPlace
    <3> QED
      BY <1>1, <2>1, <2>4, <3>1, <3>2 DEF Moves, LocksOf
  <2> QED
    BY <1>2, <2>3, <2>4 DEF ActionWork
<1>3. CASE ActionCommit
  <2>1. /\ Returns("action") /\ UNCHANGED delivered
        /\ \/ /\ shared' = Commit("action")
              /\ answered' = IF job["action"].dirty THEN answered \cup {"action"}
                             ELSE answered
              /\ UNCHANGED <<saved, savedRev, budget>>
           \/ SaveFault /\ UNCHANGED <<shared, answered>>
    BY <1>3 DEF ActionCommit
  <2>2. UNCHANGED <<saved, savedRev>> /\ budget' \in Budget
    BY <1>1, <2>1, FaultSpent
  <2>3. Grows
    BY <1>1, <2>1, <2>2, InstallGrows DEF Commit
  <2>4. answered' \subseteq saved'
    BY <1>1, <2>1, <2>2 DEF HandlerInPlace
  <2> QED
    BY <1>1, <2>1, <2>2, <2>3, <2>4, ReturnsInPlace DEF Moves
<1> QED
  BY <1>2, <1>3

LEMMA ReadStep ==
    ASSUME WebFacts, NEW h \in {"read", "ack"},
           h = "read" => ReadWork \/ ReadCommit, h = "ack" => AckWork \/ AckCommit
    PROVE  Moves(h)
<1>1. h \in Handler /\ HandlerInPlace(h) /\ RegistryKept /\ budget \in Budget
      /\ answered \subseteq saved /\ delivered \in Nat /\ h # "action"
  BY Handlers DEF WebFacts
<1>2. CASE (h = "read" /\ ReadWork) \/ (h = "ack" /\ AckWork)
  <2>1. /\ job[h].pc = "work" /\ Writes(h, {h}, "commit")
        /\ UNCHANGED <<shared, flight, lane, answered, delivered>>
    BY <1>2 DEF ReadWork, AckWork, At
  <2>2. /\ lane = h <=> "commit" \in LanePlaces(h)
        /\ flight = h <=> "commit" \in FlightPlaces(h)
        /\ "commit" \in PlacesOf(h) /\ {h} \in SUBSET Fact
    BY <1>1, <2>1, ReadPlaces DEF HandlerInPlace, Fact
  <2> QED
    BY <1>1, <2>1, <2>2, WritesStep
<1>3. CASE (h = "read" /\ ReadCommit) \/ (h = "ack" /\ AckCommit)
  <2>1. /\ Returns(h) /\ UNCHANGED <<saved, savedRev, answered, delivered, budget>>
        /\ shared' = Installed(job[h]) \/ shared' = Reloaded \/ shared' = shared
    BY <1>3 DEF ReadCommit, AckCommit
  <2>2. Grows
    BY <1>1, <2>1, InstallGrows
  <2> QED
    BY <1>1, <2>1, <2>2, ReturnsInPlace DEF Moves
<1> QED
  BY <1>2, <1>3

(* One fact is added to the shared registry, and saved from there.         *)
LEMMA SharedEdited ==
    ASSUME RegistryKept, NEW fact \in Fact, NEW c,
           c = [shared EXCEPT !.ctx = @ \cup {fact}]
    PROVE  /\ Save(c) /\ shared' = Installed(AfterSave(c))
                 => Grows /\ fact \in saved'
           /\ UNCHANGED <<saved, savedRev>> /\ shared' = Installed(c) => Grows
<1>1. shared \in Copy /\ savedRev \in Nat /\ Current(shared)
      /\ shared.rev \in Nat
  BY DEF RegistryKept, Copy
<1>2. c \in Copy /\ c.ctx = shared.ctx \cup {fact} /\ c.seen = shared.seen
  BY <1>1 DEF Copy
<1>3. c.ctx \in SUBSET Fact /\ c.seen \in Nat /\ Current(c)
  BY <1>1, <1>2 DEF Copy, Current
<1>4. ASSUME Save(c), shared' = Installed(AfterSave(c))
      PROVE  Grows /\ fact \in saved'
  <2>1. /\ saved' = Merged(c) /\ savedRev' = savedRev + 1
        /\ saved \subseteq saved' /\ c.ctx \subseteq saved'
        /\ saved' \subseteq Fact /\ savedRev' \in Nat
    BY <1>3, <1>4, SaveKeeps
  <2>2. AfterSave(c).ctx = saved' /\ AfterSave(c).seen = savedRev'
    <3> DEFINE r == [c EXCEPT !.ctx = Merged(c)]
    <3>1. r \in Copy /\ r.ctx = saved'
      BY <1>2, <2>1 DEF Copy
    <3>2. AfterSave(c) = [r EXCEPT !.seen = savedRev + 1]
      BY DEF AfterSave
    <3> HIDE DEF r
    <3> QED
      BY <2>1, <3>1, <3>2 DEF Copy
  <2>3. shared' = [ctx |-> saved', seen |-> savedRev', rev |-> shared.rev + 1]
    BY <1>4, <2>2 DEF Installed
  <2>4. Grows
    <3>1. savedRev' <= savedRev'
      BY <2>1
    <3> QED
      BY <2>1, <2>3, <3>1, SharedSaved
  <2> QED
    BY <1>2, <2>1, <2>4
<1>5. ASSUME UNCHANGED <<saved, savedRev>>, shared' = Installed(c)
      PROVE  Grows
  <2>1. shared' = [ctx |-> c.ctx, seen |-> c.seen, rev |-> shared.rev + 1]
    BY <1>5 DEF Installed
  <2>2. shared.rev + 1 \in Nat /\ shared.rev <= shared.rev + 1
    BY <1>1
  <2> QED
    BY <1>3, <1>5, <2>1, <2>2, SharedReplaced DEF Current
<1> QED
  BY <1>4, <1>5

LEMMA StartStep ==
    ASSUME WebFacts, StartCommit
    PROVE  Moves("start")
<1> DEFINE h == "start"
           c == [shared EXCEPT !.ctx = @ \cup {"start"}]
<1>1. h \in Handler /\ HandlerInPlace(h) /\ RegistryKept /\ budget \in Budget
      /\ answered \subseteq saved /\ delivered \in Nat /\ "start" \in Fact
      /\ job[h] \in JobType /\ job \in [Handler -> JobType]
  BY Handlers DEF WebFacts, Fact
<1>2. /\ job[h].pc = "commit" /\ UNCHANGED delivered
      /\ \/ /\ Save(c) /\ shared' = Installed(AfterSave(c))
            /\ \/ Returns(h) /\ answered' = answered \cup {"start"}
               \/ /\ job' = [job EXCEPT ![h].pc = "lane", ![h].dirty = TRUE]
                  /\ lane' = "free" /\ UNCHANGED <<flight, answered>>
            /\ UNCHANGED budget
         \/ SaveFault /\ Returns(h) /\ UNCHANGED <<shared, answered>>
  BY DEF StartCommit, At
<1>3. /\ Save(c) /\ shared' = Installed(AfterSave(c))
            => Grows /\ "start" \in saved'
  BY <1>1, SharedEdited
<1> HIDE DEF c
<1>4. CASE Save(c) /\ shared' = Installed(AfterSave(c)) /\ Returns(h)
           /\ answered' = answered \cup {"start"} /\ UNCHANGED budget
  <2>1. Grows /\ "start" \in saved'
    BY <1>3, <1>4
  <2>2. answered' \subseteq saved'
    BY <1>1, <1>4, <2>1 DEF Grows
  <2> QED
    BY <1>1, <1>2, <1>4, <2>1, <2>2, ReturnsInPlace DEF Moves
<1>5. CASE /\ Save(c) /\ shared' = Installed(AfterSave(c))
           /\ job' = [job EXCEPT ![h].pc = "lane", ![h].dirty = TRUE]
           /\ lane' = "free" /\ UNCHANGED <<flight, answered, budget>>
  <2> DEFINE r == [job[h] EXCEPT !.pc = "lane"]
             j == [r EXCEPT !.dirty = TRUE]
  <2>1. Grows
    BY <1>3, <1>5
  <2>2. /\ r \in JobType /\ r.pc = "lane" /\ r.ctx = job[h].ctx
        /\ r.seen = job[h].seen /\ r.rev = job[h].rev
    BY <1>1 DEF JobType, Place
  <2>3. /\ j \in JobType /\ j.pc = "lane" /\ j.ctx = job[h].ctx
        /\ j.seen = job[h].seen /\ j.rev = job[h].rev
    BY <2>2, DirtyField
  <2>4. job' = [job EXCEPT ![h] = j]
    BY <1>1, <1>5
  <2> HIDE DEF j
  <2>5. MovesTo(h, j)
    BY <2>3, <2>4 DEF MovesTo
  <2>6. /\ "lane" \in PlacesOf(h) /\ "lane" \notin LanePlaces(h) /\ lane = h
        /\ flight # h /\ "lane" \notin FlightPlaces(h)
    BY <1>1, <1>2, StartPlaces DEF HandlerInPlace
  <2>7. /\ job[h].seen <= savedRev'
        /\ job[h].seen = savedRev' => saved' \subseteq job[h].ctx
        /\ job[h].rev <= shared'.rev
    BY <1>1, <2>1, CurrentStays DEF HandlerInPlace
  <2>8. HandlerInPlace(h)'
    BY <1>1, <1>5, <2>3, <2>5, <2>6, <2>7, JobInPlace, Handlers
  <2>9. answered' \subseteq saved'
    BY <1>1, <1>5, <2>1 DEF Grows
  <2> QED
    BY <1>1, <1>2, <1>5, <2>1, <2>5, <2>6, <2>8, <2>9 DEF Moves, LocksOf
<1>6. CASE SaveFault /\ Returns(h) /\ UNCHANGED <<shared, answered>>
  <2>1. UNCHANGED <<saved, savedRev>> /\ budget' \in Budget
    BY <1>1, <1>6, FaultSpent
  <2>2. Grows
    BY <1>1, <1>6, <2>1, SharedSame
  <2> QED
    BY <1>1, <1>2, <1>6, <2>1, <2>2, ReturnsInPlace DEF Moves
<1> QED
  BY <1>2, <1>4, <1>5, <1>6

LEMMA ModelStep ==
    ASSUME WebFacts, ModelCommit
    PROVE  Moves("model")
<1> DEFINE h == "model"
           c == [job[h] EXCEPT !.ctx = @ \cup {"model"}]
<1>1. h \in Handler /\ HandlerInPlace(h) /\ RegistryKept /\ budget \in Budget
      /\ answered \subseteq saved /\ delivered \in Nat /\ job[h] \in JobType
      /\ savedRev \in Nat
  BY Handlers DEF WebFacts, RegistryKept
<1>2. /\ Returns(h) /\ UNCHANGED delivered
      /\ \/ /\ Save(c) /\ shared' = Durable(c)
            /\ answered' = answered \cup {"model"} /\ UNCHANGED budget
         \/ UNCHANGED <<saved, savedRev, budget, shared, answered>>
         \/ SaveFault /\ UNCHANGED <<shared, answered>>
  BY DEF ModelCommit
<1>3. /\ c.ctx = job[h].ctx \cup {"model"} /\ c.seen = job[h].seen
      /\ c.ctx \subseteq Fact /\ c.seen \in Nat /\ Current(c)
  BY <1>1 DEF JobType, Fact, HandlerInPlace, Current
<1> HIDE DEF c
<1>4. CASE /\ Save(c) /\ shared' = Durable(c)
           /\ answered' = answered \cup {"model"} /\ UNCHANGED budget
  <2>1. /\ saved' = Merged(c) /\ savedRev' = savedRev + 1
        /\ saved \subseteq saved' /\ c.ctx \subseteq saved'
        /\ saved' \subseteq Fact /\ savedRev' \in Nat /\ c.seen < savedRev'
    BY <1>1, <1>3, <1>4, SaveKeeps
  <2>2. shared' = [ctx |-> saved', seen |-> c.seen, rev |-> shared.rev + 1]
    BY <1>4, <2>1 DEF Durable
  <2>3. c.seen <= savedRev' /\ c.seen # savedRev'
    BY <1>3, <2>1
  <2>4. Grows
    BY <1>1, <1>3, <2>1, <2>2, <2>3, SharedSaved
  <2>5. answered' \subseteq saved'
    BY <1>1, <1>3, <1>4, <2>1
  <2> QED
    BY <1>1, <1>2, <1>4, <2>4, <2>5, ReturnsInPlace DEF Moves
<1>5. CASE \/ UNCHANGED <<saved, savedRev, budget, shared, answered>>
           \/ SaveFault /\ UNCHANGED <<shared, answered>>
  <2>1. UNCHANGED <<saved, savedRev, shared, answered>> /\ budget' \in Budget
    BY <1>1, <1>5, FaultSpent
  <2>2. Grows
    BY <1>1, <2>1, SharedSame
  <2> QED
    BY <1>1, <1>2, <2>1, <2>2, ReturnsInPlace DEF Moves
<1> QED
  BY <1>2, <1>4, <1>5

LEMMA DirtyAny ==
    ASSUME NEW r \in JobType, NEW dirty \in BOOLEAN, NEW j,
           j = [r EXCEPT !.dirty = dirty]
    PROVE  /\ j \in JobType /\ j.pc = r.pc /\ j.ctx = r.ctx /\ j.seen = r.seen
           /\ j.rev = r.rev
  BY DEF JobType

(* The probe of a refresh: what it loads, it goes by.                      *)
LEMMA ProbeStep ==
    ASSUME WebFacts, RefreshProbe
    PROVE  Moves("refresh")
<1> DEFINE h == "refresh"
           c == Probe(job[h])
<1>1. h \in Handler /\ HandlerInPlace(h) /\ RegistryKept /\ budget \in Budget
      /\ answered \subseteq saved /\ delivered \in Nat /\ job[h] \in JobType
      /\ savedRev \in Nat /\ saved \subseteq Fact
  BY Handlers DEF WebFacts, RegistryKept
<1>2. PICK found \in {{}, {"due"}} :
          job' = [job EXCEPT ![h] =
                    [c EXCEPT !.pc = "lane", !.ctx = @ \cup found,
                              !.dirty = @ \/ found \ c.ctx # {}]]
  BY DEF RefreshProbe
<1>3. /\ job[h].pc = "work" /\ UNCHANGED <<saved, savedRev, shared, flight, lane,
                                           answered, delivered, budget>>
  BY DEF RefreshProbe, At
<1>4. c \in JobType /\ Current(c) /\ c.rev = job[h].rev
  <2>1. CASE job[h].seen = savedRev
    BY <1>1, <2>1 DEF Probe, HandlerInPlace
  <2>2. CASE job[h].seen # savedRev
    <3> DEFINE r1 == [job[h] EXCEPT !.ctx = saved]
               r2 == [r1 EXCEPT !.seen = savedRev]
    <3>1. r1 \in JobType /\ r1.ctx = saved /\ r1.rev = job[h].rev
      BY <1>1 DEF JobType
    <3> HIDE DEF r1
    <3>2. r2 \in JobType /\ r2.ctx = saved /\ r2.seen = savedRev
          /\ r2.rev = job[h].rev
      BY <1>1, <3>1 DEF JobType
    <3>3. c = [r2 EXCEPT !.dirty = TRUE]
      BY <2>2 DEF Probe, r1
    <3> HIDE DEF r2, c
    <3>4. c \in JobType /\ c.ctx = saved /\ c.seen = savedRev
          /\ c.rev = job[h].rev
      BY <3>2, <3>3, DirtyField
    <3> QED
      BY <1>1, <3>4 DEF Current
  <2> QED
    BY <2>1, <2>2
<1> HIDE DEF c
<1> DEFINE r1 == [c EXCEPT !.pc = "lane"]
           r2 == [r1 EXCEPT !.ctx = @ \cup found]
           dirty == r2.dirty \/ found \ c.ctx # {}
           j == [r2 EXCEPT !.dirty = dirty]
<1>5. /\ r1 \in JobType /\ r1.pc = "lane" /\ r1.ctx = c.ctx /\ r1.seen = c.seen
      /\ r1.rev = c.rev
  BY <1>4 DEF JobType, Place
<1>6. job' = [job EXCEPT ![h] = j]
  BY <1>2
<1> HIDE DEF r1
<1>7. /\ r2 \in JobType /\ r2.pc = "lane" /\ r2.ctx = c.ctx \cup found
      /\ r2.seen = c.seen /\ r2.rev = c.rev
  <2>1. found \subseteq Fact
    BY DEF Fact
  <2> QED
    BY <1>5, <2>1 DEF JobType
<1> HIDE DEF r2
<1>8. dirty \in BOOLEAN
  BY <1>7 DEF JobType
<1> HIDE DEF dirty
<1>9. /\ j \in JobType /\ j.pc = "lane" /\ j.ctx = c.ctx \cup found
      /\ j.seen = c.seen /\ j.rev = c.rev
  BY <1>7, <1>8, DirtyAny
<1> HIDE DEF j
<1>10. MovesTo(h, j)
  BY <1>6, <1>9 DEF MovesTo
<1>11. Grows
  BY <1>1, <1>3, SharedSame
<1>12. (lane = h <=> "lane" \in LanePlaces(h))
       /\ (flight = h <=> "lane" \in FlightPlaces(h)) /\ "lane" \in PlacesOf(h)
  BY <1>1, <1>3, RefreshPlaces DEF HandlerInPlace
<1>13. /\ c.seen <= savedRev /\ (c.seen = savedRev => saved \subseteq c.ctx)
       /\ job[h].rev <= shared.rev
  BY <1>1, <1>4 DEF Current, HandlerInPlace
<1>14. HandlerInPlace(h)'
  BY <1>1, <1>3, <1>4, <1>9, <1>10, <1>12, <1>13, JobInPlace
<1> QED
  BY <1>1, <1>3, <1>10, <1>11, <1>14 DEF Moves, LocksOf

(* The rest of a refresh: it saves and installs its probe, and delivers    *)
(* what is due.                                                            *)
LEMMA RefreshStep ==
    ASSUME WebFacts,
           \/ RefreshDiscard \/ RefreshSave \/ RefreshCommit \/ DeliverCopy
           \/ Deliver \/ DeliverSave \/ DeliverCommit
    PROVE  Moves("refresh")
<1> DEFINE h == "refresh"
<1>1. h \in Handler /\ HandlerInPlace(h) /\ RegistryKept /\ budget \in Budget
      /\ answered \subseteq saved /\ delivered \in Nat /\ job[h] \in JobType
      /\ savedRev \in Nat /\ saved \subseteq Fact /\ shared \in Copy
      /\ Current(job[h]) /\ job[h].rev <= shared.rev
      /\ (lane = h <=> job[h].pc \in LanePlaces(h))
      /\ (flight = h <=> job[h].pc \in FlightPlaces(h))
      /\ job \in [Handler -> JobType] /\ h # "action"
  BY Handlers DEF WebFacts, RegistryKept, HandlerInPlace
<1>2. CASE RefreshDiscard
  <2>1. /\ Returns(h) /\ UNCHANGED <<shared, answered, delivered>>
        /\ UNCHANGED <<saved, savedRev, budget>> \/ SaveFault
    BY <1>2 DEF RefreshDiscard
  <2>2. UNCHANGED <<saved, savedRev>> /\ budget' \in Budget
    BY <1>1, <2>1, FaultSpent
  <2>3. Grows
    BY <1>1, <2>1, <2>2, SharedSame
  <2> QED
    BY <1>1, <2>1, <2>2, <2>3, ReturnsInPlace DEF Moves
<1>3. CASE RefreshSave
  <2>1. /\ job[h].pc = "check"
        /\ UNCHANGED <<shared, flight, lane, answered, delivered, budget>>
        /\ \/ /\ Save(job[h])
              /\ job' = [job EXCEPT ![h] = [AfterSave(job[h]) EXCEPT !.pc = "commit"]]
           \/ Goes(h, "commit") /\ UNCHANGED <<saved, savedRev>>
    BY <1>3 DEF RefreshSave, At
  <2>2. (lane = h <=> "commit" \in LanePlaces(h))
        /\ (flight = h <=> "commit" \in FlightPlaces(h)) /\ "commit" \in PlacesOf(h)
    BY <1>1, <2>1, RefreshPlaces
  <2>3. CASE /\ Save(job[h])
             /\ job' = [job EXCEPT ![h] = [AfterSave(job[h]) EXCEPT !.pc = "commit"]]
    <3> DEFINE r1 == [job[h] EXCEPT !.ctx = Merged(job[h])]
               r2 == [r1 EXCEPT !.seen = savedRev + 1]
               j == [r2 EXCEPT !.pc = "commit"]
    <3>1. job[h].ctx \subseteq Fact /\ job[h].seen \in Nat
      BY <1>1 DEF JobType
    <3>2. /\ saved' = Merged(job[h]) /\ savedRev' = savedRev + 1
          /\ saved \subseteq saved'
          /\ saved' \subseteq Fact /\ savedRev' \in Nat
      BY <1>1, <2>3, <3>1, SaveKeeps
    <3>3. r1 \in JobType /\ r1.ctx = saved' /\ r1.rev = job[h].rev
      BY <1>1, <3>2 DEF JobType
    <3>4. AfterSave(job[h]) = r2
      BY DEF AfterSave
    <3> HIDE DEF r1
    <3>5. r2 \in JobType /\ r2.ctx = saved' /\ r2.rev = job[h].rev
          /\ r2.seen = savedRev'
      BY <3>2, <3>3 DEF JobType
    <3> HIDE DEF r2
    <3>6. j \in JobType /\ j.ctx = saved' /\ j.rev = job[h].rev
          /\ j.seen = savedRev' /\ j.pc = "commit"
      BY <3>5 DEF JobType, Place
    <3>7. MovesTo(h, j)
      BY <2>3, <3>4, <3>6 DEF MovesTo
    <3> HIDE DEF j
    <3>8. Grows
      BY <1>1, <2>1, <3>2, SharedStays
    <3>9. savedRev' <= savedRev'
      BY <3>2
    <3>10. HandlerInPlace(h)'
      BY <1>1, <2>1, <2>2, <3>6, <3>7, <3>9, JobInPlace
    <3> QED
      BY <1>1, <2>1, <3>2, <3>7, <3>8, <3>10 DEF Moves, LocksOf
  <2>4. CASE Goes(h, "commit") /\ UNCHANGED <<saved, savedRev>>
    <3>1. Grows
      BY <1>1, <2>1, <2>4, SharedSame
    <3>2. (\E j : MovesTo(h, j)) /\ HandlerInPlace(h)'
      BY <1>1, <2>1, <2>2, <2>4, <3>1, GoesInPlace
    <3> QED
      BY <1>1, <2>1, <2>4, <3>1, <3>2 DEF Moves, LocksOf
  <2> QED
    BY <2>1, <2>3, <2>4
<1>4. CASE RefreshCommit
  <2>1. /\ job[h].pc = "commit" /\ lane' = "free" /\ Goes(h, "deliver")
        /\ UNCHANGED <<saved, savedRev, flight, answered, delivered, budget>>
        /\ \/ shared' = [Installed(job[h]) EXCEPT !.rev = shared.rev]
           \/ shared' = shared
    BY <1>4 DEF RefreshCommit, At
  <2>2. Grows
    BY <1>1, <2>1, InstallGrows
  <2>3. /\ lane = h /\ "deliver" \notin LanePlaces(h) /\ lane' # h
        /\ (flight = h <=> "deliver" \in FlightPlaces(h)) /\ "deliver" \in PlacesOf(h)
    BY <1>1, <2>1, RefreshPlaces, Handlers
  <2>4. (\E j : MovesTo(h, j)) /\ HandlerInPlace(h)'
    BY <1>1, <2>1, <2>2, <2>3, GoesInPlace
  <2> QED
    BY <1>1, <2>1, <2>2, <2>3, <2>4 DEF Moves, LocksOf
<1>5. CASE DeliverCopy
  <2>1. /\ job[h].pc = "deliver"
        /\ UNCHANGED <<saved, savedRev, shared, answered, delivered, budget>>
        /\ \/ /\ job' = [job EXCEPT ![h] = [pc |-> "send", dirty |-> TRUE,
                             ctx |-> shared.ctx, seen |-> shared.seen,
                             rev |-> shared.rev]]
              /\ UNCHANGED <<flight, lane>>
           \/ Returns(h)
    BY <1>5 DEF DeliverCopy, At
  <2>2. Grows
    BY <1>1, <2>1, SharedSame
  <2>3. CASE /\ job' = [job EXCEPT ![h] = [pc |-> "send", dirty |-> TRUE,
                           ctx |-> shared.ctx, seen |-> shared.seen,
                           rev |-> shared.rev]]
             /\ UNCHANGED <<flight, lane>>
    <3> DEFINE j == [pc |-> "send", dirty |-> TRUE, ctx |-> shared.ctx,
                     seen |-> shared.seen, rev |-> shared.rev]
    <3>1. /\ j \in JobType /\ j.pc = "send" /\ j.ctx = shared.ctx
          /\ j.seen = shared.seen /\ j.rev = shared.rev
      BY <1>1 DEF JobType, Place, Copy
    <3> HIDE DEF j
    <3>2. MovesTo(h, j)
      BY <2>3, <3>1 DEF MovesTo, j
    <3>3. (lane = h <=> "send" \in LanePlaces(h))
          /\ (flight = h <=> "send" \in FlightPlaces(h)) /\ "send" \in PlacesOf(h)
      BY <1>1, <2>1, RefreshPlaces
    <3>4. shared.seen <= savedRev /\ shared.rev <= shared'.rev
          /\ (shared.seen = savedRev => saved \subseteq shared.ctx)
      BY <1>1, <2>2 DEF RegistryKept, Current, Grows
    <3>5. HandlerInPlace(h)'
      BY <1>1, <2>1, <2>3, <3>1, <3>2, <3>3, <3>4, JobInPlace
    <3> QED
      BY <1>1, <2>1, <2>2, <2>3, <3>2, <3>5 DEF Moves, LocksOf
  <2>4. CASE Returns(h)
    BY <1>1, <2>1, <2>2, <2>4, ReturnsInPlace DEF Moves
  <2> QED
    BY <2>1, <2>3, <2>4
<1>6. CASE Deliver
  <2> DEFINE r == [job[h] EXCEPT !.ctx = @ \cup {"mark"}]
             j == [r EXCEPT !.pc = "lane2"]
  <2>1. /\ job[h].pc = "send" /\ delivered' = delivered + 1
        /\ job' = [job EXCEPT ![h].ctx = @ \cup {"mark"}, ![h].pc = "lane2"]
        /\ UNCHANGED <<saved, savedRev, shared, flight, lane, answered, budget>>
    BY <1>6 DEF Deliver, At
  <2>2. /\ r \in JobType /\ r.ctx = job[h].ctx \cup {"mark"} /\ r.seen = job[h].seen
        /\ r.rev = job[h].rev
    BY <1>1 DEF JobType, Fact
  <2>3. job' = [job EXCEPT ![h] = j]
    BY <1>1, <2>1
  <2> HIDE DEF r
  <2>4. /\ j \in JobType /\ j.pc = "lane2" /\ j.ctx = job[h].ctx \cup {"mark"}
        /\ j.seen = job[h].seen /\ j.rev = job[h].rev
    BY <2>2 DEF JobType, Place
  <2> HIDE DEF j
  <2>5. MovesTo(h, j)
    BY <2>3, <2>4 DEF MovesTo
  <2>6. Grows
    BY <1>1, <2>1, SharedSame
  <2>7. (lane = h <=> "lane2" \in LanePlaces(h))
        /\ (flight = h <=> "lane2" \in FlightPlaces(h)) /\ "lane2" \in PlacesOf(h)
    BY <1>1, <2>1, RefreshPlaces
  <2>8. HandlerInPlace(h)'
    BY <1>1, <2>1, <2>4, <2>5, <2>7, JobInPlace DEF Current
  <2>9. delivered' \in Nat
    BY <1>1, <2>1
  <2> QED
    BY <1>1, <2>1, <2>5, <2>6, <2>8, <2>9 DEF Moves, LocksOf
<1>7. CASE DeliverSave
  <2>1. /\ job[h].pc = "record" /\ Writes(h, {"mark"}, "last")
        /\ UNCHANGED <<shared, flight, lane, answered, delivered>>
    BY <1>7 DEF DeliverSave, At
  <2>2. /\ lane = h <=> "last" \in LanePlaces(h)
        /\ flight = h <=> "last" \in FlightPlaces(h)
        /\ "last" \in PlacesOf(h) /\ {"mark"} \in SUBSET Fact
    BY <1>1, <2>1, RefreshPlaces DEF Fact
  <2> QED
    BY <1>1, <2>1, <2>2, WritesStep
<1>8. CASE DeliverCommit
  <2>1. /\ Returns(h) /\ UNCHANGED <<saved, savedRev, answered, delivered, budget>>
        /\ shared' = Installed(job[h]) \/ shared' = shared
    BY <1>8 DEF DeliverCommit
  <2>2. Grows
    BY <1>1, <2>1, InstallGrows
  <2> QED
    BY <1>1, <2>1, <2>2, ReturnsInPlace DEF Moves
<1> QED
  BY <1>2, <1>3, <1>4, <1>5, <1>6, <1>7, <1>8

-----------------------------------------------------------------------------
(* Reports and the drainers. *)

LEMMA ApplyGrows ==
    ASSUME WebFacts, RecordInPlace \/ RecordReloaded,
           answered' = answered \cup {"report"}
    PROVE  Grows /\ answered' \subseteq saved' /\ budget' \in Budget
<1>1. RegistryKept /\ answered \subseteq saved /\ budget \in Budget
      /\ savedRev \in Nat /\ saved \subseteq Fact /\ shared.ctx \subseteq Fact
      /\ shared.seen \in Nat /\ shared.seen <= savedRev
      /\ (shared.seen = savedRev => saved \subseteq shared.ctx)
  BY DEF WebFacts, RegistryKept, Copy, Current
<1>2. /\ saved' = saved \cup {"report"} /\ savedRev' = savedRev + 1
      /\ saved' \subseteq Fact /\ saved \subseteq saved'
  BY <1>1 DEF RecordInPlace, RecordReloaded, Fact
<1>3. CASE RecordInPlace
  <2> DEFINE seen == IF shared.seen = savedRev THEN savedRev + 1 ELSE shared.seen
  <2>1. shared' = [ctx |-> shared.ctx \cup {"report"}, seen |-> seen,
                   rev |-> shared.rev + 1] /\ UNCHANGED budget
    BY <1>3 DEF RecordInPlace
  <2>2. /\ seen \in Nat /\ seen <= savedRev'
        /\ seen = savedRev' => saved' \subseteq shared.ctx \cup {"report"}
        /\ shared.ctx \cup {"report"} \in SUBSET Fact
    BY <1>1, <1>2 DEF Fact
  <2> HIDE DEF seen
  <2>3. Grows
    BY <1>1, <1>2, <2>1, <2>2, SharedSaved
  <2> QED
    BY <1>1, <1>2, <2>1, <2>3
<1>4. CASE RecordReloaded
  <2>1. shared' = [ctx |-> saved', seen |-> savedRev, rev |-> shared.rev + 1]
        /\ budget.faults > 0 /\ budget' = [budget EXCEPT !.faults = @ - 1]
    BY <1>4 DEF RecordReloaded
  <2>2. savedRev <= savedRev' /\ savedRev # savedRev'
    BY <1>1, <1>2
  <2>3. Grows
    BY <1>1, <1>2, <2>1, <2>2, SharedSaved
  <2>4. budget' \in Budget
    BY <1>1, <2>1, WebAssumption DEF Budget
  <2> QED
    BY <1>1, <1>2, <2>3, <2>4
<1> QED
  BY <1>3, <1>4

LEMMA DrainStep ==
    ASSUME WebFacts, NEW d \in Drainer, DrainApply(d) \/ DrainPop(d) \/ DrainEnd(d)
    PROVE  Moves(d)
<1>1. d \in Handler /\ HandlerInPlace(d) /\ RegistryKept /\ budget \in Budget
      /\ answered \subseteq saved /\ delivered \in Nat
      /\ (lane = d <=> job[d].pc \in LanePlaces(d))
      /\ (flight = d <=> job[d].pc \in FlightPlaces(d))
  BY Handlers DEF WebFacts, HandlerInPlace
<1>2. CASE DrainApply(d)
  <2>1. /\ job[d].pc = "work" /\ Goes(d, "commit") /\ UNCHANGED <<flight, lane, delivered>>
        /\ \/ (RecordInPlace \/ RecordReloaded) /\ answered' = answered \cup {"report"}
           \/ SaveFault /\ UNCHANGED <<shared, answered>>
    BY <1>2 DEF DrainApply, Apply, At
  <2>2. Grows /\ answered' \subseteq saved' /\ budget' \in Budget
    <3>1. CASE SaveFault /\ UNCHANGED <<shared, answered>>
      BY <1>1, <3>1, FaultSpent, SharedSame
    <3>2. CASE /\ RecordInPlace \/ RecordReloaded
               /\ answered' = answered \cup {"report"}
      BY <3>2, ApplyGrows
    <3> QED
      BY <2>1, <3>1, <3>2
  <2>3. (lane' = d <=> "commit" \in LanePlaces(d))
        /\ (flight' = d <=> "commit" \in FlightPlaces(d)) /\ "commit" \in PlacesOf(d)
    BY <1>1, <2>1, DrainPlaces
  <2>4. (\E j : MovesTo(d, j)) /\ HandlerInPlace(d)'
    BY <1>1, <2>1, <2>2, <2>3, GoesInPlace
  <2> QED
    BY <1>1, <2>1, <2>2, <2>4 DEF Moves, LocksOf
<1>3. ASSUME NEW place \in {"work", "end"}, Goes(d, place),
             job[d].pc \in {"commit", "work"},
             UNCHANGED <<saved, savedRev, shared, flight, lane, answered, delivered,
                         budget>>
      PROVE  Moves(d)
  <2>1. (lane' = d <=> place \in LanePlaces(d))
        /\ (flight' = d <=> place \in FlightPlaces(d)) /\ place \in PlacesOf(d)
    BY <1>1, <1>3, DrainPlaces
  <2>2. Grows
    BY <1>1, <1>3, SharedSame
  <2>3. (\E j : MovesTo(d, j)) /\ HandlerInPlace(d)'
    BY <1>1, <1>3, <2>1, <2>2, GoesInPlace
  <2> QED
    BY <1>1, <1>3, <2>2, <2>3 DEF Moves, LocksOf
<1>4. CASE DrainPop(d)
  BY <1>3, <1>4 DEF DrainPop, At
<1>5. CASE DrainEnd(d)
  <2>1. CASE job[d].pc = "work" /\ Goes(d, "end") /\ UNCHANGED <<flight, lane>>
    BY <1>3, <1>5, <2>1 DEF DrainEnd
  <2>2. CASE Returns(d)
    <3>1. UNCHANGED <<saved, savedRev, shared, answered, delivered, budget>>
      BY <1>5 DEF DrainEnd
    <3>2. Grows
      BY <1>1, <3>1, SharedSame
    <3> QED
      BY <1>1, <2>2, <3>1, <3>2, ReturnsInPlace DEF Moves
  <2> QED
    BY <1>5, <2>1, <2>2 DEF DrainEnd, At
<1> QED
  BY <1>2, <1>4, <1>5

-----------------------------------------------------------------------------
(* Every step keeps what the handlers rely on. *)

LEMMA MovesKeep ==
    ASSUME WebFacts, NEW h \in Handler, Moves(h)
    PROVE  WebFacts'
<1>1. PICK j : j \in JobType /\ job' = [job EXCEPT ![h] = j]
  BY DEF Moves, MovesTo
<1>2. Grows /\ LocksOf(h) /\ HandlerInPlace(h)' /\ RegistryKept'
  BY DEF Moves, Grows
<1>3. job' \in [Handler -> JobType]
  BY <1>1 DEF WebFacts
<1>4. lane' \in Handler \cup {"free"} /\ flight' \in Handler \cup {"free"}
  BY <1>2 DEF WebFacts, LocksOf
<1>5. ASSUME NEW g \in Handler \ {h}
      PROVE  HandlerInPlace(g)'
  <2>1. job'[g] = job[g]
    BY <1>1 DEF WebFacts
  <2> QED
    BY <1>2, <2>1, OthersInPlace DEF WebFacts
<1>6. \A g \in Handler : HandlerInPlace(g)'
  BY <1>2, <1>5
<1> QED
  BY <1>2, <1>3, <1>4, <1>6 DEF WebFacts, Moves

LEMMA NoMoveKeeps ==
    ASSUME WebFacts, Grows, UNCHANGED <<job, lane, flight>>,
           answered' \subseteq saved', delivered' \in Nat, budget' \in Budget
    PROVE  WebFacts'
<1>1. ASSUME NEW g \in Handler PROVE HandlerInPlace(g)'
  <2>1. PICK h \in Handler : g # h
    BY Handlers
  <2> QED
    BY <2>1, OthersInPlace DEF WebFacts, LocksOf
<1> QED
  BY <1>1 DEF WebFacts, Grows

LEMMA StepsMove ==
    ASSUME WebFacts, NEW h \in Handler, Begin(h) \/ Steps(h)
    PROVE  Moves(h)
<1>1. CASE Begin(h) \/ TakeFlight(h) \/ TakeLane(h) \/ CopyShared(h)
  BY <1>1, LockStep
<1>2. CASE h = "action" /\ (ActionWork \/ ActionCommit)
  BY <1>2, ActionStep
<1>3. CASE h = "start" /\ StartCommit
  BY <1>3, StartStep
<1>4. CASE h = "model" /\ ModelCommit
  BY <1>4, ModelStep
<1>5. CASE h = "read" /\ (ReadWork \/ ReadCommit)
  BY <1>5, ReadStep
<1>6. CASE h = "ack" /\ (AckWork \/ AckCommit)
  BY <1>6, ReadStep
<1>7. CASE /\ h = "refresh"
           /\ \/ RefreshProbe \/ RefreshDiscard \/ RefreshSave
              \/ RefreshCommit \/ DeliverCopy \/ Deliver
              \/ DeliverSave \/ DeliverCommit
  BY <1>7, ProbeStep, RefreshStep
<1>8. CASE h \in Drainer /\ (DrainApply(h) \/ DrainPop(h) \/ DrainEnd(h))
  BY <1>8, DrainStep
<1> QED
  BY <1>1, <1>2, <1>3, <1>4, <1>5, <1>6, <1>7, <1>8 DEF Steps

LEMMA FactsStep ==
    ASSUME WebFacts, WebNext
    PROVE  WebFacts'
<1>0. RegistryKept /\ budget \in Budget /\ answered \subseteq saved
      /\ delivered \in Nat /\ saved \subseteq Fact /\ savedRev \in Nat
  BY DEF WebFacts, RegistryKept
<1>1. CASE \E h \in Handler : Begin(h) \/ Steps(h)
  BY <1>1, StepsMove, MovesKeep
<1>2. CASE Rollback
  <2> DEFINE c == [shared EXCEPT !.ctx = @ \cup {"rollback"}]
  <2>1. /\ UNCHANGED <<flight, lane, job, answered, delivered>>
        /\ \/ Save(c) /\ shared' = Installed(AfterSave(c)) /\ UNCHANGED budget
           \/ SaveFault /\ shared' = Installed(c)
    BY <1>2 DEF Rollback
  <2>2. budget' \in Budget
    BY <1>0, <2>1, FaultSpent
  <2>3. Grows
    <3>1. "rollback" \in Fact
      BY DEF Fact
    <3> QED
      BY <1>0, <2>1, <3>1, FaultSpent, SharedEdited
  <2>4. answered' \subseteq saved'
    BY <1>0, <2>1, <2>3 DEF Grows
  <2> QED
    BY <1>0, <2>1, <2>2, <2>3, <2>4, NoMoveKeeps
<1>3. CASE Report
  <2>1. /\ UNCHANGED <<flight, lane, job, delivered>>
        /\ \/ (RecordInPlace \/ RecordReloaded) /\ answered' = answered \cup {"report"}
           \/ SaveFault /\ UNCHANGED <<shared, answered>>
    BY <1>3 DEF Report, Apply
  <2>2. Grows /\ answered' \subseteq saved' /\ budget' \in Budget
    <3>1. CASE SaveFault /\ UNCHANGED <<shared, answered>>
      BY <1>0, <3>1, FaultSpent, SharedSame
    <3>2. CASE /\ RecordInPlace \/ RecordReloaded
               /\ answered' = answered \cup {"report"}
      BY <3>2, ApplyGrows
    <3> QED
      BY <2>1, <3>1, <3>2
  <2> QED
    BY <1>0, <2>1, <2>2, NoMoveKeeps
<1>4. CASE Defer
  <2>1. /\ UNCHANGED <<saved, savedRev, shared, flight, lane, answered, delivered,
                       budget>>
        /\ \/ UNCHANGED job
           \/ \E d \in Drainer : job[d].pc = "idle" /\ Goes(d, "lane")
    BY <1>4 DEF Defer, At
  <2>2. Grows
    BY <1>0, <2>1, SharedSame
  <2>3. CASE UNCHANGED job
    BY <1>0, <2>1, <2>2, <2>3, NoMoveKeeps
  <2>4. CASE \E d \in Drainer : job[d].pc = "idle" /\ Goes(d, "lane")
    <3>1. PICK d \in Drainer : job[d].pc = "idle" /\ Goes(d, "lane")
      BY <2>4
    <3>2. d \in Handler /\ HandlerInPlace(d)
      BY Handlers DEF WebFacts
    <3>3. (lane' = d <=> "lane" \in LanePlaces(d))
          /\ (flight' = d <=> "lane" \in FlightPlaces(d)) /\ "lane" \in PlacesOf(d)
      BY <2>1, <3>1, <3>2, DrainPlaces DEF HandlerInPlace
    <3>4. (\E j : MovesTo(d, j)) /\ HandlerInPlace(d)'
      BY <2>2, <3>1, <3>2, <3>3, GoesInPlace
    <3>5. Moves(d)
      BY <1>0, <2>1, <2>2, <3>4 DEF Moves, LocksOf
    <3> QED
      BY <3>2, <3>5, MovesKeep
  <2> QED
    BY <2>1, <2>3, <2>4
<1>5. CASE CliSave
  <2>1. /\ saved' = saved \cup {"cli"} /\ savedRev' = savedRev + 1
        /\ UNCHANGED <<shared, flight, lane, job, answered, delivered>>
        /\ budget.jobs > 0 /\ budget' = [budget EXCEPT !.jobs = @ - 1]
    BY <1>5 DEF CliSave
  <2>2. saved' \subseteq Fact /\ saved \subseteq saved'
    BY <1>0, <2>1 DEF Fact
  <2>3. Grows
    BY <1>0, <2>1, <2>2, SharedStays
  <2>4. budget' \in Budget
    BY <1>0, <2>1, JobSpent
  <2> QED
    BY <1>0, <2>1, <2>2, <2>3, <2>4, NoMoveKeeps
<1> QED
  BY <1>1, <1>2, <1>3, <1>4, <1>5 DEF WebNext

-----------------------------------------------------------------------------
(* The order of the reports. *)

(* A step that leaves the queue and the drainers at it alone.              *)
LEMMA QueueSame ==
    ASSUME QueueInOrder, UNCHANGED <<deferred, reports>>,
           \A d \in Drainer :
              /\ job'[d].pc = "commit" <=> job[d].pc = "commit"
              /\ job[d].pc \in {"lane", "work", "commit"}
                    => job'[d].pc \in {"lane", "work", "commit"}
    PROVE  QueueInOrder'
<1>1. Popping' <=> Popping
  BY DEF Popping
<1> QED
  BY <1>1 DEF QueueInOrder, Applied, Waiting, InOrder

(* A drainer at the queue holds the lane, so it is alone there.            *)
LEMMA OneAtQueue ==
    ASSUME WebFacts, NEW d \in Drainer, job[d].pc \in {"work", "commit", "end"}
    PROVE  \A e \in Drainer \ {d} : job[e].pc \notin {"work", "commit", "end"}
<1>1. \A e \in Drainer : lane = e <=> job[e].pc \in {"work", "commit", "end"}
  BY DrainPlaces, Handlers DEF WebFacts, HandlerInPlace
<1> QED
  BY <1>1

(* A report is applied after all that were applied before.                 *)
LEMMA AppliedLast ==
    ASSUME QueueInOrder, NEW n \in 1..MaxReports,
           \A i \in Applied : reports.applied[i] < n
    PROVE  LET s == Append(reports.applied, n)
           IN  /\ s \in Seq(1..MaxReports) /\ InOrder(s)
               /\ Len(s) = Len(reports.applied) + 1 /\ s[Len(s)] = n
               /\ \A i \in Applied : s[i] = reports.applied[i]
<1> DEFINE s == Append(reports.applied, n)
<1>1. reports.applied \in Seq(1..MaxReports) /\ Len(reports.applied) \in Nat
  BY DEF QueueInOrder, Reports
<1>2. /\ s \in Seq(1..MaxReports) /\ Len(s) = Len(reports.applied) + 1
      /\ s[Len(s)] = n /\ \A i \in Applied : s[i] = reports.applied[i]
  BY <1>1 DEF Applied
<1>3. ASSUME NEW i \in 1..Len(s), NEW j \in 1..Len(s), i < j
      PROVE  s[i] < s[j]
  <2>1. i \in Applied /\ s[i] = reports.applied[i]
    BY <1>1, <1>2, <1>3 DEF Applied
  <2>2. CASE j = Len(s)
    BY <1>2, <2>1, <2>2
  <2>3. CASE j # Len(s)
    <3>1. j \in Applied /\ s[j] = reports.applied[j]
      BY <1>1, <1>2, <2>3 DEF Applied
    <3> QED
      BY <1>3, <2>1, <3>1 DEF QueueInOrder, InOrder, Applied
  <2> QED
    BY <2>2, <2>3
<1> QED
  BY <1>2, <1>3 DEF InOrder

LEMMA ApplyQueue ==
    ASSUME WebFacts, QueueInOrder, NEW d \in Drainer, DrainApply(d)
    PROVE  QueueInOrder'
<1> DEFINE n == Head(deferred)
<1>1. /\ job[d].pc = "work" /\ deferred # <<>> /\ Goes(d, "commit")
      /\ deferred' = deferred
      /\ \/ reports' = [reports EXCEPT !.applied = Append(@, n),
                                      !.made = IF n > @ THEN n ELSE @]
         \/ reports' = reports
  BY DEF DrainApply, Apply, At
<1>2. /\ reports \in Reports /\ deferred \in Seq(1..MaxReports) /\ Len(deferred) \in Nat
      /\ reports.made \in 0..MaxReports /\ reports.applied \in Seq(1..MaxReports)
      /\ MaxReports \in Nat
  BY WebAssumption DEF QueueInOrder, Reports
<1>3. ~Popping
  BY <1>1, OneAtQueue DEF Popping
<1>4. 1 \in Waiting /\ n = deferred[1] /\ n \in 1..MaxReports /\ n <= reports.made
  BY <1>1, <1>2 DEF Waiting, QueueInOrder
<1>5. \A i \in Applied : reports.applied[i] < n
  BY <1>3, <1>4 DEF QueueInOrder
<1>6. Popping' /\ job'[d].pc = "commit"
  <2>1. job'[d].pc = "commit"
    BY <1>1, Handlers DEF Goes, WebFacts, JobType
  <2> QED
    BY <2>1 DEF Popping
<1>7. CASE reports' = reports
  BY <1>1, <1>6, <1>7 DEF QueueInOrder, Applied, Waiting, InOrder
<1>8. CASE reports' = [reports EXCEPT !.applied = Append(@, n),
                                      !.made = IF n > @ THEN n ELSE @]
  <2> DEFINE s == Append(reports.applied, n)
  <2>1. (IF n > reports.made THEN n ELSE reports.made) = reports.made
    BY <1>2, <1>4
  <2>2. reports' = [made |-> reports.made, applied |-> s]
    BY <1>2, <1>8, <2>1 DEF Reports
  <2>3. /\ s \in Seq(1..MaxReports) /\ InOrder(s)
        /\ Len(s) = Len(reports.applied) + 1 /\ s[Len(s)] = n
        /\ \A i \in Applied : s[i] = reports.applied[i]
    BY <1>4, <1>5, AppliedLast
  <2> HIDE DEF s, n
  <2>4. reports' \in Reports /\ reports'.applied = s /\ reports'.made = reports.made
    BY <1>2, <2>2, <2>3 DEF Reports
  <2>5. \A i \in 1..Len(s) : i \in Applied \/ i = Len(s)
    BY <1>2, <2>3 DEF Applied
  <2>6. \A i \in 1..Len(s) : s[i] <= reports.made
    BY <1>4, <2>3, <2>5 DEF QueueInOrder
  <2>7. \A i \in 1..Len(s), j \in Waiting : s[i] < deferred[j] \/ j = 1
    <3> SUFFICES ASSUME NEW i \in 1..Len(s), NEW j \in Waiting, j # 1
                 PROVE  s[i] < deferred[j]
      OBVIOUS
    <3>1. CASE i \in Applied
      BY <1>3, <2>3, <3>1 DEF QueueInOrder
    <3>2. CASE i = Len(s)
      BY <1>2, <1>4, <2>3, <3>2 DEF QueueInOrder, InOrder, Waiting
    <3> QED
      BY <2>5, <3>1, <3>2
  <2>8. /\ InOrder(reports.applied)' /\ InOrder(deferred)'
        /\ deferred' \in Seq(1..MaxReports)
        /\ \A j \in Waiting : deferred[j] <= reports.made
    BY <1>1, <2>3, <2>4 DEF QueueInOrder, InOrder
  <2> QED
    BY <1>1, <1>6, <2>4, <2>6, <2>7, <2>8 DEF QueueInOrder, Applied, Waiting
<1> QED
  BY <1>1, <1>7, <1>8

LEMMA PopQueue ==
    ASSUME WebFacts, QueueInOrder, NEW d \in Drainer, DrainPop(d)
    PROVE  QueueInOrder'
<1>1. /\ job[d].pc = "commit" /\ Goes(d, "work") /\ deferred' = Tail(deferred)
      /\ reports' = reports
  BY DEF DrainPop, At
<1>2. deferred \in Seq(1..MaxReports) /\ deferred # <<>> /\ Popping
  BY <1>1 DEF QueueInOrder, Popping
<1>3. /\ deferred' \in Seq(1..MaxReports) /\ Len(deferred) \in Nat
      /\ Len(deferred') = Len(deferred) - 1
      /\ \A j \in 1..Len(deferred') : /\ deferred'[j] = deferred[j + 1]
                                      /\ j + 1 \in Waiting /\ j + 1 # 1
  BY <1>1, <1>2 DEF Waiting
<1>4. job'[d].pc = "work" /\ ~Popping'
  <2>1. job'[d].pc = "work" /\ \A e \in Drainer \ {d} : job'[e] = job[e]
    BY <1>1, Handlers DEF Goes, WebFacts, JobType
  <2> QED
    BY <1>1, <2>1, OneAtQueue DEF Popping
<1>5. InOrder(deferred)'
  <2> SUFFICES ASSUME NEW i \in 1..Len(deferred'), NEW j \in 1..Len(deferred'), i < j
               PROVE  deferred'[i] < deferred'[j]
    BY DEF InOrder
  <2>1. i + 1 < j + 1
    OBVIOUS
  <2> QED
    BY <1>3, <2>1 DEF QueueInOrder, InOrder, Waiting
<1>6. \A i \in Applied, j \in 1..Len(deferred') : reports.applied[i] < deferred'[j]
  BY <1>3 DEF QueueInOrder
<1>7. \A j \in 1..Len(deferred') : deferred'[j] <= reports.made
  BY <1>3 DEF QueueInOrder
<1> QED
  BY <1>1, <1>3, <1>4, <1>5, <1>6, <1>7 DEF QueueInOrder, Applied, Waiting, InOrder

LEMMA EndQueue ==
    ASSUME WebFacts, QueueInOrder, NEW d \in Drainer, DrainEnd(d)
    PROVE  QueueInOrder'
<1>1. UNCHANGED <<deferred, reports>>
  BY DEF DrainEnd
<1>2. CASE job[d].pc = "work" /\ deferred = <<>> /\ Goes(d, "end")
  <2>1. job'[d].pc = "end" /\ \A e \in Drainer \ {d} : job'[e] = job[e]
    BY <1>2, Handlers DEF Goes, WebFacts, JobType
  <2>2. Popping' <=> Popping
    BY <1>2, <2>1 DEF Popping
  <2> QED
    BY <1>1, <1>2, <2>2 DEF QueueInOrder, Applied, Waiting, InOrder
<1>3. CASE job[d].pc = "end" /\ Returns(d)
  <2>1. job'[d].pc = "idle" /\ \A e \in Drainer \ {d} : job'[e] = job[e]
    BY <1>3, Handlers DEF Returns, Rest, WebFacts
  <2> QED
    BY <1>1, <1>3, <2>1, QueueSame
<1> QED
  BY <1>2, <1>3 DEF DrainEnd, At

LEMMA ReportQueue ==
    ASSUME WebFacts, QueueInOrder, Report
    PROVE  QueueInOrder'
<1> DEFINE n == reports.made + 1
<1>1. /\ reports.made < MaxReports /\ deferred = <<>> /\ UNCHANGED <<job, deferred>>
      /\ \/ reports' = [reports EXCEPT !.applied = Append(@, n),
                                      !.made = IF n > @ THEN n ELSE @]
         \/ reports' = [reports EXCEPT !.made = @ + 1]
  BY DEF Report, Apply, MayReportNow
<1>2. /\ reports \in Reports /\ reports.made \in Nat /\ MaxReports \in Nat
      /\ reports.applied \in Seq(1..MaxReports)
  BY WebAssumption DEF QueueInOrder, Reports
<1>3. n \in 1..MaxReports /\ n > reports.made
  BY <1>1, <1>2
<1>4. ~Popping /\ ~Popping' /\ Waiting' = {}
  BY <1>1 DEF Popping, QueueInOrder, Waiting
<1>5. /\ reports'.made = n /\ reports' \in Reports /\ InOrder(reports'.applied)
      /\ \A i \in 1..Len(reports'.applied) : reports'.applied[i] <= n
  <2>1. \A i \in Applied : reports.applied[i] \in Nat /\ reports.applied[i] < n
    BY SMTT(30), <1>2, <1>3 DEF QueueInOrder, Applied
  <2>2. CASE reports' = [reports EXCEPT !.made = @ + 1]
    <3>1. reports'.made = n /\ reports'.applied = reports.applied
          /\ reports' \in Reports
      BY <1>2, <1>3, <2>2 DEF Reports
    <3> QED
      BY <2>1, <3>1 DEF QueueInOrder, Applied, Reports
  <2>3. CASE reports' = [reports EXCEPT !.applied = Append(@, n),
                                        !.made = IF n > @ THEN n ELSE @]
    <3> DEFINE s == Append(reports.applied, n)
    <3>1. (IF n > reports.made THEN n ELSE reports.made) = n
      BY <1>3
    <3>2. reports' = [made |-> n, applied |-> s]
      BY <1>2, <2>3, <3>1 DEF Reports
    <3>3. /\ s \in Seq(1..MaxReports) /\ InOrder(s)
          /\ Len(s) = Len(reports.applied) + 1 /\ s[Len(s)] = n
          /\ \A i \in Applied : s[i] = reports.applied[i]
      BY <1>3, <2>1, AppliedLast
    <3>4. n \in 0..MaxReports /\ n \in Nat
      BY <1>3
    <3> HIDE DEF s, n
    <3>5. \A i \in 1..Len(s) : s[i] <= n
      <4>1. \A i \in 1..Len(s) : i \in Applied \/ i = Len(s)
        BY SMTT(30), <1>2, <3>3 DEF Applied
      <4> QED
        BY <2>1, <3>3, <3>4, <4>1
    <3>6. reports' \in Reports /\ reports'.made = n /\ reports'.applied = s
      BY <3>2, <3>3, <3>4 DEF Reports
    <3> QED
      BY <3>3, <3>5, <3>6
  <2> QED
    BY <1>1, <2>2, <2>3
<1> HIDE DEF n
<1> QED
  BY <1>1, <1>4, <1>5 DEF QueueInOrder, Applied, InOrder

LEMMA DeferQueue ==
    ASSUME WebFacts, QueueInOrder, Defer
    PROVE  QueueInOrder'
<1> DEFINE n == reports.made + 1
           s == Append(deferred, n)
<1>1. /\ reports.made < MaxReports /\ deferred' = s
      /\ reports' = [reports EXCEPT !.made = @ + 1]
      /\ IF deferred = <<>> THEN \E d \in Drainer : job[d].pc = "idle" /\ Goes(d, "lane")
         ELSE UNCHANGED job
  BY DEF Defer, NeedsDrainer, At
<1>2. /\ reports \in Reports /\ reports.made \in Nat /\ MaxReports \in Nat
      /\ deferred \in Seq(1..MaxReports) /\ Len(deferred) \in Nat
      /\ reports.applied \in Seq(1..MaxReports)
  BY WebAssumption DEF QueueInOrder, Reports
<1>3. n \in 1..MaxReports /\ n > reports.made /\ n \in Nat
  BY <1>1, <1>2
<1>4. reports' \in Reports /\ reports'.made = n /\ reports'.applied = reports.applied
  BY <1>1, <1>2, <1>3 DEF Reports
<1>5. /\ s \in Seq(1..MaxReports) /\ Len(s) = Len(deferred) + 1 /\ s[Len(s)] = n
      /\ \A j \in Waiting : s[j] = deferred[j]
      /\ \A j \in 1..Len(s) : j \in Waiting \/ j = Len(s)
      /\ s # <<>>
  <2> HIDE DEF n
  <2>1. s \in Seq(1..MaxReports) /\ Len(s) = Len(deferred) + 1
    BY <1>2, <1>3
  <2>2. s[Len(s)] = n /\ \A j \in Waiting : s[j] = deferred[j]
    BY <1>2, <1>3 DEF Waiting
  <2> HIDE DEF s
  <2>3. s # <<>>
    <3>1. Len(deferred) \in Nat
      BY <1>2
    <3>2. Len(s) # 0
      BY <2>1, <3>1
    <3>3. Len(<<>>) = 0
      OBVIOUS
    <3> QED
      BY <3>2, <3>3
  <2>4. \A j \in 1..Len(s) : j \in Waiting \/ j = Len(s)
    BY <1>2, <2>1 DEF Waiting
  <2> QED
    BY <2>1, <2>2, <2>3, <2>4
<1>6. /\ \A i \in Applied : reports.applied[i] \in Nat /\ reports.applied[i] < n
      /\ \A j \in Waiting : deferred[j] \in Nat /\ deferred[j] < n
  <2> HIDE DEF n
  <2>1. ASSUME NEW i \in Applied
        PROVE  reports.applied[i] \in Nat /\ reports.applied[i] < n
    <3>1. reports.applied[i] \in Nat /\ reports.applied[i] <= reports.made
      BY <1>2 DEF QueueInOrder, Applied
    <3> QED
      BY <1>2, <1>3, <3>1
  <2>2. ASSUME NEW j \in Waiting
        PROVE  deferred[j] \in Nat /\ deferred[j] < n
    <3>1. deferred[j] \in Nat /\ deferred[j] <= reports.made
      BY <1>2 DEF QueueInOrder, Waiting
    <3> QED
      BY <1>2, <1>3, <3>1
  <2> QED
    BY <2>1, <2>2
<1>7. Popping => Popping'
  <2>1. CASE deferred = <<>>
    BY <2>1 DEF QueueInOrder
  <2>2. CASE deferred # <<>>
    BY <1>1, <2>2 DEF Popping
  <2> QED
    BY <2>1, <2>2
<1>8. \E d \in Drainer : job'[d].pc \in {"lane", "work", "commit"}
  <2>1. CASE deferred = <<>>
    <3>1. PICK d \in Drainer : Goes(d, "lane")
      BY <1>1, <2>1
    <3>2. job'[d].pc = "lane"
      BY <3>1, Handlers DEF Goes, WebFacts, JobType
    <3> QED
      BY <3>2
  <2>2. CASE deferred # <<>>
    BY <1>1, <2>2 DEF QueueInOrder
  <2> QED
    BY <2>1, <2>2
<1> HIDE DEF s, n
<1>9. ASSUME NEW i \in 1..Len(s), NEW j \in 1..Len(s), i < j
      PROVE  s[i] < s[j]
  <2>1. i \in Waiting /\ s[i] = deferred[i]
    BY SMTT(30), <1>2, <1>5, <1>9 DEF Waiting
  <2>2. CASE j = Len(s)
    BY <1>5, <1>6, <2>1, <2>2
  <2>3. CASE j # Len(s)
    <3>1. j \in Waiting /\ s[j] = deferred[j]
      BY <1>5, <2>3
    <3> QED
      BY <1>9, <2>1, <3>1 DEF QueueInOrder, InOrder, Waiting
  <2> QED
    BY <2>2, <2>3
<1>10. ASSUME NEW i \in Applied, NEW j \in 1..Len(s)
       PROVE  reports.applied[i] < s[j] \/ (j = 1 /\ Popping')
  <2>1. CASE j = Len(s)
    BY <1>5, <1>6, <2>1
  <2>2. CASE j \in Waiting
    BY <1>5, <1>7, <2>2 DEF QueueInOrder
  <2> QED
    BY <1>5, <2>1, <2>2
<1>11. /\ \A i \in Applied : reports.applied[i] <= n
       /\ \A j \in 1..Len(s) : s[j] <= n
  BY <1>3, <1>5, <1>6
<1>12. InOrder(s) /\ InOrder(reports.applied)
  BY <1>9 DEF InOrder, QueueInOrder
<1> QED
  BY <1>1, <1>4, <1>5, <1>8, <1>10, <1>11, <1>12
  DEF QueueInOrder, Applied, Waiting

-----------------------------------------------------------------------------
LEMMA QueueStep ==
    ASSUME WebFacts, QueueInOrder, WebNext
    PROVE  QueueInOrder'
<1>1. CASE Report
  BY <1>1, ReportQueue
<1>2. CASE Defer
  BY <1>2, DeferQueue
<1>3. CASE Rollback \/ CliSave
  <2>1. UNCHANGED <<deferred, reports, job>>
    BY <1>3 DEF Rollback, CliSave
  <2> QED
    BY <2>1, QueueSame
<1>4. ASSUME NEW h \in Handler, Begin(h) \/ Steps(h)
      PROVE  QueueInOrder'
  <2>1. CASE h \in Drainer
    <3>1. job[h].pc \in {"idle", "lane", "work", "commit", "end"}
      BY <2>1, DrainPlaces DEF WebFacts, HandlerInPlace
    <3>2. CASE DrainApply(h) \/ DrainPop(h) \/ DrainEnd(h)
      BY <2>1, <3>2, ApplyQueue, PopQueue, EndQueue
    <3>3. CASE TakeLane(h)
      <4>1. /\ job[h].pc = "lane" /\ Goes(h, "work") /\ UNCHANGED <<deferred, reports>>
        BY <2>1, <3>1, <3>3, Handlers DEF TakeLane, At, UnderLane
      <4>2. job'[h].pc = "work" /\ \A e \in Drainer \ {h} : job'[e] = job[e]
        BY <4>1, Handlers DEF Goes, WebFacts, JobType
      <4> QED
        BY <4>1, <4>2, QueueSame
    <3> QED
      BY <1>4, <2>1, <3>1, <3>2, <3>3, Handlers
      DEF Begin, Steps, TakeFlight, CopyShared, At
  <2>2. CASE h \notin Drainer
    <3>1. UNCHANGED <<deferred, reports>>
      BY <1>4, <2>2
      DEF Begin, Steps, TakeFlight, TakeLane, CopyShared, ActionWork, ActionCommit,
          StartCommit, ModelCommit, ReadWork, ReadCommit, AckWork, AckCommit,
          RefreshProbe, RefreshDiscard, RefreshSave, RefreshCommit, DeliverCopy,
          Deliver, DeliverSave, DeliverCommit
    <3>2. PICK j : job' = [job EXCEPT ![h] = j]
      BY <1>4, StepsMove DEF Moves, MovesTo
    <3>3. \A d \in Drainer : job'[d] = job[d]
      BY <2>2, <3>2, Handlers DEF WebFacts
    <3> QED
      BY <3>1, <3>3, QueueSame
  <2> QED
    BY <2>1, <2>2
<1> QED
  BY <1>1, <1>2, <1>3, <1>4 DEF WebNext

LEMMA WebStart == WebInit => WebIInv
<1> SUFFICES ASSUME WebInit PROVE WebIInv
  OBVIOUS
<1>1. RegistryKept /\ answered \subseteq saved
  BY DEF WebInit, RegistryKept, Fresh, Copy, Current
<1>2. /\ Rest \in JobType /\ Rest.pc = "idle" /\ ~Rest.dirty /\ Rest.seen = 0
      /\ Rest.rev = 0 /\ Rest.ctx = {}
  BY DEF Rest, JobType, Place
<1>3. job \in [Handler -> JobType] /\ \A h \in Handler : job[h] = Rest
  BY <1>2 DEF WebInit
<1>4. lane = "free" /\ flight = "free" /\ savedRev = 0 /\ saved = {} /\ shared.rev = 0
  BY DEF WebInit, Fresh
<1>5. \A h \in Handler : HandlerInPlace(h)
  BY <1>2, <1>3, <1>4, Handlers, IdleHoldsNothing DEF HandlerInPlace, Current
<1>6. QueueInOrder
  <2>1. /\ reports = [made |-> 0, applied |-> <<>>] /\ deferred = <<>>
        /\ MaxReports \in Nat
    BY WebAssumption DEF WebInit
  <2>2. <<>> \in Seq(1..MaxReports) /\ Len(<<>>) = 0 /\ 0 \in 0..MaxReports
    BY <2>1
  <2>3. reports \in Reports /\ Applied = {} /\ Waiting = {}
    BY <2>1, <2>2 DEF Reports, Applied, Waiting
  <2>4. ~Popping
    BY <1>2, <1>3, Handlers DEF Popping
  <2> QED
    BY <2>1, <2>2, <2>3, <2>4 DEF QueueInOrder, InOrder, Applied, Waiting
<1>7. delivered \in Nat /\ budget \in Budget
  BY WebAssumption DEF WebInit, Budget
<1> QED
  BY <1>1, <1>3, <1>4, <1>5, <1>6, <1>7 DEF WebIInv

LEMMA WebStep == WebIInv /\ [WebNext]_webVars => WebIInv'
<1> SUFFICES ASSUME WebIInv, [WebNext]_webVars PROVE WebIInv'
  OBVIOUS
<1>1. WebFacts /\ QueueInOrder
  BY DEF WebIInv, WebFacts
<1>2. CASE WebNext
  <2>1. WebFacts' /\ QueueInOrder'
    BY <1>1, <1>2, FactsStep, QueueStep
  <2> QED
    BY <2>1 DEF WebIInv, WebFacts
<1>3. CASE UNCHANGED webVars
  BY <1>3 DEF webVars, WebIInv, RegistryKept, HandlerInPlace, QueueInOrder, Current,
              Popping, Applied, Waiting, InOrder
<1> QED
  BY <1>2, <1>3

LEMMA WebInvariant == WebSpec => []WebIInv
  BY WebStart, WebStep, PTL DEF WebSpec

(* The stored and the shared registry, the locks, the handlers with their  *)
(* copies and the queue of reports keep their types.                       *)
THEOREM WebTypeCorrect == WebSpec => []WebTypeOK
<1>1. WebIInv => WebTypeOK
  <2> SUFFICES ASSUME WebIInv PROVE WebTypeOK
    OBVIOUS
  <2>1. /\ saved \subseteq Fact /\ savedRev \in Nat /\ shared \in Copy
        /\ shared.rev \in Nat
    BY DEF WebIInv, RegistryKept, Copy
  <2>2. ASSUME NEW h \in Handler
        PROVE  /\ job[h].pc \in Place /\ job[h].dirty \in BOOLEAN
               /\ job[h].ctx \subseteq Fact
               /\ job[h].seen \in 0..savedRev /\ job[h].rev \in 0..shared.rev
    <3>1. job[h] \in JobType /\ job[h].seen <= savedRev /\ job[h].rev <= shared.rev
      BY DEF WebIInv, HandlerInPlace, Current
    <3> QED
      BY <2>1, <3>1 DEF JobType
  <2>3. /\ reports.made \in 0..MaxReports /\ deferred \in Seq(1..MaxReports)
        /\ reports.applied \in Seq(1..MaxReports)
    BY DEF WebIInv, QueueInOrder, Reports
  <2>4. answered \subseteq Fact
    BY <2>1 DEF WebIInv
  <2> QED
    BY <2>1, <2>2, <2>3, <2>4 DEF WebIInv, WebTypeOK, Budget
<1> QED
  BY <1>1, WebInvariant, PTL

(* No handler takes back what another answered, reports stay in order and  *)
(* are not stranded, and the two locks never close a circle, for any       *)
(* number of handlers, saves, failures and reports.                        *)
THEOREM WebHandlersAgree == WebSpec => []HandlersAgree
<1>1. WebIInv => AnsweredIsSeen
  BY DEF WebIInv, AnsweredIsSeen, RegistryKept, Current
<1>2. WebIInv => ReportsKept
  BY DEF WebIInv, ReportsKept, QueueInOrder, InOrder
<1>3. WebIInv => NoCircularWait
  <2> SUFFICES ASSUME WebIInv, lane # "free"
               PROVE  job[lane].pc \notin {"flight", "lane", "lane2"}
    BY DEF NoCircularWait
  <2>1. lane \in Handler /\ job[lane].pc \in LanePlaces(lane)
    BY DEF WebIInv, HandlerInPlace
  <2>2. \A h \in Handler : LanePlaces(h) \cap {"flight", "lane", "lane2"} = {}
    BY Handlers, ActionPlaces, RefreshPlaces, StartPlaces, ModelPlaces, ReadPlaces,
       DrainPlaces
  <2> QED
    BY <2>1, <2>2
<1> QED
  BY <1>1, <1>2, <1>3, WebInvariant, PTL DEF HandlersAgree
=============================================================================
