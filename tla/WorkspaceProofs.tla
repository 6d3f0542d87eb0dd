--------------------------- MODULE WorkspaceProofs ---------------------------
(***************************************************************************)
(* Proofs about the records of tasks and what is done with a task in a     *)
(* terminal, for any processes, tasks, tools and bounds: how the processes *)
(* of a workspace share their store (RegistryStore), how the operations on *)
(* a task keep its record and its resources together (TaskOperations), how *)
(* the traces of an agent are read (AgentEvidence), and how a task is      *)
(* opened in the operator's terminal (TaskAttach).  The modules share no   *)
(* variable.                                                               *)
(***************************************************************************)
EXTENDS RegistryStore, TaskOperations, AgentEvidence, TaskAttach, FilterProofs,
        FiniteSetTheorems, TLAPS

-----------------------------------------------------------------------------
(* RegistryStore.                                                          *)

(* What is stored is what a save wrote: no ghost has a row.                *)
NoStoredGhost == \A t \in Tasks : disk[t] = NoTask \/ ~IsGhost(disk[t])

(* Revisions that a process knows were revisions of the database.          *)
RevisionsPast(p) == rev[p] <= diskRev /\ proposal[p].rev <= diskRev

(* While the database has the revision a process goes by, it holds the     *)
(* baseline of that process, unless its load was torn.                     *)
BaselineIsStored(p) ==
    place[p] \in {"idle", "merging", "committing"} /\ ~torn[p] /\ rev[p] = diskRev
        => disk = Written(base[p])

(* What a process is about to commit is what it would propose now, unless  *)
(* the commit is going to be refused.                                      *)
ProposalIsMerge(p) ==
    place[p] = "committing" /\ proposal[p].rev = diskRev
        => proposal[p].reg = Proposed(p)

(* A web host takes over what it saved, so its history is complete.        *)
InStep(p) == /\ RevisionsPast(p) /\ BaselineIsStored(p) /\ ProposalIsMerge(p)
             /\ p \in Webs => Synced(p)

StoreIInv == /\ StoreTypeOK /\ NoStoredGhost
             /\ \A p \in Procs : InStep(p)

-----------------------------------------------------------------------------
(* The merge of one task: of a record and a record comes a record.         *)
LEMMA MergeTaskType ==
    ASSUME NEW d \in TaskRecord \cup {NoTask}, NEW m \in TaskRecord \cup {NoTask},
           NEW b \in TaskRecord \cup {NoTask}
    PROVE  MergeTask(d, m, b) \in TaskRecord \cup {NoTask}
<1>1. ASSUME d \in TaskRecord, m \in TaskRecord
      PROVE  MergeFacts(d, m, b) \in TaskRecord
  BY <1>1 DEF MergeFacts, TaskRecord, Facts
<1>2. CASE m = NoTask
  BY <1>2 DEF MergeTask
<1>3. CASE m # NoTask /\ d = NoTask
  BY <1>3 DEF MergeTask
<1>4. CASE m # NoTask /\ d # NoTask
  BY <1>1, <1>4 DEF MergeTask
<1> QED
  BY <1>2, <1>3, <1>4

(* What a process that is in step with its baseline leaves of a task it    *)
(* did not create or drop: every fact it did not set, and the task itself. *)
LEMMA MergeTaskKeeps ==
    ASSUME NEW d \in TaskRecord \cup {NoTask}, NEW m \in TaskRecord \cup {NoTask},
           NEW b \in TaskRecord \cup {NoTask}, NEW F \in SUBSET Facts,
           (m = NoTask) = (b = NoTask),
           \A f \in Facts \ F : m[f] = b[f]
    PROVE  /\ d = NoTask => MergeTask(d, m, b) = NoTask
           /\ d # NoTask => /\ MergeTask(d, m, b) # NoTask
                            /\ \A f \in Facts \ F : MergeTask(d, m, b)[f] = d[f]
<1>1. CASE m = NoTask
  BY <1>1 DEF MergeTask
<1>2. CASE m # NoTask /\ d = NoTask
  BY <1>2 DEF MergeTask
<1>3. CASE m # NoTask /\ d # NoTask
  <2>1. /\ MergeFacts(d, m, b) # NoTask
        /\ \A f \in Facts \ F : MergeFacts(d, m, b)[f] = d[f]
    <3>1. "life" \in Facts /\ NoTask.life = "none" /\ "none" \notin Lives
      BY DEF Facts, NoTask, Lives
    <3>2. MergeFacts(d, m, b).life \in Lives
      BY <1>3, <3>1 DEF MergeFacts, TaskRecord
    <3>3. \A f \in Facts \ F : MergeFacts(d, m, b)[f] = d[f]
      BY DEF MergeFacts
    <3> QED
      BY <3>1, <3>2, <3>3
  <2>2. CASE d = b
    BY <1>3, <2>2 DEF MergeTask
  <2>3. CASE d # b /\ (m = b \/ d = m)
    BY <1>3, <2>3 DEF MergeTask
  <2>4. CASE d # b /\ ~(m = b \/ d = m)
    BY <1>3, <2>1, <2>4 DEF MergeTask
  <2> QED
    BY <2>2, <2>3, <2>4
<1> QED
  BY <1>1, <1>2, <1>3

LEMMA ProposedType ==
    ASSUME StoreTypeOK, NEW p \in Procs
    PROVE  Proposed(p) \in Registry
<1>1. /\ disk \in Registry /\ mem[p] \in Registry /\ base[p] \in Registry
  BY DEF StoreTypeOK
<1>2. MergeRegistries(disk, mem[p], base[p]) \in Registry
  <2>1. ASSUME NEW t \in Tasks
        PROVE  MergeTask(disk[t], mem[p][t], base[p][t]) \in TaskRecord \cup {NoTask}
    <3>1. /\ disk[t] \in TaskRecord \cup {NoTask}
          /\ mem[p][t] \in TaskRecord \cup {NoTask}
          /\ base[p][t] \in TaskRecord \cup {NoTask}
      BY <1>1 DEF Registry
    <3> QED
      BY <3>1, MergeTaskType
  <2> QED
    BY <2>1 DEF MergeRegistries, Registry
<1> QED
  BY <1>1, <1>2 DEF Proposed

-----------------------------------------------------------------------------
(* The types. *)

LEMMA ReadTasksType ==
    ASSUME StoreTypeOK, NEW p \in Procs, ReadTasks(p)
    PROVE  StoreTypeOK'
<1>1. NoProposal \in [reg : Registry, rev : 0..MaxRev]
  BY StoreAssumption DEF NoProposal, NoRegistry, Registry
<1> QED
  BY <1>1 DEF ReadTasks, StoreTypeOK

LEMMA CommandEndedType ==
    ASSUME StoreTypeOK, NEW p \in Procs, CommandEnded(p)
    PROVE  StoreTypeOK'
<1>1. NoRegistry \in Registry /\ 0 \in 0..MaxRev
  BY StoreAssumption DEF NoRegistry, Registry
<1>2. NoProposal \in [reg : Registry, rev : 0..MaxRev]
  BY <1>1 DEF NoProposal
<1> QED
  BY <1>1, <1>2 DEF CommandEnded, StoreTypeOK

(* One field of one task of one process changes.                           *)
LEMMA MemType ==
    ASSUME StoreTypeOK, NEW p \in Procs, NEW t \in Tasks,
           NEW r \in TaskRecord \cup {NoTask}
    PROVE  [mem EXCEPT ![p][t] = r] \in [Procs -> Registry]
  BY DEF StoreTypeOK, Registry

LEMMA TouchedType ==
    ASSUME StoreTypeOK, NEW p \in Procs, NEW t \in Tasks,
           NEW f \in Facts \cup {"task"}
    PROVE  [touched EXCEPT ![p] = @ \cup {<<t, f>>}]
               \in [Procs -> SUBSET (Tasks \X (Facts \cup {"task"}))]
  BY DEF StoreTypeOK

LEMMA StoreTypeStep == StoreTypeOK /\ [StoreNext]_storeVars => StoreTypeOK'
<1> SUFFICES ASSUME StoreTypeOK, [StoreNext]_storeVars
             PROVE  StoreTypeOK'
  OBVIOUS
<1>0. MaxEdits \in Nat /\ MaxRev \in Nat
  BY StoreAssumption
<1>1. CASE UNCHANGED storeVars
  BY <1>1 DEF storeVars, StoreTypeOK
<1>2. CASE StoreNext
  <2>0. PICK p \in Procs :
            \/ Launch(p) \/ ReadRevision(p) \/ ReloadIfStale(p) \/ ProcessExits(p)
            \/ Edit(p) \/ CreateTask(p) \/ DropTask(p)
            \/ SaveBegin(p) \/ SaveMerge(p) \/ SaveConflicts(p)
            \/ SaveCommit(p) \/ SaveRefused(p)
            \/ RecordActivity(p) \/ ActivityRefused(p)
    BY <1>2 DEF StoreNext
  <2>1. CASE Launch(p) \/ ReloadIfStale(p) \/ ActivityRefused(p)
    BY <2>1, ReadTasksType DEF Launch, ReloadIfStale, ActivityRefused
  <2>2. CASE SaveConflicts(p) \/ SaveRefused(p) \/ ProcessExits(p)
    BY <2>2, ReadTasksType, CommandEndedType
    DEF SaveConflicts, SaveRefused, ProcessExits, AfterFailure
  <2>3. CASE ReadRevision(p)
    BY <2>3 DEF ReadRevision, StoreTypeOK
  <2>4. CASE Edit(p)
    <3>1. PICK t \in Tasks, f \in Facts :
              /\ edits < MaxEdits /\ mem[p][t] # NoTask
              /\ \E v \in CASE f = "life" -> Lives
                            [] f = "git"  -> {"present", "absent"}
                            [] f = "act"  -> {edits + 1} :
                    mem' = [mem EXCEPT ![p][t][f] = v]
              /\ touched' = [touched EXCEPT ![p] = @ \cup {<<t, f>>}]
              /\ edits' = edits + 1
              /\ UNCHANGED <<disk, diskRev, base, rev, emptyOk, place, proposal,
                             torn>>
      BY <2>4 DEF Edit
    <3>2. PICK v \in CASE f = "life" -> Lives
                       [] f = "git"  -> {"present", "absent"}
                       [] f = "act"  -> {edits + 1} :
              mem' = [mem EXCEPT ![p][t][f] = v]
      BY <3>1
    <3>3. mem[p][t] \in TaskRecord
      BY <3>1 DEF StoreTypeOK, Registry
    <3>4. edits \in 0..MaxEdits /\ edits + 1 \in 0..MaxEdits
      BY <1>0, <3>1 DEF StoreTypeOK
    <3>5. [mem[p][t] EXCEPT ![f] = v] \in TaskRecord
      BY <3>2, <3>3, <3>4 DEF TaskRecord, Facts
    <3>6. mem' = [mem EXCEPT ![p][t] = [mem[p][t] EXCEPT ![f] = v]]
      BY <3>2
    <3>7. mem' \in [Procs -> Registry]
      BY <3>5, <3>6, MemType
    <3>8. touched' \in [Procs -> SUBSET (Tasks \X (Facts \cup {"task"}))]
      BY <3>1, TouchedType
    <3> QED
      BY <3>1, <3>4, <3>7, <3>8 DEF StoreTypeOK
  <2>5. CASE CreateTask(p)
    <3>1. PICK t \in Tasks :
              /\ edits < MaxEdits
              /\ mem' = [mem EXCEPT ![p][t] =
                            [inc |-> edits + 2, life |-> "Active",
                             git |-> "present", act |-> 0]]
              /\ touched' = [touched EXCEPT ![p] = @ \cup {<<t, "task">>}]
              /\ edits' = edits + 1
              /\ UNCHANGED <<disk, diskRev, base, rev, emptyOk, place, proposal,
                             torn>>
      BY <2>5 DEF CreateTask
    <3>2. edits \in 0..MaxEdits /\ edits + 1 \in 0..MaxEdits
      BY <1>0, <3>1 DEF StoreTypeOK
    <3>3. [inc |-> edits + 2, life |-> "Active", git |-> "present", act |-> 0]
              \in TaskRecord
      BY <1>0, <3>2 DEF TaskRecord, Lives
    <3>4. mem' \in [Procs -> Registry]
      BY <3>1, <3>3, MemType
    <3>5. touched' \in [Procs -> SUBSET (Tasks \X (Facts \cup {"task"}))]
      BY <3>1, TouchedType
    <3> QED
      BY <3>1, <3>2, <3>4, <3>5 DEF StoreTypeOK
  <2>6. CASE DropTask(p)
    <3>1. PICK t \in Tasks :
              /\ edits < MaxEdits
              /\ mem' = [mem EXCEPT ![p][t] = NoTask]
              /\ touched' = [touched EXCEPT ![p] = @ \cup {<<t, "task">>}]
      BY <2>6 DEF DropTask
    <3>2. edits + 1 \in 0..MaxEdits
      BY <1>0, <3>1 DEF StoreTypeOK
    <3>3. mem' \in [Procs -> Registry]
      BY <3>1, MemType
    <3>4. touched' \in [Procs -> SUBSET (Tasks \X (Facts \cup {"task"}))]
      BY <3>1, TouchedType
    <3> QED
      BY <2>6, <3>2, <3>3, <3>4 DEF DropTask, StoreTypeOK
  <2>7. CASE SaveBegin(p)
    BY <2>7 DEF SaveBegin, StoreTypeOK
  <2>8. CASE SaveMerge(p)
    <3>1. Proposed(p) \in Registry
      BY ProposedType
    <3>2. [proposal[p] EXCEPT !.reg = Proposed(p)]
              \in [reg : Registry, rev : 0..MaxRev]
      BY <3>1 DEF StoreTypeOK
    <3>3. proposal' \in [Procs -> [reg : Registry, rev : 0..MaxRev]]
      BY <2>8, <3>2 DEF SaveMerge, StoreTypeOK
    <3> QED
      BY <2>8, <3>3 DEF SaveMerge, StoreTypeOK
  <2>9. CASE SaveCommit(p)
    <3>1. proposal[p].reg \in Registry
      BY DEF StoreTypeOK
    <3>2. Written(proposal[p].reg) \in Registry
      BY <3>1 DEF Written, Registry
    <3>3. diskRev' \in 0..MaxRev
      BY <1>0, <2>9 DEF SaveCommit, StoreTypeOK
    <3>4. NoProposal \in [reg : Registry, rev : 0..MaxRev]
      BY <1>0 DEF NoProposal, NoRegistry, Registry
    <3>5. /\ mem' \in [Procs -> Registry]
          /\ touched' \in [Procs -> SUBSET (Tasks \X (Facts \cup {"task"}))]
      <4>1. CASE p \in Webs
        BY <2>9, <3>1, <4>1 DEF SaveCommit, StoreTypeOK
      <4>2. CASE p \notin Webs
        BY <2>9, <4>2 DEF SaveCommit, StoreTypeOK
      <4> QED
        BY <4>1, <4>2
    <3>6. /\ disk' \in Registry /\ edits' \in 0..MaxEdits
          /\ base' \in [Procs -> Registry] /\ rev' \in [Procs -> 0..MaxRev]
          /\ emptyOk' \in [Procs -> BOOLEAN] /\ torn' \in [Procs -> BOOLEAN]
          /\ place' \in [Procs -> {"off", "reading", "idle", "merging",
                                   "committing"}]
          /\ proposal' \in [Procs -> [reg : Registry, rev : 0..MaxRev]]
      BY <2>9, <3>1, <3>2, <3>3, <3>4 DEF SaveCommit, StoreTypeOK
    <3> QED
      BY <3>3, <3>5, <3>6 DEF StoreTypeOK
  <2>10. CASE RecordActivity(p)
    <3>1. PICK t \in Tasks :
              /\ edits < MaxEdits /\ diskRev < MaxRev
              /\ mem[p][t] # NoTask /\ disk[t] # NoTask
              /\ disk' = [disk EXCEPT ![t].act = edits + 1]
              /\ mem' = [mem EXCEPT ![p][t].act = edits + 1]
              /\ touched' = [touched EXCEPT ![p] = @ \cup {<<t, "act">>}]
              /\ IF BaselineFollows(p) /\ base[p][t] # NoTask
                 THEN /\ base' = [base EXCEPT ![p][t].act = edits + 1]
                      /\ rev' = [rev EXCEPT ![p] = diskRev + 1]
                 ELSE UNCHANGED <<base, rev>>
      BY <2>10 DEF RecordActivity
    <3>2. edits + 1 \in 0..MaxEdits /\ diskRev + 1 \in 0..MaxRev
      BY <1>0, <3>1 DEF StoreTypeOK
    <3>3. ASSUME NEW r \in TaskRecord
          PROVE  [r EXCEPT !.act = edits + 1] \in TaskRecord
      BY <3>2 DEF TaskRecord
    <3>4. disk[t] \in TaskRecord /\ mem[p][t] \in TaskRecord
      BY <3>1 DEF StoreTypeOK, Registry
    <3>5. disk' \in Registry
      BY <3>1, <3>3, <3>4 DEF StoreTypeOK, Registry
    <3>6. mem' \in [Procs -> Registry]
      <4>1. mem' = [mem EXCEPT ![p][t] = [mem[p][t] EXCEPT !.act = edits + 1]]
        BY <3>1
      <4> QED
        BY <3>3, <3>4, <4>1, MemType
    <3>7. base' \in [Procs -> Registry] /\ rev' \in [Procs -> 0..MaxRev]
      <4>1. CASE BaselineFollows(p) /\ base[p][t] # NoTask
        <5>1. base[p] \in Registry /\ base[p][t] \in TaskRecord
          BY <4>1 DEF StoreTypeOK, Registry
        <5>2. [base[p] EXCEPT ![t].act = edits + 1] \in Registry
          BY <3>3, <5>1 DEF Registry
        <5>3. base' = [base EXCEPT ![p] = [base[p] EXCEPT ![t].act = edits + 1]]
          BY <3>1, <4>1
        <5> QED
          BY <3>1, <3>2, <4>1, <5>2, <5>3 DEF StoreTypeOK
      <4>2. CASE ~(BaselineFollows(p) /\ base[p][t] # NoTask)
        BY <3>1, <4>2 DEF StoreTypeOK
      <4> QED
        BY <4>1, <4>2
    <3>8. touched' \in [Procs -> SUBSET (Tasks \X (Facts \cup {"task"}))]
      <4>1. "act" \in Facts \cup {"task"}
        BY DEF Facts
      <4> QED
        BY <3>1, <4>1, TouchedType
    <3> QED
      BY <2>10, <3>2, <3>5, <3>6, <3>7, <3>8 DEF RecordActivity, StoreTypeOK
  <2> QED
    BY <2>0, <2>1, <2>2, <2>3, <2>4, <2>5, <2>6, <2>7, <2>8, <2>9, <2>10
<1> QED
  BY <1>1, <1>2

-----------------------------------------------------------------------------
(* The steps. *)

(* Processes that a step does not touch stay in step: with the same        *)
(* database, or with one whose revision has moved on.                      *)
LEMMA OthersInStep ==
    ASSUME StoreIInv, NEW p \in Procs, NEW q \in Procs, q # p,
           /\ mem'[q] = mem[q] /\ base'[q] = base[q] /\ rev'[q] = rev[q]
           /\ place'[q] = place[q] /\ proposal'[q] = proposal[q]
           /\ touched'[q] = touched[q] /\ torn'[q] = torn[q],
           \/ UNCHANGED <<disk, diskRev>>
           \/ diskRev' = diskRev + 1
    PROVE  InStep(q)'
<1>1. diskRev \in Nat /\ rev[q] \in Nat /\ proposal[q].rev \in Nat
  BY StoreAssumption DEF StoreIInv, StoreTypeOK
<1>2. InStep(q)
  BY DEF StoreIInv
<1>3. Synced(q)' = Synced(q)
  BY DEF Synced, SyncedTask
<1>4. CASE UNCHANGED <<disk, diskRev>>
  <2>1. Proposed(q)' = Proposed(q)
    BY <1>4 DEF Proposed
  <2> QED
    BY <1>2, <1>3, <1>4, <2>1
    DEF InStep, RevisionsPast, BaselineIsStored, ProposalIsMerge
<1>5. CASE diskRev' = diskRev + 1
  <2>1. rev'[q] # diskRev' /\ proposal'[q].rev # diskRev'
    BY <1>1, <1>2, <1>5 DEF InStep, RevisionsPast
  <2>2. rev'[q] <= diskRev' /\ proposal'[q].rev <= diskRev'
    BY <1>1, <1>2, <1>5 DEF InStep, RevisionsPast
  <2> QED
    BY <1>2, <1>3, <2>1, <2>2
    DEF InStep, RevisionsPast, BaselineIsStored, ProposalIsMerge
<1> QED
  BY <1>4, <1>5

(* A load, and the end of a process.                                       *)
LEMMA ReadTasksInStep ==
    ASSUME StoreIInv, NEW p \in Procs, ReadTasks(p)
    PROVE  StoreIInv'
<1>1. StoreTypeOK'
  BY ReadTasksType DEF StoreIInv
<1>2. NoStoredGhost'
  BY DEF StoreIInv, NoStoredGhost, ReadTasks
<1>3. InStep(p)'
  BY StoreAssumption
  DEF InStep, RevisionsPast, BaselineIsStored, ProposalIsMerge,
      Synced, SyncedTask, NoProposal,
      ReadTasks, StoreIInv, StoreTypeOK
<1>4. ASSUME NEW q \in Procs, q # p
      PROVE  InStep(q)'
  BY <1>4, OthersInStep DEF ReadTasks, StoreIInv, StoreTypeOK
<1> QED
  BY <1>1, <1>2, <1>3, <1>4 DEF StoreIInv

LEMMA CommandEndedInStep ==
    ASSUME StoreIInv, NEW p \in Procs, CommandEnded(p)
    PROVE  StoreIInv'
<1>1. StoreTypeOK'
  BY CommandEndedType DEF StoreIInv
<1>2. NoStoredGhost'
  BY DEF StoreIInv, NoStoredGhost, CommandEnded
<1>3. InStep(p)'
  BY StoreAssumption
  DEF InStep, RevisionsPast, BaselineIsStored, ProposalIsMerge,
      Synced, SyncedTask, NoProposal,
      CommandEnded, StoreIInv, StoreTypeOK
<1>4. ASSUME NEW q \in Procs, q # p
      PROVE  InStep(q)'
  BY <1>4, OthersInStep DEF CommandEnded, StoreIInv, StoreTypeOK
<1> QED
  BY <1>1, <1>2, <1>3, <1>4 DEF StoreIInv

(* A command edits the copy of its process.                                *)
LEMMA EditInStep ==
    ASSUME StoreIInv, NEW p \in Procs, NEW t \in Tasks, NEW f \in Facts \cup {"task"},
           NEW r \in TaskRecord \cup {NoTask},
           place[p] = "idle",
           mem' = [mem EXCEPT ![p][t] = r],
           touched' = [touched EXCEPT ![p] = @ \cup {<<t, f>>}],
           f # "task" => /\ mem[p][t] # NoTask /\ r # NoTask
                         /\ \A g \in Facts \ {f} : r[g] = mem[p][t][g],
           UNCHANGED <<disk, diskRev, base, rev, place, proposal, torn>>
    PROVE  NoStoredGhost' /\ \A q \in Procs : InStep(q)'
<1>1. NoStoredGhost'
  BY DEF StoreIInv, NoStoredGhost
<1>2. ASSUME NEW q \in Procs, q # p
      PROVE  InStep(q)'
  BY <1>2, OthersInStep DEF StoreIInv, StoreTypeOK
<1>3. InStep(p)'
  <2>1. RevisionsPast(p)' /\ BaselineIsStored(p)' /\ ProposalIsMerge(p)'
    BY DEF StoreIInv, InStep, RevisionsPast, BaselineIsStored, ProposalIsMerge
  <2>2. Synced(p) => Synced(p)'
    <3> SUFFICES ASSUME Synced(p), NEW u \in Tasks, <<u, "task">> \notin touched'[p]
                 PROVE  /\ (mem'[p][u] = NoTask) = (base'[p][u] = NoTask)
                        /\ \A g \in Facts : <<u, g>> \notin touched'[p] =>
                              mem'[p][u][g] = base'[p][u][g]
      BY DEF Synced, SyncedTask
    <3>1. touched'[p] = touched[p] \cup {<<t, f>>}
      BY DEF StoreIInv, StoreTypeOK
    <3>2. mem'[p][u] = IF u = t THEN r ELSE mem[p][u]
      BY DEF StoreIInv, StoreTypeOK, Registry
    <3>3. CASE u # t
      BY <3>1, <3>2, <3>3 DEF Synced, SyncedTask
    <3>4. CASE u = t
      <4>1. f # "task" /\ <<u, "task">> \notin touched[p]
        BY <3>1, <3>4
      <4>2. \A g \in Facts : <<u, g>> \notin touched'[p] => g # f
        BY <3>1, <3>4
      <4> QED
        BY <3>1, <3>2, <3>4, <4>1, <4>2 DEF Synced, SyncedTask
    <3> QED
      BY <3>3, <3>4
  <2> QED
    BY <2>1, <2>2 DEF StoreIInv, InStep
<1> QED
  BY <1>1, <1>2, <1>3

LEMMA CommitInStep ==
    ASSUME StoreIInv, NEW p \in Procs, SaveCommit(p)
    PROVE  NoStoredGhost' /\ \A q \in Procs : InStep(q)'
<1>1. disk' = Written(proposal[p].reg) /\ diskRev' = diskRev + 1
  BY DEF SaveCommit
<1>2. NoStoredGhost'
  BY <1>1 DEF NoStoredGhost, Written
<1>3. ASSUME NEW q \in Procs, q # p
      PROVE  InStep(q)'
  <2>1. CASE p \in Webs
    BY <1>3, <2>1, OthersInStep DEF SaveCommit, StoreIInv, StoreTypeOK
  <2>2. CASE p \notin Webs
    BY <1>3, <2>2, OthersInStep DEF SaveCommit, StoreIInv, StoreTypeOK
  <2> QED
    BY <2>1, <2>2
<1>4. InStep(p)'
  <2>1. /\ base'[p] = proposal[p].reg /\ rev'[p] = diskRev' /\ place'[p] = "idle"
        /\ proposal'[p].rev = 0
    BY <1>1 DEF SaveCommit, NoProposal, StoreIInv, StoreTypeOK
  <2>2. diskRev' \in Nat
    BY <1>1, StoreAssumption DEF StoreIInv, StoreTypeOK
  <2>3. p \in Webs => mem'[p] = base'[p]
    BY <2>1 DEF SaveCommit, StoreIInv, StoreTypeOK
  <2> QED
    BY <1>1, <2>1, <2>2, <2>3
    DEF InStep, RevisionsPast, BaselineIsStored, ProposalIsMerge,
        Synced, SyncedTask
<1> QED
  BY <1>2, <1>3, <1>4

LEMMA ActivityInStep ==
    ASSUME StoreIInv, NEW p \in Procs, RecordActivity(p)
    PROVE  NoStoredGhost' /\ \A q \in Procs : InStep(q)'
<1>1. PICK t \in Tasks :
          /\ p \in Webs /\ place[p] = "idle"
          /\ mem[p][t] # NoTask /\ disk[t] # NoTask
          /\ disk' = [disk EXCEPT ![t].act = edits + 1]
          /\ mem' = [mem EXCEPT ![p][t].act = edits + 1]
          /\ touched' = [touched EXCEPT ![p] = @ \cup {<<t, "act">>}]
          /\ diskRev' = diskRev + 1
          /\ IF BaselineFollows(p) /\ base[p][t] # NoTask
             THEN /\ base' = [base EXCEPT ![p][t].act = edits + 1]
                  /\ rev' = [rev EXCEPT ![p] = diskRev + 1]
             ELSE UNCHANGED <<base, rev>>
          /\ UNCHANGED <<place, proposal, torn>>
  BY DEF RecordActivity
<1> DEFINE Stamped(r) == [r EXCEPT !.act = edits + 1]
<1>2. ASSUME NEW r \in TaskRecord
      PROVE  /\ Stamped(r) # NoTask /\ IsGhost(Stamped(r)) = IsGhost(r)
             /\ \A f \in Facts \ {"act"} : Stamped(r)[f] = r[f]
  <2>1. Stamped(r).life = r.life /\ Stamped(r).git = r.git /\ r.life # "none"
    BY DEF TaskRecord, Lives
  <2>2. NoTask.life = "none"
    BY DEF NoTask
  <2>3. Stamped(r) # NoTask /\ r # NoTask
    BY <2>1, <2>2
  <2> QED
    BY <2>1, <2>3 DEF IsGhost, TaskRecord, Facts
<1>3. disk[t] \in TaskRecord /\ mem[p][t] \in TaskRecord
      /\ base[p][t] \in TaskRecord \cup {NoTask}
  BY <1>1 DEF StoreIInv, StoreTypeOK, Registry
<1>4. \A u \in Tasks : /\ disk'[u] = IF u = t THEN Stamped(disk[t]) ELSE disk[u]
                       /\ mem'[p][u] = IF u = t THEN Stamped(mem[p][t])
                                                ELSE mem[p][u]
  BY <1>1 DEF StoreIInv, StoreTypeOK, Registry
<1> HIDE DEF Stamped
<1>5. NoStoredGhost'
  BY <1>1, <1>2, <1>3, <1>4 DEF StoreIInv, NoStoredGhost
<1>6. ASSUME NEW q \in Procs, q # p
      PROVE  InStep(q)'
  BY <1>1, <1>6, OthersInStep DEF StoreIInv, StoreTypeOK
<1>7. diskRev \in Nat /\ rev[p] \in Nat
  BY StoreAssumption DEF StoreIInv, StoreTypeOK
<1>8. touched'[p] = touched[p] \cup {<<t, "act">>} /\ place'[p] = "idle"
      /\ proposal'[p] = proposal[p] /\ torn'[p] = torn[p] /\ Synced(p)
      /\ proposal[p].rev \in Nat /\ proposal[p].rev <= diskRev /\ rev[p] <= diskRev
  BY <1>1, StoreAssumption DEF StoreIInv, StoreTypeOK, InStep, RevisionsPast
<1>9. CASE BaselineFollows(p) /\ base[p][t] # NoTask
  <2>1. base[p][t] \in TaskRecord
    BY <1>3, <1>9
  <2>2. \A u \in Tasks : base'[p][u] = IF u = t THEN Stamped(base[p][t])
                                                ELSE base[p][u]
    <3>1. base' = [base EXCEPT ![p][t].act = edits + 1]
      BY <1>1, <1>9
    <3>2. base \in [Procs -> Registry] /\ base[p] \in Registry
      BY DEF StoreIInv, StoreTypeOK
    <3> QED
      BY <3>1, <3>2 DEF Registry, Stamped
  <2>3. rev'[p] = diskRev'
    BY <1>1, <1>9 DEF StoreIInv, StoreTypeOK
  <2>4. RevisionsPast(p)'
    BY <1>1, <1>7, <1>8, <2>3 DEF RevisionsPast
  <2>5. ~torn[p] => disk' = Written(base'[p])
    <3> SUFFICES ASSUME ~torn[p], NEW u \in Tasks
                 PROVE  disk'[u] = Written(base'[p])[u]
      BY <1>1 DEF StoreIInv, StoreTypeOK, Registry, Written
    <3>1. disk = Written(base[p])
      BY <1>1, <1>9
      DEF StoreIInv, InStep, BaselineIsStored, BaselineFollows
    <3>2. CASE u # t
      BY <1>4, <2>2, <3>1, <3>2 DEF Written
    <3>3. CASE u = t
      <4>1. disk[t] = base[p][t] /\ ~IsGhost(base[p][t])
        BY <1>1, <3>1 DEF Written
      <4> QED
        BY <1>2, <1>4, <2>1, <2>2, <3>3, <4>1 DEF Written
    <3> QED
      BY <3>2, <3>3
  <2>6. Synced(p)'
    <3> SUFFICES ASSUME NEW u \in Tasks, <<u, "task">> \notin touched'[p]
                 PROVE  /\ (mem'[p][u] = NoTask) = (base'[p][u] = NoTask)
                        /\ \A f \in Facts : <<u, f>> \notin touched'[p] =>
                              mem'[p][u][f] = base'[p][u][f]
      BY DEF Synced, SyncedTask
    <3>1. <<u, "task">> \notin touched[p]
      BY <1>8
    <3>2. CASE u # t
      BY <1>4, <1>8, <2>2, <3>1, <3>2 DEF Synced, SyncedTask
    <3>3. CASE u = t
      <4>1. \A f \in Facts : <<u, f>> \notin touched'[p] =>
                f \in Facts \ {"act"} /\ <<u, f>> \notin touched[p]
        BY <1>8, <3>3
      <4> QED
        BY SMTT(30), <1>2, <1>3, <1>4, <1>8, <2>1, <2>2, <3>1, <3>3, <4>1
        DEF Synced, SyncedTask
    <3> QED
      BY <3>2, <3>3
  <2> QED
    BY <1>5, <1>6, <1>8, <2>4, <2>5, <2>6
    DEF InStep, BaselineIsStored, ProposalIsMerge
<1>10. CASE ~(BaselineFollows(p) /\ base[p][t] # NoTask)
  <2>1. base' = base /\ rev' = rev
    BY <1>1, <1>10
  <2>2. RevisionsPast(p)' /\ rev'[p] # diskRev'
    BY <1>1, <1>7, <1>8, <2>1 DEF RevisionsPast
  <2>3. Synced(p)'
    <3> SUFFICES ASSUME NEW u \in Tasks, <<u, "task">> \notin touched'[p]
                 PROVE  /\ (mem'[p][u] = NoTask) = (base'[p][u] = NoTask)
                        /\ \A f \in Facts : <<u, f>> \notin touched'[p] =>
                              mem'[p][u][f] = base'[p][u][f]
      BY DEF Synced, SyncedTask
    <3>1. <<u, "task">> \notin touched[p]
      BY <1>8
    <3>2. CASE u # t
      BY <1>4, <1>8, <2>1, <3>1, <3>2 DEF Synced, SyncedTask
    <3>3. CASE u = t
      <4>1. \A f \in Facts : <<u, f>> \notin touched'[p] =>
                f \in Facts \ {"act"} /\ <<u, f>> \notin touched[p]
        BY <1>8, <3>3
      <4>2. /\ base[p][t] # NoTask
            /\ \A f \in Facts : <<t, f>> \notin touched[p] =>
                  mem[p][t][f] = base[p][t][f]
        BY <1>1, <1>8, <3>1, <3>3 DEF Synced, SyncedTask
      <4>3. /\ mem'[p][u] = Stamped(mem[p][t]) /\ mem'[p][u] # NoTask
            /\ \A f \in Facts \ {"act"} : mem'[p][u][f] = mem[p][t][f]
        BY <1>2, <1>3, <1>4, <3>3
      <4> QED
        BY <2>1, <3>3, <4>1, <4>2, <4>3
    <3> QED
      BY <3>2, <3>3
  <2> QED
    BY <1>5, <1>6, <1>8, <2>2, <2>3
    DEF InStep, BaselineIsStored, ProposalIsMerge
<1> QED
  BY <1>5, <1>6, <1>9, <1>10

LEMMA StoreStep == StoreIInv /\ [StoreNext]_storeVars => StoreIInv'
<1> SUFFICES ASSUME StoreIInv, [StoreNext]_storeVars
             PROVE  StoreIInv'
  OBVIOUS
<1>1. StoreTypeOK'
  BY StoreTypeStep DEF StoreIInv
<1>2. CASE UNCHANGED storeVars
  BY <1>1, <1>2
  DEF storeVars, StoreIInv, NoStoredGhost, InStep, RevisionsPast, BaselineIsStored,
      ProposalIsMerge, Proposed, Synced, SyncedTask
<1>3. CASE StoreNext
  <2>0. PICK p \in Procs :
            \/ Launch(p) \/ ReadRevision(p) \/ ReloadIfStale(p) \/ ProcessExits(p)
            \/ Edit(p) \/ CreateTask(p) \/ DropTask(p)
            \/ SaveBegin(p) \/ SaveMerge(p) \/ SaveConflicts(p)
            \/ SaveCommit(p) \/ SaveRefused(p)
            \/ RecordActivity(p) \/ ActivityRefused(p)
    BY <1>3 DEF StoreNext
  <2>1. CASE Launch(p) \/ ReloadIfStale(p) \/ ActivityRefused(p)
    BY <2>1, ReadTasksInStep DEF Launch, ReloadIfStale, ActivityRefused
  <2>2. CASE SaveConflicts(p) \/ SaveRefused(p) \/ ProcessExits(p)
    BY <2>2, ReadTasksInStep, CommandEndedInStep
    DEF SaveConflicts, SaveRefused, ProcessExits, AfterFailure
  <2>3. CASE ReadRevision(p)
    <3>1. NoStoredGhost'
      BY <2>3 DEF ReadRevision, StoreIInv, NoStoredGhost
    <3>2. disk = Written(disk)
      BY DEF StoreIInv, StoreTypeOK, Registry, NoStoredGhost, Written
    <3>3. InStep(p)'
      <4>1. /\ rev'[p] = diskRev /\ place'[p] = "idle" /\ torn'[p] = (base[p] # disk)
            /\ UNCHANGED <<disk, diskRev, mem, base, proposal, touched>>
        BY <2>3 DEF ReadRevision, StoreIInv, StoreTypeOK
      <4>2. diskRev \in Nat
        BY StoreAssumption DEF StoreIInv, StoreTypeOK
      <4>3. BaselineIsStored(p)'
        BY <3>2, <4>1 DEF BaselineIsStored
      <4> QED
        BY <4>1, <4>2, <4>3
        DEF StoreIInv, InStep, RevisionsPast, BaselineIsStored, ProposalIsMerge,
            Synced, SyncedTask
    <3>4. ASSUME NEW q \in Procs, q # p
          PROVE  InStep(q)'
      BY <2>3, <3>4, OthersInStep DEF ReadRevision, StoreIInv, StoreTypeOK
    <3> QED
      BY <1>1, <3>1, <3>3, <3>4 DEF StoreIInv
  <2>4. CASE Edit(p)
    <3>1. PICK t \in Tasks, f \in Facts :
              /\ place[p] = "idle" /\ edits < MaxEdits /\ mem[p][t] # NoTask
              /\ \E v \in CASE f = "life" -> Lives
                            [] f = "git"  -> {"present", "absent"}
                            [] f = "act"  -> {edits + 1} :
                    mem' = [mem EXCEPT ![p][t][f] = v]
              /\ touched' = [touched EXCEPT ![p] = @ \cup {<<t, f>>}]
              /\ UNCHANGED <<disk, diskRev, base, rev, place, proposal, torn>>
      BY <2>4 DEF Edit
    <3>2. PICK v \in CASE f = "life" -> Lives
                       [] f = "git"  -> {"present", "absent"}
                       [] f = "act"  -> {edits + 1} :
              mem' = [mem EXCEPT ![p][t][f] = v]
      BY <3>1
    <3>3. mem[p][t] \in TaskRecord
      BY <3>1 DEF StoreIInv, StoreTypeOK, Registry
    <3>4. edits + 1 \in 0..MaxEdits
      BY <3>1, StoreAssumption DEF StoreIInv, StoreTypeOK
    <3> DEFINE r == [mem[p][t] EXCEPT ![f] = v]
    <3>5. /\ r \in TaskRecord
          /\ \A g \in Facts \ {f} : r[g] = mem[p][t][g]
      BY <3>2, <3>3, <3>4 DEF TaskRecord, Facts
    <3>6. NoTask \notin TaskRecord
      BY DEF NoTask, TaskRecord, Lives
    <3>7. mem' = [mem EXCEPT ![p][t] = r] /\ f # "task"
      BY <3>2 DEF Facts
    <3> HIDE DEF r
    <3>8. NoStoredGhost' /\ \A q \in Procs : InStep(q)'
      BY <3>1, <3>5, <3>6, <3>7, EditInStep
    <3> QED
      BY <1>1, <3>8 DEF StoreIInv
  <2>5. CASE CreateTask(p)
    <3>1. PICK t \in Tasks :
              /\ place[p] = "idle" /\ edits < MaxEdits
              /\ mem' = [mem EXCEPT ![p][t] =
                            [inc |-> edits + 2, life |-> "Active",
                             git |-> "present", act |-> 0]]
              /\ touched' = [touched EXCEPT ![p] = @ \cup {<<t, "task">>}]
              /\ UNCHANGED <<disk, diskRev, base, rev, place, proposal, torn>>
      BY <2>5 DEF CreateTask
    <3>2. [inc |-> edits + 2, life |-> "Active", git |-> "present", act |-> 0]
              \in TaskRecord
      BY <3>1, StoreAssumption DEF StoreIInv, StoreTypeOK, TaskRecord, Lives
    <3>3. NoStoredGhost' /\ \A q \in Procs : InStep(q)'
      BY <3>1, <3>2, EditInStep
    <3> QED
      BY <1>1, <3>3 DEF StoreIInv
  <2>6. CASE DropTask(p)
    <3>1. PICK t \in Tasks :
              /\ place[p] = "idle"
              /\ mem' = [mem EXCEPT ![p][t] = NoTask]
              /\ touched' = [touched EXCEPT ![p] = @ \cup {<<t, "task">>}]
              /\ UNCHANGED <<disk, diskRev, base, rev, place, proposal, torn>>
      BY <2>6 DEF DropTask
    <3>2. NoStoredGhost' /\ \A q \in Procs : InStep(q)'
      BY <3>1, EditInStep
    <3> QED
      BY <1>1, <3>2 DEF StoreIInv
  <2>7. CASE SaveBegin(p)
    <3>1. NoStoredGhost'
      BY <2>7 DEF SaveBegin, StoreIInv, NoStoredGhost
    <3>2. InStep(p)'
      <4>1. /\ proposal'[p] = [reg |-> mem[p], rev |-> diskRev]
            /\ place'[p] = "merging" /\ place[p] = "idle"
            /\ UNCHANGED <<disk, diskRev, mem, base, rev, touched, torn>>
        BY <2>7 DEF SaveBegin, StoreIInv, StoreTypeOK
      <4>2. diskRev \in Nat
        BY StoreAssumption DEF StoreIInv, StoreTypeOK
      <4> QED
        BY <4>1, <4>2
        DEF StoreIInv, InStep, RevisionsPast, BaselineIsStored, ProposalIsMerge,
            Synced, SyncedTask
    <3>3. ASSUME NEW q \in Procs, q # p
          PROVE  InStep(q)'
      BY <2>7, <3>3, OthersInStep DEF SaveBegin, StoreIInv, StoreTypeOK
    <3> QED
      BY <1>1, <3>1, <3>2, <3>3 DEF StoreIInv
  <2>8. CASE SaveMerge(p)
    <3>1. NoStoredGhost'
      BY <2>8 DEF SaveMerge, StoreIInv, NoStoredGhost
    <3>2. InStep(p)'
      <4>1. /\ proposal'[p].reg = Proposed(p) /\ proposal'[p].rev = proposal[p].rev
            /\ place'[p] = "committing" /\ place[p] = "merging"
            /\ UNCHANGED <<disk, diskRev, mem, base, rev, touched, torn>>
        BY <2>8 DEF SaveMerge, StoreIInv, StoreTypeOK
      <4>2. Proposed(p)' = Proposed(p)
        BY <4>1 DEF Proposed
      <4> QED
        BY <4>1, <4>2
        DEF StoreIInv, InStep, RevisionsPast, BaselineIsStored, ProposalIsMerge,
            Synced, SyncedTask
    <3>3. ASSUME NEW q \in Procs, q # p
          PROVE  InStep(q)'
      BY <2>8, <3>3, OthersInStep DEF SaveMerge, StoreIInv, StoreTypeOK
    <3> QED
      BY <1>1, <3>1, <3>2, <3>3 DEF StoreIInv
  <2>9. CASE SaveCommit(p)
    BY <1>1, <2>9, CommitInStep DEF StoreIInv
  <2>10. CASE RecordActivity(p)
    BY <1>1, <2>10, ActivityInStep DEF StoreIInv
  <2> QED
    BY <2>0, <2>1, <2>2, <2>3, <2>4, <2>5, <2>6, <2>7, <2>8, <2>9, <2>10
<1> QED
  BY <1>2, <1>3

LEMMA StoreStart == StoreInit => StoreIInv
<1> SUFFICES ASSUME StoreInit
             PROVE  StoreIInv
  OBVIOUS
<1>1. PICK S \in SUBSET Tasks :
          disk = [t \in Tasks |-> IF t \in S
                    THEN [inc |-> 1, life |-> "Active", git |-> "present",
                          act |-> 0]
                    ELSE NoTask]
  BY DEF StoreInit
<1>2. [inc |-> 1, life |-> "Active", git |-> "present", act |-> 0] \in TaskRecord
  BY StoreAssumption DEF TaskRecord, Lives
<1>3. disk \in Registry
  BY <1>1, <1>2 DEF Registry
<1>4. NoRegistry \in Registry
  BY DEF NoRegistry, Registry
<1>5. NoProposal \in [reg : Registry, rev : 0..MaxRev] /\ NoProposal.rev = 0
  BY <1>4, StoreAssumption DEF NoProposal
<1>6. StoreTypeOK
  BY <1>3, <1>4, <1>5, StoreAssumption DEF StoreInit, StoreTypeOK
<1>7. NoStoredGhost
  BY <1>1 DEF NoStoredGhost, IsGhost
<1>8. ASSUME NEW p \in Procs
      PROVE  InStep(p)
  BY <1>5
  DEF StoreInit, InStep, RevisionsPast, BaselineIsStored, ProposalIsMerge,
      Synced, SyncedTask
<1> QED
  BY <1>6, <1>7, <1>8 DEF StoreIInv

-----------------------------------------------------------------------------
(* A commit takes nothing of a task from the others, if memory and         *)
(* baseline differ there only in what the process changed: the baseline    *)
(* was stored, or the merge is of what is stored.                          *)
LEMMA CommitKeepsOthers ==
    ASSUME StoreIInv, NEW p \in Procs, NEW t \in Tasks, SaveCommit(p),
           ~Deceived(p), SyncedTask(p, t)
    PROVE  KeepsOthers(p, t)
<1> SUFFICES ASSUME <<t, "task">> \notin touched[p]
             PROVE  /\ disk[t] = NoTask => disk'[t] = NoTask \/ IsOwnGhost(p, t)
                    /\ disk'[t] = NoTask => \/ disk[t] = NoTask
                                            \/ <<t, "life">> \in touched[p]
                                            \/ <<t, "git">> \in touched[p]
                    /\ disk[t] # NoTask /\ disk'[t] # NoTask =>
                          \A f \in Facts : <<t, f>> \notin touched[p] =>
                              disk'[t][f] = disk[t][f]
  BY DEF KeepsOthers
<1> DEFINE d == disk[t]
           m == mem[p][t]
           b == base[p][t]
           F == {f \in Facts : <<t, f>> \in touched[p]}
           c == Proposed(p)[t]
<1>1. /\ d \in TaskRecord \cup {NoTask} /\ m \in TaskRecord \cup {NoTask}
      /\ b \in TaskRecord \cup {NoTask}
  BY DEF StoreIInv, StoreTypeOK, Registry
<1>2. (m = NoTask) = (b = NoTask) /\ \A f \in Facts \ F : m[f] = b[f]
  BY DEF SyncedTask
<1>3. proposal[p].reg = Proposed(p)
  BY DEF SaveCommit, CommitAllowed, StoreIInv, InStep, ProposalIsMerge
<1>4. disk'[t] = IF IsGhost(c) THEN NoTask ELSE c
  BY <1>3 DEF SaveCommit, Written
<1>5. d = NoTask \/ ~IsGhost(d)
  BY DEF StoreIInv, NoStoredGhost
<1>6. F \in SUBSET Facts
  OBVIOUS
<1>7. \/ d = NoTask /\ c = NoTask
      \/ d = NoTask /\ IsGhost(b) /\ b # NoTask
      \/ d # NoTask /\ c # NoTask /\ \A f \in Facts \ F : c[f] = d[f]
  <2>1. CASE proposal[p].rev = rev[p]
    <3>1. c = m
      BY <2>1 DEF Proposed
    <3>2. disk = Written(base[p])
      BY <2>1
      DEF SaveCommit, CommitAllowed, Deceived, StoreIInv, InStep, BaselineIsStored
    <3>3. d = IF IsGhost(b) THEN NoTask ELSE b
      BY <3>2 DEF Written
    <3>4. IsGhost(NoTask)
      BY DEF IsGhost
    <3> HIDE DEF d, m, b, c, F
    <3>5. CASE IsGhost(b)
      BY <1>2, <3>1, <3>3, <3>5
    <3>6. CASE ~IsGhost(b)
      BY <1>2, <3>1, <3>3, <3>4, <3>6
    <3> QED
      BY <3>5, <3>6
  <2>2. CASE proposal[p].rev # rev[p]
    <3>1. c = MergeTask(d, m, b)
      BY <2>2 DEF Proposed, MergeRegistries
    <3> HIDE DEF d, m, b, c, F
    <3> QED
      BY <1>1, <1>2, <1>6, <3>1, MergeTaskKeeps
  <2> QED
    BY <2>1, <2>2
<1>8. /\ IsOwnGhost(p, t) = (b # NoTask /\ IsGhost(b))
      /\ \A f \in Facts : f \in F <=> <<t, f>> \in touched[p]
  BY DEF IsOwnGhost
<1>9. {"life", "git"} \subseteq Facts
  BY DEF Facts
<1> HIDE DEF d, m, b, c, F
<1>10. CASE d = NoTask
  <2>1. c = NoTask => IsGhost(c)
    BY DEF IsGhost
  <2> QED
    BY <1>4, <1>7, <1>8, <1>10, <2>1 DEF d
<1>11. CASE d # NoTask
  <2>1. c # NoTask /\ \A f \in Facts \ F : c[f] = d[f]
    BY <1>7, <1>11
  <2>2. "life" \notin F /\ "git" \notin F => (IsGhost(c) <=> IsGhost(d))
    BY <1>9, <1>11, <2>1 DEF IsGhost
  <2> QED
    BY <1>4, <1>5, <1>8, <1>9, <1>11, <2>1, <2>2 DEF d
<1> QED
  BY <1>10, <1>11

(* The last task leaves the database by an authorized save only.           *)
LEMMA CommitKeepsLast ==
    ASSUME StoreIInv, NEW p \in Procs, SaveCommit(p)
    PROVE  KeepsLast(p)
<1> SUFFICES ASSUME disk' = NoRegistry, disk # NoRegistry
             PROVE  emptyOk[p]
  BY DEF KeepsLast
<1>1. CASE Persistable(proposal[p].reg)
  <2>1. PICK t \in Tasks : ~IsGhost(proposal[p].reg[t])
    BY <1>1 DEF Persistable
  <2>2. disk'[t] = proposal[p].reg[t] /\ disk'[t] # NoTask
    BY <2>1 DEF SaveCommit, Written, IsGhost
  <2> QED
    BY <2>2 DEF NoRegistry
<1>2. CASE ~Persistable(proposal[p].reg)
  BY <1>2 DEF SaveCommit, CommitAllowed
<1> QED
  BY <1>1, <1>2

(* The database, its revision and every copy of it keep their types.       *)
THEOREM StoreTypeCorrect == StoreSpec => []StoreTypeOK
<1>1. StoreInit => StoreTypeOK
  BY StoreStart DEF StoreIInv
<1> QED
  BY <1>1, StoreTypeStep, PTL DEF StoreSpec

(* For any number of web hosts, commands and tasks, however loads, saves,  *)
(* merges and activity reports interleave, no save empties the registry by *)
(* accident, and none undoes what another process stored, but for the save *)
(* after a load whose tasks and revision are of different saves, and the   *)
(* save of a command after a merge it did not take over (the exceptions    *)
(* are in SavesKeepOthers; save_context_with_state, merge_registries,      *)
(* save_if_revision, record_activity).                                     *)
THEOREM StoreKeepsOthers == StoreSpec => SavesKeepOthers
<1>1. StoreInit => StoreIInv
  BY StoreStart
<1>2. StoreIInv /\ [StoreNext]_storeVars => StoreIInv'
  BY StoreStep
<1>3. StoreIInv =>
          [\A p \in Procs :
              SaveCommit(p) =>
                  /\ \A t \in Tasks :
                        ~Deceived(p) /\ (p \in Webs \/ SyncedTask(p, t))
                            => KeepsOthers(p, t)
                  /\ KeepsLast(p)]_storeVars
  BY CommitKeepsOthers, CommitKeepsLast DEF StoreIInv, InStep, Synced
<1> QED
  BY <1>1, <1>2, <1>3, PTL DEF StoreSpec, SavesKeepOthers

-----------------------------------------------------------------------------
(* TaskOperations.                                                         *)

(* A start and a repair have the steps of their plans left.                *)
StepsLeft ==
    /\ op.kind = "start" => /\ op.todo \in Seq({"worktree", "tmux", "agent"})
                            /\ op.ran => op.todo # <<>>
    /\ op.kind = "repair" => op.todo \in Seq({"worktree", "tmux"})

Kept(t) == t # NoRecord /\ ~IsGhostRow(t)

(* What the record in memory is while an operation runs: it would be       *)
(* stored, and where the operation can make a worktree it is stored.       *)
TaskInHand ==
    /\ op.kind = "start"  => /\ Kept(task)
                             /\ covered => op.save
                             /\ op.save => row # NoRecord
    /\ op.kind = "repair" => Kept(task) /\ (covered => row # NoRecord)
    /\ op.kind = "drop"   => task # NoRecord /\ task.life = "Removing"
    /\ op.kind = "saving" => (covered /\ "worktree" \in res => Kept(task))
    /\ op.kind = "idle"   => (covered /\ Kept(task) => row # NoRecord)

OpsIInv == OpsTypeOK /\ StepsLeft /\ TaskInHand /\ WorktreeHasRecord

-----------------------------------------------------------------------------
(* Operators. *)

(* A drop plan consists of its steps, and is empty when it has none.       *)
LEMMA InDropOrderSteps ==
    ASSUME NEW S \in SUBSET DropOp
    PROVE  /\ InDropOrder(S) \in Seq(DropOp)
           /\ InDropOrder(S) = <<>> => S = {}
<1> DEFINE step(o) == IF o \in S THEN <<o>> ELSE <<>>
<1>1. \A o \in DropOp : /\ step(o) \in Seq(DropOp)
                        /\ Len(step(o)) = IF o \in S THEN 1 ELSE 0
  OBVIOUS
<1>2. DropOp = {"agent", "worktree", "branch", "tmux"}
  BY DEF DropOp
<1>3. InDropOrder(S) = step("agent") \o step("worktree") \o step("branch")
                           \o step("tmux")
  BY DEF InDropOrder
<1> HIDE DEF step
<1>4. /\ InDropOrder(S) \in Seq(DropOp)
      /\ Len(InDropOrder(S)) = Len(step("agent")) + Len(step("worktree"))
                                   + Len(step("branch")) + Len(step("tmux"))
  BY <1>1, <1>2, <1>3
<1>5. InDropOrder(S) = <<>> => \A o \in DropOp : o \notin S
  <2> SUFFICES ASSUME Len(InDropOrder(S)) = 0
               PROVE  \A o \in DropOp : o \notin S
    OBVIOUS
  <2>1. /\ Len(step("agent")) \in Nat /\ Len(step("worktree")) \in Nat
        /\ Len(step("branch")) \in Nat /\ Len(step("tmux")) \in Nat
    BY <1>1, <1>2
  <2>3. 0 = Len(step("agent")) + Len(step("worktree"))
                   + Len(step("branch")) + Len(step("tmux"))
    BY <1>4
  <2>2. /\ Len(step("agent")) = 0 /\ Len(step("worktree")) = 0
        /\ Len(step("branch")) = 0 /\ Len(step("tmux")) = 0
    BY <2>1, <2>3
  <2> QED
    BY <1>1, <1>2, <2>2
<1> QED
  BY <1>4, <1>5

(* The evidence of an observation leaves the rest of a record alone.       *)
LEMMA EvidenceType ==
    ASSUME NEW t \in TaskRow, NEW obs
    PROVE  Evidence(obs, t) \in TaskRow
<1> DEFINE known(s, old) == IF s = "Unknown" THEN old ELSE s = "Present"
           git == IF obs.worktree = "Unknown" /\ obs.branch = "Unknown" THEN t.git
                  ELSE [known    |-> TRUE,
                        worktree |-> known(obs.worktree, t.git.worktree),
                        branch   |-> known(obs.branch, t.git.branch)]
<1>1. /\ t.life \in Lifecycle /\ t.skip \in BOOLEAN /\ t.agent \in BOOLEAN
      /\ t.session \in BOOLEAN /\ t.failed \in DropOp \cup {"none"}
      /\ t.git \in [known : BOOLEAN, worktree : BOOLEAN, branch : BOOLEAN]
  BY DEF TaskRow
<1>2. known(obs.tmux, t.session) \in BOOLEAN
  BY <1>1
<1>3. git \in [known : BOOLEAN, worktree : BOOLEAN, branch : BOOLEAN]
  BY <1>1
<1>4. Evidence(obs, t) = [[t EXCEPT !.session = known(obs.tmux, t.session)]
                              EXCEPT !.git = git]
  BY DEF Evidence, TaskRow
<1> HIDE DEF known, git
<1>5. [t EXCEPT !.session = known(obs.tmux, t.session)] \in TaskRow
  BY <1>2 DEF TaskRow
<1> QED
  BY <1>3, <1>4, <1>5 DEF TaskRow

(* One bound is spent.                                                     *)
Budget == [starts : 0..MaxStarts, faults : 0..MaxFaults,
           repairs : 0..MaxRepairs, events : 0..MaxEvents]

LEMMA SpendType ==
    ASSUME left \in Budget, NEW b \in {"starts", "faults", "repairs", "events"},
           Spend(b)
    PROVE  left' \in Budget
<1>1. MaxStarts \in Nat /\ MaxFaults \in Nat /\ MaxRepairs \in Nat
      /\ MaxEvents \in Nat
  BY OpsAssumption
<1>2. left[b] > 0 /\ left' = [left EXCEPT ![b] = left[b] - 1]
  BY DEF Spend
<1>3. CASE b = "starts"
  BY <1>1, <1>2, <1>3 DEF Budget
<1>4. CASE b = "faults"
  BY <1>1, <1>2, <1>4 DEF Budget
<1>5. CASE b = "repairs"
  BY <1>1, <1>2, <1>5 DEF Budget
<1>6. CASE b = "events"
  BY <1>1, <1>2, <1>6 DEF Budget
<1> QED
  BY <1>3, <1>4, <1>5, <1>6

OpState == [kind : {"idle", "start", "repair", "drop", "saving"},
            todo : Seq(DropOp), ran : BOOLEAN, save : BOOLEAN]

(* The operation ends.                                                     *)
LEMMA EndsType ==
    ASSUME Ends
    PROVE  op' \in OpState /\ op'.kind = "saving"
<1>1. op' = [kind |-> "saving", todo |-> <<>>, ran |-> FALSE, save |-> FALSE]
  BY DEF Ends, Idle
<1> QED
  BY <1>1 DEF OpState

LEMMA NoRecordIsNone == NoRecord \notin TaskRow /\ \A t \in TaskRow : t # NoRecord
<1>1. NoRecord.life = "none" /\ \A t \in TaskRow : t.life # "none"
  BY DEF NoRecord, TaskRow, Lifecycle
<1> QED
  BY <1>1

-----------------------------------------------------------------------------
(* The steps of each operation. *)

LEMMA StartStep ==
    ASSUME OpsIInv,
           \/ StartTask \/ StartCommand \/ StartMarked \/ StartFails \/ StartOpened
    PROVE  OpsIInv'
<1>0. /\ res \subseteq Resource /\ row \in TaskRow \cup {NoRecord}
      /\ task \in TaskRow \cup {NoRecord} /\ receipts \subseteq DropOp
      /\ op \in OpState /\ covered \in BOOLEAN /\ left \in Budget
  BY DEF OpsIInv, OpsTypeOK, OpState, Budget
<1>1. CASE StartTask
  <2>1. PICK skip \in BOOLEAN, save \in StartModes :
            /\ Spend("starts")
            /\ "worktree" \notin res
            /\ task' = [life |-> "Provisioning", skip |-> skip, git |-> NoGit,
                        session |-> FALSE, agent |-> FALSE, failed |-> "none"]
            /\ op' = [kind |-> "start", todo |-> StartSteps(skip), ran |-> FALSE,
                      save |-> save]
            /\ Checkpoint(task')
            /\ covered' = save
            /\ UNCHANGED <<res, receipts>>
    BY <1>1 DEF StartTask
  <2>2. task' \in TaskRow /\ ~IsGhostRow(task')
    BY <2>1 DEF TaskRow, Lifecycle, NoGit, IsGhostRow
  <2>3. save \in BOOLEAN
    BY OpsAssumption
  <2>4. StartSteps(skip) \in Seq({"worktree", "tmux", "agent"})
        /\ StartSteps(skip) \in Seq(DropOp)
    <3>1. /\ <<"worktree", "agent">> \in Seq({"worktree", "tmux", "agent"})
          /\ <<"worktree", "tmux", "agent">> \in Seq({"worktree", "tmux", "agent"})
          /\ <<"worktree", "agent">> \in Seq(DropOp)
          /\ <<"worktree", "tmux", "agent">> \in Seq(DropOp)
      BY DEF DropOp
    <3> QED
      BY <3>1 DEF StartSteps
  <2>5. op' \in OpState /\ op'.kind = "start" /\ op'.save = save /\ op'.ran = FALSE
        /\ op'.todo = StartSteps(skip)
    BY <2>1, <2>3, <2>4 DEF OpState
  <2>6. row' = IF save THEN task' ELSE row
    BY <2>1, <2>2, <2>5 DEF Checkpoint, Stored
  <2>7. left' \in Budget
    BY <1>0, <2>1, SpendType
  <2>8. OpsTypeOK'
    BY <1>0, <2>1, <2>2, <2>3, <2>5, <2>6, <2>7 DEF OpsTypeOK, OpState, Budget
  <2>9. StepsLeft' /\ TaskInHand' /\ WorktreeHasRecord'
    BY <2>1, <2>2, <2>4, <2>5, <2>6, NoRecordIsNone
    DEF StepsLeft, TaskInHand, WorktreeHasRecord, Kept
  <2> QED
    BY <2>8, <2>9 DEF OpsIInv
<1>2. CASE StartCommand
  <2>1. Head(op.todo) \in {"worktree", "tmux", "agent"}
    BY <1>2 DEF StartCommand, OpsIInv, StepsLeft
  <2>2. /\ res' = res \cup CASE Head(op.todo) = "worktree" -> {"worktree", "local"}
                              [] Head(op.todo) = "tmux"     -> {"tmux"}
                              [] Head(op.todo) = "agent"    -> {}
        /\ op' = [op EXCEPT !.ran = TRUE]
        /\ UNCHANGED <<row, task, receipts, covered, left>>
        /\ op.kind = "start" /\ op.todo # <<>>
    BY <1>2 DEF StartCommand
  <2>3. res' \subseteq Resource
    BY <1>0, <2>1, <2>2 DEF Resource
  <2>4. op' \in OpState /\ op'.kind = "start" /\ op'.todo = op.todo
        /\ op'.save = op.save
    BY <1>0, <2>2 DEF OpState
  <2>5. OpsTypeOK'
    BY <1>0, <2>2, <2>3, <2>4 DEF OpsTypeOK, OpState, Budget
  <2>6. StepsLeft' /\ TaskInHand' /\ WorktreeHasRecord'
    BY <2>2, <2>4
    DEF OpsIInv, StepsLeft, TaskInHand, WorktreeHasRecord, Kept
  <2> QED
    BY <2>5, <2>6 DEF OpsIInv
<1>3. CASE StartMarked
  <2>1. op.kind = "start" /\ op.ran /\ op.todo # <<>> /\ Kept(task)
        /\ op.todo \in Seq({"worktree", "tmux", "agent"}) /\ task \in TaskRow
        /\ (covered => op.save) /\ (op.save => row # NoRecord)
    BY <1>0, <1>3 DEF StartMarked, OpsIInv, StepsLeft, TaskInHand, Kept
  <2>2. Head(op.todo) \in {"worktree", "tmux", "agent"}
        /\ Tail(op.todo) \in Seq({"worktree", "tmux", "agent"})
        /\ Tail(op.todo) \in Seq(DropOp)
    BY <2>1 DEF DropOp
  <2>3. task' \in TaskRow /\ ~IsGhostRow(task')
    <3>1. CASE Head(op.todo) = "worktree"
      <4>1. task' = [task EXCEPT !.git = [known |-> TRUE, worktree |-> TRUE,
                                          branch |-> TRUE]]
        BY <1>3, <3>1 DEF StartMarked
      <4> QED
        BY <2>1, <4>1 DEF TaskRow, IsGhostRow
    <3>2. CASE Head(op.todo) = "tmux"
      <4>1. task' = [task EXCEPT !.session = TRUE]
        BY <1>3, <3>2 DEF StartMarked
      <4>2. task' \in TaskRow /\ task'.life = task.life /\ task'.git = task.git
        BY <2>1, <4>1 DEF TaskRow
      <4> QED
        BY <2>1, <4>2 DEF IsGhostRow, Kept
    <3>3. CASE Head(op.todo) = "agent"
      <4>1. task' = [[task EXCEPT !.life = "Active"] EXCEPT !.agent = ~task.skip]
        BY <1>3, <2>1, <3>3 DEF StartMarked, TaskRow
      <4>2. task' \in TaskRow /\ task'.life = "Active"
        BY <2>1, <4>1 DEF TaskRow, Lifecycle
      <4> QED
        BY <4>2 DEF IsGhostRow
    <3> QED
      BY <2>2, <3>1, <3>2, <3>3
  <2>4. op' = [kind |-> "start", todo |-> Tail(op.todo), ran |-> FALSE,
               save |-> op.save]
    BY <1>0, <1>3, <2>1 DEF StartMarked, OpState
  <2>5. row' = IF op.save THEN task' ELSE row
    <3>1. op'.save = op.save /\ Stored(task') = task'
      BY <2>3, <2>4 DEF Stored
    <3>2. row' = IF op'.save THEN Stored(task') ELSE row
      BY <1>3 DEF StartMarked, Checkpoint
    <3> QED
      BY <3>1, <3>2
  <2>6. UNCHANGED <<res, receipts, covered, left>>
    BY <1>3 DEF StartMarked
  <2>7. OpsTypeOK'
    BY <1>0, <2>2, <2>3, <2>4, <2>5, <2>6 DEF OpsTypeOK, OpState, Budget
  <2>8. StepsLeft' /\ TaskInHand' /\ WorktreeHasRecord'
    BY <2>1, <2>2, <2>3, <2>4, <2>5, <2>6, NoRecordIsNone
    DEF OpsIInv, StepsLeft, TaskInHand, WorktreeHasRecord, Kept
  <2> QED
    BY <2>7, <2>8 DEF OpsIInv
<1>4. CASE StartFails \/ StartOpened
  <2>1. /\ op.kind = "start" /\ Kept(task) /\ Ends
        /\ task' = [task EXCEPT !.life = "Error"] \/ task' = task
        /\ UNCHANGED <<res, row, receipts, covered>>
    BY <1>4 DEF StartFails, StartOpened, OpsIInv, TaskInHand
  <2>2. task' \in TaskRow /\ ~IsGhostRow(task')
    <3>1. task \in TaskRow
      BY <1>0, <2>1 DEF Kept
    <3>2. CASE task' = [task EXCEPT !.life = "Error"]
      BY <3>1, <3>2 DEF TaskRow, Lifecycle, IsGhostRow
    <3> QED
      BY <2>1, <3>1, <3>2 DEF Kept
  <2>3. left' \in Budget
    BY <1>0, <1>4, SpendType DEF StartFails, StartOpened
  <2>4. OpsTypeOK'
    BY <1>0, <2>1, <2>2, <2>3, EndsType DEF OpsTypeOK, OpState, Budget
  <2>5. StepsLeft' /\ TaskInHand' /\ WorktreeHasRecord'
    BY <2>1, <2>2, EndsType, NoRecordIsNone
    DEF OpsIInv, StepsLeft, TaskInHand, WorktreeHasRecord, Kept
  <2> QED
    BY <2>4, <2>5 DEF OpsIInv
<1> QED
  BY <1>1, <1>2, <1>3, <1>4

(* Refresh, recovery of a task, a check and a ship all end with a record    *)
(* that is kept where there is a worktree.                                 *)
LEMMA IdleStep ==
    ASSUME OpsIInv, Refresh \/ Recover \/ Check \/ Ship
    PROVE  OpsIInv'
<1>0. /\ res \subseteq Resource /\ row \in TaskRow \cup {NoRecord}
      /\ task \in TaskRow \cup {NoRecord} /\ receipts \subseteq DropOp
      /\ op \in OpState /\ covered \in BOOLEAN /\ left \in Budget
      /\ op.kind = "idle" /\ WorktreeHasRecord
  BY DEF OpsIInv, OpsTypeOK, OpState, Budget, Refresh, Recover, Check, Ship
<1>1. Ends /\ UNCHANGED <<res, row, covered, left>> /\ receipts' \subseteq DropOp
  BY <1>0 DEF Refresh, Recover, Check, Ship
<1>2. task' \in TaskRow /\ ("worktree" \in res => ~IsGhostRow(task'))
  <2>1. CASE Refresh
    <3>1. task \in TaskRow /\ task' = Refreshed(task)
      BY <1>0, <2>1 DEF Refresh
    <3> DEFINE git == IF task.git.known
                      THEN [known |-> TRUE, worktree |-> "worktree" \in res,
                            branch |-> "local" \in res]
                      ELSE task.git
    <3>2. git \in [known : BOOLEAN, worktree : BOOLEAN, branch : BOOLEAN]
          /\ ("worktree" \in res /\ git.known => git.worktree)
      <4>1. task.git \in [known : BOOLEAN, worktree : BOOLEAN, branch : BOOLEAN]
        BY <3>1 DEF TaskRow
      <4> QED
        BY <4>1
    <3>3. task' = [life |-> task.life, skip |-> task.skip, git |-> git,
                   session |-> "tmux" \in res,
                   agent |-> task.agent /\ "tmux" \in res,
                   failed |-> task.failed]
      BY <3>1 DEF Refreshed, TaskRow
    <3> HIDE DEF git
    <3>4. task' \in TaskRow /\ task'.git = git
      BY <3>1, <3>2, <3>3 DEF TaskRow
    <3> QED
      BY <3>2, <3>4 DEF IsGhostRow
  <2>2. CASE Recover
    <3>1. task' = [life |-> "Active", skip |-> FALSE,
                   git |-> [known |-> TRUE, worktree |-> TRUE, branch |-> TRUE],
                   session |-> "tmux" \in res, agent |-> FALSE,
                   failed |-> "none"]
      BY <2>2 DEF Recover
    <3> QED
      BY <3>1 DEF TaskRow, Lifecycle, IsGhostRow
  <2>3. CASE Check \/ Ship
    <3>1. PICK life \in {"Reviewable", "Merged"} : task' = [task EXCEPT !.life = life]
      BY <2>3 DEF Check, Ship
    <3>2. task \in TaskRow
      BY <1>0, <2>3 DEF Check, Ship
    <3> QED
      BY <3>1, <3>2 DEF TaskRow, Lifecycle, IsGhostRow
  <2> QED
    BY <2>1, <2>2, <2>3
<1>3. OpsTypeOK'
  BY <1>0, <1>1, <1>2, EndsType DEF OpsTypeOK, OpState, Budget
<1>4. StepsLeft' /\ TaskInHand' /\ WorktreeHasRecord'
  BY <1>0, <1>1, <1>2, EndsType, NoRecordIsNone
  DEF StepsLeft, TaskInHand, WorktreeHasRecord, Kept
<1> QED
  BY <1>3, <1>4 DEF OpsIInv

(* A repair only starts on a record that is kept, and so stored.            *)
LEMMA RepairStep ==
    ASSUME OpsIInv, Repair \/ RepairCommand \/ Repaired \/ RepairFails
    PROVE  OpsIInv'
<1>0. /\ res \subseteq Resource /\ row \in TaskRow \cup {NoRecord}
      /\ task \in TaskRow \cup {NoRecord} /\ receipts \subseteq DropOp
      /\ op \in OpState /\ covered \in BOOLEAN /\ left \in Budget
  BY DEF OpsIInv, OpsTypeOK, OpState, Budget
<1>1. CASE Repair
  <2>1. /\ op.kind = "idle" /\ task # NoRecord
        /\ task.git.known => task.git.worktree \/ task.git.branch
        /\ Spend("repairs")
        /\ op' = [Idle EXCEPT !.kind = "repair", !.todo = RepairSteps(task)]
        /\ UNCHANGED <<res, row, task, receipts, covered>>
    BY <1>1 DEF Repair
  <2>2. Kept(task)
    BY <2>1 DEF Kept, IsGhostRow
  <2>3. covered => row # NoRecord
    BY <2>1, <2>2 DEF OpsIInv, TaskInHand
  <2>4. RepairSteps(task) \in Seq({"worktree", "tmux"})
        /\ RepairSteps(task) \in Seq(DropOp)
    <3> DEFINE first == IF task.git.known /\ ~task.git.worktree
                        THEN <<"worktree">> ELSE <<>>
               second == IF task.session THEN <<>> ELSE <<"tmux">>
    <3>0. /\ <<>> \in Seq({"worktree", "tmux"}) /\ <<>> \in Seq(DropOp)
          /\ <<"worktree">> \in Seq({"worktree", "tmux"})
          /\ <<"worktree">> \in Seq(DropOp)
          /\ <<"tmux">> \in Seq({"worktree", "tmux"})
          /\ <<"tmux">> \in Seq(DropOp)
      BY DEF DropOp
    <3>1. /\ first \in Seq({"worktree", "tmux"}) /\ first \in Seq(DropOp)
          /\ second \in Seq({"worktree", "tmux"}) /\ second \in Seq(DropOp)
      BY <3>0
    <3>2. RepairSteps(task) = first \o second
      BY DEF RepairSteps
    <3> HIDE DEF first, second
    <3> QED
      BY <3>1, <3>2
  <2>5. op' \in OpState /\ op'.kind = "repair" /\ op'.todo = RepairSteps(task)
    <3>1. op' = [kind |-> "repair", todo |-> RepairSteps(task), ran |-> FALSE,
                 save |-> FALSE]
      BY <2>1 DEF Idle
    <3> QED
      BY <2>4, <3>1 DEF OpState
  <2>6. left' \in Budget
    BY <1>0, <2>1, SpendType
  <2>7. OpsTypeOK'
    BY <1>0, <2>1, <2>4, <2>5, <2>6 DEF OpsTypeOK, OpState, Budget
  <2>8. StepsLeft' /\ TaskInHand' /\ WorktreeHasRecord'
    BY <2>1, <2>2, <2>3, <2>4, <2>5
    DEF OpsIInv, StepsLeft, TaskInHand, WorktreeHasRecord, Kept
  <2> QED
    BY <2>7, <2>8 DEF OpsIInv
<1>2. CASE RepairCommand
  <2>1. /\ op.kind = "repair" /\ op.todo # <<>>
        /\ res' = res \cup {Head(op.todo)}
        /\ op' = [op EXCEPT !.todo = Tail(@)]
        /\ UNCHANGED <<row, task, receipts, covered, left>>
        /\ op.todo \in Seq({"worktree", "tmux"})
        /\ Kept(task) /\ (covered => row # NoRecord)
    BY <1>2 DEF RepairCommand, OpsIInv, StepsLeft, TaskInHand
  <2>2. Head(op.todo) \in {"worktree", "tmux"}
        /\ Tail(op.todo) \in Seq({"worktree", "tmux"})
        /\ Tail(op.todo) \in Seq(DropOp)
    BY <2>1 DEF DropOp
  <2>3. res' \subseteq Resource
    BY <1>0, <2>1, <2>2 DEF Resource
  <2>4. op' \in OpState /\ op'.kind = "repair" /\ op'.todo = Tail(op.todo)
    BY <1>0, <2>1, <2>2 DEF OpState
  <2>5. OpsTypeOK'
    BY <1>0, <2>1, <2>3, <2>4 DEF OpsTypeOK, OpState, Budget
  <2>6. StepsLeft' /\ TaskInHand' /\ WorktreeHasRecord'
    BY <2>1, <2>2, <2>4
    DEF OpsIInv, StepsLeft, TaskInHand, WorktreeHasRecord, Kept
  <2> QED
    BY <2>5, <2>6 DEF OpsIInv
<1>3. CASE Repaired \/ RepairFails
  <2>1. /\ op.kind = "repair" /\ Kept(task) /\ Ends
        /\ covered => row # NoRecord
        /\ UNCHANGED <<res, row, receipts, covered>>
        /\ task \in TaskRow
    BY <1>0, <1>3 DEF Repaired, RepairFails, OpsIInv, TaskInHand, Kept
  <2>2. task' \in TaskRow /\ ~IsGhostRow(task')
    <3>1. CASE Repaired
      <4> DEFINE git == [task.git EXCEPT !.worktree = task.git.known]
                 life == IF task.life = "Active" THEN "Reviewable" ELSE task.life
      <4>1. task' = [life |-> life, skip |-> task.skip, git |-> git,
                     session |-> TRUE, agent |-> task.agent,
                     failed |-> task.failed]
        BY <2>1, <3>1 DEF Repaired, TaskRow
      <4>2. task.git \in [known : BOOLEAN, worktree : BOOLEAN, branch : BOOLEAN]
            /\ task.life \in Lifecycle
        BY <2>1 DEF TaskRow
      <4>3. git \in [known : BOOLEAN, worktree : BOOLEAN, branch : BOOLEAN]
            /\ git.worktree = git.known /\ life \in Lifecycle
        BY <4>2 DEF Lifecycle
      <4> HIDE DEF git, life
      <4>4. task' \in TaskRow /\ task'.git = git
        BY <2>1, <4>1, <4>3 DEF TaskRow
      <4> QED
        BY <4>3, <4>4 DEF IsGhostRow
    <3>2. CASE RepairFails
      BY <2>1, <3>2 DEF RepairFails, Kept
    <3> QED
      BY <1>3, <3>1, <3>2
  <2>3. left' \in Budget
    BY <1>0, <1>3, SpendType DEF Repaired, RepairFails
  <2>4. OpsTypeOK'
    BY <1>0, <2>1, <2>2, <2>3, EndsType DEF OpsTypeOK, OpState, Budget
  <2>5. StepsLeft' /\ TaskInHand' /\ WorktreeHasRecord'
    BY <2>1, <2>2, EndsType, NoRecordIsNone
    DEF OpsIInv, StepsLeft, TaskInHand, WorktreeHasRecord, Kept
  <2> QED
    BY <2>4, <2>5 DEF OpsIInv
<1> QED
  BY <1>1, <1>2, <1>3

(* The observation of a resource that is there is never "Absent".          *)
LEMMA AbsentIsGone ==
    ASSUME NEW silent, NEW t
    PROVE  /\ Observe(res, silent, t).worktree = "Absent" => "worktree" \notin res
           /\ Observe(res, silent, t).tmux = "Absent" => "tmux" \notin res
  BY DEF Observe, Seen

(* A drop has nothing left to do only when the worktree and the session    *)
(* are gone.                                                               *)
LEMMA CompletedIsGone ==
    ASSUME NEW silent, NEW t, Completed(Observe(res, silent, t))
    PROVE  "worktree" \notin res /\ "tmux" \notin res
<1> DEFINE obs == Observe(res, silent, t)
           S   == {o \in DropOp : obs[o] # "Absent"}
<1>1. InDropOrder(S) = <<>> /\ S \in SUBSET DropOp
  BY DEF Completed, Incomplete
<1>2. S = {}
  BY <1>1, InDropOrderSteps
<1>3. obs["worktree"] = "Absent" /\ obs["tmux"] = "Absent"
  BY <1>2 DEF DropOp
<1> QED
  BY <1>3, AbsentIsGone

(* What a drop finds undone is one of its steps.                           *)
LEMMA IncompleteStep ==
    ASSUME NEW obs, ~Completed(obs)
    PROVE  Head(Incomplete(obs)) \in DropOp
<1> DEFINE S == {o \in DropOp : obs[o] # "Absent"}
<1>1. S \in SUBSET DropOp /\ Incomplete(obs) = InDropOrder(S)
  BY DEF Incomplete
<1>2. Incomplete(obs) \in Seq(DropOp) /\ Incomplete(obs) # <<>>
  BY <1>1, InDropOrderSteps DEF Completed
<1> QED
  BY <1>2

LEMMA TornDownType ==
    ASSUME NEW t \in TaskRow, NEW obs, NEW o \in DropOp
    PROVE  TornDown(o, obs, t) \in TaskRow /\ ~IsGhostRow(TornDown(o, obs, t))
<1>1. Evidence(obs, t) \in TaskRow
  BY EvidenceType
<1>2. TornDown(o, obs, t) = [[Evidence(obs, t) EXCEPT !.life = "TeardownIncomplete"]
                                 EXCEPT !.failed = o]
  BY <1>1 DEF TornDown, TaskRow
<1>3. [Evidence(obs, t) EXCEPT !.life = "TeardownIncomplete"] \in TaskRow
  BY <1>1 DEF TaskRow, Lifecycle
<1>4. TornDown(o, obs, t) \in TaskRow
      /\ TornDown(o, obs, t).life = "TeardownIncomplete"
  BY <1>2, <1>3, <1>1 DEF TaskRow
<1> QED
  BY <1>4 DEF IsGhostRow

LEMMA StepRecordedType ==
    ASSUME NEW t \in TaskRow, NEW o \in DropOp
    PROVE  StepRecorded(o, t) \in TaskRow /\ StepRecorded(o, t).life = t.life
<1>1. CASE o = "agent"
  BY <1>1 DEF StepRecorded, TaskRow
<1>2. CASE o = "worktree"
  <2>1. StepRecorded(o, t) = [t EXCEPT !.git = [t.git EXCEPT !.worktree = FALSE]]
    BY <1>2 DEF StepRecorded
  <2>2. [t.git EXCEPT !.worktree = FALSE]
            \in [known : BOOLEAN, worktree : BOOLEAN, branch : BOOLEAN]
    BY DEF TaskRow
  <2> QED
    BY <2>1, <2>2 DEF TaskRow
<1>3. CASE o = "branch"
  <2>1. StepRecorded(o, t) = [t EXCEPT !.git = [t.git EXCEPT !.branch = FALSE]]
    BY <1>3 DEF StepRecorded
  <2>2. [t.git EXCEPT !.branch = FALSE]
            \in [known : BOOLEAN, worktree : BOOLEAN, branch : BOOLEAN]
    BY DEF TaskRow
  <2> QED
    BY <2>1, <2>2 DEF TaskRow
<1>4. CASE o = "tmux"
  BY <1>4 DEF StepRecorded, TaskRow
<1> QED
  BY <1>1, <1>2, <1>3, <1>4 DEF DropOp

(* A drop that is over leaves a record, unless it saw the worktree gone.   *)
LEMMA DropStepsKeep ==
    ASSUME OpsIInv,
           DropBegin \/ DropStep \/ DropStepFails \/ DropStepLost \/ DropFinish
    PROVE  OpsIInv'
<1>0. /\ res \subseteq Resource /\ row \in TaskRow \cup {NoRecord}
      /\ task \in TaskRow \cup {NoRecord} /\ receipts \subseteq DropOp
      /\ op \in OpState /\ covered \in BOOLEAN /\ left \in Budget
      /\ WorktreeHasRecord
      /\ op.kind = "drop" => task \in TaskRow /\ task.life = "Removing"
      /\ op.todo \in Seq(DropOp)
  BY DEF OpsIInv, OpsTypeOK, OpState, Budget, TaskInHand
<1>1. CASE DropBegin
  <2>1. PICK silent \in SUBSET Resource :
            /\ op.kind = "idle" /\ task # NoRecord
            /\ Silence(silent)
            /\ task' = [Evidence(Observe(res, silent, task), task)
                            EXCEPT !.life = "Removing"]
            /\ receipts' = receipts \cup
                   {o \in DropOp \ {"agent"} :
                        Observe(res, silent, task)[o] = "Absent"}
            /\ op' = [Idle EXCEPT !.kind = "drop",
                         !.todo = PlannedOps(Observe(res, silent, task), task,
                                             receipts')]
            /\ UNCHANGED <<res, row, covered>>
    BY <1>1 DEF DropBegin
  <2>2. task' \in TaskRow /\ task'.life = "Removing"
    <3>1. Evidence(Observe(res, silent, task), task) \in TaskRow
      BY <1>0, <2>1, EvidenceType
    <3> QED
      BY <2>1, <3>1 DEF TaskRow, Lifecycle
  <2>3. op' \in OpState /\ op'.kind = "drop"
    <3> DEFINE todo == PlannedOps(Observe(res, silent, task), task, receipts')
    <3>1. todo \in Seq(DropOp)
      BY InDropOrderSteps DEF PlannedOps
    <3>2. op' = [kind |-> "drop", todo |-> todo, ran |-> FALSE, save |-> FALSE]
      BY <2>1 DEF Idle
    <3> HIDE DEF todo
    <3> QED
      BY <3>1, <3>2 DEF OpState
  <2>4. receipts' \subseteq DropOp
    BY <1>0, <2>1
  <2>5. left' \in Budget
    BY <1>0, <2>1, SpendType DEF Silence
  <2>6. OpsTypeOK'
    BY <1>0, <2>1, <2>2, <2>3, <2>4, <2>5 DEF OpsTypeOK, OpState, Budget
  <2>7. StepsLeft' /\ TaskInHand' /\ WorktreeHasRecord'
    BY <1>0, <2>1, <2>2, <2>3, NoRecordIsNone
    DEF StepsLeft, TaskInHand, WorktreeHasRecord
  <2> QED
    BY <2>6, <2>7 DEF OpsIInv
<1>2. CASE DropStep
  <2>1. /\ op.kind = "drop" /\ op.todo # <<>>
        /\ res' = res \ Removed(Head(op.todo))
        /\ task' = StepRecorded(Head(op.todo), task)
        /\ receipts' = receipts \cup {Head(op.todo)}
        /\ op' = [op EXCEPT !.todo = Tail(@)]
        /\ UNCHANGED <<row, covered, left>>
    BY <1>2 DEF DropStep
  <2>2. Head(op.todo) \in DropOp /\ Tail(op.todo) \in Seq(DropOp)
    BY <1>0, <2>1
  <2>3. task' \in TaskRow /\ task'.life = "Removing"
    BY <1>0, <2>1, <2>2, StepRecordedType
  <2>4. op' \in OpState /\ op'.kind = "drop"
    BY <1>0, <2>1, <2>2 DEF OpState
  <2>5. res' \subseteq res
    BY <2>1
  <2>6. OpsTypeOK'
    BY <1>0, <2>1, <2>2, <2>3, <2>4, <2>5 DEF OpsTypeOK, OpState, Budget
  <2>7. StepsLeft' /\ TaskInHand' /\ WorktreeHasRecord'
    BY <1>0, <2>1, <2>3, <2>4, <2>5, NoRecordIsNone
    DEF StepsLeft, TaskInHand, WorktreeHasRecord
  <2> QED
    BY <2>6, <2>7 DEF OpsIInv
<1>3. CASE DropStepFails \/ DropStepLost
  <2>1. /\ op.kind = "drop" /\ op.todo # <<>> /\ Ends
        /\ res' \subseteq res
        /\ UNCHANGED <<row, receipts, covered>>
        /\ left' = left \/ Spend("faults")
        /\ \/ task' = task
           \/ \E obs : task' = TornDown(Head(op.todo), obs, task)
    BY <1>3 DEF DropStepFails, DropStepLost
  <2>2. Head(op.todo) \in DropOp /\ task \in TaskRow /\ task.life = "Removing"
    BY <1>0, <2>1
  <2>3. task' \in TaskRow /\ ~IsGhostRow(task')
    BY <2>1, <2>2, TornDownType DEF IsGhostRow
  <2>4. left' \in Budget
    BY <1>0, <2>1, SpendType
  <2>5. OpsTypeOK'
    BY <1>0, <2>1, <2>3, <2>4, EndsType DEF OpsTypeOK, OpState, Budget
  <2>6. StepsLeft' /\ TaskInHand' /\ WorktreeHasRecord'
    BY <1>0, <2>1, <2>3, EndsType, NoRecordIsNone
    DEF StepsLeft, TaskInHand, WorktreeHasRecord, Kept
  <2> QED
    BY <2>5, <2>6 DEF OpsIInv
<1>4. CASE DropFinish
  <2>1. PICK silent \in SUBSET Resource :
            /\ op.kind = "drop" /\ Silence(silent) /\ Ends
            /\ IF Completed(Observe(res, silent, task))
               THEN task' = NoRecord /\ receipts' = {}
               ELSE /\ task' = TornDown(Head(Incomplete(Observe(res, silent, task))),
                                        Observe(res, silent, task), task)
                    /\ UNCHANGED receipts
            /\ UNCHANGED <<res, row, covered>>
    BY <1>4 DEF DropFinish
  <2>2. \/ task' = NoRecord /\ "worktree" \notin res
        \/ task' \in TaskRow /\ ~IsGhostRow(task')
    BY <1>0, <2>1, CompletedIsGone, IncompleteStep, TornDownType
  <2>3. left' \in Budget /\ receipts' \subseteq DropOp
    BY <1>0, <2>1, SpendType DEF Silence
  <2>4. OpsTypeOK'
    BY <1>0, <2>1, <2>2, <2>3, EndsType DEF OpsTypeOK, OpState, Budget
  <2>5. StepsLeft' /\ TaskInHand' /\ WorktreeHasRecord'
    BY <1>0, <2>1, <2>2, EndsType, NoRecordIsNone
    DEF StepsLeft, TaskInHand, WorktreeHasRecord, Kept
  <2> QED
    BY <2>4, <2>5 DEF OpsIInv
<1> QED
  BY <1>1, <1>2, <1>3, <1>4

(* A save, a load or a crash, and what happens outside.                    *)
LEMMA RestStep ==
    ASSUME OpsIInv, SaveRow \/ ProcessDies \/ Reload \/ Outside
    PROVE  OpsIInv'
<1>0. /\ res \subseteq Resource /\ row \in TaskRow \cup {NoRecord}
      /\ task \in TaskRow \cup {NoRecord} /\ receipts \subseteq DropOp
      /\ op \in OpState /\ covered \in BOOLEAN /\ left \in Budget
      /\ WorktreeHasRecord
  BY DEF OpsIInv, OpsTypeOK, OpState, Budget
<1>1. Idle \in OpState /\ Idle.kind = "idle"
  <2>1. <<>> \in Seq(DropOp)
    OBVIOUS
  <2> QED
    BY <2>1 DEF Idle, OpState
<1>2. CASE SaveRow
  <2>1. /\ op.kind = "saving" /\ row' = Stored(task) /\ op' = Idle
        /\ UNCHANGED <<res, task, receipts, covered, left>>
    BY <1>2 DEF SaveRow
  <2>2. row' \in TaskRow \cup {NoRecord} /\ (Kept(task) => row' = task)
    BY <1>0, <2>1 DEF Stored, Kept
  <2>3. OpsTypeOK'
    BY <1>0, <1>1, <2>1, <2>2 DEF OpsTypeOK, OpState, Budget
  <2>4. StepsLeft' /\ TaskInHand' /\ WorktreeHasRecord'
    <3>1. covered /\ "worktree" \in res => Kept(task)
      BY <2>1 DEF OpsIInv, TaskInHand
    <3> QED
      BY <1>1, <2>1, <2>2, <3>1
      DEF StepsLeft, TaskInHand, WorktreeHasRecord, Kept
  <2> QED
    BY <2>3, <2>4 DEF OpsIInv
<1>3. CASE ProcessDies \/ Reload
  <2>1. /\ task' = row /\ receipts' = {} /\ op' = Idle
        /\ UNCHANGED <<res, row, covered>>
    BY <1>3 DEF ProcessDies, Reload, Loaded
  <2>2. left' \in Budget
    BY <1>0, <1>3, SpendType DEF ProcessDies, Reload
  <2>3. OpsTypeOK'
    BY <1>0, <1>1, <2>1, <2>2 DEF OpsTypeOK, OpState, Budget
  <2>4. StepsLeft' /\ TaskInHand' /\ WorktreeHasRecord'
    BY <1>0, <1>1, <2>1 DEF StepsLeft, TaskInHand, WorktreeHasRecord, Kept
  <2> QED
    BY <2>3, <2>4 DEF OpsIInv
<1>4. CASE Outside
  <2>1. /\ res' \subseteq Resource
        /\ "worktree" \in res' => "worktree" \in res
        /\ UNCHANGED <<row, task, receipts, op, covered>>
    BY <1>0, <1>4 DEF Outside, Push, RemoveByHand, Resource
  <2>2. left' \in Budget
    BY <1>0, <1>4, SpendType DEF Outside
  <2>3. OpsTypeOK'
    BY <1>0, <2>1, <2>2 DEF OpsTypeOK, OpState, Budget
  <2>4. StepsLeft' /\ TaskInHand' /\ WorktreeHasRecord'
    BY <2>1 DEF OpsIInv, StepsLeft, TaskInHand, WorktreeHasRecord, Kept
  <2> QED
    BY <2>3, <2>4 DEF OpsIInv
<1> QED
  BY <1>2, <1>3, <1>4

-----------------------------------------------------------------------------
LEMMA OpsStart == OpsInit => OpsIInv
<1> SUFFICES ASSUME OpsInit PROVE OpsIInv
  OBVIOUS
<1>1. op \in OpState /\ op.kind = "idle"
  <2>1. <<>> \in Seq(DropOp)
    OBVIOUS
  <2> QED
    BY <2>1 DEF OpsInit, Idle, OpState
<1>2. left \in Budget
  BY OpsAssumption DEF OpsInit, Budget
<1>3. OpsTypeOK
  BY <1>1, <1>2 DEF OpsInit, OpsTypeOK, OpState, Budget
<1>4. StepsLeft /\ TaskInHand /\ WorktreeHasRecord
  BY <1>1 DEF OpsInit, StepsLeft, TaskInHand, WorktreeHasRecord, Kept
<1> QED
  BY <1>3, <1>4 DEF OpsIInv

LEMMA OpsStep == OpsIInv /\ [OpsNext]_opsVars => OpsIInv'
<1> SUFFICES ASSUME OpsIInv, [OpsNext]_opsVars PROVE OpsIInv'
  OBVIOUS
<1>1. CASE UNCHANGED opsVars
  BY <1>1 DEF opsVars, OpsIInv, OpsTypeOK, StepsLeft, TaskInHand,
              WorktreeHasRecord, Kept
<1>2. CASE OpsNext
  BY <1>2, StartStep, IdleStep, RepairStep, DropStepsKeep, RestStep DEF OpsNext
<1> QED
  BY <1>1, <1>2

LEMMA OpsInvariant == OpsSpec => []OpsIInv
  BY OpsStart, OpsStep, PTL DEF OpsSpec

(* The record in memory, the stored row, the plan of the operation and     *)
(* what is left of each bound keep their types.                            *)
THEOREM OpsTypeCorrect == OpsSpec => []OpsTypeOK
  BY OpsInvariant, PTL DEF OpsIInv

(* A worktree that a checkpointed start made always has a stored record,   *)
(* for any number of starts, faults, repairs and removals by hand.         *)
THEOREM WorktreeRecorded == OpsSpec => []WorktreeHasRecord
  BY OpsInvariant, PTL DEF OpsIInv

(* Only a drop that saw the worktree and the session gone deletes a task.  *)
THEOREM DropLeavesNothing == OpsSpec => DroppedIsGone
<1>1. ASSUME OpsIInv, [OpsNext]_opsVars,
             op.kind = "drop", task # NoRecord, task' = NoRecord, row' = row,
             op'.kind = "saving"
      PROVE  {"worktree", "tmux"} \cap res = {}
  <2>1. task \in TaskRow /\ op.todo \in Seq(DropOp)
    BY <1>1 DEF OpsIInv, OpsTypeOK
  <2>2. OpsNext
    BY <1>1 DEF opsVars
  <2>3. DropStep \/ DropStepFails \/ DropStepLost \/ DropFinish \/ ProcessDies
        \/ Outside
    BY <1>1, <2>2
    DEF OpsNext, StartTask, StartCommand, StartMarked, StartFails, StartOpened,
        Refresh, Recover, Check, Ship, Repair, RepairCommand, Repaired,
        RepairFails, DropBegin, SaveRow, Reload
  <2>4. CASE DropStep
    <3>1. Head(op.todo) \in DropOp
      BY <2>1, <2>4 DEF DropStep
    <3>2. task' \in TaskRow
      BY <2>1, <2>4, <3>1, StepRecordedType DEF DropStep
    <3> QED
      BY <1>1, <3>2, NoRecordIsNone
  <2>5. CASE DropStepFails
    <3>1. Head(op.todo) \in DropOp
      BY <2>1, <2>5 DEF DropStepFails
    <3>2. task' \in TaskRow
      BY <2>1, <2>5, <3>1, TornDownType DEF DropStepFails
    <3> QED
      BY <1>1, <3>2, NoRecordIsNone
  <2>6. CASE DropStepLost \/ Outside
    BY <1>1, <2>6 DEF DropStepLost, Outside
  <2>7. CASE ProcessDies
    BY <1>1, <2>7 DEF ProcessDies, Loaded, Idle
  <2>8. CASE DropFinish
    <3>1. PICK silent \in SUBSET Resource :
              IF Completed(Observe(res, silent, task)) THEN task' = NoRecord
              ELSE task' = TornDown(Head(Incomplete(Observe(res, silent, task))),
                                    Observe(res, silent, task), task)
      BY <2>8 DEF DropFinish
    <3>2. CASE Completed(Observe(res, silent, task))
      BY <3>2, CompletedIsGone
    <3>3. CASE ~Completed(Observe(res, silent, task))
      <4>1. task' \in TaskRow
        BY <2>1, <3>1, <3>3, IncompleteStep, TornDownType
      <4> QED
        BY <1>1, <4>1, NoRecordIsNone
    <3> QED
      BY <3>2, <3>3
  <2> QED
    BY <2>3, <2>4, <2>5, <2>6, <2>7, <2>8
<1>2. OpsIInv /\ [OpsNext]_opsVars
      => [op.kind = "drop" /\ task # NoRecord /\ task' = NoRecord /\ row' = row
            /\ op'.kind = "saving"
            => {"worktree", "tmux"} \cap res = {}]_opsVars
  BY <1>1
<1> QED
  BY <1>2, OpsInvariant, PTL DEF OpsSpec, DroppedIsGone

-----------------------------------------------------------------------------
(* AgentEvidence.                                                          *)

(* A hook that carries the start of a tool call names the call; one that   *)
(* is over leaves nothing behind.                                          *)
HookTyped ==
    /\ hook \in [stage : {Nil, "fired", "accepted"},
                 kind : EventKind \cup {Nil}, id : Tool \cup {Nil},
                 at : Never..MaxClock, stale : BOOLEAN]
    /\ hook.kind = "ActivityStarted" => hook.id \in Tool
    /\ hook.stage = Nil => hook = NoHookRun
    /\ hook.stage # Nil => hook.kind # Nil

(* The bound counts the launches and the hooks; a turn begins with one.    *)
StepsCounted == /\ term.turns <= term.hooks
                /\ wrap.runs + term.hooks <= MaxAgentSteps

(* An agent that lives is one its wrapper waits for; a turn is of an agent *)
(* that lives, and so is a question.                                       *)
AgentInTurn ==
    /\ term.up => wrap.at = "waits" /\ wrap.state = "Running"
    /\ term.busy => term.up /\ term.turns > 0
    /\ term.up /\ term.asks # Nil => term.busy

(* A question of the agent is in the events, or about to be.               *)
Asked == evf.fold.phase = "Blocked" /\ evf.fold.attention # Nil
QuestionIsTold ==
    term.up /\ ~term.dropped /\ term.asks # Nil =>
        \/ hook.kind \in {"Permission", "Question"}
        \/ hook.kind \in {Nil, "ActivityFinished"} /\ Asked

(* Before the first turn nothing waits and nothing was acknowledged.       *)
NothingAsked == evf.fold.phase # "Blocked" /\ term.asks = Nil
                /\ ~tv.acked /\ ~Waits(tv.live)
BeforeTurns ==
    term.turns = 0 =>
        /\ hook.kind \in {Nil, "SessionOpened", "SessionClosed"}
        /\ ~evf.fold.settled /\ NothingAsked

(* In the first turn the events say that the agent works or waits, once    *)
(* they tell of the turn at all; and what was acknowledged then was no end.*)
MidTurn == EventKind \ (Settles \cup {"SessionOpened", "SessionClosed"})
FirstTurn ==
    term.busy /\ term.turns = 1 /\ ~term.dropped =>
        /\ ~evf.fold.settled
        /\ \/ hook.kind = "TurnStarted" /\ NothingAsked
           \/ /\ hook.kind \in MidTurn \cup {Nil}
              /\ evf.fold.phase \in {"Active", "Blocked"}
              /\ tv.acked => tv.live # "Done"

EvidenceIInv == /\ EvidenceTypeOK /\ HookTyped /\ StepsCounted /\ AgentInTurn
                /\ QuestionIsTold /\ BeforeTurns /\ FirstTurn

Folded == [phase : {"Unknown", "Active", "Blocked", "Settled", "Failed"},
           tools : SUBSET Tool, attention : {Nil, "Permission", "Question"},
           started : BOOLEAN, settled : BOOLEAN]

LiveRow == [live : {Nil, "AgentRunning", "WaitingForApproval",
                    "WaitingForInput", "Done", "CommandFailed"},
            life : {"Active", "Reviewable"}, acked : BOOLEAN]

(* What one event makes of the fold: its type; an event within a turn does *)
(* not settle it and leaves the run active or blocked; the end of a tool   *)
(* call takes no question away.                                            *)
LEMMA FoldNextType ==
    ASSUME NEW s \in Folded, NEW e \in EventKind, NEW id \in Tool \cup {Nil},
           e = "ActivityStarted" => id \in Tool
    PROVE  FoldNext(s, e, id) \in Folded
<1>1. ClearAttention(s) \in Folded
  BY DEF ClearAttention, Folded, Nil
<1>2. ToolFinished(s, id) \in Folded
  BY DEF ToolFinished, Folded
<1>3. CASE e = "TurnStarted"
  BY <1>1, <1>3 DEF FoldNext, Folded
<1>4. CASE e \in {"ActivityStarted", "ActivityFinished", "AttentionCleared"}
  BY <1>1, <1>2, <1>4 DEF FoldNext, Folded, Settles
<1>5. CASE e \in {"Permission", "Question"}
  BY <1>5 DEF FoldNext, Folded
<1>6. CASE e \in Settles \cup {"SessionOpened", "ChildStarted",
                               "SessionClosed", "ChildSettled"}
  BY <1>6 DEF FoldNext, Folded, Settles
<1> QED
  BY <1>3, <1>4, <1>5, <1>6 DEF EventKind, Settles

LEMMA FoldNextKeeps ==
    ASSUME NEW s \in Folded, NEW e \in EventKind, NEW id
    PROVE  /\ e \notin Settles => FoldNext(s, e, id).settled = s.settled
           /\ e \in {"Permission", "Question"} =>
                /\ FoldNext(s, e, id).phase = "Blocked"
                /\ FoldNext(s, e, id).attention = e
           /\ e = "TurnStarted" => FoldNext(s, e, id).phase = "Active"
           /\ e \in {"SessionOpened", "SessionClosed"} =>
                FoldNext(s, e, id).phase # "Blocked"
           /\ e \in MidTurn /\ ~s.settled /\ s.phase \in {"Active", "Blocked"}
                => FoldNext(s, e, id).phase \in {"Active", "Blocked"}
           /\ e = "ActivityFinished"
              /\ s.phase = "Blocked" /\ s.attention # Nil
                => /\ FoldNext(s, e, id).phase = "Blocked"
                   /\ FoldNext(s, e, id).attention # Nil
<1> USE DEF FoldNext, Folded
<1>1. CASE e \in {"TurnStarted", "AttentionCleared"}
  BY <1>1 DEF ClearAttention, Settles, MidTurn
<1>2. CASE e = "ActivityFinished"
  BY <1>2 DEF ToolFinished, Settles, MidTurn
<1>3. CASE e \in {"Permission", "Question", "ActivityStarted"}
  BY <1>3 DEF Settles, MidTurn
<1>4. CASE e \in Settles
  BY <1>4 DEF Settles, MidTurn
<1>5. CASE e \in {"SessionOpened", "ChildStarted", "SessionClosed",
                  "ChildSettled"}
  BY <1>5 DEF Settles, MidTurn
<1> QED
  BY <1>1, <1>2, <1>3, <1>4, <1>5 DEF EventKind, Settles

TermRow == [up : BOOLEAN, busy : BOOLEAN, tools : SUBSET Tool,
            asks : {Nil, "Permission", "Question"}, turns : Nat, hooks : Nat,
            dropped : BOOLEAN]

WrapRow == [at : {"off", "starting", "waits"}, runs : Nat,
            state : {Nil, "Starting", "Running", "ExitedSuccess",
                     "ExitedFailure"}, seen : Never..MaxClock]

HookRow == [stage : {Nil, "fired", "accepted"}, kind : EventKind \cup {Nil},
            id : Tool \cup {Nil}, at : Never..MaxClock, stale : BOOLEAN]

LEMMA EvidenceTypes ==
    EvidenceTypeOK /\ StepsCounted <=>
        /\ clock \in 0..MaxClock /\ term \in TermRow /\ wrap \in WrapRow
        /\ hook.stage \in {Nil, "fired", "accepted"}
        /\ hook.kind \in EventKind \cup {Nil} /\ hook.id \in Tool \cup {Nil}
        /\ evf.fold \in Folded /\ evf.last \in Never..MaxClock
        /\ tv \in LiveRow /\ StepsCounted
  BY EvidenceAssumption DEF EvidenceTypeOK, TermRow, WrapRow, Folded, LiveRow,
     StepsCounted

LEMMA EvidenceParts ==
    ASSUME EvidenceIInv
    PROVE  /\ clock \in 0..MaxClock
           /\ MaxClock \in Nat /\ MaxAgentSteps \in Nat
           /\ term \in TermRow /\ wrap \in WrapRow /\ hook \in HookRow
           /\ evf.fold \in Folded /\ evf.last \in Never..MaxClock
           /\ tv \in LiveRow
  BY EvidenceAssumption, EvidenceTypes DEF EvidenceIInv, HookTyped, HookRow

LEMMA NoHookType ==
    /\ NoHookRun \in HookRow
    /\ NoHookRun.kind = Nil /\ NoHookRun.stage = Nil
  BY EvidenceAssumption DEF NoHookRun, HookRow, Never, Nil

LEMMA HookedType ==
    ASSUME NEW t \in TermRow
    PROVE  /\ Hooked(t) \in TermRow /\ Hooked(t).hooks = t.hooks + 1
           /\ Hooked(t).up = t.up /\ Hooked(t).busy = t.busy
           /\ Hooked(t).tools = t.tools /\ Hooked(t).asks = t.asks
           /\ Hooked(t).turns = t.turns /\ Hooked(t).dropped = t.dropped
  BY DEF Hooked, TermRow

(* The invariant after a step, from the types of what the step leaves.     *)
LEMMA EvidenceNextParts ==
    ASSUME clock' \in 0..MaxClock, term' \in TermRow, wrap' \in WrapRow,
           hook' \in HookRow, evf'.fold \in Folded,
           evf'.last \in Never..MaxClock, tv' \in LiveRow,
           hook'.kind = "ActivityStarted" => hook'.id \in Tool,
           hook'.stage = Nil => hook' = NoHookRun,
           hook'.stage # Nil => hook'.kind # Nil,
           StepsCounted', AgentInTurn', QuestionIsTold', BeforeTurns',
           FirstTurn'
    PROVE  EvidenceIInv'
<1>1. HookTyped'
  BY DEF HookTyped, HookRow
<1>2. EvidenceTypeOK'
  BY <1>1, EvidenceAssumption DEF EvidenceTypeOK, TermRow, WrapRow, Folded,
     LiveRow, StepsCounted, HookTyped
<1> QED
  BY <1>1, <1>2 DEF EvidenceIInv

(* The wrapper and its agent.                                              *)
LEMMA WrapperStep ==
    ASSUME EvidenceIInv,
           WrapperStarts \/ AgentLaunched \/ LaunchFails \/ TermExits
           \/ ExitRecorded \/ WrapperKilled
    PROVE  EvidenceIInv'
<1>t. term \in TermRow
  BY EvidenceParts
<1>w. wrap \in WrapRow
  BY EvidenceParts
<1>h. hook \in HookRow
  BY EvidenceParts
<1>c. /\ clock \in 0..MaxClock /\ clock \in Never..MaxClock
      /\ Never \in Never..MaxClock
  BY EvidenceParts DEF Never
<1>o. evf.fold \in Folded /\ evf.last \in Never..MaxClock /\ tv \in LiveRow
  BY EvidenceParts
<1>1. CASE WrapperStarts
  <2>1. /\ term' = term
        /\ wrap.at = "off" /\ wrap.runs + term.hooks < MaxAgentSteps
        /\ wrap'.at = "starting" /\ wrap'.state = "Starting"
        /\ wrap'.runs = wrap.runs + 1
        /\ hook' = hook
        /\ UNCHANGED <<clock, evf, tv>>
    BY <1>1, <1>t, <1>w, <1>h DEF WrapperStarts, TermRow, WrapRow, HookRow
  <2>2. clock' \in 0..MaxClock /\ term' \in TermRow
    BY <1>1, <1>t, <1>c DEF WrapperStarts, TermRow
  <2>3. wrap' \in WrapRow
    BY <1>1, <1>w, <1>c DEF WrapperStarts, WrapRow
  <2>4. hook' \in HookRow
    BY <1>1, <1>h, <1>c, NoHookType DEF WrapperStarts, HookRow, TermRow
  <2>5. StepsCounted' /\ AgentInTurn'
    BY <2>1, <1>t, <1>w, EvidenceAssumption DEF EvidenceIInv, StepsCounted,
       AgentInTurn, TermRow, WrapRow
  <2>6. QuestionIsTold'
    BY <2>1 DEF EvidenceIInv, AgentInTurn, QuestionIsTold, Asked, NoHookRun,
       Nil
  <2>7. BeforeTurns'
    BY <2>1, <1>t DEF EvidenceIInv, AgentInTurn, BeforeTurns, NothingAsked,
       NoHookRun, Nil, Waits, TermRow
  <2>8. FirstTurn'
    BY <2>1, <1>t DEF EvidenceIInv, AgentInTurn, BeforeTurns, FirstTurn,
       NothingAsked, MidTurn, EventKind, Settles, NoHookRun, Nil, Waits,
       TermRow
  <2> QED
    BY <2>1, <2>2, <2>5, <2>6, <2>7, <2>8, <2>3, <2>4, <1>o, EvidenceNextParts
       DEF EvidenceIInv, HookTyped, NoHookRun, Nil
<1>2. CASE AgentLaunched
  <2>1. /\ term'.up = TRUE /\ term'.busy = FALSE /\ term'.asks = Nil
        /\ term'.turns = term.turns /\ term'.hooks = term.hooks
        /\ term'.dropped = term.dropped
        /\ wrap'.at = "waits" /\ wrap'.state = "Running"
        /\ wrap'.runs = wrap.runs
        /\ hook' = hook
        /\ UNCHANGED <<clock, evf, tv>>
    BY <1>2, <1>t, <1>w, <1>h DEF AgentLaunched, TermRow, WrapRow, HookRow
  <2>2. clock' \in 0..MaxClock /\ term' \in TermRow
    BY <1>2, <1>t, <1>c DEF AgentLaunched, TermRow
  <2>3. wrap' \in WrapRow
    BY <1>2, <1>w, <1>c DEF AgentLaunched, WrapRow
  <2>4. hook' \in HookRow
    BY <1>2, <1>h, <1>c, NoHookType DEF AgentLaunched, HookRow, TermRow
  <2>5. StepsCounted' /\ AgentInTurn'
    BY <2>1, <1>t, <1>w, EvidenceAssumption DEF EvidenceIInv, StepsCounted,
       AgentInTurn, TermRow, WrapRow
  <2>6. QuestionIsTold'
    BY <2>1 DEF EvidenceIInv, AgentInTurn, QuestionIsTold, Asked, NoHookRun,
       Nil
  <2>7. BeforeTurns'
    BY <2>1, <1>t DEF EvidenceIInv, AgentInTurn, BeforeTurns, NothingAsked,
       NoHookRun, Nil, Waits, TermRow
  <2>8. FirstTurn'
    BY <2>1, <1>t DEF EvidenceIInv, AgentInTurn, BeforeTurns, FirstTurn,
       NothingAsked, MidTurn, EventKind, Settles, NoHookRun, Nil, Waits,
       TermRow
  <2> QED
    BY <2>1, <2>2, <2>5, <2>6, <2>7, <2>8, <2>3, <2>4, <1>o, EvidenceNextParts
       DEF EvidenceIInv, HookTyped, NoHookRun, Nil
<1>3. CASE LaunchFails
  <2>1. /\ term' = term
        /\ wrap.at = "starting"
        /\ wrap'.at = "off" /\ wrap'.state = "ExitedFailure"
        /\ wrap'.runs = wrap.runs
        /\ hook' = hook
        /\ UNCHANGED <<clock, evf, tv>>
    BY <1>3, <1>t, <1>w, <1>h DEF LaunchFails, TermRow, WrapRow, HookRow
  <2>2. clock' \in 0..MaxClock /\ term' \in TermRow
    BY <1>3, <1>t, <1>c DEF LaunchFails, TermRow
  <2>3. wrap' \in WrapRow
    BY <1>3, <1>w, <1>c DEF LaunchFails, WrapRow
  <2>4. hook' \in HookRow
    BY <1>3, <1>h, <1>c, NoHookType DEF LaunchFails, HookRow, TermRow
  <2>5. StepsCounted' /\ AgentInTurn'
    BY <2>1, <1>t, <1>w, EvidenceAssumption DEF EvidenceIInv, StepsCounted,
       AgentInTurn, TermRow, WrapRow
  <2>6. QuestionIsTold'
    BY <2>1 DEF EvidenceIInv, AgentInTurn, QuestionIsTold, Asked, NoHookRun,
       Nil
  <2>7. BeforeTurns'
    BY <2>1, <1>t DEF EvidenceIInv, AgentInTurn, BeforeTurns, NothingAsked,
       NoHookRun, Nil, Waits, TermRow
  <2>8. FirstTurn'
    BY <2>1, <1>t DEF EvidenceIInv, AgentInTurn, BeforeTurns, FirstTurn,
       NothingAsked, MidTurn, EventKind, Settles, NoHookRun, Nil, Waits,
       TermRow
  <2> QED
    BY <2>1, <2>2, <2>5, <2>6, <2>7, <2>8, <2>3, <2>4, <1>o, EvidenceNextParts
       DEF EvidenceIInv, HookTyped, NoHookRun, Nil
<1>4. CASE TermExits
  <2>1. /\ term'.up = FALSE /\ term'.busy = FALSE /\ term'.asks = term.asks
        /\ term'.turns = term.turns /\ term'.hooks = term.hooks
        /\ term'.dropped = term.dropped
        /\ wrap' = wrap
        /\ hook' = hook
        /\ UNCHANGED <<clock, evf, tv>>
    BY <1>4, <1>t, <1>w, <1>h DEF TermExits, TermRow, WrapRow, HookRow
  <2>2. clock' \in 0..MaxClock /\ term' \in TermRow
    BY <1>4, <1>t, <1>c DEF TermExits, TermRow
  <2>3. wrap' \in WrapRow
    BY <1>4, <1>w, <1>c DEF TermExits, WrapRow
  <2>4. hook' \in HookRow
    BY <1>4, <1>h, <1>c, NoHookType DEF TermExits, HookRow, TermRow
  <2>5. StepsCounted' /\ AgentInTurn'
    BY <2>1, <1>t, <1>w, EvidenceAssumption DEF EvidenceIInv, StepsCounted,
       AgentInTurn, TermRow, WrapRow
  <2>6. QuestionIsTold'
    BY <2>1 DEF EvidenceIInv, AgentInTurn, QuestionIsTold, Asked, NoHookRun,
       Nil
  <2>7. BeforeTurns'
    BY <2>1, <1>t DEF EvidenceIInv, AgentInTurn, BeforeTurns, NothingAsked,
       NoHookRun, Nil, Waits, TermRow
  <2>8. FirstTurn'
    BY <2>1, <1>t DEF EvidenceIInv, AgentInTurn, BeforeTurns, FirstTurn,
       NothingAsked, MidTurn, EventKind, Settles, NoHookRun, Nil, Waits,
       TermRow
  <2> QED
    BY <2>1, <2>2, <2>5, <2>6, <2>7, <2>8, <2>3, <2>4, <1>o, EvidenceNextParts
       DEF EvidenceIInv, HookTyped, NoHookRun, Nil
<1>5. CASE ExitRecorded \/ WrapperKilled
  <2>1. /\ term' = term /\ ~term.up
        /\ wrap'.runs = wrap.runs
        /\ hook' = hook
        /\ UNCHANGED <<clock, evf, tv>>
    BY <1>5, <1>t, <1>w, <1>h DEF ExitRecorded, WrapperKilled, TermRow,
       WrapRow, HookRow
  <2>2. clock' \in 0..MaxClock /\ term' \in TermRow
    BY <1>5, <1>t, <1>c DEF ExitRecorded, WrapperKilled, TermRow
  <2>3. wrap' \in WrapRow
    BY <1>5, <1>w, <1>c DEF ExitRecorded, WrapperKilled, WrapRow
  <2>4. hook' \in HookRow
    BY <1>5, <1>h, <1>c, NoHookType DEF ExitRecorded, WrapperKilled, HookRow,
       TermRow
  <2>5. StepsCounted' /\ AgentInTurn'
    BY <2>1, <1>t, <1>w, EvidenceAssumption DEF EvidenceIInv, StepsCounted,
       AgentInTurn, TermRow, WrapRow
  <2>6. QuestionIsTold'
    BY <2>1 DEF EvidenceIInv, AgentInTurn, QuestionIsTold, Asked, NoHookRun,
       Nil
  <2>7. BeforeTurns'
    BY <2>1, <1>t DEF EvidenceIInv, AgentInTurn, BeforeTurns, NothingAsked,
       NoHookRun, Nil, Waits, TermRow
  <2>8. FirstTurn'
    BY <2>1, <1>t DEF EvidenceIInv, AgentInTurn, BeforeTurns, FirstTurn,
       NothingAsked, MidTurn, EventKind, Settles, NoHookRun, Nil, Waits,
       TermRow
  <2> QED
    BY <2>1, <2>2, <2>5, <2>6, <2>7, <2>8, <2>3, <2>4, <1>o, EvidenceNextParts
       DEF EvidenceIInv, HookTyped, NoHookRun, Nil
<1> QED
  BY <1>1, <1>2, <1>3, <1>4, <1>5

(* The agent takes a step.  It does so only when no hook is under way, so  *)
(* the events tell all that came before; which hook it runs says what the  *)
(* step was.                                                               *)
Same == (term'.busy <=> term.busy) /\ term'.asks = term.asks
Acts(kind) ==
    \/ /\ kind = "TurnStarted" /\ ~term.busy /\ term'.busy
       /\ term'.asks = term.asks /\ term'.turns = term.turns + 1
    \/ /\ term'.turns = term.turns
       /\ \/ kind = "ActivityFinished" /\ term.busy /\ Same
          \/ /\ kind \in {"ActivityStarted", "TurnStarted", "ChildStarted",
                          "ChildSettled"}
             /\ term.busy /\ term.asks = Nil /\ Same
          \/ /\ kind \in {"Permission", "Question"}
             /\ term.busy /\ term'.busy /\ term'.asks = kind
          \/ /\ kind = "AttentionCleared" /\ term.asks = "Question"
             /\ (term'.busy <=> term.busy) /\ term'.asks = Nil
          \/ /\ kind \in Settles /\ term.busy /\ ~term'.busy
             /\ term.asks = Nil /\ term'.asks = Nil
          \/ kind \in {"SessionOpened", "SessionClosed"} /\ ~term.busy /\ Same

LEMMA AgentActs ==
    ASSUME EvidenceIInv, TermSteps
    PROVE  /\ term.up /\ hook = NoHookRun
           /\ wrap.runs + term.hooks < MaxAgentSteps
           /\ UNCHANGED <<clock, wrap, evf, tv>>
           /\ term' \in TermRow /\ term'.up = term.up
           /\ term'.hooks = term.hooks + 1 /\ term'.dropped = term.dropped
           /\ \E kind \in EventKind, id \in Tool \cup {Nil} :
                 /\ Fires(kind, id) /\ Acts(kind)
                 /\ kind = "ActivityStarted" => id \in Tool
<1> DEFINE h == Hooked(term)
<1>1. /\ h \in TermRow /\ h.hooks = term.hooks + 1 /\ h.up = term.up
      /\ h.busy = term.busy /\ h.tools = term.tools /\ h.asks = term.asks
      /\ h.turns = term.turns /\ h.dropped = term.dropped
      /\ h.turns + 1 \in Nat /\ term.tools \subseteq Tool
  BY EvidenceParts, HookedType DEF TermRow
<1>2. /\ term.up /\ hook = NoHookRun
      /\ wrap.runs + term.hooks < MaxAgentSteps
      /\ UNCHANGED <<clock, wrap, evf, tv>>
  BY DEF TermSteps
<1> DEFINE Told == /\ term' \in TermRow /\ term'.up = term.up
                   /\ term'.hooks = term.hooks + 1
                   /\ term'.dropped = term.dropped
                   /\ \E kind \in EventKind, id \in Tool \cup {Nil} :
                         /\ Fires(kind, id) /\ Acts(kind)
                         /\ kind = "ActivityStarted" => id \in Tool
<1> HIDE DEF h
<1>3. ASSUME ~term.busy, Fires("TurnStarted", Nil),
             term' = [h EXCEPT !.busy = TRUE, !.turns = @ + 1]
      PROVE  Told
  <2>1. /\ term' \in TermRow /\ term'.up = term.up
        /\ term'.hooks = term.hooks + 1 /\ term'.dropped = term.dropped
    BY <1>1, <1>3 DEF TermRow
  <2>2. Acts("TurnStarted")
    BY <1>1, <1>3 DEF Acts, TermRow
  <2> QED
    BY <1>3, <2>1, <2>2 DEF EventKind
<1>4. ASSUME term.busy, term.asks = Nil, NEW t \in Tool \ term.tools,
             Fires("ActivityStarted", t),
             term' = [h EXCEPT !.tools = @ \cup {t}]
      PROVE  Told
  <2>1. /\ term' \in TermRow /\ term'.up = term.up
        /\ term'.hooks = term.hooks + 1 /\ term'.dropped = term.dropped
    BY <1>1, <1>4 DEF TermRow
  <2>2. Acts("ActivityStarted")
    BY <1>1, <1>4 DEF Acts, Same, TermRow
  <2> QED
    BY <1>4, <2>1, <2>2 DEF EventKind
<1>5. ASSUME term.busy, NEW t \in term.tools, Fires("ActivityFinished", t),
             term' = [h EXCEPT !.tools = @ \ {t}]
      PROVE  Told
  <2>1. /\ term' \in TermRow /\ term'.up = term.up
        /\ term'.hooks = term.hooks + 1 /\ term'.dropped = term.dropped
    BY <1>1, <1>5 DEF TermRow
  <2>2. Acts("ActivityFinished")
    BY <1>1, <1>5 DEF Acts, Same, TermRow
  <2> QED
    BY <1>1, <1>5, <2>1, <2>2 DEF EventKind
<1>6. ASSUME term.busy, NEW q \in {"Permission", "Question"}, Fires(q, Nil),
             term' = [h EXCEPT !.asks = q]
      PROVE  Told
  <2>1. /\ term' \in TermRow /\ term'.up = term.up
        /\ term'.hooks = term.hooks + 1 /\ term'.dropped = term.dropped
    BY <1>1, <1>6 DEF TermRow
  <2>2. Acts(q)
    BY <1>1, <1>6 DEF Acts, TermRow
  <2> QED
    BY <1>6, <2>1, <2>2 DEF EventKind
<1>7. ASSUME term.asks = "Question", Fires("AttentionCleared", Nil),
             term' = [h EXCEPT !.asks = Nil]
      PROVE  Told
  <2>1. /\ term' \in TermRow /\ term'.up = term.up
        /\ term'.hooks = term.hooks + 1 /\ term'.dropped = term.dropped
    BY <1>1, <1>7 DEF TermRow
  <2>2. Acts("AttentionCleared")
    BY <1>1, <1>7 DEF Acts, TermRow
  <2> QED
    BY <1>7, <2>1, <2>2 DEF EventKind
<1>8. ASSUME term.busy, term.asks = Nil, NEW o \in Settles, Fires(o, Nil),
             term' = [h EXCEPT !.busy = FALSE]
      PROVE  Told
  <2>1. /\ term' \in TermRow /\ term'.up = term.up
        /\ term'.hooks = term.hooks + 1 /\ term'.dropped = term.dropped
    BY <1>1, <1>8 DEF TermRow
  <2>2. Acts(o)
    BY <1>1, <1>8 DEF Acts, TermRow
  <2> QED
    BY <1>8, <2>1, <2>2 DEF EventKind, Settles
<1>9. ASSUME NEW kind \in EventKind \ {"ActivityStarted"}, Fires(kind, Nil),
             \/ /\ kind \in {"TurnStarted", "ChildStarted", "ChildSettled"}
                /\ term.busy /\ term.asks = Nil
             \/ kind \in {"SessionOpened", "SessionClosed"} /\ ~term.busy,
             term' = h
      PROVE  Told
  <2>1. Acts(kind)
    BY <1>1, <1>9 DEF Acts, Same
  <2> QED
    BY <1>1, <1>9, <2>1
<1>10. Told
  <2> USE DEF EventKind
  <2> QED
    BY <1>3, <1>4, <1>5, <1>6, <1>7, <1>8, <1>9 DEF TermSteps, h
<1> QED
  BY <1>2, <1>10

LEMMA AgentStep ==
    ASSUME EvidenceIInv, TermSteps \/ PermissionAnswered
    PROVE  EvidenceIInv'
<1>t. term \in TermRow
  BY EvidenceParts
<1>w. wrap \in WrapRow
  BY EvidenceParts
<1>h. hook \in HookRow
  BY EvidenceParts
<1>c. /\ clock \in 0..MaxClock /\ clock \in Never..MaxClock
      /\ Never \in Never..MaxClock
  BY EvidenceParts DEF Never
<1>o. evf.fold \in Folded /\ evf.last \in Never..MaxClock /\ tv \in LiveRow
  BY EvidenceParts
<1>1. CASE PermissionAnswered
  <2>1. /\ term.up
        /\ term'.up = term.up /\ term'.busy = term.busy /\ term'.asks = Nil
        /\ term'.turns = term.turns /\ term'.hooks = term.hooks
        /\ term'.dropped = term.dropped
        /\ wrap' = wrap
        /\ hook' = hook
        /\ UNCHANGED <<clock, evf, tv>>
    BY <1>1, <1>t, <1>w, <1>h DEF PermissionAnswered, TermRow, WrapRow, HookRow
  <2>2. clock' \in 0..MaxClock /\ term' \in TermRow
    BY <1>1, <1>t, <1>c DEF PermissionAnswered, TermRow
  <2>3. wrap' \in WrapRow
    BY <1>1, <1>w, <1>c DEF PermissionAnswered, WrapRow
  <2>4. hook' \in HookRow
    BY <1>1, <1>h, <1>c, NoHookType DEF PermissionAnswered, HookRow, TermRow
  <2>5. StepsCounted' /\ AgentInTurn'
    BY <2>1, <1>t, <1>w, EvidenceAssumption DEF EvidenceIInv, StepsCounted,
       AgentInTurn, TermRow, WrapRow
  <2>6. QuestionIsTold'
    BY <2>1 DEF EvidenceIInv, AgentInTurn, QuestionIsTold, Asked, NoHookRun,
       Nil
  <2>7. BeforeTurns'
    BY <2>1, <1>t DEF EvidenceIInv, AgentInTurn, BeforeTurns, NothingAsked,
       NoHookRun, Nil, Waits, TermRow
  <2>8. FirstTurn'
    BY <2>1, <1>t DEF EvidenceIInv, AgentInTurn, BeforeTurns, FirstTurn,
       NothingAsked, MidTurn, EventKind, Settles, NoHookRun, Nil, Waits,
       TermRow
  <2> QED
    BY <2>1, <2>2, <2>5, <2>6, <2>7, <2>8, <2>3, <2>4, <1>o, EvidenceNextParts
       DEF EvidenceIInv, HookTyped, NoHookRun, Nil
<1>2. CASE TermSteps
  <2>1. /\ term.up /\ hook = NoHookRun
        /\ wrap.runs + term.hooks < MaxAgentSteps
        /\ UNCHANGED <<clock, wrap, evf, tv>>
        /\ term' \in TermRow /\ term'.up = term.up
        /\ term'.hooks = term.hooks + 1 /\ term'.dropped = term.dropped
    BY <1>2, AgentActs
  <2>2. PICK kind \in EventKind, id \in Tool \cup {Nil} :
              /\ Fires(kind, id) /\ Acts(kind)
              /\ kind = "ActivityStarted" => id \in Tool
    BY <1>2, AgentActs
  <2>3. /\ hook' \in HookRow /\ hook'.stage = "fired"
        /\ hook'.kind = kind /\ hook'.id = id /\ kind # Nil
    BY <2>2, NoHookType DEF Fires, HookRow, EventKind, Nil
  <2>4. StepsCounted' /\ AgentInTurn'
    BY <2>1, <2>2, <1>t, <1>w, EvidenceAssumption DEF EvidenceIInv,
       StepsCounted,
       AgentInTurn, Acts, Same, TermRow, WrapRow
  <2>5. QuestionIsTold'
    BY <2>1, <2>2, <2>3, NoHookType DEF EvidenceIInv, AgentInTurn,
       QuestionIsTold,
       Asked, Acts, Same, Nil
  <2>6. term.turns \in Nat /\ hook.kind = Nil
    BY <2>1, <1>t, NoHookType DEF TermRow
  <2>7. NothingAsked' <=> evf.fold.phase # "Blocked" /\ term'.asks = Nil
                          /\ ~tv.acked /\ ~Waits(tv.live)
    BY <2>1 DEF NothingAsked, Waits
  <2>8. BeforeTurns'
    <3> SUFFICES ASSUME term'.turns = 0
                 PROVE  /\ kind \in {"SessionOpened", "SessionClosed"}
                        /\ ~evf.fold.settled /\ NothingAsked'
      BY <2>1, <2>3 DEF BeforeTurns
    <3>1. term.turns = 0 /\ ~term.busy /\ ~evf.fold.settled /\ NothingAsked
      BY <2>2, <2>6 DEF Acts, EvidenceIInv, AgentInTurn, BeforeTurns
    <3> QED
      BY <2>2, <2>6, <2>7, <3>1 DEF Acts, Same, NothingAsked, Nil
  <2>9. FirstTurn'
    <3> SUFFICES ASSUME term'.busy, term'.turns = 1, ~term.dropped
                 PROVE  /\ ~evf.fold.settled
                        /\ \/ kind = "TurnStarted" /\ NothingAsked'
                           \/ /\ kind \in MidTurn
                              /\ evf.fold.phase \in {"Active", "Blocked"}
                              /\ tv.acked => tv.live # "Done"
      BY <2>1, <2>3 DEF FirstTurn
    <3>1. CASE ~term.busy
      <4>1. kind = "TurnStarted" /\ term.turns = 0 /\ term'.asks = term.asks
        <5>1. term'.turns = term.turns => FALSE
          BY <2>2, <2>6, <3>1 DEF Acts, Same, Settles
        <5>2. /\ kind = "TurnStarted" /\ term'.asks = term.asks
              /\ 1 = term.turns + 1
          BY <2>2, <5>1 DEF Acts
        <5> QED
          BY <2>6, <5>2
      <4> QED
        BY <2>7, <4>1 DEF EvidenceIInv, BeforeTurns, NothingAsked
    <3>2. CASE term.busy
      <4>1. term.turns = 1 /\ kind \in MidTurn
        BY <2>2, <3>2 DEF Acts, Same, Settles, MidTurn, EventKind
      <4> QED
        BY <2>6, <3>2, <4>1 DEF EvidenceIInv, FirstTurn, Nil
    <3> QED
      BY <3>1, <3>2
  <2> QED
    BY <2>1, <2>2, <2>3, <2>4, <2>5, <2>8, <2>9, <1>w, <1>o, <1>c,
       EvidenceNextParts DEF Nil
<1> QED
  BY <1>1, <1>2

(* The hook.  The snapshot of an agent that lives says so, and its hooks   *)
(* count; one that is lost is remembered.                                  *)
LEMMA HookStep ==
    ASSUME EvidenceIInv, HookChecks \/ HookAppends \/ HookFails
    PROVE  EvidenceIInv'
<1>t. term \in TermRow
  BY EvidenceParts
<1>w. wrap \in WrapRow
  BY EvidenceParts
<1>h. hook \in HookRow
  BY EvidenceParts
<1>c. /\ clock \in 0..MaxClock /\ clock \in Never..MaxClock
      /\ Never \in Never..MaxClock
  BY EvidenceParts DEF Never
<1>o. evf.fold \in Folded /\ evf.last \in Never..MaxClock /\ tv \in LiveRow
  BY EvidenceParts
<1>1. CASE HookChecks /\ HooksAccepted(hook.kind)
  <2>1. /\ term' = term
        /\ wrap' = wrap
        /\ hook.stage = "fired" /\ hook'.stage = "accepted"
        /\ hook'.kind = hook.kind /\ hook'.id = hook.id
        /\ UNCHANGED <<clock, evf, tv>>
    BY <1>1, <1>t, <1>w, <1>h DEF HookChecks, TermRow, WrapRow, HookRow
  <2>2. clock' \in 0..MaxClock /\ term' \in TermRow
    BY <1>1, <1>t, <1>c DEF HookChecks, TermRow
  <2>3. wrap' \in WrapRow
    BY <1>1, <1>w, <1>c DEF HookChecks, WrapRow
  <2>4. hook' \in HookRow
    BY <1>1, <1>h, <1>c, NoHookType DEF HookChecks, HookRow, TermRow
  <2>5. StepsCounted' /\ AgentInTurn'
    BY <2>1, <1>t, <1>w, EvidenceAssumption DEF EvidenceIInv, StepsCounted,
       AgentInTurn, TermRow, WrapRow
  <2>6. QuestionIsTold'
    BY <2>1 DEF EvidenceIInv, AgentInTurn, QuestionIsTold, Asked, NoHookRun,
       Nil
  <2>7. BeforeTurns'
    BY <2>1, <1>t DEF EvidenceIInv, AgentInTurn, BeforeTurns, NothingAsked,
       NoHookRun, Nil, Waits, TermRow
  <2>8. FirstTurn'
    BY <2>1, <1>t DEF EvidenceIInv, AgentInTurn, BeforeTurns, FirstTurn,
       NothingAsked, MidTurn, EventKind, Settles, NoHookRun, Nil, Waits,
       TermRow
  <2> QED
    BY <2>1, <2>2, <2>5, <2>6, <2>7, <2>8, <2>3, <2>4, <1>o, EvidenceNextParts
       DEF EvidenceIInv, HookTyped, NoHookRun, Nil
<1>2. CASE HookFails \/ (HookChecks /\ ~HooksAccepted(hook.kind))
  <2>1. /\ term'.up = term.up /\ term'.busy = term.busy
        /\ term'.asks = term.asks
        /\ term'.turns = term.turns /\ term'.hooks = term.hooks
        /\ term'.dropped = TRUE
        /\ wrap' = wrap
        /\ hook' = NoHookRun
        /\ UNCHANGED <<clock, evf, tv>>
    BY <1>2, <1>t, <1>w, <1>h DEF HookChecks, HookFails, TermRow, WrapRow,
       HookRow
  <2>2. clock' \in 0..MaxClock /\ term' \in TermRow
    BY <1>2, <1>t, <1>c DEF HookChecks, HookFails, TermRow
  <2>3. wrap' \in WrapRow
    BY <1>2, <1>w, <1>c DEF HookChecks, HookFails, WrapRow
  <2>4. hook' \in HookRow
    BY <1>2, <1>h, <1>c, NoHookType DEF HookChecks, HookFails, HookRow, TermRow
  <2>5. StepsCounted' /\ AgentInTurn'
    BY <2>1, <1>t, <1>w, EvidenceAssumption DEF EvidenceIInv, StepsCounted,
       AgentInTurn, TermRow, WrapRow
  <2>6. QuestionIsTold'
    BY <2>1 DEF EvidenceIInv, AgentInTurn, QuestionIsTold, Asked, NoHookRun,
       Nil
  <2>7. BeforeTurns'
    BY <2>1, <1>t DEF EvidenceIInv, AgentInTurn, BeforeTurns, NothingAsked,
       NoHookRun, Nil, Waits, TermRow
  <2>8. FirstTurn'
    BY <2>1, <1>t DEF EvidenceIInv, AgentInTurn, BeforeTurns, FirstTurn,
       NothingAsked, MidTurn, EventKind, Settles, NoHookRun, Nil, Waits,
       TermRow
  <2> QED
    BY <2>1, <2>2, <2>5, <2>6, <2>7, <2>8, <2>3, <2>4, <1>o, EvidenceNextParts
       DEF EvidenceIInv, HookTyped, NoHookRun, Nil
<1>3. CASE HookAppends
  <2> DEFINE next == FoldNext(evf.fold, hook.kind, hook.id)
  <2>1. /\ hook.stage = "accepted" /\ hook' = NoHookRun /\ evf'.fold = next
        /\ evf'.last = IF hook.at > evf.last THEN hook.at ELSE evf.last
        /\ tv' = [tv EXCEPT !.acked = @ /\ hook.stale]
        /\ UNCHANGED <<clock, term, wrap>>
    BY <1>3 DEF HookAppends
  <2>2. /\ hook.kind \in EventKind /\ hook.id \in Tool \cup {Nil}
        /\ hook.kind = "ActivityStarted" => hook.id \in Tool
    BY <2>1 DEF EvidenceIInv, HookTyped, Nil
  <2>3. next \in Folded
    BY <2>2, <1>o, FoldNextType
  <2>4. /\ hook.kind \notin Settles => next.settled = evf.fold.settled
        /\ hook.kind \in {"Permission", "Question"} =>
             next.phase = "Blocked" /\ next.attention = hook.kind
        /\ hook.kind = "TurnStarted" => next.phase = "Active"
        /\ hook.kind \in {"SessionOpened", "SessionClosed"} =>
             next.phase # "Blocked"
        /\ hook.kind \in MidTurn /\ ~evf.fold.settled
           /\ evf.fold.phase \in {"Active", "Blocked"}
             => next.phase \in {"Active", "Blocked"}
        /\ hook.kind = "ActivityFinished" /\ Asked
             => next.phase = "Blocked" /\ next.attention # Nil
    BY <2>2, <1>o, FoldNextKeeps DEF Asked
  <2> HIDE DEF next
  <2>5. /\ tv' \in LiveRow /\ tv'.live = tv.live
        /\ tv'.acked => tv.acked
    BY <2>1, <1>o, <1>h DEF LiveRow, HookRow
  <2>6. hook' \in HookRow /\ evf'.last \in Never..MaxClock
    BY <2>1, <1>o, <1>h, NoHookType DEF HookRow
  <2>7. StepsCounted' /\ AgentInTurn'
    BY <2>1 DEF EvidenceIInv, StepsCounted, AgentInTurn
  <2>8. QuestionIsTold'
    BY <2>1, <2>2, <2>4 DEF EvidenceIInv, QuestionIsTold, Asked, NoHookRun,
       Nil, EventKind
  <2>9. BeforeTurns'
    BY <2>1, <2>2, <2>4, <2>5 DEF EvidenceIInv, BeforeTurns, NothingAsked,
       NoHookRun,
       Nil, Settles, EventKind, Waits
  <2>10. FirstTurn'
    BY <2>1, <2>2, <2>4, <2>5 DEF EvidenceIInv, FirstTurn, NothingAsked,
       NoHookRun,
       Nil, Settles, MidTurn, EventKind
  <2> QED
    BY <2>1, <2>3, <2>5, <2>7, <2>8, <2>9, <2>10, <2>6, <1>t, <1>w, <1>c,
       NoHookType, EvidenceNextParts DEF Nil
<1> QED
  BY <1>1, <1>2, <1>3 DEF HookAppends

(* What a refresh selects: while the agent lives no exit speaks.           *)
LEMMA NoExitWhileUp ==
    ASSUME EvidenceIInv, term.up
    PROVE  ExitSays = Nil /\ SelectActivity.live = LifecycleSays
  BY DEF EvidenceIInv, AgentInTurn, ExitSays, SelectActivity, Nil

LEMMA SelectedType ==
    ASSUME EvidenceIInv
    PROVE  /\ LifecycleSays \in {Nil, PhaseSays}
           /\ PhaseSays \in {Nil, "AgentRunning", "WaitingForApproval",
                             "WaitingForInput", "Done", "CommandFailed"}
           /\ ExitSays \in {Nil, "Done", "CommandFailed"}
           /\ SelectActivity.live \in {ExitSays, LifecycleSays}
           /\ Waits(PhaseSays) => evf.fold.phase = "Blocked"
           /\ evf.fold.phase = "Blocked" => Waits(PhaseSays)
           /\ PhaseSays = "Done" => evf.fold.phase = "Settled"
  BY DEF LifecycleSays, PhaseSays, ExitSays, SelectActivity, Waits, Nil

LEMMA RefreshedType ==
    ASSUME EvidenceIInv, NEW pane \in PaneSays
    PROVE  /\ RefreshedBy(pane) \in LiveRow
           /\ RefreshedBy(pane).acked = tv.acked
           /\ \/ RefreshedBy(pane).live = pane /\ pane # Nil
              \/ RefreshedBy(pane).live = tv.live
              \/ RefreshedBy(pane).live = SelectActivity.live
           /\ pane \in {Nil, "WaitingForApproval", "WaitingForInput"}
           /\ pane # Nil => term.asks # Nil
<1>1. tv \in LiveRow
  BY EvidenceParts DEF EvidenceIInv
<1>2. /\ pane \in {Nil, "WaitingForApproval", "WaitingForInput"}
      /\ pane # Nil => term.asks # Nil
  BY DEF PaneSays, Nil
<1>3. SelectActivity.live \in {Nil, "AgentRunning", "WaitingForApproval",
                               "WaitingForInput", "Done", "CommandFailed"}
  BY SelectedType
<1>4. ASSUME NEW live \in {Nil, "AgentRunning", "WaitingForApproval",
                           "WaitingForInput", "Done", "CommandFailed"},
             NEW from
      PROVE  /\ ApplyLive(tv, live, from) \in LiveRow
             /\ ApplyLive(tv, live, from).live = live
             /\ ApplyLive(tv, live, from).acked = tv.acked
  BY <1>1 DEF ApplyLive, LiveRow
<1> QED
  BY <1>1, <1>2, <1>3, <1>4 DEF RefreshedBy

(* The refresh, the acknowledgement and the clock.                         *)
LEMMA RefreshStep ==
    ASSUME EvidenceIInv, RefreshAgent \/ TaskOpened \/ ClockTicks
    PROVE  EvidenceIInv'
<1> USE EvidenceAssumption, EvidenceParts
<1>1. CASE RefreshAgent
  <2>1. PICK pane \in PaneSays : tv' = RefreshedBy(pane)
    BY <1>1 DEF RefreshAgent
  <2>2. UNCHANGED <<clock, term, wrap, hook, evf>>
    BY <1>1 DEF RefreshAgent
  <2>3. /\ tv' \in LiveRow /\ tv'.acked = tv.acked
        /\ \/ tv'.live = pane /\ pane # Nil
           \/ tv'.live = tv.live
           \/ tv'.live = SelectActivity.live
        /\ pane \in {Nil, "WaitingForApproval", "WaitingForInput"}
        /\ pane # Nil => term.asks # Nil
    BY <2>1, RefreshedType
  <2>4. EvidenceTypeOK' /\ HookTyped' /\ StepsCounted' /\ AgentInTurn'
        /\ QuestionIsTold'
    BY <2>2, <2>3 DEF EvidenceIInv, EvidenceTypeOK, LiveRow, HookTyped,
       StepsCounted, AgentInTurn, QuestionIsTold, Asked
  <2>5. NothingAsked => NothingAsked'
    BY <2>2, <2>3, SelectedType DEF NothingAsked, Waits, Nil
  <2>6. BeforeTurns'
    BY <2>2, <2>5 DEF EvidenceIInv, BeforeTurns
  <2>7. FirstTurn'
    <3> SUFFICES ASSUME term.busy, term.turns = 1, ~term.dropped,
                        ~NothingAsked \/ hook.kind # "TurnStarted"
                 PROVE  tv'.acked => tv'.live # "Done"
      BY <2>2, <2>5 DEF EvidenceIInv, FirstTurn
    <3>1. /\ evf.fold.phase \in {"Active", "Blocked"}
          /\ tv.acked => tv.live # "Done"
      BY DEF EvidenceIInv, FirstTurn
    <3>2. SelectActivity.live # "Done"
      BY <3>1, NoExitWhileUp, SelectedType DEF EvidenceIInv, AgentInTurn, Nil
    <3> QED
      BY <2>3, <3>1, <3>2 DEF Nil
  <2> QED
    BY <2>4, <2>6, <2>7 DEF EvidenceIInv
<1>2. CASE TaskOpened
  <2>a. hook.stage = Nil => hook = NoHookRun
    BY DEF EvidenceIInv, HookTyped
  <2>1. /\ Waits(tv.live) /\ tv'.live = tv.live /\ tv' \in LiveRow
        /\ hook'.stage = hook.stage /\ hook'.kind = hook.kind
        /\ hook'.id = hook.id
        /\ UNCHANGED <<clock, term, wrap, evf>>
    BY <1>2 DEF TaskOpened, LiveRow, HookRow
  <2>2. hook' \in HookRow
    BY <1>2 DEF TaskOpened, HookRow
  <2>3. hook.stage = Nil => hook' = NoHookRun
    <3> SUFFICES ASSUME hook.stage = Nil
                 PROVE  hook' = NoHookRun
      OBVIOUS
    <3>1. (hook.stage = "accepted") = FALSE
      BY DEF Nil
    <3>2. hook' = [NoHookRun EXCEPT !.stale = FALSE]
      BY <1>2, <2>a, <3>1 DEF TaskOpened
    <3> QED
      BY <3>2 DEF NoHookRun
  <2>4. StepsCounted' /\ AgentInTurn' /\ QuestionIsTold'
    BY <2>1 DEF EvidenceIInv, StepsCounted, AgentInTurn, QuestionIsTold, Asked
  <2>5. BeforeTurns' /\ FirstTurn'
    BY <2>1 DEF EvidenceIInv, BeforeTurns, FirstTurn, NothingAsked, Waits
  <2> QED
    BY <2>1, <2>4, <2>5, <2>2, <2>3, EvidenceNextParts DEF EvidenceIInv,
       HookTyped
<1>3. CASE ClockTicks
  <2>1. /\ clock' \in 0..MaxClock /\ wrap' \in WrapRow
        /\ wrap'.at = wrap.at /\ wrap'.runs = wrap.runs
        /\ wrap'.state = wrap.state
        /\ UNCHANGED <<term, hook, evf, tv>>
    BY <1>3 DEF ClockTicks, WrapRow, Never
  <2>2. /\ StepsCounted' /\ AgentInTurn' /\ QuestionIsTold'
        /\ BeforeTurns' /\ FirstTurn'
    BY <2>1 DEF EvidenceIInv, StepsCounted, AgentInTurn, QuestionIsTold, Asked,
       BeforeTurns, FirstTurn, NothingAsked
  <2> QED
    BY <2>1, <2>2, EvidenceNextParts DEF EvidenceIInv, HookTyped
<1> QED
  BY <1>1, <1>2, <1>3

LEMMA EvidenceStart == EvidenceInit => EvidenceIInv
  BY EvidenceAssumption DEF EvidenceInit, EvidenceIInv, EvidenceTypeOK,
     HookTyped, StepsCounted, AgentInTurn, QuestionIsTold, BeforeTurns,
     FirstTurn, NothingAsked, Asked, Never, NoHookRun, Nil, Waits, FoldNew

LEMMA EvidenceStep ==
    EvidenceIInv /\ [EvidenceNext]_evidenceVars => EvidenceIInv'
<1>1. ASSUME EvidenceIInv, UNCHANGED evidenceVars
      PROVE  EvidenceIInv'
  BY <1>1 DEF evidenceVars, EvidenceIInv, EvidenceTypeOK, HookTyped,
     StepsCounted, AgentInTurn, QuestionIsTold, BeforeTurns, FirstTurn,
     NothingAsked, Asked
<1> QED
  BY <1>1, WrapperStep, AgentStep, HookStep, RefreshStep DEF EvidenceNext

(* The invariant gives what a refresh makes of the task.                   *)
LEMMA EvidenceReads == EvidenceIInv => EvidenceIsRead
<1> SUFFICES ASSUME EvidenceIInv, NEW pane \in PaneSays
             PROVE  LET after == RefreshedBy(pane) IN
                    /\ AllTold /\ term.asks # Nil /\ ~tv.acked
                         => Waits(after.live)
                    /\ ExitSays # Nil => after.live # "AgentRunning"
                    /\ AllTold /\ term.busy /\ term.turns = 1
                         => after.live # "Done"
  BY DEF EvidenceIsRead
<1> USE EvidenceParts, EvidenceAssumption
<1>1. /\ pane \in {Nil, "WaitingForApproval", "WaitingForInput"}
      /\ \A live, from : ApplyLive(tv, live, from).live = live
  BY RefreshedType DEF ApplyLive, EvidenceIInv, LiveRow
<1>2. ASSUME AllTold
      PROVE  /\ hook.kind = Nil /\ term.up /\ ~term.dropped
             /\ SelectActivity.live = PhaseSays
  <2>1. hook.kind = Nil /\ term.up /\ ~term.dropped
    BY <1>2 DEF AllTold, NoHookRun
  <2>2. LifecycleSays = PhaseSays
    BY <1>2 DEF AllTold, LifecycleSays, EvidenceIInv
  <2> QED
    BY <2>1, <2>2, NoExitWhileUp
<1>3. ASSUME AllTold, term.asks # Nil, ~tv.acked
      PROVE  Waits(RefreshedBy(pane).live)
  <2>1. Waits(SelectActivity.live)
    BY <1>2, <1>3, SelectedType DEF EvidenceIInv, QuestionIsTold, Asked, Nil
  <2> QED
    BY <1>1, <1>3, <2>1 DEF RefreshedBy, Waits, Nil
<1>4. ASSUME ExitSays # Nil
      PROVE  RefreshedBy(pane).live # "AgentRunning"
  <2>1. SelectActivity.live \in {"Done", "CommandFailed"}
    BY <1>4, SelectedType DEF SelectActivity
  <2> QED
    BY <1>1, <2>1 DEF RefreshedBy, Waits, Nil
<1>5. ASSUME AllTold, term.busy, term.turns = 1
      PROVE  RefreshedBy(pane).live # "Done"
  <2>1. /\ evf.fold.phase \in {"Active", "Blocked"}
        /\ tv.acked => tv.live # "Done"
    BY <1>2, <1>5 DEF EvidenceIInv, FirstTurn, Nil
  <2>2. SelectActivity.live \in {"AgentRunning", "WaitingForApproval",
                                 "WaitingForInput"}
    BY <1>2, <1>5, <2>1 DEF PhaseSays
  <2> QED
    BY <1>1, <2>1, <2>2 DEF RefreshedBy, Waits, Nil
<1> QED
  BY <1>3, <1>4, <1>5

(* What an agent in a terminal leaves behind is read for what it is: a     *)
(* question that was not looked at is what the task says, a process that   *)
(* has just ended is not at work, and no task reads done in its first turn *)
(* (fold_envelopes, reduce_agent_status, apply_reduced_observation).       *)
THEOREM EvidenceRead == EvidenceSpec => []EvidenceIsRead
<1>1. EvidenceSpec => []EvidenceIInv
  BY EvidenceStart, EvidenceStep, PTL DEF EvidenceSpec
<1> QED
  BY <1>1, EvidenceReads, PTL

-----------------------------------------------------------------------------
(* TaskAttach.                                                             *)

KeyKind == {"key", "report", "back", "new"}

(* The keys for the task among the first n of s; and those that no key to  *)
(* leave precedes.                                                         *)
KeysUpTo(s, n) == {i \in 1..n : IsKey(s[i])}
Mine(s) == {i \in DOMAIN s : IsKey(s[i]) /\ \A j \in 1..i : ~IsStop(s[j])}

LEMMA KeysFinite ==
    ASSUME NEW s, NEW n \in Nat
    PROVE  IsFiniteSet(KeysUpTo(s, n)) /\ Cardinality(KeysUpTo(s, n)) \in Nat
<1>1. IsFiniteSet(1..n) /\ KeysUpTo(s, n) \subseteq 1..n
  BY FS_Interval DEF KeysUpTo
<1> QED
  BY <1>1, FS_Subset, FS_CardinalityType

LEMMA MineFinite ==
    ASSUME NEW s \in Seq(KeyKind)
    PROVE  IsFiniteSet(Mine(s)) /\ Cardinality(Mine(s)) \in Nat
<1>1. IsFiniteSet(1..Len(s)) /\ Mine(s) \subseteq 1..Len(s)
  BY FS_Interval DEF Mine
<1> QED
  BY <1>1, FS_Subset, FS_CardinalityType

(* The filter keeps one for each key.                                      *)
LEMMA KeepingCounts ==
    ASSUME NEW s \in Seq(KeyKind)
    PROVE  /\ Keeping(s, {"key"}) \in Seq({"key"})
           /\ Len(Keeping(s, {"key"})) = Cardinality(KeysUpTo(s, Len(s)))
<1> DEFINE S == {"key"}
<1>1. Len(s) \in Nat /\ Len(s) \in 0..Len(s)
  OBVIOUS
<1>2. PICK K : Filtered(K, s, S, Len(s)) /\ Keeping(s, S) = K[Len(s)]
  BY KeepingSteps
<1> DEFINE Right(i) == /\ K[i] \in Seq(S)
                       /\ Len(K[i]) = Cardinality(KeysUpTo(s, i))
<1>3. Right(0)
  <2>1. K[0] = <<>> /\ KeysUpTo(s, 0) = {}
    BY <1>2 DEF Filtered, KeysUpTo
  <2> QED
    BY <2>1, FS_EmptySet
<1>4. ASSUME NEW i \in 1..Len(s), Right(i - 1)
      PROVE  Right(i)
  <2>1. i - 1 \in Nat /\ i \in Nat
    BY <1>1
  <2>2. IsFiniteSet(KeysUpTo(s, i - 1))
    BY <2>1, KeysFinite
  <2>3. CASE s[i] \in S
    <3>1. /\ KeysUpTo(s, i) = KeysUpTo(s, i - 1) \cup {i}
          /\ i \notin KeysUpTo(s, i - 1)
      BY <2>1, <2>3 DEF KeysUpTo, IsKey
    <3>2. Cardinality(KeysUpTo(s, i)) = Cardinality(KeysUpTo(s, i - 1)) + 1
      BY <2>2, <3>1, FS_AddElement
    <3>3. K[i] = Append(K[i - 1], s[i])
      BY <1>2, <2>3 DEF Filtered
    <3> QED
      BY <1>4, <2>3, <3>2, <3>3
  <2>4. CASE s[i] \notin S
    <3>1. KeysUpTo(s, i) = KeysUpTo(s, i - 1)
      BY <2>1, <2>4 DEF KeysUpTo, IsKey
    <3>2. K[i] = K[i - 1]
      BY <1>2, <2>4 DEF Filtered
    <3> QED
      BY <1>4, <3>1, <3>2
  <2> QED
    BY <2>3, <2>4
<1>5. \A i \in 0..Len(s) : Right(i)
  <2> DEFINE Bad == {i \in 0..Len(s) : ~Right(i)}
  <2> SUFFICES ASSUME Bad # {}
               PROVE  FALSE
    OBVIOUS
  <2>1. PICK n \in Bad : \A m \in Bad : n <= m
    <3>1. Bad \in SUBSET Nat
      OBVIOUS
    <3> HIDE DEF Bad
    <3> QED
      BY <3>1, LeastNumber
  <2>2. n # 0
    BY <1>3
  <2>3. n \in 1..Len(s) /\ n - 1 \in 0..Len(s) /\ ~(n <= n - 1)
    BY <2>2
  <2>4. Right(n - 1)
    BY <2>1, <2>3
  <2> HIDE DEF Right
  <2> QED
    BY <1>4, <2>3, <2>4
<1> HIDE DEF Right
<1>6. Right(Len(s))
  BY <1>1, <1>5
<1> QED
  BY <1>2, <1>6 DEF Right

(* The keys of a piece are counted where the piece was taken from.         *)
LEMMA KeysOfPiece ==
    ASSUME NEW s \in Seq(KeyKind), NEW n \in Nat, NEW m \in Nat,
           n + m <= Len(s)
    PROVE  Cardinality(KeysUpTo(s, n + m)) =
             Cardinality(KeysUpTo(s, n))
             + Cardinality(KeysUpTo(SubSeq(s, n + 1, n + m), m))
<1> DEFINE t == SubSeq(s, n + 1, n + m)
           B == {i \in (n + 1)..(n + m) : IsKey(s[i])}
           f == [i \in KeysUpTo(t, m) |-> n + i]
<1>1. \A i \in 1..m : t[i] = s[n + i]
  OBVIOUS
<1>2. f \in Bijection(KeysUpTo(t, m), B)
  <2>1. f \in [KeysUpTo(t, m) -> B]
    <3>1. ASSUME NEW i \in KeysUpTo(t, m)
          PROVE  n + i \in B
      <4>1. i \in 1..m /\ IsKey(t[i])
        BY DEF KeysUpTo
      <4> QED
        BY <1>1, <4>1
    <3> QED
      BY <3>1
  <2>2. \A a, b \in KeysUpTo(t, m) : f[a] = f[b] => a = b
    BY DEF KeysUpTo
  <2>3. ASSUME NEW b \in B
        PROVE  \E a \in KeysUpTo(t, m) : f[a] = b
    <3>1. b - n \in 1..m /\ n + (b - n) = b
      OBVIOUS
    <3>2. b - n \in KeysUpTo(t, m)
      BY <1>1, <3>1 DEF KeysUpTo
    <3> QED
      BY <3>1, <3>2
  <2> HIDE DEF f, B
  <2> QED
    BY <2>1, <2>2, <2>3 DEF Bijection, Injection, Surjection, IsInjective
<1>3. IsFiniteSet(KeysUpTo(t, m))
  BY KeysFinite
<1>4. IsFiniteSet(B) /\ Cardinality(B) = Cardinality(KeysUpTo(t, m))
  BY <1>2, <1>3, FS_Bijection DEF ExistsBijection
<1>5. KeysUpTo(s, n + m) = KeysUpTo(s, n) \cup B /\ KeysUpTo(s, n) \cap B = {}
  BY DEF KeysUpTo
<1>6. IsFiniteSet(KeysUpTo(s, n)) /\ Cardinality(KeysUpTo(s, n)) \in Nat
  BY KeysFinite
<1>7. Cardinality(KeysUpTo(t, m)) \in Nat
  BY KeysFinite
<1> HIDE DEF B, f, t
<1>8. Cardinality(KeysUpTo(s, n) \cup B) =
        Cardinality(KeysUpTo(s, n)) + Cardinality(B)
        - Cardinality(KeysUpTo(s, n) \cap B)
  BY <1>4, <1>6, FS_Union
<1>9. Cardinality(KeysUpTo(s, n) \cap B) = 0
  BY <1>5, FS_EmptySet
<1>10. Cardinality(KeysUpTo(s, n + m)) = Cardinality(KeysUpTo(s, n) \cup B)
  BY <1>5
<1>11. Cardinality(KeysUpTo(s, n + m)) =
         Cardinality(KeysUpTo(s, n)) + Cardinality(KeysUpTo(t, m))
  BY <1>4, <1>6, <1>7, <1>8, <1>9, <1>10
<1> QED
  BY <1>11 DEF t

(* What is typed after the first n keys, none of which leaves, takes none  *)
(* of them away.                                                           *)
LEMMA KeysAreMine ==
    ASSUME NEW s \in Seq(KeyKind), NEW n \in 0..Len(s),
           \A j \in 1..n : ~IsStop(s[j])
    PROVE  Cardinality(KeysUpTo(s, n)) <= Cardinality(Mine(s))
<1>1. KeysUpTo(s, n) \subseteq Mine(s)
  BY DEF KeysUpTo, Mine
<1> QED
  BY <1>1, MineFinite, FS_Subset

LEMMA MoreTyped ==
    ASSUME NEW s \in Seq(KeyKind), NEW k \in KeyKind
    PROVE  /\ Append(s, k) \in Seq(KeyKind)
           /\ Len(Append(s, k)) = Len(s) + 1
           /\ \A i \in 1..Len(s) : Append(s, k)[i] = s[i]
           /\ \A n \in 0..Len(s) : KeysUpTo(Append(s, k), n) = KeysUpTo(s, n)
           /\ Cardinality(Mine(s)) <= Cardinality(Mine(Append(s, k)))
<1>1. /\ Append(s, k) \in Seq(KeyKind) /\ Len(Append(s, k)) = Len(s) + 1
      /\ \A i \in 1..Len(s) : Append(s, k)[i] = s[i]
  OBVIOUS
<1>2. \A n \in 0..Len(s) : KeysUpTo(Append(s, k), n) = KeysUpTo(s, n)
  BY <1>1 DEF KeysUpTo
<1>3. Mine(s) \subseteq Mine(Append(s, k))
  BY <1>1 DEF Mine
<1> QED
  BY <1>1, <1>2, <1>3, MineFinite, FS_Subset

(* What filter_task_input forwards of a read, and what it says to do: all  *)
(* keys, or those before the first key that leaves.                        *)
LEMMA FilterInputCounts ==
    ASSUME NEW t \in Seq(KeyKind)
    PROVE  /\ FilterInput(t).bytes \in Seq({"key"})
           /\ FilterInput(t).action \in {"forward", "back", "new"}
           /\ \E p \in 0..Len(t) :
                 /\ \A j \in 1..p : ~IsStop(t[j])
                 /\ Len(FilterInput(t).bytes) = Cardinality(KeysUpTo(t, p))
                 /\ FilterInput(t).action = "forward" => p = Len(t)
<1> DEFINE n == IF Stops(t) = {} THEN Len(t) ELSE Min(Stops(t)) - 1
<1>1. /\ FilterInput(t).bytes = Keeping(SubSeq(t, 1, n), {"key"})
      /\ FilterInput(t).action = IF Stops(t) = {} THEN "forward" ELSE t[n + 1]
  BY DEF FilterInput
<1>2. /\ n \in 0..Len(t) /\ \A j \in 1..n : ~IsStop(t[j])
      /\ Stops(t) # {} => n + 1 \in Stops(t)
  <2>1. CASE Stops(t) = {}
    BY <2>1 DEF Stops
  <2>2. CASE Stops(t) # {}
    <3>1. Stops(t) \in SUBSET Nat /\ Stops(t) \subseteq 1..Len(t)
      BY DEF Stops
    <3>2. /\ Min(Stops(t)) \in Stops(t)
          /\ \A i \in Stops(t) : Min(Stops(t)) <= i
      BY <2>2, <3>1, LeastNumber DEF Min
    <3>3. n = Min(Stops(t)) - 1 /\ Min(Stops(t)) \in 1..Len(t)
      BY <2>2, <3>1, <3>2
    <3>4. ASSUME NEW j \in 1..n
          PROVE  ~IsStop(t[j])
      <4>1. j \notin Stops(t)
        BY <3>1, <3>2, <3>3
      <4> QED
        BY <3>3, <4>1 DEF Stops
    <3> QED
      BY <3>2, <3>3, <3>4
  <2> QED
    BY <2>1, <2>2
<1> HIDE DEF n
<1>3. /\ SubSeq(t, 1, n) \in Seq(KeyKind) /\ Len(SubSeq(t, 1, n)) = n
      /\ \A i \in 1..n : SubSeq(t, 1, n)[i] = t[i]
  BY <1>2
<1>4. KeysUpTo(SubSeq(t, 1, n), n) = KeysUpTo(t, n)
  BY <1>3 DEF KeysUpTo
<1>5. /\ FilterInput(t).bytes \in Seq({"key"})
      /\ Len(FilterInput(t).bytes) = Cardinality(KeysUpTo(t, n))
  BY <1>1, <1>3, <1>4, KeepingCounts
<1>6. Stops(t) # {} => FilterInput(t).action \in {"back", "new"}
  BY <1>1, <1>2 DEF Stops, IsStop
<1>7. Stops(t) = {} => n = Len(t) /\ FilterInput(t).action = "forward"
  BY <1>1 DEF n
<1> QED
  BY <1>2, <1>5, <1>6, <1>7

-----------------------------------------------------------------------------
TtyRow == [size : 0..MaxResizes, keys : Seq(KeyKind), typed : Seq(KeyKind),
           winch : BOOLEAN, handler : BOOLEAN]

Pumping == {"sync", "poll", "wait"}
Leaving == {"detach", "reap", "over"}
AttRow == [st : {"start", "install", "fork"} \cup Pumping \cup Leaving,
           forkSize : 0..MaxResizes, tries : 0..MaxTries, first : BOOLEAN,
           got : Seq({"key"}), sig : {"none", "hup", "term", "kill"},
           end : {"none", "normal", "new", "error"}, blind : BOOLEAN,
           attaches : Nat, goal : {"none", "forward", "back", "new"}]

KidRow == [st : {"none", "alive", "dead", "reaped"}, size : 0..MaxResizes,
           hup : BOOLEAN, ok : BOOLEAN, eintr : BOOLEAN]

AttachTyped == tty \in TtyRow /\ att \in AttRow /\ kid \in KidRow

(* The first n keys typed have been read, all of them for the task.        *)
ReadUpTo(n) ==
    /\ tty.keys = SubSeq(tty.typed, n + 1, Len(tty.typed))
    /\ \A j \in 1..n : ~IsStop(tty.typed[j])
    /\ Len(att.got) = Cardinality(KeysUpTo(tty.typed, n))

(* Until it is left the session has forwarded the keys it has read; later  *)
(* it has forwarded no more than was meant for the task.                   *)
KeysForwarded ==
    /\ att.st \notin Leaving => \E n \in 0..Len(tty.typed) : ReadUpTo(n)
    /\ Len(att.got) <= Cardinality(Mine(tty.typed))

(* A reserved key is obeyed at once; a session that was left well has      *)
(* reaped its client.                                                      *)
LeftWell ==
    /\ att.goal \in {"back", "new"} => att.st \in Leaving
    /\ att.st = "reap" => att.sig # "none"
    /\ att.st = "over" /\ att.goal \in {"back", "new"} /\ att.end # "error"
          => kid.st = "reaped" /\ att.end \in {"normal", "new"}

(* The handler is there before the first client is, and the flag is up     *)
(* when that client is started.                                            *)
SizeFollowed ==
    /\ att.st \notin {"start", "install"} => tty.handler
    /\ att.st \in Pumping => att.attaches # 0
    /\ att.st = "fork" /\ att.attaches = 0 => tty.winch
    /\ att.st \in {"sync", "poll"} /\ att.first /\ ~att.blind
          => kid.size = tty.size \/ tty.winch

AttachIInv == AttachTyped /\ KeysForwarded /\ LeftWell /\ SizeFollowed

(* Pieces of a sequence: the rest after n elements grows with it, and what *)
(* is read of the rest is the next piece.                                  *)
LEMMA SamePiece ==
    ASSUME NEW R, NEW s \in Seq(R), NEW t \in Seq(R), Len(s) = Len(t),
           \A i \in 1..Len(s) : s[i] = t[i]
    PROVE  s = t
  OBVIOUS

LEMMA LenTogether ==
    ASSUME NEW R, NEW s \in Seq(R), NEW t \in Seq(R)
    PROVE  Len(s \o t) = Len(s) + Len(t)
  OBVIOUS

LEMMA AppendedType ==
    ASSUME NEW R, NEW s \in Seq(R), NEW e \in R
    PROVE  Append(s, e) \in Seq(R) /\ Len(Append(s, e)) = Len(s) + 1
  OBVIOUS

LEMMA LastAppended ==
    ASSUME NEW R, NEW s \in Seq(R), NEW e, NEW i \in 1..(Len(s) + 1)
    PROVE  Append(s, e)[i] = IF i = Len(s) + 1 THEN e ELSE s[i]
  OBVIOUS

LEMMA RestOf ==
    ASSUME NEW R, NEW s \in Seq(R), NEW n \in 0..Len(s)
    PROVE  /\ SubSeq(s, n + 1, Len(s)) \in Seq(R)
           /\ Len(SubSeq(s, n + 1, Len(s))) = Len(s) - n
           /\ \A i \in 1..(Len(s) - n) :
                 SubSeq(s, n + 1, Len(s))[i] = s[n + i]
  OBVIOUS

LEMMA RestGrows ==
    ASSUME NEW R, NEW s \in Seq(R), NEW n \in 0..Len(s), NEW e \in R
    PROVE  Append(SubSeq(s, n + 1, Len(s)), e)
             = SubSeq(Append(s, e), n + 1, Len(Append(s, e)))
<1> DEFINE a == Append(SubSeq(s, n + 1, Len(s)), e)
           b == SubSeq(Append(s, e), n + 1, Len(Append(s, e)))
<1>1. /\ Append(s, e) \in Seq(R) /\ Len(Append(s, e)) = Len(s) + 1
      /\ \A i \in 1..(Len(s) + 1) :
            Append(s, e)[i] = IF i = Len(s) + 1 THEN e ELSE s[i]
  OBVIOUS
<1>2. /\ a \in Seq(R) /\ Len(a) = Len(s) - n + 1
      /\ \A i \in 1..(Len(s) - n + 1) :
            a[i] = IF i = Len(s) - n + 1 THEN e ELSE s[n + i]
  <2> DEFINE r == SubSeq(s, n + 1, Len(s))
  <2>1. /\ r \in Seq(R) /\ Len(r) = Len(s) - n
        /\ \A i \in 1..(Len(s) - n) : r[i] = s[n + i]
    BY RestOf
  <2> HIDE DEF r
  <2>2. Append(r, e) \in Seq(R) /\ Len(Append(r, e)) = Len(s) - n + 1
    <3>1. r \in Seq(R) /\ Len(r) = Len(s) - n
      BY <2>1
    <3>2. Append(r, e) \in Seq(R) /\ Len(Append(r, e)) = Len(r) + 1
      BY <3>1, AppendedType
    <3> QED
      BY <3>1, <3>2
  <2>3. ASSUME NEW i \in 1..(Len(s) - n + 1)
        PROVE  Append(r, e)[i] = IF i = Len(s) - n + 1 THEN e ELSE s[n + i]
    <3>1. Append(r, e)[i] = IF i = Len(r) + 1 THEN e ELSE r[i]
      <4>1. i \in 1..(Len(r) + 1)
        BY <2>1
      <4> QED
        BY <2>1, <4>1, LastAppended
    <3>2. i # Len(s) - n + 1 => i \in 1..(Len(s) - n)
      OBVIOUS
    <3> QED
      BY <2>1, <3>1, <3>2
  <2> QED
    BY <2>2, <2>3 DEF r
<1>3. /\ b \in Seq(R) /\ Len(b) = Len(s) + 1 - n
      /\ \A i \in 1..(Len(s) + 1 - n) : b[i] = Append(s, e)[n + i]
  <2>1. n \in 0..Len(Append(s, e))
    BY <1>1
  <2> QED
    BY <1>1, <2>1, RestOf
<1> HIDE DEF a, b
<1>4. ASSUME NEW i \in 1..Len(a)
      PROVE  a[i] = b[i]
  <2>1. /\ i \in 1..(Len(s) - n + 1) /\ i \in 1..(Len(s) + 1 - n)
        /\ n + i \in 1..(Len(s) + 1) /\ Len(s) \in Nat
    BY <1>2
  <2>2. b[i] = Append(s, e)[n + i]
    BY <1>3, <2>1
  <2>3. Append(s, e)[n + i] = IF n + i = Len(s) + 1 THEN e ELSE s[n + i]
    BY <1>1, <2>1
  <2> QED
    BY <1>2, <2>1, <2>2, <2>3
<1>5. a = b
  <2>1. Len(a) = Len(b)
    BY <1>2, <1>3
  <2> QED
    BY <1>2, <1>3, <1>4, <2>1, SamePiece
<1> QED
  BY <1>5 DEF a, b

LEMMA PieceOfRest ==
    ASSUME NEW R, NEW s \in Seq(R), NEW n \in 0..Len(s),
           NEW m \in 0..(Len(s) - n)
    PROVE  LET r == SubSeq(s, n + 1, Len(s))
           IN  /\ SubSeq(r, 1, m) \in Seq(R) /\ Len(SubSeq(r, 1, m)) = m
               /\ \A i \in 1..m : SubSeq(r, 1, m)[i] = s[n + i]
               /\ SubSeq(r, m + 1, Len(r)) = SubSeq(s, n + m + 1, Len(s))
<1> DEFINE r == SubSeq(s, n + 1, Len(s))
           a == SubSeq(r, m + 1, Len(r))
           b == SubSeq(s, n + m + 1, Len(s))
<1>1. /\ r \in Seq(R) /\ Len(r) = Len(s) - n
      /\ \A i \in 1..(Len(s) - n) : r[i] = s[n + i]
  BY RestOf
<1> HIDE DEF r
<1>2. /\ SubSeq(r, 1, m) \in Seq(R) /\ Len(SubSeq(r, 1, m)) = m
      /\ \A i \in 1..m : SubSeq(r, 1, m)[i] = s[n + i]
  <2>1. m <= Len(r) /\ m \in Nat
    BY <1>1
  <2>2. /\ SubSeq(r, 1, m) \in Seq(R) /\ Len(SubSeq(r, 1, m)) = m
        /\ \A i \in 1..m : SubSeq(r, 1, m)[i] = r[i] /\ i \in 1..(Len(s) - n)
    BY <1>1, <2>1
  <2> QED
    BY <1>1, <2>2
<1>3. /\ a \in Seq(R) /\ Len(a) = Len(s) - n - m
      /\ \A i \in 1..(Len(s) - n - m) : a[i] = r[m + i]
  <2>1. m \in 0..Len(r) /\ Len(r) - m = Len(s) - n - m
    BY <1>1
  <2> QED
    BY <1>1, <2>1, RestOf
<1>4. /\ b \in Seq(R) /\ Len(b) = Len(s) - n - m
      /\ \A i \in 1..(Len(s) - n - m) : b[i] = s[n + m + i]
  <2>1. n + m \in 0..Len(s) /\ Len(s) - (n + m) = Len(s) - n - m
    OBVIOUS
  <2> QED
    BY <2>1, RestOf
<1> HIDE DEF a, b
<1>5. ASSUME NEW i \in 1..Len(a)
      PROVE  a[i] = b[i]
  <2>1. i \in 1..(Len(s) - n - m) /\ m + i \in 1..(Len(s) - n)
        /\ n + (m + i) = n + m + i
    BY <1>3
  <2> QED
    BY <1>1, <1>3, <1>4, <2>1
<1>6. a = b
  <2>1. Len(a) = Len(b)
    BY <1>3, <1>4
  <2> QED
    BY <1>3, <1>4, <1>5, <2>1, SamePiece
<1> QED
  BY <1>2, <1>6 DEF a, b, r

(* The operator types and resizes.                                         *)
LEMMA OperatorStep ==
    ASSUME AttachIInv, TypeKey \/ ResizeTerminal
    PROVE  AttachIInv'
<1>1. tty \in TtyRow /\ att \in AttRow /\ kid \in KidRow
  BY DEF AttachIInv, AttachTyped
<1>2. CASE TypeKey
  <2> DEFINE s == tty.typed
  <2>1. PICK k \in KeyKind :
          tty' = [tty EXCEPT !.keys = Append(@, k), !.typed = Append(@, k)]
    BY <1>2 DEF TypeKey, KeyKind
  <2>2. UNCHANGED <<att, kid>>
    BY <1>2 DEF TypeKey
  <2>3. s \in Seq(KeyKind) /\ tty.keys \in Seq(KeyKind) /\ Len(s) \in Nat
    BY <1>1 DEF TtyRow
  <2>4. /\ Append(s, k) \in Seq(KeyKind) /\ Len(Append(s, k)) = Len(s) + 1
        /\ \A i \in 1..Len(s) : Append(s, k)[i] = s[i]
        /\ \A n \in 0..Len(s) : KeysUpTo(Append(s, k), n) = KeysUpTo(s, n)
        /\ Cardinality(Mine(s)) <= Cardinality(Mine(Append(s, k)))
        /\ Cardinality(Mine(s)) \in Nat
    BY <2>3, MoreTyped, MineFinite
  <2>5. Cardinality(Mine(Append(s, k))) \in Nat
    BY <2>4, MineFinite
  <2>6. /\ tty'.keys = Append(tty.keys, k) /\ tty'.typed = Append(s, k)
         /\ tty'.winch = tty.winch /\ tty'.handler = tty.handler
         /\ tty'.size = tty.size
    BY <1>1, <2>1 DEF TtyRow
  <2>7. tty' \in TtyRow
    <3>1. Append(tty.keys, k) \in Seq(KeyKind)
      BY <2>3
    <3> QED
      BY <1>1, <2>1, <2>4, <3>1 DEF TtyRow
  <2>8. ASSUME NEW n \in 0..Len(s), ReadUpTo(n)
        PROVE  n \in 0..Len(tty'.typed) /\ ReadUpTo(n)'
    <3>1. tty.keys = SubSeq(s, n + 1, Len(s))
      BY <2>8 DEF ReadUpTo
    <3>2. tty'.keys = SubSeq(tty'.typed, n + 1, Len(tty'.typed))
      BY <2>3, <2>8, <2>6, <3>1, RestGrows
    <3>3. \A j \in 1..n : ~IsStop(tty'.typed[j])
      <4>1. \A j \in 1..n : j \in 1..Len(s)
        BY <2>3, <2>8
      <4> QED
        BY <2>4, <2>8, <2>6, <4>1 DEF ReadUpTo
    <3>4. Len(att'.got) = Cardinality(KeysUpTo(tty'.typed, n))
      BY <2>2, <2>4, <2>8, <2>6 DEF ReadUpTo
    <3>5. n \in 0..Len(tty'.typed)
      BY <2>3, <2>4, <2>6
    <3> QED
      BY <3>2, <3>3, <3>4, <3>5 DEF ReadUpTo
  <2>9. KeysForwarded'
    <3>1. att'.st \notin Leaving => \E n \in 0..Len(tty'.typed) : ReadUpTo(n)'
      BY <2>2, <2>8 DEF AttachIInv, KeysForwarded
    <3>2. Len(att'.got) <= Cardinality(Mine(tty'.typed))
      <4>1. Len(att.got) \in Nat
        BY <1>1 DEF AttRow
      <4> QED
        BY <2>2, <2>4, <2>5, <2>6, <4>1 DEF AttachIInv, KeysForwarded
    <3> QED
      BY <3>1, <3>2 DEF KeysForwarded
  <2>10. AttachTyped' /\ LeftWell' /\ SizeFollowed'
    BY <1>1, <2>2, <2>6, <2>7 DEF AttachIInv, AttachTyped, LeftWell,
       SizeFollowed
  <2> QED
    BY <2>9, <2>10 DEF AttachIInv
<1>3. CASE ResizeTerminal
  <2>1. /\ tty'.keys = tty.keys /\ tty'.typed = tty.typed
        /\ tty'.handler = tty.handler
        /\ tty'.winch = (tty.winch \/ tty.handler)
        /\ UNCHANGED <<att, kid>>
    BY <1>1, <1>3 DEF ResizeTerminal, TtyRow
  <2>2. tty' \in TtyRow
    <3>1. tty.size + 1 \in 0..MaxResizes
      BY <1>1, <1>3, AttachAssumption DEF ResizeTerminal, TtyRow
    <3> QED
      BY <1>1, <1>3, <3>1 DEF ResizeTerminal, TtyRow
  <2>3. AttachTyped' /\ LeftWell'
    BY <1>1, <2>1, <2>2 DEF AttachIInv, AttachTyped, LeftWell
  <2>4. KeysForwarded'
    BY <2>1 DEF AttachIInv, KeysForwarded, ReadUpTo
  <2>5. SizeFollowed'
    BY <2>1 DEF AttachIInv, SizeFollowed
  <2> QED
    BY <2>3, <2>4, <2>5 DEF AttachIInv
<1> QED
  BY <1>2, <1>3

(* What is read is the next piece of what was typed, so what it adds to    *)
(* the forwarded keys is counted by KeysOfPiece.                           *)
LEMMA ReadStep ==
    ASSUME AttachIInv, ReadTerminal
    PROVE  AttachIInv'
<1> DEFINE s == tty.typed
<1>1. tty \in TtyRow /\ att \in AttRow /\ kid \in KidRow
  BY DEF AttachIInv, AttachTyped
<1>2. s \in Seq(KeyKind) /\ tty.keys \in Seq(KeyKind) /\ Len(s) \in Nat
      /\ att.got \in Seq({"key"})
  BY <1>1 DEF TtyRow, AttRow
<1>3. PICK m \in 1..Len(tty.keys) :
        LET f == FilterInput(SubSeq(tty.keys, 1, m))
        IN  /\ tty' = [tty EXCEPT !.keys = SubSeq(@, m + 1, Len(@))]
            /\ att' = [att EXCEPT
                         !.got = @ \o f.bytes, !.goal = f.action,
                         !.st = IF f.action = "forward" THEN "sync"
                                ELSE "detach"]
  BY DEF ReadTerminal
<1>4. att.st = "poll" /\ UNCHANGED kid
  BY DEF ReadTerminal
<1>5. PICK n \in 0..Len(s) : ReadUpTo(n)
  BY <1>4 DEF AttachIInv, KeysForwarded, Leaving
<1> DEFINE t == SubSeq(tty.keys, 1, m)
           f == FilterInput(t)
<1>6. /\ tty.keys = SubSeq(s, n + 1, Len(s)) /\ Len(tty.keys) = Len(s) - n
      /\ m \in 0..(Len(s) - n) /\ n + m \in 0..Len(s) /\ m \in Nat
  <2>1. tty.keys = SubSeq(s, n + 1, Len(s))
    BY <1>5 DEF ReadUpTo
  <2>2. Len(tty.keys) = Len(s) - n
    BY <1>2, <1>5, <2>1, RestOf
  <2> QED
    BY <1>2, <1>3, <1>5, <2>1, <2>2
<1>7. /\ t \in Seq(KeyKind) /\ Len(t) = m
      /\ \A i \in 1..m : t[i] = s[n + i]
      /\ SubSeq(tty.keys, m + 1, Len(tty.keys)) = SubSeq(s, n + m + 1, Len(s))
  BY <1>2, <1>5, <1>6, PieceOfRest
<1>8. /\ f.bytes \in Seq({"key"}) /\ f.action \in {"forward", "back", "new"}
      /\ \E p \in 0..m : /\ \A j \in 1..p : ~IsStop(t[j])
                         /\ Len(f.bytes) = Cardinality(KeysUpTo(t, p))
                         /\ f.action = "forward" => p = m
  BY <1>7, FilterInputCounts
<1>9. PICK p \in 0..m : /\ \A j \in 1..p : ~IsStop(t[j])
                        /\ Len(f.bytes) = Cardinality(KeysUpTo(t, p))
                        /\ f.action = "forward" => p = m
  BY <1>8
<1> HIDE DEF f, t
<1>10. /\ tty'.keys = SubSeq(tty.keys, m + 1, Len(tty.keys))
       /\ tty'.typed = s /\ tty'.winch = tty.winch /\ tty'.size = tty.size
       /\ tty'.handler = tty.handler /\ tty' \in TtyRow
  <2>1. SubSeq(tty.keys, m + 1, Len(tty.keys)) \in Seq(KeyKind)
    BY <1>2, <1>6
  <2> QED
    BY <1>1, <1>3, <2>1 DEF TtyRow
<1>11. /\ att'.got = att.got \o f.bytes /\ att'.goal = f.action
       /\ att'.st = IF f.action = "forward" THEN "sync" ELSE "detach"
       /\ att'.first = att.first /\ att'.blind = att.blind
       /\ att'.attaches = att.attaches /\ att'.end = att.end
       /\ att' \in AttRow
  <2>1. att.got \o f.bytes \in Seq({"key"})
    BY <1>2, <1>8
  <2>2. att' = [att EXCEPT !.got = @ \o f.bytes, !.goal = f.action,
                           !.st = IF f.action = "forward" THEN "sync"
                                  ELSE "detach"]
    BY <1>3 DEF f, t
  <2> QED
    BY <1>1, <1>8, <2>1, <2>2 DEF AttRow, Pumping, Leaving
<1>12. \A j \in 1..(n + p) : ~IsStop(s[j])
  <2> SUFFICES ASSUME NEW j \in 1..(n + p)
               PROVE  ~IsStop(s[j])
    OBVIOUS
  <2>1. CASE j \in 1..n
    BY <1>5, <2>1 DEF ReadUpTo
  <2>2. CASE j \notin 1..n
    <3>1. j - n \in 1..p /\ j - n \in 1..m /\ n + (j - n) = j
      BY <1>6, <2>2
    <3> QED
      BY <1>7, <1>9, <3>1
  <2> QED
    BY <2>1, <2>2
<1>13. Len(att'.got) = Cardinality(KeysUpTo(s, n + p))
  <2>1. n + p <= Len(s) /\ n \in Nat /\ p \in Nat
    BY <1>6
  <2>2. KeysUpTo(SubSeq(s, n + 1, n + p), p) = KeysUpTo(t, p)
    <3>1. \A i \in 1..p : SubSeq(s, n + 1, n + p)[i] = s[n + i] /\ i \in 1..m
      BY <1>2, <1>6, <2>1
    <3> QED
      BY <1>7, <3>1 DEF KeysUpTo
  <2>3. Len(att'.got) = Len(att.got) + Len(f.bytes)
    <3>1. Len(att.got \o f.bytes) = Len(att.got) + Len(f.bytes)
      BY <1>2, <1>8, LenTogether
    <3> QED
      BY <1>11, <3>1
  <2>4. Len(att.got) = Cardinality(KeysUpTo(s, n))
    BY <1>5 DEF ReadUpTo
  <2> QED
    BY <1>2, <1>9, <2>1, <2>2, <2>3, <2>4, KeysOfPiece
<1>14. KeysForwarded'
  <2>1. Len(att'.got) <= Cardinality(Mine(s))
    <3>1. n + p \in 0..Len(s)
      BY <1>2, <1>6
    <3> QED
      BY <1>2, <1>12, <1>13, <3>1, KeysAreMine
  <2>2. ASSUME att'.st \notin Leaving
        PROVE  ReadUpTo(n + m)'
    <3>1. p = m
      BY <1>9, <1>11, <2>2 DEF Leaving
    <3>2. tty'.keys = SubSeq(s, n + m + 1, Len(s))
      BY <1>7, <1>10
    <3> QED
      BY <1>10, <1>12, <1>13, <3>1, <3>2 DEF ReadUpTo
  <2> QED
    BY <1>6, <1>10, <2>1, <2>2 DEF KeysForwarded
<1>15. LeftWell' /\ SizeFollowed'
  BY <1>4, <1>8, <1>10, <1>11 DEF AttachIInv, LeftWell, SizeFollowed, Leaving,
     Pumping
<1> QED
  BY <1>1, <1>4, <1>10, <1>11, <1>14, <1>15 DEF AttachIInv, AttachTyped

(* The other steps read no key.                                            *)
LEMMA NothingRead ==
    ASSUME AttachIInv, tty'.keys = tty.keys, tty'.typed = tty.typed,
           att'.got = att.got, att.st \in Leaving => att'.st \in Leaving
    PROVE  KeysForwarded'
  BY DEF AttachIInv, KeysForwarded, ReadUpTo

LEMMA PumpStep ==
    ASSUME AttachIInv,
           \/ ReadWinsize \/ OpenTerminal \/ ForkPty \/ SyncWinsize
           \/ PollInterrupted \/ TerminalGone \/ ReadPty \/ PtyClosed
           \/ PumpFails
    PROVE  AttachIInv'
<1>1. tty \in TtyRow /\ att \in AttRow /\ kid \in KidRow
  BY DEF AttachIInv, AttachTyped
<1>2. tty' \in TtyRow /\ tty'.keys = tty.keys /\ tty'.typed = tty.typed
  BY <1>1 DEF ReadWinsize, OpenTerminal, ForkPty, SyncWinsize, InstallWinch,
     PollInterrupted, TerminalGone, ReadPty, PtyClosed, PumpFails, TtyRow
<1>3. /\ att' \in AttRow /\ att'.got = att.got
      /\ att.st \notin Leaving
  <2>1. CASE ReadWinsize
    BY <1>1, <2>1 DEF ReadWinsize, TtyRow, AttRow, Pumping, Leaving
  <2>2. CASE OpenTerminal \/ SyncWinsize \/ PollInterrupted
    BY <1>1, <2>2 DEF OpenTerminal, SyncWinsize, PollInterrupted, AttRow,
       Pumping, Leaving
  <2>3. CASE ForkPty
    <3>1. att.attaches + 1 \in Nat /\ (att.attaches = 0) \in BOOLEAN
      BY <1>1 DEF AttRow
    <3> QED
      BY <1>1, <2>3, <3>1 DEF ForkPty, AttRow, Pumping, Leaving
  <2>4. CASE TerminalGone \/ ReadPty \/ PtyClosed \/ PumpFails
    BY <1>1, <2>4 DEF TerminalGone, ReadPty, PtyClosed, PumpFails, AttRow,
       Pumping, Leaving
  <2> QED
    BY <2>1, <2>2, <2>3, <2>4
<1>4. kid' \in KidRow
  <2>1. CASE ForkPty
    BY <1>1, <2>1 DEF ForkPty, AttRow, KidRow, NoKid
  <2>2. CASE SyncWinsize
    BY <1>1, <2>2 DEF SyncWinsize, TtyRow, KidRow
  <2>3. CASE ReadPty
    BY <1>1, <2>3 DEF ReadPty, KidRow
  <2>4. CASE \/ ReadWinsize \/ OpenTerminal \/ PollInterrupted
             \/ TerminalGone \/ PtyClosed \/ PumpFails
    BY <1>1, <2>4 DEF ReadWinsize, OpenTerminal, PollInterrupted,
       TerminalGone, PtyClosed, PumpFails
  <2> QED
    BY <2>1, <2>2, <2>3, <2>4
<1>5. KeysForwarded'
  BY <1>2, <1>3, NothingRead
<1>6. LeftWell'
  BY <1>1 DEF ReadWinsize, OpenTerminal, ForkPty, SyncWinsize,
     PollInterrupted, TerminalGone, ReadPty, PtyClosed, PumpFails, AttRow,
     Pumping, Leaving, AttachIInv, LeftWell
<1>7. SizeFollowed'
  <2>1. CASE ReadWinsize \/ OpenTerminal \/ PumpFails
    BY <1>1, <2>1 DEF ReadWinsize, OpenTerminal, InstallWinch, PumpFails,
       AttRow,
       TtyRow, Pumping, AttachIInv, SizeFollowed
  <2>2. CASE ForkPty
    BY <1>1, <2>2 DEF ForkPty, AttRow, Pumping, AttachIInv, SizeFollowed
  <2>3. CASE SyncWinsize
    BY <1>1, <2>3 DEF SyncWinsize, AttRow, TtyRow, KidRow, Pumping, AttachIInv,
       SizeFollowed
  <2>4. CASE PollInterrupted \/ TerminalGone \/ ReadPty \/ PtyClosed
    BY <1>1, <2>4 DEF PollInterrupted, TerminalGone, ReadPty, PtyClosed,
       AttRow,
       KidRow, Pumping, AttachIInv, SizeFollowed
  <2> QED
    BY <2>1, <2>2, <2>3, <2>4
<1> QED
  BY <1>2, <1>3, <1>4, <1>5, <1>6, <1>7 DEF AttachIInv, AttachTyped

(* The end of a client and of the session.                                 *)
LEMMA EndStep ==
    ASSUME AttachIInv,
           \/ DetachChild \/ ShutdownAction \/ ReapChild \/ AttachExit
           \/ KidCloses \/ KidDies
    PROVE  AttachIInv'
<1>1. tty \in TtyRow /\ att \in AttRow /\ kid \in KidRow
  BY DEF AttachIInv, AttachTyped
<1>2. UNCHANGED tty
  BY DEF DetachChild, ShutdownAction, ReapChild, AttachExit, KidCloses, KidDies
<1>3. kid' \in KidRow /\ kid'.size = kid.size
  <2>1. CASE DetachChild \/ ShutdownAction \/ ReapChild
    BY <1>1, <2>1 DEF DetachChild, ShutdownAction, ReapChild, KidRow
  <2>2. CASE AttachExit
    <3>1. kid' \in {kid, [kid EXCEPT !.st = "reaped"]}
      BY <2>2 DEF AttachExit
    <3> QED
      BY <1>1, <3>1 DEF KidRow
  <2>3. CASE KidCloses \/ KidDies
    BY <1>1, <2>3 DEF KidCloses, KidDies, KidRow
  <2> QED
    BY <2>1, <2>2, <2>3
<1>4. CASE DetachChild \/ ReapChild
  <2>1. att' \in AttRow /\ att'.got = att.got /\ att'.st \in Leaving
    BY <1>1, <1>4 DEF DetachChild, ReapChild, AttRow, Leaving
  <2>2. LeftWell' /\ SizeFollowed'
    <3>1. CASE DetachChild
      BY <1>1, <1>2, <3>1 DEF DetachChild, AttRow, Pumping, Leaving,
         AttachIInv, LeftWell, SizeFollowed
    <3>2. CASE ReapChild
      BY <1>1, <1>2, <3>2 DEF ReapChild, AttRow, KidRow, Pumping, Leaving,
         AttachIInv, LeftWell, SizeFollowed
    <3> QED
      BY <1>4, <3>1, <3>2
  <2>3. KeysForwarded'
    BY <1>2, <2>1, NothingRead
  <2> QED
    BY <1>1, <1>2, <1>3, <2>1, <2>2, <2>3 DEF AttachIInv, AttachTyped
<1>5. CASE ShutdownAction
  <2>1. /\ att' \in AttRow /\ att'.got = att.got /\ att'.goal = att.goal
        /\ att'.st \in {"reap", "over"}
        /\ att'.st = "over" => att'.end = "error"
        /\ att'.st = "reap" => att'.sig # "none"
    <3>1. att.sig \in {"hup", "term", "kill"} /\ att.st = "reap"
      BY <1>1, <1>5 DEF ShutdownAction, AttRow, AttachIInv, LeftWell
    <3>2. \/ att' = [att EXCEPT !.sig = "term"]
          \/ att' = [att EXCEPT !.sig = "kill"]
          \/ att' = [att EXCEPT !.st = "over", !.end = "error"]
      BY <1>5, <3>1 DEF ShutdownAction
    <3> QED
      BY <1>1, <3>1, <3>2 DEF AttRow, Leaving
  <2>2. LeftWell' /\ SizeFollowed'
    BY <1>2, <1>5, <2>1 DEF ShutdownAction, Pumping, Leaving, AttachIInv,
       LeftWell, SizeFollowed
  <2>3. KeysForwarded'
    BY <1>2, <2>1, NothingRead DEF Leaving
  <2> QED
    BY <1>1, <1>2, <1>3, <2>1, <2>2, <2>3 DEF AttachIInv, AttachTyped
<1>6. CASE AttachExit
  <2>1. /\ att' \in AttRow /\ att'.got = att.got /\ att'.goal = att.goal
        /\ att'.st \in {"fork", "over"} /\ att.st = "wait"
        /\ att'.attaches = att.attaches
    <3>1. PICK known \in {TRUE, FALSE}, lasted \in BOOLEAN :
            LET tries == IF lasted THEN 0 ELSE att.tries
                retry == ~(known /\ kid.ok) /\ kid.eintr
            IN  att' = [att EXCEPT
                          !.tries = IF retry /\ tries < MaxTries
                                    THEN tries + 1 ELSE tries,
                          !.st = IF retry /\ tries < MaxTries
                                 THEN "fork" ELSE "over",
                          !.end = IF ~retry THEN "normal"
                                  ELSE IF tries < MaxTries THEN @ ELSE "error"]
      BY <1>6 DEF AttachExit
    <3> DEFINE tries == IF lasted THEN 0 ELSE att.tries
               retry == ~(known /\ kid.ok) /\ kid.eintr
               next == IF retry /\ tries < MaxTries THEN tries + 1 ELSE tries
               to == IF retry /\ tries < MaxTries THEN "fork" ELSE "over"
               how == IF ~retry THEN "normal"
                      ELSE IF tries < MaxTries THEN att.end ELSE "error"
    <3>2. next \in 0..MaxTries
      BY <1>1, AttachAssumption DEF AttRow
    <3>3. how \in {"none", "normal", "new", "error"}
      BY <1>1 DEF AttRow
    <3>4. to \in {"fork", "over"}
      OBVIOUS
    <3>5. att' = [att EXCEPT !.tries = next, !.st = to, !.end = how]
      BY <1>1, <3>1 DEF AttRow
    <3>6. att.st = "wait"
      BY <1>6 DEF AttachExit
    <3> HIDE DEF next, to, how
    <3> QED
      BY <1>1, <3>2, <3>3, <3>4, <3>5, <3>6 DEF AttRow, Leaving
  <2>2. LeftWell' /\ SizeFollowed'
    BY <1>2, <2>1 DEF Pumping, Leaving, AttachIInv, LeftWell, SizeFollowed
  <2>3. KeysForwarded'
    BY <1>2, <2>1, NothingRead DEF Leaving
  <2> QED
    BY <1>1, <1>2, <1>3, <2>1, <2>2, <2>3 DEF AttachIInv, AttachTyped
<1>7. CASE KidCloses \/ KidDies
  <2>1. UNCHANGED att /\ kid.st = "alive"
    BY <1>7 DEF KidCloses, KidDies
  <2>2. LeftWell' /\ SizeFollowed'
    BY <1>2, <1>3, <2>1 DEF AttachIInv, LeftWell, SizeFollowed
  <2>3. KeysForwarded'
    BY <1>2, <2>1, NothingRead
  <2> QED
    BY <1>1, <1>2, <1>3, <2>1, <2>2, <2>3 DEF AttachIInv, AttachTyped
<1> QED
  BY <1>4, <1>5, <1>6, <1>7

LEMMA AttachStart == AttachInit => AttachIInv
<1> SUFFICES ASSUME AttachInit
             PROVE  AttachIInv
  OBVIOUS
<1>1. AttachTyped
  BY AttachAssumption DEF AttachInit, AttachTyped, TtyRow, AttRow, KidRow,
     NoKid,
     Pumping, Leaving
<1>2. /\ tty.typed = <<>> /\ tty.keys = <<>> /\ att.got = <<>>
      /\ tty.winch = FALSE
  BY DEF AttachInit
<1>3. ReadUpTo(0)
  <2>1. KeysUpTo(tty.typed, 0) = {}
    BY DEF KeysUpTo
  <2> QED
    BY <1>2, <2>1, FS_EmptySet DEF ReadUpTo
<1>4. KeysForwarded
  <2>1. tty.typed \in Seq(KeyKind) /\ Len(tty.typed) = 0 /\ Len(att.got) = 0
    BY <1>2
  <2>2. Cardinality(Mine(tty.typed)) \in Nat
    BY <2>1, MineFinite
  <2> QED
    BY <1>3, <2>1, <2>2 DEF KeysForwarded
<1>5. LeftWell /\ SizeFollowed
  BY DEF AttachInit, LeftWell, SizeFollowed, Pumping, Leaving
<1> QED
  BY <1>1, <1>4, <1>5 DEF AttachIInv

LEMMA AttachStep == AttachIInv /\ [AttachNext]_attachVars => AttachIInv'
<1>1. ASSUME AttachIInv, UNCHANGED attachVars
      PROVE  AttachIInv'
  BY <1>1 DEF attachVars, AttachIInv, AttachTyped, KeysForwarded, ReadUpTo,
     LeftWell, SizeFollowed
<1> QED
  BY <1>1, OperatorStep, ReadStep, PumpStep, EndStep DEF AttachNext

LEMMA AttachKeeps == AttachIInv => AttachFaithful
<1> SUFFICES ASSUME AttachIInv
             PROVE  AttachFaithful
  OBVIOUS
<1> DEFINE c == Cardinality(Mine(tty.typed))
<1>1. tty.typed \in Seq(KeyKind) /\ att.got \in Seq({"key"})
  BY DEF AttachIInv, AttachTyped, TtyRow, AttRow
<1>2. c \in Nat /\ Len(att.got) \in Nat /\ Len(att.got) <= c
  BY <1>1, MineFinite DEF AttachIInv, KeysForwarded
<1>3. Addressed(tty.typed) = [i \in 1..c |-> "key"]
  BY DEF Addressed, Mine
<1> HIDE DEF c
<1>4. IsPrefix(att.got, [i \in 1..c |-> "key"])
  <2> DEFINE a == [i \in 1..c |-> "key"]
  <2>1. a \in Seq({"key"}) /\ Len(a) = c
    BY <1>2
  <2>2. \A i \in 1..Len(att.got) : att.got[i] = "key"
    BY <1>1
  <2>3. \A i \in 1..Len(att.got) : a[i] = "key"
    BY <1>2
  <2> HIDE DEF a
  <2>4. SubSeq(att.got, 1, Len(att.got)) = SubSeq(a, 1, Len(att.got))
    BY <1>1, <1>2, <2>1, <2>2, <2>3
  <2> QED
    BY <1>2, <2>1, <2>4 DEF IsPrefix, a
<1> QED
  BY <1>3, <1>4 DEF AttachFaithful, AttachIInv, LeftWell, SizeFollowed

(* A task opened in the operator's terminal gets the keys meant for it, in *)
(* order and once each; a session left well has reaped its client; and no  *)
(* resize is forgotten while the first client runs (filter_task_input,     *)
(* detach_task_child, TaskWinchGuard, sync_pending_winsize).               *)
THEOREM AttachKept == AttachSpec => []AttachFaithful
<1>1. AttachSpec => []AttachIInv
  BY AttachStart, AttachStep, PTL DEF AttachSpec
<1> QED
  BY <1>1, AttachKeeps, PTL
=============================================================================
