--------------------------- MODULE RegistryStore ---------------------------
(***************************************************************************)
(* The task registry in SQLite and the processes that keep a copy of it:   *)
(* the web host (ajax-cli/src/web_backend.rs) and native processes, CLI    *)
(* commands and the cockpit (ajax-cli/src/{lib,cockpit_backend}.rs).  Each *)
(* loads the registry and its revision, edits its copy, and saves with     *)
(* save_context_with_state (ajax-cli/src/context.rs), which merges three   *)
(* ways when the revision moved and commits under a revision check.        *)
(*                                                                         *)
(* A load is two reads, the tasks and then the revision; a save is three   *)
(* steps, the revision read, the merge and the checked commit.  Steps of   *)
(* other processes fall in between.                                        *)
(*                                                                         *)
(* A task is a record of four facts: inc (created_at), life, git (the Git  *)
(* substrate evidence) and act (the activity columns).                     *)
(***************************************************************************)
EXTENDS Integers, FiniteSets

CONSTANTS Webs,      \* processes that are web hosts
          Natives,   \* CLI commands and cockpits
          Tasks,     \* task ids
          MaxEdits,  \* bound: edits of all processes
          MaxRev     \* bound: revisions of the database

ASSUME StoreAssumption == /\ Webs \cap Natives = {}
                          /\ MaxEdits \in Nat
                          /\ MaxRev \in Nat

NoTask == [inc |-> 0, life |-> "none", git |-> "absent", act |-> 0]

Facts == {"life", "git", "act"}
Lives == {"Active", "Reviewable", "Removed"}

VARIABLES disk,      \* registry tables: task -> record, NoTask when absent
          diskRev,   \* registry_meta revision
          mem,       \* CommandContext.registry of a process
          base,      \* ContextSaveState.loaded_registry
          rev,       \* ContextSaveState.loaded_revision
          emptyOk,   \* ContextSaveState.allow_empty_registry_once
          place,        \* where the process is
          proposal,  \* the registry and disk revision a save goes by
          touched,   \* history: what the process changed since it loaded
          torn,      \* history: the revision read is not the tasks' revision
          edits      \* edits so far

storeVars == <<disk, diskRev, mem, base, rev, emptyOk, place, proposal, touched,
               torn, edits>>

Procs == Webs \cup Natives
TaskRecord == [inc : 1..MaxEdits + 1, life : Lives,
               git : {"present", "absent"}, act : 0..MaxEdits]
Registry == [Tasks -> TaskRecord \cup {NoTask}]
NoRegistry == [t \in Tasks |-> NoTask]
NoProposal == [reg |-> NoRegistry, rev |-> 0]

StoreTypeOK ==
    /\ disk \in Registry
    /\ diskRev \in 0..MaxRev
    /\ mem \in [Procs -> Registry]
    /\ base \in [Procs -> Registry]
    /\ rev \in [Procs -> 0..MaxRev]
    /\ emptyOk \in [Procs -> BOOLEAN]
    /\ place \in [Procs -> {"off", "reading", "idle", "merging", "committing"}]
    /\ proposal \in [Procs -> [reg : Registry, rev : 0..MaxRev]]
    /\ touched \in [Procs -> SUBSET (Tasks \X (Facts \cup {"task"}))]
    /\ torn \in [Procs -> BOOLEAN]
    /\ edits \in 0..MaxEdits

-----------------------------------------------------------------------------
(* is_registry_ghost_task: a removed task without Git substrate is not     *)
(* written; the rows of every task that is not written are deleted.        *)
IsGhost(r) == r = NoTask \/ (r.life = "Removed" /\ r.git = "absent")

Written(reg) == [t \in Tasks |-> IF IsGhost(reg[t]) THEN NoTask ELSE reg[t]]

(* has_persistable_tasks, registry_has_persistable_tasks.                  *)
Persistable(reg) == \E t \in Tasks : ~IsGhost(reg[t])

(* merge_same_task_facts: the facts memory changed replace the ones on     *)
(* disk, unless disk changed the same fact to something else.              *)
FactsDiverge(d, m, b) ==
    \E f \in Facts \cup {"inc"} : m[f] # b[f] /\ d[f] # b[f] /\ d[f] # m[f]

MergeFacts(d, m, b) ==
    [f \in Facts \cup {"inc"} |-> IF m[f] = b[f] THEN d[f] ELSE m[f]]

(* The lifecycle test at the head of merge_registries' loop.               *)
LifecycleDiverged(d, m, b) ==
    /\ d # NoTask
    /\ d.life # m.life
    /\ "Removed" \notin {d.life, m.life}
    /\ b.life # d.life

Conflict(d, m, b) ==
    /\ m # NoTask
    /\ \/ LifecycleDiverged(d, m, b)
       \/ /\ d # NoTask
          /\ d # b /\ m # b /\ d # m
          /\ b = NoTask \/ FactsDiverge(d, m, b)

(* Mutant: memory replaces the task on disk without a look at the baseline.*)
MergeTaskMemoryWins(d, m, b) == IF m = NoTask /\ b = NoTask THEN d ELSE m

(* One task of merge_registries: disk, memory and baseline.                *)
MergeTask(d, m, b) ==
    CASE m = NoTask                    -> IF b # NoTask /\ d.inc = b.inc
                                          THEN NoTask ELSE d
      [] m # NoTask /\ d = NoTask      -> IF b = NoTask THEN m ELSE NoTask
      [] m # NoTask /\ d # NoTask      -> IF d = b THEN m
                                          ELSE IF m = b \/ d = m THEN d
                                          ELSE MergeFacts(d, m, b)

MergeRegistries(d, m, b) == [t \in Tasks |-> MergeTask(d[t], m[t], b[t])]

MergeConflict(d, m, b) == \E t \in Tasks : Conflict(d[t], m[t], b[t])

-----------------------------------------------------------------------------
StoreInit ==
    /\ disk \in {[t \in Tasks |-> IF t \in S
                    THEN [inc |-> 1, life |-> "Active", git |-> "present",
                          act |-> 0]
                    ELSE NoTask] : S \in SUBSET Tasks}
    /\ diskRev = 0
    /\ mem = [p \in Procs |-> NoRegistry]
    /\ base = [p \in Procs |-> NoRegistry]
    /\ rev = [p \in Procs |-> 0]
    /\ emptyOk = [p \in Procs |-> FALSE]
    /\ place = [p \in Procs |-> "off"]
    /\ proposal = [p \in Procs |-> NoProposal]
    /\ touched = [p \in Procs |-> {}]
    /\ torn = [p \in Procs |-> FALSE]
    /\ edits = 0

(* load_context: the tasks are read into memory and become the baseline.   *)
ReadTasks(p) ==
    /\ mem' = [mem EXCEPT ![p] = disk]
    /\ base' = [base EXCEPT ![p] = disk]
    /\ place' = [place EXCEPT ![p] = "reading"]
    /\ touched' = [touched EXCEPT ![p] = {}]
    /\ emptyOk' = [emptyOk EXCEPT ![p] = FALSE]
    /\ proposal' = [proposal EXCEPT ![p] = NoProposal]
    /\ UNCHANGED <<disk, diskRev, rev, torn, edits>>

(* A process starts, load_tracked_context.                                 *)
Launch(p) == place[p] = "off" /\ ReadTasks(p)

(* reload_context_if_stale, reload_cockpit_context_if_stale.               *)
ReloadIfStale(p) ==
    /\ place[p] = "idle"
    /\ rev[p] # diskRev
    /\ ReadTasks(p)

(* tracked_save_state: the revision is read after the tasks.               *)
ReadRevision(p) ==
    /\ place[p] = "reading"
    /\ rev' = [rev EXCEPT ![p] = diskRev]
    /\ place' = [place EXCEPT ![p] = "idle"]
    /\ torn' = [torn EXCEPT ![p] = base[p] # disk]
    /\ UNCHANGED <<disk, diskRev, mem, base, emptyOk, proposal, touched, edits>>

(* A command changes one fact of one task in the process's copy.           *)
Edit(p) ==
    \E t \in Tasks, f \in Facts :
        /\ place[p] = "idle" /\ edits < MaxEdits
        /\ mem[p][t] # NoTask
        /\ \E v \in CASE f = "life" -> Lives
                      [] f = "git"  -> {"present", "absent"}
                      [] f = "act"  -> {edits + 1} :
              /\ v # mem[p][t][f]
              /\ mem' = [mem EXCEPT ![p][t][f] = v]
        /\ touched' = [touched EXCEPT ![p] = @ \cup {<<t, f>>}]
        /\ edits' = edits + 1
        /\ UNCHANGED <<disk, diskRev, base, rev, emptyOk, place, proposal, torn>>

(* Registry::create_task and delete_task.  Only drop authorizes a save     *)
(* that may leave the registry empty.                                      *)
CreateTask(p) ==
    \E t \in Tasks :
        /\ place[p] = "idle" /\ edits < MaxEdits
        /\ mem[p][t] = NoTask \/ mem[p][t].life = "Removed"
        /\ mem' = [mem EXCEPT ![p][t] =
                      [inc |-> edits + 2, life |-> "Active",
                       git |-> "present", act |-> 0]]
        /\ touched' = [touched EXCEPT ![p] = @ \cup {<<t, "task">>}]
        /\ edits' = edits + 1
        /\ UNCHANGED <<disk, diskRev, base, rev, emptyOk, place, proposal, torn>>

DropTask(p) ==
    \E t \in Tasks :
        /\ place[p] = "idle" /\ edits < MaxEdits
        /\ mem[p][t] # NoTask
        /\ mem' = [mem EXCEPT ![p][t] = NoTask]
        /\ emptyOk' = [emptyOk EXCEPT ![p] = TRUE]
        /\ touched' = [touched EXCEPT ![p] = @ \cup {<<t, "task">>}]
        /\ edits' = edits + 1
        /\ UNCHANGED <<disk, diskRev, base, rev, place, proposal, torn>>

(* save_context_with_state reads the revision of the database first.       *)
SaveBegin(p) ==
    /\ place[p] = "idle" /\ touched[p] # {}
    /\ proposal' = [proposal EXCEPT ![p] = [reg |-> mem[p], rev |-> diskRev]]
    /\ place' = [place EXCEPT ![p] = "merging"]
    /\ UNCHANGED <<disk, diskRev, mem, base, rev, emptyOk, touched, torn, edits>>

(* What the save proposes: memory as it is when the revision is the one    *)
(* loaded, else the merge with the tasks on disk now.                      *)
Proposed(p) ==
    IF proposal[p].rev = rev[p] THEN mem[p]
    ELSE MergeRegistries(disk, mem[p], base[p])

(* prevent_accidental_empty_overwrite.                                     *)
EmptyRefused(p, reg) ==
    /\ ~Persistable(reg)
    /\ ~emptyOk[p]
    /\ Persistable(base[p]) \/ Persistable(disk)

SaveFails(p) ==
    \/ proposal[p].rev # rev[p] /\ MergeConflict(disk, mem[p], base[p])
    \/ EmptyRefused(p, Proposed(p))

(* The process is gone and its copy with it.                               *)
CommandEnded(p) ==
    /\ place' = [place EXCEPT ![p] = "off"]
    /\ mem' = [mem EXCEPT ![p] = NoRegistry]
    /\ base' = [base EXCEPT ![p] = NoRegistry]
    /\ rev' = [rev EXCEPT ![p] = 0]
    /\ proposal' = [proposal EXCEPT ![p] = NoProposal]
    /\ touched' = [touched EXCEPT ![p] = {}]
    /\ torn' = [torn EXCEPT ![p] = FALSE]
    /\ emptyOk' = [emptyOk EXCEPT ![p] = FALSE]
    /\ UNCHANGED <<disk, diskRev, edits>>

(* A failed save: a CLI command ends, the cockpit and the web host load    *)
(* again (recover_cockpit_save_error, reload_registry_from_disk).          *)
AfterFailure(p) ==
    \/ ReadTasks(p)
    \/ /\ p \in Natives
       /\ CommandEnded(p)

SaveMerge(p) ==
    /\ place[p] = "merging"
    /\ ~SaveFails(p)
    /\ proposal' = [proposal EXCEPT ![p].reg = Proposed(p)]
    /\ place' = [place EXCEPT ![p] = "committing"]
    /\ UNCHANGED <<disk, diskRev, mem, base, rev, emptyOk, touched, torn, edits>>

SaveConflicts(p) == place[p] = "merging" /\ SaveFails(p) /\ AfterFailure(p)

(* save_if_revision: refused unless the revision is still the one read,    *)
(* and an empty registry over stored tasks unless it was authorized.       *)
CommitAllowed(p) ==
    /\ diskRev = proposal[p].rev
    /\ emptyOk[p] \/ Persistable(proposal[p].reg) \/ disk = NoRegistry

SaveCommit(p) ==
    /\ place[p] = "committing" /\ CommitAllowed(p)
    /\ diskRev < MaxRev
    /\ disk' = Written(proposal[p].reg)
    /\ diskRev' = diskRev + 1
    /\ base' = [base EXCEPT ![p] = proposal[p].reg]
    /\ rev' = [rev EXCEPT ![p] = diskRev + 1]
    /\ torn' = [torn EXCEPT ![p] = FALSE]
    /\ emptyOk' = [emptyOk EXCEPT ![p] = FALSE]
    /\ place' = [place EXCEPT ![p] = "idle"]
    /\ IF p \in Webs
       THEN /\ mem' = [mem EXCEPT ![p] = proposal[p].reg]  \* persist_changed_state
            /\ touched' = [touched EXCEPT ![p] = {}]
       ELSE UNCHANGED <<mem, touched>>
    /\ proposal' = [proposal EXCEPT ![p] = NoProposal]
    /\ UNCHANGED edits

SaveRefused(p) ==
    /\ place[p] = "committing" /\ ~CommitAllowed(p)
    /\ AfterFailure(p)

(* record_activity and the bridge's record_task_activity: the activity     *)
(* columns change only while they are what memory last saw, and the        *)
(* baseline follows only when no other revision came in between.           *)
BaselineAlwaysFollows(p) == TRUE  \* mutant: no look at the loaded revision

BaselineFollows(p) == diskRev = rev[p]

RecordActivity(p) ==
    \E t \in Tasks :
        /\ p \in Webs /\ place[p] = "idle" /\ edits < MaxEdits /\ diskRev < MaxRev
        /\ mem[p][t] # NoTask /\ disk[t] # NoTask
        /\ disk[t].act = mem[p][t].act
        /\ disk' = [disk EXCEPT ![t].act = edits + 1]
        /\ mem' = [mem EXCEPT ![p][t].act = edits + 1]
        /\ touched' = [touched EXCEPT ![p] = @ \cup {<<t, "act">>}]
        /\ diskRev' = diskRev + 1
        /\ IF BaselineFollows(p) /\ base[p][t] # NoTask
           THEN /\ base' = [base EXCEPT ![p][t].act = edits + 1]
                /\ rev' = [rev EXCEPT ![p] = diskRev + 1]
           ELSE UNCHANGED <<base, rev>>
        /\ edits' = edits + 1
        /\ UNCHANGED <<emptyOk, place, proposal, torn>>

(* The expected activity is not the stored one: the report loads again.    *)
ActivityRefused(p) ==
    /\ p \in Webs /\ place[p] = "idle"
    /\ \E t \in Tasks : mem[p][t] # NoTask /\ disk[t].act # mem[p][t].act
    /\ ReadTasks(p)

(* A process ends, or dies at any step: nothing of it is on disk but what  *)
(* it committed.                                                           *)
ProcessExits(p) ==
    /\ place[p] # "off"
    /\ CommandEnded(p)

StoreNext ==
    \E p \in Procs :
        \/ Launch(p) \/ ReadRevision(p) \/ ReloadIfStale(p) \/ ProcessExits(p)
        \/ Edit(p) \/ CreateTask(p) \/ DropTask(p)
        \/ SaveBegin(p) \/ SaveMerge(p) \/ SaveConflicts(p)
        \/ SaveCommit(p) \/ SaveRefused(p)
        \/ RecordActivity(p) \/ ActivityRefused(p)

StoreSpec == StoreInit /\ [][StoreNext]_storeVars

-----------------------------------------------------------------------------
(* A removed task the process still holds but its own save did not write.  *)
IsOwnGhost(p, t) == base[p][t] # NoTask /\ IsGhost(base[p][t])

(* The commit of p changes on disk only what p itself changed: a task it   *)
(* created or dropped, a fact it set.                                      *)
KeepsOthers(p, t) ==
    <<t, "task">> \notin touched[p] =>
        /\ disk[t] = NoTask => disk'[t] = NoTask \/ IsOwnGhost(p, t)
        /\ disk'[t] = NoTask => disk[t] = NoTask \/ <<t, "life">> \in touched[p]
                                \/ <<t, "git">> \in touched[p]
        /\ disk[t] # NoTask /\ disk'[t] # NoTask =>
              \A f \in Facts : <<t, f>> \notin touched[p] => disk'[t][f] = disk[t][f]

(* Memory differs from the baseline only in what the process changed.  A   *)
(* native process does not take over the merge it saved: from then on this *)
(* fails for the tasks that others changed.                                *)
SyncedTask(p, t) ==
    <<t, "task">> \notin touched[p] =>
        /\ (mem[p][t] = NoTask) = (base[p][t] = NoTask)
        /\ \A f \in Facts :
              <<t, f>> \notin touched[p] => mem[p][t][f] = base[p][t][f]

Synced(p) == \A t \in Tasks : SyncedTask(p, t)

(* The load read the tasks of one save and the revision of a later one,    *)
(* and no save came after, so that nothing tells the process to merge.     *)
Deceived(p) == torn[p] /\ proposal[p].rev = rev[p]

(* The last task leaves the database only by a save that drop authorized:  *)
(* against a registry of ghosts, of a lost load, or of a stale merge.      *)
KeepsLast(p) == disk # NoRegistry /\ disk' = NoRegistry => emptyOk[p]

(* However the saves, loads and activity reports interleave, a save undoes *)
(* nothing that another process stored of a task, with two exceptions: the *)
(* save of a process that was deceived by its load, and that of a native   *)
(* process of a task whose merge it saved before and did not take over.    *)
(* And no save empties the database by accident (merge_registries,         *)
(* save_if_revision, persist_changed_state,                                *)
(* prevent_accidental_empty_overwrite and _rewrite).                       *)
SavesKeepOthers ==
    [][\A p \in Procs :
          SaveCommit(p) =>
             /\ \A t \in Tasks :
                   ~Deceived(p) /\ (p \in Webs \/ SyncedTask(p, t))
                       => KeepsOthers(p, t)
             /\ KeepsLast(p)]_storeVars

(* Does not hold: without the two exceptions.                              *)
(* docs/architecture/web-cockpit.md: "incompatible same-task changes       *)
(* surface an explicit conflict instead of last-writer-wins overwrite".    *)
NoSilentOverwrite ==
    [][\A p \in Procs : SaveCommit(p) => \A t \in Tasks : KeepsOthers(p, t)]_storeVars
=============================================================================
