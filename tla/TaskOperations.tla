--------------------------- MODULE TaskOperations ---------------------------
(***************************************************************************)
(* The operations on one task (ajax-core/src/task_operations and           *)
(* commands): start, refresh, check, ship, repair and drop, run by one     *)
(* process against real resources, a Git worktree, a local and a remote    *)
(* branch and a tmux session.  Commands take effect one at a time, may     *)
(* fail or answer nothing, and the process may die between any two steps.  *)
(*                                                                         *)
(* The process keeps the task record and its step receipts in memory; the  *)
(* row on disk changes only where the code saves, and a load brings back   *)
(* the row without receipts (load_tasks_only).                             *)
(***************************************************************************)
EXTENDS Integers, Sequences, FiniteSets

CONSTANTS StartModes,  \* {TRUE}: starts save at every step; FALSE: at the end
          MaxStarts,   \* bound: starts
          MaxFaults,   \* bound: failed commands, unanswered listings, crashes
          MaxRepairs,  \* bound: repairs
          MaxEvents    \* bound: what the operator does with Git and tmux

ASSUME OpsAssumption == /\ StartModes \subseteq BOOLEAN
                        /\ {MaxStarts, MaxFaults, MaxRepairs, MaxEvents}
                             \subseteq Nat

VARIABLES res,       \* the resources that exist
          row,       \* the stored record, NoRecord when there is none
          task,      \* the record in memory
          receipts,  \* drop steps with a receipt in memory
          op,        \* the running operation and the steps it has left
          covered,   \* history: the start saved at every step
          left       \* what is left of each bound

opsVars == <<res, row, task, receipts, op, covered, left>>

DropOp == {"agent", "worktree", "branch", "tmux"}
Resource == {"worktree", "local", "remote", "tmux"}
Lifecycle == {"Provisioning", "Active", "Reviewable", "Merged", "Error",
              "Removing", "TeardownIncomplete"}
State == {"Present", "Absent", "Unknown"}

NoRecord == [life |-> "none"]
NoGit == [known |-> FALSE, worktree |-> FALSE, branch |-> FALSE]

(* skip: the task runs without tmux; session: TmuxStatus.exists; agent:    *)
(* SideFlag::AgentRunning; failed: metadata drop_failed_step_key.          *)
TaskRow == [life : Lifecycle, skip : BOOLEAN,
            git : [known : BOOLEAN, worktree : BOOLEAN, branch : BOOLEAN],
            session : BOOLEAN, agent : BOOLEAN, failed : DropOp \cup {"none"}]

Idle == [kind |-> "idle", todo |-> <<>>, ran |-> FALSE, save |-> FALSE]

OpsTypeOK ==
    /\ res \subseteq Resource
    /\ row \in TaskRow \cup {NoRecord}
    /\ task \in TaskRow \cup {NoRecord}
    /\ receipts \subseteq DropOp
    /\ op \in [kind : {"idle", "start", "repair", "drop", "saving"},
               todo : Seq(DropOp), ran : BOOLEAN, save : BOOLEAN]
    /\ covered \in BOOLEAN
    /\ left \in [starts : 0..MaxStarts, faults : 0..MaxFaults,
                 repairs : 0..MaxRepairs, events : 0..MaxEvents]

OpsInit ==
    /\ res = {}
    /\ row = NoRecord /\ task = NoRecord
    /\ receipts = {}
    /\ op = Idle
    /\ covered = TRUE
    /\ left = [starts |-> MaxStarts, faults |-> MaxFaults,
               repairs |-> MaxRepairs, events |-> MaxEvents]

Spend(b) == left[b] > 0 /\ left' = [left EXCEPT ![b] = @ - 1]

-----------------------------------------------------------------------------
(* Records and saves. *)

(* is_abandoned_provisioning_ghost, the only ghost of these operations:    *)
(* its row is deleted by the next save.                                    *)
IsGhostRow(t) ==
    /\ t # NoRecord /\ t.life = "Provisioning"
    /\ t.git.known /\ ~t.git.worktree /\ ~t.git.branch

Stored(t) == IF IsGhostRow(t) THEN NoRecord ELSE t

(* Mutant: the lifecycle table has no edge back from TeardownIncomplete.   *)
MayRemoveOnce(life) == life # "TeardownIncomplete"

(* generic_transition_allowed: every lifecycle here may become Removing.   *)
MayRemove(life) == life \in Lifecycle

(* The operation is over; the caller saves.                                *)
Ends == op' = [Idle EXCEPT !.kind = "saving"]

(* save_context after an operation that changed state, also a failed one.  *)
SaveRow ==
    /\ op.kind = "saving"
    /\ row' = Stored(task)
    /\ op' = Idle
    /\ UNCHANGED <<res, task, receipts, covered, left>>

(* The process dies, or loads again because the row on disk changed: the   *)
(* row is what is left, and no receipt.                                    *)
Loaded == task' = row /\ receipts' = {} /\ op' = Idle

ProcessDies ==
    /\ op.kind # "idle"
    /\ Spend("faults") /\ Loaded
    /\ UNCHANGED <<res, row, covered>>

Reload ==
    /\ op.kind = "idle" /\ receipts # {}
    /\ Spend("events") /\ Loaded
    /\ UNCHANGED <<res, row, covered>>

-----------------------------------------------------------------------------
(* Start: execute_start_task_operation_with_checkpoint. *)

StartSteps(skip) == IF skip THEN <<"worktree", "agent">>
                    ELSE <<"worktree", "tmux", "agent">>

(* Mutant: the first save comes after the worktree was made.               *)
CheckpointLate(t) == row' = IF op'.save /\ t.git.known THEN Stored(t) ELSE row

Checkpoint(t) == row' = IF op'.save THEN Stored(t) ELSE row

(* new_task_plan refuses a handle, a path or a branch that is taken; then  *)
(* record_new_task and the first checkpoint.                               *)
StartTask ==
    \E skip \in BOOLEAN, save \in StartModes :
        /\ op.kind = "idle" /\ task = NoRecord
        /\ "worktree" \notin res /\ "local" \notin res
        /\ Spend("starts")
        /\ task' = [life |-> "Provisioning", skip |-> skip, git |-> NoGit,
                    session |-> FALSE, agent |-> FALSE, failed |-> "none"]
        /\ op' = [kind |-> "start", todo |-> StartSteps(skip), ran |-> FALSE,
                  save |-> save]
        /\ Checkpoint(task')
        /\ covered' = save
        /\ UNCHANGED <<res, receipts>>

(* A provisioning command: git worktree add -b, tmux new-session, and the  *)
(* agent line sent to the session (nothing to run when tmux is skipped).   *)
StartCommand ==
    /\ op.kind = "start" /\ op.todo # <<>> /\ ~op.ran
    /\ Head(op.todo) = "tmux" => "tmux" \notin res
    /\ res' = res \cup CASE Head(op.todo) = "worktree" -> {"worktree", "local"}
                         [] Head(op.todo) = "tmux"     -> {"tmux"}
                         [] Head(op.todo) = "agent"    -> {}
    /\ op' = [op EXCEPT !.ran = TRUE]
    /\ UNCHANGED <<row, task, receipts, covered, left>>

(* mark_new_task_provisioning_step_completed, the receipt, the checkpoint. *)
StartMarked ==
    /\ op.kind = "start" /\ op.ran
    /\ task' = CASE Head(op.todo) = "worktree" ->
                       [task EXCEPT !.git = [known |-> TRUE, worktree |-> TRUE,
                                             branch |-> TRUE]]
                 [] Head(op.todo) = "tmux" -> [task EXCEPT !.session = TRUE]
                 [] Head(op.todo) = "agent" ->
                       [task EXCEPT !.life = "Active", !.agent = ~task.skip]
    /\ op' = [op EXCEPT !.todo = Tail(@), !.ran = FALSE]
    /\ Checkpoint(task')
    /\ UNCHANGED <<res, receipts, covered, left>>

(* A command fails: mark_new_task_provisioning_failed.  A tmux session of  *)
(* the name that is there already fails too.                               *)
StartFails ==
    /\ op.kind = "start" /\ op.todo # <<>> /\ ~op.ran
    /\ \/ Head(op.todo) = "tmux" /\ "tmux" \in res /\ UNCHANGED left
       \/ Spend("faults")
    /\ task' = [task EXCEPT !.life = "Error"]
    /\ Ends
    /\ UNCHANGED <<res, row, receipts, covered>>

StartOpened ==
    /\ op.kind = "start" /\ op.todo = <<>>
    /\ Ends
    /\ UNCHANGED <<res, row, task, receipts, covered, left>>

-----------------------------------------------------------------------------
(* Refresh, check, ship and repair. *)

(* refresh_git_substrate_by_repo looks at tasks with Git evidence only;    *)
(* refresh_runtime_substrate at the tmux session.                          *)
Refreshed(t) ==
    [t EXCEPT !.git = IF t.git.known
                      THEN [known |-> TRUE, worktree |-> "worktree" \in res,
                            branch |-> "local" \in res]
                      ELSE t.git,
              !.session = "tmux" \in res,
              !.agent = t.agent /\ "tmux" \in res]

Refresh ==
    /\ op.kind = "idle" /\ task # NoRecord
    /\ task.life \notin {"Merged", "Error"}
    /\ Refreshed(task) # task
    /\ task' = Refreshed(task)
    /\ Ends
    /\ UNCHANGED <<res, row, receipts, covered, left>>

(* recover_missing_tasks_from_substrate: a listed worktree on an ajax      *)
(* branch without a task is given one.                                     *)
Recover ==
    /\ op.kind = "idle" /\ task = NoRecord
    /\ {"worktree", "local"} \subseteq res
    /\ task' = [life |-> "Active", skip |-> FALSE,
                git |-> [known |-> TRUE, worktree |-> TRUE, branch |-> TRUE],
                session |-> "tmux" \in res, agent |-> FALSE,
                failed |-> "none"]
    /\ receipts' = {}
    /\ Ends
    /\ UNCHANGED <<res, row, covered, left>>

(* A check that passes, and ship after git merge succeeded.                *)
Check ==
    /\ op.kind = "idle" /\ task # NoRecord /\ task.life = "Active"
    /\ task.git.worktree
    /\ task' = [task EXCEPT !.life = "Reviewable"]
    /\ Ends
    /\ UNCHANGED <<res, row, receipts, covered, left>>

Ship ==
    /\ op.kind = "idle" /\ task # NoRecord /\ task.life = "Reviewable"
    /\ task.git.worktree /\ task.git.branch
    /\ task' = [task EXCEPT !.life = "Merged"]
    /\ Ends
    /\ UNCHANGED <<res, row, receipts, covered, left>>

(* task_window_repair_plan: a missing worktree is added again from its     *)
(* branch, a missing session is made again; blocked when both Git parts    *)
(* are missing.                                                            *)
RepairSteps(t) ==
    (IF t.git.known /\ ~t.git.worktree THEN <<"worktree">> ELSE <<>>)
      \o (IF t.session THEN <<>> ELSE <<"tmux">>)

Repair ==
    /\ op.kind = "idle" /\ task # NoRecord
    /\ task.git.known => task.git.worktree \/ task.git.branch
    /\ RepairSteps(task) # <<>>
    /\ Spend("repairs")
    /\ op' = [Idle EXCEPT !.kind = "repair", !.todo = RepairSteps(task)]
    /\ UNCHANGED <<res, row, task, receipts, covered>>

RepairCommand ==
    /\ op.kind = "repair" /\ op.todo # <<>>
    /\ Head(op.todo) \notin res
    /\ Head(op.todo) = "worktree" => "local" \in res
    /\ res' = res \cup {Head(op.todo)}
    /\ op' = [op EXCEPT !.todo = Tail(@)]
    /\ UNCHANGED <<row, task, receipts, covered, left>>

(* The commands and the check succeeded (mark_task_window_repaired,        *)
(* mark_task_check_succeeded), or one of them failed.                      *)
Repaired ==
    /\ op.kind = "repair" /\ op.todo = <<>>
    /\ task' = [task EXCEPT !.git.worktree = task.git.known,
                            !.session = TRUE,
                            !.life = IF @ = "Active" THEN "Reviewable" ELSE @]
    /\ Ends
    /\ UNCHANGED <<res, row, receipts, covered, left>>

RepairFails ==
    /\ op.kind = "repair"
    /\ \/ /\ op.todo # <<>>
          /\ \/ Head(op.todo) \in res
             \/ Head(op.todo) = "worktree" /\ "local" \notin res
          /\ UNCHANGED left
       \/ Spend("faults")
    /\ Ends
    /\ UNCHANGED <<res, row, task, receipts, covered>>

-----------------------------------------------------------------------------
(* Drop. *)

Seen(present) == IF present THEN "Present" ELSE "Absent"

(* Mutant: a listing that fails reads as an empty one.                     *)
ObserveSilentAbsent(there, silent, t) ==
    LET seen == there \ silent
    IN  [agent    |-> Seen(t.agent /\ "tmux" \in seen),
         tmux     |-> Seen("tmux" \in seen),
         worktree |-> Seen("worktree" \in seen),
         branch   |-> Seen({"local", "remote"} \cap seen # {})]

(* observe_drop_resources, with the listings in silent unanswered.  The    *)
(* branch counts as seen when either listing answered, and the listed      *)
(* worktree has it checked out.                                            *)
Observe(there, silent, t) ==
    LET session  == IF "tmux" \in silent THEN "Unknown"
                    ELSE Seen("tmux" \in there)
        worktree == IF "worktree" \in silent THEN "Unknown"
                    ELSE Seen("worktree" \in there)
        branch   == \E r \in {"local", "remote", "worktree"} :
                        r \in there /\ r \notin silent
    IN  [agent    |-> Seen(t.agent /\ session # "Absent"),
         tmux     |-> session,
         worktree |-> worktree,
         branch   |-> IF {"local", "remote"} \subseteq silent /\ ~branch
                      THEN "Unknown" ELSE Seen(branch)]

(* apply_drop_observation_evidence.                                        *)
Evidence(obs, t) ==
    LET known(s, old) == IF s = "Unknown" THEN old ELSE s = "Present"
    IN  [t EXCEPT
           !.session = known(obs.tmux, @),
           !.git = IF obs.worktree = "Unknown" /\ obs.branch = "Unknown" THEN @
                   ELSE [known    |-> TRUE,
                         worktree |-> known(obs.worktree, @.worktree),
                         branch   |-> known(obs.branch, @.branch)]]

(* The listings that do not answer cost a fault.                           *)
Silence(silent) == IF silent = {} THEN UNCHANGED left ELSE Spend("faults")

(* The order of planned_drop_ops.                                          *)
InDropOrder(S) ==
    LET step(o) == IF o \in S THEN <<o>> ELSE <<>>
    IN  step("agent") \o step("worktree") \o step("branch") \o step("tmux")

Incomplete(obs) == InDropOrder({o \in DropOp : obs[o] # "Absent"})

(* planned_drop_ops: steps with a receipt are left out; the receipt of the *)
(* step that failed last does not count while its resource is present.     *)
PlannedOps(obs, t, done) ==
    LET kept == {o \in done : o # t.failed \/ obs[o] # "Present"}
    IN  InDropOrder({o \in DropOp \ kept : obs[o] # "Absent"})

(* A confirmed drop: plan_drop_task_operation observes, then               *)
(* execute_drop_task_operation marks the task and plans its steps.         *)
DropBegin ==
    \E silent \in SUBSET Resource :
        /\ op.kind = "idle" /\ task # NoRecord
        /\ MayRemove(task.life)
        /\ Silence(silent)
        /\ LET obs  == Observe(res, silent, task)
               seen == {o \in DropOp \ {"agent"} : obs[o] = "Absent"}
           IN  /\ task' = [Evidence(obs, task) EXCEPT !.life = "Removing"]
               /\ receipts' = receipts \cup seen
               /\ op' = [Idle EXCEPT
                           !.kind = "drop",
                           !.todo = PlannedOps(obs, task, receipts')]
        /\ UNCHANGED <<res, row, covered>>

(* What a step removes, and what mark_task_cleanup_step_completed records. *)
Removed(o) == CASE o = "agent"    -> {}
                [] o = "worktree" -> {"worktree"}
                [] o = "branch"   -> {"local", "remote"}
                [] o = "tmux"     -> {"tmux"}

StepRecorded(o, t) ==
    CASE o = "agent"    -> [t EXCEPT !.agent = FALSE]
      [] o = "worktree" -> [t EXCEPT !.git.worktree = FALSE]
      [] o = "branch"   -> [t EXCEPT !.git.branch = FALSE]
      [] o = "tmux"     -> [t EXCEPT !.session = FALSE]

(* Git keeps a branch that a worktree has checked out.                     *)
Refused(o) == o = "branch" /\ {"worktree", "local"} \subseteq res

DropStep ==
    /\ op.kind = "drop" /\ op.todo # <<>>
    /\ ~Refused(Head(op.todo))
    /\ res' = res \ Removed(Head(op.todo))
    /\ task' = StepRecorded(Head(op.todo), task)
    /\ receipts' = receipts \cup {Head(op.todo)}
    /\ op' = [op EXCEPT !.todo = Tail(@)]
    /\ UNCHANGED <<row, covered, left>>

(* Mutant: a drop that failed counts as done.                              *)
TornDownRemoved(o, obs, t) ==
    [Evidence(obs, t) EXCEPT !.life = "Removed", !.failed = o]

(* mark_task_teardown_incomplete.                                          *)
TornDown(o, obs, t) ==
    [Evidence(obs, t) EXCEPT !.life = "TeardownIncomplete", !.failed = o]

(* A step fails: what it did before it failed stays done (the local branch *)
(* when the push fails), and mark_observed_drop_failure looks again, in    *)
(* vain perhaps.                                                           *)
DropStepFails ==
    \E silent \in {{}, Resource} :
        /\ op.kind = "drop" /\ op.todo # <<>> /\ Head(op.todo) # "agent"
        /\ IF Refused(Head(op.todo))
           THEN UNCHANGED <<res, left>>
           ELSE /\ Spend("faults")
                /\ res' \in {res, res \ ({"local"} \cap Removed(Head(op.todo)))}
        /\ task' = TornDown(Head(op.todo), Observe(res', silent, task), task)
        /\ Ends
        /\ UNCHANGED <<row, receipts, covered>>

(* The runner could not run the step: the task stays Removing.             *)
DropStepLost ==
    /\ op.kind = "drop" /\ op.todo # <<>> /\ Head(op.todo) # "agent"
    /\ Spend("faults")
    /\ Ends
    /\ UNCHANGED <<res, row, task, receipts, covered>>

(* complete_drop_task_operation removes the task when nothing is left in   *)
(* the plan, so when every resource was seen to be absent.                 *)
Completed(obs) == Incomplete(obs) = <<>>

DropFinish ==
    \E silent \in SUBSET Resource :
        /\ op.kind = "drop" /\ op.todo = <<>>
        /\ Silence(silent)
        /\ LET obs == Observe(res, silent, task)
           IN  IF Completed(obs)
               THEN task' = NoRecord /\ receipts' = {}
               ELSE /\ task' = TornDown(Head(Incomplete(obs)), obs, task)
                    /\ UNCHANGED receipts
        /\ Ends
        /\ UNCHANGED <<res, row, covered>>

-----------------------------------------------------------------------------
(* The operator and the agent work with Git and tmux directly (external):  *)
(* a branch is pushed or deleted, a worktree removed, a session closed.    *)
Push ==
    /\ "local" \in res /\ "remote" \notin res
    /\ res' = res \cup {"remote"}

RemoveByHand ==
    \E r \in {"worktree", "local", "tmux"} :
        /\ r \in res
        /\ r = "local" => "worktree" \notin res
        /\ res' = res \ {r}

Outside == /\ Spend("events")
           /\ Push \/ RemoveByHand
           /\ UNCHANGED <<row, task, receipts, op, covered>>

OpsNext ==
    \/ StartTask \/ StartCommand \/ StartMarked \/ StartFails \/ StartOpened
    \/ Refresh \/ Recover \/ Check \/ Ship
    \/ Repair \/ RepairCommand \/ Repaired \/ RepairFails
    \/ DropBegin \/ DropStep \/ DropStepFails \/ DropStepLost \/ DropFinish
    \/ SaveRow \/ ProcessDies \/ Reload \/ Outside

(* The process runs what it began and the operator tries a drop again      *)
(* until the task is gone.                                                 *)
Retry == /\ task # NoRecord /\ task.life \in {"Removing", "TeardownIncomplete"}
         /\ DropBegin

Runs == \/ StartCommand \/ StartMarked \/ StartFails \/ StartOpened
        \/ RepairCommand \/ Repaired \/ RepairFails
        \/ DropStep \/ DropStepFails \/ DropFinish \/ SaveRow

OpsFairness == WF_opsVars(Retry) /\ WF_opsVars(Runs)

OpsSpec == OpsInit /\ [][OpsNext]_opsVars
OpsFairSpec == OpsSpec /\ OpsFairness

-----------------------------------------------------------------------------
(* A worktree that a checkpointed start made always has a stored record,   *)
(* also when the process dies between the command and the next save, a     *)
(* listing goes unanswered or a drop fails half way.                       *)
WorktreeHasRecord == covered /\ "worktree" \in res => row # NoRecord

(* Drop deletes a task only when its worktree and its tmux session are     *)
(* gone, whatever its recorded evidence and its receipts say.              *)
DroppedIsGone ==
    [][op.kind = "drop" /\ task # NoRecord /\ task' = NoRecord /\ row' = row
         /\ op'.kind = "saving"
         => {"worktree", "tmux"} \cap res = {}]_opsVars

(* A drop that failed ends with the task deleted once the faults and the   *)
(* repairs are over, when the operator keeps trying and no receipt from    *)
(* before is left in memory: the observation alone finds every step to run *)
(* again, after any failure, crash or removal by hand.                     *)
DropConverges ==
    /\ row # NoRecord /\ row.life = "TeardownIncomplete"
    /\ receipts = {} /\ left.repairs = 0
    ~> row = NoRecord

(* The same whatever receipts there are: architecture/task-operations.md   *)
(* says that receipts have no authority over Git and tmux, and that a      *)
(* retry observes them again before it decides what to skip.               *)
ReceiptsAreNoAuthority ==
    row # NoRecord /\ row.life = "TeardownIncomplete" ~> row = NoRecord
=============================================================================
