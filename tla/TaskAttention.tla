---------------------------- MODULE TaskAttention ----------------------------
(***************************************************************************)
(* What the web host's background tick tells of a task: it refreshes the   *)
(* task from its agent and from the checks of its pull request, puts a     *)
(* failure of the checks or a merge conflict to the agent, and pushes to   *)
(* the operator's phone that the task needs attention.                     *)
(*                                                                         *)
(* One task, one pull request.  A head and a check run are numbers, in     *)
(* order; a run stands for its failed checks and their identities.  The    *)
(* tick probes on a copy and drops it if the shared registry has moved in  *)
(* the meantime, which is as if the tick had come later: here the refresh  *)
(* is one step.  The deliveries after it are not.                          *)
(***************************************************************************)
EXTENDS Integers

CONSTANTS ConfirmFor,      \* NOTIFY_CONFIRMATION_DWELL
          QuietFor,        \* EPISODE_CLEAR_DWELL
          MaxHappenings,   \* bound: what agent, GitHub and operator do
          MaxDeliverFaults \* bound: deliveries to the agent that fail

ASSUME AttentionAssumption ==
    {ConfirmFor, QuietFor, MaxHappenings, MaxDeliverFaults} \subseteq Nat

VARIABLES gh,     \* external: the pull request, its head, run and checks
          agt,    \* external: the agent, its substrate, the operator's devices
          entry,   \* the task in the shared registry, with its CI monitor
          cp,     \* the copy the deliveries work on
          told,   \* history: the last message put to the agent
          pinged  \* history: the last push, and whether the task has read
                  \* otherwise since

attentionVars == <<gh, agt, entry, cp, told, pinged>>

Nobody == "none"
Unaged == 0 - 1
NoNews == <<>>   \* no episode, no notification

(* CiMonitorState::default.                                                *)
NoAttempt ==
    [head |-> 0, status |-> "Unobserved", run |-> 0, pending |-> FALSE,
     probed |-> FALSE, mergeSeen |-> FALSE, episode |-> NoNews,
     lastRun |-> 0, sawPending |-> FALSE, notified |-> NoNews,
     delivery |-> NoNews, conflict |-> FALSE]

AttentionInit ==
    /\ gh = [pr |-> "open", head |-> 1, run |-> 1, checks |-> "Pending",
             conflict |-> FALSE]
    /\ \E sub \in BOOLEAN :
        agt = [kind |-> "AgentRunning", acked |-> FALSE, trouble |-> Nobody,
               subscribed |-> sub, present |-> FALSE, spent |-> 0,
               faults |-> 0]
    /\ entry = [live |-> Nobody, agent |-> "NotStarted", needs |-> FALSE,
               tests |-> FALSE, trouble |-> Nobody, life |-> "Active",
               prs |-> [state |-> "none", head |-> 0], ci |-> NoAttempt,
               stamp |-> Nobody, quiet |-> Unaged, cand |-> Unaged]
    /\ cp = [at |-> "idle", push |-> FALSE, task |-> NoNews, moved |-> FALSE,
             marked |-> FALSE, changed |-> FALSE]
    /\ told = NoNews
    /\ pinged = [class |-> Nobody, other |-> FALSE]

-----------------------------------------------------------------------------
(* derive_operator_status.                                                 *)
Says(class, actionable) == [class |-> class, actionable |-> actionable]

LiveAcked(t) == t.live \in {"WaitingForInput", "Done"} /\ agt.acked

OperatorStatus(t) ==
    LET expected == t.life # "Merged"
    IN  CASE expected /\ t.trouble = "missing" -> Says("Error", TRUE)
          [] t.live \in {"CiFailed", "CommandFailed"} \/ t.tests
             \/ t.trouble = "conflicted" -> Says("Error", TRUE)
          [] t.live \in {"AgentRunning", "CiPending"}
             \/ t.agent = "Running" -> Says("Running", FALSE)
          [] ~expected -> Says("Idle", FALSE)
          [] t.live \in {"WaitingForInput", "Done"} /\ ~LiveAcked(t) ->
                Says("Waiting", t.live = "WaitingForInput")
          [] t.life \in {"Reviewable", "Mergeable"} /\ ~agt.acked ->
                Says("Waiting", FALSE)
          [] (t.needs \/ t.agent = "Waiting") /\ ~LiveAcked(t) ->
                Says("Waiting", TRUE)
          [] t.agent = "Blocked" /\ ~LiveAcked(t) -> Says("Error", TRUE)
          [] t.agent = "Done" /\ ~LiveAcked(t) -> Says("Waiting", FALSE)
          [] OTHER -> Says("Idle", FALSE)

-----------------------------------------------------------------------------
(* apply_reduced_observation, for the kinds here.                          *)
Applied(t, kind) ==
    CASE kind = "AgentRunning" ->
            [t EXCEPT !.live = kind, !.agent = "Running", !.needs = FALSE]
      [] kind = "WaitingForInput" ->
            [t EXCEPT !.live = kind, !.agent = "Waiting", !.needs = TRUE]
      [] kind = "CommandFailed" ->
            [t EXCEPT !.live = kind, !.agent = "Blocked", !.needs = TRUE]
      [] kind = "Done" ->
            [t EXCEPT !.live = kind, !.agent = "Done", !.needs = FALSE]
      [] kind = "CiFailed" ->
            [t EXCEPT !.live = kind, !.agent = "Blocked", !.needs = FALSE,
                      !.tests = TRUE]
      [] kind = "CiPending" -> [t EXCEPT !.live = kind, !.tests = FALSE]
      [] OTHER -> t

(* The refresh of the task's substrate and agent: an acknowledged wait is  *)
(* not applied again, work makes the task active.                          *)
AgentRefreshed(t) ==
    LET u == [t EXCEPT !.trouble = agt.trouble]
    IN  IF agt.acked /\ agt.kind \in {"WaitingForInput", "Done"} THEN u
        ELSE [Applied(u, agt.kind) EXCEPT
                !.life = IF agt.kind = "AgentRunning" /\ @ # "Merged"
                         THEN "Active" ELSE @]

(* clear_github_ci_evidence and can_apply_github_override.                 *)
CiCleared(t) ==
    [t EXCEPT !.live = IF @ \in {"CiFailed", "CiPending"} THEN Nobody ELSE @,
              !.tests = FALSE]

Overridable(t) ==
    /\ t.live # "CommandFailed"
    /\ ~(t.live = "WaitingForInput" /\ ~agt.acked)

CiObserved(t, kind) == IF Overridable(t) THEN Applied(t, kind) ELSE t

(* rerun_in_progress and checks_in_flight.                                 *)
RerunInProgress(c) == c.sawPending /\ (c.status = "Pending" \/ c.pending)
ChecksInFlight(c) == c.status = "Pending" \/ RerunInProgress(c)

(* start_episode.                                                          *)
StartEpisode(c) ==
    [c EXCEPT !.episode = <<c.head, c.run>>, !.lastRun = c.run,
              !.sawPending = FALSE, !.delivery = NoNews]

(* apply_failed: whether this failure is one of its own.                   *)
NewEpisode(c) ==
    \/ c.episode = NoNews
    \/ c.sawPending /\ c.run # c.lastRun /\ ~c.pending

Reported(t, c, state, pending) ==
    LET r == [c EXCEPT !.run = gh.run, !.pending = pending]
    IN  CASE state = "Failed" ->
            LET seen == IF RerunInProgress(r) THEN t
                        ELSE CiObserved(t, "CiFailed")
                d == [r EXCEPT !.status = "Failed"]
            IN  [seen EXCEPT
                    !.life = IF @ = "Mergeable" THEN "Reviewable" ELSE @,
                    !.ci = IF NewEpisode(d) THEN StartEpisode(d) ELSE d]
          [] state = "Pending" ->
            [CiObserved(t, "CiPending") EXCEPT
                !.ci = [r EXCEPT !.status = "Pending",
                                 !.sawPending = @ \/ r.episode # NoNews]]
          [] state = "Passed" ->
            [CiCleared(t) EXCEPT
                !.life = IF @ = "Reviewable" /\ t.trouble # "conflicted"
                         THEN "Mergeable" ELSE @,
                !.ci = [r EXCEPT !.status = "Passed", !.pending = FALSE]]

(* reduce_report: a report of another head begins a new attempt.  Nothing  *)
(* observed changes no more than that.                                     *)
ReduceReport(t, ok) ==
    LET c == [IF t.ci.head = t.prs.head THEN t.ci
              ELSE [NoAttempt EXCEPT !.head = t.prs.head]
                EXCEPT !.probed = TRUE]
        state == IF gh.checks = "Failing" THEN "Failed" ELSE gh.checks
    IN  IF ok THEN Reported(t, c, state, gh.checks \in {"Failing", "Pending"})
        ELSE [t EXCEPT !.ci = c]

(* refresh_merge_conflict: the first time it only takes the time.          *)
MergeProbed(t, due) ==
    IF ~t.ci.mergeSeen THEN [t EXCEPT !.ci.mergeSeen = TRUE]
    ELSE IF due THEN [t EXCEPT !.ci.conflict = gh.conflict] ELSE t

(* checks_due: at once, at each tick while the checks run or have failed,  *)
(* else from time to time.                                                 *)
ChecksDue(c, due) ==
    c.status \in {"Pending", "Failed"} \/ ~c.probed \/ due

RetireAttempt(t) == [CiCleared(t) EXCEPT !.ci = NoAttempt]

(* reconcile_lifecycle_from_prs.                                           *)
PrReconciled(t) ==
    [t EXCEPT !.life =
        CASE t.prs.state = "merged" -> "Merged"
          [] t.prs.state = "open" /\ @ = "Active" /\ t.agent = "Done"
             /\ ~t.needs -> "Reviewable"
          [] OTHER -> @]

(* refresh_task.  The list of pull requests is read every 300 s: the       *)
(* checks read in between may be of a head the task does not know yet.     *)
CiRefreshed(t, list, due, ok) ==
    IF t.life = "Merged" \/ t.trouble = "missing" THEN RetireAttempt(t)
    ELSE LET l == PrReconciled(IF list
                    THEN [t EXCEPT !.prs = [state |-> gh.pr, head |-> gh.head]]
                    ELSE t)
         IN  IF l.prs.state # "open" THEN RetireAttempt(l)
             ELSE IF ChecksDue(l.ci, due)
             THEN MergeProbed(ReduceReport(l, ok), due) ELSE l

(* spawn_push_tick: a full refresh, applied; pushes go out when no browser *)
(* shows the cockpit and a device has subscribed.                          *)
Tick ==
    /\ cp.at = "idle"
    /\ \E list, due, ok \in BOOLEAN :
        entry' = CiRefreshed(AgentRefreshed(entry), list, due, ok)
    /\ cp' = [cp EXCEPT !.at = "refreshed",
                        !.push = agt.subscribed /\ ~agt.present]
    /\ told' = IF entry'.ci.head = entry.ci.head THEN told ELSE NoNews
    /\ UNCHANGED <<gh, agt, pinged>>

-----------------------------------------------------------------------------
(* pending_notification.                                                   *)
MergeId(c) == <<c.head, 0>>

PendingNotification(c) ==
    CASE c.conflict -> IF c.notified = MergeId(c) THEN NoNews ELSE MergeId(c)
      [] ~c.conflict /\ c.episode # NoNews /\ c.status = "Failed"
         /\ c.notified # c.episode /\ ~ChecksInFlight(c) -> c.episode
      [] OTHER -> NoNews

(* deliver_and_record takes its copy, if there is something to deliver.    *)
TakeCopy ==
    /\ cp.at = "refreshed"
    /\ cp' = IF cp.push \/ PendingNotification(entry.ci) # NoNews
             THEN [cp EXCEPT !.at = "copied", !.task = entry]
             ELSE [cp EXCEPT !.at = "idle"]
    /\ UNCHANGED <<gh, agt, entry, told, pinged>>

(* deliver_agent_notifications and record_delivery.  A delivery that       *)
(* failed is tried again at the next tick.                                 *)
DeliverToAgent ==
    /\ cp.at = "copied"
    /\ LET id == PendingNotification(cp.task.ci)
       IN  IF id = NoNews
           THEN /\ cp' = [cp EXCEPT !.at = "told"]
                /\ UNCHANGED <<agt, told>>
           ELSE \E ok \in BOOLEAN :
                LET d == <<id, ok>> IN
                /\ ok \/ agt.faults < MaxDeliverFaults
                /\ agt' = [agt EXCEPT !.faults = @ + IF ok THEN 0 ELSE 1]
                /\ told' = IF ok THEN id ELSE told
                /\ cp' = [cp EXCEPT
                            !.at = "told",
                            !.changed = cp.task.ci.delivery # d,
                            !.task.ci.delivery = d,
                            !.task.ci.notified = IF ok THEN id ELSE @]
    /\ UNCHANGED <<gh, entry, pinged>>

(* should_suppress_error_attention.                                        *)
Suppressed(t, s) ==
    /\ s.class = "Error"
    /\ IF t.live = "CiFailed" THEN ChecksInFlight(t.ci)
       ELSE t.trouble = "conflicted" /\ RerunInProgress(t.ci)

(* confirm_notify_candidate, clear_notify_episode_if_quiet.                *)
Confirmed(t) == t.cand >= ConfirmFor

QuietTick(t) ==
    IF t.stamp = Nobody THEN [t EXCEPT !.quiet = Unaged]
    ELSE IF t.quiet >= QuietFor
    THEN [t EXCEPT !.stamp = Nobody, !.quiet = Unaged]
    ELSE [t EXCEPT !.quiet = IF @ = Unaged THEN 0 ELSE @]

(* take_attention_transition: the task with its marks after it.  A stamp   *)
(* that is new is a push.                                                  *)
TakeTransition(t) ==
    LET s == OperatorStatus(t)
        c == [t EXCEPT !.cand = Unaged]
    IN  IF s.class \notin {"Waiting", "Error"} THEN QuietTick(c)
        ELSE IF ~s.actionable \/ Suppressed(t, s) THEN c
        ELSE IF t.stamp = s.class THEN [c EXCEPT !.quiet = Unaged]
        ELSE IF Confirmed(t)
        THEN [c EXCEPT !.quiet = Unaged, !.stamp = s.class]
        ELSE [t EXCEPT !.quiet = Unaged, !.cand = IF @ = Unaged THEN 0 ELSE @]

Pushes(t) ==
    LET s == OperatorStatus(t)
    IN  s.actionable /\ ~Suppressed(t, s) /\ t.stamp # s.class /\ Confirmed(t)

Resting(c) ==
    [c EXCEPT !.at = "idle", !.task = NoNews, !.moved = FALSE,
              !.marked = FALSE, !.changed = FALSE]

(* deliver_attention_pushes.  With nothing delivered the copy is dropped,  *)
(* and the marks it bears.                                                 *)
PushAttention ==
    /\ cp.at = "told"
    /\ LET s == OperatorStatus(cp.task)
           push == cp.push /\ agt.subscribed /\ Pushes(cp.task)
           after == IF cp.push /\ agt.subscribed
                    THEN [cp EXCEPT !.task = TakeTransition(cp.task)] ELSE cp
       IN  /\ cp' = IF cp.changed \/ push
                    THEN [after EXCEPT !.at = "delivered"]
                    ELSE Resting(cp)
           /\ pinged' = IF push THEN [class |-> s.class, other |-> FALSE]
                        ELSE [pinged EXCEPT !.other = @ \/ s.class # pinged.class]
    /\ UNCHANGED <<gh, agt, entry, told>>

(* Mutant: what was delivered while the registry moved is not recorded.    *)
RecordIfStill ==
    /\ cp.at = "delivered"
    /\ entry' = IF cp.moved THEN entry ELSE cp.task
    /\ told' = IF cp.marked THEN NoNews ELSE told
    /\ pinged' = [pinged EXCEPT !.other = @ \/ cp.marked]
    /\ cp' = Resting(cp)
    /\ UNCHANGED <<gh, agt>>

(* The record: swapped in if the registry has not moved; else saved by     *)
(* merging, for the next refresh to load.  Both sides having changed the   *)
(* task's metadata is a conflict, and the record is lost.                  *)
RecordDelivery ==
    /\ cp.at = "delivered"
    /\ entry' = CASE ~cp.moved -> cp.task
                 [] cp.moved /\ ~cp.marked ->
                        [entry EXCEPT !.ci = cp.task.ci,
                                     !.stamp = cp.task.stamp,
                                     !.quiet = cp.task.quiet,
                                     !.cand = cp.task.cand]
                 [] OTHER -> entry
    /\ told' = IF cp.marked THEN NoNews ELSE told
    /\ pinged' = [pinged EXCEPT !.other = @ \/ cp.marked]
    /\ cp' = Resting(cp)
    /\ UNCHANGED <<gh, agt>>

-----------------------------------------------------------------------------
(* acknowledge_attention: opening the task silences its episode.           *)
TaskIsOpened ==
    /\ agt.spent < MaxHappenings
    /\ LET s == OperatorStatus(entry)
           silenced == [entry EXCEPT !.stamp = s.class, !.quiet = Unaged,
                                    !.cand = Unaged]
       IN  /\ entry' = IF s.actionable THEN silenced ELSE entry
           /\ pinged' = [pinged EXCEPT !.other = @ \/ s.class # pinged.class]
           /\ cp' = IF cp.at \in {"copied", "told", "delivered"}
                    THEN [cp EXCEPT !.moved = TRUE,
                                    !.marked = @ \/ s.actionable]
                    ELSE cp
    /\ agt' = [agt EXCEPT !.acked = TRUE, !.spent = @ + 1]
    /\ UNCHANGED <<gh, told>>

(* Time passes for the marks; a mark is a time, the copy's, too.           *)
Aged(t) ==
    [t EXCEPT !.cand = IF @ \in 0..(ConfirmFor - 1) THEN @ + 1 ELSE @,
              !.quiet = IF @ \in 0..(QuietFor - 1) THEN @ + 1 ELSE @]

Passes ==
    /\ cp.at = "idle" /\ Aged(entry) # entry
    /\ entry' = Aged(entry)
    /\ UNCHANGED <<gh, agt, cp, told, pinged>>

(* External: the agent, its worktree, and the operator's devices.          *)
AgentHappens ==
    /\ agt.spent < MaxHappenings
    /\ \/ \E k \in {"AgentRunning", "WaitingForInput", "Done",
                    "CommandFailed"} \ {agt.kind} :
            agt' = [agt EXCEPT !.kind = k, !.acked = FALSE, !.spent = @ + 1]
       \/ \E x \in {Nobody, "missing", "conflicted"} \ {agt.trouble} :
            agt' = [agt EXCEPT !.trouble = x, !.spent = @ + 1]
       \/ \E sub, seen \in BOOLEAN :
            /\ <<sub, seen>> # <<agt.subscribed, agt.present>>
            /\ agt' = [agt EXCEPT !.subscribed = sub, !.present = seen,
                                  !.spent = @ + 1]
    /\ UNCHANGED <<gh, entry, cp, told, pinged>>

(* External: GitHub.  A push and a rerun start the checks anew.            *)
GithubHappens ==
    /\ agt.spent < MaxHappenings
    /\ gh' \in {[gh EXCEPT !.head = @ + 1, !.run = @ + 1,
                           !.checks = "Pending"],
                [gh EXCEPT !.run = @ + 1, !.checks = "Pending"],
                [gh EXCEPT !.conflict = ~@],
                [gh EXCEPT !.pr = IF @ = "open" THEN "closed" ELSE "open"],
                [gh EXCEPT !.pr = "merged"]}
               \cup {[gh EXCEPT !.checks = c] :
                        c \in CASE gh.checks = "Pending" ->
                                    {"Failing", "Failed", "Passed"}
                                [] gh.checks = "Failing" -> {"Failed"}
                                [] OTHER -> {}}
    /\ gh.pr # "merged" /\ (gh.pr = "closed" => gh'.pr = "open")
    /\ agt' = [agt EXCEPT !.spent = @ + 1]
    /\ UNCHANGED <<entry, cp, told, pinged>>

TickStep == Tick \/ TakeCopy \/ DeliverToAgent \/ PushAttention
            \/ RecordDelivery

AttentionNext ==
    \/ TickStep \/ TaskIsOpened \/ Passes \/ AgentHappens \/ GithubHappens

(* The host ticks for ever and time passes.                                *)
AttentionSpec ==
    /\ AttentionInit /\ [][AttentionNext]_attentionVars
    /\ WF_attentionVars(TickStep) /\ WF_attentionVars(Passes)

AttentionTypeOK ==
    /\ entry.live \in {Nobody, "AgentRunning", "WaitingForInput", "Done",
                      "CommandFailed", "CiFailed", "CiPending"}
    /\ entry.cand \in Unaged..ConfirmFor /\ entry.quiet \in Unaged..QuietFor
    /\ entry.ci.status \in {"Unobserved", "Pending", "Failed", "Passed"}
    /\ cp.at \in {"idle", "refreshed", "copied", "told", "delivered"}

-----------------------------------------------------------------------------
(* The agent is not told the same failure or conflict twice in a row: it  *)
(* hears of it again only after other news, in a new attempt, or when the  *)
(* record was lost to the operator opening the task (pending_notification, *)
(* record_delivery, deliver_and_record).                                   *)
ToldOnce ==
    [][cp.at = "copied" /\ cp'.at = "told" /\ told # NoNews
       => PendingNotification(cp.task.ci) # told]_attentionVars

(* The phone is pushed once for an episode: a second push of the same      *)
(* status only after a tick or an opening at which the task read otherwise *)
(* (take_attention_transition, silence_notify_episode).                    *)
PushedOnce ==
    [][LET c == cp.task IN
       cp.at = "told" /\ cp'.at # "told" /\ cp.push /\ agt.subscribed
       /\ Pushes(c) /\ pinged.class = OperatorStatus(c).class
       => pinged.other]_attentionVars

(* A failure or a conflict the monitor knows of comes to the agent or goes *)
(* away, whatever browsers are open (deliver_and_record).                  *)
FailureIsTold ==
    PendingNotification(entry.ci) # NoNews
        ~> PendingNotification(entry.ci) = NoNews

(* "Ordinary user waits and approvals still notify once the dwell confirms *)
(* sustained attention."  They do not: deliver_and_record drops the copy   *)
(* that bears the candidate's time when nothing was delivered.             *)
Wanting ==
    /\ agt.subscribed /\ ~agt.present
    /\ LET s == OperatorStatus(entry)
       IN  s.actionable /\ ~Suppressed(entry, s) /\ entry.stamp # s.class

SustainedIsPushed == Wanting ~> ~Wanting

(* Agent and phone hear of one thing once (deliver_and_record).            *)
NewsOnce == ToldOnce /\ PushedOnce

(* News of a task comes to agent and phone once, and of a failed check or  *)
(* a conflict it comes (deliver_and_record).                               *)
NewsArrives == NewsOnce /\ FailureIsTold
=============================================================================
