------------------------------ MODULE WebState ------------------------------
(***************************************************************************)
(* The shared state of the web host (ajax-web/src/runtime/state.rs and the *)
(* routes that use it).  Every handler copies the registry and the bridge  *)
(* under a short lock, works on its copy, saves it through the three-way   *)
(* merge and puts it back if the revision has not moved.  Operations and   *)
(* refreshes hold refresh_flight and then control_lane; session writes     *)
(* hold only the lane; reads that found new metadata and the operator's    *)
(* acknowledgment hold neither.                                            *)
(*                                                                         *)
(* A registry is the set of facts it holds.  "due" is a notification that  *)
(* the agent should get and "mark" the record that it was delivered; every *)
(* other fact is the write of one kind of handler.                         *)
(***************************************************************************)
EXTENDS Integers, Sequences

CONSTANTS MaxJobs,      \* bound: handlers started
          MaxReports,   \* bound: activity reports of one chat session
          MaxSaveFaults,\* bound: saves that fail
          MaxMoves      \* bound: all of these together

ASSUME WebAssumption ==
    {MaxJobs, MaxReports, MaxSaveFaults, MaxMoves} \subseteq Nat

VARIABLES saved, savedRev,  \* the registry database and its revision
          shared,           \* WebSharedState: registry, bridge and revision
          flight, lane,     \* who holds the two locks, "free" when nobody
          job,              \* the handlers: where each is, and its copy
          deferred,         \* the reports that found the lane busy
          reports,          \* reports made, and the reports applied in order
          answered,         \* writes whose handler answered that they are done
          delivered,        \* how often the notification was delivered
          budget            \* what is left of the bounds

webVars == <<saved, savedRev, shared, flight, lane, job, deferred, reports,
             answered, delivered, budget>>
Drainer == {"drain", "drain2"}
Handler == {"action", "refresh", "start", "model", "read", "ack"} \cup Drainer
Fact == {"action", "start", "model", "read", "ack", "rollback", "report",
         "cli", "due", "mark"}
Place == {"idle", "flight", "lane", "copy", "work", "check", "commit",
          "deliver", "send", "lane2", "record", "last", "end"}

Copy == [ctx : SUBSET Fact, seen : Nat, rev : Nat]
Fresh == [ctx |-> {}, seen |-> 0, rev |-> 0]

(* A handler that is not running.  dirty: its copy has something to save.  *)
Rest == [pc |-> "idle", dirty |-> FALSE, ctx |-> {}, seen |-> 0, rev |-> 0]

WebTypeOK ==
    /\ saved \subseteq Fact /\ savedRev \in Nat
    /\ shared \in Copy
    /\ flight \in Handler \cup {"free"} /\ lane \in Handler \cup {"free"}
    /\ \A h \in Handler :
          /\ job[h].pc \in Place /\ job[h].dirty \in BOOLEAN
          /\ job[h].ctx \subseteq Fact
          /\ job[h].seen \in 0..savedRev /\ job[h].rev \in 0..shared.rev
    /\ deferred \in Seq(1..MaxReports)
    /\ reports.made \in 0..MaxReports
    /\ reports.applied \in Seq(1..MaxReports)
    /\ answered \subseteq Fact
    /\ delivered \in Nat
    /\ budget \in [jobs : 0..MaxJobs, faults : 0..MaxSaveFaults]

WebInit ==
    /\ saved = {} /\ savedRev = 0
    /\ shared = Fresh
    /\ flight = "free" /\ lane = "free"
    /\ job = [h \in Handler |-> Rest]
    /\ deferred = <<>>
    /\ reports = [made |-> 0, applied |-> <<>>]
    /\ answered = {}
    /\ delivered = 0
    /\ budget = [jobs |-> MaxJobs, faults |-> MaxSaveFaults]

-----------------------------------------------------------------------------
(* Copies, saves and locks. *)

Within == (MaxJobs - budget.jobs) + (MaxSaveFaults - budget.faults)
              + reports.made < MaxMoves

At(h, place) == job[h].pc = place
Goes(h, place) == job' = [job EXCEPT ![h].pc = place]

(* Mutant: the copy is written over what is stored.                        *)
MergedByCopy(c) == c.ctx

(* save_context_with_state: the copy itself when the database has not      *)
(* moved since the bridge last saw it, else the merge of both.             *)
Merged(c) == IF c.seen = savedRev THEN c.ctx ELSE saved \cup c.ctx

(* persist_registry_snapshot of a copy, and the copy after it: the merged  *)
(* registry and the new revision of the database.                          *)
Save(c) == saved' = Merged(c) /\ savedRev' = savedRev + 1
AfterSave(c) == [c EXCEPT !.ctx = Merged(c), !.seen = savedRev + 1]

SaveFault == /\ budget.faults > 0 /\ Within
             /\ budget' = [budget EXCEPT !.faults = @ - 1]
             /\ UNCHANGED <<saved, savedRev>>

(* A handler writes into its copy and saves it, or cannot save it.         *)
Writes(h, facts, place) ==
    LET c == [job[h] EXCEPT !.ctx = @ \cup facts, !.pc = place]
    IN  \/ Save(c) /\ UNCHANGED budget
           /\ job' = [job EXCEPT ![h] = [AfterSave(c) EXCEPT !.dirty = TRUE]]
        \/ SaveFault
           /\ job' = [job EXCEPT ![h] = [c EXCEPT !.dirty = FALSE]]

Installed(c) == [ctx |-> c.ctx, seen |-> c.seen, rev |-> shared.rev + 1]

(* reload_registry_from_disk into the shared registry.                     *)
Reloaded == [ctx |-> saved, seen |-> savedRev, rev |-> shared.rev + 1]

Unmoved(h) == shared.rev = job[h].rev

(* The handler returns: its guards are dropped.                            *)
Returns(h) ==
    /\ job' = [job EXCEPT ![h] = Rest]
    /\ flight' = IF flight = h THEN "free" ELSE flight
    /\ lane' = IF lane = h THEN "free" ELSE lane

(* Where a handler starts, and where it goes with each lock.  The browser  *)
(* only tries the flight; the push tick and the operations wait for it.    *)
First(h) == CASE h \in {"action", "refresh", "start"} -> "flight"
              [] h = "model"                           -> "lane"
              [] h \in {"read", "ack"}                 -> "copy"

UnderFlight(h) == IF h = "action" /\ lane # h THEN "lane" ELSE "copy"

UnderLane(h) == CASE h = "action"  -> IF flight = h THEN "copy" ELSE "flight"
                  [] h = "model"   -> "copy"
                  [] h = "refresh" -> "check"
                  [] h = "start"   -> "commit"
                  [] h \in Drainer -> "work"

Begin(h) ==
    /\ At(h, "idle") /\ h \notin Drainer
    /\ budget.jobs > 0 /\ Within
    /\ budget' = [budget EXCEPT !.jobs = @ - 1]
    /\ Goes(h, First(h))
    /\ UNCHANGED <<saved, savedRev, shared, flight, lane, deferred, reports,
                   answered, delivered>>

TakeFlight(h) ==
    /\ At(h, "flight") /\ flight = "free"
    /\ flight' = h
    /\ Goes(h, UnderFlight(h))
    /\ UNCHANGED <<saved, savedRev, shared, lane, deferred, reports, answered,
                   delivered, budget>>

TakeLane(h) ==
    /\ lane = "free"
    /\ \/ At(h, "lane") /\ Goes(h, UnderLane(h))
       \/ At(h, "lane2") /\ Goes(h, "record")
    /\ lane' = h
    /\ UNCHANGED <<saved, savedRev, shared, flight, deferred, reports, answered,
                   delivered, budget>>

(* A start holds the flight for the copy only.                             *)
CopyShared(h) ==
    /\ At(h, "copy")
    /\ job' = [job EXCEPT ![h] = [pc |-> IF h = "start" THEN "lane" ELSE "work",
                                  dirty |-> FALSE, ctx |-> shared.ctx,
                                  seen |-> shared.seen, rev |-> shared.rev]]
    /\ flight' = IF h = "start" THEN "free" ELSE flight
    /\ UNCHANGED <<saved, savedRev, shared, lane, deferred, reports, answered,
                   delivered, budget>>

-----------------------------------------------------------------------------
(* run_optimistic: actions and the harness switch. *)

ActionWork ==
    /\ At("action", "work")
    /\ \/ Writes("action", {"action"}, "commit")
       \/ Goes("action", "commit") /\ UNCHANGED <<saved, savedRev, budget>>
    /\ UNCHANGED <<shared, flight, lane, deferred, reports, answered, delivered>>

(* An unmoved revision takes the copy.  Else what was saved is read back,  *)
(* and what was not saved is refused with a conflict.                      *)
Commit(h) == IF Unmoved(h) THEN Installed(job[h])
             ELSE IF job[h].dirty THEN Reloaded ELSE shared

ActionCommit ==
    /\ At("action", "commit")
    /\ \/ /\ shared' = Commit("action")
          /\ answered' = IF job["action"].dirty THEN answered \cup {"action"}
                         ELSE answered
          /\ UNCHANGED <<saved, savedRev, budget>>
       \/ /\ ~Unmoved("action") /\ job["action"].dirty
          /\ SaveFault
          /\ UNCHANGED <<shared, answered>>
    /\ Returns("action")
    /\ UNCHANGED <<deferred, reports, delivered>>

(* rollback_harness_swap edits the shared registry itself.                 *)
Rollback ==
    LET c == [shared EXCEPT !.ctx = @ \cup {"rollback"}]
    IN  /\ flight = "free" /\ lane = "free"
        /\ "action" \in shared.ctx /\ "rollback" \notin shared.ctx
        /\ \/ Save(c) /\ shared' = Installed(AfterSave(c)) /\ UNCHANGED budget
           \/ SaveFault /\ shared' = Installed(c)
        /\ UNCHANGED <<flight, lane, job, deferred, reports, answered, delivered>>

-----------------------------------------------------------------------------
(* commit_start_delta: only the facts of the task being started go into    *)
(* the shared registry, at a checkpoint (dirty) and at the end. *)

StartCommit ==
    LET c == [shared EXCEPT !.ctx = @ \cup {"start"}]
    IN  /\ At("start", "commit")
        /\ \/ /\ Save(c) /\ shared' = Installed(AfterSave(c))
              /\ IF job["start"].dirty
                 THEN Returns("start") /\ answered' = answered \cup {"start"}
                 ELSE /\ job' = [job EXCEPT !["start"].pc = "lane",
                                            !["start"].dirty = TRUE]
                      /\ lane' = "free"
                      /\ UNCHANGED <<flight, answered>>
              /\ UNCHANGED budget
           \/ SaveFault /\ Returns("start") /\ UNCHANGED <<shared, answered>>
        /\ UNCHANGED <<deferred, reports, delivered>>

-----------------------------------------------------------------------------
(* Session writes under the lane: the session model, an attach. *)

(* commit_durable saves through a copy of the bridge, so the bridge that   *)
(* is installed still has the revision from before the save.               *)
Durable(c) == [ctx |-> Merged(c), seen |-> c.seen, rev |-> shared.rev + 1]

ModelCommit ==
    LET c == [job["model"] EXCEPT !.ctx = @ \cup {"model"}]
    IN  /\ At("model", "work")
        /\ \/ /\ Unmoved("model") /\ Save(c)
              /\ shared' = Durable(c)
              /\ answered' = answered \cup {"model"}
              /\ UNCHANGED budget
           \/ /\ \/ ~Unmoved("model") /\ UNCHANGED <<saved, savedRev, budget>>
                 \/ Unmoved("model") /\ SaveFault
              /\ UNCHANGED <<shared, answered>>
        /\ Returns("model")
        /\ UNCHANGED <<deferred, reports, delivered>>

-----------------------------------------------------------------------------
(* run_read and operator_input_sink: no lock, so a refresh may be put into *)
(* place between the copy and the commit. *)

ReadWork ==
    /\ At("read", "work")
    /\ Writes("read", {"read"}, "commit")
    /\ UNCHANGED <<shared, flight, lane, deferred, reports, answered, delivered>>

ReadCommit ==
    /\ At("read", "commit")
    /\ shared' = IF Unmoved("read") THEN Installed(job["read"]) ELSE shared
    /\ Returns("read")
    /\ UNCHANGED <<saved, savedRev, deferred, reports, answered, delivered,
                   budget>>

AckWork ==
    /\ At("ack", "work")
    /\ Writes("ack", {"ack"}, "commit")
    /\ UNCHANGED <<shared, flight, lane, deferred, reports, answered, delivered>>

AckCommit ==
    /\ At("ack", "commit")
    /\ shared' = IF ~job["ack"].dirty THEN shared
                 ELSE IF Unmoved("ack") THEN Installed(job["ack"]) ELSE Reloaded
    /\ Returns("ack")
    /\ UNCHANGED <<saved, savedRev, deferred, reports, answered, delivered,
                   budget>>

-----------------------------------------------------------------------------
(* refresh_cockpit_and_cache_locked and deliver_and_record. *)

(* reload_context_if_stale.                                                *)
Probe(c) == IF c.seen = savedRev THEN c
            ELSE [c EXCEPT !.ctx = saved, !.seen = savedRev, !.dirty = TRUE]

(* The probe may find that a notification is due.                          *)
RefreshProbe ==
    /\ At("refresh", "work")
    /\ \E found \in {{}, {"due"}} :
          LET c == Probe(job["refresh"])
          IN  job' = [job EXCEPT !["refresh"] =
                        [c EXCEPT !.pc = "lane", !.ctx = @ \cup found,
                                  !.dirty = @ \/ found \ c.ctx # {}]]
    /\ UNCHANGED <<saved, savedRev, shared, flight, lane, deferred, reports,
                   answered, delivered, budget>>

(* Under the lane: a revision that moved discards the probe, else a probe  *)
(* that changed something is saved; a save that fails ends the refresh.    *)
RefreshDiscard ==
    /\ At("refresh", "check")
    /\ \/ ~Unmoved("refresh") /\ UNCHANGED <<saved, savedRev, budget>>
       \/ Unmoved("refresh") /\ job["refresh"].dirty /\ SaveFault
    /\ Returns("refresh")
    /\ UNCHANGED <<shared, deferred, reports, answered, delivered>>

RefreshSave ==
    /\ At("refresh", "check") /\ Unmoved("refresh")
    /\ IF job["refresh"].dirty
       THEN /\ Save(job["refresh"])
            /\ job' = [job EXCEPT !["refresh"] =
                          [AfterSave(@) EXCEPT !.pc = "commit"]]
       ELSE Goes("refresh", "commit") /\ UNCHANGED <<saved, savedRev>>
    /\ UNCHANGED <<shared, flight, lane, deferred, reports, answered, delivered,
                   budget>>

(* The probe is swapped in, and the revision stays as it is.               *)
RefreshCommit ==
    /\ At("refresh", "commit")
    /\ shared' = IF Unmoved("refresh")
                 THEN [Installed(job["refresh"]) EXCEPT !.rev = shared.rev]
                 ELSE shared
    /\ lane' = "free"
    /\ Goes("refresh", "deliver")
    /\ UNCHANGED <<saved, savedRev, flight, deferred, reports, answered,
                   delivered, budget>>

Pending(ctx) == "due" \in ctx /\ "mark" \notin ctx

DeliverCopy ==
    /\ At("refresh", "deliver")
    /\ IF Pending(shared.ctx)
       THEN /\ job' = [job EXCEPT !["refresh"] =
                          [pc |-> "send", dirty |-> TRUE, ctx |-> shared.ctx,
                           seen |-> shared.seen, rev |-> shared.rev]]
            /\ UNCHANGED <<flight, lane>>
       ELSE Returns("refresh")
    /\ UNCHANGED <<saved, savedRev, shared, deferred, reports, answered,
                   delivered, budget>>

Deliver ==
    /\ At("refresh", "send")
    /\ delivered' = delivered + 1
    /\ job' = [job EXCEPT !["refresh"].ctx = @ \cup {"mark"},
                          !["refresh"].pc = "lane2"]
    /\ UNCHANGED <<saved, savedRev, shared, flight, lane, deferred, reports,
                   answered, budget>>

DeliverSave ==
    /\ At("refresh", "record")
    /\ Writes("refresh", {"mark"}, "last")
    /\ UNCHANGED <<shared, flight, lane, deferred, reports, answered, delivered>>

DeliverCommit ==
    /\ At("refresh", "last")
    /\ shared' = IF Unmoved("refresh") THEN Installed(job["refresh"]) ELSE shared
    /\ Returns("refresh")
    /\ UNCHANGED <<saved, savedRev, deferred, reports, answered, delivered,
                   budget>>

-----------------------------------------------------------------------------
(* Activity reports of a chat session. *)

(* record_task_activity writes one task's activity; the bridge follows     *)
(* only when no other save came between.                                   *)
RecordInPlace ==
    /\ saved' = saved \cup {"report"} /\ savedRev' = savedRev + 1
    /\ shared' = [ctx  |-> shared.ctx \cup {"report"},
                  seen |-> IF shared.seen = savedRev THEN savedRev + 1
                           ELSE shared.seen,
                  rev  |-> shared.rev + 1]
    /\ UNCHANGED budget

(* The second attempt, after the first failed: a fresh load, committed     *)
(* with commit_durable.                                                    *)
RecordReloaded ==
    /\ budget.faults > 0 /\ Within
    /\ budget' = [budget EXCEPT !.faults = @ - 1]
    /\ saved' = saved \cup {"report"} /\ savedRev' = savedRev + 1
    /\ shared' = [ctx |-> saved', seen |-> savedRev, rev |-> shared.rev + 1]

Apply(n) ==
    /\ RecordInPlace \/ RecordReloaded
    /\ reports' = [reports EXCEPT !.applied = Append(@, n),
                                  !.made = IF n > @ THEN n ELSE @]
    /\ answered' = answered \cup {"report"}

(* report_or_defer_task_session_activity: at once when nothing waits and   *)
(* the lane is free.                                                       *)
MayReportNow == deferred = <<>> /\ lane = "free"

Report ==
    /\ reports.made < MaxReports /\ Within
    /\ MayReportNow
    /\ \/ Apply(reports.made + 1)
       \/ /\ SaveFault
          /\ reports' = [reports EXCEPT !.made = @ + 1]
          /\ UNCHANGED <<shared, answered>>
    /\ UNCHANGED <<flight, lane, job, deferred, delivered>>

NeedsDrainer == deferred = <<>>

(* Else it waits, and the first one that waits starts a drainer thread.    *)
Defer ==
    /\ reports.made < MaxReports /\ Within
    /\ ~MayReportNow
    /\ deferred' = Append(deferred, reports.made + 1)
    /\ reports' = [reports EXCEPT !.made = @ + 1]
    /\ IF NeedsDrainer
       THEN \E d \in Drainer : At(d, "idle") /\ Goes(d, "lane")
       ELSE UNCHANGED job
    /\ UNCHANGED <<saved, savedRev, shared, flight, lane, answered, delivered,
                   budget>>

(* The drainer applies the front under the lane, or logs that it could     *)
(* not, and takes it off the queue only then.                              *)
DrainApply(d) ==
    /\ At(d, "work") /\ deferred # <<>>
    /\ \/ Apply(Head(deferred))
       \/ SaveFault /\ UNCHANGED <<shared, reports, answered>>
    /\ Goes(d, "commit")
    /\ UNCHANGED <<flight, lane, deferred, delivered>>

DrainPop(d) ==
    /\ At(d, "commit") /\ d \in Drainer
    /\ deferred' = Tail(deferred)
    /\ Goes(d, "work")
    /\ UNCHANGED <<saved, savedRev, shared, flight, lane, reports, answered,
                   delivered, budget>>

DrainEnd(d) ==
    /\ \/ At(d, "work") /\ deferred = <<>> /\ Goes(d, "end")
         /\ UNCHANGED <<flight, lane>>
       \/ At(d, "end") /\ Returns(d)
    /\ UNCHANGED <<saved, savedRev, shared, deferred, reports, answered,
                   delivered, budget>>

(* Another process saves (external: the CLI or the TUI cockpit).           *)
CliSave ==
    /\ budget.jobs > 0 /\ Within
    /\ budget' = [budget EXCEPT !.jobs = @ - 1]
    /\ saved' = saved \cup {"cli"} /\ savedRev' = savedRev + 1
    /\ UNCHANGED <<shared, flight, lane, job, deferred, reports, answered,
                   delivered>>

Steps(h) ==
    \/ TakeFlight(h) \/ TakeLane(h) \/ CopyShared(h)
    \/ h = "action" /\ (ActionWork \/ ActionCommit)
    \/ h = "start" /\ StartCommit
    \/ h = "model" /\ ModelCommit
    \/ h = "read" /\ (ReadWork \/ ReadCommit)
    \/ h = "ack" /\ (AckWork \/ AckCommit)
    \/ h = "refresh" /\ (\/ RefreshProbe \/ RefreshDiscard \/ RefreshSave
                         \/ RefreshCommit \/ DeliverCopy \/ Deliver
                         \/ DeliverSave \/ DeliverCommit)
    \/ h \in Drainer /\ (DrainApply(h) \/ DrainPop(h) \/ DrainEnd(h))

WebNext == \/ \E h \in Handler : Begin(h) \/ Steps(h)
           \/ Rollback \/ Report \/ Defer \/ CliSave

WebSpec == WebInit /\ [][WebNext]_webVars

-----------------------------------------------------------------------------
(* A write that its handler reported as done is stored, and the shared     *)
(* registry has it or knows that it has to be loaded again, whatever       *)
(* copies the other handlers put back, save or fail to save.               *)
AnsweredIsSeen ==
    /\ answered \subseteq saved
    /\ answered \subseteq shared.ctx \/ shared.seen # savedRev

(* Reports are applied in the order in which the session made them, though *)
(* some are applied at once and others by a drainer; and a report that     *)
(* waits has a drainer that will still look at the queue, also when it was *)
(* put there while the last drainer was on its way out.                    *)
ReportsKept ==
    /\ \A i, j \in 1..Len(reports.applied) :
          i < j => reports.applied[i] < reports.applied[j]
    /\ deferred # <<>> =>
          \E d \in Drainer : job[d].pc \in {"lane", "work", "commit"}

(* The holder of one lock never waits for the other lock's holder while    *)
(* that one waits in turn, although a handler takes a second lock in the   *)
(* middle of its work and a drainer blocks a thread of the host.           *)
NoCircularWait ==
    \A h \in Handler :
        flight = h /\ job[h].pc \in {"lane", "lane2"} /\ lane # "free"
            => job[lane].pc \notin {"flight", "lane", "lane2"}

(* architecture/web-cockpit.md on a mark that could not be saved: it stays *)
(* in memory, so the notification is not sent again until a restart.       *)
NotResent == delivered <= 1

(* Handlers that share the registry keep each other's answers and reports, *)
(* and never wait for each other in a circle (SharedContext).              *)
HandlersAgree == AnsweredIsSeen /\ ReportsKept /\ NoCircularWait
=============================================================================
