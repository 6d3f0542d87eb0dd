---------------------------- MODULE ChatHandlers ----------------------------
(***************************************************************************)
(* The handlers of the per-chat TaskSession actor: durable writes, prompt  *)
(* dispatch, the drain of the agent's answers, child exit, replacement,    *)
(* restart, clear and harness switch (task_session*.rs).                   *)
(*                                                                         *)
(* A handler maps a configuration c to the set of configurations it may    *)
(* leave behind; c.ok is the Result it returned.  c holds the actor's own  *)
(* state (c.s), the database (owner, rows, run) and what has been handed   *)
(* to an agent (sent).  Any database write may fail (a fault of the        *)
(* budget), may find that a peer took the lease over just before it, or    *)
(* may never be reached because the process dies (c.crashed, after which   *)
(* nothing the handler does reaches the database or an agent).             *)
(*                                                                         *)
(* Error notes that the code writes once per episode may or may not be     *)
(* written here (MaybeLog).                                                *)
(***************************************************************************)
EXTENDS PromptLedger, Lease

CONSTANTS None,        \* an absent option
          Answers,     \* the kinds of answer an agent gives
          MaxFaults,   \* database or agent faults per behaviour
          MaxQueued    \* MAX_QUEUED_PROMPTS

Accepted(c) == [c EXCEPT !.ok = TRUE]
Rejected(c) == [c EXCEPT !.ok = FALSE]
Crashed(c) == [c EXCEPT !.ok = FALSE, !.crashed = TRUE]

(* One fault of the budget is spent on an error. *)
Faulty(c) == IF c.faults < MaxFaults
             THEN {[c EXCEPT !.ok = FALSE, !.faults = @ + 1]} ELSE {}

(* The `?` of the code, and a call whose Result is ignored. *)
Then(S, F(_)) == UNION {IF d.ok THEN F(d) ELSE {d} : d \in S}
Anyway(S, F(_)) == UNION {F(d) : d \in S}

-----------------------------------------------------------------------------
(* The database.                                                           *)

(* commit_execution with the owner fence. *)
Write(c) ==
    IF c.crashed \/ c.owner # c.host THEN {Rejected(c)}
    ELSE {Accepted(c), Crashed(c)} \cup Faulty(c)
         \cup {[c EXCEPT !.ok = FALSE, !.owner = g, !.claimed[g] = TRUE] : g \in c.peers}

Read(c) == {Accepted(c)} \cup Faulty(c)

(* append_to_log, persist_log_batch: events that cannot be saved are kept  *)
(* as a backlog and raise the transcript durability fault.                 *)
Log(c) == {[d EXCEPT !.s.backlog = ~d.ok, !.s.fault = ~d.ok] : d \in Write(c)}

Note(c) == {Accepted(d) : d \in Log(c)}

MaybeLog(c) == {Accepted(c)} \cup Note(c)

(* persist_ledger_update, try_persist: a plan that changes nothing does    *)
(* not reach the database and so is not fenced.                            *)
Commit(c, ledger) ==
    IF ~PlanOK(c.rows, ledger) THEN {Rejected(c)}
    ELSE {IF d.ok THEN [d EXCEPT !.rows = PlanApply(@, ledger), !.s.ledger = ledger] ELSE d :
             d \in IF PlanEmpty(c.rows, ledger) THEN Read(c) ELSE Write(c)}

(* commit_ledger_with_events: the ledger, the new events and the backlog   *)
(* in one transaction.                                                     *)
CommitWithEvents(c, ledger, events) ==
    IF ~PlanOK(c.rows, ledger) THEN {Rejected(c)}
    ELSE {IF d.ok
          THEN [d EXCEPT !.rows = PlanApply(@, ledger), !.s.ledger = ledger,
                         !.s.backlog = FALSE, !.s.fault = FALSE]
          ELSE d :
             d \in IF PlanEmpty(c.rows, ledger) /\ ~events /\ ~c.s.backlog
                   THEN Read(c) ELSE Write(c)}

-----------------------------------------------------------------------------
(* The agent slot.                                                         *)

HasClient(c) == c.s.slot # "absent"

(* has_healthy_client also records an exit that it notices. *)
Healthy(c) == c.s.slot = "live" /\ c.alive

MarkExited(c) == IF c.s.slot \in {"spawning", "live"}
                 THEN [c EXCEPT !.s.slot = "exited"] ELSE c

NoteExit(c) == IF c.s.slot = "live" /\ ~c.alive THEN MarkExited(c) ELSE c

(* take_client, then shutdown, detach or drop: the process group is killed. *)
Kill(c) == IF c.crashed THEN c
           ELSE [c EXCEPT !.alive = FALSE, !.s.slot = "absent", !.s.chan = None]

(* Mutant: a staged client that cannot be kept stays in the slot. *)
DiscardNothing(S) == S

(* discard_staged_client, discard_unsaved_client on an error. *)
Discard(S) == {IF d.ok THEN d ELSE Kill(d) : d \in S}

(* install: the staged client of a spawn that succeeded. *)
Install(c) == IF c.crashed THEN c
              ELSE [c EXCEPT !.alive = TRUE, !.s.slot = "spawning", !.s.chan = None]

(* spawn_acp: the handshake with a new agent process. *)
Spawn(c) == Read(c)

(* record_child_identity: the run row names the child and this boot. *)
RecordChild(c) ==
    {IF d.ok THEN [d EXCEPT !.run = [child |-> c.host, boot |-> c.host]] ELSE d : d \in Write(c)}

(* Mutant: the run row of another boot is not looked at. *)
RejectNothing(c) == Read(c)

(* reject_foreign_live_child *)
RejectForeignLiveChild(c) ==
    {IF d.ok /\ d.run.boot # c.host /\ d.run.child \in c.agents THEN Rejected(d) ELSE d :
        d \in Read(c)}

-----------------------------------------------------------------------------
(* The end of a turn.                                                      *)

Active(id, term) == [id |-> id, term |-> term, cancel |-> FALSE]

(* try_finalize_active_prompt: the captured outcome becomes durable, or is *)
(* kept for another attempt.                                               *)
Finalize(c) ==
    IF c.s.active = None \/ c.s.active.term = None THEN {c}
    ELSE LET ledger == IF c.s.active.term = "failed"
                       THEN MarkInterrupted(c.s.ledger, c.s.active.id)
                       ELSE MarkCompleted(c.s.ledger, c.s.active.id)
         IN UNION {IF d.ok THEN {[d EXCEPT !.s.active = None]}
                   ELSE IF d.s.backlog THEN {d} ELSE MaybeLog(d) :
                      d \in CommitWithEvents(c, ledger, TRUE)}

(* Mutant: a turn without an answer is forgotten, not interrupted. *)
InterruptActiveUnsaved(c) ==
    IF c.s.active = None THEN {Accepted(c)}
    ELSE IF c.s.active.term # None
    THEN {[d EXCEPT !.ok = d.s.active = None] : d \in Finalize(c)}
    ELSE {[c EXCEPT !.ok = TRUE, !.s.active = None]}

(* interrupt_active_prompt *)
InterruptActive(c) ==
    IF c.s.active = None THEN {Accepted(c)}
    ELSE IF c.s.active.term # None
    THEN {[d EXCEPT !.ok = d.s.active = None] : d \in Finalize(c)}
    ELSE {IF d.ok THEN [d EXCEPT !.s.active = None] ELSE d :
             d \in Commit(c, MarkInterrupted(c.s.ledger, c.s.active.id))}

-----------------------------------------------------------------------------
(* Dispatch.                                                               *)

(* begin_prompt with retain_begin_failure.  A request that is answered     *)
(* with an error, or not answered in time, may have reached the agent.     *)
Begin(c, q) ==
    LET begun == [c EXCEPT !.ok = TRUE, !.s.active = Active(q.id, None), !.s.chan = None]
        failed(d) == {Rejected(e) : e \in Finalize(
                        [d EXCEPT !.s.active = Active(q.id, "failed"), !.s.chan = None])}
        delivered(d) == [d EXCEPT !.sent = Append(@, q)]
        failures == IF c.alive THEN UNION {{d, delivered(d)} : d \in Faulty(c)} ELSE {c}
    IN IF c.crashed THEN {c}
       ELSE {Crashed(c), IF c.alive THEN delivered(begun) ELSE begun}
            \cup UNION {failed(d) : d \in failures}

(* Mutant: the intent to dispatch is not made durable first. *)
DispatchQueuedFirst(c, q) == Begin(c, q)

(* dispatch_queued_prompt: the failure of begin_prompt is retained, and    *)
(* the prompt counts as dispatched.                                        *)
DispatchQueued(c, q) ==
    IF c.lost \/ c.s.fault THEN {Rejected(c)}
    ELSE Then(Commit(c, MarkDispatching(c.s.ledger, q.id)),
              LAMBDA d : {Accepted(e) : e \in Begin(d, q)})

(* try_dispatch_next_if_idle *)
TryDispatch(c) ==
    LET d == NoteExit(c)
    IN IF c.lost \/ c.s.active # None \/ c.s.pending # None THEN {c}
       ELSE IF ~Healthy(d) \/ d.s.queue = <<>> THEN {d}
       ELSE UNION {IF e.ok THEN {[e EXCEPT !.s.queue = Tail(@)]} ELSE MaybeLog(e) :
                      e \in DispatchQueued(d, Head(d.s.queue))}

(* Mutant: a pending interruption is not tried again. *)
RetryPendingNever(c) == {c}

(* retry_pending_exit_interruption *)
RetryPending(c) ==
    IF c.s.pending = None THEN {c}
    ELSE UNION {IF d.ok
                THEN Anyway(Note(d), LAMBDA e :
                        TryDispatch([e EXCEPT !.s.active = None, !.s.pending = None]))
                ELSE MaybeLog(d) :
                   d \in Commit(c, MarkInterrupted(c.s.ledger, c.s.pending))}

-----------------------------------------------------------------------------
(* The drain of the agent's events.                                        *)

(* classify_prompt_terminal: an error that looks like a cancellation is    *)
(* one only when a cancel was requested.                                   *)
Outcome(answer, cancel) ==
    IF answer = "ok" THEN "ok"
    ELSE IF answer = "cancel" /\ cancel THEN "cancelled" ELSE "failed"

(* drain_acp_events and capture_terminal.  An answer the agent has written *)
(* may still be on its way through the reader thread.                      *)
Drain(c) ==
    IF c.s.chan = None THEN {c}
    ELSE {c, [c EXCEPT !.s.chan = None,
                       !.s.active = IF @ = None \/ @.term # None THEN @
                                    ELSE [@ EXCEPT !.term = Outcome(c.s.chan, c.s.active.cancel)]]}

(* Mutant: an interruption that cannot be saved is given up. *)
InterruptAfterExitOnce(c, id) ==
    UNION {IF d.ok
           THEN {[e EXCEPT !.s.active = None, !.s.pending = None] : e \in Note(d)}
           ELSE MaybeLog([d EXCEPT !.s.active = None]) :
              d \in Commit(c, MarkInterrupted(c.s.ledger, id))}

(* The last part of reconcile_unexpected_child_exit: the interruption is   *)
(* made durable or kept pending.                                           *)
InterruptAfterExit(c, id) ==
    UNION {IF d.ok
           THEN {[e EXCEPT !.s.active = None, !.s.pending = None] : e \in Note(d)}
           ELSE MaybeLog([d EXCEPT !.s.pending = id]) :
              d \in Commit(c, MarkInterrupted(c.s.ledger, id))}

(* reconcile_unexpected_child_exit *)
Reconcile(c) ==
    Anyway(MaybeLog(MarkExited([c EXCEPT !.s.reconciled = TRUE])), LAMBDA d :
        IF d.s.active = None THEN {d}
        ELSE Anyway(Finalize(d), LAMBDA e :
                IF d.s.active.term \in {"ok", "cancelled"} THEN {e}
                ELSE InterruptAfterExit(e, d.s.active.id)))

(* pump *)
Pump(c) ==
    Anyway(RetryPending(c), LAMBDA d :
        IF ~HasClient(d) THEN {d}
        ELSE Anyway(UNION {MaybeLog(e) : e \in Drain(d)}, LAMBDA f :
                Anyway(IF ~f.alive /\ ~f.s.reconciled THEN Reconcile(f)
                       ELSE {IF f.alive THEN g ELSE MarkExited(g) : g \in Finalize(f)},
                       TryDispatch)))

-----------------------------------------------------------------------------
(* The ledger after a restart or a replacement.                            *)

(* Mutant: the prompt queued last comes first. *)
QueueLastFirst(ledger) ==
    LET queued == InPhase(ledger, "Queued")
    IN [i \in DOMAIN queued |->
           LET e == queued[Len(queued) + 1 - i] IN [id |-> e.id, text |-> e.text]]

(* restore_queued_prompts *)
QueueOf(ledger) ==
    LET queued == InPhase(ledger, "Queued")
    IN [i \in DOMAIN queued |-> [id |-> queued[i].id, text |-> queued[i].text]]

(* Mutant: the interruption of what was dispatching is not saved. *)
RecoverUnsaved(c) ==
    Anyway(RetryPending(c), LAMBDA d :
        IF d.s.pending # None \/ d.s.active # None THEN {Rejected(d)}
        ELSE Then(Read(d), LAMBDA e :
                LET ledger == RecoverAfterRestart(LedgerFromRows(e.rows))
                IN {[e EXCEPT !.s.ledger = ledger, !.s.unusable = FALSE,
                              !.s.queue = QueueOf(ledger)]}))

(* recover_prompt_ledger: the ledger is read again, what was dispatching   *)
(* is interrupted durably, and the queue is restored.                      *)
Recover(c) ==
    Anyway(RetryPending(c), LAMBDA d :
        IF d.s.pending # None \/ d.s.active # None THEN {Rejected(d)}
        ELSE Then(Read(d), LAMBDA e :
                LET stored == LedgerFromRows(e.rows)
                    ledger == RecoverAfterRestart(stored)
                    loaded == [e EXCEPT !.s.ledger = ledger, !.s.unusable = FALSE]
                    restored(f) == [f EXCEPT !.s.queue = QueueOf(ledger)]
                IN IF ledger = stored THEN {restored(loaded)}
                   ELSE Then(Commit(loaded, ledger), LAMBDA f : Note(restored(f)))))
=============================================================================
