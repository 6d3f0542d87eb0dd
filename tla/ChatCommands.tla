---------------------------- MODULE ChatCommands ----------------------------
(***************************************************************************)
(* The commands of the TaskSession actor, built from the handlers of       *)
(* ChatHandlers: acquire, respawn, harness switch, clear, submit, cancel,  *)
(* restart, the 50 ms poll tick, flush and shutdown.  The chat has no      *)
(* session shim, so try_adopt finds nothing to adopt.                      *)
(***************************************************************************)
EXTENDS ChatHandlers

(* release_live_client, release_child: the turn in flight is cancelled and *)
(* settled, then the agent is killed.  The queue is held aside so nothing  *)
(* is dispatched on the way out.                                           *)
ReleaseLiveClient(c) ==
    LET aside == [c EXCEPT !.s.queue = <<>>]
        back(d) == [d EXCEPT !.s.queue = c.s.queue]
        cancelled(d) == IF d.s.active = None THEN d ELSE [d EXCEPT !.s.active.cancel = TRUE]
        answered(d) == {d} \cup IF d.alive /\ d.s.chan = None
                                THEN {[d EXCEPT !.s.chan = a] : a \in Answers}
                                ELSE {}
        settle(d) == IF d.s.active = None THEN {Accepted(d)}
                     ELSE Then(InterruptActive(d), LAMBDA e :
                             IF d.s.active.term = None THEN Log(e) ELSE {e})
        awaiting(d) == Anyway(UNION {MaybeLog(e) : e \in answered(d)}, LAMBDA f :
                          Anyway(Pump(f), settle))
        body(d) == IF d.s.pending # None THEN {Rejected(d)}
                   ELSE LET e == cancelled(d)
                        IN IF e.s.active # None /\ e.s.active.term = None
                           THEN IF HasClient(e) THEN awaiting(e) ELSE {Accepted(e)}
                           ELSE InterruptActive(e)
        killed(d) == IF ~HasClient(d) THEN {d} ELSE MaybeLog(Kill(d))
    IN {back(d) : d \in
          Then(Anyway(RetryPending(aside), body), LAMBDA d :
              {[e EXCEPT !.s.reconciled = TRUE] : e \in killed(d)})}

(* finalize_client_metadata *)
FinalizeMetadata(c) ==
    Then(Write(c), LAMBDA d :
        {[e EXCEPT !.s.slot = "live", !.s.reconciled = FALSE] : e \in MaybeLog(d)})

(* install_replaced_client: the slot becomes live only when the ledger was *)
(* recovered and the session id saved.                                     *)
InstallReplaced(c) ==
    Then(Discard(Then(Then(RecordChild(Install(c)), Recover), FinalizeMetadata)),
         LAMBDA d : {Accepted(e) : e \in TryDispatch(d)})

(* respawn; every caller forces it. *)
Respawn(c) ==
    IF c.lost \/ ~HasClient(c) THEN {Rejected(c)}
    ELSE Then(Then(Then(Then(Read(c), ReleaseLiveClient), RejectForeignLiveChild), Spawn),
              InstallReplaced)

(* reset_harness_context with retire_previous_client and                   *)
(* commit_switched_client: the new agent is started first and kept only    *)
(* when the old one is retired and the switch is saved.                    *)
Switch(c) ==
    LET retire(d) ==
            Then(CommitWithEvents([d EXCEPT !.s.fault = FALSE], RemoveQueued(d.s.ledger), FALSE),
                 LAMBDA e : Then(ReleaseLiveClient([e EXCEPT !.s.queue = <<>>]), Write))
        spawned(d) == Then(Then(Then(retire(d), Write), Log), LAMBDA e :
                           Discard(RecordChild(Install(e))))
    IN Then(RejectForeignLiveChild(c), LAMBDA d :
          UNION {IF e.ok
                 THEN Then(spawned(e), LAMBDA f : MaybeLog([f EXCEPT !.s.slot = "live"]))
                 ELSE {Rejected(f) : f \in Log(e)} : e \in Spawn(d)})

(* adopt_stored_session *)
AdoptStored(c) == {IF d.ok THEN [d EXCEPT !.s.loaded = TRUE] ELSE d : d \in Recover(c)}

(* acquire on an empty slot, up to finish_first_acquire. *)
FirstAcquire(c) ==
    Then(Then(Then(Read(c), RejectForeignLiveChild), Spawn), LAMBDA d :
        Then(Discard(Then(Then(RecordChild(Install(d)), AdoptStored), FinalizeMetadata)),
             LAMBDA e : {Accepted(f) : f \in TryDispatch([e EXCEPT !.s.holders = 1])}))

(* acquire; `other` says that another harness was asked for. *)
Acquire(c, other) ==
    LET d == [c EXCEPT !.s.path = TRUE]
        held(S) == {IF e.ok THEN [e EXCEPT !.s.holders = @ + 1] ELSE e : e \in S}
    IN IF c.lost THEN {Rejected(c)}
       ELSE IF ~HasClient(c) THEN FirstAcquire(d)
       ELSE IF other THEN held(Switch(d))
       ELSE IF Healthy(c) THEN held({Accepted(d)})
       ELSE held(Then(Then(Then(Then(Read(d), ReleaseLiveClient), RejectForeignLiveChild),
                           Spawn), InstallReplaced))

AcquireKeepingHolders(c) ==
    {[d EXCEPT !.s.holders = c.s.holders] : d \in Acquire(c, FALSE)}

(* revive_child: acquire without taking a holder. *)
Revive(c) == IF c.s.path THEN AcquireKeepingHolders(c) ELSE {Accepted(c)}

(* clear_session_context *)
ClearContext(c, takeHolder) ==
    LET loaded == IF c.s.loaded THEN {Accepted(c)} ELSE Then(Read(c), AdoptStored)
        emptied(d) == {[e EXCEPT !.s.queue = IF e.ok THEN <<>> ELSE @] :
                          e \in CommitWithEvents([d EXCEPT !.s.fault = FALSE],
                                                 RemoveQueued(d.s.ledger), FALSE)}
        respawned(d) == Then(Then(Then(Then(Write(d), RejectForeignLiveChild), Spawn), Write), Log)
        installed(d) == Then(Discard(RecordChild(Install(d))), LAMBDA e :
                             MaybeLog([e EXCEPT !.s.slot = "live"]))
    IN {IF d.ok /\ takeHolder THEN [d EXCEPT !.s.holders = @ + 1] ELSE d :
          d \in Then(Then(Then(Then(loaded, emptied), ReleaseLiveClient), respawned), installed)}

-----------------------------------------------------------------------------
(* Prompts.                                                                *)

(* update_queued_prompt *)
UpdateQueued(c, id, text) ==
    Then(Commit(c, UpsertQueued(c.s.ledger, id, text)), LAMBDA d :
        Log([d EXCEPT !.s.queue = [i \in DOMAIN @ |->
                IF @[i].id = id THEN [id |-> id, text |-> text] ELSE @[i]]]))

(* Mutant: the prompt is withdrawn from the ledger but stays in the queue. *)
WithdrawLedgerOnly(c, id) ==
    IF PhaseOf(c.s.ledger, id) # "Queued" THEN Log(c)
    ELSE Then(Commit(c, RemoveEntry(c.s.ledger, id)), Log)

(* withdraw_queued_prompt *)
WithdrawQueued(c, id) ==
    IF ~Has(c.s.ledger, id) THEN {Accepted(c)}
    ELSE IF PhaseOf(c.s.ledger, id) # "Queued" THEN Log(c)
    ELSE Then(Commit(c, RemoveEntry(c.s.ledger, id)), LAMBDA d :
            Log([d EXCEPT !.s.queue = Keeping(@, {q \in Elems(@) : q.id # id})]))

(* The end of submit_prompt for an id the ledger does not have: it waits   *)
(* behind the turn in flight, or is dispatched at once.                    *)
AdmitPrompt(c, id, text) ==
    LET q == [id |-> id, text |-> text]
        queued == UpsertQueued(c.s.ledger, id, text)
    IN IF c.s.active = None
       THEN Then(Then(CommitWithEvents(c, MarkDispatching(queued, id), TRUE),
                      LAMBDA d : Begin(d, q)), Log)
       ELSE IF Len(c.s.queue) >= MaxQueued THEN {Rejected(c)}
       ELSE {IF d.ok THEN [d EXCEPT !.s.queue = Append(@, q)] ELSE d :
                d \in CommitWithEvents(c, queued, TRUE)}

(* Mutant: an interrupted prompt that is sent again is admitted. *)
SubmitInterruptedAgain(c, id, text) ==
    LET phase == PhaseOf(c.s.ledger, id)
    IN IF c.lost \/ c.s.unusable \/ c.s.fault THEN {Rejected(c)}
       ELSE IF text = NoText THEN WithdrawQueued(c, id)
       ELSE IF ~HasClient(c) THEN {Rejected(c)}
       ELSE CASE phase = "Queued" -> UpdateQueued(c, id, text)
              [] phase \in {"Completed", "Dispatching"} -> Log(c)
              [] OTHER -> AdmitPrompt(c, id, text)

(* submit_prompt: an id the ledger already knows is never admitted again.  *)
SubmitPrompt(c, id, text) ==
    LET phase == PhaseOf(c.s.ledger, id)
    IN IF c.lost \/ c.s.unusable \/ c.s.fault THEN {Rejected(c)}
       ELSE IF text = NoText THEN WithdrawQueued(c, id)
       ELSE IF ~HasClient(c) THEN {Rejected(c)}
       ELSE CASE phase = "Interrupted" -> {Rejected(d) : d \in Log(c)}
              [] phase = "Queued" -> UpdateQueued(c, id, text)
              [] phase \in {"Completed", "Dispatching"} -> Log(c)
              [] OTHER -> AdmitPrompt(c, id, text)

(* submit_prompt_after_release: only a prompt that is new revives a dead   *)
(* or missing agent.                                                       *)
SubmitAfterRelease(c, id, text) ==
    LET d == NoteExit(c)
    IN IF Healthy(d) \/ text = NoText \/ PhaseOf(d.s.ledger, id) = "Queued"
       THEN SubmitPrompt(d, id, text)
       ELSE Then(Revive(d), LAMBDA e :
               Anyway(TryDispatch(e), LAMBDA f : SubmitPrompt(f, id, text)))

(* cancel: the queue goes first, then the agent is asked to stop. *)
Cancel(c, keepQueue) ==
    LET emptied == IF keepQueue THEN {Accepted(c)}
                   ELSE {IF d.ok THEN [d EXCEPT !.s.queue = <<>>] ELSE d :
                            d \in Commit(c, RemoveQueued(c.s.ledger))}
        asked(d) == IF ~HasClient(d) THEN {Rejected(d)}
                    ELSE Faulty(d) \cup {Accepted(d)} \cup IF d.alive THEN {} ELSE {Rejected(d)}
    IN Then(Then(emptied, asked), LAMBDA d :
          MaybeLog(IF d.s.active = None THEN d ELSE [d EXCEPT !.s.active.cancel = TRUE]))

(* The id of the copy that a restart submits: `<id>-restart`. *)
RestartId(id) == <<id[1], id[2] + 1>>

(* in_flight_prompt: the first dispatching entry, when a client is attached. *)
InFlight(c) == LET dispatching == InPhase(c.s.ledger, "Dispatching")
               IN IF c.s.holders = 0 \/ dispatching = <<>> THEN None ELSE Head(dispatching)

(* Mutant: the prompt is submitted again whatever became of it. *)
RestartAlwaysResends(c) ==
    LET inFlight == InFlight(c)
        resent(d) == Then(Log(d), LAMBDA e : Anyway(TryDispatch(e), LAMBDA f :
                        IF inFlight # None
                        THEN SubmitPrompt(f, RestartId(inFlight.id), inFlight.text)
                        ELSE {f}))
    IN Then(IF HasClient(c) THEN Respawn(c) ELSE AcquireKeepingHolders(c), resent)

(* restart_child: the agent is replaced, and the prompt it was working on  *)
(* is submitted again under a new id, behind the prompts already queued.   *)
Restart(c) ==
    LET inFlight == InFlight(c)
        interrupted(d) ==
            IF inFlight # None /\ PhaseOf(d.s.ledger, inFlight.id) = "Dispatching"
            THEN CommitWithEvents(d, MarkInterrupted(d.s.ledger, inFlight.id), FALSE)
            ELSE {d}
        resent(d) ==
            LET again == inFlight # None /\ PhaseOf(d.s.ledger, inFlight.id) = "Interrupted"
            IN Then(Log(d), LAMBDA e : Anyway(TryDispatch(e), LAMBDA f :
                  IF again THEN SubmitPrompt(f, RestartId(inFlight.id), inFlight.text)
                  ELSE {f}))
    IN Then(Then(IF HasClient(c) THEN Respawn(c) ELSE AcquireKeepingHolders(c),
                 interrupted), resent)

-----------------------------------------------------------------------------

(* flush_unpersisted_backlog *)
Flush(c) == IF ~c.s.backlog THEN {c}
            ELSE IF c.s.active # None /\ c.s.active.term # None THEN Finalize(c) ELSE Note(c)

(* retry_unpersisted_backlog; the retry may not be due yet. *)
RetryBacklog(c) == IF ~c.s.backlog \/ (c.s.active # None /\ c.s.active.term # None)
                   THEN {c} ELSE MaybeLog(c)

(* resume_queued_after_release: only a released slot is revived, and when  *)
(* that fails the host forgets its copy of the queue.                      *)
ResumeQueued(c) ==
    IF c.s.queue = <<>> \/ HasClient(c) \/ c.s.holders = 0 THEN {c}
    ELSE UNION {IF d.ok THEN {d} ELSE Note([d EXCEPT !.s.queue = <<>>]) : d \in Revive(c)}

(* The 50 ms poll. *)
Tick(c) ==
    Anyway(Anyway(RetryPending(c), RetryBacklog), LAMBDA d :
        Anyway(IF HasClient(d) THEN Pump(d) ELSE {d}, ResumeQueued))

(* The end of the actor's loop after Shutdown: `close` also discards the   *)
(* queue, and the agent is killed without settling its turn.               *)
Shutdown(c, close) ==
    Anyway(Flush(c), LAMBDA d :
        Anyway(IF close THEN Commit(d, RemoveQueued(d.s.ledger)) ELSE {d}, LAMBDA e :
            IF HasClient(e) THEN MaybeLog(Kill(e)) ELSE {e}))
=============================================================================
