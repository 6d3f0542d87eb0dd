---------------------------- MODULE TaskSession ----------------------------
(***************************************************************************)
(* One chat of the registry and the web hosts that may run it.  Every host *)
(* (boot) keeps at most one TaskSession actor for the chat, with at most   *)
(* one agent child; the hosts share the database: the execution_owner row, *)
(* the prompt rows and the run row that names the child.  A host may crash *)
(* between any two durable steps and leave its agent running.              *)
(***************************************************************************)
EXTENDS ChatCommands, FiniteSets

CONSTANTS Prompts,      \* what the browser calls clientMessageId
          Texts,        \* contents of a prompt
          MaxUp,        \* hosts that run at the same time
          MaxClaims,    \* claims of the lease that commit
          MaxHolders,   \* attached clients of one actor
          MaxRestarts,  \* generations of `<id>-restart`
          Commands      \* the optional commands clients and operators give

ASSUME SessionAssumption == /\ NoText \notin Texts
                            /\ {MaxFaults, MaxQueued, MaxUp, MaxClaims, MaxHolders, MaxRestarts}
                                  \subseteq Nat
                            /\ Commands \subseteq {"detach", "withdraw", "cancel", "restart",
                                            "config", "reset", "evict"}
                            /\ Answers \subseteq {"ok", "cancel", "err"}

VARIABLES status,   \* "new", "up" or "gone" process of each boot
          fenced,   \* the boot's store carries an owner fence
          swept,    \* SWEPT_ONCE of the boot: "no", "retry" or "done"
          rows,     \* prompt_submissions of the chat
          run,      \* agent_runs row: child (named by its boot), owner_boot_id
          sess,     \* the actor of every boot
          alive,    \* the agent process a boot started is running
          sent,     \* prompts an agent has received, in order
          faults,   \* faults spent
          claims    \* claims committed

vars == <<owner, lost, claimed, status, fenced, swept, rows, run, sess, alive, sent,
          faults, claims>>

hostVars == <<status, fenced, swept>>
dbVars == <<rows, run>>

Ids == Prompts \X (0..MaxRestarts)

NoSession == [actor |-> FALSE, ledger |-> <<>>, unusable |-> FALSE, queue |-> <<>>,
              active |-> None, pending |-> None, reconciled |-> FALSE, slot |-> "absent",
              chan |-> None, fault |-> FALSE, backlog |-> FALSE, holders |-> 0,
              loaded |-> FALSE, path |-> FALSE]

Init == /\ LeaseInit
        /\ status = [h \in Hosts |-> "new"]
        /\ fenced = [h \in Hosts |-> FALSE]
        /\ swept = [h \in Hosts |-> "no"]
        /\ rows = <<>>
        /\ run = [child |-> NoHost, boot |-> NoHost]
        /\ sess = [h \in Hosts |-> NoSession]
        /\ alive = [h \in Hosts |-> FALSE]
        /\ sent = <<>>
        /\ faults = 0
        /\ claims = 0

Up(h) == status[h] = "up"

-----------------------------------------------------------------------------
(* Running a handler of host h.                                            *)

Load(h) == [host |-> h, owner |-> owner, claimed |-> claimed, lost |-> lost[h],
            peers |-> {g \in Hosts \ {h} : Up(g) /\ claims < MaxClaims},
            agents |-> {g \in Hosts \ {h} : alive[g]},
            rows |-> rows, run |-> run, s |-> sess[h], alive |-> alive[h],
            sent |-> sent, faults |-> faults, ok |-> TRUE, crashed |-> FALSE]

(* The state a handler leaves.  The agent of a host that died in the       *)
(* middle may survive it, unless its identity was never recorded.          *)
Apply(h, c) ==
    /\ owner' = c.owner
    /\ claimed' = c.claimed
    /\ lost' = [lost EXCEPT ![h] = c.lost]
    /\ rows' = c.rows
    /\ run' = c.run
    /\ sent' = c.sent
    /\ faults' = c.faults
    /\ claims' = IF c.owner = owner THEN claims ELSE claims + 1
    /\ status' = IF c.crashed THEN [status EXCEPT ![h] = "gone"] ELSE status
    /\ sess' = [sess EXCEPT ![h] = IF c.crashed THEN NoSession ELSE c.s]
    /\ \E survives \in IF c.crashed /\ c.run.child = h THEN BOOLEAN ELSE {~c.crashed} :
          alive' = [g \in Hosts |-> IF g = h THEN c.alive /\ survives ELSE g \in c.agents]

(* A command of the actor of h. *)
Command(h, S) == /\ \E c \in S : Apply(h, c)
                 /\ UNCHANGED <<fenced, swept>>

Running(h) == Up(h) /\ sess[h].actor

-----------------------------------------------------------------------------
(* Hosts and the lease.                                                    *)

StartHost(h) ==
    /\ status[h] = "new"
    /\ Cardinality({g \in Hosts : Up(g)}) < MaxUp
    /\ status' = [status EXCEPT ![h] = "up"]
    /\ UNCHANGED <<leaseVars, fenced, swept, dbVars, sess, alive, sent, faults, claims>>

(* A claim transaction of h commits.  A host that runs alone takes over    *)
(* the lease of a host that is gone.                                       *)
ClaimLease(h) ==
    /\ Up(h) /\ ~claimed[h] /\ (owner # h \/ lost[h] \/ ~fenced[h])
    /\ claims < MaxClaims
    /\ Claim(h)
    /\ claims' = claims + 1
    /\ UNCHANGED <<hostVars, dbVars, sess, alive, sent, faults>>

(* try_claim stores its flags and sets the owner fence. *)
ConfirmLease(h) ==
    /\ Up(h)
    /\ Confirm(h)
    /\ fenced' = [fenced EXCEPT ![h] = TRUE]
    /\ UNCHANGED <<status, swept, dbVars, sess, alive, sent, faults, claims>>

(* heartbeat: another owner is found, or too many heartbeats failed. *)
LoseLease(h) ==
    /\ Up(h) /\ ~lost[h] /\ (owner # h \/ faults < MaxFaults)
    /\ faults' = IF owner = h THEN faults + 1 ELSE faults
    /\ GiveUp(h)
    /\ UNCHANGED <<hostVars, dbVars, sess, alive, sent, claims>>

(* sweep_sparing and clear_child_identity for the chat's run. *)
SweepChild(c) ==
    LET killed == IF c.run.child \in c.agents
                  THEN {[c EXCEPT !.agents = @ \ {c.run.child}]} \cup Faulty(c)
                  ELSE {c}
    IN IF c.run.child = NoHost \/ c.run.boot = c.host THEN {c}
       ELSE Then(killed, LAMBDA d :
               {IF e.ok THEN [e EXCEPT !.run.child = NoHost] ELSE e : e \in Write(d)})

(* recover_interrupted_prompts for the chat: a run of this boot is skipped. *)
RecoverInterrupted(c) ==
    LET ledger == RecoverAfterRestart(LedgerFromRows(c.rows))
    IN IF c.run.boot = c.host THEN {Accepted(c)}
       ELSE Then(Read(c), LAMBDA d :
               IF ledger = LedgerFromRows(d.rows) THEN {d}
               ELSE {IF e.ok THEN [e EXCEPT !.rows = PlanApply(@, ledger)] ELSE e : e \in Write(d)})

(* sweep_once: both parts run, and an incomplete sweep is tried again. *)
Sweep(h) ==
    /\ Up(h) /\ fenced[h] /\ swept[h] # "done"
    /\ \E c \in SweepChild(Load(h)) : \E d \in RecoverInterrupted(c) :
          /\ Apply(h, d)
          /\ swept' = [swept EXCEPT ![h] = IF c.ok /\ d.ok THEN "done" ELSE "retry"]
    /\ UNCHANGED fenced

(* The host dies.  Its agent may go on, or end with its pipes. *)
Crash(h) ==
    /\ Up(h)
    /\ Command(h, {Crashed(Load(h))})

-----------------------------------------------------------------------------
(* The directory and the actor of h.                                       *)

(* spawn_task_session: an unreadable ledger makes the actor refuse prompts. *)
SpawnActor(c) ==
    {[d EXCEPT !.s = [NoSession EXCEPT !.actor = TRUE, !.unusable = ~d.ok,
                          !.ledger = IF d.ok THEN LedgerFromRows(d.rows) ELSE <<>>]] :
        d \in Read(c)}

(* acquire_typed: ensure_owner, then the actor is asked for the slot.  It  *)
(* serves an attaching client, and the startup task that dispatches the    *)
(* prompts a previous boot left queued.                                    *)
Attach(h, other) ==
    /\ Up(h) /\ owner = h /\ fenced[h] /\ ~claimed[h] /\ swept[h] # "no"
    /\ sess[h].holders < MaxHolders
    /\ other => "reset" \in Commands /\ sess[h].slot # "absent"
    /\ LET c == [Load(h) EXCEPT !.lost = FALSE]
       IN Command(h, Anyway(IF sess[h].actor THEN {c} ELSE SpawnActor(c),
                            LAMBDA d : Acquire(d, other)))

(* release: the client detaches, the actor stays. *)
Detach(h) ==
    /\ "detach" \in Commands /\ Running(h) /\ sess[h].holders > 0
    /\ Command(h, {[Load(h) EXCEPT !.s.holders = @ - 1]})

(* A client sends a prompt, a new text for it, or its withdrawal. *)
Submit(h, p, text) ==
    /\ Running(h) /\ sess[h].holders > 0
    /\ text = NoText => "withdraw" \in Commands
    /\ Command(h, SubmitAfterRelease(Load(h), <<p, 0>>, text))

CancelTurn(h, keepQueue) ==
    /\ "cancel" \in Commands /\ Running(h) /\ sess[h].holders > 0
    /\ Command(h, Cancel(Load(h), keepQueue))

RestartAgent(h) ==
    /\ "restart" \in Commands /\ Running(h)
    /\ InFlight(Load(h)) # None => InFlight(Load(h)).id[2] < MaxRestarts
    /\ Command(h, Restart(Load(h)))

(* apply_config_option on a dead child respawns it. *)
ChangeConfig(h) ==
    /\ "config" \in Commands /\ Running(h) /\ sess[h].slot # "absent" /\ ~alive[h]
    /\ Command(h, Respawn(Load(h)))

ClearChat(h, takeHolder) ==
    /\ "reset" \in Commands /\ Running(h)
    /\ takeHolder => sess[h].holders < MaxHolders
    /\ Command(h, ClearContext(Load(h), takeHolder))

SwitchHarness(h) ==
    /\ "reset" \in Commands /\ Running(h)
    /\ Command(h, Switch(Load(h)))

(* reset_harness_context without an actor: discard_queued_prompts.  A host *)
(* that never claimed the lease has no fence on its writes.                *)
DiscardQueued(h) ==
    /\ "reset" \in Commands /\ Up(h) /\ ~sess[h].actor
    /\ LET c == Load(h)
           desired == RemoveQueued(LedgerFromRows(rows))
       IN \E d \in Read(c) : \E e \in IF PlanEmpty(rows, desired) \/ ~fenced[h]
                                      THEN {d} ELSE Write(d) :
             Apply(h, IF e.ok THEN [e EXCEPT !.rows = PlanApply(@, desired)] ELSE e)
    /\ UNCHANGED <<fenced, swept>>

Poll(h) == Running(h) /\ Command(h, Tick(Load(h)))

FlushActor(h) == Running(h) /\ sess[h].backlog /\ Command(h, Flush(Load(h)))

(* EvictionSnapshot and evict_idle_over_limit. *)
Evictable(s) == /\ s.holders = 0 /\ s.active = None /\ s.queue = <<>>
                /\ ~s.backlog /\ ~s.fault

Ended(S) == {[c EXCEPT !.s = NoSession] : c \in S}

Evict(h) == /\ "evict" \in Commands /\ Running(h) /\ Evictable(sess[h])
            /\ Command(h, Ended(Shutdown(Load(h), FALSE)))

(* drop_session *)
DropSession(h) == /\ "reset" \in Commands /\ Running(h)
                  /\ Command(h, Ended(Shutdown(Load(h), TRUE)))

-----------------------------------------------------------------------------
(* The agent process.                                                      *)

(* The agent finishes the turn, or answers it with an error. *)
ChildAnswers(h, a) ==
    /\ alive[h] /\ sess[h].active # None
    /\ sess[h].active.term = None /\ sess[h].chan = None
    /\ sess' = [sess EXCEPT ![h].chan = a]
    /\ UNCHANGED <<leaseVars, hostVars, dbVars, alive, sent, faults, claims>>

ChildExits(h) ==
    /\ alive[h]
    /\ alive' = [alive EXCEPT ![h] = FALSE]
    /\ UNCHANGED <<leaseVars, hostVars, dbVars, sess, sent, faults, claims>>

Next == \E h \in Hosts :
    \/ StartHost(h) \/ ClaimLease(h) \/ ConfirmLease(h) \/ LoseLease(h) \/ Sweep(h) \/ Crash(h)
    \/ \E other \in BOOLEAN : Attach(h, other)
    \/ Detach(h)
    \/ \E p \in Prompts, t \in Texts \cup {NoText} : Submit(h, p, t)
    \/ \E keepQueue \in BOOLEAN : CancelTurn(h, keepQueue)
    \/ RestartAgent(h) \/ ChangeConfig(h)
    \/ \E takeHolder \in BOOLEAN : ClearChat(h, takeHolder)
    \/ SwitchHarness(h) \/ DiscardQueued(h)
    \/ Poll(h) \/ FlushActor(h) \/ Evict(h) \/ DropSession(h)
    \/ \E a \in Answers : ChildAnswers(h, a)
    \/ ChildExits(h)

Spec == Init /\ [][Next]_vars

(* A poll in which the host does not die, no write fails and nobody takes  *)
(* the lease.  The actor's thread polls every 50 ms, the answer of the     *)
(* agent gets through the reader thread, and the retry of the backlog      *)
(* comes due.  Nothing is assumed of the agent, of clients or of hosts.    *)
SoundPoll(h) == Poll(h) /\ UNCHANGED <<status, faults, owner>>

Fairness == \A h \in Hosts :
    /\ WF_vars(SoundPoll(h))
    /\ WF_vars(SoundPoll(h) /\ sess[h].chan # None /\ sess'[h].chan = None)
    /\ WF_vars(SoundPoll(h) /\ sess[h].backlog /\ ~sess'[h].backlog)

FairSpec == Spec /\ Fairness

-----------------------------------------------------------------------------
(* Safety.                                                                 *)

(* The types of the variables; moreover an agent of a running host is held *)
(* in the actor's slot, so a client staged by a replacement that failed is *)
(* never left running (discard_staged_client, discard_unsaved_client).     *)
TypeOK ==
    /\ LeaseTypeOK
    /\ status \in [Hosts -> {"new", "up", "gone"}]
    /\ fenced \in [Hosts -> BOOLEAN]
    /\ swept \in [Hosts -> {"no", "retry", "done"}]
    /\ \A r \in Elems(rows) :
          r \in [id : Ids, st : States, text : Texts \cup {NoText},
                marked : BOOLEAN, open : BOOLEAN]
    /\ run \in [child : Hosts \cup {NoHost}, boot : Hosts \cup {NoHost}]
    /\ alive \in [Hosts -> BOOLEAN]
    /\ \A h \in Hosts :
          /\ sess[h].slot \in {"absent", "live", "exited"}
          /\ sess[h].holders \in 0..MaxHolders
          /\ sess[h].chan \in Answers \cup {None}
          /\ alive[h] /\ Up(h) => sess[h].slot \in {"live", "exited"}

(* No prompt reaches an agent twice, whatever crashes, takeovers, failed   *)
(* writes and client retries happen (recover_after_restart, submit_prompt). *)
SentAtMostOnce == \A i, j \in 1..Len(sent) : sent[i].id = sent[j].id => i = j

(* What an agent has received is durable as dispatched: its row exists and *)
(* is not Pending, so no restart can dispatch it (dispatch_queued_prompt   *)
(* and submit_prompt persist before begin_prompt).                         *)
SentIsDurable == \A q \in Elems(sent) : Has(rows, q.id) /\ Of(rows, q.id).st # "Pending"

(* At most one agent process runs for the chat over all hosts, although a  *)
(* crashed or displaced host leaves its agent behind                       *)
(* (reject_foreign_live_child, orphan_sweep).                              *)
OneAgent == \A g, h \in Hosts : alive[g] /\ alive[h] => g = h

(* h holds the lease and its actor has adopted the stored session. *)
Serving(h) == Running(h) /\ owner = h /\ sess[h].loaded

(* Between two commands the ledger in the actor's memory is the stored     *)
(* one: a failed commit changes neither, a successful one both             *)
(* (persist_ledger_update, commit_ledger_with_events, recover).            *)
LedgerIsStored == \A h \in Hosts :
    Serving(h) => sess[h].ledger = LedgerFromRows(rows)

(* The host queue of an actor that has an agent holds the stored queued    *)
(* prompts, in order and with their current text: an edit, withdrawal,     *)
(* cancel, crash or replacement never leaves the two apart                 *)
(* (update_queued_prompt, withdraw_queued_prompt, restore_queued_prompts). *)
QueueIsStored == \A h \in Hosts :
    Serving(h) /\ sess[h].slot # "absent" => sess[h].queue = QueueOf(LedgerFromRows(rows))

(* The stored Running row is exactly the prompt the actor is busy with: an *)
(* interruption or outcome that could not be saved keeps the actor busy,   *)
(* and no finished turn leaves a Running row behind                        *)
(* (reconcile_unexpected_child_exit, try_finalize_active_prompt).          *)
TurnIsDurable == \A h \in Hosts : Serving(h) =>
    {r.id : r \in {x \in Elems(rows) : x.st = "Running"}}
        = IF sess[h].active = None THEN {} ELSE {sess[h].active.id}

(* No step puts a prompt that has left the queue back into it, whichever   *)
(* host takes it (plan_commit on ledgers of recover_after_restart).        *)
NeverQueuedAgain ==
    [][\A r \in Elems(rows) :
          r.st # "Pending" /\ Has(rows', r.id) => Of(rows', r.id).st # "Pending"]_vars

(* A prompt that reaches an agent was queued until then or is new in this  *)
(* step, never withdrawn or finished before, and is sent with the text     *)
(* that is stored for it, not an older one (dispatch_queued_prompt).       *)
SentWasQueued ==
    [][\A i \in 1..Len(sent') : i > Len(sent) =>
          /\ Has(rows, sent'[i].id) => Of(rows, sent'[i].id).st = "Pending"
          /\ Has(rows', sent'[i].id) /\ Of(rows', sent'[i].id).text = sent'[i].text]_vars

(* Prompts reach the agents in the order in which they were stored         *)
(* (try_dispatch_next_if_idle, submit_prompt, restore_queued_prompts).     *)
InOrder == \A i, j \in 1..Len(sent) : \A k, l \in 1..Len(rows) :
    i < j /\ rows[k].id = sent[i].id /\ rows[l].id = sent[j].id => k <= l

(* The copy of a prompt that restart_child submits exists only when the    *)
(* original is durably interrupted: a turn that finished while the old     *)
(* agent was released is not done twice.                                   *)
RestartReplaces == \A r \in Elems(rows) :
    r.id[2] > 0 => LET of == <<r.id[1], r.id[2] - 1>>
                   IN Has(rows, of) /\ Of(rows, of).st = "Interrupted"

(* A host that knows it has lost the lease starts no agent                 *)
(* (acquire, respawn, reset_harness_context, clear_session_context).       *)
LostStartsNothing ==
    [][\A h \in Hosts : lost[h] /\ lost'[h] /\ ~alive[h] => ~alive'[h]]_vars

-----------------------------------------------------------------------------
(* Liveness.                                                               *)

InTurn(h, id) == Running(h) /\ sess[h].active # None /\ sess[h].active.id = id

(* A turn whose agent has answered or died comes to its end: the actor     *)
(* does not stay busy with it (pump, retry_pending_exit_interruption).     *)
TurnSettles == \A h \in Hosts, id \in Ids :
    (InTurn(h, id) /\ (sess[h].chan # None \/ ~alive[h])) ~> ~InTurn(h, id)

(* A queue behind a live agent moves: an idle actor of a host that has the *)
(* lease dispatches (the last step of pump, retry_unpersisted_backlog).    *)
QueueAdvances == \A h \in Hosts :
    (Running(h) /\ sess[h].queue # <<>>)
        ~> (\/ ~Running(h) \/ lost[h] \/ ~alive[h]
           \/ sess[h].queue = <<>> \/ sess[h].active # None)

(* A chat is never stuck: turns end and the queue moves (pump).            *)
ChatMoves == TurnSettles /\ QueueAdvances

(* What the actor holds in memory is what the database has: the ledger     *)
(* and the queue built from it, after every command and failed write.      *)
MemoryIsStored == LedgerIsStored /\ QueueIsStored
=============================================================================
