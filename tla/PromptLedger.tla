---------------------------- MODULE PromptLedger ----------------------------
(***************************************************************************)
(* The durable prompt ledger of one chat: the execution states of a prompt *)
(* (execution.rs), the in-memory PromptLedger (prompt_ledger.rs), and the  *)
(* plan that turns a desired ledger into one commit_execution transaction  *)
(* (prompt_ledger/kernel.rs over execution_store.rs).                      *)
(*                                                                         *)
(* A ledger is a sequence of entries [id, phase, text, marked]; the table  *)
(* prompt_submissions joined with execution_tasks is a sequence of rows    *)
(* [id, st, text, marked, open] in insertion order.  `text` stands for the *)
(* transcript text, prompt text and content blocks; `marked` says that     *)
(* the dispatch marks (shim offset, transcript cursor) are part of the     *)
(* content; `open` that the latest checkpoint of the task has no result.   *)
(***************************************************************************)
EXTENDS Filter

CONSTANTS NoText        \* the cleared content "{}"

States == {"Pending", "Running", "Waiting", "Completing",
           "Completed", "Failed", "Cancelled", "Interrupted"}

Terminal == {"Completed", "Failed", "Cancelled"}

Phases == {"Queued", "Dispatching", "Interrupted", "Completed"}

(* transition: the allowed single steps of an execution task. *)
Allowed ==
    ({"Pending"} \X {"Running", "Cancelled"})
    \cup ({"Running"} \X {"Waiting", "Completing", "Failed", "Cancelled",
                          "Interrupted"})
    \cup ({"Waiting"} \X {"Running", "Failed", "Cancelled", "Interrupted"})
    \cup ({"Completing"} \X {"Completed", "Failed", "Interrupted"})
    \cup ({"Interrupted"} \X {"Pending", "Cancelled", "Failed"})

(* transition_path: the steps a commit takes from a row's state to the     *)
(* state of the desired phase; a pair outside the domain is refused.       *)
Routes == {<<"Pending", "Running">>, <<"Pending", "Interrupted">>,
           <<"Pending", "Completed">>, <<"Running", "Pending">>,
           <<"Running", "Interrupted">>, <<"Running", "Completed">>,
           <<"Interrupted", "Pending">>, <<"Interrupted", "Running">>,
           <<"Interrupted", "Completed">>}

TransitionPath(from, to) ==
    CASE to = "Running"     -> IF from = "Pending" THEN <<"Running">>
                               ELSE <<"Pending", "Running">>
      [] to = "Interrupted" -> IF from = "Running" THEN <<"Interrupted">>
                               ELSE <<"Running", "Interrupted">>
      [] to = "Pending"     -> IF from = "Running" THEN <<"Interrupted", "Pending">>
                               ELSE <<"Pending">>
      [] to = "Completed"   -> IF from = "Running" THEN <<"Completing", "Completed">>
                               ELSE IF from = "Pending"
                               THEN <<"Running", "Completing", "Completed">>
                               ELSE <<"Pending", "Running", "Completing", "Completed">>

Reachable(from, to) == from = to \/ <<from, to>> \in Routes

-----------------------------------------------------------------------------
(* The in-memory ledger.                                                   *)

Elems(s) == {s[i] : i \in 1..Len(s)}

Has(s, id) == \E e \in Elems(s) : e.id = id

Of(s, id) == CHOOSE e \in Elems(s) : e.id = id

(* The phase of an entry, "None" when the ledger does not have it. *)
PhaseOf(ledger, id) == IF Has(ledger, id) THEN Of(ledger, id).phase ELSE "None"

InPhase(ledger, phase) == Keeping(ledger, {e \in Elems(ledger) : e.phase = phase})

(* upsert_queued: the dispatch marks of an earlier attempt are dropped. *)
UpsertQueued(ledger, id, text) ==
    LET new == [id |-> id, phase |-> "Queued", text |-> text, marked |-> FALSE]
    IN IF Has(ledger, id)
       THEN [i \in DOMAIN ledger |-> IF ledger[i].id = id THEN new ELSE ledger[i]]
       ELSE Append(ledger, new)

Rewrite(ledger, id, new(_)) ==
    [i \in DOMAIN ledger |-> IF ledger[i].id = id THEN new(ledger[i]) ELSE ledger[i]]

(* mark_dispatching with record_dispatch_marks. *)
MarkDispatching(ledger, id) ==
    Rewrite(ledger, id, LAMBDA e : [e EXCEPT !.phase = "Dispatching", !.marked = TRUE])

MarkInterrupted(ledger, id) ==
    Rewrite(ledger, id, LAMBDA e : [e EXCEPT !.phase = "Interrupted"])

MarkCompleted(ledger, id) ==
    Rewrite(ledger, id, LAMBDA e : [e EXCEPT !.phase = "Completed",
                                             !.text = NoText, !.marked = FALSE])

RemoveQueued(ledger) == Keeping(ledger, {e \in Elems(ledger) : e.phase # "Queued"})

RemoveEntry(ledger, id) == Keeping(ledger, {e \in Elems(ledger) : e.id # id})

(* Mutant: a restart puts the prompt that was being dispatched back. *)
RequeueAfterRestart(ledger) ==
    [i \in DOMAIN ledger |->
        IF ledger[i].phase = "Dispatching"
        THEN [ledger[i] EXCEPT !.phase = "Queued"] ELSE ledger[i]]

(* recover_after_restart: what was being dispatched is interrupted. *)
RecoverAfterRestart(ledger) ==
    [i \in DOMAIN ledger |->
        IF ledger[i].phase = "Dispatching"
        THEN [ledger[i] EXCEPT !.phase = "Interrupted"] ELSE ledger[i]]

-----------------------------------------------------------------------------
(* The commit.                                                             *)

(* target_state *)
Target(phase) == CASE phase = "Queued"      -> "Pending"
                   [] phase = "Dispatching" -> "Running"
                   [] phase = "Interrupted" -> "Interrupted"
                   [] phase = "Completed"   -> "Completed"

(* ledger_from_prompts *)
LedgerFromRows(rows) ==
    LET kept == Keeping(rows, {r \in Elems(rows) : r.st \notin {"Failed", "Cancelled"}})
        phase(st) == CASE st = "Pending"                            -> "Queued"
                       [] st \in {"Running", "Waiting", "Completing"} -> "Dispatching"
                       [] OTHER                                     -> st
    IN [i \in DOMAIN kept |->
           [id     |-> kept[i].id,
            phase  |-> phase(kept[i].st),
            text   |-> IF kept[i].st = "Completed" THEN NoText ELSE kept[i].text,
            marked |-> kept[i].st # "Completed" /\ kept[i].marked]]

(* The state a new prompt's task is created in. *)
Fresh(e) == [id |-> e.id, st |-> "Pending",
             text |-> e.text, marked |-> e.marked, open |-> FALSE]

(* plan_commit emits a content update for the existing row r. *)
ContentUpdate(r, e) ==
    /\ \/ Target(e.phase) = "Pending"
       \/ r.st = "Pending" /\ Target(e.phase) = "Running"
    /\ <<r.text, r.marked>> # <<e.text, e.marked>>

(* The part of the plan for an existing row is accepted: not withdrawn     *)
(* before, a supported state change, content rewritten only while queued,  *)
(* and a completion answers an open checkpoint.                            *)
EntryOK(r, e) ==
    /\ r.st \notin {"Failed", "Cancelled"}
    /\ Reachable(r.st, Target(e.phase))
    /\ ContentUpdate(r, e) => r.st = "Pending"
    /\ r.st = "Running" /\ Target(e.phase) = "Completed" => r.open

(* plan_commit and commit_execution accept the desired ledger. *)
PlanOK(rows, ledger) ==
    /\ \A e \in Elems(ledger) :
          IF Has(rows, e.id) THEN EntryOK(Of(rows, e.id), e)
          ELSE Reachable("Pending", Target(e.phase))
    /\ \A r \in Elems(rows) :
          ~Has(ledger, r.id) /\ r.st \notin Terminal => r.st # "Completing"

(* The plan changes nothing: plan_commit returns None. *)
PlanEmpty(rows, ledger) ==
    /\ \A e \in Elems(ledger) :
          Has(rows, e.id) /\ Of(rows, e.id).st = Target(e.phase)
                          /\ ~ContentUpdate(Of(rows, e.id), e)
    /\ \A r \in Elems(rows) : Has(ledger, r.id) \/ r.st \in Terminal

(* A row after the commit brings it to the desired entry. *)
RowApply(r, e) ==
    LET to == Target(e.phase)
        content == IF to = "Completed" THEN <<NoText, FALSE>>
                   ELSE IF ContentUpdate(r, e) THEN <<e.text, e.marked>>
                   ELSE <<r.text, r.marked>>
    IN [id |-> r.id, st |-> to, text |-> content[1], marked |-> content[2],
        open |-> \/ to = "Running" /\ r.st # "Running"
                 \/ r.open /\ ~(r.st = "Running" /\ to = "Completed")]

(* The rows after the commit: new prompts are inserted in ledger order,    *)
(* existing ones follow their entry, and a prompt the ledger no longer has *)
(* is cancelled and its content cleared.                                   *)
PlanApply(rows, ledger) ==
    LET new == Keeping(ledger, {e \in Elems(ledger) : ~Has(rows, e.id)})
    IN [i \in DOMAIN rows |->
           IF Has(ledger, rows[i].id)
           THEN RowApply(rows[i], Of(ledger, rows[i].id))
           ELSE IF rows[i].st \in Terminal THEN rows[i]
           ELSE [rows[i] EXCEPT !.st = "Cancelled", !.text = NoText, !.marked = FALSE]]
       \o [i \in DOMAIN new |-> RowApply(Fresh(new[i]), new[i])]
=============================================================================
