--------------------------- MODULE SessionActivity ---------------------------
(***************************************************************************)
(* What the task list says of a chat.  The actor of the chat derives an    *)
(* activity from every event it appends to the transcript and reports each *)
(* change to the registry; a report that fails is kept and tried again.    *)
(* Nobody else clears a running task: the actor settles it when it ends, a *)
(* new actor when it starts and a new host at startup.                     *)
(*                                                                         *)
(* Writes of the transcript and the ledger succeed here (TaskSession has   *)
(* their failures), a report goes straight to the registry or fails        *)
(* (WebState has the deferred ones), and no shim survives a host           *)
(* (SessionReplay has adoption).  One tool call is open at a time.         *)
(***************************************************************************)
EXTENDS Integers, Sequences, FiniteSets, TLC

CONSTANTS Streamed,          \* the kinds of events the agent may stream
          MaxBatch,          \* bound: events drained by one tick
          MaxReportFaults,   \* bound: failing reports
          MaxHostCrashes     \* bound: crashes of the host

ASSUME ActivityAssumption ==
    /\ {MaxBatch, MaxReportFaults, MaxHostCrashes} \subseteq Nat
    /\ Streamed \subseteq {"command", "tests", "toolDone", "approval", "input",
                           "approved", "answered", "running", "waiting",
                           "error", "message"}

VARIABLES chat,   \* the chat's actor, agent and prompts, and the host
          rep,    \* SessionActivityReporter and the pending report
          shown,  \* the activity the registry has for the task
          spent   \* failing reports and crashes so far

activityVars == <<chat, rep, shown, spent>>

None == "none"
RunningKinds == {"TurnStarted", "CommandRunning", "TestsRunning",
                 "BackgroundRunning"}
Kinds == RunningKinds \cup {"AwaitingOperator", "AwaitingInput", "TurnEnded",
                            "TurnFailed", "RateLimited"}

(* The default AcpExecutionState and reporter.  astray is a ghost: since   *)
(* the last event the chat is not what was reported, because it went back  *)
(* to the activity reported before the pending one, or because a restart   *)
(* reported on its own.                                                    *)
FreshTurn == [turn |-> "Idle", waiting |-> FALSE, tool |-> None, asks |-> {},
              held |-> FALSE]
FreshReporter == [exec |-> FreshTurn, last |-> None, pending |-> None,
                  astray |-> FALSE]
NoActor == [actor |-> FALSE, child |-> FALSE, head |-> None, queued |-> 0,
            used |-> FALSE]

-----------------------------------------------------------------------------
(* What an event is to the execution state: an error ends the turn it meets*)
(* and is nothing without one; a message changes nothing.                  *)
ExecutionEvent(e, inFlight) ==
    CASE e = "error" /\ inFlight -> "failed"
      [] e = "error" /\ ~inFlight -> "message"
      [] OTHER -> e

TurnFinished(x) == x.turn \in {"Settled", "Cancelled", "Failed", "Limited"}
Failure(x) == x.turn \in {"Failed", "Limited"}

Closed(x, to) == [FreshTurn EXCEPT !.turn = to, !.held = x.held]

(* AcpExecutionState::apply.                                               *)
Applied(x, e) ==
    CASE e = "accepted" -> Closed(x, "Running")
      [] e \in {"command", "tests"} -> [x EXCEPT !.tool = e]
      [] e = "toolDone" -> [x EXCEPT !.tool = None]
      [] e \in {"approval", "input"} -> [x EXCEPT !.asks = @ \cup {e}]
      [] e \in {"approved", "answered"} ->
            LET of == IF e = "approved" THEN "approval" ELSE "input"
            IN  IF of \notin x.asks THEN x
                ELSE [x EXCEPT !.asks = @ \ {of}, !.waiting = FALSE,
                               !.turn = IF @ = "Idle" THEN "Running" ELSE @]
      [] e = "running" -> [x EXCEPT !.waiting = FALSE,
                                    !.turn = IF @ = "Idle" THEN "Running"
                                             ELSE @]
      [] e = "waiting" -> [x EXCEPT !.waiting = TRUE]
      [] e = "limit" -> Closed(x, "Limited")
      [] e \in {"ended", "failed", "cancelled"} ->
            Closed(x, IF Failure(x) THEN x.turn
                      ELSE CASE e = "failed" -> "Failed"
                             [] e = "cancelled" -> "Cancelled"
                             [] e = "ended" -> "Settled")
      [] OTHER -> x

(* root_activity.                                                          *)
RootActivity(x) ==
    CASE Failure(x) -> "Failed"
      [] TurnFinished(x) /\ ~Failure(x) -> "Done"
      [] ~TurnFinished(x) /\ "input" \in x.asks -> "WaitingInput"
      [] ~TurnFinished(x) /\ x.asks = {"approval"} -> "WaitingApproval"
      [] x.asks = {} /\ (x.turn = "Idle" \/ (x.turn = "Running" /\ x.waiting))
            -> None
      [] OTHER -> CASE x.tool = "tests" -> "TestsRunning"
                    [] x.tool = "command" -> "CommandRunning"
                    [] OTHER -> "Working"

(* reduce_agent_status for the turn and the background work it holds: the  *)
(* work counts once the turn itself says nothing or is over.               *)
Delegated(kind, held) == held /\ kind \in {None, "Done", "Failed"}
LiveKind(kind, held) == IF Delegated(kind, held) THEN "WaitingInput" ELSE kind

(* reduce_activity.                                                        *)
Reduced(x) ==
    LET kind == RootActivity(x)
        live == LiveKind(kind, x.held)
    IN  CASE x.turn = "Limited" -> "RateLimited"
          [] /\ x.turn # "Limited" /\ TurnFinished(x)
             /\ Delegated(kind, x.held) -> "BackgroundRunning"
          [] OTHER -> CASE live = "Working" -> "TurnStarted"
                        [] live = "WaitingApproval" -> "AwaitingOperator"
                        [] live = "WaitingInput" -> "AwaitingInput"
                        [] live = "Done" -> "TurnEnded"
                        [] live = "Failed" -> "TurnFailed"
                        [] OTHER -> live

-----------------------------------------------------------------------------
(* Reports.  A step works on [rep, shown, faults]; ok says whether the     *)
(* registry takes the report.                                              *)

(* commit.                                                                 *)
Committed(r, a) ==
    LET reopened == [Applied(r.exec, "accepted") EXCEPT !.held = FALSE]
        x == IF a = "TurnStarted" /\ r.exec.turn # "Running" THEN reopened
             ELSE r.exec
    IN  [exec |-> x, last |-> a, pending |-> None,
         astray |-> r.astray]

(* Mutant: a report that failed counts as made.                            *)
ReportActivityBlindly(s, a, ok) ==
    [rep    |-> Committed(s.rep, a),
     shown  |-> IF ok THEN a ELSE s.shown,
     faults |-> IF ok THEN s.faults ELSE s.faults + 1]

(* EvidenceState::report.                                                  *)
ReportActivity(s, a, ok) ==
    IF ok THEN [rep |-> Committed(s.rep, a), shown |-> a, faults |-> s.faults]
    ELSE [s EXCEPT !.rep.pending = a, !.faults = @ + 1]

(* flush_pending_activity_report.                                          *)
FlushPending(s, ok) ==
    CASE s.rep.pending = None -> s
      [] s.rep.pending # None /\ ok ->
            [s EXCEPT !.rep = Committed(s.rep, s.rep.pending),
                      !.shown = s.rep.pending]
      [] OTHER -> [s EXCEPT !.faults = @ + 1]

(* The reporter answers nothing when the activity is the one reported last;*)
(* a pending report stays.                                                 *)
ReportChange(s, ok) ==
    LET now == Reduced(s.rep.exec)
    IN  CASE now = None -> s
          [] now = s.rep.last -> [s EXCEPT !.rep.astray = s.rep.pending # None]
          [] OTHER -> ReportActivity([s EXCEPT !.rep.astray = FALSE], now, ok)

(* activity_for_event_with_probe: the end of a turn looks for background   *)
(* work of the agent; read is what it finds.                               *)
Probed(before, e, x, read) ==
    IF x.turn = "Running" THEN [x EXCEPT !.held = FALSE]
    ELSE IF /\ \/ before.turn = "Running"
               \/ e \in {"ended", "failed", "cancelled"}
            /\ TurnFinished(x) /\ read # None
         THEN [x EXCEPT !.held = (read = "yes")]
    ELSE x

OnEvent(s, e, read, ok) ==
    LET x == Applied(s.rep.exec,
                     ExecutionEvent(e, s.rep.exec.turn = "Running"))
        y == IF e = "limit" THEN x ELSE Probed(s.rep.exec, e, x, read)
    IN  IF e = "flush" THEN FlushPending(s, ok)
        ELSE ReportChange([s EXCEPT !.rep.exec = y], ok)

Now == [rep |-> rep, shown |-> shown, faults |-> spent.faults]

(* What a sequence of events may come to, with the flush that goes before  *)
(* each batch, when any report may fail while faults are left.             *)
Played(s, events, read) ==
    LET after[i \in 0..Len(events)] ==
            IF i = 0 THEN {s}
            ELSE {t \in {OnEvent(u, events[i], read, ok) :
                             u \in after[i - 1], ok \in BOOLEAN} :
                     t.faults <= MaxReportFaults}
    IN  after[Len(events)]

Becomes(s) ==
    /\ s.faults <= MaxReportFaults
    /\ rep' = s.rep /\ shown' = s.shown
    /\ spent' = [spent EXCEPT !.faults = s.faults]

Reads == IF chat.child THEN {"yes", "no", None} ELSE {"no", None}

Outcomes(events) == UNION {Played(Now, events, read) : read \in Reads}

Play(events) == \E s \in Outcomes(events) : Becomes(s)

-----------------------------------------------------------------------------
(* Prompts and the agent's stream. *)

Serving == chat.actor /\ chat.child

(* submit_prompt without a turn in flight; the agent may refuse it.        *)
SubmitDirect ==
    /\ Serving /\ chat.head = None
    /\ \/ /\ Play(<<"flush", "message", "flush", "accepted">>)
          /\ chat' = [chat EXCEPT !.head = "direct", !.used = TRUE]
       \/ /\ Play(<<"flush", "message", "flush", "accepted", "error">>)
          /\ chat' = [chat EXCEPT !.used = TRUE]

(* submit_prompt behind a turn: accepted when it is queued.                *)
SubmitQueued ==
    /\ Serving /\ chat.head # None /\ chat.queued = 0
    /\ Play(<<"flush", "message", "accepted">>)
    /\ chat' = [chat EXCEPT !.queued = 1]

(* submit_prompt of a prompt the ledger has already settled or sent.       *)
SubmitAgain ==
    /\ Serving /\ chat.used
    /\ Play(<<"flush", "accepted">>)
    /\ UNCHANGED chat

(* dispatch_queued_prompt, which the transcript does not show unless the   *)
(* agent refuses it.                                                       *)
Dispatched(c) == [c EXCEPT !.head = "queued", !.queued = 0]
Refused(c) == [c EXCEPT !.head = None, !.queued = 0]

(* Whatever the agent streams; one tick drains a batch.                    *)
Stream ==
    /\ Serving
    /\ \E s \in UNION {UNION {Outcomes(<<"flush">> \o batch) :
                                  batch \in [1..n -> Streamed]} :
                          n \in 1..MaxBatch} : Becomes(s)
    /\ UNCHANGED chat

(* The end of the turn, or the limit the agent ran into, and the dispatch  *)
(* of the next prompt.                                                     *)
Terminals == {<<"flush", e>> : e \in {"ended", "failed", "cancelled", "error"}}
             \cup {<<"limit", "flush", "message", "flush">>}

EndTurn ==
    /\ Serving /\ chat.head # None
    /\ \E t \in Terminals :
          \/ /\ chat.queued = 0
             /\ Play(t) /\ chat' = [chat EXCEPT !.head = None]
          \/ /\ chat.queued = 1
             /\ Play(t) /\ chat' = Dispatched(chat)
          \/ /\ chat.queued = 1
             /\ Play(t \o <<"flush", "error">>) /\ chat' = Refused(chat)

(* The same without a prompt to end, when an earlier dispatch had to wait. *)
DispatchNext ==
    /\ Serving /\ chat.head = None /\ chat.queued = 1
    /\ \/ Play(<<>>) /\ chat' = Dispatched(chat)
       \/ Play(<<"flush", "error">>) /\ chat' = Refused(chat)

(* The agent's process exits; its prompt is interrupted.                   *)
ChildExits ==
    /\ Serving
    /\ Play(<<"flush", "error">> \o (IF chat.head = None THEN <<>>
                                     ELSE <<"flush", "error">>))
    /\ chat' = [chat EXCEPT !.child = FALSE, !.head = None]

(* retry_pending_activity_report, on a tick of its backoff.                *)
RetryReport ==
    /\ chat.actor /\ rep.pending # None
    /\ Play(<<"flush">>)
    /\ UNCHANGED chat

(* poll_background_jobs: the held level goes up when a shell is seen after *)
(* the turn, and down once none was seen for a while.                      *)
PollBackground ==
    /\ chat.actor
    /\ rep.exec.held \/ (chat.child /\ TurnFinished(rep.exec))
    /\ \E ok \in BOOLEAN :
          Becomes(ReportChange([Now EXCEPT !.rep.exec.held =
                                   ~@ /\ TurnFinished(rep.exec)], ok))
    /\ UNCHANGED chat

-----------------------------------------------------------------------------
(* Actors. *)

(* The actor starts: first_attach_activity.                                *)
StartActor ==
    /\ chat.up /\ chat.recover # "scan" /\ ~chat.actor
    /\ \E ok \in BOOLEAN :
          Becomes(IF shown \in RunningKinds
                  THEN ReportActivity(Now, "TurnFailed", ok) ELSE Now)
    /\ chat' = [chat EXCEPT !.actor = TRUE, !.refused = FALSE]

(* acquire starts an agent; recover_prompt_ledger interrupts the prompt an *)
(* earlier actor left in flight, and reports it as a turn that failed.     *)
Acquires ==
    /\ chat.actor /\ ~chat.child
    /\ IF chat.stale
       THEN LET begun == [Now EXCEPT !.rep = [Committed(rep, "TurnStarted")
                                                EXCEPT !.pending = rep.pending]]
            IN  \E read \in {"yes", "no", None} :
                \E s \in Played(begun, <<"flush", "accepted", "error">>, read) :
                    Becomes(s)
       ELSE Becomes(Now)
    /\ chat' = [chat EXCEPT !.child = TRUE, !.mine = TRUE, !.stale = FALSE]

(* What restart_child plays: its notes, the queued prompt if the agent     *)
(* refuses it, and the prompt that was in flight, sent once more: behind   *)
(* the queued one, or at once.                                             *)
RestartEvents(resent, behind, refused) ==
    <<"flush", "message">>
    \o (IF resent THEN <<"message">> ELSE <<>>)
    \o (IF refused THEN <<"flush", "error">> ELSE <<>>)
    \o (IF resent /\ behind THEN <<"flush", "message", "accepted">> ELSE <<>>)
    \o (IF resent /\ ~behind THEN <<"flush", "message", "flush", "accepted">>
        ELSE <<>>)

(* restart_child: a new agent in the place of the old one, the prompts and *)
(* the activity that comes of it.  Without a browser nothing is sent again.*)
(* (An agent that never started is acquired first: Acquires.)              *)
RestartChild ==
    /\ Serving
    /\ \E resent \in {FALSE, chat.head # None},
          refused \in {FALSE, chat.queued = 1} :
       LET behind == chat.queued = 1 /\ ~refused
           events == RestartEvents(resent, behind, refused)
       IN  /\ chat' = [chat EXCEPT
                          !.head = IF behind THEN "queued"
                                   ELSE IF resent THEN "direct" ELSE None,
                          !.queued = IF behind /\ resent THEN 1 ELSE 0]
           /\ \E s \in Outcomes(events), ok \in BOOLEAN :
              LET reset == [s EXCEPT !.rep.exec = FreshTurn]
              IN  Becomes(IF resent \/ behind
                          THEN ReportActivity([s EXCEPT !.rep.astray = TRUE],
                                      "TurnStarted", ok)
                          ELSE IF s.rep.last = "TurnFailed"
                          THEN ReportActivity(reset, "TurnEnded", ok) ELSE s)

(* settle_running_activity_on_end.                                         *)
SettleOnEnd(s, ok) ==
    IF s.rep.last \in RunningKinds
    THEN ReportActivity(s, "TurnFailed", ok) ELSE s

(* The actor ends, evicted or with the host's shutdown: what is pending is *)
(* tried once more, the agent is detached, the task is settled.            *)
EndActor ==
    /\ chat.actor
    /\ \E told \in {<<"flush">>, <<"flush", "flush", "error">>} :
       \E played \in Played(Now, told, "no"), ok \in BOOLEAN :
          LET s == SettleOnEnd(played, ok)
          IN  /\ Becomes([s EXCEPT !.rep = FreshReporter])
              /\ chat' = [NoActor @@ chat EXCEPT
                             !.stale = @ \/ chat.head # None,
                             !.queued = chat.queued, !.used = chat.used,
                             !.refused = s.rep.pending # None]

-----------------------------------------------------------------------------
(* The host. *)

CrashHost ==
    /\ chat.up /\ spent.crashes < MaxHostCrashes
    /\ spent' = [spent EXCEPT !.crashes = @ + 1]
    /\ chat' = [NoActor @@ chat EXCEPT
                   !.up = FALSE, !.recover = "scan", !.mine = FALSE,
                   !.stale = @ \/ chat.head # None, !.refused = FALSE,
                   !.queued = chat.queued, !.used = chat.used]
    /\ rep' = FreshReporter
    /\ UNCHANGED shown

(* recover_interrupted_prompts and settle_running_chats.                   *)
StartupScan ==
    /\ chat.recover = "scan"
    /\ chat' = [chat EXCEPT
                   !.up = TRUE, !.stale = FALSE,
                   !.recover = IF chat.stale \/ shown \in RunningKinds
                               THEN "report" ELSE "done"]
    /\ UNCHANGED <<rep, shown, spent>>

(* report_recovered_turns: unless an actor of this host has taken over; a  *)
(* report that fails is tried again.                                       *)
ReportRecovered ==
    /\ chat.recover = "report"
    /\ \/ /\ chat.actor \/ chat.mine
          /\ chat' = [chat EXCEPT !.recover = "done"]
          /\ UNCHANGED <<shown, spent>>
       \/ /\ ~chat.actor /\ ~chat.mine
          /\ chat' = [chat EXCEPT !.recover = "done"]
          /\ shown' = "TurnFailed"
          /\ UNCHANGED spent
       \/ /\ ~chat.actor /\ ~chat.mine
          /\ spent.faults < MaxReportFaults
          /\ spent' = [spent EXCEPT !.faults = @ + 1]
          /\ UNCHANGED <<chat, shown>>
    /\ UNCHANGED rep

ActivityInit ==
    /\ chat = NoActor @@ [up |-> FALSE, recover |-> "scan", mine |-> FALSE,
                          stale |-> FALSE, refused |-> FALSE]
    /\ rep = FreshReporter
    /\ shown = None
    /\ spent = [faults |-> 0, crashes |-> 0]

ActivityNext ==
    \/ SubmitDirect \/ SubmitQueued \/ SubmitAgain \/ Stream \/ EndTurn
    \/ DispatchNext \/ ChildExits \/ RetryReport \/ PollBackground
    \/ StartActor \/ Acquires \/ RestartChild \/ EndActor
    \/ CrashHost \/ StartupScan \/ ReportRecovered

ActivitySpec == ActivityInit /\ [][ActivityNext]_activityVars

-----------------------------------------------------------------------------
ActivityTypeOK ==
    /\ chat.head \in {None, "direct", "queued"} /\ chat.queued \in 0..1
    /\ chat.recover \in {"scan", "report", "done"}
    /\ {rep.last, rep.pending, shown} \subseteq Kinds \cup {None}
    /\ rep.exec.asks \subseteq {"approval", "input"}
    /\ rep.exec.held => TurnFinished(rep.exec)

(* The registry shows what the chat does: unless a report is pending, or   *)
(* the report was astray, it has the activity of the last event; and       *)
(* a prompt that was sent at once is not shown as answered before its turn *)
(* ends, over any sequence of prompts, tool calls, questions, limits,      *)
(* background work, failing reports and restarts.                          *)
ActivityFollows ==
    chat.actor /\ rep.pending = None /\ ~rep.astray =>
        /\ Reduced(rep.exec) \in {None, rep.last}
        /\ rep.last \in {None, shown}
        /\ chat.head = "direct" => shown # "TurnEnded"

(* A task without an actor is not shown as running, once the host has      *)
(* recovered: not after a crash in the middle of a turn, an eviction with  *)
(* background work, a report that was pending when its actor ended.  The   *)
(* one exception is an actor whose own last report failed.                 *)
NoGhostRunning ==
    chat.up /\ chat.recover = "done" /\ ~chat.actor /\ ~chat.refused
        => shown \notin RunningKinds

(* docs/architecture/web-session-behavior.md on the chat head: the task    *)
(* list stays aligned with the chat when the operator leaves mid-turn.     *)
HeadAgrees ==
    chat.actor /\ chat.head # None /\ rep.pending = None /\ ~rep.astray
        => shown # "TurnEnded"

(* What the task list says of a chat follows the chat, also when the chat  *)
(* has ended (SessionEvidence::report, settle_running_activity_on_end).    *)
ActivityIsTrue == ActivityFollows /\ NoGhostRunning
=============================================================================
