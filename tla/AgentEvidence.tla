---------------------------- MODULE AgentEvidence ----------------------------
(***************************************************************************)
(* What a task says of the agent in its terminal.  A wrapper starts the    *)
(* agent and keeps a snapshot of its process; the agent runs a hook at     *)
(* each step of a turn, a process of its own that checks the snapshot and  *)
(* appends an event to the task's file; a refresh folds the events,        *)
(* weighs them against the snapshot and writes the task's live status.     *)
(*                                                                         *)
(* The events file is kept as the fold of its lines: fold_envelopes is a   *)
(* left fold, so the next line is all it takes to go on.  Every run of the *)
(* wrapper calls itself "primary", so there are no child runs here.  The   *)
(* hooks of a turn run one after the other; the agent may die under one.   *)
(***************************************************************************)
EXTENDS Integers, FiniteSets

CONSTANTS Tool,          \* ids of tool calls
          SettleGrace,   \* RUNTIME_HOOK_SETTLE_GRACE_MS
          ExitFor,       \* WRAPPER_TERMINAL_FRESH_FOR
          FreshFor,      \* LIFECYCLE_FRESH_FOR
          MaxClock,      \* bound: the clock
          MaxAgentSteps  \* bound: launches of the wrapper and hooks the
                         \* agent runs, together

ASSUME EvidenceAssumption ==
    /\ {SettleGrace, ExitFor, FreshFor, MaxClock, MaxAgentSteps} \subseteq Nat
    /\ SettleGrace <= ExitFor /\ ExitFor < FreshFor

VARIABLES clock,   \* the time; a tick is longer than the heartbeat interval
          term,    \* external: the agent in the terminal
          wrap,    \* the wrapper and its snapshot file
          hook,    \* the hook process under way
          evf,     \* the events file: the fold of its lines, and its last time
          tv       \* the task in the registry: its agent status and flags
                   \* follow live; acked: no event is newer than the
                   \* acknowledgement

evidenceVars == <<clock, term, wrap, hook, evf, tv>>

Nil == "nil"
Never == 0 - 1
EventKind == {"TurnStarted", "ActivityStarted", "ActivityFinished",
              "Permission", "Question", "AttentionCleared", "Completed",
              "Interrupted", "Failed", "SessionOpened", "SessionClosed",
              "ChildStarted", "ChildSettled"}
Settles == {"Completed", "Interrupted", "Failed"}
NoHookRun == [stage |-> Nil, kind |-> Nil, id |-> Nil, at |-> Never,
              stale |-> FALSE]

(* FoldState::new.                                                         *)
FoldNew == [phase |-> "Unknown", tools |-> {}, attention |-> Nil,
            started |-> FALSE, settled |-> FALSE]

EvidenceInit ==
    /\ clock = 0
    /\ term = [up |-> FALSE, busy |-> FALSE, tools |-> {}, asks |-> Nil,
               turns |-> 0, hooks |-> 0, dropped |-> FALSE]
    /\ wrap = [at |-> "off", runs |-> 0, state |-> Nil, seen |-> Never]
    /\ hook = NoHookRun
    /\ evf = [fold |-> FoldNew, last |-> Never]
    /\ tv = [live |-> Nil, life |-> "Active", acked |-> FALSE]

-----------------------------------------------------------------------------
(* fold_envelopes, one event.                                              *)
ClearAttention(s) ==
    [s EXCEPT !.attention = Nil,
              !.phase = IF @ = "Blocked" /\ ~s.settled THEN "Active" ELSE @]

(* The end of a tool call.  After the turn's end the last one settles the  *)
(* run; before it the run goes on, unless the agent asks something.        *)
ToolFinished(s, id) ==
    LET left == s.tools \ {id}
        asks == s.attention # Nil
    IN  [s EXCEPT !.tools = left,
                  !.phase =
                    CASE left # {} -> @
                      [] left = {} /\ s.settled /\ @ # "Failed" ->
                            IF asks THEN "Blocked" ELSE "Settled"
                      [] left = {} /\ ~(s.settled /\ @ # "Failed")
                         /\ ~asks /\ s.started -> "Active"
                      [] OTHER -> @]

FoldNext(s, e, id) ==
    CASE e = "TurnStarted" ->
            [ClearAttention(s) EXCEPT !.started = TRUE, !.phase = "Active"]
      [] e = "ActivityStarted" ->
            [s EXCEPT !.tools = @ \cup {id}, !.phase = "Active"]
      [] e = "ActivityFinished" -> ToolFinished(s, id)
      [] e \in {"Permission", "Question"} ->
            [s EXCEPT !.attention = e, !.phase = "Blocked"]
      [] e = "AttentionCleared" -> ClearAttention(s)
      [] e \in Settles ->
            [s EXCEPT !.settled = TRUE,
                      !.phase = CASE e = "Failed" -> "Failed"
                                  [] e # "Failed" /\ s.tools # {} -> "Active"
                                  [] OTHER -> "Settled"]
      [] e \in {"SessionOpened", "ChildStarted"} ->
            [s EXCEPT !.phase = "Active"]
      [] e = "SessionClosed" ->
            [s EXCEPT !.tools = {},
                      !.phase = IF @ = "Failed" THEN @ ELSE "Settled"]
      [] OTHER -> s

-----------------------------------------------------------------------------
(* The wrapper: run_agent_runtime_sandboxed.                               *)
WrapperStarts ==
    /\ wrap.at = "off" /\ wrap.runs + term.hooks < MaxAgentSteps
    /\ wrap' = [at |-> "starting", runs |-> wrap.runs + 1,
                state |-> "Starting", seen |-> clock]
    /\ UNCHANGED <<clock, term, hook, evf, tv>>

(* The agent starts, with its sandbox; a first snapshot says it runs.      *)
AgentLaunched ==
    /\ wrap.at = "starting"
    /\ wrap' = [wrap EXCEPT !.at = "waits", !.state = "Running",
                            !.seen = clock]
    /\ term' = [term EXCEPT !.up = TRUE, !.busy = FALSE, !.tools = {},
                            !.asks = Nil]
    /\ UNCHANGED <<clock, hook, evf, tv>>

(* fail_launch.                                                            *)
LaunchFails ==
    /\ wrap.at = "starting"
    /\ wrap' = [wrap EXCEPT !.at = "off", !.state = "ExitedFailure",
                            !.seen = clock]
    /\ UNCHANGED <<clock, term, hook, evf, tv>>

(* The agent ends; the wrapper notices at its next look and records how.   *)
TermExits ==
    /\ term.up
    /\ term' = [term EXCEPT !.up = FALSE, !.busy = FALSE, !.tools = {}]
    /\ UNCHANGED <<clock, wrap, hook, evf, tv>>

ExitRecorded ==
    /\ wrap.at = "waits" /\ ~term.up
    /\ \E ok \in BOOLEAN :
        wrap' = [wrap EXCEPT !.at = "off", !.seen = clock,
                             !.state = IF ok THEN "ExitedSuccess"
                                       ELSE "ExitedFailure"]
    /\ UNCHANGED <<clock, term, hook, evf, tv>>

(* The terminal goes and takes the wrapper with it: its snapshot stays.    *)
WrapperKilled ==
    /\ wrap.at = "waits" /\ ~term.up
    /\ wrap' = [wrap EXCEPT !.at = "off"]
    /\ UNCHANGED <<clock, term, hook, evf, tv>>

-----------------------------------------------------------------------------
(* External: the agent takes a step and runs its hook.  A Stop with tasks  *)
(* in the background is TurnStarted to translate_native_event; answering a *)
(* permission has no event.  An agent that asks only ends the tool calls   *)
(* it has begun.                                                           *)
Fires(kind, id) ==
    hook' = [NoHookRun EXCEPT !.stage = "fired", !.kind = kind, !.id = id]

Hooked(t) == [t EXCEPT !.hooks = @ + 1]

TermSteps ==
    /\ term.up /\ hook = NoHookRun /\ wrap.runs + term.hooks < MaxAgentSteps
    /\ \/ /\ ~term.busy /\ Fires("TurnStarted", Nil)
          /\ term' = [Hooked(term) EXCEPT !.busy = TRUE, !.turns = @ + 1]
       \/ /\ term.busy /\ term.asks = Nil
          /\ \E t \in Tool \ term.tools :
                /\ Fires("ActivityStarted", t)
                /\ term' = [Hooked(term) EXCEPT !.tools = @ \cup {t}]
       \/ /\ term.busy
          /\ \E t \in term.tools :
                /\ Fires("ActivityFinished", t)
                /\ term' = [Hooked(term) EXCEPT !.tools = @ \ {t}]
       \/ /\ term.busy /\ term.asks = Nil
          /\ \E q \in {"Permission", "Question"} :
                Fires(q, Nil) /\ term' = [Hooked(term) EXCEPT !.asks = q]
       \/ /\ term.asks = "Question" /\ Fires("AttentionCleared", Nil)
          /\ term' = [Hooked(term) EXCEPT !.asks = Nil]
       \/ /\ term.busy /\ term.asks = Nil /\ term.tools = {}
          /\ \E o \in Settles : Fires(o, Nil)
          /\ term' = [Hooked(term) EXCEPT !.busy = FALSE]
       \/ /\ term.busy /\ term.asks = Nil /\ Fires("TurnStarted", Nil)
          /\ term' = Hooked(term)
       \/ /\ ~term.busy
          /\ \E s \in {"SessionOpened", "SessionClosed"} : Fires(s, Nil)
          /\ term' = Hooked(term)
       \/ /\ term.busy /\ term.asks = Nil
          /\ \E s \in {"ChildStarted", "ChildSettled"} : Fires(s, Nil)
          /\ term' = Hooked(term)
    /\ UNCHANGED <<clock, wrap, evf, tv>>

PermissionAnswered ==
    /\ term.up /\ term.asks = "Permission" /\ hook = NoHookRun
    /\ term' = [term EXCEPT !.asks = Nil]
    /\ UNCHANGED <<clock, wrap, hook, evf, tv>>

(* runtime_hooks_accepted: the wrapper lives, or it ended just now and the *)
(* event ends the turn or the session.                                     *)
HooksAccepted(kind) ==
    \/ wrap.state \in {"Starting", "Running"}
    \/ /\ wrap.state \in {"ExitedSuccess", "ExitedFailure"}
       /\ kind \in Settles \cup {"SessionClosed"}
       /\ clock - wrap.seen <= SettleGrace

(* run_agent_event: whether the hook counts.                               *)
HookChecks ==
    /\ hook.stage = "fired"
    /\ IF HooksAccepted(hook.kind)
       THEN /\ hook' = [hook EXCEPT !.stage = "accepted", !.at = clock]
            /\ UNCHANGED term
       ELSE /\ hook' = NoHookRun
            /\ term' = [term EXCEPT !.dropped = TRUE]
    /\ UNCHANGED <<clock, wrap, evf, tv>>

HookAppends ==
    /\ hook.stage = "accepted"
    /\ evf' = [fold |-> FoldNext(evf.fold, hook.kind, hook.id),
               last |-> IF hook.at > evf.last THEN hook.at ELSE evf.last]
    /\ hook' = NoHookRun
    /\ tv' = [tv EXCEPT !.acked = @ /\ hook.stale]
    /\ UNCHANGED <<clock, term, wrap>>

HookFails ==
    /\ hook.stage = "accepted"
    /\ hook' = NoHookRun
    /\ term' = [term EXCEPT !.dropped = TRUE]
    /\ UNCHANGED <<clock, wrap, evf, tv>>

-----------------------------------------------------------------------------
(* observations_from_run_snapshot and wrapper_exit_observation: what each  *)
(* file says, if it is fresh.                                              *)
PhaseSays ==
    CASE evf.fold.phase = "Active" -> "AgentRunning"
      [] evf.fold.phase = "Blocked" ->
            IF evf.fold.attention = "Permission" THEN "WaitingForApproval"
            ELSE "WaitingForInput"
      [] evf.fold.phase = "Settled" -> "Done"
      [] evf.fold.phase = "Failed" -> "CommandFailed"
      [] OTHER -> Nil

LifecycleSays ==
    IF PhaseSays \in {"Done", "CommandFailed"}
       \/ evf.last + FreshFor >= clock THEN PhaseSays ELSE Nil

ExitSays ==
    IF wrap.seen + ExitFor < clock THEN Nil
    ELSE CASE wrap.state = "ExitedSuccess" -> "Done"
           [] wrap.state = "ExitedFailure" -> "CommandFailed"
           [] OTHER -> Nil

(* Mutant: the events outrank the end of the process.                      *)
SelectLifecycle ==
    IF LifecycleSays # Nil THEN [live |-> LifecycleSays, from |-> "lifecycle"]
    ELSE [live |-> ExitSays, from |-> "exit"]

(* reduce_agent_status: the end of the process outranks the events.        *)
SelectActivity ==
    IF ExitSays # Nil THEN [live |-> ExitSays, from |-> "exit"]
    ELSE [live |-> LifecycleSays, from |-> "lifecycle"]

(* apply_reduced_observation, and the lifecycle its source may move.       *)
ApplyLive(t, live, from) ==
    [t EXCEPT !.live = live,
              !.life = CASE live = "AgentRunning" /\ from # "pane" -> "Active"
                         [] live = "Done" /\ from = "exit" -> "Reviewable"
                         [] OTHER -> @]

Waits(kind) == kind \in {"WaitingForApproval", "WaitingForInput"}

(* What the visible pane says: the agent's question, if it is recognised.  *)
PaneSays ==
    {Nil} \cup CASE term.asks = "Permission" -> {"WaitingForApproval"}
                 [] term.asks = "Question" -> {"WaitingForInput"}
                 [] OTHER -> {}

(* When the pane is looked at: to correct a running agent, or a settled    *)
(* one that ran or waited before, or when nothing else is known.           *)
PaneMatters(live) ==
    \/ live \in {"AgentRunning", Nil}
    \/ /\ live \in {"Done", "CommandFailed"}
       /\ tv.live \in {"AgentRunning", "WaitingForApproval",
                       "WaitingForInput"}

(* What a refresh makes of the task, for what it reads in the pane.  What  *)
(* the pane shows is newer than any acknowledgement; nothing known leaves  *)
(* the task as it is.                                                      *)
RefreshedBy(pane) ==
    LET sel == SelectActivity
    IN  IF PaneMatters(sel.live) /\ pane # Nil
        THEN ApplyLive(tv, pane, "pane")
        ELSE IF sel.live = Nil \/ (Waits(sel.live) /\ tv.acked) THEN tv
        ELSE ApplyLive(tv, sel.live, sel.from)

RefreshAgent ==
    /\ \E pane \in PaneSays : tv' = RefreshedBy(pane)
    /\ UNCHANGED <<clock, term, wrap, hook, evf>>

(* acknowledge_attention.                                                  *)
TaskOpened ==
    /\ Waits(tv.live)
    /\ tv' = [tv EXCEPT !.acked = TRUE]
    /\ hook' = [hook EXCEPT !.stale = hook.stage = "accepted"]
    /\ UNCHANGED <<clock, term, wrap, evf>>

ClockTicks ==
    /\ clock < MaxClock /\ clock' = clock + 1
    /\ wrap' = IF wrap.at = "waits" /\ term.up
               THEN [wrap EXCEPT !.seen = clock'] ELSE wrap
    /\ UNCHANGED <<term, hook, evf, tv>>

EvidenceNext ==
    \/ WrapperStarts \/ AgentLaunched \/ LaunchFails
    \/ TermExits \/ ExitRecorded \/ WrapperKilled
    \/ TermSteps \/ PermissionAnswered
    \/ HookChecks \/ HookAppends \/ HookFails
    \/ RefreshAgent \/ TaskOpened \/ ClockTicks

EvidenceSpec == EvidenceInit /\ [][EvidenceNext]_evidenceVars

EvidenceTypeOK ==
    /\ clock \in 0..MaxClock
    /\ term \in [up : BOOLEAN, busy : BOOLEAN, tools : SUBSET Tool,
                 asks : {Nil, "Permission", "Question"}, turns : 0..MaxAgentSteps,
                 hooks : 0..MaxAgentSteps, dropped : BOOLEAN]
    /\ wrap \in [at : {"off", "starting", "waits"}, runs : 0..MaxAgentSteps,
                 state : {Nil, "Starting", "Running", "ExitedSuccess",
                          "ExitedFailure"},
                 seen : Never..MaxClock]
    /\ hook.stage \in {Nil, "fired", "accepted"}
    /\ hook.kind \in EventKind \cup {Nil} /\ hook.id \in Tool \cup {Nil}
    /\ evf.fold \in [phase : {"Unknown", "Active", "Blocked", "Settled",
                              "Failed"},
                     tools : SUBSET Tool,
                     attention : {Nil, "Permission", "Question"},
                     started : BOOLEAN, settled : BOOLEAN]
    /\ evf.last \in Never..MaxClock
    /\ tv \in [live : {Nil, "AgentRunning", "WaitingForApproval",
                       "WaitingForInput", "Done", "CommandFailed"},
               life : {"Active", "Reviewable"}, acked : BOOLEAN]

-----------------------------------------------------------------------------
(* The agent lives and its events are all there: no hook is under way,     *)
(* none was lost, the last event is fresh, and so is no exit of an earlier *)
(* run.                                                                    *)
AllTold ==
    /\ term.up /\ hook = NoHookRun /\ ~term.dropped
    /\ clock <= evf.last + FreshFor /\ ExitSays = Nil

(* What a refresh makes of the task at any moment: a question of the agent *)
(* that was not looked at is what the task says, however the other tool    *)
(* calls end; a process that has just ended is not shown as an agent at    *)
(* work, whatever its hooks say; and no task reads done in its agent's     *)
(* first turn.                                                             *)
EvidenceIsRead ==
    \A pane \in PaneSays : LET after == RefreshedBy(pane) IN
        /\ AllTold /\ term.asks # Nil /\ ~tv.acked => Waits(after.live)
        /\ ExitSays # Nil => after.live # "AgentRunning"
        /\ AllTold /\ term.busy /\ term.turns = 1 => after.live # "Done"

(* Until the agent ends its turn the task does not read done: "prefer keep *)
(* Active/working until TurnSettled (matches agent still in turn)".  It    *)
(* does: fold_envelopes keeps turn_settled from the turn before.           *)
WorkingUntilSettled ==
    \A pane \in PaneSays :
        AllTold /\ term.busy => RefreshedBy(pane).live # "Done"
=============================================================================
