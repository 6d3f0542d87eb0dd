--------------------------- MODULE AgentSupervisor ---------------------------
(***************************************************************************)
(* "ajax supervise": an agent runs as a child without a terminal and what  *)
(* it does becomes a stream of events.  A task of its own reads each of    *)
(* the child's two pipes, one watches for silence, one watches the         *)
(* worktree; all of them send into a bounded channel, from which a         *)
(* forwarder fills a second one, for the command.  The supervising task    *)
(* waits for the child or for a cancellation.                              *)
(*                                                                         *)
(* A line of output is its number on its pipe.  Which agent event a line   *)
(* is parsed to is left out, except that a line the agent's protocol knows *)
(* breaks the silence: whether it does is left open.                       *)
(***************************************************************************)
EXTENDS Integers, Sequences, FiniteSets, SequencesExt

CONSTANTS Capacity,     \* channel_capacity, of both channels
          HangAfter,    \* hang_after, in ticks of silence
          MaxOutput,    \* bound: lines of output
          MaxTroubles   \* bound: failures, cancels, changed files

ASSUME SupervisorAssumption ==
    /\ {Capacity, HangAfter} \subseteq Nat \ {0}
    /\ {MaxOutput, MaxTroubles} \subseteq Nat

VARIABLES kid,       \* external: the child, its pipes and the worktree
          lead,      \* the supervising task
          aide,      \* the tasks that read, watch the time and the worktree
          relay,     \* the two channels and the forwarder between them
          operator,  \* the command: its handle and what it has been told
          troubles   \* what went wrong or changed, for the bound

supervisorVars == <<kid, lead, aide, relay, operator, troubles>>

Stream == {"stdout", "stderr"}
Event(kind, n) == [kind |-> kind, n |-> n]

Trouble == troubles < MaxTroubles /\ troubles' = troubles + 1
NoTrouble == UNCHANGED troubles

(* spawn_monitor: with git snapshots at both ends, or without.             *)
SupervisorInit ==
    /\ kid = [up |-> FALSE, pipe |-> [s \in Stream |-> <<>>],
              wrote |-> [s \in Stream |-> 0], held |-> FALSE, ok |-> FALSE,
              changed |-> FALSE, quiet |-> 0]
    /\ \E snaps \in BOOLEAN :
          lead = [at |-> IF snaps THEN "snapshot" ELSE "spawn",
                  then |-> "spawn", snaps |-> snaps, good |-> TRUE]
    /\ aide = [read |-> [s \in Stream |-> "off"], hang |-> "off",
               watch |-> "on", reported |-> FALSE]
    /\ relay = [raw |-> <<>>, at |-> "recv", holds |-> Event("none", 0),
                drain |-> FALSE, events |-> <<>>]
    /\ operator = [cancel |-> "no", reads |-> TRUE,
                   lines |-> [s \in Stream |-> 0], hung |-> 0, ends |-> 0,
                   told |-> "none"]
    /\ troubles = 0

(* Mutant: nobody sees that the forwarder has dropped its end.             *)
NeverOver == FALSE

(* send_event: there is room, or the forwarder has dropped its end.        *)
RelayOver == relay.at = "over"
Room == ~RelayOver /\ Len(relay.raw) < Capacity
Put(e) == relay' = [relay EXCEPT !.raw = Append(@, e)]

-----------------------------------------------------------------------------
(* External: the child.  A process it started may hold its pipes open.     *)
ChildWrites ==
    /\ kid.up /\ kid.wrote["stdout"] + kid.wrote["stderr"] < MaxOutput
    /\ \E s \in Stream :
          kid' = [kid EXCEPT !.wrote[s] = @ + 1,
                             !.pipe[s] = Append(@, kid.wrote[s] + 1)]
    /\ NoTrouble /\ UNCHANGED <<lead, aide, relay, operator>>

ChildEnds ==
    /\ kid.up
    /\ \/ kid' = [kid EXCEPT !.up = FALSE, !.ok = TRUE] /\ NoTrouble
       \/ \E ok, held \in BOOLEAN :
            Trouble /\ kid' = [kid EXCEPT !.up = FALSE, !.ok = ok,
                                          !.held = held]
    /\ UNCHANGED <<lead, aide, relay, operator>>

HolderEnds ==
    /\ kid.held /\ kid' = [kid EXCEPT !.held = FALSE]
    /\ NoTrouble /\ UNCHANGED <<lead, aide, relay, operator>>

(* HangDetector: the time since the last known line.                       *)
TimeGoes ==
    /\ kid.up /\ kid.quiet < HangAfter
    /\ kid' = [kid EXCEPT !.quiet = @ + 1]
    /\ NoTrouble /\ UNCHANGED <<lead, aide, relay, operator>>

-----------------------------------------------------------------------------
(* supervise_launch.                                                       *)
Goes(at) == lead' = [lead EXCEPT !.at = at]

(* An error return drops the child, and kill_on_drop ends it.  A snapshot  *)
(* follows all the same.                                                   *)
LeadOver(good) ==
    lead' = [lead EXCEPT !.at = IF lead.snaps THEN "snapshot" ELSE "end",
                         !.then = "end", !.good = good]
Fails == LeadOver(FALSE) /\ kid' = [kid EXCEPT !.up = FALSE]

(* agent_command and spawn: a sandbox or a program may be missing.         *)
SpawnChild ==
    /\ lead.at = "spawn"
    /\ \/ /\ Goes("started") /\ NoTrouble
          /\ kid' = [kid EXCEPT !.up = TRUE]
       \/ Fails /\ Trouble
    /\ UNCHANGED <<aide, relay, operator>>

ChildStarted ==
    /\ lead.at = "started"
    /\ \/ /\ Room /\ Put(Event("started", 0)) /\ Goes("wait")
          /\ aide' = [aide EXCEPT !.read = [s \in Stream |-> "on"],
                                  !.hang = "on"]
          /\ UNCHANGED kid
       \/ RelayOver /\ Fails /\ UNCHANGED <<aide, relay>>
    /\ NoTrouble /\ UNCHANGED operator

(* The child has ended; the watch over its silence is aborted.             *)
ChildWaited ==
    /\ lead.at = "wait" /\ ~kid.up
    /\ Goes("join")
    /\ aide' = [aide EXCEPT !.hang = "over"]
    /\ NoTrouble /\ UNCHANGED <<kid, relay, operator>>

(* A cancellation aborts the readers.  A handle that is dropped is an      *)
(* error, and the child goes with it.                                      *)
ChildCancelled ==
    /\ lead.at = "wait" /\ operator.cancel # "no"
    /\ aide' = [aide EXCEPT !.hang = "over",
                            !.read = [s \in Stream |-> "over"]]
    /\ IF operator.cancel = "yes" THEN Goes("tell") /\ UNCHANGED kid
       ELSE Fails
    /\ NoTrouble /\ UNCHANGED <<relay, operator>>

TellCancelled ==
    /\ lead.at = "tell"
    /\ \/ Room /\ Put(Event("exited", 0))
       \/ RelayOver /\ UNCHANGED relay
    /\ Goes("terminate")
    /\ NoTrouble /\ UNCHANGED <<kid, aide, operator>>

(* terminate: SIGTERM, and SIGKILL after two seconds.                      *)
Terminate ==
    /\ lead.at = "terminate" /\ Fails
    /\ NoTrouble /\ UNCHANGED <<aide, relay, operator>>

ReadersDone == \A s \in Stream : aide.read[s] \in {"over", "failed"}

JoinReaders ==
    /\ lead.at = "join" /\ ReadersDone
    /\ IF \E s \in Stream : aide.read[s] = "failed" THEN Fails
       ELSE Goes("silence") /\ UNCHANGED kid
    /\ NoTrouble /\ UNCHANGED <<aide, relay, operator>>

(* send_hung_if_quiet, once the child is gone.                             *)
TellSilence ==
    /\ lead.at = "silence"
    /\ IF aide.reported \/ kid.quiet < HangAfter
       THEN Goes("exit") /\ UNCHANGED <<kid, aide, relay>>
       ELSE /\ aide' = [aide EXCEPT !.reported = TRUE]
            /\ \/ Room /\ Put(Event("hung", 0)) /\ Goes("exit")
                  /\ UNCHANGED kid
               \/ RelayOver /\ Fails /\ UNCHANGED relay
    /\ NoTrouble /\ UNCHANGED operator

TellExit ==
    /\ lead.at = "exit"
    /\ \/ Room /\ Put(Event("exited", 1)) /\ LeadOver(kid.ok) /\ UNCHANGED kid
       \/ RelayOver /\ Fails /\ UNCHANGED relay
    /\ NoTrouble /\ UNCHANGED <<aide, operator>>

(* send_git_snapshot before and after: an error ends the supervision.      *)
GitSnapshot ==
    /\ lead.at = "snapshot"
    /\ \/ Room /\ Put(Event("git", 0)) /\ Goes(lead.then) /\ NoTrouble
       \/ /\ (RelayOver /\ NoTrouble) \/ Trouble
          /\ lead' = [lead EXCEPT !.at = "over", !.good = FALSE]
          /\ UNCHANGED relay
    /\ UNCHANGED <<kid, aide, operator>>

(* The end drops the watch over the worktree, and waits for it when all    *)
(* went well.                                                              *)
WatchDone == aide.watch = "over" \/ ~kid.changed

EndSupervision ==
    /\ lead.at = "end" /\ (lead.good => WatchDone)
    /\ Goes("over")
    /\ NoTrouble /\ UNCHANGED <<kid, aide, relay, operator>>

-----------------------------------------------------------------------------
(* read_stdout_lines, read_stderr_lines: only a line of stdout breaks the  *)
(* silence, if the protocol knows it.                                      *)
ReadLine(s) ==
    /\ aide.read[s] = "on" /\ kid.pipe[s] # <<>>
    /\ \/ /\ Room /\ Put(Event(s, Head(kid.pipe[s])))
          /\ \E known \in {FALSE, s = "stdout"} :
                kid' = [kid EXCEPT !.pipe[s] = Tail(@),
                                   !.quiet = IF known THEN 0 ELSE @]
          /\ UNCHANGED aide
       \/ /\ RelayOver /\ aide' = [aide EXCEPT !.read[s] = "failed"]
          /\ UNCHANGED <<kid, relay>>
    /\ NoTrouble /\ UNCHANGED <<lead, operator>>

PipeEnds(s) ==
    /\ lead.at \in {"wait", "join"} /\ ~kid.up /\ ~kid.held
    /\ aide.read[s] = "on" /\ kid.pipe[s] = <<>>
    /\ aide' = [aide EXCEPT !.read[s] = "over"]
    /\ NoTrouble /\ UNCHANGED <<kid, lead, relay, operator>>

Reads == \E s \in Stream : ReadLine(s) \/ PipeEnds(s)

(* The watch over the silence: the report is claimed, then sent.           *)
SilenceFound ==
    /\ aide.hang = "on" /\ kid.quiet >= HangAfter /\ ~aide.reported
    /\ aide' = [aide EXCEPT !.reported = TRUE, !.hang = "claimed"]
    /\ NoTrouble /\ UNCHANGED <<kid, lead, relay, operator>>

SilenceSent ==
    /\ aide.hang = "claimed"
    /\ \/ Room /\ Put(Event("hung", 0))
       \/ RelayOver /\ UNCHANGED relay
    /\ aide' = [aide EXCEPT !.hang = "over"]
    /\ NoTrouble /\ UNCHANGED <<kid, lead, operator>>

(* watch_repo and start_watcher: a change of the worktree is an event.     *)
FileChanged ==
    /\ aide.watch = "on" /\ ~kid.changed
    /\ lead.at \notin {"end", "over"} /\ Trouble
    /\ kid' = [kid EXCEPT !.changed = TRUE]
    /\ UNCHANGED <<lead, aide, relay, operator>>

ForwardChange ==
    /\ aide.watch = "on" /\ kid.changed
    /\ \/ Room /\ Put(Event("file", 0))
       \/ RelayOver /\ UNCHANGED relay
    /\ aide' = [aide EXCEPT !.watch = "over"]
    /\ NoTrouble /\ UNCHANGED <<kid, lead, operator>>

-----------------------------------------------------------------------------
(* forward_monitor_events.  All senders being gone ends it; a cancellation *)
(* gives it a second, which runs while it waits on either channel, but not *)
(* if it was already waiting for room when the cancellation came.          *)
SendersGone ==
    /\ lead.at = "over" /\ WatchDone
    /\ \A s \in Stream : aide.read[s] # "on"
    /\ aide.hang \in {"off", "over"}

ForwarderStops ==
    relay' = [relay EXCEPT !.at = "over", !.raw = <<>>,
                          !.holds = Event("none", 0)]

Receive ==
    /\ relay.at = "recv"
    /\ \/ /\ operator.cancel # "dropped" \/ relay.drain
          /\ relay.raw # <<>>
          /\ relay' = [relay EXCEPT !.at = "send", !.holds = Head(relay.raw),
                                    !.raw = Tail(@),
                                    !.drain = @ \/ operator.cancel = "yes"]
       \/ relay.raw = <<>> /\ SendersGone /\ ForwarderStops
       \/ operator.cancel = "dropped" /\ ~relay.drain /\ ForwarderStops
    /\ NoTrouble /\ UNCHANGED <<kid, lead, aide, operator>>

Forward ==
    /\ relay.at = "send"
    /\ \/ /\ operator.reads /\ Len(relay.events) < Capacity
          /\ relay' = [relay EXCEPT !.at = "recv",
                                    !.events = Append(@, relay.holds),
                                    !.holds = Event("none", 0)]
       \/ ~operator.reads /\ ForwarderStops
    /\ NoTrouble /\ UNCHANGED <<kid, lead, aide, operator>>

DrainEnds ==
    /\ relay.at \in {"recv", "send"} /\ operator.cancel = "yes"
    /\ relay.drain \/ relay.at = "recv"
    /\ ForwarderStops
    /\ NoTrouble /\ UNCHANGED <<kid, lead, aide, operator>>

-----------------------------------------------------------------------------
(* supervise_command_output_and_events: the command reads until the        *)
(* channel ends, then it waits for the two tasks.                          *)
CommandReads ==
    /\ operator.reads /\ relay.events # <<>>
    /\ LET e == Head(relay.events) IN
       operator' = [operator EXCEPT
           !.lines = IF e.kind \in Stream THEN [@ EXCEPT ![e.kind] = e.n]
                     ELSE @,
           !.hung = IF e.kind = "hung" THEN @ + 1 ELSE @,
           !.ends = IF e = Event("exited", 1) THEN @ + 1 ELSE @]
    /\ relay' = [relay EXCEPT !.events = Tail(@)]
    /\ NoTrouble /\ UNCHANGED <<kid, lead, aide>>

CommandEnds ==
    /\ operator.reads /\ operator.told = "none"
    /\ RelayOver /\ relay.events = <<>> /\ lead.at = "over"
    /\ operator' = [operator EXCEPT !.told = IF lead.good THEN "ok"
                                             ELSE "failed"]
    /\ NoTrouble /\ UNCHANGED <<kid, lead, aide, relay>>

(* cancel, and the handle or the receiver dropped.                         *)
UserCancels ==
    /\ operator.cancel = "no" /\ operator.told = "none" /\ Trouble
    /\ \E c \in {"yes", "dropped"} : operator' = [operator EXCEPT !.cancel = c]
    /\ UNCHANGED <<kid, lead, aide, relay>>

UserLeaves ==
    /\ operator.reads /\ operator.told = "none" /\ Trouble
    /\ operator' = [operator EXCEPT !.reads = FALSE]
    /\ UNCHANGED <<kid, lead, aide, relay>>

SupervisorSteps ==
    \/ SpawnChild \/ ChildStarted \/ ChildWaited \/ ChildCancelled
    \/ TellCancelled \/ Terminate \/ JoinReaders \/ TellSilence \/ TellExit
    \/ GitSnapshot \/ EndSupervision

Watches == SilenceFound \/ SilenceSent \/ ForwardChange
Forwards == Receive \/ Forward \/ DrainEnds
Command == CommandReads \/ CommandEnds

SupervisorNext ==
    \/ SupervisorSteps \/ Forwards \/ Command \/ Reads \/ Watches
    \/ FileChanged \/ ChildWrites \/ ChildEnds \/ HolderEnds \/ TimeGoes
    \/ UserCancels \/ UserLeaves

(* The runtime runs every task that can run, and the command reads.        *)
SupervisorFairness ==
    /\ WF_supervisorVars(SupervisorSteps) /\ WF_supervisorVars(Forwards)
    /\ WF_supervisorVars(Command) /\ WF_supervisorVars(Reads)
    /\ WF_supervisorVars(Watches)
SupervisorSpec ==
    SupervisorInit /\ [][SupervisorNext]_supervisorVars /\ SupervisorFairness

SupervisorTypeOK ==
    /\ Len(relay.raw) <= Capacity /\ Len(relay.events) <= Capacity
    /\ kid.quiet \in 0..HangAfter /\ lead.good \in BOOLEAN
    /\ operator.ends \in 0..1 /\ troubles \in 0..MaxTroubles

-----------------------------------------------------------------------------
(* What is on its way to the command, in order.                            *)
UnderWay ==
    relay.events \o (IF relay.at = "send" THEN <<relay.holds>> ELSE <<>>)
                 \o relay.raw
OfKind(kind) == SelectSeq(UnderWay, LAMBDA e : e.kind = kind)

(* The command sees each stream in order and without a gap; once it is     *)
(* told that the child ended by itself it has been told all the child      *)
(* wrote; a silence is told at most once; and it reports success only if   *)
(* the child succeeded and, unless it was cancelled, its end was told      *)
(* (supervise_launch, forward_monitor_events).                             *)
StreamFaithful ==
    /\ \A s \in Stream : \A i \in DOMAIN OfKind(s) :
          OfKind(s)[i].n = operator.lines[s] + i
    /\ operator.ends = 1 => operator.lines = kid.wrote
    /\ operator.hung + Len(OfKind("hung")) <= 1
    /\ operator.told = "ok"
          => kid.ok /\ (operator.cancel = "no" => operator.ends = 1)

(* The command is told what the child did, and a cancelled or abandoned    *)
(* child does not run on while the command reads: the supervising task is  *)
(* never left waiting for room in a channel whose forwarder has stopped    *)
(* (supervise_launch, forward_monitor_events).                             *)
SupervisorServes ==
    [](StreamFaithful /\ (operator.cancel # "no" => <>~kid.up))
=============================================================================
