----------------------------- MODULE AcpClient -----------------------------
(***************************************************************************)
(* The client of an agent that speaks ACP.  Three threads of control share *)
(* one connection: the session actor, which sends a command and waits for  *)
(* its result until a timeout; the command loop, which takes one command   *)
(* at a time and may itself wait for the agent; and the dispatch of what   *)
(* the agent writes, which wakes the loop and the tasks that wait for the  *)
(* response to a prompt.  The actor reads events from a channel.           *)
(*                                                                         *)
(* A result that comes after the actor's timeout goes to nobody.  Every    *)
(* prompt has at most one update and the agent asks one question in all;   *)
(* malformed and unknown records are events without consequence.           *)
(***************************************************************************)
EXTENDS Integers, Sequences, FiniteSets

CONSTANTS MaxAcpTurns,     \* bound: prompts the actor begins
          MaxAcpFaults,    \* bound: timeouts and deaths of the agent
          MaxAcpAsks,      \* bound: cancels and configuration changes
          MaxAcpMixed      \* bound: prompts and changes, after faults

ASSUME AcpAssumption ==
    {MaxAcpTurns, MaxAcpFaults, MaxAcpAsks, MaxAcpMixed} \subseteq Nat

VARIABLES ac,     \* the session actor's side, with the shared busy flag
          cq,     \* commands for the loop
          lp,     \* the connection's thread: loop and dispatch
          peer,     \* the agent
          wr,     \* what the agent wrote
          ev      \* events for the actor

acpVars == <<ac, cq, lp, peer, wr, ev>>

NoCmd == 0
Replayed == 0           \* the label of an update of an earlier session

AcpMsg(kind, id) == [kind |-> kind, id |-> id]

(* The request the connection waits for, by the id of its response.        *)
Awaits(st) == CASE st = "config" -> -1 [] st = "close" -> -2 [] OTHER -> 0
AcpExited == AcpMsg("exited", 0)

Queued(seq, kind, id) == \E i \in DOMAIN seq : seq[i] = AcpMsg(kind, id)

AcpInit ==
    \E caps \in SUBSET {"resume", "load", "close"}, resuming \in BOOLEAN :
        /\ ac = [st |-> "none", busy |-> FALSE, turn |-> 0, next |-> 1,
                 wait |-> NoCmd, shown |-> {}, asked |-> FALSE, told |-> {}, gone |-> FALSE,
                 faults |-> 0, configs |-> 0]
        /\ lp = [st |-> "none", suppress |-> FALSE, asks |-> {}, woken |-> {},
                 reply |-> "none", live |-> FALSE, caps |-> caps,
                 resuming |-> resuming]
        /\ peer = [st |-> "down", in |-> <<>>, works |-> {}, wrote |-> {},
                 asked |-> FALSE, answers |-> 0]
        /\ cq = <<>> /\ wr = <<>> /\ ev = <<>>

AcpFault == ac.faults < MaxAcpFaults
AcpMay == ac.next + ac.faults + ac.configs <= MaxAcpMixed
AcpFaulted(c) == [c EXCEPT !.faults = @ + 1]
AcpTell(m) == [peer EXCEPT !.in = Append(@, m)]

-----------------------------------------------------------------------------
(* Starting: the actor waits for the connection's first word. *)

(* spawn_internal: the process is started and the thread begins.           *)
SpawnInternal ==
    /\ ac.st = "none"
    /\ ac' = [ac EXCEPT !.st = "starting"]
    /\ lp' = [lp EXCEPT !.st = "initialize"]
    /\ peer' = [AcpTell(AcpMsg("initialize", 0)) EXCEPT !.st = "up"]
    /\ UNCHANGED <<cq, wr, ev>>

(* The next request of the handshake: a session to resume is asked for by  *)
(* session/resume and, when that is refused, by session/load; then the     *)
(* permission mode and the model are set.                                  *)
Restores(l, ways) == IF "resume" \in ways THEN "resume"
                     ELSE IF "load" \in ways THEN "load" ELSE "failed"

HandshakeNext(l, accepted) ==
    CASE ~accepted /\ l.st = "resume" -> Restores(l, l.caps \ {"resume"})
      [] ~accepted /\ l.st # "pin"    -> "failed"
      [] l.st = "initialize" -> IF l.resuming THEN Restores(l, l.caps) ELSE "new"
      [] l.st \in {"resume", "load", "new"} -> "pin"
      [] OTHER -> "ready"

Handshakes == {"initialize", "resume", "load", "new", "pin"}

Handshake ==
    /\ lp.st \in Handshakes /\ lp.reply # "none"
    /\ LET next == HandshakeNext(lp, lp.reply = "response")
       IN  /\ lp' = [lp EXCEPT !.st = next, !.reply = "none",
                      !.suppress = @ \/ next \in {"resume", "load"},
                      !.live = @ \/ next = "ready"]
           /\ peer' = IF next \in Handshakes THEN AcpTell(AcpMsg(next, 0)) ELSE peer
    /\ UNCHANGED <<ac, cq, wr, ev>>

(* A request of the handshake times out or loses its transport: that is    *)
(* no refusal, so nothing else is tried, except for the model.             *)
HandshakeFails ==
    /\ lp.st \in Handshakes /\ lp.reply = "none" /\ (AcpFault \/ peer.st # "up")
    /\ ac' = IF peer.st = "up" THEN AcpFaulted(ac) ELSE ac
    /\ lp' = [lp EXCEPT !.st = IF @ = "pin" THEN "ready" ELSE "failed",
                        !.live = lp.st = "pin"]
    /\ UNCHANGED <<cq, peer, wr, ev>>

(* What the restored session said before is not for the transcript: the    *)
(* events so far are drained, later ones count from this command on.       *)
Install(l) == IF l.suppress THEN <<AcpMsg("install", 0)>> ELSE <<>>

SpawnReady ==
    /\ ac.st = "starting" /\ lp.st = "ready"
    /\ ac' = [ac EXCEPT !.st = "live"]
    /\ lp' = [lp EXCEPT !.st = "idle", !.caps = @ \cap {"close"},
                        !.resuming = FALSE]
    /\ cq' = Install(lp) /\ ev' = IF lp.suppress THEN <<>> ELSE ev
    /\ UNCHANGED <<peer, wr>>

SpawnFails ==
    /\ ac.st = "starting" /\ (lp.st = "failed" \/ AcpFault)
    /\ ac' = [IF lp.st = "failed" THEN ac ELSE AcpFaulted(ac)
                 EXCEPT !.st = "failed"]
    /\ peer' = [peer EXCEPT !.st = "down"]
    /\ lp' = [lp EXCEPT !.st = "over"]
    /\ UNCHANGED <<cq, wr, ev>>

-----------------------------------------------------------------------------
(* The actor's commands.  A wait is known by the prompt's id, or -1. *)

AcpIdle == ac.st = "live" /\ ac.wait = NoCmd
AcpClosed == lp.st = "over"

AcpBeginPrompt ==
    /\ AcpIdle /\ ac.turn = 0 /\ ac.next <= MaxAcpTurns /\ AcpMay
    /\ \/ /\ ~ac.busy /\ ~AcpClosed
          /\ cq' = Append(cq, AcpMsg("prompt", ac.next))
          /\ ac' = [ac EXCEPT !.busy = TRUE, !.wait = ac.next, !.next = @ + 1]
       \/ /\ ~ac.busy /\ AcpClosed
          /\ ac' = [ac EXCEPT !.next = @ + 1] /\ UNCHANGED cq
    /\ UNCHANGED <<lp, peer, wr, ev>>

CancelPrompt ==
    /\ AcpIdle /\ ac.turn # 0 /\ ac.configs < MaxAcpAsks /\ AcpMay
    /\ ~AcpClosed /\ cq' = Append(cq, AcpMsg("cancel", 0))
    /\ ac' = [ac EXCEPT !.wait = -1, !.configs = @ + 1]
    /\ UNCHANGED <<lp, peer, wr, ev>>

ApplyConfigOption ==
    /\ AcpIdle /\ ac.configs < MaxAcpAsks /\ AcpMay
    /\ ~AcpClosed /\ cq' = Append(cq, AcpMsg("config", 0))
    /\ ac' = [ac EXCEPT !.wait = -1, !.configs = @ + 1]
    /\ UNCHANGED <<lp, peer, wr, ev>>

RespondElicitation ==
    /\ AcpIdle /\ ac.asked
    /\ ~AcpClosed /\ cq' = Append(cq, AcpMsg("answer", 1))
    /\ ac' = [ac EXCEPT !.wait = -1, !.asked = FALSE]
    /\ UNCHANGED <<lp, peer, wr, ev>>

(* The actor gives up waiting, and the command stays in the queue; or the   *)
(* connection has ended and dropped the other end of the result.           *)
CommandTimesOut ==
    /\ ac.st \in {"live", "closing"} /\ ac.wait # NoCmd /\ (AcpFault \/ AcpClosed)
    /\ ac' = [IF AcpClosed THEN ac ELSE AcpFaulted(ac) EXCEPT !.wait = NoCmd,
                                 !.busy = IF ac.wait > 0 THEN FALSE ELSE @]
    /\ UNCHANGED <<cq, lp, peer, wr, ev>>

(* drain: an event is taken.  A prompt's end counts for its own turn only. *)
PollEvent ==
    /\ AcpIdle /\ ev # <<>>
    /\ LET e == Head(ev)
       IN  ac' = CASE e.kind = "finished" ->
                        [ac EXCEPT !.told = @ \cup {e.id},
                                   !.turn = IF @ = e.id THEN 0 ELSE @]
                   [] e.kind = "update" -> [ac EXCEPT !.shown = @ \cup {e.id}]
                   [] e.kind = "ask"    -> [ac EXCEPT !.asked = TRUE]
                   [] e.kind = "exited" -> [ac EXCEPT !.gone = TRUE, !.turn = 0]
                   [] OTHER -> ac
    /\ ev' = Tail(ev)
    /\ UNCHANGED <<cq, lp, peer, wr>>

(* tear_down: session/close is asked for when the agent has it, then the   *)
(* loop is stopped and the process group killed.                           *)
TearDown ==
    /\ AcpIdle /\ lp.st # "replay"
    /\ \/ "close" \in lp.caps /\ ~AcpClosed
          /\ cq' = Append(cq, AcpMsg("close", 0))
          /\ ac' = [ac EXCEPT !.st = "closing", !.wait = -1]
       \/ ac' = [ac EXCEPT !.st = "closing"] /\ UNCHANGED cq
    /\ UNCHANGED <<lp, peer, wr, ev>>

KillTree ==
    /\ ac.st = "closing" /\ ac.wait = NoCmd
    /\ ac' = [ac EXCEPT !.st = "torn", !.turn = 0]
    /\ cq' = Append(cq, AcpMsg("shutdown", 0))
    /\ peer' = [peer EXCEPT !.st = "down"]
    /\ UNCHANGED <<lp, wr, ev>>

(* Mutant: the connection ends without a word.                             *)
SilentEnd == <<>>

LastWords == <<AcpExited>>

-----------------------------------------------------------------------------
(* An agent that outlived its host is adopted in the middle of its turn:   *)
(* the shim replays what it wrote and the client only reads.               *)

AcpAdopt ==
    /\ ac.st = "none"
    /\ ac' = [ac EXCEPT !.st = "live", !.busy = TRUE, !.turn = 1,
                        !.next = MaxAcpTurns + 1, !.configs = MaxAcpAsks]
    /\ lp' = [lp EXCEPT !.st = "replay"]
    /\ peer' = [peer EXCEPT !.st = "up", !.works = {1}]
    /\ UNCHANGED <<cq, wr, ev>>

(* replay_line.  Any response with an error, or with a stop reason, ends    *)
(* the turn; a request that was not answered before cannot be answered by  *)
(* this client, so the agent is stopped and the turn ends as cancelled.    *)
ReplayLine ==
    /\ lp.st = "replay" /\ wr # <<>> /\ wr' = Tail(wr)
    /\ LET m == Head(wr)
       IN  \/ /\ m.kind = "update" /\ ev' = Append(ev, m)
              /\ UNCHANGED <<ac, lp, peer>>
           \/ /\ m.kind = "response"
              /\ ac' = [ac EXCEPT !.busy = FALSE]
              /\ ev' = Append(ev, AcpMsg("finished", 1))
              /\ UNCHANGED <<lp, peer>>
           \/ /\ m.kind \in {"ask", "permission"}    \* answered before
              /\ UNCHANGED <<ac, lp, peer, ev>>
           \/ /\ m.kind \in {"ask", "permission"}
              /\ ev' = ev \o (IF ac.busy THEN <<AcpMsg("finished", 1)>>
                              ELSE <<>>) \o LastWords
              /\ ac' = [ac EXCEPT !.busy = FALSE]
              /\ lp' = [lp EXCEPT !.st = "over"]
              /\ peer' = [peer EXCEPT !.st = "down"]
    /\ UNCHANGED cq

ReplayEnds ==
    /\ lp.st = "replay" /\ wr = <<>> /\ peer.st = "down"
    /\ lp' = [lp EXCEPT !.st = "over"] /\ ev' = ev \o LastWords
    /\ UNCHANGED <<ac, cq, peer, wr>>

(* shutdown and cancel of an adopted client: the shim is told to end the   *)
(* agent; a cancelled client is read on until the stream ends.             *)
AdoptedShutdown ==
    /\ AcpIdle /\ lp.st = "replay"
    /\ \/ ac' = [ac EXCEPT !.st = "torn", !.turn = 0]
       \/ UNCHANGED ac
    /\ peer' = [peer EXCEPT !.st = "down"]
    /\ UNCHANGED <<cq, lp, wr, ev>>

-----------------------------------------------------------------------------
(* The command loop. *)

(* The result of a command reaches the actor if it still waits for it.     *)
AcpResult(n, ok) ==
    IF ac.wait # n THEN ac
    ELSE [ac EXCEPT !.wait = NoCmd,
                    !.turn = IF n > 0 /\ ok THEN n ELSE @,
                    !.busy = IF n > 0 /\ ~ok THEN FALSE ELSE @]

(* cancel_elicitations: every open question is answered with "cancel".     *)
Cancelled(a, l) == [a EXCEPT !.answers = @ + Cardinality(l.asks),
                             !.in = Append(@, AcpMsg("cancel", 0))]

CommandLoop ==
    /\ lp.st = "idle" /\ cq # <<>>
    /\ cq' = Tail(cq)
    /\ LET c == Head(cq)
       IN  CASE c.kind = "install" ->
                  /\ lp' = [lp EXCEPT !.suppress = FALSE]
                  /\ UNCHANGED <<ac, peer, ev>>
             [] c.kind = "prompt" ->
                  /\ ac' = AcpResult(c.id, TRUE) /\ peer' = AcpTell(c)
                  /\ UNCHANGED <<lp, ev>>
             [] c.kind = "cancel" ->
                  /\ ac' = AcpResult(-1, TRUE) /\ peer' = Cancelled(peer, lp)
                  /\ lp' = [lp EXCEPT !.asks = {}] /\ UNCHANGED ev
             [] c.kind = "answer" ->
                  /\ ac' = AcpResult(-1, lp.asks # {})
                  /\ peer' = [peer EXCEPT !.answers = @ + Cardinality(lp.asks)]
                  /\ lp' = [lp EXCEPT !.asks = {}] /\ UNCHANGED ev
             [] c.kind \in {"config", "close"} ->
                  /\ lp' = [lp EXCEPT !.st = c.kind, !.reply = "none"]
                  /\ peer' = AcpTell(c) /\ UNCHANGED <<ac, ev>>
             [] c.kind = "shutdown" ->
                  /\ lp' = [lp EXCEPT !.st = "over"]
                  /\ ev' = Append(ev, AcpExited) /\ UNCHANGED <<ac, peer>>
    /\ UNCHANGED wr

(* A value that is refused or already set needs no request.                *)
ConfigAtOnce ==
    /\ lp.st = "idle" /\ cq # <<>> /\ Head(cq).kind = "config"
    /\ cq' = Tail(cq) /\ ac' = AcpResult(-1, TRUE)
    /\ UNCHANGED <<lp, peer, wr, ev>>

(* apply_in_band and session/close end with a response or a timeout.       *)
RequestEnds ==
    /\ lp.st \in {"config", "close"}
    /\ \/ lp.reply # "none" /\ ac' = AcpResult(-1, TRUE)
       \/ lp.reply = "none" /\ AcpFault /\ ac' = AcpFaulted(AcpResult(-1, FALSE))
    /\ lp' = [lp EXCEPT !.st = "idle", !.reply = "none"]
    /\ UNCHANGED <<cq, peer, wr, ev>>

(* The task that waits for a prompt's response.                            *)
PromptTask ==
    /\ \E id \in lp.woken :
          /\ lp' = [lp EXCEPT !.woken = @ \ {id}]
          /\ ev' = Append(ev, AcpMsg("finished", id))
    /\ ac' = [ac EXCEPT !.busy = FALSE]
    /\ UNCHANGED <<cq, peer, wr>>

(* The stream ends.  Prompts without response end with an error, or their  *)
(* tasks are dropped with the connection.                                  *)
ConnectionEnds ==
    /\ lp.live /\ lp.st \in {"idle", "config", "close"}
    /\ peer.st = "down" /\ wr = <<>>
    /\ \E failed \in {{}, peer.works} :
          /\ lp' = [lp EXCEPT !.st = "over", !.asks = {}, !.woken = {}]
          /\ LET ends == {id \in lp.woken \cup failed : id = ac.turn}
             IN  /\ ev' = ev \o (IF ends = {} THEN <<>>
                                 ELSE <<AcpMsg("finished", ac.turn)>>) \o LastWords
                 /\ ac' = IF ends = {} THEN ac ELSE [ac EXCEPT !.busy = FALSE]
    /\ UNCHANGED <<cq, peer, wr>>

-----------------------------------------------------------------------------
(* The dispatch of what the agent wrote. *)

NotifyPasses(l, m) == ~l.suppress \/ m.kind = "options"

AcpDispatch ==
    /\ wr # <<>> /\ lp.st \notin {"over", "replay"}
    /\ wr' = Tail(wr)
    /\ LET m == Head(wr)
       IN  CASE m.kind \in {"update", "options"} ->
                  /\ ev' = IF NotifyPasses(lp, m) THEN Append(ev, m) ELSE ev
                  /\ UNCHANGED <<lp, peer>>
             [] m.kind = "ask" ->
                  \/ /\ lp' = [lp EXCEPT !.asks = {1}]
                     /\ ev' = Append(ev, m) /\ UNCHANGED peer
                  \/ /\ peer' = [peer EXCEPT !.answers = @ + 1]
                     /\ UNCHANGED <<lp, ev>>
             [] m.kind = "permission" -> UNCHANGED <<lp, peer, ev>>
             [] m.kind = "response" /\ m.id > 0 ->
                  /\ lp' = [lp EXCEPT !.woken = @ \cup {m.id}]
                  /\ UNCHANGED <<peer, ev>>
             [] m.kind \in {"response", "refusal"} /\ m.id <= 0 ->
                  /\ lp' = [lp EXCEPT !.reply =
                               IF m.id # Awaits(lp.st) THEN @ ELSE m.kind]
                  /\ UNCHANGED <<peer, ev>>
    /\ UNCHANGED <<ac, cq>>

-----------------------------------------------------------------------------
(* The agent. *)

AgentReads ==
    /\ peer.st = "up" /\ peer.in # <<>>
    /\ LET m == Head(peer.in)
           rest == [peer EXCEPT !.in = Tail(@)]
       IN  \/ /\ m.kind = "prompt"
              /\ peer' = [rest EXCEPT !.works = @ \cup {m.id}] /\ UNCHANGED wr
           \/ /\ m.kind = "cancel" /\ peer' = rest /\ UNCHANGED wr
           \/ /\ m.kind \in Handshakes \cup {"config", "close"} /\ peer' = rest
              /\ \E kind \in {"response", "refusal"} :
                    wr' = wr \o (IF m.kind = "load"
                                 THEN <<AcpMsg("update", Replayed)>> ELSE <<>>)
                             \o <<AcpMsg(kind, Awaits(m.kind))>>
    /\ UNCHANGED <<ac, cq, lp, ev>>

AgentSpeaks ==
    /\ peer.st = "up" /\ peer.works # {}
    /\ \/ \E id \in peer.works \ peer.wrote :
             /\ peer' = [peer EXCEPT !.wrote = @ \cup {id}]
             /\ wr' = Append(wr, AcpMsg("update", id))
       \/ /\ ~peer.asked /\ peer' = [peer EXCEPT !.asked = TRUE]
          /\ \E kind \in {"ask", "permission"} :
                wr' = Append(wr, AcpMsg(kind, 1))
    /\ UNCHANGED <<ac, cq, lp, ev>>

AgentFinishes ==
    /\ peer.st = "up"
    /\ \E id \in peer.works : /\ peer' = [peer EXCEPT !.works = @ \ {id}]
                            /\ wr' = Append(wr, AcpMsg("response", id))
    /\ UNCHANGED <<ac, cq, lp, ev>>

AgentDies ==
    /\ peer.st = "up" /\ AcpFault
    /\ peer' = [peer EXCEPT !.st = "down"] /\ ac' = AcpFaulted(ac)
    /\ UNCHANGED <<cq, lp, wr, ev>>

-----------------------------------------------------------------------------
AcpNext ==
    \/ SpawnInternal \/ Handshake \/ HandshakeFails \/ SpawnReady
    \/ SpawnFails \/ AcpBeginPrompt \/ CancelPrompt \/ ApplyConfigOption
    \/ RespondElicitation \/ CommandTimesOut \/ PollEvent \/ TearDown
    \/ KillTree \/ CommandLoop \/ ConfigAtOnce \/ RequestEnds \/ PromptTask
    \/ ConnectionEnds \/ AcpDispatch
    \/ AcpAdopt \/ ReplayLine \/ ReplayEnds \/ AdoptedShutdown
    \/ AgentReads \/ AgentSpeaks \/ AgentFinishes \/ AgentDies

AcpSpec == AcpInit /\ [][AcpNext]_acpVars

AcpTypeOK ==
    /\ ac.turn \in 0..MaxAcpTurns /\ ac.busy \in BOOLEAN
    /\ ac.wait \in -1..MaxAcpTurns /\ ac.shown \subseteq 0..MaxAcpTurns
    /\ lp.asks \subseteq {1} /\ peer.works \subseteq 1..MaxAcpTurns

(* Where a prompt is on its way to the agent and back.                     *)
UnderWay(id) ==
    \/ /\ ~AcpClosed
       /\ \/ peer.st = "down" \/ id \in peer.works \/ id \in lp.woken
          \/ Queued(cq, "prompt", id) \/ Queued(peer.in, "prompt", id)
          \/ Queued(wr, "response", id)
    \/ Queued(ev, "finished", id) \/ Queued(ev, "exited", 0)

(* A turn the actor waits for is on its way, or the end of the connection  *)
(* will be told: the actor never waits for what nobody will send, although *)
(* commands time out, prompts sit behind a slow request, agents die and    *)
(* responses race the end of the stream.  A question is open or answered   *)
(* once, never both.                                                       *)
TurnIsTold ==
    /\ ac.turn # 0 => UnderWay(ac.turn)
    /\ peer.answers + Cardinality(lp.asks) <= 1

(* The transcript gets the updates of this session's turns, all of those   *)
(* written before a turn's response by the time the turn ends, and nothing *)
(* that a restored session replays.                                        *)
ShownOnce ==
    /\ Replayed \notin ac.shown
    /\ \A id \in ac.told \ peer.works :
          (id \in peer.wrote /\ ~Queued(wr, "update", id)) => id \in ac.shown

(* The actor gets the end of its turn and what was said in it, once        *)
(* (command_loop, run_async).                                              *)
AcpTurnServed == TurnIsTold /\ ShownOnce
=============================================================================
