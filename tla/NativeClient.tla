---------------------------- MODULE NativeClient ----------------------------
(***************************************************************************)
(* A chat's client of an agent that speaks JSON lines over a pipe, and the *)
(* sidecar at the other end.  The client has one run at a time.  It reads  *)
(* the agent's records in the order they come, except that a request (a    *)
(* change of the configuration, or the usage asked for at the end of a     *)
(* run) reads ahead until its own response and keeps the rest for later.   *)
(* The sidecar handles its commands asynchronously: an interrupt that is   *)
(* not answered in time gives the turn up and shuts the sidecar down.      *)
(*                                                                         *)
(* The text an agent streams, tool calls and elicitations do not touch the *)
(* state below and are left out; so is a client that adopts a running      *)
(* agent.  A prompt is named by its request id.                            *)
(***************************************************************************)
EXTENDS Integers, Sequences, FiniteSets, SequencesExt

CONSTANTS MaxTurns,      \* bound: prompts
          MaxDisturbs,   \* bound: configuration requests, cancels and lines
                         \* that are no JSON record, together
          MaxMixed       \* bound: prompts and these together

ASSUME ClientAssumption ==
    {MaxTurns, MaxDisturbs, MaxMixed} \subseteq Nat

VARIABLES cl,         \* RpcClientCore and its RpcSession
          toAgent,    \* commands in the agent's stdin
          toHost,     \* records from the agent's stdout, up to the channel
          ag,         \* the sidecar and the SDK below it
          told,       \* told[r]: what the end of prompt r was told from
          done        \* configuration requests, cancels and noise so far

clientVars == <<cl, toAgent, toHost, ag, told, done>>

Turns == 1..MaxTurns
MayDisturb == done < MaxDisturbs /\ cl.next + done <= MaxMixed
NoWire == 0             \* no prompt, no wire id, no request
Quiet == [id |-> NoWire, finish |-> <<>>]

(* what a prompt's end may be told from: the result of prompt n is n       *)
Untold == -1
Refusal == -2
LostRun == -3
OtherAnswer == -4

-----------------------------------------------------------------------------
(* Records. *)

Response(id, cmd, ok) == [kind |-> "response", id |-> id, cmd |-> cmd,
                          ok |-> ok, of |-> NoWire, end |-> "none"]
Result(of, end) == [kind |-> "result", id |-> NoWire, cmd |-> "none",
                    ok |-> TRUE, of |-> of, end |-> end]
Noise == [kind |-> "noise", id |-> NoWire, cmd |-> "none", ok |-> TRUE,
          of |-> NoWire, end |-> "none"]
Exit == [Noise EXCEPT !.kind = "exit"]

Command(type, id, of) == [type |-> type, id |-> id, of |-> of]

-----------------------------------------------------------------------------
(* The client. *)

(* What ends a run also forgets its prompt id, its abort and its error.    *)
RunOver(c) == [c EXCEPT !.active = FALSE, !.wire = NoWire]

(* The terminal of the active request, told from a record; without an      *)
(* active request it has the id 0 and the chat ignores it.                 *)
Tell(from) ==
    told' = IF cl.req = NoWire THEN told ELSE [told EXCEPT ![cl.req] = from]

(* begin_prompt: refused while a run is active.  The chat begins a prompt  *)
(* when none is awaited and the client has not exited.                     *)
BeginPrompt ==
    /\ cl.call = Quiet /\ ~cl.active /\ cl.awaits = NoWire /\ ~cl.gone
    /\ cl.next <= MaxTurns /\ cl.next + done <= MaxMixed /\ ag.st # "gone"
    /\ toAgent' = Append(toAgent, Command("prompt", cl.wires, cl.next))
    /\ cl' = [cl EXCEPT !.active = TRUE, !.wire = cl.wires, !.wires = @ + 1,
                        !.req = cl.next, !.awaits = cl.next, !.next = @ + 1,
                        !.late = IF ag.st = "closing" THEN @ \cup {cl.next}
                                 ELSE @]
    /\ UNCHANGED <<toHost, ag, told, done>>

(* cancel: an abort is sent while a run is active.                         *)
CancelRun ==
    /\ cl.call = Quiet /\ cl.active /\ MayDisturb
    /\ ag.st # "gone"
    /\ toAgent' = Append(toAgent, Command("abort", cl.wires, NoWire))
    /\ cl' = [cl EXCEPT !.wires = @ + 1]
    /\ done' = done + 1
    /\ UNCHANGED <<toHost, ag, told>>

(* set_model and set_effort, also in the middle of a turn.                 *)
Configure ==
    /\ cl.call = Quiet /\ ~cl.gone /\ MayDisturb /\ ag.st # "gone"
    /\ toAgent' = Append(toAgent, Command("set", cl.wires, NoWire))
    /\ cl' = [cl EXCEPT !.call = [id |-> cl.wires, finish |-> <<>>],
                        !.wires = @ + 1]
    /\ done' = done + 1
    /\ UNCHANGED <<toHost, ag, told>>

(* The events of the end of a run: the chat is told once the usage came.   *)
Ended(c) ==
    [c EXCEPT !.call = Quiet,
              !.awaits = IF c.call.finish = <<c.awaits>> THEN NoWire ELSE @]

(* A record a request meets before its response is kept for later.         *)
Skim(c, r) == [c EXCEPT !.queued = Append(@, r)]

(* request reads until its response, a line that is no record or the exit. *)
ReadAhead ==
    /\ cl.call # Quiet /\ toHost # <<>>
    /\ LET r == Head(toHost)
       IN  cl' = CASE r.kind = "exit" -> [Ended(cl) EXCEPT !.exited = TRUE]
                   [] r.kind = "noise" -> Ended(cl)
                   [] r.kind = "response" /\ r.id = cl.call.id -> Ended(cl)
                   [] OTHER -> Skim(cl, r)
    /\ toHost' = Tail(toHost)
    /\ UNCHANGED <<toAgent, ag, told, done>>

RequestTimesOut ==
    /\ cl.call # Quiet
    /\ cl' = Ended(cl)
    /\ UNCHANGED <<toAgent, toHost, ag, told, done>>

(* RunFinished: the run is over, the usage is asked for, and only then the *)
(* chat is told; with the pipe closed it is told at once.                  *)
FinishRun(c) ==
    LET over == [RunOver(c) EXCEPT !.req = NoWire]
        end == <<c.req>>
    IN  IF ag.st = "gone"
        THEN /\ cl' = Ended([over EXCEPT !.call.finish = end])
             /\ UNCHANGED toAgent
        ELSE /\ cl' = [over EXCEPT !.wires = @ + 1,
                                   !.call = [id |-> c.wires, finish |-> end]]
             /\ toAgent' = Append(toAgent, Command("usage", c.wires, NoWire))

(* Mutant: any response ends the run that is active.                       *)
AnyResponse(c, r) == r.kind = "response" /\ c.active

(* prompt_response_step: the response to the prompt itself.                *)
IsPromptResponse(c, r) ==
    r.kind = "response" /\ r.id = c.wire /\ c.wire # NoWire

(* next_step and wait_event: an exit met by a request comes first, then a  *)
(* deferred end, then what requests have kept, then the agent's records.   *)
(* A result that is an error passes its error on first and ends the run    *)
(* with the next step; wait_event goes on to that step unless there was no *)
(* active request to hold the error for.                                   *)
TakeRecord(c, r) ==
    CASE IsPromptResponse(c, r) /\ ~r.ok ->
            /\ cl' = [RunOver(c) EXCEPT !.req = NoWire,
                         !.awaits = IF c.awaits = c.req THEN NoWire ELSE @]
            /\ Tell(Refusal) /\ UNCHANGED toAgent
      [] IsPromptResponse(c, r) /\ r.ok /\ r.cmd # "prompt" ->
            FinishRun(c) /\ Tell(IF r.id = c.wire THEN c.req ELSE OtherAnswer)
      [] r.kind = "result" /\ (r.end = "ok" \/ c.req # NoWire) ->
            FinishRun(c) /\ Tell(r.of)
      [] r.kind = "result" /\ r.end = "error" /\ c.req = NoWire ->
            /\ cl' = [c EXCEPT !.deferred = r.of]
            /\ UNCHANGED <<told, toAgent>>
      [] r.kind = "exit" ->
            /\ cl' = [RunOver(c) EXCEPT !.gone = TRUE, !.awaits = NoWire]
            /\ UNCHANGED <<told, toAgent>>
      [] OTHER -> cl' = c /\ UNCHANGED <<told, toAgent>>

PollExited ==
    /\ cl.call = Quiet /\ cl.exited
    /\ TakeRecord([cl EXCEPT !.exited = FALSE], Exit)
    /\ UNCHANGED <<toHost, ag, done>>

PollDeferred ==
    /\ cl.call = Quiet /\ ~cl.exited /\ cl.deferred # NoWire
    /\ FinishRun([cl EXCEPT !.deferred = NoWire]) /\ Tell(cl.deferred)
    /\ UNCHANGED <<toHost, ag, done>>

PollKept ==
    /\ cl.call = Quiet /\ ~cl.exited /\ cl.deferred = NoWire
    /\ cl.queued # <<>>
    /\ TakeRecord([cl EXCEPT !.queued = Tail(@)], Head(cl.queued))
    /\ UNCHANGED <<toHost, ag, done>>

PollRecord ==
    /\ cl.call = Quiet /\ ~cl.exited /\ cl.deferred = NoWire
    /\ cl.queued = <<>> /\ toHost # <<>>
    /\ toHost' = Tail(toHost)
    /\ TakeRecord(cl, Head(toHost))
    /\ UNCHANGED <<ag, done>>

-----------------------------------------------------------------------------
(* The sidecar. *)

AgentWrites(rs) == toHost' = toHost \o rs

(* handlePrompt: the prompt goes to the SDK unless the input is closed, but*)
(* it is acknowledged and counted in any case.  Other agents may refuse it *)
(* or answer it themselves, without a run.                                 *)
AgentPrompt ==
    /\ ag.st # "gone" /\ toAgent # <<>> /\ Head(toAgent).type = "prompt"
    /\ LET c == Head(toAgent)
       IN  \/ /\ ag' = [ag EXCEPT !.inflight = @ + 1,
                                  !.work = IF ag.st = "closing" THEN @
                                           ELSE Append(@, c.of)]
              /\ AgentWrites(<<Response(c.id, "prompt", TRUE)>>)
           \/ /\ \E r \in {Response(c.id, "prompt", FALSE),
                           Response(c.id, "handled", TRUE)} : AgentWrites(<<r>>)
              /\ UNCHANGED ag
    /\ toAgent' = Tail(toAgent)
    /\ UNCHANGED <<cl, told, done>>

(* handleAbort asks the SDK to interrupt what it works on.                 *)
AgentAbort ==
    /\ ag.st # "gone" /\ toAgent # <<>> /\ Head(toAgent).type = "abort"
    /\ ag' = [ag EXCEPT !.aborts = Append(@, Head(toAgent).id)]
    /\ toAgent' = Tail(toAgent)
    /\ UNCHANGED <<cl, toHost, told, done>>

(* The other handlers wait for the SDK and answer when it does; that the   *)
(* answer may be an error makes no difference to the client's state.       *)
AgentTakes ==
    /\ ag.st # "gone" /\ toAgent # <<>>
    /\ Head(toAgent).type \in {"set", "usage"}
    /\ ag' = [ag EXCEPT !.owed = @ \cup {Head(toAgent)}]
    /\ toAgent' = Tail(toAgent)
    /\ UNCHANGED <<cl, toHost, told, done>>

AgentAnswers ==
    /\ ag.st # "gone"
    /\ \E c \in ag.owed :
          /\ ag' = [ag EXCEPT !.owed = @ \ {c}]
          /\ AgentWrites(<<Response(c.id, c.type, TRUE)>>)
    /\ UNCHANGED <<cl, toAgent, told, done>>

(* The SDK ends the turn it works on.                                      *)
AgentResult ==
    /\ ag.st # "gone" /\ ag.work # <<>>
    /\ ag' = [ag EXCEPT !.work = Tail(@),
                        !.inflight = IF @ = 0 THEN 0 ELSE @ - 1]
    /\ \E end \in {"ok", "error"} : AgentWrites(<<Result(Head(ag.work), end)>>)
    /\ UNCHANGED <<cl, toAgent, told, done>>

(* reportLostTurn.                                                         *)
LostTurn(a) == IF a.inflight = 0 THEN <<>> ELSE <<Result(LostRun, "error")>>

Closing(a) == [a EXCEPT !.st = "closing"]

(* The SDK's stream ends or fails while the sidecar is not shutting down.  *)
AgentStreamEnds ==
    /\ ag.st = "up"
    /\ AgentWrites(LostTurn(ag))
    /\ ag' = [Closing(ag) EXCEPT !.inflight = 0, !.work = <<>>]
    /\ UNCHANGED <<cl, toAgent, told, done>>

(* An interrupt is answered, or its deadline passes: then the turn is given*)
(* up and the sidecar shuts down, while the SDK may still end the turn.    *)
AgentInterrupted ==
    /\ ag.st # "gone" /\ ag.aborts # <<>>
    /\ AgentWrites(<<Response(Head(ag.aborts), "abort", TRUE)>>)
    /\ ag' = [ag EXCEPT !.aborts = Tail(@)]
    /\ UNCHANGED <<cl, toAgent, told, done>>

AgentGivesUp ==
    /\ ag.st # "gone" /\ ag.aborts # <<>>
    /\ AgentWrites(<<Response(Head(ag.aborts), "abort", TRUE)>> \o LostTurn(ag))
    /\ ag' = [Closing(ag) EXCEPT !.aborts = Tail(@), !.inflight = 0]
    /\ UNCHANGED <<cl, toAgent, told, done>>

(* A line that is no JSON record, or is too long.                          *)
AgentNoise ==
    /\ ag.st # "gone" /\ MayDisturb
    /\ AgentWrites(<<Noise>>)
    /\ done' = done + 1
    /\ UNCHANGED <<cl, toAgent, ag, told>>

(* The shutdown is complete, or the process dies.                          *)
AgentExits ==
    /\ ag.st # "gone"
    /\ AgentWrites(<<Exit>>)
    /\ ag' = [ag EXCEPT !.st = "gone", !.inflight = 0, !.work = <<>>,
                        !.aborts = <<>>, !.owed = {}]
    /\ toAgent' = <<>>
    /\ UNCHANGED <<cl, told, done>>

-----------------------------------------------------------------------------
ClientInit ==
    /\ cl = [active |-> FALSE, wire |-> NoWire, wires |-> 1, req |-> NoWire,
             next |-> 1, queued |-> <<>>, exited |-> FALSE,
             deferred |-> NoWire, gone |-> FALSE,
             call |-> Quiet, awaits |-> NoWire, late |-> {}]
    /\ toAgent = <<>> /\ toHost = <<>>
    /\ ag = [st |-> "up", inflight |-> 0, work |-> <<>>, aborts |-> <<>>,
             owed |-> {}]
    /\ told = [r \in Turns |-> Untold]
    /\ done = 0

ClientNext ==
    \/ BeginPrompt \/ CancelRun \/ Configure \/ ReadAhead \/ RequestTimesOut
    \/ PollExited \/ PollDeferred \/ PollKept \/ PollRecord
    \/ AgentPrompt \/ AgentAbort \/ AgentTakes \/ AgentAnswers \/ AgentResult
    \/ AgentStreamEnds \/ AgentInterrupted \/ AgentGivesUp \/ AgentNoise
    \/ AgentExits

ClientSpec == ClientInit /\ [][ClientNext]_clientVars

-----------------------------------------------------------------------------
ClientTypeOK ==
    /\ cl.req \in 0..MaxTurns /\ cl.awaits \in 0..MaxTurns
    /\ cl.wire < cl.wires /\ cl.next \in 1..(MaxTurns + 1)
    /\ cl.active => cl.req # NoWire
    /\ ag.st \in {"up", "closing", "gone"} /\ ag.inflight \in 0..MaxTurns

(* A prompt is reported ended from the agent's own end of it: never from   *)
(* the late result of an earlier prompt, nor from the response to another  *)
(* command, whatever requests read ahead, time out or are answered late,   *)
(* and whenever the operator cancels.  The one exception is a prompt sent  *)
(* to a sidecar that is already shutting down.                             *)
OwnAnswer ==
    \A r \in Turns \ cl.late : told[r] \in {Untold, Refusal, LostRun, r}

(* A run the client waits for will end: its prompt is on its way, with the *)
(* SDK or answered, or the agent is going away and its exit is yet to be   *)
(* read.                                                                   *)
RunIsOwed ==
    cl.active =>
        \/ ag.st = "closing"
        \/ cl.exited \/ Exit \in Range(toHost)
        \/ \E c \in Range(toAgent) : c.id = cl.wire
        \/ cl.req \in Range(ag.work)
        \/ \E r \in Range(cl.queued) \cup Range(toHost) :
              r.kind = "result" \/ (r.id = cl.wire /\ (~r.ok \/ r.cmd # "prompt"))

(* A turn gets its own answer, and one that runs is still owed one         *)
(* (next_step, request).                                                   *)
TurnsAnswered == OwnAnswer /\ RunIsOwed
=============================================================================
