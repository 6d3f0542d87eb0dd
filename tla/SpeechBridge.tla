---------------------------- MODULE SpeechBridge ----------------------------
(***************************************************************************)
(* Dictation.  Each socket of a browser starts dictations one after        *)
(* another; its bridge turns each into a session of the provider, which    *)
(* all sockets share.  The provider has one worker process, which lives on *)
(* between dictations and is started again when it has died.  Frames go to *)
(* the worker and events come back over two bounded queues that carry no   *)
(* session: what belongs to which dictation is the order, and whoever asks *)
(* first takes an event.  A session keeps the queues of the worker it was  *)
(* started on.                                                             *)
(*                                                                         *)
(* Frames and events are tagged with their dictation here, for the         *)
(* properties alone.  A control frame that is refused (malformed, another  *)
(* version, another session, a second start) is answered and changes       *)
(* nothing.  Two drains of a queue at once are one after the other.        *)
(***************************************************************************)
EXTENDS Integers, Sequences, FiniteSets

CONSTANTS Socket,           \* the sockets of the browsers
          MaxDictations,    \* bound: sessions started
          MaxSpeech,        \* bound: audio frames, stops and worker deaths
          FrameLimit,       \* max_buffered_audio_ms / 20
          EventLimit        \* SIDECAR_EVENT_QUEUE_BOUND

ASSUME SpeechAssumption ==
    /\ {MaxDictations, MaxSpeech} \subseteq Nat
    /\ {FrameLimit, EventLimit} \subseteq Nat \ {0}

VARIABLES bench,   \* MoonshineProvider: its workers, the last is the current
          talk,    \* bridge_task_stt_socket: the locals of a socket's loop
          mic,     \* what the browser sent and the worker heard, by session
          caption  \* what the browser was told, by session

speechVars == <<bench, talk, mic, caption>>

Dictation == 1..MaxDictations
NoTalk == [id |-> 0, worker |-> 0, ready |-> FALSE, readyBy |-> "none",
           endBy |-> "none", finalizing |-> FALSE, exitTold |-> FALSE,
           next |-> 0, at |-> "recv"]

(* For the properties: what was told before the dictation's own stt.ready  *)
(* and after it, and whether no other socket dictated at the same time.    *)
NoCaption == [early |-> {}, told |-> {}, ready |-> FALSE, exit |-> FALSE,
              over |-> "new", alone |-> TRUE]

(* A worker, its two queues and the writer's thread.                       *)
NewWorker == [up |-> TRUE, writer |-> TRUE, frames |-> <<>>, events |-> <<>>,
              hears |-> 0]

SpeechInit ==
    /\ bench = [workers |-> <<>>, effort |-> 0]
    /\ talk = [k \in Socket |-> NoTalk]
    /\ mic = [d \in Dictation |-> [sent |-> 0, refused |-> 0,
                                   heard |-> <<>>]]
    /\ caption = [d \in Dictation |-> NoCaption]

Item(kind, d, n) == [kind |-> kind, of |-> d, n |-> n]

(* The worker of a socket's session, and that worker changed.              *)
Worker(k) == bench.workers[talk[k].worker]
Becomes(k, w) == [bench EXCEPT !.workers[talk[k].worker] = w]

-----------------------------------------------------------------------------
(* External: ajax-moonshine-sidecar.  It hears one session at a time, takes*)
(* a frame and answers it.                                                 *)
WorkerTakes(w) ==
    LET b == bench.workers[w]
        f == Head(b.frames)
        Answer(kinds) == [i \in 1..Len(kinds) |-> Item(kinds[i], f.of, f.n)]
        Done(hears, kinds) ==
           bench' = [bench EXCEPT !.workers[w] =
                        [b EXCEPT !.frames = Tail(@), !.hears = hears,
                                  !.events = @ \o Answer(kinds)]]
    IN  /\ b.up /\ b.frames # <<>> /\ Len(b.events) < EventLimit
        /\ \/ /\ f.kind = "start" /\ Done(f.of, <<"ready">>)
              /\ UNCHANGED mic
           \/ /\ f.kind = "cancel" /\ Done(0, <<>>) /\ UNCHANGED mic
           \/ /\ f.kind = "finalize" /\ Done(0, <<"completed">>)
              /\ UNCHANGED mic
           \/ /\ f.kind = "audio" /\ b.hears = 0
              /\ Done(0, <<>>) /\ UNCHANGED mic
           \/ /\ f.kind = "audio" /\ b.hears # 0
              /\ Done(b.hears, <<>>) \/ Done(b.hears, <<"final">>)
              /\ mic' = [mic EXCEPT ![f.of].heard = Append(@, f.n)]
        /\ UNCHANGED <<talk, caption>>

WorkerDies(w) ==
    /\ bench.workers[w].up /\ bench.effort < MaxSpeech
    /\ bench' = [bench EXCEPT !.workers[w].up = FALSE, !.effort = @ + 1]
    /\ UNCHANGED <<talk, mic, caption>>

(* spawn_frame_writer: ends with the first write to a closed pipe.         *)
WriterEnds(w) ==
    LET b == bench.workers[w]
    IN  /\ ~b.up /\ b.writer /\ b.frames # <<>>
        /\ bench' = [bench EXCEPT !.workers[w].writer = FALSE,
                                  !.workers[w].frames = <<>>]
        /\ UNCHANGED <<talk, mic, caption>>

-----------------------------------------------------------------------------
(* write_frame: what try_send finds.                                       *)
CanWrite(w) == w.writer /\ Len(w.frames) < FrameLimit

Written(w, ok, f) == IF ok THEN [w EXCEPT !.frames = Append(@, f)] ELSE w

(* MoonshineSession::cancel: a cancel frame if there is room, and the      *)
(* events that are there are thrown away, whose they may be.               *)
Cancelled(k) ==
    Becomes(k, [Written(Worker(k), CanWrite(Worker(k)),
                        Item("cancel", talk[k].id, 0)) EXCEPT !.events = <<>>])

(* poll_event, at a disconnected queue: told once, and not after the       *)
(* session's completion.                                                   *)
ExitIsTold(k, done) == ~Worker(k).up /\ ~talk[k].exitTold /\ ~done

(* The top of the loop, which does nothing without a session (such a loop  *)
(* is always at "recv" here): drain_provider_events, then what ends a      *)
(* session: not ready in time, completed, not finalized in time.           *)
BridgeDrains(k) ==
    LET d == talk[k].id
        q == Worker(k).events
        news == {i \in 1..Len(q) : q[i].kind \in {"final", "completed"}}
        done == \E i \in news : q[i].kind = "completed"
        ready == talk[k].ready \/ \E i \in 1..Len(q) : q[i].kind = "ready"
        known(i) == \/ caption[d].ready
                    \/ \E j \in 1..i : q[j] = Item("ready", d, 0)
        late == ~ready /\ talk[k].readyBy = "due"
        over == CASE late -> "not_ready"
                  [] ~late /\ done -> "closed"
                  [] ~late /\ ~done /\ talk[k].endBy = "due" -> "timed_out"
                  [] OTHER -> "on"
    IN  /\ talk[k].at = "top"
        /\ caption' = [caption EXCEPT
              ![d].early = @ \cup {q[i] : i \in {j \in news : ~known(j)}},
              ![d].told = @ \cup {q[i] : i \in {j \in news : known(j)}},
              ![d].ready = known(Len(q)),
              ![d].exit = @ \/ ExitIsTold(k, done),
              ![d].over = over]
        /\ IF over = "on"
           THEN /\ talk' = [talk EXCEPT ![k] =
                      [@ EXCEPT !.ready = ready, !.at = "recv",
                                !.readyBy = IF ready THEN "none" ELSE @,
                                !.exitTold = @ \/ ~Worker(k).up]]
                /\ bench' = Becomes(k, [Worker(k) EXCEPT !.events = <<>>])
           ELSE /\ talk' = [talk EXCEPT ![k] = NoTalk]
                /\ bench' = Cancelled(k)
        /\ UNCHANGED mic

(* Nothing came within STT_EVENT_POLL_MS.                                  *)
RecvTimesOut(k) ==
    /\ talk[k].at = "recv" /\ talk[k].id # 0
    /\ talk' = [talk EXCEPT ![k].at = "top"]
    /\ UNCHANGED <<bench, mic, caption>>

-----------------------------------------------------------------------------
(* ensure_worker: a dead worker is started again.                          *)
Ensured ==
    LET n == Len(bench.workers)
    IN  IF n > 0 /\ bench.workers[n].up THEN bench.workers
        ELSE Append(bench.workers, NewWorker)

Dictating(k) == talk[k].id # 0 /\ talk[k].at # "refused"
Others(k) == {talk[j].id : j \in {i \in Socket \ {k} : Dictating(i)}}

(* stt.start: start_session.  Only this socket's own session is in the way.*)
(* The start fails if the worker does not come up or its queue is full; the*)
(* half-made session is then dropped under the provider's lock.            *)
StartDictation(k, d) ==
    /\ talk[k].at = "recv" /\ talk[k].id = 0 /\ caption[d].over = "new"
    /\ \A e \in Dictation : e < d => caption[e].over # "new"
    /\ \A j \in Socket : talk[j].at # "refused"
    /\ LET w == Len(Ensured)
           b == Ensured[w]
       IN  \/ /\ CanWrite(b)
              /\ bench' = [bench EXCEPT !.workers =
                    [Ensured EXCEPT ![w].frames =
                        Append(@, Item("start", d, 0))]]
              /\ talk' = [talk EXCEPT ![k] =
                    [NoTalk EXCEPT !.id = d, !.worker = w, !.readyBy = "set",
                                   !.at = "top"]]
              /\ caption' = [e \in Dictation |->
                    IF e = d THEN [caption[e] EXCEPT !.over = "on",
                                                     !.alone = Others(k) = {}]
                    ELSE IF e \in Others(k)
                    THEN [caption[e] EXCEPT !.alone = FALSE] ELSE caption[e]]
           \/ /\ ~CanWrite(b)
              /\ talk' = [talk EXCEPT ![k] =
                    [NoTalk EXCEPT !.id = d, !.worker = w, !.at = "refused"]]
              /\ caption' = [e \in Dictation |->
                    IF e = d THEN [caption[e] EXCEPT !.over = "refused"]
                    ELSE IF e \in Others(k)
                    THEN [caption[e] EXCEPT !.alone = FALSE] ELSE caption[e]]
              /\ UNCHANGED bench
           \/ /\ Ensured # bench.workers
              /\ talk' = [talk EXCEPT ![k] = NoTalk]
              /\ caption' = [caption EXCEPT ![d].over = "refused"]
              /\ UNCHANGED bench
    /\ UNCHANGED mic

(* To drop a session is to cancel it.                                      *)
DropRefused(k) ==
    /\ talk[k].at = "refused"
    /\ bench' = Cancelled(k)
    /\ talk' = [talk EXCEPT ![k] = NoTalk]
    /\ UNCHANGED <<mic, caption>>

(* Mutant: a refused frame takes a number.                                 *)
NextAfterAny(k, ok) == talk[k].next + 1
NextAfter(k, ok) == IF ok THEN talk[k].next + 1 ELSE talk[k].next

(* A binary frame: push_audio; what cannot be taken is reported.           *)
PushAudio(k) ==
    LET t == talk[k]
        ok == ~t.finalizing /\ CanWrite(Worker(k))
    IN  /\ t.at = "recv" /\ t.id # 0 /\ bench.effort < MaxSpeech
        /\ bench' = [Becomes(k, Written(Worker(k), ok,
                                        Item("audio", t.id, t.next)))
                       EXCEPT !.effort = @ + 1]
        /\ talk' = [talk EXCEPT ![k].at = "top", ![k].next = NextAfter(k, ok)]
        /\ mic' = [mic EXCEPT ![t.id].sent = @ + 1,
                              ![t.id].refused = IF ok THEN @ ELSE @ + 1]
        /\ UNCHANGED caption

(* stt.stop: finalize.  The deadline is set even if that failed.           *)
StopDictation(k) ==
    LET t == talk[k]
        ok == ~t.finalizing /\ CanWrite(Worker(k))
    IN  /\ t.at = "recv" /\ t.id # 0 /\ bench.effort < MaxSpeech
        /\ bench' = [Becomes(k, Written(Worker(k), ok,
                                        Item("finalize", t.id, 0)))
                       EXCEPT !.effort = @ + 1]
        /\ talk' = [talk EXCEPT ![k].finalizing = @ \/ ok, ![k].endBy = "set",
                                ![k].at = "top"]
        /\ UNCHANGED <<mic, caption>>

(* stt.cancel, and every way the socket ends; the next socket's loop is    *)
(* as a new one.                                                           *)
CancelDictation(k) ==
    /\ talk[k].at = "recv" /\ talk[k].id # 0
    /\ bench' = Cancelled(k) /\ talk' = [talk EXCEPT ![k] = NoTalk]
    /\ caption' = [caption EXCEPT ![talk[k].id].over = "cancelled"]
    /\ UNCHANGED mic

(* STT_READY_TIMEOUT_MS and finalization_timeout_ms.                       *)
SpeechClock(k) ==
    /\ \/ talk[k].readyBy = "set" /\ talk' = [talk EXCEPT ![k].readyBy = "due"]
       \/ talk[k].endBy = "set" /\ talk' = [talk EXCEPT ![k].endBy = "due"]
    /\ UNCHANGED <<bench, mic, caption>>

BridgeLoops(k) == BridgeDrains(k) \/ RecvTimesOut(k)

SpeechNext ==
    \/ \E w \in 1..Len(bench.workers) :
          WorkerTakes(w) \/ WorkerDies(w) \/ WriterEnds(w)
    \/ \E k \in Socket :
          \/ BridgeLoops(k) \/ SpeechClock(k) \/ DropRefused(k)
          \/ PushAudio(k) \/ StopDictation(k) \/ CancelDictation(k)
          \/ \E d \in Dictation : StartDictation(k, d)

(* The loop runs while the socket is open, and time passes.                *)
SpeechFairness ==
    \A k \in Socket : /\ WF_speechVars(BridgeLoops(k))
                      /\ WF_speechVars(SpeechClock(k))
SpeechSpec == SpeechInit /\ [][SpeechNext]_speechVars /\ SpeechFairness

SpeechTypeOK ==
    /\ \A k \in Socket :
          /\ talk[k].id \in 0..MaxDictations
          /\ talk[k].at \in {"top", "recv", "refused"}
          /\ {talk[k].readyBy, talk[k].endBy} \subseteq {"none", "set", "due"}
          /\ talk[k].id # 0 => talk[k].worker \in 1..Len(bench.workers)
    /\ \A w \in 1..Len(bench.workers) :
          /\ Len(bench.workers[w].frames) <= FrameLimit
          /\ Len(bench.workers[w].events) <= EventLimit
          /\ bench.workers[w].hears \in 0..MaxDictations

-----------------------------------------------------------------------------
(* What is told of a dictation is true, if no other socket dictated during *)
(* it: after its own stt.ready only its own words and its own completion   *)
(* are told of it, and before that only what an earlier dictation left     *)
(* that was given up or shared the worker; the worker hears its frames     *)
(* without a gap; and after stt.closed on its own completion each of them  *)
(* was heard or reported as refused, and no stt.error was sent for a       *)
(* worker that exits (docs: "Expected completion must not emit stt.error").*)
(* With two sockets the worker still hears the frames of each in order and *)
(* none of them twice.                                                     *)
GivenUp == {"cancelled", "timed_out", "not_ready", "refused"}

SpeechFaithful ==
    \A d \in Dictation :
        LET c == caption[d]
            m == mic[d]
        IN  /\ \A i, j \in 1..Len(m.heard) : i < j => m.heard[i] < m.heard[j]
            /\ c.alone =>
                  /\ \A t \in c.told : t.of = d
                  /\ \A t \in c.early :
                        /\ t.of < d
                        /\ \/ ~caption[t.of].alone
                           \/ caption[t.of].over \in GivenUp
                  /\ m.heard = [i \in 1..Len(m.heard) |-> i - 1]
                  /\ c.over = "closed" /\ Item("completed", d, 0) \in c.told
                        => m.sent = Len(m.heard) + m.refused /\ ~c.exit

(* What is told is true; a dictation that is stopped ends, whatever the    *)
(* worker and other sockets do, and one that was started is ready or over  *)
(* in time.                                                                *)
Awaiting(k) == talk[k].endBy # "none" \/ talk[k].readyBy # "none"

SpeechServes ==
    [](/\ SpeechFaithful
       /\ \A k \in Socket : Awaiting(k) => <>~Awaiting(k))

(* Does not hold: sessions are isolated by their id.  Events carry none,   *)
(* so a dictation is told what a cancelled one left, and of two sockets    *)
(* the one that asks first is told the other's words and completion.       *)
SpeechIsolated ==
    \A d \in Dictation :
        \A t \in caption[d].early \cup caption[d].told : t.of = d
=============================================================================
