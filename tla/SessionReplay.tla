---------------------------- MODULE SessionReplay ----------------------------
(***************************************************************************)
(* How a chat reaches the browser: the agent's stream, the transcript that *)
(* is kept of it, the websocket bridge and the browser's copy.  Every row  *)
(* has an absolute cursor; the browser names the next one it wants when it *)
(* connects and gets the rows from there, or, when the transcript no       *)
(* longer has that cursor, a snapshot with the newest rows.  The agent     *)
(* runs behind a shim and outlives the host; a host that adopts it takes   *)
(* the transcript back to where the turn began and reads the turn again.   *)
(*                                                                         *)
(* A row is a user message, the acceptance of a prompt or a message of the *)
(* agent, whose text is the range of chunks it is made of.  Rows of other  *)
(* kinds are handled like the agent's and left out.                        *)
(***************************************************************************)
EXTENDS Integers, Sequences, SequencesExt

CONSTANTS LogLimit,     \* MAX_LOG_EVENTS
          TailLimit,    \* TAIL_EVENT_LIMIT
          MaxPrompts,   \* bound: prompts the user sends
          MaxChunks,    \* bound: chunks the agent streams
          MaxOpens,     \* bound: websocket connections
          MaxCrashes,   \* bound: crashes of the host
          MaxRespawns,  \* bound: replacements of the agent
          MaxEffort     \* bound: all of these together

ASSUME ReplayAssumption ==
    /\ {MaxPrompts, MaxChunks, MaxOpens, MaxCrashes, MaxRespawns, MaxEffort}
          \subseteq Nat
    /\ {LogLimit, TailLimit} \subseteq Nat \ {0}

VARIABLES log,      \* TranscriptLog and the stored rows: ev, dropped
          known,    \* prompts the ledger has, in the order they came
          turn,     \* the dispatch marks of the active prompt
          waiting,  \* prompts queued behind it
          stream,   \* the shim's log: does chunk i start a message?
          host,     \* the process: up, the slot live, stream position, ids
          sock,     \* the bridge of the browser's connection
          wire, up, \* frames on their way to the browser and from it
          br,       \* the browser: transport, cursor and conversation
          outbox,   \* prompts the browser holds until they are accepted
          page,     \* the request for earlier history
          sent,     \* prompts the user sent
          epoch,    \* adoptions so far
          spare      \* what is left of the bounds

replayVars == <<log, known, turn, waiting, stream, host, sock, wire, up, br,
                outbox, page, sent, epoch, spare>>

NoTurn == [cursor |-> -1, pos |-> -1]
NoLane == [id |-> 0, start |-> 0]
NoSock == [at |-> "none", cursor |-> 0, gen |-> 0, resume |-> -1]
NoPage == [at |-> "none", from |-> 0, floor |-> 0, rows |-> {}, start |-> 0,
           epoch |-> 0]
Blank == [at |-> "closed", ready |-> FALSE, cursor |-> -1, view |-> {},
          from |-> 0, floor |-> 0, inline |-> {}, bound |-> 0, epoch |-> 0]
Booted == [up |-> TRUE, live |-> FALSE, read |-> 0, gen |-> 0, next |-> 0,
           lane |-> NoLane]

User(p) == [kind |-> "user", id |-> p, text |-> <<p>>]
Accepted(p) == [kind |-> "accepted", id |-> p, text |-> <<p>>]
Marker(row) == [row EXCEPT !.text = <<>>]
IsMarker(row) == row.text = <<>>

-----------------------------------------------------------------------------
(* The transcript. *)

NextCursor(l) == l.dropped + Len(l.ev)
RowAt(l, c) == l.ev[c - l.dropped + 1]
Cursors(l) == l.dropped .. NextCursor(l) - 1

(* The rows from a cursor on, without the superseded ones, each with its   *)
(* cursor: read_from_enveloped.                                            *)
ReadFrom(l, c) ==
    LET rows == [i \in 1..Len(l.ev) |-> [cursor |-> l.dropped + i - 1,
                                         row |-> l.ev[i]]]
    IN  SelectSeq(rows, LAMBDA e : e.cursor >= c /\ ~IsMarker(e.row))

(* Mutant: the newest rows are added and none is ever given up.            *)
TrimNothing(l) == l

(* trim_to_limit: the oldest rows go.                                      *)
Trim(l) == LET excess == Len(l.ev) - LogLimit
           IN  IF excess <= 0 THEN l
               ELSE [ev      |-> SubSeq(l.ev, excess + 1, Len(l.ev)),
                     dropped |-> l.dropped + excess]

(* persist_log_batch: a message of the agent replaces the earlier row that *)
(* had a part of it, which becomes a marker; then the batch is added.      *)
Appended(l, batch) ==
    LET again(row) == row.kind = "agent"
                      /\ \E i \in 1..Len(batch) : batch[i].kind = "agent"
                                                  /\ batch[i].id = row.id
        old == [i \in 1..Len(l.ev) |-> IF again(l.ev[i]) THEN Marker(l.ev[i])
                                       ELSE l.ev[i]]
    IN  Trim([l EXCEPT !.ev = old \o batch])

(* StreamNormalizer on one chunk: it goes on with the open message or      *)
(* starts one with a fresh id; rows of one message in a batch collapse.    *)
Chunk(st, i) ==
    LET fresh == stream[i] \/ st.lane = NoLane
        lane == IF fresh THEN [id |-> st.next + 1, start |-> i] ELSE st.lane
        row == [kind |-> "agent", id |-> lane.id, text |-> <<lane.start, i>>]
        n == Len(st.batch)
    IN  [next  |-> IF fresh THEN st.next + 1 ELSE st.next,
         lane  |-> lane,
         batch |-> IF n > 0 /\ st.batch[n].id = lane.id
                   THEN [st.batch EXCEPT ![n] = row]
                   ELSE Append(st.batch, row)]

(* pump: what the agent has streamed since goes into the transcript.       *)
Drained ==
    LET upTo[i \in host.read..Len(stream)] ==
            IF i = host.read
            THEN [next |-> host.next, lane |-> host.lane, batch |-> <<>>]
            ELSE Chunk(upTo[i - 1], i)
    IN  upTo[Len(stream)]

Pumped == Appended(log, Drained.batch)

AfterPump == [host EXCEPT !.read = Len(stream), !.next = Drained.next,
                          !.lane = Drained.lane]

(* StreamNormalizer::seeded_from.                                          *)
Seeded(l) ==
    LET ids == {0} \cup {l.ev[i].id : i \in {j \in 1..Len(l.ev) :
                                               l.ev[j].kind = "agent"}}
    IN  CHOOSE m \in ids : \A k \in ids : k <= m

-----------------------------------------------------------------------------
(* Replay plans and snapshots. *)

(* plan_replay.                                                            *)
MustReset(l, client) ==
    client = -1 \/ client < l.dropped \/ client > NextCursor(l)

(* user_message_boundary: the last user message among the bound rows that  *)
(* come before a place, if there is one.                                   *)
Boundary(rows, before, bound) ==
    LET users == {i \in (before - bound)..(before - 1) :
                     i >= 1 /\ rows[i].row.kind = "user"}
    IN  IF users = {} THEN before
        ELSE CHOOSE i \in users : \A j \in users : j <= i

(* attach_inline_tail: the newest rows, from a user message on.            *)
Snapshot(l, cursor, pending) ==
    LET rows == ReadFrom(l, l.dropped)
        first == IF Len(rows) > TailLimit THEN Len(rows) - TailLimit + 1 ELSE 1
        start == Boundary(rows, first, TailLimit)
        tail == SubSeq(rows, start, Len(rows))
    IN  [frame |-> "snapshot", inline |-> TRUE, pending |-> pending,
         cursor |-> cursor, rows |-> tail,
         from |-> IF tail = <<>> THEN NextCursor(l) ELSE tail[1].cursor,
         floor |-> l.dropped, epoch |-> epoch]

Plain(l, pending) ==
    [frame |-> "snapshot", inline |-> FALSE, pending |-> pending,
     cursor |-> NextCursor(l), rows |-> <<>>, from |-> 0, floor |-> 0,
     epoch |-> epoch]

RowFrames(rows) ==
    [i \in 1..Len(rows) |-> [frame |-> "row", cursor |-> rows[i].cursor,
                             row |-> rows[i].row]]

(* build_attach and what the bridge sends of it: a snapshot with the rows  *)
(* in it, or a plain one and the rows after it.                            *)
AttachFrames(l, client) ==
    IF MustReset(l, client) THEN <<Snapshot(l, NextCursor(l), FALSE)>>
    ELSE <<Plain(l, FALSE)>> \o RowFrames(ReadFrom(l, client))

(* read_before: a page of rows that ends before a cursor.                  *)
PageBefore(l, before) ==
    LET end == IF before > NextCursor(l) THEN NextCursor(l)
               ELSE IF before < l.dropped THEN l.dropped ELSE before
        rows == ReadFrom(l, l.dropped)
        low == IF end - TailLimit > l.dropped THEN end - TailLimit
               ELSE l.dropped
        first == Len(SelectSeq(rows, LAMBDA e : e.cursor < low)) + 1
        at == Boundary(rows, first, TailLimit)
        start == IF at = first THEN low ELSE rows[at].cursor
        hit == SelectSeq(rows, LAMBDA e : start <= e.cursor /\ e.cursor < end)
    IN  [rows |-> ToSet(hit), start |-> IF hit = <<>> THEN start
                                        ELSE hit[1].cursor]

-----------------------------------------------------------------------------
ReplayInit ==
    /\ log = [ev |-> <<>>, dropped |-> 0]
    /\ known = <<>> /\ turn = NoTurn /\ waiting = <<>>
    /\ stream = <<>>
    /\ host = Booted
    /\ sock = NoSock /\ wire = <<>> /\ up = <<>>
    /\ br = Blank /\ outbox = <<>> /\ page = NoPage
    /\ sent = 0 /\ epoch = 0
    /\ spare = [chunks |-> MaxChunks, opens |-> MaxOpens,
               crashes |-> MaxCrashes, respawns |-> MaxRespawns,
               prompts |-> MaxPrompts, all |-> MaxEffort]

Spends(b) ==
    /\ spare[b] > 0 /\ spare.all > 0
    /\ spare' = [spare EXCEPT ![b] = @ - 1, !.all = @ - 1]

(* The agent streams a chunk of its answer, whether or not a host reads.   *)
Emit ==
    /\ turn # NoTurn
    /\ Spends("chunks")
    /\ \E fresh \in BOOLEAN : stream' = Append(stream, fresh)
    /\ UNCHANGED <<log, known, turn, waiting, host, sock, wire, up, br, outbox,
                   page, sent, epoch>>

(* The actor's tick.                                                       *)
Tick ==
    /\ host.live /\ host.read < Len(stream)
    /\ log' = Pumped /\ host' = AfterPump
    /\ UNCHANGED <<known, turn, waiting, stream, sock, wire, up, br, outbox,
                   page, sent, epoch, spare>>

(* The turn ends once the stream is read; the next prompt is dispatched    *)
(* with the marks of this moment.                                          *)
TurnEnd ==
    /\ host.live /\ turn # NoTurn /\ host.read = Len(stream)
    /\ host' = [host EXCEPT !.lane = NoLane]
    /\ IF waiting = <<>> THEN turn' = NoTurn /\ UNCHANGED waiting
       ELSE /\ turn' = [cursor |-> NextCursor(log), pos |-> Len(stream)]
            /\ waiting' = Tail(waiting)
    /\ UNCHANGED <<log, known, stream, sock, wire, up, br, outbox, page, sent,
                   epoch, spare>>

(* submit_prompt_with_id: a prompt the ledger has is accepted once more,   *)
(* one that comes during a turn is queued, any other starts a turn.        *)
Submit ==
    /\ sock.at = "attached" /\ up # <<>>
    /\ LET p == Head(up) IN
       IF p \in ToSet(known)
       THEN log' = Appended(log, <<Accepted(p)>>)
            /\ UNCHANGED <<known, turn, waiting, host>>
       ELSE /\ log' = Appended(log, <<User(p), Accepted(p)>>)
            /\ known' = Append(known, p)
            /\ host' = [host EXCEPT !.lane = NoLane]
            /\ IF turn = NoTurn
               THEN /\ turn' = [cursor |-> NextCursor(log) + 1, pos |-> Len(stream)]
                    /\ UNCHANGED waiting
               ELSE waiting' = Append(waiting, p) /\ UNCHANGED turn
    /\ up' = Tail(up)
    /\ UNCHANGED <<stream, sock, wire, br, outbox, page, sent, epoch, spare>>

(* A new agent takes the place of the old one: what is left of its stream  *)
(* is gone and the generation moves.  The connection that asked for it     *)
(* with a clear or a setting is told the new generation (own).             *)
Respawn(own) ==
    /\ host.live
    /\ own => sock.at = "attached"
    /\ Spends("respawns")
    /\ host' = [host EXCEPT !.gen = @ + 1, !.read = Len(stream),
                            !.lane = NoLane]
    /\ sock' = IF own THEN [sock EXCEPT !.gen = host.gen + 1] ELSE sock
    /\ turn' = NoTurn
    /\ UNCHANGED <<log, known, waiting, stream, wire, up, br, outbox, page,
                   sent, epoch>>

-----------------------------------------------------------------------------
(* Crash, restart and adoption. *)

LosesConnection ==
    /\ sock' = NoSock /\ wire' = <<>> /\ up' = <<>>
    /\ br' = [br EXCEPT !.at = "closed", !.ready = FALSE, !.inline = {},
                        !.bound = 0]

Crash ==
    /\ host.up
    /\ Spends("crashes")
    /\ host' = [Booted EXCEPT !.up = FALSE]
    /\ LosesConnection
    /\ UNCHANGED <<log, known, turn, waiting, stream, outbox, page, sent, epoch>>

HostBoots ==
    /\ ~host.up
    /\ host' = Booted
    /\ UNCHANGED <<log, known, turn, waiting, stream, sock, wire, up, br,
                   outbox, page, sent, epoch, spare>>

OutlivesRollback(row) == row.kind \in {"user", "accepted"}

(* adopt: the rows after the mark are taken back except the ones that are  *)
(* not the agent's, and the stream is read again from the mark.            *)
RolledBack ==
    LET keep == turn.cursor - log.dropped
        n == IF keep < 0 THEN 0 ELSE IF keep > Len(log.ev) THEN Len(log.ev)
             ELSE keep
        after == SelectSeq(SubSeq(log.ev, n + 1, Len(log.ev)), OutlivesRollback)
    IN  [log EXCEPT !.ev = SubSeq(log.ev, 1, n) \o after]

(* The slot is acquired by a connection or at startup.                     *)
Adopt ==
    /\ host.up /\ ~host.live /\ turn # NoTurn
    /\ log' = RolledBack
    /\ host' = [Booted EXCEPT !.live = TRUE, !.read = turn.pos,
                              !.next = Seeded(RolledBack)]
    /\ epoch' = epoch + 1
    /\ UNCHANGED <<known, turn, waiting, stream, sock, wire, up, br, outbox,
                   page, sent, spare>>

(* No shim answers, or it cannot be adopted: its turn is interrupted and a *)
(* new agent is started.                                                   *)
Acquire ==
    /\ host.up /\ ~host.live
    /\ host' = [Booted EXCEPT !.live = TRUE, !.read = Len(stream),
                              !.next = Seeded(log)]
    /\ turn' = NoTurn
    /\ UNCHANGED <<log, known, waiting, stream, sock, wire, up, br, outbox,
                   page, sent, epoch, spare>>

-----------------------------------------------------------------------------
(* The bridge: bridge_task_session_socket. *)

(* The browser connects, with the cursor it wants next.                    *)
Open ==
    /\ br.at = "closed" /\ host.up
    /\ Spends("opens")
    /\ br' = [br EXCEPT !.at = "open"]
    /\ sock' = [at |-> "acquire", cursor |-> 0, gen |-> 0, resume |-> br.cursor]
    /\ UNCHANGED <<log, known, turn, waiting, stream, host, wire, up, outbox,
                   page, sent, epoch>>

(* Mutant: the snapshot's cursor counts whether or not rows came with it.  *)
ResumeFromEarly(frame, client) == frame.cursor

(* resume_cursor_after_early.                                              *)
ResumeAfterEarly(frame, client) == IF frame.inline THEN frame.cursor ELSE client

(* The slot takes long: a snapshot from the stored transcript.             *)
Early ==
    LET frame == IF MustReset(log, sock.resume)
                 THEN Snapshot(log, NextCursor(log), TRUE) ELSE Plain(log, TRUE)
    IN  /\ sock.at = "acquire"
        /\ sock' = [sock EXCEPT !.at = "early",
                                !.resume = ResumeAfterEarly(frame, @)]
        /\ wire' = Append(wire, frame)
        /\ UNCHANGED <<log, known, turn, waiting, stream, host, up, br, outbox,
                       page, sent, epoch, spare>>

Attach ==
    /\ sock.at \in {"acquire", "early"} /\ host.live
    /\ log' = Pumped /\ host' = AfterPump
    /\ sock' = [sock EXCEPT !.at = "attached", !.cursor = NextCursor(Pumped),
                            !.gen = host.gen]
    /\ wire' = wire \o AttachFrames(Pumped, sock.resume)
    /\ UNCHANGED <<known, turn, waiting, stream, up, br, outbox, page, sent,
                   epoch, spare>>

(* flush_outbound and collect_outbound: a generation that moved sends a    *)
(* snapshot, which names the cursor from before the pump.                  *)
Flush ==
    /\ sock.at = "attached"
    /\ sock.gen # host.gen \/ sock.cursor < NextCursor(Pumped)
    /\ log' = Pumped /\ host' = AfterPump
    /\ sock' = [sock EXCEPT !.cursor = NextCursor(Pumped), !.gen = host.gen]
    /\ wire' = wire \o (IF sock.gen # host.gen
                        THEN <<Snapshot(Pumped, NextCursor(log), FALSE)>>
                        ELSE RowFrames(ReadFrom(Pumped, sock.cursor)))
    /\ UNCHANGED <<known, turn, waiting, stream, up, br, outbox, page, sent,
                   epoch, spare>>

(* The connection is lost, with what is under way on it.                   *)
Drop ==
    /\ br.at = "open"
    /\ LosesConnection
    /\ UNCHANGED <<log, known, turn, waiting, stream, host, outbox, page, sent,
                   epoch, spare>>

-----------------------------------------------------------------------------
(* The browser: webSessionTransport and the conversation it feeds. *)

Shown(row) == row.kind \in {"user", "agent"}

(* upsertMessage, by the id of the row.                                    *)
Upsert(view, row) ==
    IF ~Shown(row) THEN view
    ELSE {r \in view : r.kind # row.kind \/ r.id # row.id} \cup {row}

(* acknowledgePrompt.                                                      *)
Acknowledged(box, rows) ==
    SelectSeq(box, LAMBDA p : Accepted(p) \notin rows)

ReceiveSnapshot(f) ==
    LET rows == {f.rows[i].row : i \in 1..Len(f.rows)}
        seen == [br EXCEPT !.view = {r \in rows : Shown(r)},
                           !.cursor = f.cursor, !.from = f.from,
                           !.floor = f.floor, !.bound = f.from,
                           !.inline = {f.rows[i].cursor : i \in 1..Len(f.rows)},
                           !.epoch = f.epoch]
        now == IF f.inline THEN seen ELSE br
    IN  /\ br' = [now EXCEPT !.ready = @ \/ ~f.pending]
        /\ outbox' = IF f.inline THEN Acknowledged(outbox, rows) ELSE outbox
        /\ up' = IF ~f.pending /\ ~br.ready THEN up \o outbox' ELSE up

ReceiveRow(f) ==
    IF f.cursor \in br.inline
    THEN br' = [br EXCEPT !.inline = @ \ {f.cursor}] /\ UNCHANGED outbox
    ELSE /\ outbox' = Acknowledged(outbox, {f.row})
         /\ br' = IF f.cursor < br.bound THEN br
                  ELSE [br EXCEPT !.cursor = f.cursor + 1,
                                  !.view = Upsert(@, f.row)]

Receive ==
    /\ wire # <<>> /\ br.at = "open"
    /\ LET f == Head(wire) IN
       \/ f.frame = "snapshot" /\ ReceiveSnapshot(f)
       \/ f.frame = "row" /\ ReceiveRow(f) /\ UNCHANGED up
    /\ wire' = Tail(wire)
    /\ UNCHANGED <<log, known, turn, waiting, stream, host, sock, page, sent,
                   epoch, spare>>

Held(p) == Append(outbox, p)

(* sendPrompt.                                                             *)
SendPrompt ==
    /\ Spends("prompts")
    /\ sent' = sent + 1
    /\ outbox' = Held(sent + 1)
    /\ up' = IF br.ready THEN Append(up, sent + 1) ELSE up
    /\ UNCHANGED <<log, known, turn, waiting, stream, host, sock, wire, br,
                   page, epoch>>

(* The page is loaded anew; the outbox is in the session storage.          *)
LoadPage ==
    /\ br.at = "closed" /\ br.cursor # -1
    /\ br' = Blank /\ page' = NoPage
    /\ UNCHANGED <<log, known, turn, waiting, stream, host, sock, wire, up,
                   outbox, sent, epoch, spare>>

(* loadEarlier asks for the rows before the first one it has; the answer   *)
(* is read from the stored transcript.                                     *)
AskEarlier ==
    /\ page.at = "none" /\ br.from > br.floor
    /\ page' = [NoPage EXCEPT !.at = "asked", !.from = br.from,
                              !.floor = br.floor, !.epoch = br.epoch]
    /\ UNCHANGED <<log, known, turn, waiting, stream, host, sock, wire, up, br,
                   outbox, sent, epoch, spare>>

ServeEarlier ==
    /\ page.at = "asked" /\ host.up
    /\ LET got == PageBefore(log, page.from)
       IN  page' = [page EXCEPT !.at = "served", !.rows = got.rows,
                                !.start = got.start]
    /\ UNCHANGED <<log, known, turn, waiting, stream, host, sock, wire, up, br,
                   outbox, sent, epoch, spare>>

(* The answer is used only if the history still begins where it did.       *)
PageFits == page.from = br.from /\ page.floor = br.floor

ShowEarlier ==
    /\ page.at = "served"
    /\ page' = NoPage
    /\ LET rows == {e.row : e \in page.rows}
           new == {r \in rows : Shown(r) /\ \A v \in br.view :
                                   v.kind # r.kind \/ v.id # r.id}
       IN  br' = IF PageFits /\ page.start < br.from
                 THEN [br EXCEPT !.view = @ \cup new, !.from = page.start,
                                 !.epoch = page.epoch]
                 ELSE br
    /\ UNCHANGED <<log, known, turn, waiting, stream, host, sock, wire, up,
                   outbox, sent, epoch, spare>>

ReplayNext ==
    \/ Emit \/ Tick \/ TurnEnd \/ Submit \/ (\E own \in BOOLEAN : Respawn(own))
    \/ Crash \/ HostBoots \/ Adopt \/ Acquire
    \/ Open \/ Early \/ Attach \/ Flush \/ Drop
    \/ Receive \/ SendPrompt \/ LoadPage
    \/ AskEarlier \/ ServeEarlier \/ ShowEarlier

ReplaySpec == ReplayInit /\ [][ReplayNext]_replayVars

-----------------------------------------------------------------------------
(* The variables have their types, and neither the transcript nor what a   *)
(* snapshot carries outgrows its limit.                                    *)
ReplayTypeOK ==
    /\ Len(log.ev) <= LogLimit /\ log.dropped \in Nat
    /\ turn.cursor \in -1..NextCursor(log) + 1 /\ turn.pos \in -1..Len(stream)
    /\ host.read \in 0..Len(stream) /\ host.gen \in 0..MaxRespawns
    /\ sock.at \in {"none", "acquire", "early", "attached"}
    /\ sock.at = "attached" => host.live
    /\ br.cursor \in Int /\ br.inline \subseteq Nat
    /\ \A i \in 1..Len(wire) :
          wire[i].frame = "snapshot" => Len(wire[i].rows) <= 2 * TailLimit
    /\ sent \in 0..MaxPrompts

(* Everything the host has for the browser has reached it.                 *)
CaughtUp == /\ sock.at = "attached" /\ wire = <<>> /\ br.at = "open"
            /\ sock.cursor = NextCursor(log) /\ sock.gen = host.gen

ShowsAll == \A c \in Cursors(log) :
               LET row == RowAt(log, c)
               IN  c >= br.from /\ Shown(row) /\ ~IsMarker(row)
                       => row \in br.view

(* A browser that is caught up shows every row that the transcript still   *)
(* has from the first one it shows on, in its latest version, over any     *)
(* sequence of lost connections, early snapshots, new agents, trimmed rows *)
(* and pages of history.  (It need not after an adoption: ReconnectSeesAll.)*)
ViewFollowsLog == CaughtUp /\ br.epoch = epoch => ShowsAll

(* A prompt the user sent is never lost: the browser holds it until the    *)
(* host has it in its ledger, and once there its message stays in the      *)
(* transcript, also when a new host takes the transcript back to where the *)
(* running turn began.                                                     *)
PromptKept ==
    /\ \A p \in 1..sent : p \in ToSet(outbox) \/ p \in ToSet(known)
    /\ log.dropped = 0 => \A p \in ToSet(known) :
                             \E i \in 1..Len(log.ev) : log.ev[i] = User(p)

(* architecture/web-cockpit.md on reconnecting: every row has an absolute  *)
(* cursor that only grows, and the browser gets only the newer ones.  So a *)
(* browser that is caught up shows the transcript, adopted or not.         *)
ReconnectSeesAll == CaughtUp => ShowsAll

(* The browser shows the transcript and every prompt the operator sent     *)
(* (plan_replay, rollback_to_cursor).                                      *)
ChatIsShown == ViewFollowsLog /\ PromptKept
=============================================================================
