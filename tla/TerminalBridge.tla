--------------------------- MODULE TerminalBridge ---------------------------
(***************************************************************************)
(* The browser's terminals.  A websocket is bridged to a tmux session of   *)
(* its own, in the group of the task's session, so that every browser has  *)
(* its own size: named after the browser, it is kept for the next          *)
(* connection; with a random name it ends with its socket.  Each new       *)
(* bridge first kills the sessions that nobody is attached to.             *)
(*                                                                         *)
(* Session 0 is the one of a named browser, session b the random one of    *)
(* bridge b.  The second part of the module is the way of a terminal's     *)
(* output through one bridge: bytes are 1 (plain) to 4, of which 2, 3 and  *)
(* 4 make the control sequences a browser must not see.                    *)
(***************************************************************************)
EXTENDS Integers, Sequences, FiniteSets, SequencesExt

CONSTANTS MaxBridges,     \* bound: sockets opened
          MaxBytes,       \* bound: bytes a terminal writes
          ChanLimit,      \* chunks the reader may be ahead (code: 32)
          BatchLimit      \* bytes sent without delay (code: 16384)

ASSUME BridgeAssumption == {MaxBridges, MaxBytes, ChanLimit, BatchLimit} \subseteq Nat

VARIABLES tmux,    \* the task's session, its worktree, the browsers' sessions
          bridge,      \* the bridges
          out      \* the output of one bridge

bridgeVars == <<tmux, bridge>>

Bridges == 1..MaxBridges
Attachable == {"resize", "seed", "loop"}
BridgeOver == {"idle", "done", "failed"}

BridgeInit ==
    /\ tmux = [base |-> TRUE, tree |-> TRUE, eph |-> {}]
    /\ bridge = [b \in Bridges |->
               [st |-> "idle", tok |-> 0, kills |-> {}, on |-> FALSE,
                cause |-> "none"]]

To(b, st) == bridge' = [bridge EXCEPT ![b].st = st]

(* kill-session: the clients attached to the sessions are detached.        *)
KillSessions(toks, bs, why) ==
    /\ tmux' = [tmux EXCEPT !.eph = @ \ toks]
    /\ bridge' = [b \in Bridges |->
                IF bs[b].on /\ bs[b].tok \in toks
                THEN [bs[b] EXCEPT !.on = FALSE, !.cause = why] ELSE bs[b]]

Detached(t) == ~\E b \in Bridges : bridge[b].on /\ bridge[b].tok = t

-----------------------------------------------------------------------------
OpenBridge(b) ==
    /\ bridge[b].st = "idle" /\ \A c \in 1..(b - 1) : bridge[c].st # "idle"
    /\ \E tok \in {0, b} :
          bridge' = [bridge EXCEPT ![b].st = "list", ![b].tok = tok]
    /\ UNCHANGED tmux

(* reap_detached_ephemeral_terminal_sessions_except: one listing, then one *)
(* kill after another of what was detached in the listing.                 *)
ListSessions(b) ==
    /\ bridge[b].st = "list"
    /\ bridge' = [bridge EXCEPT ![b].st = "reap",
                        ![b].kills = {t \in tmux.eph :
                                        Detached(t) /\ t # bridge[b].tok}]
    /\ UNCHANGED tmux

ReapOne(b) ==
    /\ bridge[b].st = "reap"
    /\ \E t \in bridge[b].kills :
          KillSessions({t}, [bridge EXCEPT ![b].kills = @ \ {t}], "reaped")

(* A missing task session is made again while the worktree is there.       *)
EnsureBase(b) ==
    /\ bridge[b].st = "reap" /\ bridge[b].kills = {}
    /\ To(b, "create")
    /\ tmux' = [tmux EXCEPT !.base = @ \/ tmux.tree]

(* new-session: a session of that name is as good as a new one.            *)
CreateSession(b) ==
    /\ bridge[b].st = "create"
    /\ IF bridge[b].tok \in tmux.eph \/ tmux.base
       THEN /\ To(b, "options")
            /\ tmux' = [tmux EXCEPT !.eph = @ \cup {bridge[b].tok}]
       ELSE To(b, "failed") /\ UNCHANGED tmux

(* set-option and the probe of the window fail when the session is gone.   *)
SetOptions(b) ==
    /\ bridge[b].st \in {"options", "probe"}
    /\ To(b, IF bridge[b].tok \notin tmux.eph THEN "failed"
             ELSE IF bridge[b].st = "options" THEN "probe" ELSE "attach")
    /\ UNCHANGED tmux

(* The PTY is opened and "tmux attach" started in it.  Without its session *)
(* the client ends at once.                                                *)
SpawnAttach(b) ==
    /\ bridge[b].st = "attach"
    /\ \/ To(b, "failed")
       \/ bridge' = [bridge EXCEPT ![b].st = "resize",
                           ![b].on = bridge[b].tok \in tmux.eph,
                           ![b].cause = IF bridge[b].tok \in tmux.eph THEN @
                                        ELSE "reaped"]
    /\ UNCHANGED tmux

(* The commands of the plan's teardown.                                    *)
Teardown(b) == IF bridge[b].tok = 0 THEN {} ELSE {bridge[b].tok}

(* The browser's size is waited for, then the history is sent: the socket  *)
(* may close meanwhile.  A PTY that cannot be read ends the bridge without *)
(* teardown.                                                               *)
BeforeLoop(b) ==
    /\ bridge[b].st \in {"resize", "seed"}
    /\ \/ To(b, IF bridge[b].st = "resize" THEN "seed" ELSE "loop")
          /\ UNCHANGED tmux
       \/ /\ bridge[b].st = "resize" /\ UNCHANGED tmux
          /\ bridge' = [bridge EXCEPT ![b].st = "failed", ![b].on = FALSE]

(* The loop ends with the socket, a bad frame or the end of the PTY; the   *)
(* attached client is killed, then the plan's teardown runs.               *)
EndBridge(b) ==
    /\ bridge[b].st \in Attachable
    /\ KillSessions(Teardown(b),
                    [bridge EXCEPT ![b].st = "done", ![b].on = FALSE], "teardown")

(* External: the task is dropped; its worktree and session go.             *)
DropSession ==
    /\ tmux.tree
    /\ tmux' = [tmux EXCEPT !.tree = FALSE, !.base = FALSE]
    /\ UNCHANGED bridge

(* The host restarts: its bridges are gone, and every session a browser    *)
(* had is killed (reap_orphan_terminal_sessions).                          *)
ReapOrphans ==
    /\ \E b \in Bridges : bridge[b].st \notin BridgeOver
    /\ tmux' = [tmux EXCEPT !.eph = {}]
    /\ bridge' = [b \in Bridges |-> IF bridge[b].st \in BridgeOver THEN bridge[b]
                                ELSE [bridge[b] EXCEPT !.st = "done", !.on = FALSE]]

BridgeNext ==
    \/ \E b \in Bridges :
          \/ OpenBridge(b) \/ ListSessions(b) \/ ReapOne(b) \/ EnsureBase(b)
          \/ CreateSession(b) \/ SetOptions(b) \/ SpawnAttach(b)
          \/ BeforeLoop(b) \/ EndBridge(b)
    \/ DropSession \/ ReapOrphans

BridgeTypeOK ==
    /\ tmux.eph \subseteq 0..MaxBridges
    /\ \A b \in Bridges : /\ bridge[b].tok \in {0, b}
                          /\ bridge[b].kills \subseteq 0..MaxBridges

(* Browsers do not cut each other off, and their sessions do not pile up.  *)
(* A bridge whose terminal ends under it was caught between another's      *)
(* listing and its kill, never ended by another's teardown; and a random   *)
(* session whose bridge is over was left by a bridge that failed while it  *)
(* was set up, never by one that served a terminal.                        *)
TerminalsKept ==
    /\ \A b \in Bridges : bridge[b].cause \in {"none", "reaped"}
    /\ \A t \in tmux.eph \ {0} : bridge[t].st # "done"

-----------------------------------------------------------------------------
(* The output of a terminal through one bridge. *)

Hostile == {<<2, 3>>, <<2, 4, 3>>}

PipeInit ==
    out = [written |-> <<>>, pty |-> <<>>, chan |-> <<>>, eof |-> FALSE,
           reader |-> TRUE, carry |-> <<>>, taken |-> <<>>, batch |-> <<>>,
           timer |-> FALSE, sent |-> <<>>, st |-> "loop"]

(* filter_scrollback_hostile_sequences: what passes of the bytes, and the  *)
(* beginning of a sequence that the next chunk may complete.               *)
FilterHostile(buf) ==
    LET from(i) == SubSeq(buf, i, Len(buf))
        f[i \in 1..(Len(buf) + 4)] ==
            IF i > Len(buf) THEN [pass |-> <<>>, carry |-> <<>>]
            ELSE LET hits == {h \in Hostile : IsPrefix(h, from(i))}
                 IN  IF hits # {}
                     THEN f[i + Len(CHOOSE h \in hits : TRUE)]
                     ELSE IF \E h \in Hostile : IsStrictPrefix(from(i), h)
                     THEN [pass |-> <<>>, carry |-> from(i)]
                     ELSE [f[i + 1] EXCEPT !.pass = <<buf[i]>> \o @]
    IN  f[1]

(* Mutant: the beginning of a sequence is forgotten between the chunks.    *)
FilterChunk(o) == FilterHostile(Head(o.chan))

FilterNext(o) == FilterHostile(o.carry \o Head(o.chan))

PtyWrites ==
    /\ ~out.eof /\ out.st = "loop" /\ Len(out.written) < MaxBytes
    /\ \E byte \in 1..4 :
          out' = [out EXCEPT !.written = Append(@, byte),
                             !.pty = Append(@, byte)]

PtyEnds == ~out.eof /\ out' = [out EXCEPT !.eof = TRUE]

(* The reader thread: it waits while the channel is full.                  *)
PtyRead ==
    /\ out.reader
    /\ \/ /\ out.pty # <<>> /\ Len(out.chan) < ChanLimit
          /\ \E n \in 1..Len(out.pty) :
                out' = [out EXCEPT !.chan = Append(@, SubSeq(out.pty, 1, n)),
                                   !.pty = SubSeq(@, n + 1, Len(@))]
       \/ /\ out.pty = <<>> /\ out.eof /\ out' = [out EXCEPT !.reader = FALSE]

FlushBatch(o) == [o EXCEPT !.sent = @ \o o.batch, !.batch = <<>>, !.timer = FALSE]

(* A chunk is batched; a large batch is sent, a small one gets a deadline. *)
TakeOutput ==
    /\ out.st = "loop" /\ out.chan # <<>>
    /\ LET f == FilterNext(out)
           o == [out EXCEPT !.chan = Tail(@), !.carry = f.carry,
                            !.taken = @ \o Head(out.chan),
                            !.batch = @ \o f.pass]
       IN  out' = IF f.pass = <<>> THEN o
                  ELSE IF Len(o.batch) >= BatchLimit THEN FlushBatch(o)
                  ELSE [o EXCEPT !.timer = TRUE]

FlushDeadline == out.st = "loop" /\ out.timer /\ out' = FlushBatch(out)

OutputEnds ==
    /\ out.st = "loop" /\ out.chan = <<>> /\ ~out.reader
    /\ out' = [FlushBatch(out) EXCEPT !.st = "end"]

PipeNext == PtyWrites \/ PtyEnds \/ PtyRead \/ TakeOutput \/ FlushDeadline
            \/ OutputEnds

(* The bytes of a text outside every hostile sequence.                     *)
Cleaned(text) ==
    LET covered == UNION {k..(k + Len(h) - 1) :
                            <<k, h>> \in {<<k, h>> \in (1..Len(text)) \X Hostile :
                                IsPrefix(h, SubSeq(text, k, Len(text)))}}
        kept == SelectSeq([i \in 1..Len(text) |-> i], LAMBDA i : i \notin covered)
    IN  [i \in 1..Len(kept) |-> text[kept[i]]]

(* However the output is cut into chunks and batches, the browser gets the *)
(* terminal's bytes in order and without the hostile sequences; what is    *)
(* held back has a deadline or is the beginning of such a sequence, and    *)
(* when the terminal ends nothing else is missing.                         *)
OutputFaithful ==
    /\ out.taken \o FlattenSeq(out.chan) \o out.pty = out.written
    /\ Cleaned(out.taken) = out.sent \o out.batch \o out.carry
    /\ out.batch # <<>> => out.timer
    /\ out.st = "end" => Cleaned(out.written) = out.sent \o out.carry

(* A browser keeps its terminal and sees what the terminal wrote           *)
(* (bridge_task_terminal_socket).                                          *)
TerminalsServed == TerminalsKept /\ OutputFaithful
=============================================================================
