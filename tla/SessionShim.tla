---------------------------- MODULE SessionShim ----------------------------
(***************************************************************************)
(* The session shim: a process of its own that holds a harness, appends    *)
(* what the harness says to a log and feeds it to one client at a time,    *)
(* so that a turn outlives the web host.  A client asks for the log from   *)
(* an offset and is fed from there on.  The threads of a shim are the pump *)
(* of the harness's output, a handler per connection and the supervisor;   *)
(* the relay's lock covers the log and the client.                         *)
(*                                                                         *)
(* One host at a time spawns, adopts and releases (see TaskSession for why *)
(* it is one); it may crash at any point, and what it started goes on: two *)
(* shims may take the path at the same time, each with a step for every    *)
(* call on the socket's file.  An offset counts lines instead of bytes.    *)
(* The end of a shim's main function and of its process are one step.  A   *)
(* probe of the socket sends no hello and changes nothing.                 *)
(***************************************************************************)
EXTENDS Integers, Sequences, FiniteSets

CONSTANTS MaxShims,        \* bound: shims started
          MaxLines,        \* bound: lines in the log, and two for each crash
          MaxConns,        \* bound: connections
          MaxShimCrashes   \* bound: crashes of the host

ASSUME ShimAssumption ==
    {MaxShims, MaxLines, MaxConns, MaxShimCrashes} \subseteq Nat

VARIABLES sh,       \* sh[s]: shim s and its harness
          path,     \* the shim the socket's path leads to
          logf,     \* the log file: pairs of a shim and a line of its harness
          cn,       \* the connections, in the order they were made
          hs        \* the web host

shimVars == <<sh, path, logf, cn, hs>>

Shims == 1..MaxShims
Nobody == 0
NoOffset == -1      \* no dispatched prompt with an offset

(* Two fields are for the properties alone.  `lost' says how the file that *)
(* led to the shim went while it lived: "killed" by kill_harness for its   *)
(* own group, "robbed" by another shim, and "stolen" by a shim that asked  *)
(* when this one listened already.  `saw' holds the shims that listened    *)
(* when this one asked.                                                    *)
NewShim == [st |-> "none", harness |-> FALSE, stopping |-> FALSE, said |-> 0,
            feeding |-> FALSE, relay |-> Nobody, att |-> Nobody,
            taking |-> Nobody, lost |-> "no", saw |-> {}]

(* bind_socket: no file of the shim's own is at the path yet.              *)
Binding == {"starting", "inUse", "stale", "removed"}
(* The file was made; the shim does not listen before "listening".         *)
Bound == {"bound", "listening", "serving"}
Listening == {"listening", "serving"}
(* The shim has a harness, or had one.                                     *)
Running == {"serving", "killing"}

Connection(s, off, sent) ==
    [to |-> s, st |-> "dialled", off |-> off, got |-> <<>>, sent |-> sent,
     live |-> TRUE, cut |-> FALSE]

(* What a connection carried is not looked at once it is over.             *)
Over(k) == [k EXCEPT !.st = "over", !.off = 0, !.got = <<>>, !.sent = <<>>,
                     !.live = FALSE, !.cut = TRUE]

(* connect succeeds: the path leads to a process that still listens.       *)
Reachable == path # Nobody /\ sh[path].st \in Listening

CanDial == Len(cn) < MaxConns
Dialled(off, sent) == Append(cn, Connection(path, off, sent))

(* The shim's process is gone and with it its ends of all connections.     *)
Gone(s) == [sh EXCEPT ![s] = [NewShim EXCEPT !.st = "gone",
                                             !.lost = sh[s].lost]]
Severed(s) == [c \in DOMAIN cn |->
                  IF cn[c].to = s THEN Over(cn[c]) ELSE cn[c]]

(* remove_file takes the file at the path, whoever it leads to.            *)
Unlinked(shims, how) ==
    [t \in Shims |-> IF t = path /\ shims[t].st \in Bound
                     THEN [shims[t] EXCEPT !.lost = how] ELSE shims[t]]

(* The host closes its end of a connection.                                *)
Closes(conns, c) == IF c = Nobody THEN conns
                    ELSE [conns EXCEPT ![c].live = FALSE]

-----------------------------------------------------------------------------
(* The host. *)

InPhase(phase) == hs.phase = phase
Enters(phase) == [hs EXCEPT !.phase = phase]

(* start_shim: a live shim is told to stop and waited for.                 *)
Retire ==
    /\ InPhase("idle") /\ hs.offset = NoOffset
    /\ \/ /\ ~Reachable
          /\ hs' = Enters("spawn") /\ UNCHANGED cn
       \/ /\ Reachable /\ CanDial
          /\ cn' = Dialled(0, <<"shutdown">>)
          /\ hs' = [Enters("waiting") EXCEPT !.conn = Len(cn')]
    /\ UNCHANGED <<sh, path, logf>>

RetireEnds ==
    /\ InPhase("waiting")
    /\ \/ ~Reachable /\ hs' = [Enters("spawn") EXCEPT !.conn = Nobody]
       \/ Reachable /\ hs' = [Enters("idle") EXCEPT !.conn = Nobody]
    /\ cn' = Closes(cn, hs.conn)
    /\ UNCHANGED <<sh, path, logf>>

SpawnShim ==
    /\ InPhase("spawn") /\ hs.spawned < MaxShims
    /\ LET s == hs.spawned + 1
       IN  /\ sh' = [sh EXCEPT ![s].st = "starting"]
           /\ hs' = [Enters("connect") EXCEPT !.spawned = s, !.child = s]
    /\ UNCHANGED <<path, logf, cn>>

(* connect_to_child: the socket must be served by the process it started.  *)
ConnectToChild ==
    /\ InPhase("connect")
    /\ \/ /\ Reachable /\ path = hs.child /\ CanDial
          /\ cn' = Dialled(0, <<>>)
          /\ hs' = [Enters("attached") EXCEPT !.conn = Len(cn')]
          /\ UNCHANGED sh
       \/ /\ sh[hs.child].st = "gone"
          /\ hs' = [Enters("idle") EXCEPT !.child = Nobody]
          /\ UNCHANGED <<sh, cn>>
       \/ /\ sh[hs.child].st # "gone"
          /\ hs' = [Enters("idle") EXCEPT !.child = Nobody]
          /\ sh' = Gone(hs.child) /\ cn' = Severed(hs.child)
    /\ UNCHANGED <<path, logf>>

(* A prompt is dispatched with the length of the log, to an agent that has *)
(* answered the handshake; an adopted one gets no prompt.  The field `of'  *)
(* is for OneHarness alone: the shim of the turn, if the path leads to it  *)
(* and no process of an earlier host may still take the path.              *)
DispatchPrompt ==
    /\ InPhase("attached") /\ hs.child # Nobody /\ hs.offset = NoOffset
    /\ cn[hs.conn].st = "on" /\ ~cn[hs.conn].cut
    /\ LET s == cn[hs.conn].to
           alone == path = s /\ \A t \in Shims : sh[t].st \notin Binding
       IN  hs' = [hs EXCEPT !.offset = Len(logf),
                            !.of = IF alone THEN s ELSE Nobody]
    /\ UNCHANGED <<sh, path, logf, cn>>

TurnOver ==
    /\ InPhase("attached") /\ hs.offset # NoOffset
    /\ hs' = [hs EXCEPT !.offset = NoOffset]
    /\ UNCHANGED <<sh, path, logf, cn>>

(* The client is dropped: SHUTDOWN is sent.  Its own child is waited for   *)
(* and killed with its group; an adopted shim is left to itself.           *)
Release ==
    /\ InPhase("attached") /\ hs.offset = NoOffset
    /\ cn' = IF cn[hs.conn].st = "over" THEN cn
             ELSE [cn EXCEPT ![hs.conn].sent = Append(@, "shutdown"),
                             ![hs.conn].live = hs.child # Nobody]
    /\ hs' = IF hs.child = Nobody THEN [Enters("idle") EXCEPT !.conn = Nobody]
             ELSE Enters("reaping")
    /\ UNCHANGED <<sh, path, logf>>

Reap ==
    /\ InPhase("reaping")
    /\ hs' = [Enters("idle") EXCEPT !.conn = Nobody, !.child = Nobody]
    /\ sh' = Gone(hs.child)
    /\ cn' = Closes(Severed(hs.child), hs.conn)
    /\ UNCHANGED <<path, logf>>

(* adopt: the turn in flight is read from its offset.  If there is nobody  *)
(* to adopt, or nobody answers, the prompt is interrupted.                 *)
AdoptTurn ==
    /\ InPhase("idle") /\ hs.offset # NoOffset
    /\ \/ /\ Reachable /\ CanDial
          /\ cn' = Dialled(hs.offset, <<>>)
          /\ hs' = [Enters("attached") EXCEPT !.conn = Len(cn')]
       \/ /\ ~Reachable
          /\ hs' = [hs EXCEPT !.offset = NoOffset]
          /\ UNCHANGED cn
       \/ /\ Reachable /\ CanDial
          /\ cn' = Closes(Dialled(0, <<"shutdown">>), Len(cn) + 1)
          /\ hs' = [hs EXCEPT !.offset = NoOffset]
    /\ UNCHANGED <<sh, path, logf>>

(* A host dies; the next one starts, and its sweep kills the shim of an    *)
(* earlier host unless its turn is adoptable.  The socket's file stays.    *)
(* The field `stray' is for OneHarness alone: a host died while a shim it  *)
(* had started was not yet connected to.                                   *)
HostDies ==
    /\ hs.crashes < MaxShimCrashes
    /\ Len(logf) + 2 * (hs.crashes + 1) <= MaxLines
    /\ hs' = [Enters("idle") EXCEPT !.conn = Nobody, !.child = Nobody,
                                  !.crashes = @ + 1,
                                  !.stray = @ \/ InPhase("connect")]
    /\ cn' = Closes(cn, hs.conn)
    /\ UNCHANGED <<sh, path, logf>>

SweepShim ==
    /\ InPhase("idle") /\ hs.crashes > 0 /\ hs.offset = NoOffset
    /\ \E s \in Shims : /\ sh[s].st \in Binding \cup Bound \cup {"killing"}
                        /\ sh' = Gone(s) /\ cn' = Severed(s)
    /\ UNCHANGED <<path, logf, hs>>

-----------------------------------------------------------------------------
(* The shim's supervisor. *)

(* bind_socket: bind, and if there is a file, ask whether anybody answers. *)
(* A shim that is refused ends before it has a file to remove.             *)
Bind(s) ==
    /\ sh[s].st = "starting"
    /\ \/ /\ path = Nobody
          /\ sh' = [sh EXCEPT ![s].st = "bound"] /\ path' = s
       \/ /\ path # Nobody
          /\ sh' = [sh EXCEPT ![s].st = "inUse"] /\ UNCHANGED path
    /\ UNCHANGED <<logf, cn, hs>>

Listeners == {t \in Shims : sh[t].st \in Listening}

(* Mutant: the file of a shim that answers is taken for a stale one.       *)
ProbeSkipped(s) ==
    /\ sh[s].st = "inUse"
    /\ sh' = [sh EXCEPT ![s].st = "stale", ![s].saw = Listeners]
    /\ UNCHANGED <<path, logf, cn, hs>>

ProbeSocket(s) ==
    /\ sh[s].st = "inUse"
    /\ \/ Reachable /\ sh' = Gone(s)
       \/ /\ ~Reachable
          /\ sh' = [sh EXCEPT ![s].st = "stale", ![s].saw = Listeners]
    /\ UNCHANGED <<path, logf, cn, hs>>

(* The file is removed; there may be none, or another shim's by now.       *)
RemoveStale(s) ==
    /\ sh[s].st = "stale"
    /\ \/ /\ path # Nobody
          /\ sh' = Unlinked([sh EXCEPT ![s].st = "removed", ![s].saw = {}],
                            IF path \in sh[s].saw THEN "stolen" ELSE "robbed")
          /\ path' = Nobody
       \/ path = Nobody /\ sh' = Gone(s) /\ UNCHANGED path
    /\ UNCHANGED <<logf, cn, hs>>

Rebind(s) ==
    /\ sh[s].st = "removed"
    /\ \/ /\ path = Nobody
          /\ sh' = [sh EXCEPT ![s].st = "bound"] /\ path' = s
       \/ path # Nobody /\ sh' = Gone(s) /\ UNCHANGED path
    /\ UNCHANGED <<logf, cn, hs>>

(* UnixListener::bind is bind(2) and listen(2): a connect between the two  *)
(* is refused.                                                             *)
Listen(s) ==
    /\ sh[s].st = "bound"
    /\ sh' = [sh EXCEPT ![s].st = "listening"]
    /\ UNCHANGED <<path, logf, cn, hs>>

(* serve: the logs start empty and the harness is started.                 *)
StartHarness(s) ==
    /\ sh[s].st = "listening"
    /\ sh' = [sh EXCEPT ![s].st = "serving", ![s].harness = TRUE]
    /\ logf' = <<>>
    /\ UNCHANGED <<path, cn, hs>>

HarnessExits(s) ==
    /\ sh[s].harness
    /\ sh' = [sh EXCEPT ![s].harness = FALSE]
    /\ UNCHANGED <<path, logf, cn, hs>>

(* The harness has ended: what it said is drained, or the grace is over;   *)
(* or it could not be started.  The client is closed and the file at the   *)
(* socket's path removed.                                                  *)
ShimEnds(s) ==
    /\ sh[s].st \in Listening /\ ~sh[s].harness
    /\ sh' = Unlinked(Gone(s), "robbed") /\ cn' = Severed(s) /\ path' = Nobody
    /\ UNCHANGED <<logf, hs>>

(* kill_harness: the harness has not ended within the grace.  The file is  *)
(* removed, and then the group of the shim and its harness killed.         *)
KillHarness(s) ==
    /\ sh[s].st = "serving" /\ sh[s].harness /\ sh[s].stopping
    /\ sh' = Unlinked([sh EXCEPT
                 ![s].st = "killing",
                 ![s].lost = IF path = s THEN "killed" ELSE @], "robbed")
    /\ path' = Nobody
    /\ UNCHANGED <<logf, cn, hs>>

KillGroup(s) ==
    /\ sh[s].st = "killing"
    /\ sh' = Gone(s) /\ cn' = Severed(s)
    /\ UNCHANGED <<path, logf, hs>>

(* The pump: append and deliver under the relay's lock (feeding).  The     *)
(* harness says a line before it ends, but it may be read after.           *)
PumpAppends(s) ==
    /\ sh[s].st \in Running /\ ~sh[s].feeding
    /\ Len(logf) + 2 * hs.crashes < MaxLines
    /\ logf' = Append(logf, <<s, sh[s].said + 1>>)
    /\ sh' = [sh EXCEPT ![s].said = @ + 1, ![s].feeding = TRUE]
    /\ UNCHANGED <<path, cn, hs>>

PumpDelivers(s) ==
    /\ sh[s].feeding
    /\ LET c == sh[s].relay
       IN  IF c # Nobody /\ cn[c].live /\ ~cn[c].cut
           THEN /\ cn' = [cn EXCEPT ![c].got = Append(@, <<s, sh[s].said>>)]
                /\ sh' = [sh EXCEPT ![s].feeding = FALSE]
           ELSE /\ sh' = [sh EXCEPT ![s].feeding = FALSE,
                                    ![s].relay = Nobody]
                /\ UNCHANGED cn
    /\ UNCHANGED <<path, logf, hs>>

-----------------------------------------------------------------------------
(* The handler of a connection. *)

(* The hello is read and the previous client's stream shut; the lock of    *)
(* `attached' is held until the new client is attached.                    *)
TakesOver(c) ==
    LET s == cn[c].to
        old == sh[s].att
    IN  /\ cn[c].st = "dialled" /\ sh[s].st \in Running
        /\ sh[s].taking = Nobody
        /\ cn' = [IF old = Nobody THEN cn ELSE [cn EXCEPT ![old].cut = TRUE]
                     EXCEPT ![c].st = "asked"]
        /\ sh' = [sh EXCEPT ![s].taking = c, ![s].att = Nobody]
        /\ UNCHANGED <<path, logf, hs>>

(* Mutant: the replay does not take the relay's lock.                      *)
MayReplayAnytime(s) == TRUE

MayReplay(s) == ~sh[s].feeding

(* ShimRelay::attach: the log from the offset, then this client.  It fails *)
(* for an offset past the end and for a client that has gone.              *)
Replay(c) ==
    LET s == cn[c].to
        fails == \/ cn[c].off > Len(logf)
                 \/ ~cn[c].live /\ cn[c].off < Len(logf)
    IN  /\ cn[c].st = "asked" /\ MayReplay(s)
        /\ \/ /\ ~fails
              /\ cn' = [cn EXCEPT ![c].st = "on",
                           ![c].got = SubSeq(logf, cn[c].off + 1, Len(logf))]
              /\ sh' = [sh EXCEPT ![s].relay = c, ![s].att = c,
                                  ![s].taking = Nobody]
           \/ /\ fails
              /\ cn' = [cn EXCEPT ![c].st = "unfed"]
              /\ sh' = [sh EXCEPT ![s].taking = Nobody]
        /\ UNCHANGED <<path, logf, hs>>

(* SHUTDOWN closes the harness's input and starts the grace.               *)
TakeShutdown(c) ==
    /\ cn[c].st \in {"on", "unfed"} /\ cn[c].sent # <<>>
    /\ sh' = [sh EXCEPT ![cn[c].to].stopping = TRUE]
    /\ cn' = [cn EXCEPT ![c].sent = <<>>, ![c].st = "leaving"]
    /\ UNCHANGED <<path, logf, hs>>

(* The client has nothing more to say and is gone, or its stream was shut. *)
ReadEnds(c) ==
    /\ cn[c].st \in {"on", "unfed"}
    /\ cn[c].cut \/ (~cn[c].live /\ cn[c].sent = <<>>)
    /\ cn' = [cn EXCEPT ![c].st = "leaving"]
    /\ UNCHANGED <<sh, path, logf, hs>>

(* ShimRelay::detach knows its client by a token.                          *)
DetachOwn(s, c) == IF sh[s].relay = c THEN Nobody ELSE sh[s].relay

Detach(c) ==
    LET s == cn[c].to
    IN  /\ cn[c].st = "leaving" /\ ~sh[s].feeding
        /\ sh' = [sh EXCEPT ![s].relay = DetachOwn(s, c)]
        /\ cn' = [cn EXCEPT ![c] = Over(@)]
        /\ UNCHANGED <<path, logf, hs>>

-----------------------------------------------------------------------------
ShimInit ==
    /\ sh = [s \in Shims |-> NewShim]
    /\ path = Nobody /\ logf = <<>> /\ cn = <<>>
    /\ hs = [phase |-> "idle", conn |-> Nobody, child |-> Nobody,
             spawned |-> 0, offset |-> NoOffset, of |-> Nobody, crashes |-> 0,
             stray |-> FALSE]

ShimNext ==
    \/ Retire \/ RetireEnds \/ SpawnShim \/ ConnectToChild \/ DispatchPrompt
    \/ TurnOver \/ Release \/ Reap \/ AdoptTurn \/ HostDies \/ SweepShim
    \/ \E s \in Shims : \/ Bind(s) \/ ProbeSocket(s) \/ RemoveStale(s)
                        \/ Rebind(s) \/ Listen(s) \/ StartHarness(s)
                        \/ HarnessExits(s) \/ ShimEnds(s) \/ KillHarness(s)
                        \/ KillGroup(s) \/ PumpAppends(s) \/ PumpDelivers(s)
    \/ \E c \in DOMAIN cn : \/ TakesOver(c) \/ Replay(c) \/ TakeShutdown(c)
                            \/ ReadEnds(c) \/ Detach(c)

ShimSpec == ShimInit /\ [][ShimNext]_shimVars

-----------------------------------------------------------------------------
ShimTypeOK ==
    /\ \A s \in Shims :
          /\ sh[s].st \in Binding \cup Bound \cup {"none", "killing", "gone"}
          /\ sh[s].harness => sh[s].st \in Running
          /\ sh[s].lost \in {"no", "killed", "robbed", "stolen"}
          /\ sh[s].relay \in 0..Len(cn)
    /\ path \in 0..MaxShims /\ Len(cn) <= MaxConns
    /\ InPhase("attached") => hs.conn # Nobody

(* What shim s said, at the places of a sequence of lines.                 *)
Own(q, s) == {i \in DOMAIN q : q[i][1] = s}

(* No live shim has lost the file that leads to it.                        *)
NothingLost == \A s \in Shims : sh[s].lost = "no"

(* A client gets its shim's lines each once and in order, and as long as   *)
(* it is attached it has every one that was logged beyond its offset:      *)
(* while the pump appends during the replay, an earlier client's handler   *)
(* ends late, hosts crash, and shims replace each other at the same path,  *)
(* empty each other's log or write to it.  It gets a line of another shim  *)
(* only if one of the two had lost its file, and without such a loss what  *)
(* it has is the log from its offset on.                                   *)
FedExactly ==
    \A c \in DOMAIN cn :
        LET s == cn[c].to
            got == cn[c].got
            attached == cn[c].st = "on" /\ cn[c].live /\ ~cn[c].cut
        IN  /\ \A i, j \in Own(got, s) : i < j => got[i][2] < got[j][2]
            /\ attached /\ ~sh[s].feeding
                  => \A i \in Own(logf, s) :
                        i > cn[c].off => \E j \in DOMAIN got : got[j] = logf[i]
            /\ \A i \in DOMAIN got \ Own(got, s) :
                  sh[s].lost # "no" \/ sh[got[i][1]].lost # "no"
            /\ NothingLost =>
                  /\ \A i \in DOMAIN got : got[i] = <<s, cn[c].off + i>>
                  /\ attached /\ ~sh[s].feeding
                        => cn[c].off + Len(got) = Len(logf)

(* The next host can reach the harness of a worktree, to adopt or to stop  *)
(* it, unless the harness's group is about to be killed or another shim    *)
(* has removed the file.  That takes a host that died while its shim was   *)
(* starting, and a shim that did not listen yet when the other asked.  An  *)
(* adopted turn is read from the log it was dispatched to, if no such shim *)
(* was about then: adoptable asks the path and not the shim.               *)
OneHarness ==
    /\ \A s \in Shims :
          sh[s].harness => \/ path = s
                           \/ sh[s].lost = "robbed"
                           \/ sh[s].lost = "killed" /\ sh[s].st = "killing"
    /\ (\E s \in Shims : sh[s].lost = "robbed") => hs.stray
    /\ InPhase("attached") /\ hs.offset # NoOffset /\ hs.of # Nobody
          => cn[hs.conn].to = hs.of

(* A shim feeds each line once, and no harness is left where no host can   *)
(* reach it (relay, serve, spawn_shim).                                    *)
ShimServes == FedExactly /\ OneHarness

(* Does not hold: a worktree has one harness at a time.  kill_harness      *)
(* removes the file before it kills, so the next host finds nobody at the  *)
(* path and starts a second one; and of two shims that start at once after *)
(* a crash, one may take the other's file for a stale one.                 *)
NoSecondHarness ==
    \A s, t \in Shims : sh[s].harness /\ sh[t].harness => s = t

(* Does not hold either: every harness can be reached or is being killed.  *)
NoOrphanHarness ==
    \A s \in Shims : sh[s].harness => path = s \/ sh[s].st = "killing"
=============================================================================
