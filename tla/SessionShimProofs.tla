-------------------------- MODULE SessionShimProofs --------------------------
(***************************************************************************)
(* Proofs about the link between a chat and its agent.  The session shim:  *)
(* for any number of shims, lines, connections and crashes a client is fed *)
(* its shim's lines once and in order, and a harness that cannot be        *)
(* reached at the path is about to be killed, or its shim was robbed of    *)
(* its file by another one, which takes a host that died while it started  *)
(* a shim.  The chat's client of an agent, at the end of the file: for any *)
(* number of prompts, requests and cancels a turn is told only its own end *)
(* and is owed one until it is told.                                       *)
(***************************************************************************)
EXTENDS SessionShim, NativeClient, SequenceTheorems, TLAPS

ShimSt == Binding \cup Bound \cup {"none", "killing", "gone"}
Shim == [st : ShimSt, harness : BOOLEAN,
         stopping : BOOLEAN, said : Nat, feeding : BOOLEAN, relay : Nat,
         att : Nat, taking : Nat, lost : {"no", "killed", "robbed", "stolen"},
         saw : SUBSET Shims]
Line == Shims \X Nat
Conn == [to : Shims,
         st : {"dialled", "asked", "on", "unfed", "leaving", "over"},
         off : Nat, got : Seq(Line), sent : Seq({"shutdown"}),
         live : BOOLEAN, cut : BOOLEAN]
Host == [phase : {"idle", "waiting", "spawn", "connect", "attached", "reaping"},
         conn : Nat, child : 0..MaxShims, spawned : 0..MaxShims,
         offset : Nat \cup {NoOffset}, of : 0..MaxShims, crashes : Nat,
         stray : BOOLEAN]

ShimTypes ==
    /\ sh \in [Shims -> Shim] /\ path \in 0..MaxShims /\ logf \in Seq(Line)
    /\ cn \in Seq(Conn) /\ Len(cn) <= MaxConns /\ hs \in Host

(* Only a shim with a harness has clients; they are connections to it.     *)
ShimFine(s) ==
    /\ sh[s].harness => sh[s].st \in Running
    /\ sh[s].st \notin Running =>
          /\ ~sh[s].feeding /\ sh[s].relay = Nobody
          /\ sh[s].att = Nobody /\ sh[s].taking = Nobody /\ sh[s].said = 0
    /\ sh[s].relay # Nobody =>
          /\ sh[s].relay \in 1..Len(cn) /\ cn[sh[s].relay].to = s
          /\ cn[sh[s].relay].st \in {"on", "leaving"}
    /\ sh[s].att # Nobody =>
          sh[s].att \in 1..Len(cn) /\ cn[sh[s].att].to = s
    /\ sh[s].taking # Nobody =>
          /\ sh[s].taking \in 1..Len(cn) /\ cn[sh[s].taking].to = s
          /\ cn[sh[s].taking].st = "asked" /\ sh[s].att = Nobody

(* What a shim with a harness knows of the log: its own lines are there in *)
(* the order they were said, and nobody else's unless a file was lost.     *)
LogFine(s) ==
    sh[s].st \in Running =>
       /\ \A i \in 1..Len(logf) : logf[i][1] = s => logf[i][2] <= sh[s].said
       /\ \A i, j \in 1..Len(logf) :
             i < j /\ logf[i][1] = s /\ logf[j][1] = s
                => logf[i][2] < logf[j][2]
       /\ \A i \in 1..Len(logf) : logf[i][1] # s =>
             sh[s].lost # "no" \/ sh[logf[i][1]].lost # "no"
       /\ NothingLost =>
             /\ Len(logf) = sh[s].said
             /\ \A i \in 1..Len(logf) : logf[i] = <<s, i>>

(* Where a connection stands with the shim it was made to.                 *)
ConnFine(c) ==
    LET k == cn[c]
        s == cn[c].to
    IN  /\ k.st = "over" => k.got = <<>> /\ ~k.live /\ k.cut
        /\ k.st # "over" => sh[s].st \in Listening \cup {"killing"}
        /\ k.st \in {"asked", "on", "unfed", "leaving"} => sh[s].st \in Running
        /\ k.st \in {"dialled", "asked", "unfed"} => k.got = <<>>
        /\ k.st = "asked" => sh[s].taking = c
        /\ k.st = "on" /\ ~k.cut => sh[s].att = c
        /\ k.st = "on" /\ ~k.cut /\ k.live => sh[s].relay = c

(* What a connection was fed; the line that is being fed is still to come  *)
(* for the relay's client.                                                 *)
GotFine(c) ==
    LET k == cn[c]
        s == cn[c].to
        n == Len(cn[c].got)
    IN  /\ \A i, j \in 1..n : i < j /\ k.got[i][1] = s /\ k.got[j][1] = s
                                => k.got[i][2] < k.got[j][2]
        /\ \A i \in 1..n : k.got[i][1] = s =>
              /\ k.got[i][2] <= sh[s].said
              /\ sh[s].relay = c /\ sh[s].feeding => k.got[i][2] < sh[s].said
        /\ k.st = "on" /\ k.live /\ ~k.cut =>
              \A i \in 1..Len(logf) : i > k.off /\ logf[i][1] = s =>
                 \/ \E j \in 1..n : k.got[j] = logf[i]
                 \/ sh[s].feeding /\ logf[i][2] = sh[s].said
        /\ \A i \in 1..n : k.got[i][1] # s =>
              sh[s].lost # "no" \/ sh[k.got[i][1]].lost # "no"
        /\ NothingLost =>
              /\ \A i \in 1..n : k.got[i] = <<s, k.off + i>>
              /\ sh[s].relay = c /\ k.live /\ ~k.cut =>
                    IF sh[s].feeding THEN k.off + n + 1 = Len(logf)
                    ELSE k.off + n = Len(logf)

(* Whom the path leads to: to a shim that made the file, until it loses it.*)
(* A shim that listened when another asked was not at the path and never   *)
(* comes back to it.                                                       *)
PathFine(s) ==
    /\ sh[s].st \in Bound /\ sh[s].lost = "no" => path = s
    /\ sh[s].st = "killing" => sh[s].lost # "no"
    /\ sh[s].lost = "killed" => sh[s].st \in {"killing", "gone"}
    /\ sh[s].lost # "stolen"
    /\ sh[s].st = "stale" =>
          \A t \in sh[s].saw : path # t /\ sh[t].st \notin Binding \cup {"none"}
    /\ s > hs.spawned => sh[s].st = "none"

(* As long as no host died while its shim was starting, only the shim that *)
(* the host waits for is on its way to the path, and no file was robbed.   *)
Alone ==
    ~hs.stray =>
       \A s \in Shims :
          /\ sh[s].lost # "robbed"
          /\ sh[s].st \in Binding \cup {"bound"} =>
                hs.phase = "connect" /\ hs.child = s
          /\ sh[s].st = "stale" => ~Reachable

(* Who the host is connected to, and which shim it dispatched its turn to. *)
HostFine ==
    /\ hs.phase \in {"connect", "reaping"} => hs.child # Nobody
    /\ hs.child <= hs.spawned
    /\ hs.phase = "attached" =>
          /\ hs.conn \in 1..Len(cn)
          /\ cn[hs.conn].live \/ cn[hs.conn].st = "over"
    /\ hs.phase \in {"waiting", "reaping"} => hs.conn \in 1..Len(cn)
    /\ hs.phase \in {"idle", "spawn", "connect"} => hs.conn = Nobody
    /\ hs.offset # NoOffset => hs.phase \in {"idle", "attached"}
    /\ hs.offset # NoOffset /\ hs.of # Nobody =>
          /\ \A s \in Shims : sh[s].st \notin Binding
          /\ path \in {Nobody, hs.of}
          /\ hs.phase = "attached" => cn[hs.conn].to = hs.of

ShimIInv ==
    /\ ShimTypes
    /\ \A s \in Shims : ShimFine(s) /\ LogFine(s) /\ PathFine(s)
    /\ \A c \in 1..Len(cn) : ConnFine(c) /\ GotFine(c)
    /\ Alone /\ HostFine

(* A shim that is fed, and feeds, as another.                              *)
SameFeed(r, q) ==
    /\ r.said = q.said /\ r.feeding = q.feeding /\ r.relay = q.relay
    /\ r.att = q.att /\ r.taking = q.taking

(* A shim without a harness and without clients.                           *)
Cleared(r) ==
    /\ ~r.harness /\ ~r.feeding /\ r.said = 0
    /\ r.relay = Nobody /\ r.att = Nobody /\ r.taking = Nobody

(* A connection that is done with.                                         *)
DoneWith(k) == k.st = "over" /\ k.got = <<>> /\ ~k.live /\ k.cut
-----------------------------------------------------------------------------
(* Setting one field of a shim or of a connection.                         *)
LEMMA ShimSet ==
    ASSUME NEW r \in Shim
    PROVE  /\ \A v \in BOOLEAN : /\ [r EXCEPT !.harness = v] \in Shim
                                 /\ [r EXCEPT !.stopping = v] \in Shim
                                 /\ [r EXCEPT !.feeding = v] \in Shim
           /\ \A v \in Nat : /\ [r EXCEPT !.said = v] \in Shim
                             /\ [r EXCEPT !.relay = v] \in Shim
                             /\ [r EXCEPT !.att = v] \in Shim
                             /\ [r EXCEPT !.taking = v] \in Shim
  BY DEF Shim

(* Setting where a shim stands, and what the properties know of its file.  *)
Moved(r, q, st, harness, lost, saw) ==
    /\ q \in Shim /\ SameFeed(r, q) /\ q.st = st /\ q.harness = harness
    /\ q.lost = lost /\ q.saw = saw

LEMMA SetSt ==
    ASSUME NEW r \in Shim, NEW v \in ShimSt
    PROVE  Moved(r, [r EXCEPT !.st = v], v, r.harness, r.lost, r.saw)
  BY DEF Shim, SameFeed, Moved

LEMMA SetHarness ==
    ASSUME NEW r \in Shim, NEW v \in BOOLEAN
    PROVE  Moved(r, [r EXCEPT !.harness = v], r.st, v, r.lost, r.saw)
  BY DEF Shim, SameFeed, Moved

LEMMA SetLost ==
    ASSUME NEW r \in Shim, NEW v \in {"no", "killed", "robbed", "stolen"}
    PROVE  Moved(r, [r EXCEPT !.lost = v], r.st, r.harness, v, r.saw)
  BY DEF Shim, SameFeed, Moved

LEMMA SetSaw ==
    ASSUME NEW r \in Shim, NEW v \in SUBSET Shims
    PROVE  Moved(r, [r EXCEPT !.saw = v], r.st, r.harness, r.lost, v)
  BY DEF Shim, SameFeed, Moved

LEMMA ConnSet ==
    ASSUME NEW k \in Conn
    PROVE  /\ \A v \in {"dialled", "asked", "on", "unfed", "leaving", "over"} :
                 [k EXCEPT !.st = v] \in Conn
           /\ \A v \in BOOLEAN : /\ [k EXCEPT !.live = v] \in Conn
                                 /\ [k EXCEPT !.cut = v] \in Conn
           /\ \A v \in Nat : [k EXCEPT !.off = v] \in Conn
           /\ \A v \in Seq(Line) : [k EXCEPT !.got = v] \in Conn
           /\ \A v \in Seq({"shutdown"}) : [k EXCEPT !.sent = v] \in Conn
  BY DEF Conn

(* The types of single shims, connections and lines.                       *)
LEMMA ShimElements ==
    ASSUME ShimTypes
    PROVE  /\ \A s \in Shims : sh[s] \in Shim /\ s \in Nat /\ s # Nobody
           /\ \A c \in 1..Len(cn) : cn[c] \in Conn /\ c \in Nat /\ c # Nobody
           /\ \A i \in 1..Len(logf) : logf[i] \in Line
           /\ DOMAIN cn = 1..Len(cn) /\ DOMAIN logf = 1..Len(logf)
           /\ Len(cn) \in Nat /\ Len(logf) \in Nat /\ MaxShims \in Nat
           /\ path # Nobody => path \in Shims
  BY SMTT(30), ShimAssumption DEF ShimTypes, Shims, Nobody

(* A shim that is gone and what a connection is when it is over.           *)
LEMMA GoneOver ==
    /\ NewShim \in Shim /\ NewShim.st = "none" /\ Cleared(NewShim)
    /\ NewShim.lost = "no" /\ NewShim.saw = {}
    /\ \A k \in Conn : /\ Over(k) \in Conn /\ Over(k).to = k.to
                       /\ DoneWith(Over(k))
<1>1. /\ NewShim \in Shim /\ NewShim.st = "none" /\ Cleared(NewShim)
      /\ NewShim.lost = "no" /\ NewShim.saw = {}
  BY DEF NewShim, Shim, Nobody, ShimSt, Cleared
<1>2. ASSUME NEW k \in Conn
      PROVE  Over(k) \in Conn /\ Over(k).to = k.to /\ DoneWith(Over(k))
  <2>1. <<>> \in Seq(Line) /\ <<>> \in Seq({"shutdown"})
    OBVIOUS
  <2> QED
    BY <2>1 DEF Over, Conn, DoneWith
<1> QED
  BY <1>1, <1>2

LEMMA OneGone ==
    ASSUME ShimTypes, NEW s \in Shims
    PROVE  /\ Gone(s) \in [Shims -> Shim]
           /\ \A u \in Shims : u # s => Gone(s)[u] = sh[u]
           /\ Gone(s)[s].st = "gone" /\ Cleared(Gone(s)[s])
           /\ Gone(s)[s].lost = sh[s].lost
<1> DEFINE e == [NewShim EXCEPT !.st = "gone"]
           r == [e EXCEPT !.lost = sh[s].lost]
<1>1. Moved(NewShim, e, "gone", NewShim.harness, NewShim.lost, NewShim.saw)
  BY GoneOver, SetSt DEF ShimSt
<1>2. Gone(s) = [sh EXCEPT ![s] = r]
  BY DEF Gone
<1> HIDE DEF e
<1>3. sh[s].lost \in {"no", "killed", "robbed", "stolen"}
  BY ShimElements DEF Shim
<1>4. Moved(e, r, e.st, e.harness, sh[s].lost, e.saw)
  BY <1>1, <1>3, SetLost DEF Moved
<1> HIDE DEF r
<1>5. Cleared(r) /\ r \in Shim /\ r.st = "gone" /\ r.lost = sh[s].lost
  BY <1>1, <1>4, GoneOver DEF Cleared, SameFeed, Moved
<1> QED
  BY <1>2, <1>5 DEF ShimTypes

(* remove_file changes nothing but who has lost his file.                  *)
LEMMA Unlinking ==
    ASSUME NEW f \in [Shims -> Shim],
           NEW how \in {"no", "killed", "robbed", "stolen"}
    PROVE  /\ Unlinked(f, how) \in [Shims -> Shim]
           /\ \A t \in Shims :
                 /\ Unlinked(f, how)[t].st = f[t].st
                 /\ SameFeed(f[t], Unlinked(f, how)[t])
                 /\ Unlinked(f, how)[t].harness = f[t].harness
                 /\ Unlinked(f, how)[t].saw = f[t].saw
                 /\ Unlinked(f, how)[t].lost =
                       IF t = path /\ f[t].st \in Bound THEN how
                       ELSE f[t].lost
<1> DEFINE g(t) == IF t = path /\ f[t].st \in Bound
                   THEN [f[t] EXCEPT !.lost = how] ELSE f[t]
<1>1. Unlinked(f, how) = [t \in Shims |-> g(t)]
  BY DEF Unlinked
<1>2. ASSUME NEW t \in Shims
      PROVE  /\ g(t) \in Shim /\ g(t).st = f[t].st /\ SameFeed(f[t], g(t))
             /\ g(t).harness = f[t].harness /\ g(t).saw = f[t].saw
             /\ g(t).lost = IF t = path /\ f[t].st \in Bound THEN how
                            ELSE f[t].lost
  <2>1. CASE t = path /\ f[t].st \in Bound
    <3>1. Moved(f[t], g(t), f[t].st, f[t].harness, how, f[t].saw)
      BY <2>1, SetLost
    <3> HIDE DEF g
    <3> QED
      BY <2>1, <3>1 DEF Moved
  <2>2. CASE ~(t = path /\ f[t].st \in Bound)
    BY <2>2 DEF SameFeed
  <2> QED
    BY <2>1, <2>2
<1> HIDE DEF g
<1> QED
  BY <1>1, <1>2

(* Severed keeps the other connections and ends those of the shim.         *)
LEMMA OneSevered ==
    ASSUME ShimTypes, NEW s \in Shims
    PROVE  /\ Severed(s) \in Seq(Conn) /\ Len(Severed(s)) = Len(cn)
           /\ \A c \in 1..Len(cn) :
                 Severed(s)[c] = IF cn[c].to = s THEN Over(cn[c]) ELSE cn[c]
<1>1. \A c \in 1..Len(cn) :
          (IF cn[c].to = s THEN Over(cn[c]) ELSE cn[c]) \in Conn
  BY ShimElements, GoneOver
<1>2. Severed(s) = [c \in 1..Len(cn) |->
                       IF cn[c].to = s THEN Over(cn[c]) ELSE cn[c]]
  BY ShimElements DEF Severed
<1> QED
  BY <1>1, <1>2, ShimElements

-----------------------------------------------------------------------------
(* Where the path leads.                                                   *)

(* Of the shims that have a harness only the one at the path has not lost  *)
(* its file.                                                               *)
LEMMA OneFile ==
    ASSUME ShimIInv, NEW s \in Shims, sh[s].st \in Bound \cup Running,
           sh[s].lost = "no"
    PROVE  path = s /\ sh[s].st \in Bound
  BY DEF ShimIInv, PathFine, Bound, Running

(* What a connection was fed stays as good as it was, if nothing was said  *)
(* and it was not attached.                                                *)
LEMMA GotStays ==
    ASSUME ShimIInv, logf' = logf, NEW d \in 1..Len(cn), NEW s \in Shims,
           cn[d].to = s, cn'[d].to = s, cn'[d].off = cn[d].off,
           cn'[d].got = cn[d].got, sh'[s].said = sh[s].said,
           \A u \in Shims : sh[u].lost # "no" => sh'[u].lost # "no",
           sh'[s].relay = d /\ sh'[s].feeding =>
              sh[s].relay = d /\ sh[s].feeding,
           cn'[d].st = "on" /\ cn'[d].live /\ ~cn'[d].cut =>
              /\ cn[d].st = "on" /\ cn[d].live /\ ~cn[d].cut
              /\ sh'[s].feeding = sh[s].feeding,
           sh'[s].relay = d /\ cn'[d].live /\ ~cn'[d].cut =>
              /\ sh[s].relay = d /\ cn[d].live /\ ~cn[d].cut
              /\ sh'[s].feeding = sh[s].feeding
    PROVE  GotFine(d)'
<1>1. GotFine(d) /\ ShimTypes /\ cn[d] \in Conn
  BY ShimElements DEF ShimIInv
<1>2. \A i \in 1..Len(cn[d].got) : cn[d].got[i][1] \in Shims
  BY <1>1 DEF Conn, Line
<1>3. \A i \in 1..Len(cn[d].got) : cn[d].got[i][1] # s =>
          sh'[s].lost # "no" \/ sh'[cn[d].got[i][1]].lost # "no"
  BY <1>1, <1>2 DEF GotFine
<1>4. NothingLost' => NothingLost
  BY DEF NothingLost
<1>5. \A i \in 1..Len(cn[d].got) : cn[d].got[i][1] = s =>
         /\ cn[d].got[i][2] <= sh'[s].said
         /\ sh'[s].relay = d /\ sh'[s].feeding
               => cn[d].got[i][2] < sh'[s].said
  BY <1>1 DEF GotFine
<1>6. cn'[d].st = "on" /\ cn'[d].live /\ ~cn'[d].cut =>
         \A i \in 1..Len(logf) : i > cn[d].off /\ logf[i][1] = s =>
            \/ \E j \in 1..Len(cn[d].got) : cn[d].got[j] = logf[i]
            \/ sh'[s].feeding /\ logf[i][2] = sh'[s].said
  BY <1>1 DEF GotFine
<1>7. NothingLost' =>
         /\ \A i \in 1..Len(cn[d].got) : cn[d].got[i] = <<s, cn[d].off + i>>
         /\ sh'[s].relay = d /\ cn'[d].live /\ ~cn'[d].cut =>
               IF sh'[s].feeding
               THEN cn[d].off + Len(cn[d].got) + 1 = Len(logf)
               ELSE cn[d].off + Len(cn[d].got) = Len(logf)
  BY <1>1, <1>4 DEF GotFine
<1>8. \A i, j \in 1..Len(cn[d].got) :
          i < j /\ cn[d].got[i][1] = s /\ cn[d].got[j][1] = s
             => cn[d].got[i][2] < cn[d].got[j][2]
  BY <1>1 DEF GotFine
<1> QED
  BY <1>3, <1>5, <1>6, <1>7, <1>8 DEF GotFine

(* Steps that say nothing and deliver nothing: a shim stays with its       *)
(* clients or it is gone with them, may lose its file, and connections are *)
(* made, closed, or cut.                                                   *)
Stays(s) ==
    /\ SameFeed(sh[s], sh'[s]) /\ (sh'[s].harness => sh[s].harness)
    /\ sh'[s].st \in Running <=> sh[s].st \in Running
    /\ sh[s].st \in Listening \cup {"killing"}
           => sh'[s].st \in Listening \cup {"killing"}

Leaves(s) == sh'[s].st = "gone" /\ Cleared(sh'[s])

Unfed ==
    /\ ShimIInv /\ UNCHANGED logf /\ cn' \in Seq(Conn) /\ Len(cn') >= Len(cn)
    /\ \A s \in Shims : /\ Stays(s) \/ Leaves(s)
                        /\ sh[s].lost # "no" => sh'[s].lost # "no"
    /\ \A c \in 1..Len(cn) :
          /\ cn'[c].to = cn[c].to
          /\ \/ DoneWith(cn'[c]) /\ (Leaves(cn[c].to) \/ DoneWith(cn[c]))
             \/ /\ Stays(cn[c].to)
                /\ cn'[c].st = cn[c].st /\ cn'[c].off = cn[c].off
                /\ cn'[c].got = cn[c].got
                /\ cn'[c].live => cn[c].live
                /\ cn[c].cut => cn'[c].cut
    /\ \A c \in 1..Len(cn') : c > Len(cn) =>
          /\ cn'[c].to \in Shims /\ sh'[cn'[c].to].st \in Listening
          /\ cn'[c].st = "dialled" /\ cn'[c].got = <<>>

Fed ==
    /\ \A s \in Shims : ShimFine(s) /\ LogFine(s)
    /\ \A c \in 1..Len(cn) : ConnFine(c) /\ GotFine(c)

LEMMA Calm == Unfed => Fed'
<1> SUFFICES ASSUME Unfed PROVE Fed'
  OBVIOUS
<1>1. ShimIInv /\ ShimTypes /\ logf' = logf /\ cn' \in Seq(Conn)
  BY DEF Unfed, ShimIInv
<1>2. Len(cn) \in Nat /\ Len(cn') \in Nat /\ Len(cn') >= Len(cn)
  BY <1>1 DEF ShimTypes, Unfed
<1>3. \A s \in Shims : /\ Stays(s) \/ Leaves(s)
                       /\ sh[s].lost # "no" => sh'[s].lost # "no"
  BY DEF Unfed
<1>4. NothingLost' => NothingLost
  BY <1>3 DEF NothingLost
<1>5. ASSUME NEW s \in Shims, Leaves(s) PROVE ShimFine(s)' /\ LogFine(s)'
  BY <1>5 DEF ShimFine, LogFine, Leaves, Cleared, Running
<1>6. ASSUME NEW s \in Shims, Stays(s), ~Leaves(s) PROVE ShimFine(s)'
  <2>1. ShimFine(s)
    BY <1>1 DEF ShimIInv
  <2>2. \A c \in 1..Len(cn) : cn[c].to = s /\ cn[c].st # "over" =>
            c \in 1..Len(cn') /\ cn'[c].to = s /\ cn'[c].st = cn[c].st
    BY <1>2, <1>6 DEF Unfed, DoneWith
  <2>3. /\ sh'[s].relay = sh[s].relay /\ sh'[s].att = sh[s].att
        /\ sh'[s].taking = sh[s].taking /\ sh'[s].said = sh[s].said
        /\ sh'[s].feeding = sh[s].feeding
        /\ sh'[s].harness => sh[s].harness
        /\ sh'[s].st \in Running <=> sh[s].st \in Running
    BY <1>6 DEF Stays, SameFeed
  <2>4. sh[s].att # Nobody =>
            sh[s].att \in 1..Len(cn') /\ cn'[sh[s].att].to = s
    BY <1>2, <2>1 DEF ShimFine, Unfed
  <2>5. sh[s].relay # Nobody =>
          /\ sh[s].relay \in 1..Len(cn') /\ cn'[sh[s].relay].to = s
          /\ cn'[sh[s].relay].st \in {"on", "leaving"}
    BY <2>1, <2>2 DEF ShimFine
  <2>6. sh[s].taking # Nobody =>
          /\ sh[s].taking \in 1..Len(cn') /\ cn'[sh[s].taking].to = s
          /\ cn'[sh[s].taking].st = "asked" /\ sh[s].att = Nobody
    BY <2>1, <2>2 DEF ShimFine
  <2> QED
    BY <2>1, <2>3, <2>4, <2>5, <2>6 DEF ShimFine
<1>7. ASSUME NEW s \in Shims, Stays(s) PROVE LogFine(s)'
  <2>1. LogFine(s) /\ sh'[s].said = sh[s].said
    BY <1>1, <1>7 DEF ShimIInv, Stays, SameFeed
  <2>2. \A i \in 1..Len(logf) : logf[i][1] \in Shims
    BY <1>1, ShimElements DEF Line
  <2>3. sh'[s].st \in Running => sh[s].st \in Running
    BY <1>7 DEF Stays
  <2> QED
    BY <1>1, <1>3, <1>4, <2>1, <2>2, <2>3 DEF LogFine
<1>8. ASSUME NEW c \in 1..Len(cn), DoneWith(cn'[c]),
             Leaves(cn[c].to) \/ DoneWith(cn[c])
      PROVE  ConnFine(c)' /\ GotFine(c)'
  <2>1. /\ cn'[c].st = "over" /\ cn'[c].got = <<>> /\ ~cn'[c].live
        /\ cn'[c].cut
    BY <1>8 DEF DoneWith
  <2> QED
    BY <2>1 DEF ConnFine, GotFine
<1>9. ASSUME NEW c \in 1..Len(cn), Stays(cn[c].to),
             cn'[c].to = cn[c].to, cn'[c].st = cn[c].st,
             cn'[c].off = cn[c].off, cn'[c].got = cn[c].got,
             cn'[c].live => cn[c].live, cn[c].cut => cn'[c].cut
      PROVE  ConnFine(c)' /\ GotFine(c)'
  <2> DEFINE s == cn[c].to
  <2>1. ConnFine(c) /\ GotFine(c) /\ s \in Shims /\ cn[c] \in Conn
    BY <1>1, ShimElements DEF ShimIInv, Conn
  <2>2. /\ sh'[s].relay = sh[s].relay /\ sh'[s].att = sh[s].att
        /\ sh'[s].taking = sh[s].taking /\ sh'[s].said = sh[s].said
        /\ sh'[s].feeding = sh[s].feeding
        /\ sh'[s].st \in Running <=> sh[s].st \in Running
        /\ sh[s].st \in Listening \cup {"killing"}
              => sh'[s].st \in Listening \cup {"killing"}
    BY <1>9 DEF Stays, SameFeed
  <2>4. ConnFine(c)'
    BY <1>9, <2>1, <2>2 DEF ConnFine
  <2>5. GotFine(c)'
    <3>1. \A u \in Shims : sh[u].lost # "no" => sh'[u].lost # "no"
      BY <1>3
    <3> HIDE DEF s
    <3>2. cn[c].to = s
      BY DEF s
    <3> QED
      BY <1>1, <1>9, <2>1, <2>2, <3>1, <3>2, GotStays
  <2> QED
    BY <2>4, <2>5
<1>10. ASSUME NEW c \in 1..Len(cn'), c > Len(cn)
       PROVE  ConnFine(c)' /\ GotFine(c)'
  <2>1. /\ cn'[c].to \in Shims /\ sh'[cn'[c].to].st \in Listening
        /\ cn'[c].st = "dialled" /\ cn'[c].got = <<>>
    BY <1>10 DEF Unfed
  <2>2. sh'[cn'[c].to].relay # c
    <3>1. ShimFine(cn'[c].to) /\ c # Nobody
      BY <1>1, <1>2, <1>10, <2>1 DEF ShimIInv, Nobody
    <3>2. Stays(cn'[c].to)
      BY <1>3, <2>1 DEF Leaves, Listening
    <3> QED
      BY <1>2, <1>10, <3>1, <3>2 DEF ShimFine, Stays, SameFeed
  <2> QED
    BY <2>1, <2>2 DEF ConnFine, GotFine
<1>11. ASSUME NEW c \in 1..Len(cn') PROVE ConnFine(c)' /\ GotFine(c)'
  <2>1. c \in 1..Len(cn) \/ c > Len(cn)
    BY <1>2
  <2> QED
    BY <1>8, <1>9, <1>10, <2>1 DEF Unfed
<1>12. ASSUME NEW s \in Shims PROVE ShimFine(s)' /\ LogFine(s)'
  BY <1>3, <1>5, <1>6, <1>7
<1> QED
  BY <1>11, <1>12 DEF Fed

-----------------------------------------------------------------------------
(* The host's steps.                                                       *)
LEMMA HostSet ==
    ASSUME NEW h \in Host
    PROVE  /\ \A v \in {"idle", "waiting", "spawn", "connect", "attached",
                       "reaping"} : [h EXCEPT !.phase = v] \in Host
           /\ \A v \in Nat : /\ [h EXCEPT !.conn = v] \in Host
                             /\ [h EXCEPT !.crashes = v] \in Host
           /\ \A v \in 0..MaxShims : /\ [h EXCEPT !.child = v] \in Host
                                     /\ [h EXCEPT !.spawned = v] \in Host
                                     /\ [h EXCEPT !.of = v] \in Host
           /\ \A v \in Nat \cup {NoOffset} : [h EXCEPT !.offset = v] \in Host
           /\ \A v \in BOOLEAN : [h EXCEPT !.stray = v] \in Host
  BY DEF Host

OneMore(d, off) ==
    LET n == Len(cn) + 1
    IN  /\ d \in Seq(Conn) /\ Len(d) = n /\ n <= MaxConns /\ n \in Nat
        /\ \A c \in 1..Len(cn) : d[c] = cn[c]
        /\ d[n].to = path /\ d[n].st = "dialled" /\ d[n].off = off
        /\ d[n].got = <<>> /\ d[n].live

(* Dialling adds a connection to the shim that the path leads to.          *)
LEMMA Dials ==
    ASSUME ShimTypes, Reachable, CanDial, NEW off \in Nat,
           NEW sent \in Seq({"shutdown"})
    PROVE  OneMore(Dialled(off, sent), off)
<1> DEFINE k == Connection(path, off, sent)
<1>1. /\ k \in Conn /\ k.to = path /\ k.st = "dialled" /\ k.off = off
      /\ k.got = <<>> /\ k.live
  <2>1. <<>> \in Seq(Line) /\ path \in Shims
    BY DEF Reachable, ShimTypes, Shims, Nobody
  <2> QED
    BY <2>1 DEF Connection, Conn
<1>2. Len(cn) \in Nat /\ Len(cn) < MaxConns /\ MaxConns \in Nat
  BY ShimAssumption DEF ShimTypes, CanDial
<1>3. Dialled(off, sent) = Append(cn, k)
  BY DEF Dialled
<1> HIDE DEF k
<1>4. /\ Append(cn, k) \in Seq(Conn) /\ Len(Append(cn, k)) = Len(cn) + 1
      /\ \A c \in 1..Len(cn) : Append(cn, k)[c] = cn[c]
      /\ Append(cn, k)[Len(cn) + 1] = k
  BY <1>1 DEF ShimTypes
<1> QED
  BY <1>1, <1>2, <1>3, <1>4 DEF OneMore

(* Closing an end changes nothing else about the connections.              *)
LEMMA ClosingEnd ==
    ASSUME NEW conns \in Seq(Conn), NEW c \in Nat,
           c = Nobody \/ c \in 1..Len(conns)
    PROVE  /\ Closes(conns, c) \in Seq(Conn)
           /\ Len(Closes(conns, c)) = Len(conns)
           /\ \A d \in 1..Len(conns) :
                 /\ d # c => Closes(conns, c)[d] = conns[d]
                 /\ Closes(conns, c)[d].to = conns[d].to
                 /\ Closes(conns, c)[d].st = conns[d].st
                 /\ Closes(conns, c)[d].off = conns[d].off
                 /\ Closes(conns, c)[d].got = conns[d].got
                 /\ Closes(conns, c)[d].cut = conns[d].cut
                 /\ Closes(conns, c)[d].live => conns[d].live
<1>1. CASE c = Nobody
  BY <1>1 DEF Closes
<1>2. CASE c # Nobody
  <2> DEFINE k == [conns[c] EXCEPT !.live = FALSE]
  <2>1. c \in 1..Len(conns) /\ conns[c] \in Conn
    BY <1>2
  <2>2. /\ k \in Conn /\ k.to = conns[c].to /\ k.st = conns[c].st
        /\ k.off = conns[c].off /\ k.got = conns[c].got
        /\ k.cut = conns[c].cut /\ ~k.live
    <3>1. k \in Conn
      BY <2>1, ConnSet
    <3>2. /\ k.to = conns[c].to /\ k.st = conns[c].st
          /\ k.off = conns[c].off /\ k.got = conns[c].got
          /\ k.cut = conns[c].cut
      BY <2>1 DEF Conn
    <3>3. ~k.live
      BY <2>1 DEF Conn
    <3> QED
      BY <3>1, <3>2, <3>3
  <2>3. Closes(conns, c) = [conns EXCEPT ![c] = k]
    BY <1>2 DEF Closes
  <2> HIDE DEF k
  <2> QED
    BY <2>1, <2>2, <2>3
<1> QED
  BY <1>1, <1>2

(* Steps of the host that start and stop no shim.  While it waits for the  *)
(* shim that it started, it is done with it only when that one listens or  *)
(* is gone, or if the host dies.                                           *)
LEMMA HostStep ==
    ASSUME ShimIInv, UNCHANGED <<sh, path, logf>>, hs' \in Host,
           hs'.spawned = hs.spawned,
           ~hs'.stray => /\ ~hs.stray
                         /\ hs.phase = "connect" =>
                               sh[hs.child].st \notin Binding \cup {"bound"},
           cn' \in Seq(Conn), Len(cn') >= Len(cn), Len(cn') <= MaxConns,
           \A c \in 1..Len(cn) :
               /\ cn'[c].to = cn[c].to /\ cn'[c].st = cn[c].st
               /\ cn'[c].off = cn[c].off /\ cn'[c].got = cn[c].got
               /\ cn'[c].live => cn[c].live
               /\ cn'[c].cut = cn[c].cut,
           \A c \in 1..Len(cn') : c > Len(cn) =>
               /\ Reachable /\ cn'[c].to = path
               /\ cn'[c].st = "dialled" /\ cn'[c].got = <<>>,
           HostFine'
    PROVE  ShimIInv'
<1>1. ShimTypes
  BY DEF ShimIInv
<1>2. Fed'
  <2>1. ASSUME NEW s \in Shims PROVE Stays(s)
    BY DEF Stays, SameFeed
  <2>2. Reachable => path \in Shims /\ sh[path].st \in Listening
    BY <1>1, ShimElements DEF Reachable
  <2>3. \A c \in 1..Len(cn) : cn[c].to \in Shims
    BY <1>1, ShimElements DEF Conn
  <2>4. Unfed
    BY <2>1, <2>2, <2>3 DEF Unfed
  <2> QED
    BY <2>4, Calm
<1>3. ASSUME NEW s \in Shims PROVE PathFine(s)'
  <2>1. PathFine(s)
    BY DEF ShimIInv
  <2> QED
    BY <2>1 DEF PathFine
<1>4. Alone'
  <2>1. Reachable' = Reachable
    BY DEF Reachable
  <2>2. Alone
    BY DEF ShimIInv
  <2> QED
    BY <2>1, <2>2 DEF Alone
<1> QED
  BY <1>1, <1>2, <1>3, <1>4 DEF ShimIInv, Fed, ShimTypes

LEMMA OneMoreStep ==
    ASSUME ShimIInv, UNCHANGED <<sh, path, logf>>, hs' \in Host,
           hs'.spawned = hs.spawned,
           ~hs'.stray => /\ ~hs.stray
                         /\ hs.phase = "connect" =>
                               sh[hs.child].st \notin Binding \cup {"bound"},
           Reachable, NEW off, OneMore(cn', off), HostFine'
    PROVE  ShimIInv'
<1>1. /\ cn' \in Seq(Conn) /\ Len(cn') = Len(cn) + 1 /\ Len(cn') <= MaxConns
      /\ \A c \in 1..Len(cn) : cn'[c] = cn[c]
      /\ cn'[Len(cn) + 1].to = path /\ cn'[Len(cn) + 1].st = "dialled"
      /\ cn'[Len(cn) + 1].got = <<>> /\ Len(cn) \in Nat
  BY DEF OneMore, ShimIInv, ShimTypes
<1>2. \A c \in 1..Len(cn') : c > Len(cn) => c = Len(cn) + 1
  BY <1>1
<1> QED
  BY <1>1, <1>2, HostStep

(* A host in phase p with this connection and child, otherwise as it was.  *)
Phase == {"idle", "waiting", "spawn", "connect", "attached", "reaping"}

HostAs(g, p, conn, child) ==
    /\ g \in Host /\ g.phase = p /\ g.conn = conn /\ g.child = child
    /\ g.offset = hs.offset /\ g.spawned = hs.spawned
    /\ g.of = hs.of /\ g.stray = hs.stray

LEMMA HostMoves ==
    ASSUME hs \in Host, NEW p \in Phase
    PROVE  /\ HostAs(Enters(p), p, hs.conn, hs.child)
           /\ \A v \in Nat :
                 HostAs([Enters(p) EXCEPT !.conn = v], p, v, hs.child)
           /\ \A w \in 0..MaxShims :
                 HostAs([Enters(p) EXCEPT !.child = w], p, hs.conn, w)
           /\ \A v \in Nat, w \in 0..MaxShims :
                 HostAs([Enters(p) EXCEPT !.conn = v, !.child = w], p, v, w)
<1> DEFINE f == Enters(p)
<1>1. HostAs(f, p, hs.conn, hs.child)
  BY HostSet DEF Host, HostAs, Enters, Phase
<1> HIDE DEF f
<1>2. ASSUME NEW v \in Nat PROVE HostAs([f EXCEPT !.conn = v], p, v, hs.child)
  BY <1>1, HostSet DEF Host, HostAs
<1>3. ASSUME NEW w \in 0..MaxShims
      PROVE  HostAs([f EXCEPT !.child = w], p, hs.conn, w)
  BY <1>1, HostSet DEF Host, HostAs
<1>4. ASSUME NEW v \in Nat, NEW w \in 0..MaxShims
      PROVE  HostAs([f EXCEPT !.conn = v, !.child = w], p, v, w)
  <2> DEFINE e == [f EXCEPT !.conn = v]
  <2>1. HostAs(e, p, v, hs.child)
    BY <1>2
  <2> HIDE DEF e
  <2>2. HostAs([e EXCEPT !.child = w], p, v, w)
    BY <2>1, HostSet DEF Host, HostAs
  <2>3. [f EXCEPT !.conn = v, !.child = w] = [e EXCEPT !.child = w]
    BY DEF e
  <2> QED
    BY <2>2, <2>3
<1> QED
  BY <1>1, <1>2, <1>3, <1>4 DEF f

-----------------------------------------------------------------------------
(* A shim's process is gone, with its ends of its connections; nothing     *)
(* happens to the file at the path.  The host goes on, or it is done with  *)
(* the shim.                                                               *)
LEMMA Down ==
    ASSUME ShimIInv, NEW s \in Shims, sh' = Gone(s), UNCHANGED <<path, logf>>,
           s <= hs.spawned, hs' \in Host, hs'.spawned = hs.spawned,
           hs'.stray = hs.stray,
           \/ hs' = hs
           \/ /\ hs.phase \in {"connect", "reaping"} /\ hs.child = s
              /\ hs'.phase = "idle" /\ hs'.offset = NoOffset
              /\ hs'.conn = Nobody /\ hs'.child = Nobody,
           cn' \in Seq(Conn), Len(cn') = Len(cn),
           \A c \in 1..Len(cn) :
               /\ cn'[c].to = cn[c].to
               /\ \/ cn[c].to = s /\ DoneWith(cn'[c])
                  \/ /\ cn[c].to # s
                     /\ cn'[c].st = cn[c].st /\ cn'[c].off = cn[c].off
                     /\ cn'[c].got = cn[c].got /\ cn'[c].cut = cn[c].cut
                     /\ cn'[c].live => cn[c].live
                     /\ hs' = hs => cn'[c].live = cn[c].live
    PROVE  ShimIInv'
<1>1. ShimTypes /\ HostFine /\ Alone /\ Len(cn) \in Nat
  BY ShimElements DEF ShimIInv
<1>2. /\ sh' \in [Shims -> Shim] /\ \A u \in Shims : u # s => sh'[u] = sh[u]
      /\ sh'[s].st = "gone" /\ Cleared(sh'[s]) /\ sh'[s].lost = sh[s].lost
  BY <1>1, OneGone
<1>3. Fed'
  <2>1. \A u \in Shims : u # s => Stays(u)
    BY <1>2 DEF Stays, SameFeed
  <2>2. Leaves(s)
    BY <1>2 DEF Leaves
  <2>3. \A c \in 1..Len(cn) : cn[c].to \in Shims
    BY <1>1, ShimElements DEF Conn
  <2>4. \A u \in Shims : sh[u].lost # "no" => sh'[u].lost # "no"
    BY <1>2
  <2>5. \A c \in 1..Len(cn') : ~(c > Len(cn))
    BY <1>1
  <2>6. ASSUME NEW c \in 1..Len(cn)
        PROVE  /\ cn'[c].to = cn[c].to
               /\ \/ DoneWith(cn'[c]) /\ (Leaves(cn[c].to) \/ DoneWith(cn[c]))
                  \/ /\ Stays(cn[c].to)
                     /\ cn'[c].st = cn[c].st /\ cn'[c].off = cn[c].off
                     /\ cn'[c].got = cn[c].got
                     /\ cn'[c].live => cn[c].live
                     /\ cn[c].cut => cn'[c].cut
    BY <2>1, <2>2, <2>3
  <2>7. Len(cn') >= Len(cn)
    BY <1>1
  <2>8. Unfed
    BY <2>1, <2>2, <2>4, <2>5, <2>6, <2>7 DEF Unfed
  <2> QED
    BY <2>8, Calm
<1>4. ASSUME NEW u \in Shims PROVE PathFine(u)'
  <2>1. PathFine(u) /\ PathFine(s)
    BY DEF ShimIInv
  <2>2. CASE u = s
    <3>1. ~(s > hs.spawned)
      BY <1>1, ShimElements DEF ShimTypes, Host
    <3> QED
      BY <1>2, <2>1, <2>2, <3>1 DEF PathFine, Bound
  <2>3. CASE u # s
    <3>1. sh'[u] = sh[u]
      BY <1>2, <2>3
    <3>2. sh[u].saw \subseteq Shims
      BY <1>1, ShimElements DEF Shim
    <3>3. \A t \in Shims : sh[t].st \notin Binding \cup {"none"}
                              => sh'[t].st \notin Binding \cup {"none"}
      BY <1>2 DEF Binding
    <3> QED
      BY <2>1, <3>1, <3>2, <3>3 DEF PathFine
  <2> QED
    BY <2>2, <2>3
<1>5. Reachable' => Reachable
  BY <1>1, <1>2, ShimElements DEF Reachable, Listening
<1>6. Alone'
  <2> SUFFICES ASSUME ~hs.stray, NEW u \in Shims
               PROVE  /\ sh'[u].lost # "robbed"
                      /\ sh'[u].st \in Binding \cup {"bound"} =>
                            hs'.phase = "connect" /\ hs'.child = u
                      /\ sh'[u].st = "stale" => ~Reachable'
    BY DEF Alone
  <2>1. /\ sh[u].lost # "robbed"
        /\ sh[u].st \in Binding \cup {"bound"} =>
              hs.phase = "connect" /\ hs.child = u
        /\ sh[u].st = "stale" => ~Reachable
    BY <1>1 DEF Alone
  <2>2. CASE u = s
    BY <1>2, <2>1, <2>2 DEF Binding
  <2>3. CASE u # s
    BY <1>2, <1>5, <2>1, <2>3
  <2> QED
    BY <2>2, <2>3
<1>7. HostFine'
  <2>1. CASE hs' # hs
    <3>1. hs'.spawned \in Nat
      BY DEF Host
    <3> QED
      BY <2>1, <3>1 DEF HostFine, Nobody
  <2>2. CASE hs' = hs
    <3>1. \A u \in Shims : sh'[u].st \in Binding => sh[u].st \in Binding
      BY <1>2 DEF Binding
    <3>2. \A c \in 1..Len(cn) :
              /\ cn'[c].to = cn[c].to
              /\ cn'[c].st = "over" \/ /\ cn'[c].st = cn[c].st
                                       /\ cn'[c].live = cn[c].live
      BY <2>2 DEF DoneWith
    <3> QED
      BY <1>1, <2>2, <3>1, <3>2 DEF HostFine
  <2> QED
    BY <2>1, <2>2
<1> QED
  BY <1>1, <1>2, <1>3, <1>4, <1>6, <1>7 DEF ShimIInv, Fed, ShimTypes

(* ... and its connections are severed, or were over already.              *)
LEMMA DownSevered ==
    ASSUME ShimIInv, NEW s \in Shims, sh' = Gone(s), UNCHANGED <<path, logf>>,
           s <= hs.spawned,
           \/ cn' = Severed(s)
           \/ cn' = cn /\ sh[s].st \notin Listening \cup {"killing"},
           hs' \in Host, hs'.spawned = hs.spawned,
           hs'.stray = hs.stray,
           \/ hs' = hs
           \/ /\ hs.phase \in {"connect", "reaping"} /\ hs.child = s
              /\ hs'.phase = "idle" /\ hs'.offset = NoOffset
              /\ hs'.conn = Nobody /\ hs'.child = Nobody
    PROVE  ShimIInv'
<1>1. ShimTypes /\ Len(cn) \in Nat /\ cn \in Seq(Conn)
  BY ShimElements DEF ShimIInv, ShimTypes
<1>2. \A c \in 1..Len(cn) : cn[c] \in Conn
  BY <1>1, ShimElements
<1>3. CASE cn' = Severed(s)
  <2>1. /\ cn' \in Seq(Conn) /\ Len(cn') = Len(cn)
        /\ \A c \in 1..Len(cn) :
              cn'[c] = IF cn[c].to = s THEN Over(cn[c]) ELSE cn[c]
    BY <1>1, <1>3, OneSevered
  <2>2. \A c \in 1..Len(cn) :
            IF cn[c].to = s THEN cn'[c].to = s /\ DoneWith(cn'[c])
            ELSE cn'[c] = cn[c]
    BY <1>2, <2>1, GoneOver
  <2> QED
    BY <2>1, <2>2, Down
<1>4. CASE cn' = cn /\ sh[s].st \notin Listening \cup {"killing"}
  <2>1. ASSUME NEW c \in 1..Len(cn), cn[c].to = s PROVE DoneWith(cn[c])
    <3>1. ConnFine(c)
      BY DEF ShimIInv
    <3> QED
      BY <1>4, <2>1, <3>1 DEF ConnFine, DoneWith
  <2> QED
    BY <1>1, <1>4, <2>1, Down
<1> QED
  BY <1>3, <1>4

LEMMA RetireStep == ShimIInv /\ Retire => ShimIInv'
<1> SUFFICES ASSUME ShimIInv, Retire PROVE ShimIInv'
  OBVIOUS
<1>1. /\ ShimTypes /\ HostFine /\ hs \in Host /\ hs.phase = "idle"
      /\ hs.conn = Nobody /\ hs.offset = NoOffset /\ Len(cn) \in Nat
  BY ShimElements DEF ShimIInv, ShimTypes, HostFine, Retire, InPhase
<1>2. UNCHANGED <<sh, path, logf>>
  BY DEF Retire
<1>3. CASE ~Reachable
  <2>1. hs' = Enters("spawn") /\ cn' = cn
    BY <1>3 DEF Retire
  <2>2. HostAs(hs', "spawn", hs.conn, hs.child)
    BY <1>1, <2>1, HostMoves DEF Phase
  <2>3. HostFine'
    BY <1>1, <1>2, <2>1, <2>2 DEF HostFine, HostAs
  <2> QED
    BY <1>1, <1>2, <2>1, <2>2, <2>3, HostStep DEF ShimTypes, HostAs
<1>4. CASE Reachable
  <2>1. /\ CanDial /\ cn' = Dialled(0, <<"shutdown">>)
        /\ hs' = [Enters("waiting") EXCEPT !.conn = Len(cn')]
    BY <1>4 DEF Retire
  <2>2. 0 \in Nat /\ <<"shutdown">> \in Seq({"shutdown"})
    OBVIOUS
  <2>3. OneMore(cn', 0)
    BY <1>1, <1>4, <2>1, <2>2, Dials, Zenon
  <2>4. Len(cn') \in Nat /\ Len(cn') >= 1
    BY <1>1, <2>3 DEF OneMore
  <2>5. HostAs(hs', "waiting", Len(cn'), hs.child)
    BY <1>1, <2>1, <2>4, HostMoves, Zenon DEF Phase
  <2>6. HostFine'
    BY <1>1, <1>2, <2>4, <2>5 DEF HostFine, HostAs
  <2> QED
    BY <1>1, <1>2, <1>4, <2>3, <2>5, <2>6, OneMoreStep DEF HostAs
<1> QED
  BY <1>3, <1>4

LEMMA RetireEndsStep == ShimIInv /\ RetireEnds => ShimIInv'
<1> SUFFICES ASSUME ShimIInv, RetireEnds PROVE ShimIInv'
  OBVIOUS
<1>1. /\ ShimTypes /\ HostFine /\ hs \in Host /\ hs.phase = "waiting"
      /\ hs.conn \in 1..Len(cn) /\ hs.offset = NoOffset /\ cn \in Seq(Conn)
      /\ hs.conn \in Nat /\ Len(cn) \in Nat /\ Len(cn) <= MaxConns
  BY DEF ShimIInv, ShimTypes, HostFine, RetireEnds, InPhase, Host
<1>2. UNCHANGED <<sh, path, logf>> /\ cn' = Closes(cn, hs.conn)
  BY DEF RetireEnds
<1>3. \/ hs' = [Enters("spawn") EXCEPT !.conn = Nobody]
      \/ hs' = [Enters("idle") EXCEPT !.conn = Nobody]
  BY DEF RetireEnds
<1>4. \/ HostAs(hs', "spawn", Nobody, hs.child)
      \/ HostAs(hs', "idle", Nobody, hs.child)
  <2>1. Nobody \in Nat /\ "spawn" \in Phase /\ "idle" \in Phase
    BY DEF Nobody, Phase
  <2> QED
    BY <1>1, <1>3, <2>1, HostMoves, Zenon
<1>5. /\ cn' \in Seq(Conn) /\ Len(cn') = Len(cn)
      /\ \A d \in 1..Len(cn) :
            /\ cn'[d].to = cn[d].to /\ cn'[d].st = cn[d].st
            /\ cn'[d].off = cn[d].off /\ cn'[d].got = cn[d].got
            /\ cn'[d].cut = cn[d].cut
            /\ cn'[d].live => cn[d].live
  BY <1>1, <1>2, ClosingEnd
<1>6. HostFine'
  BY <1>1, <1>2, <1>4, <1>5 DEF HostFine, HostAs
<1> QED
  BY <1>1, <1>2, <1>4, <1>5, <1>6, HostStep DEF HostAs

LEMMA SpawnStep == ShimIInv /\ SpawnShim => ShimIInv'
<1> SUFFICES ASSUME ShimIInv, SpawnShim PROVE ShimIInv'
  OBVIOUS
<1> DEFINE s == hs.spawned + 1
<1>1. /\ ShimTypes /\ HostFine /\ Alone /\ hs \in Host /\ hs.phase = "spawn"
      /\ hs.conn = Nobody /\ hs.offset = NoOffset /\ cn \in Seq(Conn)
      /\ Len(cn) \in Nat
  BY ShimElements DEF ShimIInv, ShimTypes, HostFine, SpawnShim, InPhase
<1>2. s \in Shims /\ s \in 0..MaxShims /\ s # Nobody /\ hs.spawned \in Nat
  BY <1>1, ShimAssumption DEF SpawnShim, Host, Shims, Nobody
<1>3. UNCHANGED <<path, logf, cn>>
  BY DEF SpawnShim
<1>4. /\ hs' \in Host /\ hs'.phase = "connect" /\ hs'.conn = Nobody
      /\ hs'.child = s /\ hs'.spawned = s /\ hs'.offset = NoOffset
      /\ hs'.stray = hs.stray
  <2> DEFINE f == Enters("connect")
             e == [f EXCEPT !.spawned = s]
  <2>1. HostAs(f, "connect", hs.conn, hs.child)
    BY <1>1, HostMoves DEF Phase
  <2>2. hs' = [e EXCEPT !.child = s]
    BY DEF SpawnShim
  <2> HIDE DEF f, s
  <2>3. /\ e \in Host /\ e.phase = "connect" /\ e.conn = Nobody
        /\ e.spawned = s /\ e.offset = NoOffset /\ e.stray = hs.stray
    <3>1. e \in Host
      BY <1>2, <2>1, HostSet DEF HostAs
    <3> QED
      BY <1>1, <1>2, <2>1, <3>1 DEF HostAs, Host
  <2> HIDE DEF e
  <2> QED
    BY <1>2, <2>2, <2>3, HostSet DEF Host
<1>5. /\ PathFine(s) /\ ShimFine(s) /\ sh[s].st = "none" /\ sh[s] \in Shim
  BY <1>1, <1>2, ShimElements DEF ShimIInv, PathFine
<1>6. /\ sh' \in [Shims -> Shim] /\ \A u \in Shims : u # s => sh'[u] = sh[u]
      /\ Moved(sh[s], sh'[s], "starting", sh[s].harness, sh[s].lost, sh[s].saw)
  <2> DEFINE r == [sh[s] EXCEPT !.st = "starting"]
  <2>1. Moved(sh[s], r, "starting", sh[s].harness, sh[s].lost, sh[s].saw)
    BY <1>5, SetSt DEF ShimSt, Binding
  <2>2. sh' = [sh EXCEPT ![s] = r]
    BY DEF SpawnShim
  <2> HIDE DEF r, s
  <2> QED
    BY <1>1, <1>2, <2>1, <2>2 DEF ShimTypes, Moved
<1>7. \A t \in Nat : t > s => t > hs.spawned
  BY <1>2
<1>8. s \in Nat /\ ~(s > s) /\ \A u \in Shims : u \in Nat
  BY <1>1, <1>2, ShimElements
<1> HIDE DEF s
<1>9. Fed'
  <2>1. Stays(s)
    BY <1>5, <1>6 DEF Stays, Moved, Running, Listening
  <2>2. \A u \in Shims : u # s => Stays(u)
    BY <1>6 DEF Stays, SameFeed
  <2>3. \A u \in Shims : sh[u].lost # "no" => sh'[u].lost # "no"
    BY <1>6 DEF Moved
  <2>4. \A c \in 1..Len(cn) : cn[c].to \in Shims
    BY <1>1, ShimElements DEF Conn
  <2>5. Unfed
    BY <1>1, <1>3, <2>1, <2>2, <2>3, <2>4 DEF Unfed
  <2> QED
    BY <2>5, Calm
<1>10. ASSUME NEW u \in Shims PROVE PathFine(u)'
  <2>1. PathFine(u) /\ u \in Nat
    BY <1>8 DEF ShimIInv
  <2>2. CASE u = s
    BY <1>3, <1>4, <1>5, <1>6, <1>8, <2>1, <2>2 DEF PathFine, Moved, Bound
  <2>3. CASE u # s
    <3>1. sh'[u] = sh[u] /\ (u > hs'.spawned => u > hs.spawned)
      BY <1>4, <1>6, <1>7, <2>1, <2>3
    <3>2. sh[u].st = "stale" => \A t \in sh[u].saw :
             path # t /\ sh'[t].st \notin Binding \cup {"none"}
      <4>1. sh[u].saw \subseteq Shims
        BY <1>1, ShimElements DEF Shim
      <4>2. sh[u].st = "stale" => s \notin sh[u].saw
        BY <1>5, <2>1 DEF PathFine
      <4> QED
        BY <1>6, <2>1, <4>1, <4>2 DEF PathFine
    <3> QED
      BY <1>3, <2>1, <3>1, <3>2 DEF PathFine
  <2> QED
    BY <2>2, <2>3
<1>11. Alone'
  <2> SUFFICES ASSUME ~hs.stray, NEW u \in Shims
               PROVE  /\ sh'[u].lost # "robbed"
                      /\ sh'[u].st \in Binding \cup {"bound"} =>
                            hs'.phase = "connect" /\ hs'.child = u
                      /\ sh'[u].st = "stale" => ~Reachable'
    BY <1>4 DEF Alone
  <2>1. sh[u].lost # "robbed" /\ sh[u].st \notin Binding \cup {"bound"}
    BY <1>1 DEF Alone
  <2> QED
    BY <1>4, <1>6, <2>1 DEF Moved, Binding
<1>12. HostFine'
  BY <1>1, <1>2, <1>3, <1>4, <1>8 DEF HostFine
<1> QED
  BY <1>1, <1>3, <1>4, <1>6, <1>9, <1>10, <1>11, <1>12
     DEF ShimIInv, Fed, ShimTypes

LEMMA ConnectStep == ShimIInv /\ ConnectToChild => ShimIInv'
<1> SUFFICES ASSUME ShimIInv, ConnectToChild PROVE ShimIInv'
  OBVIOUS
<1>1. /\ ShimTypes /\ HostFine /\ hs \in Host /\ hs.phase = "connect"
      /\ hs.conn = Nobody /\ hs.offset = NoOffset
      /\ hs.child \in Shims /\ hs.child \in 0..MaxShims
      /\ cn \in Seq(Conn) /\ Len(cn) \in Nat /\ Len(cn) <= MaxConns
  <2>1. /\ ShimTypes /\ HostFine /\ hs \in Host /\ hs.phase = "connect"
        /\ hs.conn = Nobody /\ hs.offset = NoOffset /\ hs.child # Nobody
        /\ hs.child \in 0..MaxShims
        /\ cn \in Seq(Conn) /\ Len(cn) \in Nat /\ Len(cn) <= MaxConns
    BY DEF ShimIInv, ShimTypes, HostFine, ConnectToChild, InPhase, Host
  <2> QED
    BY <2>1, ShimAssumption DEF Shims, Nobody
<1>2. UNCHANGED <<path, logf>>
  BY DEF ConnectToChild
<1>3. ASSUME hs' = [Enters("idle") EXCEPT !.child = Nobody]
      PROVE  HostAs(hs', "idle", hs.conn, Nobody)
  <2>1. Nobody \in 0..MaxShims /\ "idle" \in Phase
    BY ShimAssumption DEF Nobody, Phase
  <2> QED
    BY <1>1, <1>3, <2>1, HostMoves, Zenon
<1>4. CASE /\ Reachable /\ path = hs.child /\ CanDial
           /\ cn' = Dialled(0, <<>>)
           /\ hs' = [Enters("attached") EXCEPT !.conn = Len(cn')]
           /\ UNCHANGED sh
  <2>1. 0 \in Nat /\ <<>> \in Seq({"shutdown"})
    OBVIOUS
  <2>2. OneMore(cn', 0)
    BY <1>1, <1>4, <2>1, Dials, Zenon
  <2>3. Len(cn') \in Nat /\ Len(cn') >= 1 /\ cn'[Len(cn')].live
    BY <1>1, <2>2 DEF OneMore
  <2>4. HostAs(hs', "attached", Len(cn'), hs.child)
    BY <1>1, <1>4, <2>3, HostMoves, Zenon DEF Phase
  <2>5. sh[hs.child].st \notin Binding \cup {"bound"}
    BY <1>4 DEF Reachable, Listening, Binding
  <2>6. HostFine'
    BY <1>1, <1>2, <1>4, <2>3, <2>4 DEF HostFine, HostAs
  <2> QED
    BY <1>1, <1>2, <1>4, <2>2, <2>4, <2>5, <2>6, OneMoreStep DEF HostAs
<1>5. CASE /\ sh[hs.child].st = "gone"
           /\ hs' = [Enters("idle") EXCEPT !.child = Nobody]
           /\ UNCHANGED <<sh, cn>>
  <2>1. HostAs(hs', "idle", hs.conn, Nobody)
    BY <1>3, <1>5
  <2>2. HostFine'
    BY <1>1, <1>2, <1>5, <2>1 DEF HostFine, HostAs, Host, Nobody
  <2>3. sh[hs.child].st \notin Binding \cup {"bound"}
    BY <1>5 DEF Binding
  <2> QED
    BY <1>1, <1>2, <1>5, <2>1, <2>2, <2>3, HostStep DEF HostAs
<1>6. CASE /\ hs' = [Enters("idle") EXCEPT !.child = Nobody]
           /\ sh' = Gone(hs.child) /\ cn' = Severed(hs.child)
  <2>1. HostAs(hs', "idle", hs.conn, Nobody)
    BY <1>3, <1>6
  <2>2. hs.child <= hs.spawned
    BY <1>1 DEF HostFine
  <2> QED
    BY <1>1, <1>2, <1>6, <2>1, <2>2, DownSevered DEF HostAs
<1> QED
  BY <1>4, <1>5, <1>6 DEF ConnectToChild

LEMMA DispatchStep == ShimIInv /\ DispatchPrompt => ShimIInv'
<1> SUFFICES ASSUME ShimIInv, DispatchPrompt PROVE ShimIInv'
  OBVIOUS
<1> DEFINE s == cn[hs.conn].to
           alone == path = s /\ \A t \in Shims : sh[t].st \notin Binding
           w == IF alone THEN s ELSE Nobody
<1>1. /\ ShimTypes /\ HostFine /\ hs \in Host /\ hs.phase = "attached"
      /\ hs.conn \in 1..Len(cn) /\ cn \in Seq(Conn)
      /\ Len(cn) \in Nat /\ Len(cn) <= MaxConns
  BY ShimElements
     DEF ShimIInv, ShimTypes, HostFine, DispatchPrompt, InPhase
<1>2. UNCHANGED <<sh, path, logf, cn>>
  BY DEF DispatchPrompt
<1>3. s \in Shims
  BY <1>1, ShimElements DEF Conn
<1>4. w \in 0..MaxShims /\ Len(logf) \in Nat
  BY <1>1, <1>3, ShimAssumption DEF Shims, Nobody, ShimTypes
<1>5. /\ hs' \in Host /\ hs'.phase = "attached" /\ hs'.conn = hs.conn
      /\ hs'.child = hs.child /\ hs'.spawned = hs.spawned /\ hs'.of = w
      /\ hs'.stray = hs.stray
  <2> DEFINE e == [hs EXCEPT !.offset = Len(logf)]
  <2>1. hs' = [e EXCEPT !.of = w]
    BY DEF DispatchPrompt
  <2> HIDE DEF w
  <2>2. /\ e \in Host /\ e.phase = "attached" /\ e.conn = hs.conn
        /\ e.child = hs.child /\ e.spawned = hs.spawned
        /\ e.stray = hs.stray
    BY <1>1, <1>4, HostSet DEF Host
  <2> HIDE DEF e
  <2> QED
    BY <1>4, <2>1, <2>2, HostSet DEF Host
<1>6. w # Nobody => /\ \A t \in Shims : sh[t].st \notin Binding
                    /\ path = w /\ w = cn[hs.conn].to
  OBVIOUS
<1> HIDE DEF w
<1>7. HostFine'
  BY <1>1, <1>2, <1>5, <1>6 DEF HostFine
<1> QED
  BY <1>1, <1>2, <1>5, <1>7, HostStep

LEMMA TurnOverStep == ShimIInv /\ TurnOver => ShimIInv'
<1> SUFFICES ASSUME ShimIInv, TurnOver PROVE ShimIInv'
  OBVIOUS
<1>1. /\ ShimTypes /\ HostFine /\ hs \in Host /\ hs.phase = "attached"
      /\ hs' = [hs EXCEPT !.offset = NoOffset]
      /\ UNCHANGED <<sh, path, logf, cn>> /\ cn \in Seq(Conn)
      /\ Len(cn) \in Nat /\ Len(cn) <= MaxConns
  BY ShimElements DEF ShimIInv, ShimTypes, TurnOver, InPhase
<1>2. /\ hs' \in Host /\ hs'.phase = hs.phase /\ hs'.conn = hs.conn
      /\ hs'.child = hs.child /\ hs'.spawned = hs.spawned
      /\ hs'.offset = NoOffset /\ hs'.stray = hs.stray
  <2>1. hs' \in Host
    BY <1>1, HostSet
  <2> QED
    BY <1>1, <2>1 DEF Host
<1>3. HostFine'
  BY <1>1, <1>2 DEF HostFine
<1> QED
  BY <1>1, <1>2, <1>3, HostStep

LEMMA ReleaseStep == ShimIInv /\ Release => ShimIInv'
<1> SUFFICES ASSUME ShimIInv, Release PROVE ShimIInv'
  OBVIOUS
<1>1. /\ ShimTypes /\ HostFine /\ hs \in Host /\ hs.phase = "attached"
      /\ hs.conn \in 1..Len(cn) /\ hs.offset = NoOffset /\ hs.conn \in Nat
      /\ cn[hs.conn].live \/ cn[hs.conn].st = "over"
      /\ Len(cn) \in Nat /\ Len(cn) <= MaxConns
  BY DEF ShimIInv, ShimTypes, HostFine, Release, InPhase, Host
<1>2. UNCHANGED <<sh, path, logf>>
  BY DEF Release
<1>3. /\ cn' \in Seq(Conn) /\ Len(cn') = Len(cn)
      /\ \A d \in 1..Len(cn) :
            /\ cn'[d].to = cn[d].to /\ cn'[d].st = cn[d].st
            /\ cn'[d].off = cn[d].off /\ cn'[d].got = cn[d].got
            /\ cn'[d].cut = cn[d].cut
            /\ cn'[d].live => cn[d].live
  <2>1. CASE cn[hs.conn].st = "over"
    BY <1>1, <2>1 DEF Release, ShimTypes
  <2>2. CASE cn[hs.conn].st # "over"
    <3> DEFINE k == cn[hs.conn]
               q == Append(k.sent, "shutdown")
               e == [k EXCEPT !.sent = q]
               b == hs.child # Nobody
               g == [e EXCEPT !.live = b]
    <3>1. k \in Conn /\ k.live
      BY <1>1, <2>2, ShimElements
    <3>2. q \in Seq({"shutdown"})
      BY <3>1 DEF Conn
    <3>3. /\ e \in Conn /\ e.to = k.to /\ e.st = k.st /\ e.off = k.off
          /\ e.got = k.got /\ e.cut = k.cut
      <4> HIDE DEF k, q
      <4>1. e \in Conn
        BY <3>1, <3>2, ConnSet
      <4> QED
        BY <3>1, <4>1 DEF Conn
    <3>4. cn' = [cn EXCEPT ![hs.conn] = g]
      BY <2>2 DEF Release
    <3> HIDE DEF e
    <3>5. b \in BOOLEAN
      OBVIOUS
    <3>6. /\ g \in Conn /\ g.to = k.to /\ g.st = k.st /\ g.off = k.off
          /\ g.got = k.got /\ g.cut = k.cut
      <4> HIDE DEF b
      <4>1. g \in Conn
        BY <3>3, <3>5, ConnSet
      <4>2. /\ g.to = e.to /\ g.st = e.st /\ g.off = e.off
            /\ g.got = e.got /\ g.cut = e.cut
        BY <3>3 DEF Conn
      <4> QED
        BY <3>3, <4>1, <4>2
    <3> HIDE DEF g
    <3> QED
      BY <1>1, <3>1, <3>4, <3>6 DEF ShimTypes
  <2> QED
    BY <2>1, <2>2
<1>4. \/ HostAs(hs', "idle", Nobody, hs.child)
      \/ HostAs(hs', "reaping", hs.conn, hs.child) /\ hs.child # Nobody
  <2>1. Nobody \in Nat /\ "reaping" \in Phase /\ "idle" \in Phase
    BY DEF Nobody, Phase
  <2>2. IF hs.child = Nobody THEN hs' = [Enters("idle") EXCEPT !.conn = Nobody]
        ELSE hs' = Enters("reaping")
    BY DEF Release
  <2> QED
    BY <1>1, <2>1, <2>2, HostMoves, Zenon
<1>5. HostFine'
  BY <1>1, <1>2, <1>3, <1>4 DEF HostFine, HostAs
<1> QED
  BY <1>1, <1>2, <1>3, <1>4, <1>5, HostStep DEF HostAs

LEMMA ReapStep == ShimIInv /\ Reap => ShimIInv'
<1> SUFFICES ASSUME ShimIInv, Reap PROVE ShimIInv'
  OBVIOUS
<1>1. /\ ShimTypes /\ HostFine /\ hs \in Host /\ hs.phase = "reaping"
      /\ hs.conn \in 1..Len(cn) /\ hs.offset = NoOffset /\ hs.conn \in Nat
      /\ hs.child <= hs.spawned /\ hs.child \in Shims /\ Len(cn) \in Nat
  <2>1. /\ ShimTypes /\ HostFine /\ hs \in Host /\ hs.phase = "reaping"
        /\ hs.conn \in 1..Len(cn) /\ hs.offset = NoOffset /\ hs.conn \in Nat
        /\ hs.child <= hs.spawned /\ hs.child # Nobody /\ Len(cn) \in Nat
        /\ hs.child \in 0..MaxShims
    BY DEF ShimIInv, ShimTypes, HostFine, Reap, InPhase, Host
  <2> QED
    BY <2>1, ShimAssumption DEF Shims, Nobody
<1>2. /\ UNCHANGED <<path, logf>> /\ sh' = Gone(hs.child)
      /\ cn' = Closes(Severed(hs.child), hs.conn)
      /\ hs' = [Enters("idle") EXCEPT !.conn = Nobody, !.child = Nobody]
  BY DEF Reap
<1>3. HostAs(hs', "idle", Nobody, Nobody)
  <2>1. Nobody \in Nat /\ Nobody \in 0..MaxShims /\ "idle" \in Phase
    BY ShimAssumption DEF Nobody, Phase
  <2> QED
    BY <1>1, <1>2, <2>1, HostMoves, Zenon
<1> DEFINE v == Severed(hs.child)
<1>4. /\ v \in Seq(Conn) /\ Len(v) = Len(cn)
      /\ \A c \in 1..Len(cn) :
            v[c] = IF cn[c].to = hs.child THEN Over(cn[c]) ELSE cn[c]
  BY <1>1, OneSevered
<1>5. \A c \in 1..Len(cn) :
          IF cn[c].to = hs.child THEN v[c].to = hs.child /\ DoneWith(v[c])
          ELSE v[c] = cn[c]
  BY <1>1, <1>4, ShimElements, GoneOver
<1>6. cn' = Closes(v, hs.conn)
  BY <1>2
<1> HIDE DEF v
<1>7. /\ cn' \in Seq(Conn) /\ Len(cn') = Len(cn)
      /\ \A d \in 1..Len(cn) :
            /\ cn'[d].to = v[d].to /\ cn'[d].st = v[d].st
            /\ cn'[d].off = v[d].off /\ cn'[d].got = v[d].got
            /\ cn'[d].cut = v[d].cut
            /\ cn'[d].live => v[d].live
  <2>1. hs.conn \in 1..Len(v) /\ hs.conn \in Nat /\ v \in Seq(Conn)
    BY <1>1, <1>4
  <2> QED
    BY <1>4, <1>6, <2>1, ClosingEnd
<1>8. \A c \in 1..Len(cn) :
         /\ cn'[c].to = cn[c].to
         /\ \/ cn[c].to = hs.child /\ DoneWith(cn'[c])
            \/ /\ cn[c].to # hs.child
               /\ cn'[c].st = cn[c].st /\ cn'[c].off = cn[c].off
               /\ cn'[c].got = cn[c].got /\ cn'[c].cut = cn[c].cut
               /\ cn'[c].live => cn[c].live
  BY <1>5, <1>7 DEF DoneWith
<1>9. hs' # hs
  BY <1>1, <1>3 DEF HostAs
<1> QED
  BY <1>1, <1>2, <1>3, <1>7, <1>8, <1>9, Down DEF HostAs

LEMMA AdoptStep == ShimIInv /\ AdoptTurn => ShimIInv'
<1> SUFFICES ASSUME ShimIInv, AdoptTurn PROVE ShimIInv'
  OBVIOUS
<1>1. /\ ShimTypes /\ HostFine /\ hs \in Host /\ hs.phase = "idle"
      /\ hs.conn = Nobody /\ hs.offset \in Nat /\ Len(cn) \in Nat
      /\ cn \in Seq(Conn) /\ Len(cn) <= MaxConns
  BY DEF ShimIInv, ShimTypes, HostFine, AdoptTurn, InPhase, Host
<1>2. UNCHANGED <<sh, path, logf>>
  BY DEF AdoptTurn
<1>3. CASE /\ Reachable /\ CanDial /\ cn' = Dialled(hs.offset, <<>>)
           /\ hs' = [Enters("attached") EXCEPT !.conn = Len(cn')]
  <2>1. <<>> \in Seq({"shutdown"})
    OBVIOUS
  <2>2. OneMore(cn', hs.offset)
    BY <1>1, <1>3, <2>1, Dials, Zenon
  <2>3. /\ Len(cn') \in Nat /\ Len(cn') >= 1 /\ cn'[Len(cn')].live
        /\ cn'[Len(cn')].to = path
    BY <1>1, <2>2 DEF OneMore, ShimTypes
  <2>4. HostAs(hs', "attached", Len(cn'), hs.child)
    BY <1>1, <1>3, <2>3, HostMoves, Zenon DEF Phase
  <2>5. path # Nobody
    BY <1>3 DEF Reachable
  <2>6. HostFine'
    BY <1>1, <1>2, <1>3, <2>3, <2>4, <2>5 DEF HostFine, HostAs
  <2> QED
    BY <1>1, <1>2, <1>3, <2>2, <2>4, <2>6, OneMoreStep DEF HostAs
<1>4. ASSUME hs' = [hs EXCEPT !.offset = NoOffset]
      PROVE  /\ hs' \in Host /\ hs'.phase = "idle" /\ hs'.conn = Nobody
             /\ hs'.child = hs.child /\ hs'.spawned = hs.spawned
             /\ hs'.offset = NoOffset /\ hs'.stray = hs.stray
  <2>1. hs' \in Host
    BY <1>1, <1>4, HostSet
  <2> QED
    BY <1>1, <1>4, <2>1 DEF Host
<1>5. CASE hs' = [hs EXCEPT !.offset = NoOffset] /\ UNCHANGED cn
  <2>1. HostFine'
    BY <1>1, <1>2, <1>4, <1>5 DEF HostFine
  <2> QED
    BY <1>1, <1>2, <1>4, <1>5, <2>1, HostStep
<1>6. CASE /\ Reachable /\ CanDial /\ hs' = [hs EXCEPT !.offset = NoOffset]
           /\ cn' = Closes(Dialled(0, <<"shutdown">>), Len(cn) + 1)
  <2> DEFINE v == Dialled(0, <<"shutdown">>)
  <2>1. 0 \in Nat /\ <<"shutdown">> \in Seq({"shutdown"})
    OBVIOUS
  <2>2. OneMore(v, 0)
    BY <1>1, <1>6, <2>1, Dials, Zenon
  <2> HIDE DEF v
  <2>3. /\ v \in Seq(Conn) /\ Len(v) = Len(cn) + 1 /\ Len(v) <= MaxConns
        /\ v[Len(cn) + 1].to = path /\ v[Len(cn) + 1].st = "dialled"
        /\ v[Len(cn) + 1].got = <<>> /\ v[Len(cn) + 1].off = 0
        /\ \A c \in 1..Len(cn) : v[c] = cn[c]
    BY <1>1, <2>2 DEF OneMore
  <2>4. cn' = Closes(v, Len(cn) + 1)
    BY <1>6 DEF v
  <2>5. Len(cn) + 1 \in Nat /\ Len(cn) + 1 \in 1..Len(v)
    BY <1>1, <2>3
  <2>6. /\ cn' \in Seq(Conn) /\ Len(cn') = Len(cn) + 1
        /\ \A d \in 1..Len(v) :
            /\ d # Len(cn) + 1 => cn'[d] = v[d]
            /\ cn'[d].to = v[d].to /\ cn'[d].st = v[d].st
            /\ cn'[d].off = v[d].off /\ cn'[d].got = v[d].got
    BY <2>3, <2>4, <2>5, ClosingEnd
  <2>7. /\ \A c \in 1..Len(cn) : cn'[c] = cn[c] /\ c \in 1..Len(v)
        /\ \A c \in 1..Len(cn') : c > Len(cn) => c = Len(cn) + 1
    BY <1>1, <2>3, <2>6
  <2>8. /\ cn'[Len(cn) + 1].to = path /\ cn'[Len(cn) + 1].st = "dialled"
        /\ cn'[Len(cn) + 1].got = <<>>
    BY <2>3, <2>5, <2>6
  <2>9. HostFine'
    BY <1>1, <1>2, <1>4, <1>6 DEF HostFine
  <2> QED
    BY <1>1, <1>2, <1>4, <1>6, <2>3, <2>6, <2>7, <2>8, <2>9, HostStep
<1> QED
  BY <1>3, <1>5, <1>6 DEF AdoptTurn

LEMMA HostDiesStep == ShimIInv /\ HostDies => ShimIInv'
<1> SUFFICES ASSUME ShimIInv, HostDies PROVE ShimIInv'
  OBVIOUS
<1>1. /\ ShimTypes /\ HostFine /\ hs \in Host /\ cn \in Seq(Conn)
      /\ hs.conn = Nobody \/ hs.conn \in 1..Len(cn)
      /\ hs.conn \in Nat /\ Len(cn) \in Nat /\ Len(cn) <= MaxConns
  BY DEF ShimIInv, ShimTypes, HostFine, Host
<1>2. UNCHANGED <<sh, path, logf>> /\ cn' = Closes(cn, hs.conn)
  BY DEF HostDies
<1>3. /\ hs' \in Host /\ hs'.phase = "idle" /\ hs'.conn = Nobody
      /\ hs'.child = Nobody /\ hs'.offset = hs.offset
      /\ hs'.spawned = hs.spawned /\ hs'.of = hs.of
      /\ ~hs'.stray => ~hs.stray /\ hs.phase # "connect"
  <2> DEFINE e == [Enters("idle") EXCEPT !.conn = Nobody, !.child = Nobody]
             f == [e EXCEPT !.crashes = hs.crashes + 1]
             b == hs.stray \/ hs.phase = "connect"
  <2>1. Nobody \in Nat /\ Nobody \in 0..MaxShims /\ "idle" \in Phase
    BY ShimAssumption DEF Nobody, Phase
  <2>2. HostAs(e, "idle", Nobody, Nobody)
    BY <1>1, <2>1, HostMoves, Zenon
  <2>3. hs.crashes + 1 \in Nat /\ b \in BOOLEAN
    BY <1>1 DEF Host
  <2>4. hs' = [f EXCEPT !.stray = b]
    BY <1>1 DEF HostDies, Enters, Host, InPhase
  <2> HIDE DEF e, b
  <2>5. f \in Host
    BY <2>2, <2>3, HostSet DEF HostAs
  <2>6. /\ f.phase = "idle" /\ f.conn = Nobody /\ f.child = Nobody
        /\ f.offset = hs.offset /\ f.spawned = hs.spawned /\ f.of = hs.of
    BY <2>2, <2>5 DEF HostAs, Host
  <2> HIDE DEF f
  <2>7. [f EXCEPT !.stray = b] \in Host
    BY <2>3, <2>5, HostSet
  <2>8. /\ hs'.phase = f.phase /\ hs'.conn = f.conn
        /\ hs'.child = f.child /\ hs'.offset = f.offset
        /\ hs'.spawned = f.spawned /\ hs'.of = f.of /\ hs'.stray = b
    BY <2>4, <2>5 DEF Host
  <2> QED
    BY <2>4, <2>6, <2>7, <2>8 DEF b
<1>4. /\ cn' \in Seq(Conn) /\ Len(cn') = Len(cn)
      /\ \A d \in 1..Len(cn) :
            /\ cn'[d].to = cn[d].to /\ cn'[d].st = cn[d].st
            /\ cn'[d].off = cn[d].off /\ cn'[d].got = cn[d].got
            /\ cn'[d].cut = cn[d].cut
            /\ cn'[d].live => cn[d].live
  BY <1>1, <1>2, ClosingEnd
<1>5. HostFine'
  BY <1>1, <1>2, <1>3, <1>4 DEF HostFine, Host, Nobody
<1> QED
  BY <1>1, <1>2, <1>3, <1>4, <1>5, HostStep

(* A shim that was ever started is one of those the host knows of.         *)
LEMMA Started ==
    ASSUME ShimIInv, NEW s \in Shims, sh[s].st # "none"
    PROVE  s <= hs.spawned
<1>1. PathFine(s) /\ s \in Nat /\ hs.spawned \in Nat
  BY ShimElements DEF ShimIInv, ShimTypes, Host
<1> QED
  BY <1>1 DEF PathFine

LEMMA SweepStep == ShimIInv /\ SweepShim => ShimIInv'
<1> SUFFICES ASSUME ShimIInv, SweepShim PROVE ShimIInv'
  OBVIOUS
<1>1. PICK s \in Shims : /\ sh[s].st \in Binding \cup Bound \cup {"killing"}
                         /\ sh' = Gone(s) /\ cn' = Severed(s)
  BY DEF SweepShim
<1>2. UNCHANGED <<path, logf, hs>> /\ hs \in Host
  BY DEF SweepShim, ShimIInv, ShimTypes
<1>3. s <= hs.spawned
  BY <1>1, Started DEF Binding, Bound
<1> QED
  BY <1>1, <1>2, <1>3, DownSevered

-----------------------------------------------------------------------------
(* The shim's supervisor.                                                  *)

(* The host and its connection stay as they are when the shims do their    *)
(* work, and no other shim gets to the path of a turn.                     *)
LEMMA HostStays ==
    ASSUME ShimIInv, hs' = hs, Len(cn') = Len(cn),
           \A c \in 1..Len(cn) :
               /\ cn'[c].to = cn[c].to
               /\ cn[c].live => cn'[c].live \/ cn'[c].st = "over"
               /\ cn[c].st = "over" => cn'[c].st = "over",
           \A u \in Shims : sh'[u].st \in Binding => sh[u].st \in Binding,
           \/ \E u \in Shims : sh[u].st \in Binding
           \/ path' = path \/ path' = Nobody
    PROVE  HostFine'
  BY DEF ShimIInv, HostFine

(* Whom the path leads to does not change with what is fed, nor when a     *)
(* shim starts its harness.                                                *)
LEMMA PathStays ==
    ASSUME ShimIInv, UNCHANGED <<path, hs>>,
           \A u \in Shims :
               /\ sh'[u].lost = sh[u].lost /\ sh'[u].saw = sh[u].saw
               /\ \/ sh'[u].st = sh[u].st
                  \/ sh[u].st = "listening" /\ sh'[u].st = "serving"
    PROVE  (\A u \in Shims : PathFine(u)') /\ Alone'
<1>1. ShimTypes /\ Alone
  BY DEF ShimIInv
<1>2. ASSUME NEW u \in Shims
      PROVE  /\ sh'[u].st \in Bound <=> sh[u].st \in Bound
             /\ sh'[u].st \in Binding <=> sh[u].st \in Binding
             /\ sh'[u].st \in Listening <=> sh[u].st \in Listening
             /\ sh'[u].st = "bound" <=> sh[u].st = "bound"
             /\ sh'[u].st = "stale" <=> sh[u].st = "stale"
             /\ sh'[u].st = "none" <=> sh[u].st = "none"
             /\ sh'[u].st = "killing" <=> sh[u].st = "killing"
             /\ sh'[u].st = "gone" <=> sh[u].st = "gone"
  BY DEF Bound, Binding, Listening
<1>3. Reachable' <=> Reachable
  BY <1>1, <1>2, ShimElements DEF Reachable
<1>4. ASSUME NEW u \in Shims PROVE PathFine(u)'
  <2>1. PathFine(u) /\ sh[u].saw \subseteq Shims
    BY <1>1, ShimElements DEF ShimIInv, Shim
  <2>2. sh[u].st = "stale" => \A t \in sh[u].saw :
            path # t /\ sh'[t].st \notin Binding \cup {"none"}
    BY <1>2, <2>1 DEF PathFine
  <2> QED
    BY <1>2, <2>1, <2>2 DEF PathFine
<1>5. Alone'
  BY <1>1, <1>2, <1>3 DEF Alone
<1> QED
  BY <1>4, <1>5

(* Steps of the shims that say nothing and end no connection.              *)
LEMMA FedStays ==
    ASSUME ShimIInv, UNCHANGED <<logf, cn>>, \A u \in Shims : Stays(u),
           \A u \in Shims : sh[u].lost # "no" => sh'[u].lost # "no"
    PROVE  Fed'
<1>1. ShimTypes /\ cn \in Seq(Conn) /\ Len(cn) \in Nat
  BY DEF ShimIInv, ShimTypes
<1>2. \A c \in 1..Len(cn) : cn[c].to \in Shims
  BY <1>1, ShimElements DEF Conn
<1>3. Unfed
  BY <1>1, <1>2 DEF Unfed
<1> QED
  BY <1>3, Calm

(* A shim comes a step nearer to the path: it finds a file, it is refused  *)
(* or it makes the file.                                                   *)
LEMMA BindingStep ==
    ASSUME ShimIInv, NEW s \in Shims, sh[s].st \in Binding,
           NEW st1, NEW saw1, sh' \in [Shims -> Shim],
           \A u \in Shims : u # s => sh'[u] = sh[u],
           Moved(sh[s], sh'[s], st1, sh[s].harness, sh[s].lost, saw1),
           UNCHANGED <<logf, cn, hs>>,
           \/ path' = path /\ st1 = "inUse"
           \/ path' = path /\ st1 = "stale" /\ ~Reachable /\ saw1 = Listeners
           \/ path = Nobody /\ path' = s /\ st1 = "bound"
    PROVE  ShimIInv'
<1>1. ShimTypes /\ Alone /\ PathFine(s) /\ s # Nobody
  BY ShimElements DEF ShimIInv
<1>2. /\ sh'[s].st = st1 /\ sh'[s].lost = sh[s].lost /\ sh'[s].saw = saw1
      /\ sh'[s].harness = sh[s].harness /\ SameFeed(sh[s], sh'[s])
  BY DEF Moved
<1>3. sh[s].st \notin Bound \cup {"killing", "gone", "none"}
  BY DEF Binding, Bound
<1>4. Fed'
  <2>1. Stays(s)
    BY <1>2, <1>3 DEF Stays, Running, Bound, Listening
  <2>2. \A u \in Shims : u # s => Stays(u)
    BY DEF Stays, SameFeed
  <2> QED
    BY <1>2, <2>1, <2>2, FedStays
<1>5. ASSUME NEW u \in Shims PROVE PathFine(u)'
  <2>1. PathFine(u) /\ u # Nobody /\ sh[u].saw \subseteq Shims
    BY <1>1, ShimElements DEF ShimIInv, Shim
  <2>2. CASE u = s
    <3>1. st1 = "stale" => \A t \in saw1 :
              path' # t /\ sh'[t].st \notin Binding \cup {"none"}
      <4> SUFFICES ASSUME st1 = "stale", NEW t \in saw1
                   PROVE  path' # t /\ sh'[t].st \notin Binding \cup {"none"}
        OBVIOUS
      <4>1. t \in Shims /\ sh[t].st \in Listening
        BY DEF Listeners
      <4>2. t # s /\ t # Nobody
        BY <1>1, <1>3, <4>1, ShimElements DEF Listening, Bound
      <4>3. path # t
        BY <4>1, <4>2 DEF Reachable
      <4> QED
        BY <4>1, <4>2, <4>3 DEF Listening, Binding
    <3>2. sh'[s].st \in {"inUse", "stale", "bound"}
      BY <1>2
    <3>3. sh'[s].st = "bound" => path' = s
      BY <1>2
    <3>4. /\ sh[s].lost # "killed" /\ sh[s].lost # "stolen"
          /\ ~(s > hs.spawned)
      BY <1>1, <1>3 DEF PathFine
    <3> QED
      BY <1>2, <2>2, <3>1, <3>2, <3>3, <3>4 DEF PathFine, Bound
  <2>3. CASE u # s
    <3>1. sh'[u] = sh[u]
      BY <2>3
    <3>2. path' = path \/ path = Nobody
      OBVIOUS
    <3>3. sh[u].st = "stale" => \A t \in sh[u].saw :
              path' # t /\ sh'[t].st \notin Binding \cup {"none"}
      <4> SUFFICES ASSUME sh[u].st = "stale", NEW t \in sh[u].saw
                   PROVE  path' # t /\ sh'[t].st \notin Binding \cup {"none"}
        OBVIOUS
      <4>1. t \in Shims /\ path # t /\ sh[t].st \notin Binding \cup {"none"}
        BY <2>1 DEF PathFine
      <4>2. t # s
        BY <4>1
      <4> QED
        BY <4>1, <4>2
    <3> QED
      BY <2>1, <3>1, <3>2, <3>3 DEF PathFine
  <2> QED
    BY <2>2, <2>3
<1>6. Reachable' => Reachable
  BY <1>1, <1>2, <1>3, ShimElements DEF Reachable, Listening
<1>7. Alone'
  <2> SUFFICES ASSUME ~hs.stray, NEW u \in Shims
               PROVE  /\ sh'[u].lost # "robbed"
                      /\ sh'[u].st \in Binding \cup {"bound"} =>
                            hs.phase = "connect" /\ hs.child = u
                      /\ sh'[u].st = "stale" => ~Reachable'
    BY DEF Alone
  <2>1. /\ sh[u].lost # "robbed"
        /\ sh[u].st \in Binding \cup {"bound"} =>
              hs.phase = "connect" /\ hs.child = u
        /\ sh[u].st = "stale" => ~Reachable
    BY <1>1 DEF Alone
  <2>2. CASE u = s
    BY <1>2, <1>6, <2>1, <2>2
  <2>3. CASE u # s
    BY <1>6, <2>1, <2>3
  <2> QED
    BY <2>2, <2>3
<1>8. HostFine'
  <2>1. \A u \in Shims : sh'[u].st \in Binding => sh[u].st \in Binding
    OBVIOUS
  <2> QED
    BY <2>1, HostStays
<1>9. path' \in 0..MaxShims
  BY <1>1, ShimElements DEF ShimTypes, Shims
<1> QED
  BY <1>1, <1>4, <1>5, <1>7, <1>8, <1>9 DEF ShimIInv, Fed, ShimTypes

(* One field of one shim.                                                  *)
LEMMA OneMoves ==
    ASSUME sh \in [Shims -> Shim], NEW s \in Shims, NEW r \in Shim,
           sh' = [sh EXCEPT ![s] = r]
    PROVE  /\ sh' \in [Shims -> Shim] /\ sh'[s] = r
           /\ \A u \in Shims : u # s => sh'[u] = sh[u]
  OBVIOUS

LEMMA BindStep ==
    ASSUME ShimIInv, NEW s \in Shims, Bind(s)
    PROVE  ShimIInv'
<1>1. /\ ShimTypes /\ sh[s] \in Shim /\ sh[s].st \in Binding
      /\ sh \in [Shims -> Shim]
  BY ShimElements DEF ShimIInv, ShimTypes, Bind, Binding
<1>2. UNCHANGED <<logf, cn, hs>>
  BY DEF Bind
<1>3. ASSUME NEW v \in ShimSt, sh' = [sh EXCEPT ![s].st = v]
      PROVE  /\ sh' \in [Shims -> Shim]
             /\ Moved(sh[s], sh'[s], v, sh[s].harness, sh[s].lost, sh[s].saw)
             /\ \A u \in Shims : u # s => sh'[u] = sh[u]
  <2> DEFINE r == [sh[s] EXCEPT !.st = v]
  <2>1. Moved(sh[s], r, v, sh[s].harness, sh[s].lost, sh[s].saw)
    BY <1>1, SetSt
  <2>2. sh' = [sh EXCEPT ![s] = r]
    BY <1>3
  <2> HIDE DEF r
  <2> QED
    BY <1>1, <2>1, <2>2, OneMoves DEF Moved
<1>4. CASE path = Nobody /\ sh' = [sh EXCEPT ![s].st = "bound"] /\ path' = s
  <2>1. "bound" \in ShimSt
    BY DEF ShimSt, Bound
  <2> QED
    BY <1>1, <1>2, <1>3, <1>4, <2>1, BindingStep
<1>5. CASE sh' = [sh EXCEPT ![s].st = "inUse"] /\ UNCHANGED path
  <2>1. "inUse" \in ShimSt
    BY DEF ShimSt, Binding
  <2> QED
    BY <1>1, <1>2, <1>3, <1>5, <2>1, BindingStep
<1> QED
  BY <1>4, <1>5 DEF Bind

(* A shim that gives up before it has a file or clients.                   *)
LEMMA GivesUp ==
    ASSUME ShimIInv, NEW s \in Shims, sh[s].st \in Binding, sh' = Gone(s),
           UNCHANGED <<path, logf, cn, hs>>
    PROVE  ShimIInv'
<1>1. hs \in Host /\ s <= hs.spawned
  BY Started DEF ShimIInv, ShimTypes, Binding
<1>2. sh[s].st \notin Listening \cup {"killing"}
  BY DEF Binding, Listening
<1> QED
  BY <1>1, <1>2, DownSevered

LEMMA ProbeStep ==
    ASSUME ShimIInv, NEW s \in Shims, ProbeSocket(s)
    PROVE  ShimIInv'
<1>1. /\ ShimTypes /\ sh[s] \in Shim /\ sh[s].st \in Binding
      /\ sh \in [Shims -> Shim]
  BY ShimElements DEF ShimIInv, ShimTypes, ProbeSocket, Binding
<1>2. UNCHANGED <<path, logf, cn, hs>>
  BY DEF ProbeSocket
<1>3. CASE sh' = Gone(s)
  BY <1>1, <1>2, <1>3, GivesUp
<1>4. CASE ~Reachable /\ sh' = [sh EXCEPT ![s].st = "stale",
                                          ![s].saw = Listeners]
  <2> DEFINE e == [sh[s] EXCEPT !.st = "stale"]
             r == [e EXCEPT !.saw = Listeners]
  <2>1. Moved(sh[s], e, "stale", sh[s].harness, sh[s].lost, sh[s].saw)
    BY <1>1, SetSt DEF ShimSt, Binding
  <2>2. sh' = [sh EXCEPT ![s] = r]
    BY <1>4
  <2> HIDE DEF e
  <2>3. Listeners \in SUBSET Shims
    BY DEF Listeners
  <2>4. Moved(e, r, e.st, e.harness, e.lost, Listeners)
    BY <2>1, <2>3, SetSaw DEF Moved
  <2> HIDE DEF r
  <2>5. Moved(sh[s], r, "stale", sh[s].harness, sh[s].lost, Listeners)
    BY <2>1, <2>4 DEF Moved, SameFeed
  <2>6. /\ sh' \in [Shims -> Shim] /\ sh'[s] = r
        /\ \A u \in Shims : u # s => sh'[u] = sh[u]
    BY <1>1, <2>2, <2>5, OneMoves DEF Moved
  <2> QED
    BY <1>1, <1>2, <1>4, <2>5, <2>6, BindingStep
<1> QED
  BY <1>3, <1>4 DEF ProbeSocket

LEMMA RebindStep ==
    ASSUME ShimIInv, NEW s \in Shims, Rebind(s)
    PROVE  ShimIInv'
<1>1. /\ ShimTypes /\ sh[s] \in Shim /\ sh[s].st \in Binding
      /\ sh \in [Shims -> Shim]
  BY ShimElements DEF ShimIInv, ShimTypes, Rebind, Binding
<1>2. UNCHANGED <<logf, cn, hs>>
  BY DEF Rebind
<1>3. CASE sh' = Gone(s) /\ UNCHANGED path
  BY <1>1, <1>2, <1>3, GivesUp
<1>4. CASE path = Nobody /\ sh' = [sh EXCEPT ![s].st = "bound"] /\ path' = s
  <2> DEFINE r == [sh[s] EXCEPT !.st = "bound"]
  <2>1. Moved(sh[s], r, "bound", sh[s].harness, sh[s].lost, sh[s].saw)
    BY <1>1, SetSt DEF ShimSt, Bound
  <2>2. sh' = [sh EXCEPT ![s] = r]
    BY <1>4
  <2> HIDE DEF r
  <2>3. /\ sh' \in [Shims -> Shim] /\ sh'[s] = r
        /\ \A u \in Shims : u # s => sh'[u] = sh[u]
    BY <1>1, <2>1, <2>2, OneMoves DEF Moved
  <2> QED
    BY <1>1, <1>2, <1>4, <2>1, <2>3, BindingStep
<1> QED
  BY <1>3, <1>4 DEF Rebind

(* A shim removes the file at the path.  If it leads to another shim that  *)
(* still has its file, then a host died while a shim was starting.         *)
LEMMA FileGone ==
    ASSUME ShimIInv, NEW s \in Shims, path' = Nobody, hs' = hs,
           sh[s].st # "none", sh'[s].st \notin Bound \cup {"stale", "none"},
           sh'[s].st \in Binding => sh[s].st \in Binding,
           sh'[s].st = "killing" => sh'[s].lost # "no",
           sh'[s].lost = "killed" => sh'[s].st \in {"killing", "gone"},
           sh'[s].lost # "stolen",
           sh'[s].lost = "robbed" => sh[s].lost = "robbed",
           \A u \in Shims : u # s =>
              /\ sh'[u].st = sh[u].st /\ sh'[u].saw = sh[u].saw
              /\ sh'[u].lost = IF u = path /\ sh[u].st \in Bound
                               THEN "robbed" ELSE sh[u].lost,
           ~hs.stray => path = s \/ path = Nobody \/ sh[path].st \notin Bound
    PROVE  (\A u \in Shims : PathFine(u)') /\ Alone'
<1>1. ShimTypes /\ Alone /\ hs \in Host /\ s <= hs.spawned
  BY Started DEF ShimIInv, ShimTypes
<1>2. s \in Nat /\ hs.spawned \in Nat /\ ~(s > hs.spawned)
  BY <1>1, ShimElements DEF Host
<1>3. ASSUME NEW u \in Shims PROVE PathFine(u)'
  <2>1. PathFine(u) /\ PathFine(s) /\ sh[u].saw \subseteq Shims
    BY <1>1, ShimElements DEF ShimIInv, Shim
  <2>2. CASE u = s
    BY <1>2, <2>1, <2>2 DEF PathFine
  <2>3. CASE u # s
    <3>1. sh'[u].st \in Bound /\ sh'[u].lost = "no" => path' = u
      BY <2>1, <2>3 DEF PathFine
    <3>2. sh'[u].st = "killing" => sh'[u].lost # "no"
      BY <2>1, <2>3 DEF PathFine
    <3>3. /\ sh'[u].lost = "killed" => sh'[u].st \in {"killing", "gone"}
          /\ sh'[u].lost # "stolen"
      BY <2>1, <2>3 DEF PathFine
    <3>4. sh'[u].st = "stale" => \A t \in sh'[u].saw :
              path' # t /\ sh'[t].st \notin Binding \cup {"none"}
      <4> SUFFICES ASSUME sh[u].st = "stale", NEW t \in sh[u].saw
                   PROVE  Nobody # t /\ sh'[t].st \notin Binding \cup {"none"}
        BY <2>3
      <4>1. t \in Shims /\ t # Nobody /\ sh[t].st \notin Binding \cup {"none"}
        BY <1>1, <2>1, ShimElements DEF PathFine
      <4> QED
        BY <4>1
    <3>5. u > hs'.spawned => sh'[u].st = "none"
      BY <2>1, <2>3 DEF PathFine
    <3> QED
      BY <3>1, <3>2, <3>3, <3>4, <3>5 DEF PathFine
  <2> QED
    BY <2>2, <2>3
<1>4. Alone'
  <2> SUFFICES ASSUME ~hs.stray, NEW u \in Shims
               PROVE  /\ sh'[u].lost # "robbed"
                      /\ sh'[u].st \in Binding \cup {"bound"} =>
                            hs'.phase = "connect" /\ hs'.child = u
                      /\ sh'[u].st = "stale" => ~Reachable'
    BY DEF Alone
  <2>1. /\ sh[u].lost # "robbed"
        /\ sh[u].st \in Binding \cup {"bound"} =>
              hs.phase = "connect" /\ hs.child = u
    BY <1>1 DEF Alone
  <2>2. ~Reachable'
    BY DEF Reachable
  <2>3. CASE u = s
    BY <2>1, <2>2, <2>3 DEF Bound
  <2>4. CASE u # s
    <3>1. u # Nobody
      BY <1>1, ShimElements
    <3> QED
      BY <2>1, <2>2, <2>4, <3>1
  <2> QED
    BY <2>3, <2>4
<1> QED
  BY <1>3, <1>4

LEMMA RemoveStaleStep ==
    ASSUME ShimIInv, NEW s \in Shims, RemoveStale(s)
    PROVE  ShimIInv'
<1>1. /\ ShimTypes /\ Alone /\ sh[s] \in Shim /\ sh[s].st = "stale"
      /\ sh[s].st \in Binding /\ sh \in [Shims -> Shim] /\ PathFine(s)
  BY ShimElements DEF ShimIInv, ShimTypes, RemoveStale, Binding
<1>2. UNCHANGED <<logf, cn, hs>>
  BY DEF RemoveStale
<1>3. CASE sh' = Gone(s) /\ UNCHANGED path
  BY <1>1, <1>2, <1>3, GivesUp
<1>4. CASE /\ path # Nobody /\ path' = Nobody
           /\ sh' = Unlinked([sh EXCEPT ![s].st = "removed", ![s].saw = {}],
                             IF path \in sh[s].saw THEN "stolen" ELSE "robbed")
  <2> DEFINE e == [sh[s] EXCEPT !.st = "removed"]
             r == [e EXCEPT !.saw = {}]
             f == [sh EXCEPT ![s] = r]
  <2>1. path \notin sh[s].saw
    BY <1>1 DEF PathFine
  <2>2. [sh EXCEPT ![s].st = "removed", ![s].saw = {}] = f
    OBVIOUS
  <2>3. sh' = Unlinked(f, "robbed")
    BY <1>4, <2>1, <2>2
  <2>4. Moved(sh[s], e, "removed", sh[s].harness, sh[s].lost, sh[s].saw)
    BY <1>1, SetSt DEF ShimSt, Binding
  <2> HIDE DEF e
  <2>5. Moved(e, r, e.st, e.harness, e.lost, {})
    BY <2>4, SetSaw DEF Moved
  <2> HIDE DEF r
  <2>6. Moved(sh[s], r, "removed", sh[s].harness, sh[s].lost, {})
    BY <2>4, <2>5 DEF Moved, SameFeed
  <2>7. /\ f \in [Shims -> Shim] /\ f[s] = r
        /\ \A u \in Shims : u # s => f[u] = sh[u]
    BY <1>1, <2>6 DEF Moved
  <2> HIDE DEF f
  <2>8. /\ sh' \in [Shims -> Shim]
        /\ \A u \in Shims :
              /\ sh'[u].st = f[u].st /\ SameFeed(f[u], sh'[u])
              /\ sh'[u].harness = f[u].harness /\ sh'[u].saw = f[u].saw
              /\ sh'[u].lost = IF u = path /\ f[u].st \in Bound THEN "robbed"
                               ELSE f[u].lost
    BY <2>3, <2>7, Unlinking
  <2>9. /\ sh'[s].st = "removed" /\ sh'[s].lost = sh[s].lost
        /\ sh'[s].harness = sh[s].harness /\ SameFeed(sh[s], sh'[s])
    BY <2>6, <2>7, <2>8 DEF Moved, SameFeed, Bound
  <2>10. \A u \in Shims : u # s =>
            /\ sh'[u].st = sh[u].st /\ sh'[u].saw = sh[u].saw
            /\ sh'[u].harness = sh[u].harness /\ SameFeed(sh[u], sh'[u])
            /\ sh'[u].lost = IF u = path /\ sh[u].st \in Bound THEN "robbed"
                             ELSE sh[u].lost
    BY <2>7, <2>8
  <2>11. ~hs.stray => path = s \/ path = Nobody \/ sh[path].st \notin Bound
    <3>1. path \in Shims
      BY <1>1, <1>4, ShimElements
    <3>2. ~hs.stray => ~Reachable /\ hs.child = s
      BY <1>1 DEF Alone
    <3>3. ~hs.stray /\ sh[path].st = "bound" => hs.child = path
      BY <1>1, <3>1 DEF Alone
    <3> QED
      BY <1>4, <3>1, <3>2, <3>3 DEF Reachable, Bound, Listening
  <2>12. (\A u \in Shims : PathFine(u)') /\ Alone'
    <3>1. /\ sh'[s].st \notin Bound \cup {"stale", "none"}
          /\ sh[s].lost # "killed" /\ sh[s].lost # "stolen"
      BY <1>1, <2>9 DEF Bound, PathFine
    <3> QED
      BY <1>1, <1>2, <1>4, <2>9, <2>10, <2>11, <3>1, FileGone
  <2>13. Fed'
    <3>1. Stays(s)
      BY <1>1, <2>9 DEF Stays, Running, Listening
    <3>2. \A u \in Shims : u # s => Stays(u)
      BY <2>10 DEF Stays
    <3>3. \A u \in Shims : sh[u].lost # "no" => sh'[u].lost # "no"
      BY <2>9, <2>10
    <3> QED
      BY <1>2, <3>1, <3>2, <3>3, FedStays
  <2>14. HostFine'
    <3>1. \A u \in Shims : sh'[u].st \in Binding => sh[u].st \in Binding
      BY <1>1, <2>10
    <3> QED
      BY <1>2, <1>4, <3>1, HostStays
  <2>15. path' \in 0..MaxShims
    BY <1>4, ShimAssumption DEF Nobody
  <2> QED
    BY <1>1, <1>2, <2>8, <2>12, <2>13, <2>14, <2>15
       DEF ShimIInv, Fed, ShimTypes
<1> QED
  BY <1>3, <1>4 DEF RemoveStale

LEMMA ListenStep ==
    ASSUME ShimIInv, NEW s \in Shims, Listen(s)
    PROVE  ShimIInv'
<1>1. /\ ShimTypes /\ Alone /\ sh[s] \in Shim /\ sh[s].st = "bound"
      /\ sh \in [Shims -> Shim] /\ PathFine(s) /\ s <= hs.spawned
  BY ShimElements, Started DEF ShimIInv, ShimTypes, Listen
<1>2. UNCHANGED <<path, logf, cn, hs>>
  BY DEF Listen
<1> DEFINE r == [sh[s] EXCEPT !.st = "listening"]
<1>3. Moved(sh[s], r, "listening", sh[s].harness, sh[s].lost, sh[s].saw)
  BY <1>1, SetSt DEF ShimSt, Bound
<1>4. sh' = [sh EXCEPT ![s] = r]
  BY DEF Listen
<1> HIDE DEF r
<1>5. /\ sh' \in [Shims -> Shim] /\ sh'[s] = r
      /\ \A u \in Shims : u # s => sh'[u] = sh[u]
  BY <1>1, <1>3, <1>4, OneMoves DEF Moved
<1>6. /\ sh'[s].st = "listening" /\ sh'[s].lost = sh[s].lost
      /\ sh'[s].harness = sh[s].harness /\ SameFeed(sh[s], sh'[s])
  BY <1>3, <1>5 DEF Moved
<1>7. Fed'
  <2>1. Stays(s)
    BY <1>1, <1>6 DEF Stays, Running, Listening
  <2>2. \A u \in Shims : u # s => Stays(u)
    BY <1>5 DEF Stays, SameFeed
  <2>3. \A u \in Shims : sh[u].lost # "no" => sh'[u].lost # "no"
    BY <1>5, <1>6
  <2> QED
    BY <1>2, <2>1, <2>2, <2>3, FedStays
<1>8. ASSUME NEW u \in Shims PROVE PathFine(u)'
  <2>1. PathFine(u) /\ sh[u].saw \subseteq Shims
    BY <1>1, ShimElements DEF ShimIInv, Shim
  <2>2. CASE u = s
    <3>1. ~(s > hs.spawned)
      BY <1>1, ShimElements DEF ShimTypes, Host
    <3> QED
      BY <1>1, <1>2, <1>6, <2>2, <3>1 DEF PathFine, Bound
  <2>3. CASE u # s
    <3>1. sh'[u] = sh[u]
      BY <1>5, <2>3
    <3>2. \A t \in Shims : sh[t].st \notin Binding \cup {"none"}
                              => sh'[t].st \notin Binding \cup {"none"}
      BY <1>5, <1>6 DEF Binding
    <3> QED
      BY <1>2, <2>1, <3>1, <3>2 DEF PathFine
  <2> QED
    BY <2>2, <2>3
<1>9. Alone'
  <2> SUFFICES ASSUME ~hs.stray, NEW u \in Shims
               PROVE  /\ sh'[u].lost # "robbed"
                      /\ sh'[u].st \in Binding \cup {"bound"} =>
                            hs'.phase = "connect" /\ hs'.child = u
                      /\ sh'[u].st = "stale" => ~Reachable'
    BY <1>2 DEF Alone
  <2>1. /\ sh[u].lost # "robbed"
        /\ sh[u].st \in Binding \cup {"bound"} =>
              hs.phase = "connect" /\ hs.child = u
        /\ hs.child = s
    BY <1>1 DEF Alone
  <2>2. CASE u = s
    BY <1>6, <2>1, <2>2 DEF Binding
  <2>3. CASE u # s
    BY <1>2, <1>5, <2>1, <2>3 DEF Binding
  <2> QED
    BY <2>2, <2>3
<1>10. HostFine'
  <2>1. \A u \in Shims : sh'[u].st \in Binding => sh[u].st \in Binding
    BY <1>5, <1>6 DEF Binding
  <2> QED
    BY <1>2, <2>1, HostStays
<1> QED
  BY <1>1, <1>2, <1>5, <1>7, <1>8, <1>9, <1>10 DEF ShimIInv, Fed, ShimTypes

(* The log starts anew.  If no file was lost then no other shim writes it. *)
LEMMA StartHarnessStep ==
    ASSUME ShimIInv, NEW s \in Shims, StartHarness(s)
    PROVE  ShimIInv'
<1>1. /\ ShimTypes /\ sh[s] \in Shim /\ sh[s].st = "listening"
      /\ sh \in [Shims -> Shim] /\ ShimFine(s) /\ cn \in Seq(Conn)
      /\ Len(cn) \in Nat
  BY ShimElements DEF ShimIInv, ShimTypes, StartHarness
<1>2. UNCHANGED <<path, cn, hs>> /\ logf' = <<>>
  BY DEF StartHarness
<1> DEFINE e == [sh[s] EXCEPT !.st = "serving"]
           r == [e EXCEPT !.harness = TRUE]
<1>3. Moved(sh[s], e, "serving", sh[s].harness, sh[s].lost, sh[s].saw)
  BY <1>1, SetSt DEF ShimSt, Bound
<1>4. sh' = [sh EXCEPT ![s] = r]
  BY DEF StartHarness
<1> HIDE DEF e
<1>5. Moved(e, r, e.st, TRUE, e.lost, e.saw)
  BY <1>3, SetHarness DEF Moved
<1> HIDE DEF r
<1>6. /\ sh' \in [Shims -> Shim] /\ sh'[s] = r
      /\ \A u \in Shims : u # s => sh'[u] = sh[u]
  BY <1>1, <1>4, <1>5, OneMoves DEF Moved
<1>7. /\ sh'[s].st = "serving" /\ sh'[s].lost = sh[s].lost
      /\ sh'[s].saw = sh[s].saw /\ SameFeed(sh[s], sh'[s])
  BY <1>3, <1>5, <1>6 DEF Moved, SameFeed
<1>8. /\ sh'[s].relay = Nobody /\ sh'[s].att = Nobody /\ ~sh'[s].feeding
      /\ sh'[s].taking = Nobody /\ sh'[s].said = 0
  BY <1>1, <1>7 DEF ShimFine, SameFeed, Running
<1>9. \A u \in Shims : sh'[u].lost = sh[u].lost
  BY <1>6, <1>7
<1>10. NothingLost' => NothingLost /\ \A u \in Shims : u # s =>
                                          sh[u].st \notin Running
  <2>1. NothingLost' => NothingLost
    BY <1>9 DEF NothingLost
  <2>2. ASSUME NothingLost, NEW u \in Shims, u # s PROVE sh[u].st \notin Running
    <3>1. sh[s].lost = "no" /\ sh[u].lost = "no" /\ sh[s].st \in Bound
      BY <1>1, <2>2 DEF NothingLost, Bound
    <3> QED
      BY <2>2, <3>1, OneFile
  <2> QED
    BY <2>1, <2>2
<1>11. Len(logf') = 0 /\ logf' \in Seq(Line)
  BY <1>2
<1>12. ASSUME NEW u \in Shims PROVE ShimFine(u)' /\ LogFine(u)'
  <2>1. ShimFine(u)
    BY DEF ShimIInv
  <2>2. CASE u = s
    BY <1>7, <1>8, <1>11, <2>2 DEF ShimFine, LogFine, Running
  <2>3. CASE u # s
    <3>1. sh'[u] = sh[u]
      BY <1>6, <2>3
    <3>2. ShimFine(u)'
      BY <1>2, <2>1, <3>1 DEF ShimFine
    <3>3. LogFine(u)'
      BY <1>10, <1>11, <2>3, <3>1 DEF LogFine
    <3> QED
      BY <3>2, <3>3
  <2> QED
    BY <2>2, <2>3
<1>13. ASSUME NEW c \in 1..Len(cn) PROVE ConnFine(c)' /\ GotFine(c)'
  <2>1. /\ ConnFine(c) /\ GotFine(c) /\ cn[c].to \in Shims /\ c # Nobody
        /\ cn[c].got \in Seq(Line)
    BY <1>1, ShimElements DEF ShimIInv, Conn
  <2>2. CASE cn[c].to = s
    <3>1. cn[c].st \notin {"asked", "on", "unfed", "leaving"}
      BY <1>1, <2>1, <2>2 DEF ConnFine, Running
    <3>2. cn[c].got = <<>>
      BY <1>1, <2>1, <3>1, ShimElements DEF ConnFine, Conn
    <3>3. ConnFine(c)'
      BY <1>2, <1>7, <2>1, <2>2, <3>1 DEF ConnFine, Listening
    <3>4. GotFine(c)'
      BY <1>2, <1>8, <1>11, <2>1, <2>2, <3>1, <3>2 DEF GotFine
    <3> QED
      BY <3>3, <3>4
  <2>3. CASE cn[c].to # s
    <3> DEFINE u == cn[c].to
    <3>1. u \in Shims /\ sh'[u] = sh[u] /\ cn'[c] = cn[c] /\ cn[c].to = u
      BY <1>2, <1>6, <2>1, <2>3
    <3>2. NothingLost' => NothingLost /\ sh[u].relay # c
      <4>1. ShimFine(u)
        BY <3>1 DEF ShimIInv
      <4> QED
        BY <1>10, <2>1, <2>3, <3>1, <4>1 DEF ShimFine
    <3> HIDE DEF u
    <3>3. ConnFine(c)'
      BY <2>1, <3>1 DEF ConnFine
    <3>4. \A i \in 1..Len(cn[c].got) : cn[c].got[i][1] \in Shims
      BY <2>1 DEF Line
    <3>5. GotFine(c)'
      BY <1>9, <1>11, <2>1, <3>1, <3>2, <3>4 DEF GotFine
    <3> QED
      BY <3>3, <3>5
  <2> QED
    BY <2>2, <2>3
<1>14. (\A u \in Shims : PathFine(u)') /\ Alone'
  <2>1. \A u \in Shims : /\ sh'[u].saw = sh[u].saw
                         /\ \/ sh'[u].st = sh[u].st
                            \/ sh[u].st = "listening" /\ sh'[u].st = "serving"
    BY <1>1, <1>6, <1>7
  <2> QED
    BY <1>2, <1>9, <2>1, PathStays
<1>15. HostFine'
  <2>1. \A u \in Shims : sh'[u].st \in Binding => sh[u].st \in Binding
    BY <1>6, <1>7 DEF Binding
  <2> QED
    BY <1>2, <2>1, HostStays
<1> QED
  BY <1>1, <1>2, <1>6, <1>11, <1>12, <1>13, <1>14, <1>15
     DEF ShimIInv, ShimTypes

LEMMA ExitsStep ==
    ASSUME ShimIInv, NEW s \in Shims, HarnessExits(s)
    PROVE  ShimIInv'
<1>1. /\ ShimTypes /\ sh[s] \in Shim /\ sh \in [Shims -> Shim]
  BY ShimElements DEF ShimIInv, ShimTypes
<1>2. UNCHANGED <<path, logf, cn, hs>>
  BY DEF HarnessExits
<1> DEFINE r == [sh[s] EXCEPT !.harness = FALSE]
<1>3. Moved(sh[s], r, sh[s].st, FALSE, sh[s].lost, sh[s].saw)
  BY <1>1, SetHarness
<1>4. sh' = [sh EXCEPT ![s] = r]
  BY DEF HarnessExits
<1> HIDE DEF r
<1>5. /\ sh' \in [Shims -> Shim] /\ sh'[s] = r
      /\ \A u \in Shims : u # s => sh'[u] = sh[u]
  BY <1>1, <1>3, <1>4, OneMoves DEF Moved
<1>6. \A u \in Shims : /\ sh'[u].st = sh[u].st /\ sh'[u].lost = sh[u].lost
                       /\ sh'[u].saw = sh[u].saw /\ Stays(u)
  <2>1. \A u \in Shims : u # s => Stays(u)
    BY <1>5 DEF Stays, SameFeed
  <2>2. Stays(s)
    BY <1>3, <1>5 DEF Stays, Moved
  <2> QED
    BY <1>3, <1>5, <2>1, <2>2 DEF Moved
<1>7. Fed'
  BY <1>2, <1>6, FedStays
<1>8. (\A u \in Shims : PathFine(u)') /\ Alone'
  BY <1>2, <1>6, PathStays
<1>9. HostFine'
  BY <1>2, <1>6, HostStays
<1> QED
  BY <1>1, <1>2, <1>5, <1>7, <1>8, <1>9 DEF ShimIInv, Fed, ShimTypes

(* A shim that listens has its file, unless another one robbed it.         *)
LEMMA OwnFile ==
    ASSUME ShimIInv, NEW s \in Shims, sh[s].st \in Listening, ~hs.stray
    PROVE  path = s
<1>1. PathFine(s) /\ Alone /\ sh[s] \in Shim
  BY ShimElements DEF ShimIInv
<1>2. sh[s].st \notin {"killing", "gone"} /\ sh[s].st \in Bound
  BY DEF Listening, Bound
<1>3. sh[s].lost = "no"
  BY <1>1, <1>2 DEF PathFine, Alone, Shim
<1> QED
  BY <1>1, <1>2, <1>3 DEF PathFine

LEMMA ShimEndsStep ==
    ASSUME ShimIInv, NEW s \in Shims, ShimEnds(s)
    PROVE  ShimIInv'
<1>1. /\ ShimTypes /\ sh[s].st \in Listening /\ PathFine(s)
      /\ cn \in Seq(Conn) /\ Len(cn) \in Nat
  BY ShimElements DEF ShimIInv, ShimTypes, ShimEnds
<1>2. UNCHANGED <<logf, hs>> /\ path' = Nobody
  BY DEF ShimEnds
<1> DEFINE f == Gone(s)
<1>3. /\ f \in [Shims -> Shim] /\ \A u \in Shims : u # s => f[u] = sh[u]
      /\ f[s].st = "gone" /\ Cleared(f[s]) /\ f[s].lost = sh[s].lost
  BY <1>1, OneGone
<1>4. sh' = Unlinked(f, "robbed") /\ cn' = Severed(s)
  BY DEF ShimEnds
<1> HIDE DEF f
<1>5. /\ sh' \in [Shims -> Shim]
      /\ \A u \in Shims :
            /\ sh'[u].st = f[u].st /\ SameFeed(f[u], sh'[u])
            /\ sh'[u].harness = f[u].harness /\ sh'[u].saw = f[u].saw
            /\ sh'[u].lost = IF u = path /\ f[u].st \in Bound THEN "robbed"
                             ELSE f[u].lost
  BY <1>3, <1>4, Unlinking
<1>6. sh'[s].st = "gone" /\ sh'[s].lost = sh[s].lost /\ Leaves(s)
  BY <1>3, <1>5 DEF Leaves, Cleared, SameFeed, Bound
<1>7. \A u \in Shims : u # s =>
          /\ sh'[u].st = sh[u].st /\ sh'[u].saw = sh[u].saw
          /\ sh'[u].harness = sh[u].harness /\ SameFeed(sh[u], sh'[u])
          /\ sh'[u].lost = IF u = path /\ sh[u].st \in Bound THEN "robbed"
                           ELSE sh[u].lost
  BY <1>3, <1>5
<1>8. /\ cn' \in Seq(Conn) /\ Len(cn') = Len(cn)
      /\ \A c \in 1..Len(cn) :
            cn'[c] = IF cn[c].to = s THEN Over(cn[c]) ELSE cn[c]
  BY <1>1, <1>4, OneSevered
<1>9. \A c \in 1..Len(cn) : /\ cn[c].to \in Shims
                            /\ IF cn[c].to = s
                               THEN cn'[c].to = s /\ DoneWith(cn'[c])
                               ELSE cn'[c] = cn[c]
  <2>1. \A c \in 1..Len(cn) : cn[c] \in Conn /\ cn[c].to \in Shims
    BY <1>1, ShimElements DEF Conn
  <2> QED
    BY <1>8, <2>1, GoneOver
<1>10. Fed'
  <2>1. \A u \in Shims : u # s => Stays(u)
    BY <1>7 DEF Stays
  <2>2. \A u \in Shims : sh[u].lost # "no" => sh'[u].lost # "no"
    BY <1>6, <1>7
  <2>3. \A c \in 1..Len(cn') : ~(c > Len(cn))
    BY <1>1, <1>8
  <2>4. ASSUME NEW c \in 1..Len(cn)
        PROVE  /\ cn'[c].to = cn[c].to
               /\ \/ DoneWith(cn'[c]) /\ (Leaves(cn[c].to) \/ DoneWith(cn[c]))
                  \/ /\ Stays(cn[c].to)
                     /\ cn'[c].st = cn[c].st /\ cn'[c].off = cn[c].off
                     /\ cn'[c].got = cn[c].got
                     /\ cn'[c].live => cn[c].live
                     /\ cn[c].cut => cn'[c].cut
    BY <1>6, <1>9, <2>1
  <2>5. Len(cn') >= Len(cn)
    BY <1>1, <1>8
  <2>6. Unfed
    BY <1>2, <1>6, <1>8, <2>1, <2>2, <2>3, <2>4, <2>5 DEF Unfed
  <2> QED
    BY <2>6, Calm
<1>11. (\A u \in Shims : PathFine(u)') /\ Alone'
  <2>1. /\ sh'[s].st \notin Bound \cup {"stale", "none", "killing"}
        /\ sh'[s].st \notin Binding /\ sh[s].lost # "stolen"
        /\ sh[s].st # "none"
    BY <1>1, <1>6 DEF Bound, Binding, PathFine, Listening
  <2>2. ~hs.stray => path = s
    BY <1>1, OwnFile
  <2> QED
    BY <1>2, <1>6, <1>7, <2>1, <2>2, FileGone
<1>12. HostFine'
  <2>1. \A u \in Shims : sh'[u].st \in Binding => sh[u].st \in Binding
    BY <1>6, <1>7 DEF Binding
  <2>2. \A c \in 1..Len(cn) :
            /\ cn'[c].to = cn[c].to
            /\ cn[c].live => cn'[c].live \/ cn'[c].st = "over"
            /\ cn[c].st = "over" => cn'[c].st = "over"
    BY <1>9 DEF DoneWith
  <2> QED
    BY <1>2, <1>8, <2>1, <2>2, HostStays
<1>13. path' \in 0..MaxShims
  BY <1>2, ShimAssumption DEF Nobody
<1> QED
  BY <1>1, <1>2, <1>5, <1>8, <1>10, <1>11, <1>12, <1>13
     DEF ShimIInv, Fed, ShimTypes

LEMMA KillHarnessStep ==
    ASSUME ShimIInv, NEW s \in Shims, KillHarness(s)
    PROVE  ShimIInv'
<1>1. /\ ShimTypes /\ sh[s] \in Shim /\ sh[s].st = "serving" /\ PathFine(s)
      /\ sh \in [Shims -> Shim]
  BY ShimElements DEF ShimIInv, ShimTypes, KillHarness
<1>2. UNCHANGED <<logf, cn, hs>> /\ path' = Nobody
  BY DEF KillHarness
<1> DEFINE e == [sh[s] EXCEPT !.st = "killing"]
           l == IF path = s THEN "killed" ELSE sh[s].lost
           r == [e EXCEPT !.lost = l]
           f == [sh EXCEPT ![s] = r]
<1>3. Moved(sh[s], e, "killing", sh[s].harness, sh[s].lost, sh[s].saw)
  BY <1>1, SetSt DEF ShimSt
<1>4. [sh EXCEPT ![s].st = "killing",
                 ![s].lost = IF path = s THEN "killed" ELSE @] = f
  BY <1>1
<1>5. sh' = Unlinked(f, "robbed")
  BY <1>4 DEF KillHarness
<1> HIDE DEF e
<1>6. l \in {"no", "killed", "robbed", "stolen"} /\ l # "stolen" /\ l # "no"
  <2>1. sh[s].lost = "no" => path = s
    BY <1>1 DEF PathFine, Bound
  <2> QED
    BY <1>1, <2>1 DEF PathFine, Shim
<1> HIDE DEF l
<1>7. Moved(e, r, e.st, e.harness, l, e.saw)
  BY <1>3, <1>6, SetLost DEF Moved
<1> HIDE DEF r
<1>8. Moved(sh[s], r, "killing", sh[s].harness, l, sh[s].saw)
  BY <1>3, <1>7 DEF Moved, SameFeed
<1>9. /\ f \in [Shims -> Shim] /\ f[s] = r
      /\ \A u \in Shims : u # s => f[u] = sh[u]
  BY <1>1, <1>8 DEF Moved
<1> HIDE DEF f
<1>10. /\ sh' \in [Shims -> Shim]
       /\ \A u \in Shims :
             /\ sh'[u].st = f[u].st /\ SameFeed(f[u], sh'[u])
             /\ sh'[u].harness = f[u].harness /\ sh'[u].saw = f[u].saw
             /\ sh'[u].lost = IF u = path /\ f[u].st \in Bound THEN "robbed"
                              ELSE f[u].lost
  BY <1>5, <1>9, Unlinking
<1>11. /\ sh'[s].st = "killing" /\ sh'[s].lost = l
       /\ sh'[s].harness = sh[s].harness /\ SameFeed(sh[s], sh'[s])
  BY <1>8, <1>9, <1>10 DEF Moved, SameFeed, Bound
<1>12. \A u \in Shims : u # s =>
          /\ sh'[u].st = sh[u].st /\ sh'[u].saw = sh[u].saw
          /\ sh'[u].harness = sh[u].harness /\ SameFeed(sh[u], sh'[u])
          /\ sh'[u].lost = IF u = path /\ sh[u].st \in Bound THEN "robbed"
                           ELSE sh[u].lost
  BY <1>9, <1>10
<1>13. Fed'
  <2>1. Stays(s)
    BY <1>1, <1>11 DEF Stays, Running
  <2>2. \A u \in Shims : u # s => Stays(u)
    BY <1>12 DEF Stays
  <2>3. \A u \in Shims : sh[u].lost # "no" => sh'[u].lost # "no"
    BY <1>6, <1>11, <1>12
  <2> QED
    BY <1>2, <2>1, <2>2, <2>3, FedStays
<1>14. (\A u \in Shims : PathFine(u)') /\ Alone'
  <2>1. /\ sh'[s].st \notin Bound \cup {"stale", "none"}
        /\ sh'[s].st \notin Binding /\ sh[s].st \in Listening
    BY <1>1, <1>11 DEF Bound, Binding, Listening
  <2>2. ~hs.stray => path = s
    BY <2>1, OwnFile
  <2>3. l = "robbed" => sh[s].lost = "robbed"
    BY DEF l
  <2> QED
    BY <1>1, <1>2, <1>6, <1>11, <1>12, <2>1, <2>2, <2>3, FileGone
<1>15. HostFine'
  <2>1. \A u \in Shims : sh'[u].st \in Binding => sh[u].st \in Binding
    BY <1>11, <1>12 DEF Binding
  <2> QED
    BY <1>2, <2>1, HostStays
<1>16. path' \in 0..MaxShims
  BY <1>2, ShimAssumption DEF Nobody
<1> QED
  BY <1>1, <1>2, <1>10, <1>13, <1>14, <1>15, <1>16
     DEF ShimIInv, Fed, ShimTypes

LEMMA KillGroupStep ==
    ASSUME ShimIInv, NEW s \in Shims, KillGroup(s)
    PROVE  ShimIInv'
<1>1. hs \in Host /\ s <= hs.spawned
  BY Started DEF ShimIInv, ShimTypes, KillGroup
<1>2. sh' = Gone(s) /\ cn' = Severed(s) /\ UNCHANGED <<path, logf, hs>>
  BY DEF KillGroup
<1> QED
  BY <1>1, <1>2, DownSevered

-----------------------------------------------------------------------------
(* The pump.                                                               *)
LEMMA AppendsStep ==
    ASSUME ShimIInv, NEW s \in Shims, PumpAppends(s)
    PROVE  ShimIInv'
<1>1. /\ ShimTypes /\ sh[s] \in Shim /\ sh[s].st \in Running /\ ~sh[s].feeding
      /\ sh \in [Shims -> Shim] /\ ShimFine(s) /\ LogFine(s)
      /\ Len(logf) \in Nat /\ sh[s].said \in Nat /\ logf \in Seq(Line)
      /\ Len(cn) \in Nat
  BY ShimElements DEF ShimIInv, ShimTypes, PumpAppends, Shim
<1>2. UNCHANGED <<path, cn, hs>>
  BY DEF PumpAppends
<1> DEFINE n == sh[s].said + 1
           x == <<s, n>>
           m == Len(logf) + 1
<1>3. n \in Nat /\ m \in Nat /\ x \in Line /\ x[1] = s /\ x[2] = n
  BY <1>1 DEF Line
<1>4. /\ logf' \in Seq(Line) /\ Len(logf') = m /\ logf'[m] = x
      /\ \A i \in 1..Len(logf) : logf'[i] = logf[i]
  <2>1. logf' = Append(logf, x)
    BY DEF PumpAppends
  <2> HIDE DEF x
  <2> QED
    BY <1>1, <1>3, <2>1
<1>5. \A i \in 1..m : i = m \/ i \in 1..Len(logf)
  BY <1>1
<1>6. /\ sh' \in [Shims -> Shim] /\ \A u \in Shims : u # s => sh'[u] = sh[u]
      /\ sh'[s].st = sh[s].st /\ sh'[s].harness = sh[s].harness
      /\ sh'[s].said = n /\ sh'[s].feeding /\ sh'[s].relay = sh[s].relay
      /\ sh'[s].att = sh[s].att /\ sh'[s].taking = sh[s].taking
      /\ sh'[s].lost = sh[s].lost /\ sh'[s].saw = sh[s].saw
  <2> DEFINE e == [sh[s] EXCEPT !.said = n]
             g == [e EXCEPT !.feeding = TRUE]
  <2>1. sh' = [sh EXCEPT ![s] = g]
    BY DEF PumpAppends
  <2>2. e \in Shim
    BY <1>1, <1>3, ShimSet
  <2> HIDE DEF n
  <2>3. /\ e.st = sh[s].st /\ e.harness = sh[s].harness
        /\ e.said = n /\ e.relay = sh[s].relay
        /\ e.att = sh[s].att /\ e.taking = sh[s].taking
        /\ e.lost = sh[s].lost /\ e.saw = sh[s].saw
    BY <1>1 DEF Shim
  <2> HIDE DEF e
  <2>4. g \in Shim
    BY <2>2, ShimSet
  <2>5. /\ g.st = e.st /\ g.harness = e.harness /\ g.feeding
        /\ g.said = e.said /\ g.relay = e.relay
        /\ g.att = e.att /\ g.taking = e.taking
        /\ g.lost = e.lost /\ g.saw = e.saw
    BY <2>2 DEF Shim
  <2> HIDE DEF g
  <2> QED
    BY <1>1, <2>1, <2>3, <2>4, <2>5, OneMoves
<1>7. \A k \in Nat : k <= sh[s].said => k <= n /\ k < n
  BY <1>1
<1> HIDE DEF x, n
<1>8. \A u \in Shims : sh'[u].lost = sh[u].lost /\ sh'[u].st = sh[u].st
  BY <1>6
<1>9. NothingLost' <=> NothingLost
  BY <1>8 DEF NothingLost
<1>10. ASSUME NEW u \in Shims, u # s, sh[u].st \in Running
       PROVE  /\ sh[u].lost # "no" \/ sh[s].lost # "no"
              /\ ~NothingLost
  <2>1. sh[u].lost # "no" \/ sh[s].lost # "no"
    BY <1>1, <1>10, OneFile
  <2> QED
    BY <1>10, <2>1 DEF NothingLost
<1>11. \A i \in 1..Len(logf) : logf[i][1] \in Shims /\ logf[i][2] \in Nat
  BY <1>1 DEF Line
<1>12. ASSUME NEW u \in Shims PROVE ShimFine(u)'
  <2>1. ShimFine(u)
    BY DEF ShimIInv
  <2>2. CASE u = s
    BY <1>1, <1>2, <1>6, <2>1, <2>2 DEF ShimFine
  <2>3. CASE u # s
    <3>1. sh'[u] = sh[u]
      BY <1>6, <2>3
    <3> QED
      BY <1>2, <2>1, <3>1 DEF ShimFine
  <2> QED
    BY <2>2, <2>3
<1>13. LogFine(s)'
  <2>1. \A i \in 1..Len(logf) : /\ logf'[i] = logf[i]
                                /\ logf[i][1] = s => /\ logf[i][2] <= n
                                                     /\ logf[i][2] < n
    BY <1>1, <1>4, <1>7, <1>11 DEF LogFine
  <2>2. \A i \in 1..Len(logf') : logf'[i][1] = s => logf'[i][2] <= sh'[s].said
    BY <1>3, <1>4, <1>5, <1>6, <2>1
  <2>3. ASSUME NEW i \in 1..Len(logf'), NEW j \in 1..Len(logf'), i < j,
               logf'[i][1] = s, logf'[j][1] = s
        PROVE  logf'[i][2] < logf'[j][2]
    <3>1. i \in 1..Len(logf)
      BY <1>1, <1>4, <2>3
    <3>2. CASE j = m
      BY <1>3, <1>4, <2>1, <2>3, <3>1, <3>2
    <3>3. CASE j \in 1..Len(logf)
      BY <1>1, <2>1, <2>3, <3>1, <3>3 DEF LogFine
    <3> QED
      BY <1>4, <1>5, <3>2, <3>3
  <2>4. \A i \in 1..Len(logf') : logf'[i][1] # s =>
            sh'[s].lost # "no" \/ sh'[logf'[i][1]].lost # "no"
    BY <1>1, <1>3, <1>4, <1>5, <1>8, <1>11 DEF LogFine
  <2>5. ASSUME NothingLost
        PROVE  /\ Len(logf') = sh'[s].said
               /\ \A i \in 1..Len(logf') : logf'[i] = <<s, i>>
    <3>1. Len(logf) = sh[s].said /\ \A i \in 1..Len(logf) : logf[i] = <<s, i>>
      BY <1>1, <2>5 DEF LogFine
    <3>2. m = n
      BY <3>1 DEF n
    <3> QED
      BY <1>4, <1>5, <1>6, <3>1, <3>2 DEF x
  <2> QED
    BY <1>9, <2>2, <2>3, <2>4, <2>5 DEF LogFine
<1>14. ASSUME NEW u \in Shims, u # s PROVE LogFine(u)'
  <2> SUFFICES ASSUME sh[u].st \in Running PROVE LogFine(u)'
    BY <1>8 DEF LogFine
  <2>1. LogFine(u) /\ sh'[u] = sh[u]
    BY <1>6, <1>14 DEF ShimIInv
  <2>2. \A i \in 1..Len(logf') : logf'[i][1] = u =>
            i \in 1..Len(logf) /\ logf'[i] = logf[i]
    BY <1>3, <1>4, <1>5, <1>14
  <2>3. \A i \in 1..Len(logf') : logf'[i][1] = u => logf'[i][2] <= sh'[u].said
    BY <2>1, <2>2 DEF LogFine
  <2>4. \A i, j \in 1..Len(logf') :
            i < j /\ logf'[i][1] = u /\ logf'[j][1] = u
               => logf'[i][2] < logf'[j][2]
    BY <2>1, <2>2 DEF LogFine
  <2>5. \A i \in 1..Len(logf') : logf'[i][1] # u =>
            sh'[u].lost # "no" \/ sh'[logf'[i][1]].lost # "no"
    <3>1. \A i \in 1..Len(logf) : logf[i][1] # u =>
              sh[u].lost # "no" \/ sh[logf[i][1]].lost # "no"
      BY <2>1 DEF LogFine
    <3> QED
      BY <1>3, <1>4, <1>5, <1>8, <1>10, <1>11, <1>14, <3>1
  <2> QED
    BY <1>9, <1>10, <1>14, <2>3, <2>4, <2>5 DEF LogFine
<1>15. ASSUME NEW c \in 1..Len(cn) PROVE ConnFine(c)' /\ GotFine(c)'
  <2>1. /\ ConnFine(c) /\ GotFine(c) /\ cn[c].to \in Shims /\ c # Nobody
        /\ cn[c].got \in Seq(Line) /\ cn[c].off \in Nat
    BY <1>1, ShimElements DEF ShimIInv, Conn
  <2> DEFINE u == cn[c].to
  <2>2. u \in Shims /\ cn[c].to = u /\ cn' = cn
    BY <1>2, <2>1
  <2> HIDE DEF u
  <2>3. ConnFine(c)'
    <3>1. /\ sh'[u].st = sh[u].st /\ sh'[u].taking = sh[u].taking
          /\ sh'[u].att = sh[u].att /\ sh'[u].relay = sh[u].relay
      BY <1>6, <2>2
    <3> QED
      BY <2>1, <2>2, <3>1 DEF ConnFine
  <2>4. \A i \in 1..Len(cn[c].got) : cn[c].got[i][1] \in Shims
                                     /\ cn[c].got[i][2] \in Nat
    BY <2>1 DEF Line
  <2>5. \A i \in 1..Len(cn[c].got) : cn[c].got[i][1] # u =>
            sh'[u].lost # "no" \/ sh'[cn[c].got[i][1]].lost # "no"
    BY <1>8, <2>1, <2>2, <2>4 DEF GotFine
  <2>6. CASE u # s
    <3>1. sh'[u] = sh[u]
      BY <1>6, <2>2, <2>6
    <3>2. \A i \in 1..Len(logf') : logf'[i][1] = u =>
              i \in 1..Len(logf) /\ logf'[i] = logf[i]
      BY <1>3, <1>4, <1>5, <2>6
    <3>3. NothingLost => sh[u].relay # c
      <4>1. ShimFine(u)
        BY <2>2 DEF ShimIInv
      <4> QED
        BY <1>10, <2>1, <2>2, <2>6, <4>1 DEF ShimFine
    <3>4. cn[c].st = "on" /\ cn[c].live /\ ~cn[c].cut =>
              \A i \in 1..Len(logf') : i > cn[c].off /\ logf'[i][1] = u =>
                 \/ \E j \in 1..Len(cn[c].got) : cn[c].got[j] = logf'[i]
                 \/ sh[u].feeding /\ logf'[i][2] = sh[u].said
      BY <2>1, <2>2, <3>2 DEF GotFine
    <3> QED
      BY <1>9, <2>1, <2>2, <2>3, <2>5, <3>1, <3>3, <3>4 DEF GotFine
  <2>7. CASE u = s
    <3>1. \A i \in 1..Len(cn[c].got) : cn[c].got[i][1] = s =>
              cn[c].got[i][2] <= n /\ cn[c].got[i][2] < n
      BY <1>7, <2>1, <2>2, <2>4, <2>7 DEF GotFine
    <3>2. cn[c].st = "on" /\ cn[c].live /\ ~cn[c].cut =>
              \A i \in 1..Len(logf') : i > cn[c].off /\ logf'[i][1] = s =>
                 \/ \E j \in 1..Len(cn[c].got) : cn[c].got[j] = logf'[i]
                 \/ logf'[i][2] = n
      <4>1. cn[c].st = "on" /\ cn[c].live /\ ~cn[c].cut =>
                \A i \in 1..Len(logf) : i > cn[c].off /\ logf[i][1] = s =>
                   \E j \in 1..Len(cn[c].got) : cn[c].got[j] = logf[i]
        BY <1>1, <2>1, <2>2, <2>7 DEF GotFine
      <4>2. logf'[m][2] = n
        BY <1>3, <1>4
      <4> HIDE DEF m
      <4> QED
        BY <1>4, <1>5, <4>1, <4>2
    <3>3. NothingLost =>
             /\ \A i \in 1..Len(cn[c].got) : cn[c].got[i] = <<s, cn[c].off + i>>
             /\ sh[s].relay = c /\ cn[c].live /\ ~cn[c].cut =>
                   cn[c].off + Len(cn[c].got) + 1 = Len(logf')
      <4>1. NothingLost =>
               /\ \A i \in 1..Len(cn[c].got) :
                     cn[c].got[i] = <<s, cn[c].off + i>>
               /\ sh[s].relay = c /\ cn[c].live /\ ~cn[c].cut =>
                     cn[c].off + Len(cn[c].got) = Len(logf)
        BY <1>1, <2>1, <2>2, <2>7 DEF GotFine
      <4>2. Len(cn[c].got) \in Nat
        BY <2>1
      <4> QED
        BY <1>4, <4>1, <4>2
    <3>4. \A i, j \in 1..Len(cn[c].got) :
              i < j /\ cn[c].got[i][1] = s /\ cn[c].got[j][1] = s
                 => cn[c].got[i][2] < cn[c].got[j][2]
      BY <2>1, <2>2, <2>7 DEF GotFine
    <3>5. cn'[c].to = s /\ sh'[s].said = n /\ sh'[s].feeding
          /\ sh'[s].relay = sh[s].relay
      BY <1>6, <2>2, <2>7
    <3> QED
      BY <1>9, <2>2, <2>3, <2>5, <2>7, <3>1, <3>2, <3>3, <3>4, <3>5 DEF GotFine
  <2> QED
    BY <2>6, <2>7
<1>16. (\A u \in Shims : PathFine(u)') /\ Alone'
  <2>1. \A u \in Shims : sh'[u].saw = sh[u].saw
    BY <1>6
  <2> QED
    BY <1>2, <1>8, <2>1, PathStays
<1>17. HostFine'
  BY <1>2, <1>8, HostStays
<1>18. \A u \in Shims : LogFine(u)'
  BY <1>13, <1>14
<1> QED
  BY <1>1, <1>2, <1>4, <1>6, <1>12, <1>15, <1>16, <1>17, <1>18
     DEF ShimIInv, ShimTypes

LEMMA DeliversStep ==
    ASSUME ShimIInv, NEW s \in Shims, PumpDelivers(s)
    PROVE  ShimIInv'
<1> DEFINE c == sh[s].relay
           r == [sh[s] EXCEPT !.feeding = FALSE]
<1>1. /\ ShimTypes /\ sh[s] \in Shim /\ sh[s].feeding /\ s # Nobody
      /\ sh \in [Shims -> Shim] /\ ShimFine(s) /\ LogFine(s)
      /\ Len(logf) \in Nat /\ sh[s].said \in Nat /\ logf \in Seq(Line)
      /\ Len(cn) \in Nat /\ cn \in Seq(Conn)
  BY ShimElements DEF ShimIInv, ShimTypes, PumpDelivers, Shim
<1>2. UNCHANGED <<path, logf, hs>> /\ sh[s].st \in Running
  BY <1>1 DEF PumpDelivers, ShimFine
<1>3. /\ r \in Shim /\ r.st = sh[s].st /\ r.harness = sh[s].harness
      /\ r.said = sh[s].said /\ r.relay = sh[s].relay
      /\ r.att = sh[s].att /\ r.taking = sh[s].taking /\ ~r.feeding
      /\ r.lost = sh[s].lost /\ r.saw = sh[s].saw
  <2>1. r \in Shim
    BY <1>1, ShimSet
  <2> QED
    BY <1>1, <2>1 DEF Shim
<1>4. \A d \in 1..Len(cn) :
          /\ ConnFine(d) /\ GotFine(d) /\ cn[d].to \in Shims /\ d # Nobody
          /\ cn[d] \in Conn /\ cn[d].got \in Seq(Line) /\ cn[d].off \in Nat
  BY <1>1, ShimElements DEF ShimIInv, Conn
<1>5. CASE c # Nobody /\ cn[c].live /\ ~cn[c].cut
  <2> DEFINE y == <<s, sh[s].said>>
             m == Len(cn[c].got)
             q == Append(cn[c].got, y)
             k == [cn[c] EXCEPT !.got = q]
  <2>1. /\ c \in 1..Len(cn) /\ cn[c].to = s /\ cn[c] \in Conn
        /\ cn[c].st \in {"on", "leaving"} /\ cn[c].got \in Seq(Line)
        /\ cn[c].off \in Nat /\ m \in Nat /\ ConnFine(c) /\ GotFine(c)
    <3>1. /\ c \in 1..Len(cn) /\ cn[c].to = s
          /\ cn[c].st \in {"on", "leaving"}
      BY <1>1, <1>5 DEF ShimFine
    <3> HIDE DEF c
    <3> QED
      BY <1>4, <3>1
  <2>2. y \in Line /\ y[1] = s /\ y[2] = sh[s].said
    BY <1>1 DEF Line
  <2>3. sh' = [sh EXCEPT ![s] = r] /\ cn' = [cn EXCEPT ![c] = k]
    BY <1>5 DEF PumpDelivers
  <2> HIDE DEF y, r
  <2>4. /\ q \in Seq(Line) /\ Len(q) = m + 1 /\ q[m + 1] = y
        /\ \A i \in 1..m : q[i] = cn[c].got[i]
    <3> HIDE DEF c
    <3> QED
      BY <2>1, <2>2
  <2> HIDE DEF q
  <2>5. /\ k \in Conn /\ k.to = cn[c].to /\ k.st = cn[c].st
        /\ k.off = cn[c].off /\ k.got = q /\ k.live = cn[c].live
        /\ k.cut = cn[c].cut
    <3> HIDE DEF c
    <3>1. k \in Conn
      BY <2>1, <2>4, ConnSet
    <3> QED
      BY <2>1, <2>4, <3>1 DEF Conn
  <2>6. c = sh[s].relay
    OBVIOUS
  <2> HIDE DEF k, c
  <2>7. /\ sh' \in [Shims -> Shim] /\ sh'[s] = r
        /\ \A u \in Shims : u # s => sh'[u] = sh[u]
    BY <1>1, <1>3, <2>3, OneMoves
  <2>8. /\ cn' \in Seq(Conn) /\ Len(cn') = Len(cn) /\ cn'[c] = k
        /\ \A d \in 1..Len(cn) : d # c => cn'[d] = cn[d]
    BY <1>1, <2>1, <2>3, <2>5
  <2>9. \A d \in 1..Len(cn) : cn'[d].to = cn[d].to /\ cn'[d].st = cn[d].st
    BY <2>5, <2>8
  <2>10. \A u \in Shims : /\ sh'[u].lost = sh[u].lost /\ sh'[u].st = sh[u].st
                          /\ sh'[u].saw = sh[u].saw
                          /\ sh'[u].said = sh[u].said
                          /\ sh'[u].relay = sh[u].relay
                          /\ sh'[u].att = sh[u].att
                          /\ sh'[u].taking = sh[u].taking
                          /\ sh'[u].harness = sh[u].harness
    BY <1>3, <2>7
  <2>11. NothingLost' <=> NothingLost
    BY <2>10 DEF NothingLost
  <2>12. ASSUME NEW u \in Shims PROVE ShimFine(u)' /\ LogFine(u)'
    <3>1. ShimFine(u) /\ LogFine(u)
      BY DEF ShimIInv
    <3>2. LogFine(u)'
      <4>1. \A i \in 1..Len(logf) : logf[i][1] \in Shims
        BY <1>1 DEF Line
      <4> QED
        BY <1>2, <2>10, <2>11, <3>1, <4>1 DEF LogFine
    <3>3. CASE u = s
      BY <1>1, <1>2, <2>8, <2>9, <2>10, <3>1, <3>2, <3>3 DEF ShimFine
    <3>4. CASE u # s
      <4>1. sh'[u] = sh[u]
        BY <2>7, <3>4
      <4> QED
        BY <2>8, <2>9, <3>1, <3>2, <4>1 DEF ShimFine
    <3> QED
      BY <3>3, <3>4
  <2>13. ASSUME NEW d \in 1..Len(cn), cn[d].to # s
         PROVE  ConnFine(d)' /\ GotFine(d)'
    <3> DEFINE u == cn[d].to
    <3>1. /\ u \in Shims /\ sh'[u] = sh[u] /\ cn'[d] = cn[d] /\ cn[d].to = u
          /\ ConnFine(d) /\ GotFine(d)
      BY <1>4, <2>1, <2>7, <2>8, <2>13
    <3> HIDE DEF u
    <3>2. ConnFine(d)'
      BY <3>1 DEF ConnFine
    <3>3. GotFine(d)'
      BY <1>2, <2>10, <3>1, GotStays
    <3> QED
      BY <3>2, <3>3
  <2>14. ASSUME NEW d \in 1..Len(cn), cn[d].to = s, d # c
         PROVE  ConnFine(d)' /\ GotFine(d)'
    <3>1. /\ cn'[d] = cn[d] /\ ConnFine(d) /\ GotFine(d) /\ sh[s].relay # d
          /\ ~sh'[s].feeding
      BY <1>3, <1>4, <2>6, <2>7, <2>8, <2>14
    <3>2. ConnFine(d)'
      BY <2>10, <2>14, <3>1 DEF ConnFine
    <3>3. ~(cn[d].st = "on" /\ cn[d].live /\ ~cn[d].cut)
      BY <2>14, <3>1 DEF ConnFine
    <3>4. GotFine(d)'
      BY <1>2, <2>10, <2>14, <3>1, <3>3, GotStays
    <3> QED
      BY <3>2, <3>4
  <2>15. ASSUME NEW d \in 1..Len(cn), d = c PROVE ConnFine(d)' /\ GotFine(d)'
    <3>1. /\ cn'[d].to = s /\ cn'[d].st = cn[d].st /\ cn'[d].off = cn[d].off
          /\ cn'[d].got = q /\ cn'[d].live = cn[d].live
          /\ cn'[d].cut = cn[d].cut /\ ~sh'[s].feeding
      BY <1>3, <2>1, <2>5, <2>7, <2>8, <2>15
    <3>2. ConnFine(d)'
      <4>1. /\ sh'[s].st = sh[s].st /\ sh'[s].relay = sh[s].relay
            /\ sh'[s].att = sh[s].att /\ sh'[s].taking = sh[s].taking
        BY <2>10
      <4>2. cn[c].st # "over" /\ cn[c].st \notin {"dialled", "asked", "unfed"}
        BY <2>1
      <4> QED
        BY <2>1, <2>15, <3>1, <4>1, <4>2 DEF ConnFine
    <3>3. \A i \in 1..Len(q) : i = m + 1 \/ i \in 1..m
      BY <2>1, <2>4
    <3>4. \A i \in 1..m : /\ cn[c].got[i][1] \in Shims
                          /\ cn[c].got[i][2] \in Nat
                          /\ cn[c].got[i][1] = s =>
                                /\ cn[c].got[i][2] <= sh[s].said
                                /\ cn[c].got[i][2] < sh[s].said
      <4>1. \A i \in 1..m : cn[c].got[i][1] = s =>
               /\ cn[c].got[i][2] <= sh[s].said
               /\ cn[c].got[i][2] < sh[s].said
        BY <1>1, <2>1, <2>6 DEF GotFine, m
      <4>2. \A i \in 1..m : cn[c].got[i] \in Line
        BY <2>1
      <4> QED
        BY <4>1, <4>2 DEF Line
    <3>5. \A i \in 1..Len(q) : q[i][1] = s => q[i][2] <= sh[s].said
      <4>1. sh[s].said <= sh[s].said
        BY <1>1
      <4> HIDE DEF m
      <4> QED
        BY <2>2, <2>4, <3>3, <3>4, <4>1
    <3>6. ASSUME NEW i \in 1..Len(q), NEW j \in 1..Len(q), i < j,
                 q[i][1] = s, q[j][1] = s
          PROVE  q[i][2] < q[j][2]
      <4>1. i \in 1..m
        BY <2>1, <2>4, <3>6
      <4>2. CASE j = m + 1
        BY <2>2, <2>4, <3>4, <3>6, <4>1, <4>2
      <4>3. CASE j \in 1..m
        BY <2>1, <2>4, <3>6, <4>1, <4>3 DEF GotFine, m
      <4> QED
        BY <3>3, <4>2, <4>3
    <3>7. ASSUME cn[c].st = "on", NEW i \in 1..Len(logf), i > cn[c].off,
                 logf[i][1] = s
          PROVE  \E j \in 1..Len(q) : q[j] = logf[i]
      <4>1. \/ \E j \in 1..m : cn[c].got[j] = logf[i]
            \/ logf[i][2] = sh[s].said
        BY <1>5, <2>1, <3>7 DEF GotFine, m, c
      <4>2. CASE logf[i][2] = sh[s].said
        <5>1. logf[i] = y
          BY <1>1, <3>7, <4>2 DEF Line, y
        <5>2. m + 1 \in 1..Len(q)
          BY <2>1, <2>4
        <5> QED
          BY <2>4, <5>1, <5>2
      <4>3. CASE \E j \in 1..m : cn[c].got[j] = logf[i]
        <5>1. \A j \in 1..m : j \in 1..Len(q)
          BY <2>1, <2>4
        <5> QED
          BY <2>4, <4>3, <5>1
      <4> QED
        BY <4>1, <4>2, <4>3
    <3>8. \A i \in 1..Len(q) : q[i][1] # s =>
              sh'[s].lost # "no" \/ sh'[q[i][1]].lost # "no"
      <4>1. \A i \in 1..m : cn[c].got[i][1] # s =>
               sh'[s].lost # "no" \/ sh'[cn[c].got[i][1]].lost # "no"
        BY <2>1, <2>10, <3>4 DEF GotFine, m
      <4> HIDE DEF m
      <4> QED
        BY <2>2, <2>4, <3>3, <4>1
    <3>9. ASSUME NothingLost
          PROVE  /\ \A i \in 1..Len(q) : q[i] = <<s, cn[c].off + i>>
                 /\ cn[c].off + Len(q) = Len(logf)
      <4>1. /\ \A i \in 1..m : cn[c].got[i] = <<s, cn[c].off + i>>
            /\ cn[c].off + m + 1 = Len(logf)
        BY <1>1, <1>5, <2>1, <2>6, <3>9 DEF GotFine, m, c
      <4>2. sh[s].said = Len(logf)
        BY <1>1, <1>2, <3>9 DEF LogFine
      <4>3. cn[c].off + (m + 1) = Len(logf)
        BY <2>1, <4>1
      <4>4. y = <<s, cn[c].off + (m + 1)>>
        BY <4>2, <4>3 DEF y
      <4> HIDE DEF m
      <4> QED
        BY <2>4, <3>3, <4>1, <4>3, <4>4
    <3> QED
      BY <1>2, <2>10, <2>11, <2>15, <3>1, <3>2, <3>5, <3>6, <3>7, <3>8,
         <3>9 DEF GotFine
  <2>16. (\A u \in Shims : PathFine(u)') /\ Alone'
    BY <1>2, <2>10, PathStays
  <2>17. HostFine'
    <3>1. \A d \in 1..Len(cn) : cn'[d].live = cn[d].live
      BY <2>5, <2>8
    <3> QED
      BY <1>2, <2>8, <2>9, <2>10, <3>1, HostStays
  <2>18. \A d \in 1..Len(cn) : ConnFine(d)' /\ GotFine(d)'
    BY <2>13, <2>14, <2>15
  <2> QED
    BY <1>1, <1>2, <2>7, <2>8, <2>12, <2>16, <2>17, <2>18
       DEF ShimIInv, ShimTypes
<1>6. CASE ~(c # Nobody /\ cn[c].live /\ ~cn[c].cut)
  <2> DEFINE g == [r EXCEPT !.relay = Nobody]
  <2>1. sh' = [sh EXCEPT ![s] = g] /\ cn' = cn
    BY <1>6 DEF PumpDelivers
  <2> HIDE DEF r
  <2>2. /\ g \in Shim /\ g.st = sh[s].st /\ g.harness = sh[s].harness
        /\ g.said = sh[s].said /\ g.relay = Nobody
        /\ g.att = sh[s].att /\ g.taking = sh[s].taking /\ ~g.feeding
        /\ g.lost = sh[s].lost /\ g.saw = sh[s].saw
    <3>1. g \in Shim
      BY <1>3, ShimSet DEF Nobody
    <3> QED
      BY <1>3, <3>1 DEF Shim
  <2> HIDE DEF g
  <2>3. /\ sh' \in [Shims -> Shim] /\ sh'[s] = g
        /\ \A u \in Shims : u # s => sh'[u] = sh[u]
    BY <1>1, <2>1, <2>2, OneMoves
  <2>4. \A u \in Shims : /\ sh'[u].lost = sh[u].lost /\ sh'[u].st = sh[u].st
                         /\ sh'[u].saw = sh[u].saw
                         /\ sh'[u].said = sh[u].said
                         /\ sh'[u].att = sh[u].att
                         /\ sh'[u].taking = sh[u].taking
                         /\ sh'[u].harness = sh[u].harness
    BY <2>2, <2>3
  <2>5. NothingLost' <=> NothingLost
    BY <2>4 DEF NothingLost
  <2>6. ASSUME NEW u \in Shims PROVE ShimFine(u)' /\ LogFine(u)'
    <3>1. ShimFine(u) /\ LogFine(u)
      BY DEF ShimIInv
    <3>2. LogFine(u)'
      <4>1. \A i \in 1..Len(logf) : logf[i][1] \in Shims
        BY <1>1 DEF Line
      <4> QED
        BY <1>2, <2>4, <2>5, <3>1, <4>1 DEF LogFine
    <3>3. CASE u = s
      BY <1>1, <1>2, <2>1, <2>2, <2>3, <3>1, <3>2, <3>3 DEF ShimFine
    <3>4. CASE u # s
      <4>1. sh'[u] = sh[u]
        BY <2>3, <3>4
      <4> QED
        BY <2>1, <3>1, <3>2, <4>1 DEF ShimFine
    <3> QED
      BY <3>3, <3>4
  <2>7. ASSUME NEW d \in 1..Len(cn) PROVE ConnFine(d)' /\ GotFine(d)'
    <3>1. /\ ConnFine(d) /\ GotFine(d) /\ cn[d].to \in Shims /\ d # Nobody
      BY <1>4
    <3>3. CASE cn[d].to # s
      <4> DEFINE u == cn[d].to
      <4>1. u \in Shims /\ sh'[u] = sh[u] /\ cn[d].to = u
        BY <2>3, <3>1, <3>3
      <4> HIDE DEF u
      <4>2. ConnFine(d)'
        BY <2>1, <3>1, <4>1 DEF ConnFine
      <4>3. GotFine(d)'
        BY <1>2, <2>1, <2>4, <4>1, GotStays
      <4> QED
        BY <4>2, <4>3
    <3>4. CASE cn[d].to = s
      <4>1. ~(cn[d].st = "on" /\ cn[d].live /\ ~cn[d].cut)
        BY <1>6, <3>1, <3>4 DEF ConnFine
      <4>2. sh'[s].relay # d /\ ~sh'[s].feeding
        BY <2>2, <2>3, <3>1
      <4>3. ConnFine(d)'
        BY <2>1, <2>4, <3>1, <3>4, <4>1 DEF ConnFine
      <4>4. GotFine(d)'
        BY <1>2, <2>1, <2>4, <3>4, <4>1, <4>2, GotStays
      <4> QED
        BY <4>3, <4>4
    <3> QED
      BY <3>3, <3>4
  <2>8. (\A u \in Shims : PathFine(u)') /\ Alone'
    BY <1>2, <2>4, PathStays
  <2>9. HostFine'
    BY <1>2, <2>1, <2>4, HostStays
  <2> QED
    BY <1>1, <1>2, <2>1, <2>3, <2>6, <2>7, <2>8, <2>9 DEF ShimIInv, ShimTypes
<1> QED
  BY <1>5, <1>6

-----------------------------------------------------------------------------
(* The handlers of connections.                                            *)

(* A handler changes who is attached and what a connection was fed.        *)
LEMMA HandlerStep ==
    ASSUME ShimIInv, UNCHANGED <<path, logf, hs>>, sh' \in [Shims -> Shim],
           cn' \in Seq(Conn), Len(cn') = Len(cn),
           \A u \in Shims :
              /\ sh'[u].st = sh[u].st /\ sh'[u].said = sh[u].said
              /\ sh'[u].lost = sh[u].lost /\ sh'[u].saw = sh[u].saw,
           \A d \in 1..Len(cn) :
              /\ cn'[d].to = cn[d].to
              /\ cn[d].live => cn'[d].live \/ cn'[d].st = "over"
              /\ cn[d].st = "over" => cn'[d].st = "over",
           \A u \in Shims : ShimFine(u)',
           \A d \in 1..Len(cn) : ConnFine(d)' /\ GotFine(d)'
    PROVE  ShimIInv'
<1>1. ShimTypes
  BY DEF ShimIInv
<1>2. ASSUME NEW u \in Shims PROVE LogFine(u)'
  <2>1. LogFine(u) /\ \A i \in 1..Len(logf) : logf[i][1] \in Shims
    BY <1>1, ShimElements DEF ShimIInv, Line
  <2>2. NothingLost' => NothingLost
    BY DEF NothingLost
  <2> QED
    BY <2>1, <2>2 DEF LogFine
<1>3. (\A u \in Shims : PathFine(u)') /\ Alone'
  BY PathStays
<1>4. HostFine'
  BY HostStays
<1> QED
  BY <1>1, <1>2, <1>3, <1>4 DEF ShimIInv, ShimTypes

LEMMA TakesOverStep ==
    ASSUME ShimIInv, NEW c \in 1..Len(cn), TakesOver(c)
    PROVE  ShimIInv'
<1> DEFINE s == cn[c].to
           old == sh[s].att
           mid == IF old = Nobody THEN cn ELSE [cn EXCEPT ![old].cut = TRUE]
<1>1. /\ ShimTypes /\ cn[c] \in Conn /\ s \in Shims /\ sh[s] \in Shim
      /\ cn[c].st = "dialled" /\ sh[s].st \in Running /\ sh[s].taking = Nobody
      /\ ShimFine(s) /\ ConnFine(c) /\ c # Nobody /\ c \in Nat
      /\ sh \in [Shims -> Shim]
  BY ShimElements DEF ShimIInv, TakesOver, Conn, ShimTypes
<1>2. UNCHANGED <<path, logf, hs>>
  BY DEF TakesOver
<1>3. old \in Nat /\ (old # Nobody => old \in 1..Len(cn) /\ cn[old].to = s)
  BY <1>1 DEF ShimFine, Shim
<1>4. /\ mid \in Seq(Conn) /\ Len(mid) = Len(cn)
      /\ \A d \in 1..Len(cn) :
            /\ mid[d].to = cn[d].to /\ mid[d].st = cn[d].st
            /\ mid[d].off = cn[d].off /\ mid[d].got = cn[d].got
            /\ mid[d].live = cn[d].live
            /\ d # old => mid[d] = cn[d]
            /\ d = old => mid[d].cut
  <2> HIDE DEF old
  <2>1. CASE old = Nobody
    BY <1>1, <2>1, ShimElements DEF ShimTypes
  <2>2. CASE old # Nobody
    <3> DEFINE k == [cn[old] EXCEPT !.cut = TRUE]
    <3>1. old \in 1..Len(cn) /\ cn[old] \in Conn
      BY <1>1, <1>3, <2>2, ShimElements DEF old
    <3>2. k \in Conn
      BY <3>1, ConnSet
    <3>3. /\ k.to = cn[old].to /\ k.st = cn[old].st /\ k.off = cn[old].off
          /\ k.got = cn[old].got /\ k.live = cn[old].live /\ k.cut
      BY <3>1 DEF Conn
    <3>4. mid = [cn EXCEPT ![old] = k]
      BY <2>2
    <3> HIDE DEF k, mid
    <3> QED
      BY <1>1, <3>1, <3>2, <3>3, <3>4 DEF ShimTypes
  <2> QED
    BY <2>1, <2>2
<1>5. cn' = [mid EXCEPT ![c].st = "asked"]
  BY DEF TakesOver
<1> HIDE DEF mid
<1>6. /\ cn' \in Seq(Conn) /\ Len(cn') = Len(cn)
      /\ \A d \in 1..Len(cn) :
            /\ cn'[d].to = cn[d].to /\ cn'[d].live = cn[d].live
            /\ cn'[d].off = cn[d].off /\ cn'[d].got = cn[d].got
            /\ d # c => cn'[d].st = cn[d].st
            /\ d = c => cn'[d].st = "asked"
            /\ d # old => cn'[d].cut = cn[d].cut
            /\ d = old => cn'[d].cut
  <2> DEFINE k == [mid[c] EXCEPT !.st = "asked"]
  <2>1. mid[c] \in Conn
    BY <1>4
  <2>2. k \in Conn
    BY <2>1, ConnSet
  <2>3. /\ k.to = mid[c].to /\ k.st = "asked" /\ k.off = mid[c].off
        /\ k.got = mid[c].got /\ k.live = mid[c].live /\ k.cut = mid[c].cut
    BY <2>1 DEF Conn
  <2>4. cn' = [mid EXCEPT ![c] = k]
    BY <1>5
  <2> HIDE DEF k, old, s
  <2>5. /\ cn' \in Seq(Conn) /\ Len(cn') = Len(cn) /\ cn'[c] = k
        /\ \A d \in 1..Len(cn) : d # c => cn'[d] = mid[d]
    BY <1>4, <2>2, <2>4
  <2> QED
    BY <1>4, <2>3, <2>5
<1>7. /\ sh' \in [Shims -> Shim] /\ \A u \in Shims : u # s => sh'[u] = sh[u]
      /\ sh'[s].st = sh[s].st /\ sh'[s].harness = sh[s].harness
      /\ sh'[s].said = sh[s].said /\ sh'[s].feeding = sh[s].feeding
      /\ sh'[s].relay = sh[s].relay
      /\ sh'[s].att = Nobody /\ sh'[s].taking = c
      /\ sh'[s].lost = sh[s].lost /\ sh'[s].saw = sh[s].saw
  <2> DEFINE e == [sh[s] EXCEPT !.taking = c]
             g == [e EXCEPT !.att = Nobody]
  <2>1. sh' = [sh EXCEPT ![s] = g]
    BY DEF TakesOver
  <2> HIDE DEF s
  <2>2. e \in Shim
    BY <1>1, ShimSet
  <2>3. /\ e.st = sh[s].st /\ e.harness = sh[s].harness
        /\ e.said = sh[s].said /\ e.feeding = sh[s].feeding
        /\ e.relay = sh[s].relay /\ e.taking = c
        /\ e.lost = sh[s].lost /\ e.saw = sh[s].saw
    BY <1>1 DEF Shim
  <2> HIDE DEF e
  <2>4. g \in Shim
    BY <2>2, ShimSet DEF Nobody
  <2>5. /\ g.st = e.st /\ g.harness = e.harness
        /\ g.said = e.said /\ g.feeding = e.feeding
        /\ g.relay = e.relay /\ g.taking = e.taking /\ g.att = Nobody
        /\ g.lost = e.lost /\ g.saw = e.saw
    BY <2>2 DEF Shim
  <2> HIDE DEF g
  <2> QED
    BY <1>1, <2>1, <2>3, <2>4, <2>5, OneMoves
<1>8. sh[s].relay # c /\ cn[c].got = <<>>
  BY <1>1 DEF ShimFine, ConnFine
<1>9. ASSUME NEW u \in Shims PROVE ShimFine(u)'
  <2>1. ShimFine(u)
    BY DEF ShimIInv
  <2>2. CASE u = s
    <3>1. sh[s].relay # Nobody =>
             /\ sh[s].relay \in 1..Len(cn) /\ cn[sh[s].relay].to = s
             /\ cn[sh[s].relay].st \in {"on", "leaving"}
      BY <1>1 DEF ShimFine
    <3>2. sh'[s].relay # Nobody =>
             /\ sh'[s].relay \in 1..Len(cn') /\ cn'[sh'[s].relay].to = s
             /\ cn'[sh'[s].relay].st \in {"on", "leaving"}
      <4> HIDE DEF s, old
      <4> QED
        BY <1>6, <1>7, <1>8, <3>1
    <3>3. /\ sh'[s].st \in Running /\ sh'[s].att = Nobody
          /\ sh'[s].taking \in 1..Len(cn') /\ cn'[sh'[s].taking].to = s
          /\ cn'[sh'[s].taking].st = "asked"
      BY <1>1, <1>6, <1>7
    <3> HIDE DEF s, old
    <3> QED
      BY <2>2, <3>2, <3>3 DEF ShimFine
  <2>3. CASE u # s
    <3>1. sh'[u] = sh[u]
      BY <1>7, <2>3
    <3>2. \A d \in 1..Len(cn) : cn[d].to = u => d # c
      BY <2>3
    <3> HIDE DEF s, old
    <3> QED
      BY SMTT(30), <1>6, <2>1, <3>1, <3>2 DEF ShimFine
  <2> QED
    BY <2>2, <2>3
<1>10. ASSUME NEW d \in 1..Len(cn) PROVE ConnFine(d)'
  <2>1. ConnFine(d) /\ cn[d].to \in Shims /\ d # Nobody
    BY <1>1, ShimElements DEF ShimIInv, Conn
  <2>2. CASE cn[d].to # s
    <3>1. d # c /\ d # old
      BY <1>3, <2>1, <2>2
    <3>2. sh'[cn[d].to] = sh[cn[d].to]
      BY <1>7, <2>1, <2>2
    <3>3. /\ cn'[d].to = cn[d].to /\ cn'[d].st = cn[d].st
          /\ cn'[d].got = cn[d].got
          /\ cn'[d].live = cn[d].live /\ cn'[d].cut = cn[d].cut
      BY <1>6, <3>1
    <3> HIDE DEF s, old
    <3> QED
      BY <2>1, <3>2, <3>3 DEF ConnFine
  <2>3. CASE cn[d].to = s /\ d # c
    <3>1. cn[d].st = "on" /\ ~cn[d].cut => d = old
      BY <2>1, <2>3 DEF ConnFine
    <3>2. cn[d].st # "asked"
      BY <1>1, <2>1, <2>3 DEF ConnFine
    <3> HIDE DEF s, old
    <3> QED
      BY SMTT(60), <1>6, <1>7, <2>1, <2>3, <3>1, <3>2 DEF ConnFine
  <2>4. CASE d = c
    <3>1. cn'[c].to = s /\ cn'[c].st = "asked" /\ cn'[c].got = <<>>
      BY <1>6, <1>8
    <3>2. sh'[s].st \in Listening \cup {"killing"}
      BY <1>1, <1>7 DEF Running, Listening
    <3> HIDE DEF s, old
    <3> QED
      BY <1>1, <1>7, <2>4, <3>1, <3>2 DEF ConnFine
  <2> QED
    BY <2>2, <2>3, <2>4
<1> HIDE DEF old
<1>11. ASSUME NEW d \in 1..Len(cn) PROVE GotFine(d)'
  <2> DEFINE t == cn[d].to
  <2>1. t \in Shims /\ cn[d].to = t /\ cn[d] \in Conn
    BY <1>1, ShimElements DEF Conn
  <2>2. cn'[d].cut \/ cn'[d].cut = cn[d].cut
    BY <1>6
  <2>3. cn[d].cut => cn'[d].cut
    BY <1>6
  <2>4. /\ cn'[d].to = t /\ cn'[d].off = cn[d].off /\ cn'[d].got = cn[d].got
        /\ cn'[d].live = cn[d].live
        /\ cn'[d].st = "on" => cn[d].st = "on"
    BY <1>6, <2>1
  <2>5. /\ sh'[t].said = sh[t].said /\ sh'[t].relay = sh[t].relay
        /\ sh'[t].feeding = sh[t].feeding
    BY <1>7, <2>1
  <2>6. \A u \in Shims : sh[u].lost # "no" => sh'[u].lost # "no"
    BY <1>7
  <2> HIDE DEF t, s
  <2> QED
    BY <1>2, <2>1, <2>3, <2>4, <2>5, <2>6, GotStays
<1>12. \A u \in Shims : /\ sh'[u].st = sh[u].st /\ sh'[u].said = sh[u].said
                        /\ sh'[u].lost = sh[u].lost /\ sh'[u].saw = sh[u].saw
  BY <1>7
<1>13. \A d \in 1..Len(cn) : /\ cn'[d].to = cn[d].to
                             /\ cn'[d].live = cn[d].live
                             /\ cn[d].st = "over" => cn'[d].st = "over"
  BY <1>1, <1>6
<1> QED
  BY <1>2, <1>6, <1>7, <1>9, <1>10, <1>11, <1>12, <1>13, HandlerStep

(* The end of a handler's reading: told to stop, or its client is gone.    *)
LEMMA LeavesStep ==
    ASSUME ShimIInv, NEW c \in 1..Len(cn), TakeShutdown(c) \/ ReadEnds(c)
    PROVE  ShimIInv'
<1> DEFINE s == cn[c].to
<1>1. /\ ShimTypes /\ cn[c] \in Conn /\ s \in Shims /\ sh[s] \in Shim
      /\ cn[c].st \in {"on", "unfed"} /\ cn \in Seq(Conn)
      /\ sh \in [Shims -> Shim]
  BY ShimElements DEF ShimIInv, TakeShutdown, ReadEnds, Conn, ShimTypes
<1>2. UNCHANGED <<path, logf, hs>>
  BY DEF TakeShutdown, ReadEnds
<1>3. /\ cn' \in Seq(Conn) /\ Len(cn') = Len(cn)
      /\ cn'[c].to = s /\ cn'[c].st = "leaving" /\ cn'[c].off = cn[c].off
      /\ cn'[c].got = cn[c].got /\ cn'[c].live = cn[c].live
      /\ cn'[c].cut = cn[c].cut
      /\ \A d \in 1..Len(cn) : d # c => cn'[d] = cn[d]
  <2> HIDE DEF s
  <2>1. ASSUME NEW k \in Conn
        PROVE  /\ [k EXCEPT !.st = "leaving"].to = k.to
               /\ [k EXCEPT !.st = "leaving"].st = "leaving"
               /\ [k EXCEPT !.st = "leaving"].off = k.off
               /\ [k EXCEPT !.st = "leaving"].got = k.got
               /\ [k EXCEPT !.st = "leaving"].live = k.live
               /\ [k EXCEPT !.st = "leaving"].cut = k.cut
               /\ [k EXCEPT !.st = "leaving"] \in Conn
    BY SMTT(30), ConnSet DEF Conn
  <2>2. CASE ReadEnds(c)
    <3> DEFINE k == [cn[c] EXCEPT !.st = "leaving"]
    <3>1. /\ k.to = s /\ k.st = "leaving" /\ k.off = cn[c].off
          /\ k.got = cn[c].got /\ k.live = cn[c].live /\ k.cut = cn[c].cut
          /\ k \in Conn
      BY <1>1, <2>1 DEF s
    <3>2. cn' = [cn EXCEPT ![c] = k]
      BY <2>2 DEF ReadEnds
    <3> HIDE DEF k
    <3> QED
      BY <1>1, <3>1, <3>2
  <2>3. CASE TakeShutdown(c)
    <3> DEFINE e == [cn[c] EXCEPT !.sent = <<>>]
               k == [e EXCEPT !.st = "leaving"]
    <3>1. /\ e.to = s /\ e.off = cn[c].off
          /\ e.got = cn[c].got /\ e.live = cn[c].live /\ e.cut = cn[c].cut
          /\ e \in Conn
      <4>1. <<>> \in Seq({"shutdown"})
        OBVIOUS
      <4>2. e \in Conn
        BY <1>1, <4>1, ConnSet
      <4> QED
        BY <1>1, <4>2 DEF Conn, s
    <3>2. cn' = [cn EXCEPT ![c] = k]
      BY <2>3 DEF TakeShutdown
    <3> HIDE DEF e
    <3>3. /\ k.to = s /\ k.st = "leaving" /\ k.off = cn[c].off
          /\ k.got = cn[c].got /\ k.live = cn[c].live /\ k.cut = cn[c].cut
          /\ k \in Conn
      BY <2>1, <3>1
    <3> HIDE DEF k
    <3> QED
      BY <1>1, <3>2, <3>3
  <2> QED
    BY <2>2, <2>3
<1>4. /\ sh' \in [Shims -> Shim]
      /\ \A u \in Shims : /\ sh'[u].st = sh[u].st
                          /\ sh'[u].harness = sh[u].harness
                          /\ SameFeed(sh[u], sh'[u])
                          /\ sh'[u].lost = sh[u].lost /\ sh'[u].saw = sh[u].saw
  <2>1. CASE ReadEnds(c)
    BY <1>1, <2>1 DEF ReadEnds, SameFeed
  <2>2. CASE TakeShutdown(c)
    <3> DEFINE r == [sh[s] EXCEPT !.stopping = TRUE]
    <3>1. r \in Shim
      BY <1>1, ShimSet
    <3>2. /\ r.st = sh[s].st /\ r.harness = sh[s].harness
          /\ SameFeed(sh[s], r) /\ r.lost = sh[s].lost /\ r.saw = sh[s].saw
      BY <1>1 DEF Shim, SameFeed
    <3>3. sh' = [sh EXCEPT ![s] = r]
      BY <2>2 DEF TakeShutdown
    <3> HIDE DEF r, s
    <3>4. /\ sh' \in [Shims -> Shim] /\ sh'[s] = r
          /\ \A u \in Shims : u # s => sh'[u] = sh[u]
      BY <1>1, <3>1, <3>3, OneMoves
    <3> QED
      BY <3>2, <3>4 DEF SameFeed
  <2> QED
    BY <2>1, <2>2
<1> HIDE DEF s
<1>5. \A u \in Shims : /\ sh'[u].said = sh[u].said /\ sh'[u].att = sh[u].att
                       /\ sh'[u].feeding = sh[u].feeding
                       /\ sh'[u].relay = sh[u].relay
                       /\ sh'[u].taking = sh[u].taking
  BY <1>4 DEF SameFeed
<1>6. ASSUME NEW u \in Shims PROVE ShimFine(u)'
  <2>1. ShimFine(u)
    BY DEF ShimIInv
  <2>2. \A d \in 1..Len(cn) :
            /\ cn'[d].to = cn[d].to
            /\ cn[d].st \in {"on", "leaving"} => cn'[d].st \in {"on", "leaving"}
            /\ cn[d].st = "asked" => cn'[d].st = "asked"
    BY <1>1, <1>3 DEF s
  <2> QED
    BY SMTT(30), <1>3, <1>4, <1>5, <2>1, <2>2 DEF ShimFine
<1>7. ASSUME NEW d \in 1..Len(cn) PROVE ConnFine(d)' /\ GotFine(d)'
  <2>1. ConnFine(d) /\ cn[d].to \in Shims /\ cn[c].to = s
    BY <1>1, ShimElements DEF ShimIInv, Conn, s
  <2> DEFINE t == cn[d].to
  <2>2. /\ t \in Shims /\ cn[d].to = t /\ cn'[d].to = t
        /\ cn'[d].off = cn[d].off /\ cn'[d].got = cn[d].got
        /\ cn'[d].live = cn[d].live /\ cn'[d].cut = cn[d].cut
        /\ cn'[d].st = "on" => cn[d].st = "on"
    BY <1>3, <2>1
  <2>3. cn'[d].st = cn[d].st \/
           (cn[d].st \in {"on", "unfed"} /\ cn'[d].st = "leaving")
    BY <1>1, <1>3
  <2> HIDE DEF t
  <2>4. ConnFine(d)'
    BY <1>4, <1>5, <2>1, <2>2, <2>3 DEF ConnFine
  <2>5. \A u \in Shims : sh[u].lost # "no" => sh'[u].lost # "no"
    BY <1>4
  <2>6. GotFine(d)'
    BY <1>2, <1>5, <2>2, <2>5, GotStays
  <2> QED
    BY <2>4, <2>6
<1>8. \A d \in 1..Len(cn) : /\ cn'[d].to = cn[d].to
                            /\ cn'[d].live = cn[d].live
                            /\ cn[d].st = "over" => cn'[d].st = "over"
  BY <1>1, <1>3 DEF s
<1> QED
  BY <1>2, <1>3, <1>4, <1>5, <1>6, <1>7, <1>8, HandlerStep

LEMMA DetachStep ==
    ASSUME ShimIInv, NEW c \in 1..Len(cn), Detach(c)
    PROVE  ShimIInv'
<1> DEFINE s == cn[c].to
           r == [sh[s] EXCEPT !.relay = DetachOwn(s, c)]
<1>1. /\ ShimTypes /\ cn[c] \in Conn /\ s \in Shims /\ sh[s] \in Shim
      /\ cn[c].st = "leaving" /\ cn \in Seq(Conn)
      /\ sh \in [Shims -> Shim]
  BY ShimElements DEF ShimIInv, Detach, Conn, ShimTypes
<1>2. UNCHANGED <<path, logf, hs>>
  BY DEF Detach
<1>3. /\ cn' \in Seq(Conn) /\ Len(cn') = Len(cn)
      /\ cn'[c].to = s /\ cn'[c].st = "over" /\ cn'[c].got = <<>>
      /\ ~cn'[c].live /\ cn'[c].cut
      /\ \A d \in 1..Len(cn) : d # c => cn'[d] = cn[d]
  <2>1. /\ Over(cn[c]) \in Conn /\ Over(cn[c]).to = s
        /\ Over(cn[c]).st = "over" /\ Over(cn[c]).got = <<>>
        /\ ~Over(cn[c]).live /\ Over(cn[c]).cut
    BY <1>1, GoneOver DEF DoneWith
  <2>2. cn' = [cn EXCEPT ![c] = Over(cn[c])]
    BY DEF Detach
  <2> HIDE DEF s
  <2> QED
    BY <1>1, <2>1, <2>2
<1>4. /\ sh' \in [Shims -> Shim] /\ \A u \in Shims : u # s => sh'[u] = sh[u]
      /\ sh'[s].st = sh[s].st /\ sh'[s].harness = sh[s].harness
      /\ sh'[s].said = sh[s].said /\ sh'[s].feeding = sh[s].feeding
      /\ sh'[s].relay = DetachOwn(s, c)
      /\ sh'[s].att = sh[s].att /\ sh'[s].taking = sh[s].taking
      /\ sh'[s].lost = sh[s].lost /\ sh'[s].saw = sh[s].saw
  <2>1. DetachOwn(s, c) \in Nat
    BY <1>1 DEF DetachOwn, Nobody, Shim
  <2>2. r \in Shim
    BY <1>1, <2>1, ShimSet
  <2>3. /\ r.st = sh[s].st /\ r.harness = sh[s].harness
        /\ r.said = sh[s].said /\ r.feeding = sh[s].feeding
        /\ r.relay = DetachOwn(s, c) /\ r.att = sh[s].att
        /\ r.taking = sh[s].taking
        /\ r.lost = sh[s].lost /\ r.saw = sh[s].saw
    BY <1>1 DEF Shim
  <2>4. sh' = [sh EXCEPT ![s] = r]
    BY DEF Detach
  <2> HIDE DEF r, s
  <2> QED
    BY <1>1, <2>2, <2>3, <2>4, OneMoves
<1>5. /\ sh'[s].relay # Nobody =>
            sh'[s].relay = sh[s].relay /\ sh[s].relay # c
      /\ \A d \in 1..Len(cn) : d # c /\ sh[s].relay = d => sh'[s].relay = d
      /\ \A d \in 1..Len(cn) : sh'[s].relay = d => sh[s].relay = d
  BY <1>1, <1>4, ShimElements DEF DetachOwn
<1> HIDE DEF s, r
<1>6. ASSUME NEW u \in Shims PROVE ShimFine(u)'
  <2>1. ShimFine(u)
    BY DEF ShimIInv
  <2>2. \A d \in 1..Len(cn) :
            /\ cn'[d].to = cn[d].to
            /\ d # c => cn'[d].st = cn[d].st
            /\ cn[d].st = "asked" => d # c
    BY <1>1, <1>3 DEF s
  <2>3. CASE u # s
    <3>1. sh'[u] = sh[u] /\ \A d \in 1..Len(cn) : cn[d].to = u => d # c
      BY <1>4, <2>3 DEF s
    <3> QED
      BY SMTT(30), <1>3, <2>1, <2>2, <3>1 DEF ShimFine
  <2>4. CASE u = s
    BY <1>3, <1>4, <1>5, <2>1, <2>2, <2>4 DEF ShimFine, DetachOwn
  <2> QED
    BY <2>3, <2>4
<1>7. ASSUME NEW d \in 1..Len(cn) PROVE ConnFine(d)' /\ GotFine(d)'
  <2>1. ConnFine(d) /\ cn[d].to \in Shims
    BY <1>1, ShimElements DEF ShimIInv, Conn
  <2>2. CASE d = c
    BY <1>3, <2>2 DEF ConnFine, GotFine
  <2>3. CASE d # c
    <3> DEFINE t == cn[d].to
    <3>1. cn'[d] = cn[d] /\ t \in Shims /\ cn[d].to = t
      BY <1>3, <2>1, <2>3
    <3> HIDE DEF t
    <3>2. /\ sh'[t].st = sh[t].st /\ sh'[t].said = sh[t].said
          /\ sh'[t].feeding = sh[t].feeding /\ sh'[t].att = sh[t].att
          /\ sh'[t].taking = sh[t].taking
          /\ sh'[t].relay = d <=> sh[t].relay = d
      BY <1>4, <1>5, <2>3, <3>1
    <3>3. ConnFine(d)'
      BY <2>1, <3>1, <3>2 DEF ConnFine
    <3>4. \A u \in Shims : sh[u].lost # "no" => sh'[u].lost # "no"
      BY <1>4
    <3>5. GotFine(d)'
      BY <1>2, <3>1, <3>2, <3>4, GotStays
    <3> QED
      BY <3>3, <3>5
  <2> QED
    BY <2>2, <2>3
<1>8. \A u \in Shims : /\ sh'[u].st = sh[u].st /\ sh'[u].said = sh[u].said
                       /\ sh'[u].lost = sh[u].lost /\ sh'[u].saw = sh[u].saw
  BY <1>4
<1>9. \A d \in 1..Len(cn) :
          /\ cn'[d].to = cn[d].to
          /\ cn[d].live => cn'[d].live \/ cn'[d].st = "over"
          /\ cn[d].st = "over" => cn'[d].st = "over"
  BY <1>3 DEF s
<1> QED
  BY <1>2, <1>3, <1>4, <1>6, <1>7, <1>8, <1>9, HandlerStep

(* What is left of a log from an offset.                                   *)
LEMMA LogFrom ==
    ASSUME NEW S, NEW l \in Seq(S), NEW o \in Nat, o <= Len(l)
    PROVE  /\ SubSeq(l, o + 1, Len(l)) \in Seq(S)
           /\ Len(SubSeq(l, o + 1, Len(l))) = Len(l) - o
           /\ \A i \in 1..Len(SubSeq(l, o + 1, Len(l))) :
                 SubSeq(l, o + 1, Len(l))[i] = l[o + i]
<1>1. Len(l) \in Nat
  OBVIOUS
<1> DEFINE m == o + 1
           n == Len(l)
           q == SubSeq(l, m, n)
<1>2. m \in Int /\ n \in Int /\ \A i \in m..n : l[i] \in S
  BY <1>1
<1>3. /\ q \in Seq(S) /\ Len(q) = IF m <= n THEN n - m + 1 ELSE 0
      /\ \A i \in 1..(n - m + 1) : q[i] = l[m + i - 1]
  <2> HIDE DEF m, n
  <2> QED
    BY <1>2, SubSeqProperties
<1> HIDE DEF q
<1>4. Len(q) = n - m + 1 /\ n - m + 1 = Len(l) - o
  BY <1>1, <1>3
<1>5. ASSUME NEW i \in 1..Len(q) PROVE q[i] = l[o + i]
  <2>1. m + i - 1 = o + i /\ i \in 1..(n - m + 1)
    BY <1>4
  <2> QED
    BY <1>3, <2>1
<1> QED
  BY <1>3, <1>4, <1>5 DEF q

LEMMA ReplayStep ==
    ASSUME ShimIInv, NEW c \in 1..Len(cn), Replay(c)
    PROVE  ShimIInv'
<1> DEFINE s == cn[c].to
           o == cn[c].off
           fails == \/ cn[c].off > Len(logf)
                    \/ ~cn[c].live /\ cn[c].off < Len(logf)
<1>1. /\ ShimTypes /\ cn[c] \in Conn /\ s \in Shims /\ sh[s] \in Shim
      /\ cn[c].st = "asked" /\ ~sh[s].feeding /\ o \in Nat
      /\ ShimFine(s) /\ LogFine(s) /\ ConnFine(c) /\ c # Nobody /\ c \in Nat
      /\ Len(logf) \in Nat /\ logf \in Seq(Line) /\ sh \in [Shims -> Shim]
      /\ cn \in Seq(Conn)
  BY ShimElements DEF ShimIInv, Replay, MayReplay, Conn, ShimTypes
<1>2. UNCHANGED <<path, logf, hs>>
  BY DEF Replay
<1>3. /\ sh[s].taking = c /\ sh[s].st \in Running /\ cn[c].got = <<>>
      /\ sh[s].att = Nobody /\ sh[s].relay # c
  <2>1. sh[s].taking = c /\ sh[s].st \in Running /\ cn[c].got = <<>>
    BY <1>1 DEF ConnFine
  <2> QED
    BY <1>1, <2>1 DEF ShimFine
<1>4. \A d \in 1..Len(cn) : cn[d].to = s /\ d # c =>
          cn[d].st # "asked" /\ ~(cn[d].st = "on" /\ ~cn[d].cut)
  <2> SUFFICES ASSUME NEW d \in 1..Len(cn), cn[d].to = s, d # c
               PROVE  cn[d].st # "asked" /\ ~(cn[d].st = "on" /\ ~cn[d].cut)
    OBVIOUS
  <2>1. ConnFine(d) /\ d # Nobody
    BY <1>1, ShimElements DEF ShimIInv
  <2> QED
    BY <1>3, <2>1 DEF ConnFine
<1>5. ASSUME NEW k \in Conn, NEW r \in Shim, cn' = [cn EXCEPT ![c] = k],
             sh' = [sh EXCEPT ![s] = r],
             k.to = s, k.live = cn[c].live, k.off = o, k.cut = cn[c].cut,
             r.st = sh[s].st, r.harness = sh[s].harness,
             r.said = sh[s].said, ~r.feeding, r.taking = Nobody,
             r.lost = sh[s].lost, r.saw = sh[s].saw,
             \/ /\ k.st = "on" /\ r.relay = c /\ r.att = c
                /\ o <= Len(logf) /\ k.got = SubSeq(logf, o + 1, Len(logf))
             \/ /\ k.st = "unfed" /\ r.relay = sh[s].relay /\ r.att = Nobody
                /\ k.got = <<>>
      PROVE  ShimIInv'
  <2> HIDE DEF s
  <2>1. cn[c].to = s
    BY DEF s
  <2>2. /\ sh' \in [Shims -> Shim] /\ sh'[s] = r
        /\ \A u \in Shims : u # s => sh'[u] = sh[u]
    BY <1>1, <1>5, OneMoves
  <2>3. /\ cn' \in Seq(Conn) /\ Len(cn') = Len(cn) /\ cn'[c] = k
        /\ \A d \in 1..Len(cn) : d # c => cn'[d] = cn[d]
    BY <1>1, <1>5
  <2>4. \A u \in Shims : /\ sh'[u].st = sh[u].st /\ sh'[u].said = sh[u].said
                         /\ sh'[u].lost = sh[u].lost /\ sh'[u].saw = sh[u].saw
    BY <1>5, <2>2
  <2>5. \A d \in 1..Len(cn) : /\ cn'[d].to = cn[d].to
                              /\ cn'[d].live = cn[d].live
                              /\ cn[d].st = "over" => cn'[d].st = "over"
    BY <1>1, <1>5, <2>1, <2>3
  <2>6. ASSUME NEW u \in Shims PROVE ShimFine(u)'
    <3>1. ShimFine(u)
      BY DEF ShimIInv
    <3>2. CASE u = s
      <4>1. sh[s].relay # Nobody =>
               /\ sh[s].relay \in 1..Len(cn') /\ cn'[sh[s].relay].to = s
               /\ cn'[sh[s].relay].st \in {"on", "leaving"}
        BY <1>1, <1>3, <2>3 DEF ShimFine
      <4> QED
        BY <1>1, <1>3, <1>5, <2>2, <2>3, <3>2, <4>1 DEF ShimFine
    <3>3. CASE u # s
      <4>1. sh'[u] = sh[u]
        BY <2>2, <3>3
      <4>2. \A d \in 1..Len(cn) : cn[d].to = u => d # c
        BY <2>1, <3>3
      <4> QED
        BY <2>3, <3>1, <4>1, <4>2 DEF ShimFine
    <3> QED
      BY <3>2, <3>3
  <2>7. ASSUME NEW d \in 1..Len(cn), d # c PROVE ConnFine(d)' /\ GotFine(d)'
    <3> DEFINE t == cn[d].to
    <3>1. ConnFine(d) /\ t \in Shims /\ cn[d].to = t /\ cn'[d] = cn[d]
      BY <1>1, <2>3, <2>7, ShimElements DEF ShimIInv, Conn
    <3> HIDE DEF t
    <3>2. \A u \in Shims : sh[u].lost # "no" => sh'[u].lost # "no"
      BY <2>4
    <3>3. CASE t # s
      <4>1. sh'[t] = sh[t]
        BY <2>2, <3>1, <3>3
      <4>2. GotFine(d)'
        BY <1>2, <3>1, <3>2, <4>1, GotStays
      <4>3. ConnFine(d)'
        BY <3>1, <4>1 DEF ConnFine
      <4> QED
        BY <4>2, <4>3
    <3>4. CASE t = s
      <4>1. cn[d].st # "asked" /\ ~(cn[d].st = "on" /\ ~cn[d].cut)
        BY <1>4, <2>7, <3>1, <3>4
      <4>2. /\ ~sh'[s].feeding /\ ~sh[s].feeding /\ sh'[s].said = sh[s].said
            /\ sh'[s].relay = c \/ sh'[s].relay = sh[s].relay
            /\ sh'[s].st = sh[s].st /\ sh'[s].feeding = sh[s].feeding
        BY <1>1, <1>5, <2>2 DEF Shim
      <4>3. GotFine(d)'
        BY <1>2, <2>7, <3>1, <3>2, <3>4, <4>1, <4>2, GotStays
      <4>4. ConnFine(d)'
        BY <3>1, <3>4, <4>1, <4>2 DEF ConnFine
      <4> QED
        BY <4>3, <4>4
    <3> QED
      BY <3>3, <3>4
  <2>8. CASE k.st = "unfed" /\ r.relay = sh[s].relay /\ k.got = <<>>
    <3> HIDE DEF o
    <3>1. /\ cn'[c].to = s /\ cn'[c].st = "unfed" /\ cn'[c].got = <<>>
          /\ sh'[s].relay # c /\ sh'[s].st \in Running
          /\ sh'[s].st \in Listening \cup {"killing"}
      BY <1>3, <1>5, <2>2, <2>3, <2>8 DEF Running, Listening
    <3>2. ConnFine(c)'
      BY <3>1 DEF ConnFine
    <3>3. GotFine(c)'
      BY <3>1 DEF GotFine
    <3>4. \A d \in 1..Len(cn) : ConnFine(d)' /\ GotFine(d)'
      BY <2>7, <3>2, <3>3
    <3> QED
      BY <1>2, <2>2, <2>3, <2>4, <2>5, <2>6, <3>4, HandlerStep
  <2>9. CASE /\ k.st = "on" /\ r.relay = c /\ r.att = c
             /\ o <= Len(logf) /\ k.got = SubSeq(logf, o + 1, Len(logf))
    <3> DEFINE q == SubSeq(logf, o + 1, Len(logf))
    <3> HIDE DEF o
    <3>1. /\ q \in Seq(Line) /\ Len(q) = Len(logf) - o
          /\ \A i \in 1..Len(q) : q[i] = logf[o + i]
      BY <1>1, <2>9, LogFrom
    <3>2. k.got = q
      BY <2>9
    <3> HIDE DEF q
    <3>3. \A i \in 1..Len(q) : o + i \in 1..Len(logf) /\ q[i] = logf[o + i]
      BY <1>1, <2>9, <3>1
    <3>4. \A i \in 1..Len(logf) : logf[i][1] \in Shims /\ logf[i][2] \in Nat
      BY <1>1 DEF Line
    <3>5. ConnFine(c)'
      <4>1. /\ cn'[c].to = s /\ cn'[c].st = "on" /\ sh'[s].att = c
            /\ sh'[s].relay = c /\ sh'[s].st \in Running
            /\ sh'[s].st \in Listening \cup {"killing"}
        BY <1>3, <1>5, <2>2, <2>3, <2>9 DEF Running, Listening
      <4> QED
        BY <4>1 DEF ConnFine
    <3>6. \A i \in 1..Len(q) : q[i][1] = s => q[i][2] <= sh[s].said
      BY <1>1, <1>3, <3>3 DEF LogFine
    <3>7. \A i, j \in 1..Len(q) : i < j /\ q[i][1] = s /\ q[j][1] = s
                                     => q[i][2] < q[j][2]
      <4> SUFFICES ASSUME NEW i \in 1..Len(q), NEW j \in 1..Len(q), i < j,
                          q[i][1] = s, q[j][1] = s
                   PROVE  q[i][2] < q[j][2]
        OBVIOUS
      <4>1. o + i < o + j
        BY <1>1, <3>1
      <4> QED
        BY <1>1, <1>3, <3>3, <4>1 DEF LogFine
    <3>8. \A i \in 1..Len(logf) : i > o => \E j \in 1..Len(q) : q[j] = logf[i]
      <4> SUFFICES ASSUME NEW i \in 1..Len(logf), i > o
                   PROVE  \E j \in 1..Len(q) : q[j] = logf[i]
        OBVIOUS
      <4>1. i - o \in 1..Len(q) /\ o + (i - o) = i
        BY <1>1, <3>1
      <4> QED
        BY <3>3, <4>1
    <3>9. \A i \in 1..Len(q) : q[i][1] # s =>
              sh'[s].lost # "no" \/ sh'[q[i][1]].lost # "no"
      <4>1. \A i \in 1..Len(logf) : logf[i][1] # s =>
               sh[s].lost # "no" \/ sh[logf[i][1]].lost # "no"
        BY <1>1, <1>3 DEF LogFine
      <4> SUFFICES ASSUME NEW i \in 1..Len(q), q[i][1] # s
                   PROVE  sh'[s].lost # "no" \/ sh'[q[i][1]].lost # "no"
        OBVIOUS
      <4>2. /\ o + i \in 1..Len(logf) /\ q[i] = logf[o + i]
            /\ logf[o + i][1] \in Shims
        BY <3>3, <3>4
      <4>3. sh[s].lost # "no" \/ sh[q[i][1]].lost # "no"
        BY <4>1, <4>2
      <4>4. sh'[q[i][1]].lost = sh[q[i][1]].lost /\ sh'[s].lost = sh[s].lost
        BY <1>5, <2>2, <2>4, <4>2
      <4> QED
        BY <4>3, <4>4
    <3>10. NothingLost' =>
              /\ \A i \in 1..Len(q) : q[i] = <<s, o + i>>
              /\ o + Len(q) = Len(logf)
      <4>1. NothingLost' => NothingLost
        BY <2>4 DEF NothingLost
      <4>2. NothingLost => \A i \in 1..Len(logf) : logf[i] = <<s, i>>
        BY <1>1, <1>3 DEF LogFine
      <4>3. o + Len(q) = Len(logf)
        BY <1>1, <3>1
      <4> QED
        BY <3>3, <4>1, <4>2, <4>3
    <3>11. /\ cn'[c].to = s /\ cn'[c].off = o /\ cn'[c].got = q
           /\ ~sh'[s].feeding /\ sh'[s].said = sh[s].said
      BY <1>5, <2>2, <2>3, <3>2
    <3>12. GotFine(c)'
      BY <1>2, <3>6, <3>7, <3>8, <3>9, <3>10, <3>11 DEF GotFine
    <3>13. \A d \in 1..Len(cn) : ConnFine(d)' /\ GotFine(d)'
      BY <2>7, <3>5, <3>12
    <3> QED
      BY <1>2, <2>2, <2>3, <2>4, <2>5, <2>6, <3>13, HandlerStep
  <2> QED
    BY <1>5, <2>8, <2>9
<1>6. CASE /\ ~fails
           /\ cn' = [cn EXCEPT ![c].st = "on",
                        ![c].got = SubSeq(logf, cn[c].off + 1, Len(logf))]
           /\ sh' = [sh EXCEPT ![s].relay = c, ![s].att = c,
                               ![s].taking = Nobody]
  <2> DEFINE q == SubSeq(logf, o + 1, Len(logf))
             e == [cn[c] EXCEPT !.st = "on"]
             k == [e EXCEPT !.got = q]
             a == [sh[s] EXCEPT !.relay = c]
             b == [a EXCEPT !.att = c]
             r == [b EXCEPT !.taking = Nobody]
  <2>1. o <= Len(logf)
    BY <1>1, <1>6
  <2>2. q \in Seq(Line)
    BY <1>1, <2>1, LogFrom
  <2>3. cn' = [cn EXCEPT ![c] = k] /\ sh' = [sh EXCEPT ![s] = r]
    BY <1>6
  <2> HIDE DEF q
  <2>4. /\ e \in Conn /\ e.to = s /\ e.st = "on" /\ e.off = o
        /\ e.live = cn[c].live /\ e.cut = cn[c].cut
    <3>1. e \in Conn
      BY <1>1, ConnSet
    <3> QED
      BY <1>1, <3>1 DEF Conn
  <2> HIDE DEF e
  <2>5. /\ k \in Conn /\ k.to = s /\ k.st = "on" /\ k.off = o
        /\ k.live = cn[c].live /\ k.cut = cn[c].cut /\ k.got = q
    <3>1. k \in Conn
      BY <2>2, <2>4, ConnSet
    <3>2. /\ k.to = e.to /\ k.st = e.st /\ k.off = e.off
          /\ k.live = e.live /\ k.cut = e.cut /\ k.got = q
      BY <2>4 DEF Conn
    <3> QED
      BY <2>4, <3>1, <3>2
  <2>6. /\ a \in Shim /\ a.st = sh[s].st /\ a.harness = sh[s].harness
        /\ a.said = sh[s].said /\ a.feeding = sh[s].feeding /\ a.relay = c
        /\ a.lost = sh[s].lost /\ a.saw = sh[s].saw
    <3>1. a \in Shim
      BY <1>1, ShimSet
    <3> QED
      BY <1>1, <3>1 DEF Shim
  <2> HIDE DEF a
  <2>7. /\ b \in Shim /\ b.st = a.st /\ b.harness = a.harness
        /\ b.said = a.said /\ b.feeding = a.feeding /\ b.relay = a.relay
        /\ b.att = c /\ b.lost = a.lost /\ b.saw = a.saw
    <3>1. b \in Shim
      BY <1>1, <2>6, ShimSet
    <3> QED
      BY <1>1, <2>6, <3>1 DEF Shim
  <2> HIDE DEF b
  <2>8. /\ r \in Shim /\ r.st = b.st /\ r.harness = b.harness
        /\ r.said = b.said /\ r.feeding = b.feeding /\ r.relay = b.relay
        /\ r.att = b.att /\ r.taking = Nobody
        /\ r.lost = b.lost /\ r.saw = b.saw
    <3>1. r \in Shim
      BY <2>7, ShimSet DEF Nobody
    <3> QED
      BY <2>7, <3>1 DEF Shim
  <2>9. k.got = SubSeq(logf, o + 1, Len(logf))
    BY <2>5 DEF q
  <2> HIDE DEF r, k, s, o
  <2> QED
    BY <1>1, <1>5, <2>1, <2>3, <2>5, <2>6, <2>7, <2>8, <2>9
<1>7. CASE /\ cn' = [cn EXCEPT ![c].st = "unfed"]
           /\ sh' = [sh EXCEPT ![s].taking = Nobody]
  <2> DEFINE k == [cn[c] EXCEPT !.st = "unfed"]
             r == [sh[s] EXCEPT !.taking = Nobody]
  <2>1. /\ k \in Conn /\ k.to = s /\ k.st = "unfed" /\ k.off = o
        /\ k.live = cn[c].live /\ k.cut = cn[c].cut /\ k.got = <<>>
    <3>1. k \in Conn
      BY <1>1, ConnSet
    <3> QED
      BY <1>1, <1>3, <3>1 DEF Conn
  <2>2. /\ r \in Shim /\ r.st = sh[s].st /\ r.harness = sh[s].harness
        /\ r.said = sh[s].said /\ r.feeding = sh[s].feeding
        /\ r.relay = sh[s].relay /\ r.att = sh[s].att /\ r.taking = Nobody
        /\ r.lost = sh[s].lost /\ r.saw = sh[s].saw
    <3>1. r \in Shim
      BY <1>1, ShimSet DEF Nobody
    <3> QED
      BY <1>1, <3>1 DEF Shim
  <2>3. cn' = [cn EXCEPT ![c] = k] /\ sh' = [sh EXCEPT ![s] = r]
    BY <1>7
  <2> HIDE DEF k, r, s, o
  <2> QED
    BY <1>1, <1>3, <1>5, <2>1, <2>2, <2>3
<1> QED
  BY <1>6, <1>7 DEF Replay

-----------------------------------------------------------------------------
LEMMA ShimStart == ShimInit => ShimIInv
<1> SUFFICES ASSUME ShimInit PROVE ShimIInv
  OBVIOUS
<1>1. /\ cn = <<>> /\ logf = <<>> /\ path = Nobody
      /\ sh = [s \in Shims |-> NewShim]
  BY DEF ShimInit
<1>2. /\ hs \in Host /\ hs.phase = "idle" /\ hs.conn = Nobody
      /\ hs.child = Nobody /\ hs.spawned = 0 /\ hs.offset = NoOffset
  BY ShimAssumption DEF ShimInit, Host, Nobody
<1>3. /\ cn \in Seq(Conn) /\ logf \in Seq(Line) /\ Len(cn) = 0
      /\ sh \in [Shims -> Shim] /\ path \in 0..MaxShims /\ Len(cn) <= MaxConns
  BY <1>1, GoneOver, ShimAssumption DEF Nobody
<1>4. \A s \in Shims : /\ sh[s].st = "none" /\ Cleared(sh[s])
                       /\ sh[s].lost = "no" /\ sh[s].saw = {}
  BY <1>1, GoneOver
<1>5. ASSUME NEW s \in Shims PROVE ShimFine(s) /\ LogFine(s) /\ PathFine(s)
  BY <1>4 DEF ShimFine, LogFine, PathFine, Cleared, Running, Bound
<1>6. Alone
  BY <1>4 DEF Alone, Binding
<1>7. HostFine
  BY <1>2 DEF HostFine, Nobody
<1> QED
  BY <1>2, <1>3, <1>5, <1>6, <1>7 DEF ShimIInv, ShimTypes

LEMMA ShimStep == ShimIInv /\ [ShimNext]_shimVars => ShimIInv'
<1> SUFFICES ASSUME ShimIInv, [ShimNext]_shimVars PROVE ShimIInv'
  OBVIOUS
<1>1. CASE UNCHANGED shimVars
  <2>1. /\ ShimTypes'
        /\ \A s \in Shims : ShimFine(s)' /\ LogFine(s)' /\ PathFine(s)'
    BY <1>1 DEF shimVars, ShimIInv, ShimTypes, ShimFine, LogFine, PathFine,
                NothingLost
  <2>2. \A c \in 1..Len(cn) : ConnFine(c)' /\ GotFine(c)'
    BY <1>1 DEF shimVars, ShimIInv, ConnFine, GotFine, NothingLost
  <2>3. Alone' /\ HostFine'
    BY <1>1 DEF shimVars, ShimIInv, Alone, HostFine, Reachable
  <2> QED
    BY <1>1, <2>1, <2>2, <2>3 DEF shimVars, ShimIInv
<1>2. CASE \/ Retire \/ RetireEnds \/ SpawnShim \/ ConnectToChild
           \/ DispatchPrompt \/ TurnOver \/ Release \/ Reap \/ AdoptTurn
           \/ HostDies \/ SweepShim
  BY <1>2, RetireStep, RetireEndsStep, SpawnStep, ConnectStep, DispatchStep,
     TurnOverStep, ReleaseStep, ReapStep, AdoptStep, HostDiesStep, SweepStep
<1>3. ASSUME NEW s \in Shims,
             \/ Bind(s) \/ ProbeSocket(s) \/ RemoveStale(s) \/ Rebind(s)
             \/ Listen(s) \/ StartHarness(s) \/ HarnessExits(s)
             \/ ShimEnds(s) \/ KillHarness(s) \/ KillGroup(s)
             \/ PumpAppends(s) \/ PumpDelivers(s)
      PROVE  ShimIInv'
  BY <1>3, BindStep, ProbeStep, RemoveStaleStep, RebindStep, ListenStep,
     StartHarnessStep, ExitsStep, ShimEndsStep, KillHarnessStep,
     KillGroupStep, AppendsStep, DeliversStep
<1>4. ASSUME NEW c \in 1..Len(cn),
             \/ TakesOver(c) \/ Replay(c) \/ TakeShutdown(c)
             \/ ReadEnds(c) \/ Detach(c)
      PROVE  ShimIInv'
  BY <1>4, TakesOverStep, ReplayStep, LeavesStep, DetachStep
<1>5. DOMAIN cn = 1..Len(cn)
  BY ShimElements DEF ShimIInv
<1> QED
  BY <1>1, <1>2, <1>3, <1>4, <1>5 DEF ShimNext

LEMMA ShimInvariant == ShimSpec => []ShimIInv
  BY ShimStart, ShimStep, PTL DEF ShimSpec

(* The shims, their log, the connections and the host keep their types.    *)
THEOREM ShimTypeCorrect == ShimSpec => []ShimTypeOK
<1>1. ShimIInv => ShimTypeOK
  <2> SUFFICES ASSUME ShimIInv PROVE ShimTypeOK
    OBVIOUS
  <2>1. ShimTypes /\ HostFine
    BY DEF ShimIInv
  <2>2. ASSUME NEW s \in Shims
        PROVE  /\ sh[s].st \in Binding \cup Bound
                               \cup {"none", "killing", "gone"}
               /\ sh[s].harness => sh[s].st \in Running
               /\ sh[s].lost \in {"no", "killed", "robbed", "stolen"}
               /\ sh[s].relay \in 0..Len(cn)
    <3>1. ShimFine(s) /\ sh[s] \in Shim /\ Len(cn) \in Nat
      BY <2>1, ShimElements DEF ShimIInv
    <3>2. sh[s].relay \in 0..Len(cn)
      BY <3>1 DEF ShimFine, Shim, Nobody
    <3> QED
      BY <3>1, <3>2 DEF ShimFine, Shim, ShimSt
  <2>3. InPhase("attached") => hs.conn # Nobody
    BY <2>1 DEF HostFine, InPhase, Nobody
  <2> QED
    BY <2>1, <2>2, <2>3 DEF ShimTypeOK, ShimTypes
<1> QED
  BY <1>1, ShimInvariant, PTL

(* A shim feeds each client its lines once and in order, with no other     *)
(* shim's between them unless a live shim's file was removed, and every    *)
(* harness can be reached, is about to be killed, or was robbed by a shim  *)
(* that started when a host died: for any number of shims, connections,    *)
(* lines and crashes of the host, and with the calls on the socket's file  *)
(* in any order (relay, serve, bind_socket, kill_harness).                 *)
THEOREM ShimServesAll == ShimSpec => []ShimServes
<1>1. ShimIInv => ShimServes
  <2> SUFFICES ASSUME ShimIInv PROVE ShimServes
    OBVIOUS
  <2>1. ShimTypes /\ Alone /\ HostFine /\ DOMAIN logf = 1..Len(logf)
    BY ShimElements DEF ShimIInv
  <2>2. FedExactly
    <3> SUFFICES
          ASSUME NEW c \in DOMAIN cn
          PROVE  LET s == cn[c].to
                     got == cn[c].got
                     attached == cn[c].st = "on" /\ cn[c].live /\ ~cn[c].cut
                 IN  /\ \A i, j \in Own(got, s) :
                           i < j => got[i][2] < got[j][2]
                     /\ attached /\ ~sh[s].feeding
                           => \A i \in Own(logf, s) :
                                 i > cn[c].off =>
                                    \E j \in DOMAIN got : got[j] = logf[i]
                     /\ \A i \in DOMAIN got \ Own(got, s) :
                           sh[s].lost # "no" \/ sh[got[i][1]].lost # "no"
                     /\ NothingLost =>
                           /\ \A i \in DOMAIN got :
                                 got[i] = <<s, cn[c].off + i>>
                           /\ attached /\ ~sh[s].feeding
                                 => cn[c].off + Len(got) = Len(logf)
      BY DEF FedExactly
    <3>1. /\ ConnFine(c) /\ GotFine(c) /\ DOMAIN cn[c].got = 1..Len(cn[c].got)
          /\ cn[c].to \in Shims
      BY <2>1, ShimElements DEF ShimIInv, Conn
    <3>2. \A i, j \in Own(cn[c].got, cn[c].to) :
             i < j => cn[c].got[i][2] < cn[c].got[j][2]
      BY <3>1 DEF GotFine, Own
    <3>3. \A i \in DOMAIN cn[c].got \ Own(cn[c].got, cn[c].to) :
             sh[cn[c].to].lost # "no" \/ sh[cn[c].got[i][1]].lost # "no"
      BY <3>1 DEF GotFine, Own
    <3>4. ASSUME cn[c].st = "on", cn[c].live, ~cn[c].cut, ~sh[cn[c].to].feeding
          PROVE  \A i \in Own(logf, cn[c].to) : i > cn[c].off =>
                    \E j \in DOMAIN cn[c].got : cn[c].got[j] = logf[i]
      BY <2>1, <3>1, <3>4 DEF GotFine, Own
    <3>5. ASSUME NothingLost
          PROVE  /\ \A i \in DOMAIN cn[c].got :
                       cn[c].got[i] = <<cn[c].to, cn[c].off + i>>
                 /\ (/\ cn[c].st = "on" /\ cn[c].live /\ ~cn[c].cut
                     /\ ~sh[cn[c].to].feeding)
                       => cn[c].off + Len(cn[c].got) = Len(logf)
      BY <3>1, <3>5 DEF GotFine, ConnFine
    <3> QED
      BY <3>2, <3>3, <3>4, <3>5
  <2>3. ASSUME NEW s \in Shims, sh[s].harness
        PROVE  \/ path = s
               \/ sh[s].lost = "robbed"
               \/ sh[s].lost = "killed" /\ sh[s].st = "killing"
    <3>1. ShimFine(s) /\ PathFine(s) /\ sh[s] \in Shim
      BY <2>1, ShimElements DEF ShimIInv
    <3>2. sh[s].st \in {"serving", "killing"}
      BY <2>3, <3>1 DEF ShimFine, Running
    <3> QED
      BY <3>1, <3>2 DEF PathFine, Bound, Shim
  <2>4. (\E s \in Shims : sh[s].lost = "robbed") => hs.stray
    BY <2>1 DEF Alone
  <2>5. InPhase("attached") /\ hs.offset # NoOffset /\ hs.of # Nobody
            => cn[hs.conn].to = hs.of
    BY <2>1 DEF HostFine, InPhase
  <2> QED
    BY <2>2, <2>3, <2>4, <2>5 DEF ShimServes, OneHarness
<1> QED
  BY <1>1, ShimInvariant, PTL

-----------------------------------------------------------------------------
(* NativeClient: the client of an agent, and the sidecar at the other end. *)

Record == [kind : {"response", "result", "noise", "exit"}, id : Nat,
           cmd : {"none", "prompt", "handled", "abort", "set", "usage"},
           ok : BOOLEAN, of : Int, end : {"none", "ok", "error"}]
Order == [type : {"prompt", "abort", "set", "usage"}, id : Nat, of : Nat]
Call == [id : Nat, finish : Seq(Nat)]
Client == [active : BOOLEAN, wire : Nat, wires : Nat \ {0}, req : 0..MaxTurns,
           next : Nat \ {0}, queued : Seq(Record), exited : BOOLEAN,
           deferred : Int, gone : BOOLEAN, call : Call, awaits : 0..MaxTurns,
           late : SUBSET Nat]
Sidecar == [st : {"up", "closing", "gone"}, inflight : Nat, work : Seq(Nat),
            aborts : Seq(Nat), owed : SUBSET Order]

ClientTyped == /\ cl \in Client /\ ag \in Sidecar /\ toHost \in Seq(Record)
               /\ toAgent \in Seq(Order) /\ told \in [Turns -> Int] /\ done \in Nat

(* The ids of requests, and the numbers of prompts, are new when they are  *)
(* given out; a client that has seen the exit has no run.                  *)
Numbered(c, a, h, o) ==
    /\ c.wire < c.wires /\ c.call.id < c.wires /\ c.req < c.next
    /\ \A r \in c.late : r < c.next
    /\ \A i \in 1..Len(o) : o[i].id < c.wires
    /\ \A i \in 1..Len(a.aborts) : a.aborts[i] < c.wires
    /\ \A m \in a.owed : m.id < c.wires
    /\ \A i \in 1..Len(c.queued) : c.queued[i].id < c.wires
    /\ \A i \in 1..Len(h) : h[i].id < c.wires

(* What ends the run with the id w: a result, or the response to its       *)
(* prompt that refuses it or answers it without a run.                     *)
EndsRun(r, w) ==
    \/ r.kind = "result"
    \/ r.kind = "response" /\ r.id = w /\ (~r.ok \/ r.cmd # "prompt")
NoEnd(s, w) == \A i \in 1..Len(s) : ~EndsRun(s[i], w)
OneEnd(s, w) == \E i \in 1..Len(s) : /\ EndsRun(s[i], w)
                                     /\ \A j \in 1..Len(s) \ {i} : ~EndsRun(s[j], w)
NoResult(s) == \A i \in 1..Len(s) : s[i].kind # "result"

NoPrompt(o) == \A i \in 1..Len(o) : o[i].type # "prompt"
OnePrompt(o, w, n) ==
    \E i \in 1..Len(o) : /\ o[i] = Command("prompt", w, n)
                         /\ \A j \in 1..Len(o) \ {i} : o[j].type # "prompt"

(* The id of a run is that of its prompt only.                             *)
OwnId(c, a, o) ==
    /\ c.wire # NoWire /\ c.call.id # c.wire
    /\ \A i \in 1..Len(o) : o[i].type = "prompt" \/ o[i].id # c.wire
    /\ \A i \in 1..Len(a.aborts) : a.aborts[i] # c.wire
    /\ \A m \in a.owed : m.id # c.wire

(* Before the sidecar shuts down a run is at one place: its prompt is on   *)
(* the way, or the SDK works on it, or its end is on the way.              *)
AtRest(a, o) == NoPrompt(o) /\ a.work = <<>> /\ a.inflight = 0
NoRun(c, a, h, o) == AtRest(a, o) /\ NoResult(c.queued) /\ NoResult(h)
OneRun(c, a, h, o) ==
    \/ /\ OnePrompt(o, c.wire, c.req) /\ a.work = <<>> /\ a.inflight = 0
       /\ NoEnd(c.queued, c.wire) /\ NoEnd(h, c.wire)
    \/ /\ NoPrompt(o) /\ a.work = <<c.req>> /\ a.inflight = 1
       /\ NoEnd(c.queued, c.wire) /\ NoEnd(h, c.wire)
    \/ /\ AtRest(a, o)
       /\ \/ OneEnd(c.queued, c.wire) /\ NoEnd(h, c.wire)
          \/ NoEnd(c.queued, c.wire) /\ OneEnd(h, c.wire)
RunInPlace(c, a, h, o) ==
    a.st = "up" =>
        /\ ~c.gone /\ ~c.exited /\ c.deferred = NoWire
        /\ \A i \in 1..Len(h) : h[i].kind # "exit"
        /\ \A i \in 1..Len(c.queued) : c.queued[i].kind # "exit"
        /\ c.active <=> c.req # NoWire
        /\ c.active => OwnId(c, a, o) /\ OneRun(c, a, h, o)
        /\ ~c.active => c.wire = NoWire /\ NoRun(c, a, h, o)

(* While a prompt is worked on that was not sent to a sidecar shutting     *)
(* down, no result of another one is anywhere.                             *)
ResultsOf(s, n) == \A i \in 1..Len(s) : s[i].kind = "result" => s[i].of \in {n, LostRun}
OnlyOwn(c, a, h, o) ==
    c.req # NoWire /\ c.req \notin c.late =>
        /\ c.deferred = NoWire /\ ResultsOf(c.queued, c.req) /\ ResultsOf(h, c.req)
        /\ \A i \in 1..Len(a.work) : a.work[i] = c.req
        /\ \A i \in 1..Len(o) : o[i].type = "prompt" => o[i].of = c.req

(* The exit of an agent that is gone is read or yet to be read.            *)
ExitComes(c, a, h) ==
    /\ c.gone => ~c.active
    /\ a.st = "gone" => c.gone \/ c.exited \/ \E i \in 1..Len(h) : h[i] = Exit

InPlace(c, a, h, o) == /\ Numbered(c, a, h, o) /\ RunInPlace(c, a, h, o)
                       /\ OnlyOwn(c, a, h, o) /\ ExitComes(c, a, h)

ClientIInv == ClientTyped /\ InPlace(cl, ag, toHost, toAgent) /\ OwnAnswer

-----------------------------------------------------------------------------
LEMMA Grown ==
    ASSUME NEW S, NEW s \in Seq(S), NEW e \in S
    PROVE  /\ s \o <<e>> = Append(s, e) /\ Append(s, e) \in Seq(S)
           /\ Len(Append(s, e)) = Len(s) + 1
           /\ \A i \in 1..Len(s) : Append(s, e)[i] = s[i]
           /\ Append(s, e)[Len(s) + 1] = e
  OBVIOUS

LEMMA Shrunk ==
    ASSUME NEW S, NEW s \in Seq(S), s # <<>>
    PROVE  /\ Tail(s) \in Seq(S) /\ Len(Tail(s)) = Len(s) - 1 /\ Len(s) >= 1
           /\ \A i \in 1..(Len(s) - 1) : Tail(s)[i] = s[i + 1]
           /\ Head(s) = s[1] /\ Head(s) \in S
  OBVIOUS

LEMMA EndsGrown ==
    ASSUME NEW s \in Seq(Record), NEW r \in Record, NEW w
    PROVE  /\ NoEnd(s, w) /\ ~EndsRun(r, w) => NoEnd(Append(s, r), w)
           /\ NoEnd(s, w) /\ EndsRun(r, w) => OneEnd(Append(s, r), w)
           /\ OneEnd(s, w) /\ ~EndsRun(r, w) => OneEnd(Append(s, r), w)
           /\ NoResult(s) /\ r.kind # "result" => NoResult(Append(s, r))
<1> DEFINE t == Append(s, r)
<1>1. /\ t \in Seq(Record) /\ Len(t) = Len(s) + 1
      /\ \A i \in 1..Len(s) : t[i] = s[i]
      /\ t[Len(s) + 1] = r
  BY Grown
<1> HIDE DEF t
<1>2. Len(s) \in Nat
  OBVIOUS
<1>3. NoEnd(s, w) /\ ~EndsRun(r, w) => NoEnd(t, w)
  BY <1>1, <1>2 DEF NoEnd
<1>4. ASSUME NoEnd(s, w), EndsRun(r, w) PROVE OneEnd(t, w)
  <2>1. Len(s) + 1 \in 1..Len(t) /\ EndsRun(t[Len(s) + 1], w)
    BY <1>1, <1>2, <1>4
  <2>2. \A j \in 1..Len(t) \ {Len(s) + 1} : ~EndsRun(t[j], w)
    BY <1>1, <1>2, <1>4 DEF NoEnd
  <2> QED
    BY <2>1, <2>2 DEF OneEnd
<1>5. ASSUME OneEnd(s, w), ~EndsRun(r, w) PROVE OneEnd(t, w)
  <2>1. PICK i \in 1..Len(s) : /\ EndsRun(s[i], w)
                               /\ \A j \in 1..Len(s) \ {i} : ~EndsRun(s[j], w)
    BY <1>5 DEF OneEnd
  <2>2. i \in 1..Len(t) /\ EndsRun(t[i], w)
    BY <1>1, <1>2, <2>1
  <2>3. \A j \in 1..Len(t) \ {i} : ~EndsRun(t[j], w)
    BY <1>1, <1>2, <1>5, <2>1
  <2> QED
    BY <2>2, <2>3 DEF OneEnd
<1>6. NoResult(s) /\ r.kind # "result" => NoResult(t)
  BY <1>1, <1>2 DEF NoResult
<1> QED
  BY <1>3, <1>4, <1>5, <1>6 DEF t

LEMMA EndsShrunk ==
    ASSUME NEW s \in Seq(Record), s # <<>>, NEW w
    PROVE  /\ NoEnd(s, w) => NoEnd(Tail(s), w) /\ ~EndsRun(Head(s), w)
           /\ OneEnd(s, w) /\ EndsRun(Head(s), w) => NoEnd(Tail(s), w)
           /\ OneEnd(s, w) /\ ~EndsRun(Head(s), w) => OneEnd(Tail(s), w)
           /\ NoResult(s) => NoResult(Tail(s)) /\ Head(s).kind # "result"
<1> DEFINE t == Tail(s)
<1>1. /\ t \in Seq(Record) /\ Len(t) = Len(s) - 1 /\ Len(s) >= 1
      /\ \A i \in 1..(Len(s) - 1) : t[i] = s[i + 1]
      /\ Head(s) = s[1]
  BY Shrunk
<1> HIDE DEF t
<1>2. Len(s) \in Nat
  OBVIOUS
<1>3. \A i \in 1..Len(t) : i + 1 \in 1..Len(s) /\ t[i] = s[i + 1] /\ i + 1 # 1
  BY <1>1, <1>2
<1>4. NoEnd(s, w) => NoEnd(t, w) /\ ~EndsRun(Head(s), w)
  BY <1>1, <1>2, <1>3 DEF NoEnd
<1>5. ASSUME OneEnd(s, w) PROVE IF EndsRun(Head(s), w) THEN NoEnd(t, w) ELSE OneEnd(t, w)
  <2>1. PICK i \in 1..Len(s) : /\ EndsRun(s[i], w)
                               /\ \A j \in 1..Len(s) \ {i} : ~EndsRun(s[j], w)
    BY <1>5 DEF OneEnd
  <2>2. CASE i = 1
    BY <1>1, <1>3, <2>1, <2>2 DEF NoEnd
  <2>3. CASE i # 1
    <3>1. i - 1 \in 1..Len(t) /\ (i - 1) + 1 = i
      BY <1>1, <1>2, <2>1, <2>3
    <3>2. t[i - 1] = s[i]
      BY <1>3, <3>1
    <3>3. \A j \in 1..Len(t) \ {i - 1} : ~EndsRun(t[j], w)
      <4> TAKE j \in 1..Len(t) \ {i - 1}
      <4>1. j + 1 \in 1..Len(s) \ {i} /\ t[j] = s[j + 1]
        BY <1>3
      <4> QED
        BY <2>1, <4>1
    <3>4. ~EndsRun(Head(s), w)
      BY <1>1, <1>2, <2>1, <2>3
    <3>5. EndsRun(t[i - 1], w)
      BY <2>1, <3>2
    <3>6. OneEnd(t, w)
      BY <3>1, <3>3, <3>5 DEF OneEnd
    <3> QED
      BY <3>4, <3>6
  <2> QED
    BY <2>2, <2>3
<1>6. NoResult(s) => NoResult(t) /\ Head(s).kind # "result"
  BY <1>1, <1>2, <1>3 DEF NoResult
<1> QED
  BY <1>4, <1>5, <1>6 DEF t

LEMMA PromptsGrown ==
    ASSUME NEW s \in Seq(Order), NEW m \in Order, NEW w, NEW n
    PROVE  /\ NoPrompt(s) /\ m.type # "prompt" => NoPrompt(Append(s, m))
           /\ NoPrompt(s) /\ m = Command("prompt", w, n) => OnePrompt(Append(s, m), w, n)
           /\ OnePrompt(s, w, n) /\ m.type # "prompt" => OnePrompt(Append(s, m), w, n)
<1> DEFINE t == Append(s, m)
<1>1. /\ t \in Seq(Order) /\ Len(t) = Len(s) + 1
      /\ \A i \in 1..Len(s) : t[i] = s[i]
      /\ t[Len(s) + 1] = m
  BY Grown
<1> HIDE DEF t
<1>2. Len(s) \in Nat
  OBVIOUS
<1>3. NoPrompt(s) /\ m.type # "prompt" => NoPrompt(t)
  BY <1>1, <1>2 DEF NoPrompt
<1>4. ASSUME NoPrompt(s), m = Command("prompt", w, n) PROVE OnePrompt(t, w, n)
  <2>1. Len(s) + 1 \in 1..Len(t) /\ t[Len(s) + 1] = Command("prompt", w, n)
    BY <1>1, <1>2, <1>4
  <2>2. \A j \in 1..Len(t) \ {Len(s) + 1} : t[j].type # "prompt"
    BY <1>1, <1>2, <1>4 DEF NoPrompt
  <2> QED
    BY <2>1, <2>2 DEF OnePrompt
<1>5. ASSUME OnePrompt(s, w, n), m.type # "prompt" PROVE OnePrompt(t, w, n)
  <2>1. PICK i \in 1..Len(s) : /\ s[i] = Command("prompt", w, n)
                               /\ \A j \in 1..Len(s) \ {i} : s[j].type # "prompt"
    BY <1>5 DEF OnePrompt
  <2>2. i \in 1..Len(t) /\ t[i] = Command("prompt", w, n)
    BY <1>1, <1>2, <2>1
  <2>3. \A j \in 1..Len(t) \ {i} : t[j].type # "prompt"
    BY <1>1, <1>2, <1>5, <2>1
  <2> QED
    BY <2>2, <2>3 DEF OnePrompt
<1> QED
  BY <1>3, <1>4, <1>5 DEF t

LEMMA PromptsShrunk ==
    ASSUME NEW s \in Seq(Order), s # <<>>, NEW w, NEW n
    PROVE  /\ NoPrompt(s) => NoPrompt(Tail(s)) /\ Head(s).type # "prompt"
           /\ OnePrompt(s, w, n) /\ Head(s).type = "prompt"
                => NoPrompt(Tail(s)) /\ Head(s) = Command("prompt", w, n)
           /\ OnePrompt(s, w, n) /\ Head(s).type # "prompt" => OnePrompt(Tail(s), w, n)
<1> DEFINE t == Tail(s)
<1>1. /\ t \in Seq(Order) /\ Len(t) = Len(s) - 1 /\ Len(s) >= 1
      /\ \A i \in 1..(Len(s) - 1) : t[i] = s[i + 1]
      /\ Head(s) = s[1]
  BY Shrunk
<1> HIDE DEF t
<1>2. Len(s) \in Nat
  OBVIOUS
<1>3. \A i \in 1..Len(t) : i + 1 \in 1..Len(s) /\ t[i] = s[i + 1] /\ i + 1 # 1
  BY <1>1, <1>2
<1>4. NoPrompt(s) => NoPrompt(t) /\ Head(s).type # "prompt"
  BY <1>1, <1>2, <1>3 DEF NoPrompt
<1>5. ASSUME OnePrompt(s, w, n)
      PROVE  IF Head(s).type = "prompt" THEN NoPrompt(t) /\ Head(s) = Command("prompt", w, n)
             ELSE OnePrompt(t, w, n)
  <2>1. PICK i \in 1..Len(s) : /\ s[i] = Command("prompt", w, n)
                               /\ \A j \in 1..Len(s) \ {i} : s[j].type # "prompt"
    BY <1>5 DEF OnePrompt
  <2>2. s[i].type = "prompt"
    BY <2>1 DEF Command
  <2>3. CASE i = 1
    BY <1>1, <1>3, <2>1, <2>2, <2>3 DEF NoPrompt
  <2>4. CASE i # 1
    <3>1. i - 1 \in 1..Len(t) /\ (i - 1) + 1 = i
      BY <1>1, <1>2, <2>1, <2>4
    <3>2. t[i - 1] = Command("prompt", w, n)
      BY <1>3, <2>1, <3>1
    <3>3. \A j \in 1..Len(t) \ {i - 1} : t[j].type # "prompt"
      <4> TAKE j \in 1..Len(t) \ {i - 1}
      <4>1. j + 1 \in 1..Len(s) \ {i} /\ t[j] = s[j + 1]
        BY <1>3
      <4> QED
        BY <2>1, <4>1
    <3>4. Head(s).type # "prompt"
      BY <1>1, <1>2, <2>1, <2>4
    <3> QED
      BY <3>1, <3>2, <3>3, <3>4 DEF OnePrompt
  <2> QED
    BY <2>3, <2>4
<1> QED
  BY <1>4, <1>5 DEF t

LEMMA EndsFacts ==
    ASSUME NEW s \in Seq(Record), NEW w
    PROVE  /\ NoEnd(s, w) => NoResult(s)
           /\ NoResult(s) /\ (\A i \in 1..Len(s) : s[i].id # w) => NoEnd(s, w)
  BY DEF NoEnd, NoResult, EndsRun

LEMMA OwnGrown ==
    ASSUME NEW s \in Seq(Record), NEW r \in Record, NEW n
    PROVE  ResultsOf(s, n) /\ (r.kind = "result" => r.of \in {n, LostRun})
             => ResultsOf(Append(s, r), n)
<1>1. /\ Append(s, r) \in Seq(Record) /\ Len(Append(s, r)) = Len(s) + 1
      /\ \A i \in 1..Len(s) : Append(s, r)[i] = s[i]
      /\ Append(s, r)[Len(s) + 1] = r /\ Len(s) \in Nat
  BY Grown
<1> QED
  BY <1>1 DEF ResultsOf

LEMMA OwnShrunk ==
    ASSUME NEW s \in Seq(Record), s # <<>>, NEW n, ResultsOf(s, n)
    PROVE  /\ ResultsOf(Tail(s), n)
           /\ Head(s).kind = "result" => Head(s).of \in {n, LostRun}
<1>1. /\ Len(Tail(s)) = Len(s) - 1 /\ Len(s) >= 1 /\ Len(s) \in Nat
      /\ \A i \in 1..(Len(s) - 1) : Tail(s)[i] = s[i + 1]
      /\ Head(s) = s[1]
  BY Shrunk
<1> QED
  BY <1>1 DEF ResultsOf

(* Ids below a bound. *)
Below(s, n) == \A i \in 1..Len(s) : s[i].id < n

LEMMA BelowGrown ==
    ASSUME NEW S, NEW s \in Seq(S), NEW r \in S, NEW n, Below(s, n), r.id < n
    PROVE  Below(Append(s, r), n)
<1>1. /\ Len(Append(s, r)) = Len(s) + 1 /\ Len(s) \in Nat
      /\ \A i \in 1..Len(s) : Append(s, r)[i] = s[i]
      /\ Append(s, r)[Len(s) + 1] = r
  BY Grown
<1> QED
  BY <1>1 DEF Below

LEMMA BelowShrunk ==
    ASSUME NEW S, NEW s \in Seq(S), s # <<>>, NEW n, Below(s, n)
    PROVE  Below(Tail(s), n) /\ Head(s).id < n
<1>1. /\ Len(Tail(s)) = Len(s) - 1 /\ Len(s) >= 1 /\ Len(s) \in Nat
      /\ \A i \in 1..(Len(s) - 1) : Tail(s)[i] = s[i + 1]
      /\ Head(s) = s[1]
  BY Shrunk
<1> QED
  BY <1>1 DEF Below

LEMMA BelowMore ==
    /\ \A s \in Seq(Record), n \in Nat : Below(s, n) => Below(s, n + 1)
    /\ \A s \in Seq(Order), n \in Nat : Below(s, n) => Below(s, n + 1)
<1>1. \A s \in Seq(Record) : \A i \in 1..Len(s) : s[i].id \in Nat
  <2> TAKE s \in Seq(Record)
  <2> TAKE i \in 1..Len(s)
  <2>1. s[i] \in Record
    OBVIOUS
  <2> QED
    BY <2>1 DEF Record
<1>2. \A s \in Seq(Order) : \A i \in 1..Len(s) : s[i].id \in Nat
  <2> TAKE s \in Seq(Order)
  <2> TAKE i \in 1..Len(s)
  <2>1. s[i] \in Order
    OBVIOUS
  <2> QED
    BY <2>1 DEF Order
<1> QED
  BY <1>1, <1>2 DEF Below

-----------------------------------------------------------------------------
(* What the end of a prompt is told from. *)
LEMMA TellKeeps ==
    ASSUME ClientTyped, OwnAnswer, NEW x \in Int, Tell(x),
           cl.req # NoWire /\ cl.req \notin cl.late => x \in {Refusal, LostRun, cl.req},
           cl'.late = cl.late
    PROVE  told' \in [Turns -> Int] /\ OwnAnswer'
<1>1. told \in [Turns -> Int] /\ cl.req \in 0..MaxTurns /\ MaxTurns \in Nat
  BY ClientAssumption DEF ClientTyped, Client
<1>2. CASE cl.req = NoWire
  BY <1>1, <1>2 DEF Tell, OwnAnswer
<1>3. CASE cl.req # NoWire
  <2>1. cl.req \in Turns /\ told' = [told EXCEPT ![cl.req] = x]
    BY <1>1, <1>3 DEF Turns, Tell, NoWire
  <2>2. told' \in [Turns -> Int]
    BY <1>1, <2>1
  <2>3. \A r \in Turns : told'[r] = IF r = cl.req THEN x ELSE told[r]
    BY <1>1, <2>1
  <2> QED
    BY <1>3, <2>2, <2>3 DEF OwnAnswer
<1> QED
  BY <1>2, <1>3

(* The run is over, or there was none. *)
Finished(c, h) ==
    /\ ag.st = "up" =>
          /\ ~c.gone /\ ~c.exited /\ c.deferred = NoWire
          /\ \A i \in 1..Len(h) : h[i].kind # "exit"
          /\ \A i \in 1..Len(c.queued) : c.queued[i].kind # "exit"
          /\ NoRun(c, ag, h, toAgent)
    /\ ag.st = "gone" => c.gone \/ c.exited \/ \E i \in 1..Len(h) : h[i] = Exit

LEMMA FinishKeeps ==
    ASSUME ClientTyped, NEW c \in Client, NEW h \in Seq(Record), c.call = Quiet,
           Numbered(c, ag, h, toAgent), Finished(c, h), FinishRun(c)
    PROVE  /\ cl' \in Client /\ toAgent' \in Seq(Order) /\ cl'.late = c.late
           /\ InPlace(cl', ag, h, toAgent')
<1> DEFINE over == [RunOver(c) EXCEPT !.req = NoWire]
           end == <<c.req>>
           m == Command("usage", c.wires, NoWire)
<1>1. /\ ag \in Sidecar /\ toAgent \in Seq(Order) /\ MaxTurns \in Nat
      /\ end \in Seq(Nat)
  BY ClientAssumption DEF ClientTyped, Client
<1>2. over \in Client
  <2>1. RunOver(c) \in Client
    BY DEF RunOver, Client, NoWire
  <2>2. 0 \in 0..MaxTurns
    BY <1>1
  <2>3. \A d \in Client : [d EXCEPT !.req = 0] \in Client
    BY <2>2 DEF Client
  <2> QED
    BY <2>1, <2>3 DEF NoWire
<1>3. /\ over.active = FALSE /\ over.wire = 0 /\ over.req = 0 /\ over.late = c.late
      /\ over.wires = c.wires /\ over.next = c.next /\ over.queued = c.queued
      /\ over.gone = c.gone /\ over.exited = c.exited /\ over.deferred = c.deferred
      /\ over.call = Quiet
  BY DEF RunOver, Client, NoWire
<1>6. /\ c.wires \in Nat /\ c.wires + 1 \in Nat \ {0} /\ c.wires > 0
      /\ c.next \in Nat /\ c.next > 0
  BY DEF Client
<1> HIDE DEF over
<1>4. CASE ag.st = "gone"
  <2> DEFINE d == [over EXCEPT !.call.finish = end]
  <2>1. cl' = Ended(d) /\ UNCHANGED toAgent
    BY <1>4 DEF FinishRun, over
  <2>2. d \in Client
    BY <1>1, <1>2, <1>3 DEF Client, Call
  <2>3. /\ cl' \in Client /\ cl'.active = FALSE /\ cl'.wire = 0 /\ cl'.req = 0
        /\ cl'.late = c.late /\ cl'.wires = c.wires /\ cl'.next = c.next
        /\ cl'.queued = c.queued /\ cl'.gone = c.gone /\ cl'.exited = c.exited
        /\ cl'.call = Quiet
    BY <1>1, <1>2, <1>3, <2>1, <2>2 DEF Ended, Client, Call, Quiet, NoWire
  <2>4. Numbered(cl', ag, h, toAgent')
    BY <1>6, <2>1, <2>3 DEF Numbered, Quiet, NoWire
  <2> QED
    BY <1>1, <1>4, <2>1, <2>3, <2>4
       DEF InPlace, RunInPlace, OnlyOwn, ExitComes, Finished, NoWire
<1>5. CASE ag.st # "gone"
  <2>1. /\ cl' = [over EXCEPT !.wires = @ + 1, !.call = [id |-> c.wires, finish |-> end]]
        /\ toAgent' = Append(toAgent, m)
    BY <1>5 DEF FinishRun, over
  <2>2. /\ cl' \in Client /\ cl'.active = FALSE /\ cl'.wire = 0 /\ cl'.req = 0
        /\ cl'.late = c.late /\ cl'.wires = c.wires + 1 /\ cl'.next = c.next
        /\ cl'.queued = c.queued /\ cl'.gone = c.gone /\ cl'.exited = c.exited
        /\ cl'.deferred = c.deferred /\ cl'.call.id = c.wires
    <3>1. [id |-> c.wires, finish |-> end] \in Call
      BY <1>1, <1>6 DEF Call
    <3> HIDE DEF end
    <3> QED
      BY <1>2, <1>3, <1>6, <2>1, <3>1 DEF Client
  <2>3. m \in Order /\ m.id = c.wires /\ m.type = "usage"
    BY DEF Command, Order, Client, NoWire
  <2>4. toAgent' \in Seq(Order)
    BY <1>1, <2>1, <2>3
  <2>5. c.wires \in Nat /\ c.wires < c.wires + 1
    BY DEF Client
  <2>6. Numbered(cl', ag, h, toAgent')
    <3>1. Below(toAgent, c.wires) /\ Below(c.queued, c.wires) /\ Below(h, c.wires)
      BY DEF Numbered, Below
    <3>2. Below(toAgent, c.wires + 1) /\ Below(c.queued, c.wires + 1)
          /\ Below(h, c.wires + 1)
      BY <1>1, <2>5, <3>1, BelowMore DEF Client
    <3>3. Below(toAgent', c.wires + 1)
      BY <1>1, <2>1, <2>3, <2>5, <3>2, BelowGrown
    <3>7. /\ \A i \in 1..Len(ag.aborts) : ag.aborts[i] \in Nat /\ ag.aborts[i] < c.wires
          /\ \A x \in ag.owed : x.id \in Nat /\ x.id < c.wires
      <4>1. ag.aborts \in Seq(Nat) /\ ag.owed \in SUBSET Order
        BY <1>1 DEF Sidecar
      <4>2. \A x \in Order : x.id \in Nat
        BY DEF Order
      <4>3. /\ \A i \in 1..Len(ag.aborts) : ag.aborts[i] \in Nat
            /\ \A x \in ag.owed : x.id \in Nat
        BY <4>1, <4>2
      <4> QED
        BY <4>3 DEF Numbered
    <3>4. \A i \in 1..Len(ag.aborts) : ag.aborts[i] < c.wires + 1
      BY <2>5, <3>7
    <3>5. \A x \in ag.owed : x.id < c.wires + 1
      BY <2>5, <3>7
    <3>6. 0 < c.next /\ \A x \in c.late : x < c.next
      BY DEF Numbered, Client
    <3> QED
      BY <2>2, <2>5, <3>2, <3>3, <3>4, <3>5, <3>6 DEF Numbered, Below
  <2>7. NoPrompt(toAgent) => NoPrompt(toAgent')
    BY <1>1, <2>1, <2>3, PromptsGrown
  <2> QED
    BY <1>5, <2>2, <2>4, <2>6, <2>7
       DEF InPlace, RunInPlace, OnlyOwn, ExitComes, Finished, NoRun, AtRest, NoWire
<1> QED
  BY <1>4, <1>5

(* The client c has taken the record r off what is to be read.             *)
Taken(c, r, h) ==
    /\ ag.st = "up" =>
          /\ ~c.gone /\ ~c.exited /\ c.deferred = NoWire /\ r.kind # "exit"
          /\ \A i \in 1..Len(h) : h[i].kind # "exit"
          /\ \A i \in 1..Len(c.queued) : c.queued[i].kind # "exit"
          /\ c.active <=> c.req # NoWire
          /\ c.active => OwnId(c, ag, toAgent)
          /\ c.active /\ EndsRun(r, c.wire) => NoRun(c, ag, h, toAgent)
          /\ c.active /\ ~EndsRun(r, c.wire) => OneRun(c, ag, h, toAgent)
          /\ ~c.active => /\ c.wire = NoWire /\ r.kind # "result"
                          /\ NoRun(c, ag, h, toAgent)
    /\ OnlyOwn(c, ag, h, toAgent)
    /\ c.req # NoWire /\ c.req \notin c.late /\ r.kind = "result"
          => r.of \in {c.req, LostRun}
    /\ c.gone => ~c.active
    /\ ag.st = "gone" => \/ c.gone \/ c.exited \/ r = Exit
                         \/ \E i \in 1..Len(h) : h[i] = Exit

LEMMA TakeKeeps ==
    ASSUME ClientTyped, OwnAnswer, NEW c \in Client, NEW r \in Record,
           NEW h \in Seq(Record), c.call = Quiet, c.req = cl.req, c.late = cl.late,
           Numbered(c, ag, h, toAgent), Taken(c, r, h), TakeRecord(c, r)
    PROVE  /\ cl' \in Client /\ toAgent' \in Seq(Order) /\ told' \in [Turns -> Int]
           /\ InPlace(cl', ag, h, toAgent') /\ OwnAnswer'
<1>1. /\ ag \in Sidecar /\ toAgent \in Seq(Order) /\ MaxTurns \in Nat
      /\ told \in [Turns -> Int] /\ c.req \in Int /\ r.of \in Int
      /\ 0 \in 0..MaxTurns /\ c.wires \in Nat /\ c.wires > 0 /\ c.next \in Nat
      /\ c.next > 0
  <2>1. ag \in Sidecar /\ toAgent \in Seq(Order) /\ told \in [Turns -> Int]
    BY DEF ClientTyped
  <2>2. MaxTurns \in Nat /\ 0 \in 0..MaxTurns
    BY ClientAssumption
  <2>3. c.req \in 0..MaxTurns /\ c.wires \in Nat \ {0} /\ c.next \in Nat \ {0}
    BY DEF Client
  <2>4. r.of \in Int
    BY DEF Record
  <2> QED
    BY <2>1, <2>2, <2>3, <2>4
<1>2. Exit.kind = "exit" /\ Noise.kind = "noise"
  BY DEF Exit, Noise
<1>3. CASE IsPromptResponse(c, r) /\ ~r.ok
  <2> DEFINE d == [RunOver(c) EXCEPT !.req = NoWire,
                         !.awaits = IF c.awaits = c.req THEN NoWire ELSE @]
  <2>1. cl' = d /\ Tell(Refusal) /\ UNCHANGED toAgent /\ r.kind = "response"
        /\ r.id = c.wire /\ c.wire # NoWire
    BY <1>3 DEF TakeRecord, IsPromptResponse
  <2>2. d = [c EXCEPT !.active = FALSE, !.wire = 0, !.req = 0,
                      !.awaits = IF c.awaits = c.req THEN 0 ELSE c.awaits]
    BY DEF RunOver, Client, NoWire
  <2> HIDE DEF d
  <2>3. /\ d \in Client /\ d.active = FALSE /\ d.wire = 0 /\ d.req = 0
        /\ d.late = c.late /\ d.wires = c.wires /\ d.next = c.next
        /\ d.queued = c.queued /\ d.gone = c.gone /\ d.exited = c.exited
        /\ d.deferred = c.deferred /\ d.call = c.call
    BY <1>1, <2>2 DEF Client
  <2>4. Numbered(d, ag, h, toAgent)
    BY <1>1, <2>3 DEF Numbered
  <2>5. ag.st = "up" => NoRun(c, ag, h, toAgent)
    BY <1>3, <2>1 DEF Taken, EndsRun
  <2>6. InPlace(d, ag, h, toAgent)
    BY <1>2, <2>1, <2>3, <2>4, <2>5
       DEF InPlace, RunInPlace, OnlyOwn, ExitComes, Taken, NoRun, NoWire
  <2>7. Refusal \in Int
    BY DEF Refusal
  <2>8. told' \in [Turns -> Int] /\ OwnAnswer'
    BY <2>1, <2>3, <2>7, TellKeeps
  <2> QED
    BY <1>1, <2>1, <2>3, <2>6, <2>8
<1>4. ASSUME NEW x \in Int, FinishRun(c), Tell(x),
             c.req # NoWire /\ c.req \notin c.late => x \in {Refusal, LostRun, c.req},
             EndsRun(r, c.wire), c.active \/ ag.st # "up" \/ r.kind = "result"
                                 \/ c.wire # NoWire
      PROVE  /\ cl' \in Client /\ toAgent' \in Seq(Order) /\ told' \in [Turns -> Int]
             /\ InPlace(cl', ag, h, toAgent') /\ OwnAnswer'
  <2>1. r.kind # "exit" /\ r # Exit
    BY <1>2, <1>4 DEF EndsRun
  <2>2. Finished(c, h)
    BY <1>4, <2>1 DEF Finished, Taken
  <2>3. /\ cl' \in Client /\ toAgent' \in Seq(Order) /\ cl'.late = c.late
        /\ InPlace(cl', ag, h, toAgent')
    BY <1>4, <2>2, FinishKeeps
  <2> QED
    BY <1>4, <2>3, TellKeeps
<1>5. CASE IsPromptResponse(c, r) /\ r.ok /\ r.cmd # "prompt"
  <2>1. FinishRun(c) /\ Tell(c.req) /\ EndsRun(r, c.wire) /\ c.wire # NoWire
    BY <1>5 DEF TakeRecord, IsPromptResponse, EndsRun
  <2> QED
    BY <1>1, <1>4, <2>1
<1>6. CASE r.kind = "result" /\ (r.end = "ok" \/ c.req # NoWire)
  <2>1. FinishRun(c) /\ Tell(r.of) /\ EndsRun(r, c.wire)
    BY <1>6 DEF TakeRecord, IsPromptResponse, EndsRun
  <2>2. c.req # NoWire /\ c.req \notin c.late => r.of \in {Refusal, LostRun, c.req}
    BY <1>6 DEF Taken
  <2> QED
    BY <1>1, <1>4, <1>6, <2>1, <2>2
<1>7. CASE r.kind = "result" /\ r.end = "error" /\ c.req = NoWire
  <2>1. cl' = [c EXCEPT !.deferred = r.of] /\ UNCHANGED <<told, toAgent>>
    BY <1>7 DEF TakeRecord, IsPromptResponse
  <2>2. /\ cl' \in Client /\ cl'.active = c.active /\ cl'.wire = c.wire
        /\ cl'.req = c.req /\ cl'.late = c.late /\ cl'.wires = c.wires
        /\ cl'.next = c.next /\ cl'.queued = c.queued /\ cl'.gone = c.gone
        /\ cl'.exited = c.exited /\ cl'.call = c.call
    BY <1>1, <2>1 DEF Client
  <2>3. ag.st # "up"
    BY <1>7 DEF Taken
  <2>4. Numbered(cl', ag, h, toAgent')
    BY <2>1, <2>2 DEF Numbered
  <2>5. r # Exit
    BY <1>2, <1>7
  <2> QED
    BY <1>1, <1>7, <2>1, <2>2, <2>3, <2>4, <2>5
       DEF InPlace, RunInPlace, OnlyOwn, ExitComes, Taken, OwnAnswer
<1>8. CASE r.kind = "exit"
  <2> DEFINE d == [RunOver(c) EXCEPT !.gone = TRUE, !.awaits = NoWire]
  <2>1. cl' = d /\ UNCHANGED <<told, toAgent>>
    BY <1>8 DEF TakeRecord, IsPromptResponse
  <2>2. d = [c EXCEPT !.active = FALSE, !.wire = 0, !.gone = TRUE, !.awaits = 0]
    BY DEF RunOver, Client, NoWire
  <2> HIDE DEF d
  <2>3. /\ d \in Client /\ d.active = FALSE /\ d.wire = 0 /\ d.req = c.req
        /\ d.late = c.late /\ d.wires = c.wires /\ d.next = c.next
        /\ d.queued = c.queued /\ d.gone = TRUE /\ d.exited = c.exited
        /\ d.deferred = c.deferred /\ d.call = c.call
    BY <1>1, <2>2 DEF Client
  <2>4. ag.st # "up"
    BY <1>8 DEF Taken
  <2>5. Numbered(d, ag, h, toAgent)
    BY <1>1, <2>3 DEF Numbered
  <2>6. OnlyOwn(d, ag, h, toAgent)
    BY <2>3 DEF Taken, OnlyOwn
  <2>7. InPlace(d, ag, h, toAgent)
    BY <2>3, <2>4, <2>5, <2>6 DEF InPlace, RunInPlace, ExitComes
  <2> QED
    BY <1>1, <2>1, <2>3, <2>7 DEF OwnAnswer
<1>9. CASE /\ ~(IsPromptResponse(c, r) /\ ~r.ok) /\ r.kind # "exit"
           /\ ~(IsPromptResponse(c, r) /\ r.ok /\ r.cmd # "prompt")
           /\ ~(r.kind = "result" /\ (r.end = "ok" \/ c.req # NoWire))
           /\ ~(r.kind = "result" /\ r.end = "error" /\ c.req = NoWire)
  <2>1. cl' = c /\ UNCHANGED <<told, toAgent>>
    BY <1>9 DEF TakeRecord
  <2>2. r # Exit
    BY <1>2, <1>9
  <2>3. ag.st = "up" /\ c.active => ~EndsRun(r, c.wire)
    BY <1>9 DEF Taken, EndsRun, OwnId, IsPromptResponse
  <2>4. RunInPlace(c, ag, h, toAgent)
    BY <2>3 DEF RunInPlace, Taken
  <2>5. ExitComes(c, ag, h) /\ OnlyOwn(c, ag, h, toAgent)
    BY <2>2 DEF ExitComes, Taken
  <2> QED
    BY <1>1, <2>1, <2>4, <2>5 DEF InPlace, OwnAnswer
<1> QED
  BY <1>3, <1>5, <1>6, <1>7, <1>8, <1>9 DEF IsPromptResponse

(* A record that ends nothing is written. *)
LEMMA WriteKeeps ==
    ASSUME NEW c \in Client, NEW a \in Sidecar, NEW h \in Seq(Record),
           NEW o \in Seq(Order), NEW r \in Record, InPlace(c, a, h, o),
           r.id < c.wires, r.kind \notin {"result", "exit"},
           a.st = "up" /\ c.active => ~EndsRun(r, c.wire)
    PROVE  Append(h, r) \in Seq(Record) /\ InPlace(c, a, Append(h, r), o)
<1> DEFINE t == Append(h, r)
<1>1. /\ t \in Seq(Record) /\ Len(t) = Len(h) + 1 /\ Len(h) \in Nat
      /\ \A i \in 1..Len(h) : t[i] = h[i]
      /\ t[Len(h) + 1] = r
  BY Grown
<1>2. /\ \A w : NoEnd(h, w) /\ ~EndsRun(r, w) => NoEnd(t, w)
      /\ \A w : OneEnd(h, w) /\ ~EndsRun(r, w) => OneEnd(t, w)
      /\ NoResult(h) => NoResult(t)
  BY EndsGrown
<1>3. \A n : ResultsOf(h, n) => ResultsOf(t, n)
  BY OwnGrown
<1> HIDE DEF t
<1>4. Numbered(c, a, t, o)
  <2>1. \A i \in 1..Len(h) : h[i].id < c.wires
    BY DEF InPlace, Numbered
  <2>2. \A i \in 1..Len(t) : t[i].id < c.wires
    BY <1>1, <2>1
  <2> QED
    BY <2>2 DEF InPlace, Numbered
<1>5. RunInPlace(c, a, t, o)
  <2> SUFFICES ASSUME a.st = "up" PROVE RunInPlace(c, a, t, o)
    BY DEF RunInPlace
  <2>1. \A i \in 1..Len(t) : t[i].kind # "exit"
    BY <1>1 DEF InPlace, RunInPlace
  <2>2. c.active => OneRun(c, a, t, o)
    BY <1>2 DEF InPlace, RunInPlace, OneRun
  <2>3. ~c.active => NoRun(c, a, t, o)
    BY <1>2 DEF InPlace, RunInPlace, NoRun
  <2> QED
    BY <2>1, <2>2, <2>3 DEF InPlace, RunInPlace
<1>6. OnlyOwn(c, a, t, o)
  BY <1>3 DEF InPlace, OnlyOwn
<1>7. ExitComes(c, a, t)
  BY <1>1 DEF InPlace, ExitComes
<1> QED
  BY <1>1, <1>4, <1>5, <1>6, <1>7 DEF InPlace, t

LEMMA AnyRecord ==
    /\ \A id \in Nat, cmd \in {"prompt", "handled", "abort", "set", "usage"}, ok \in BOOLEAN :
          LET r == Response(id, cmd, ok)
          IN  /\ r \in Record /\ r.kind = "response" /\ r.id = id /\ r.cmd = cmd
              /\ r.ok = ok
    /\ \A of \in Int, end \in {"ok", "error"} :
          LET r == Result(of, end)
          IN  r \in Record /\ r.kind = "result" /\ r.id = 0 /\ r.of = of
    /\ Noise \in Record /\ Noise.kind = "noise" /\ Noise.id = 0
    /\ Exit \in Record /\ Exit.kind = "exit" /\ Exit.id = 0
<1>1. ASSUME NEW id \in Nat, NEW ok \in BOOLEAN,
             NEW cmd \in {"prompt", "handled", "abort", "set", "usage"}
      PROVE  LET r == Response(id, cmd, ok)
             IN  /\ r \in Record /\ r.kind = "response" /\ r.id = id /\ r.cmd = cmd
                 /\ r.ok = ok
  BY <1>1 DEF Response, Record, NoWire
<1>2. ASSUME NEW of \in Int, NEW end \in {"ok", "error"}
      PROVE  LET r == Result(of, end)
             IN  r \in Record /\ r.kind = "result" /\ r.id = 0 /\ r.of = of
  BY <1>2 DEF Result, Record, NoWire
<1>3. Noise \in Record /\ Noise.kind = "noise" /\ Noise.id = 0
  BY DEF Noise, Record, NoWire
<1>4. \A r \in Record : LET x == [r EXCEPT !.kind = "exit"]
                        IN  x \in Record /\ x.kind = "exit" /\ x.id = r.id
  BY DEF Record
<1>5. Exit \in Record /\ Exit.kind = "exit" /\ Exit.id = 0
  BY <1>3, <1>4 DEF Exit
<1> QED
  BY <1>1, <1>2, <1>3, <1>5

(* What the types say. *)
LEMMA ClientFacts ==
    ASSUME ClientTyped
    PROVE  /\ cl \in Client /\ ag \in Sidecar /\ toHost \in Seq(Record)
           /\ toAgent \in Seq(Order) /\ cl.queued \in Seq(Record)
           /\ ag.work \in Seq(Nat) /\ ag.aborts \in Seq(Nat) /\ ag.owed \in SUBSET Order
           /\ ag.inflight \in Nat /\ cl.wires \in Nat /\ cl.wires > 0
           /\ cl.next \in Nat /\ cl.next > 0 /\ cl.wire \in Nat /\ cl.deferred \in Int
           /\ cl.req \in 0..MaxTurns /\ MaxTurns \in Nat /\ done \in Nat
           /\ cl.call \in Call /\ cl.call.id \in Nat
<1>1. cl \in Client /\ ag \in Sidecar
  BY DEF ClientTyped
<1>2. /\ cl.queued \in Seq(Record) /\ cl.wires \in Nat \ {0} /\ cl.next \in Nat \ {0}
      /\ cl.wire \in Nat /\ cl.deferred \in Int /\ cl.req \in 0..MaxTurns
      /\ cl.call \in Call
  BY <1>1 DEF Client
<1>3. /\ ag.work \in Seq(Nat) /\ ag.aborts \in Seq(Nat) /\ ag.owed \in SUBSET Order
      /\ ag.inflight \in Nat
  BY <1>1 DEF Sidecar
<1>4. cl.call.id \in Nat
  BY <1>2 DEF Call
<1>5. toHost \in Seq(Record) /\ toAgent \in Seq(Order) /\ done \in Nat
  BY DEF ClientTyped
<1>6. MaxTurns \in Nat
  BY ClientAssumption
<1>7. /\ cl.wires \in Nat /\ cl.wires > 0
      /\ cl.next \in Nat /\ cl.next > 0
  BY <1>2
<1> QED
  BY <1>1, <1>2, <1>3, <1>4, <1>5, <1>6, <1>7

LEMMA PollExitedKeeps == ASSUME ClientIInv, PollExited PROVE ClientIInv'
<1> DEFINE c == [cl EXCEPT !.exited = FALSE]
<1>1. /\ cl.exited /\ cl.call = Quiet /\ TakeRecord(c, Exit)
      /\ UNCHANGED <<toHost, ag, done>>
  BY DEF PollExited
<1>2. /\ c \in Client /\ c.active = cl.active /\ c.wire = cl.wire /\ c.req = cl.req
      /\ c.late = cl.late /\ c.wires = cl.wires /\ c.next = cl.next
      /\ c.queued = cl.queued /\ c.gone = cl.gone /\ c.deferred = cl.deferred
      /\ c.call = cl.call
  BY ClientFacts DEF ClientIInv, Client
<1> HIDE DEF c
<1>3. ag.st # "up"
  BY <1>1 DEF ClientIInv, InPlace, RunInPlace
<1>4. Numbered(c, ag, toHost, toAgent)
  BY <1>2 DEF ClientIInv, InPlace, Numbered
<1>5. OnlyOwn(c, ag, toHost, toAgent)
  BY <1>2 DEF ClientIInv, InPlace, OnlyOwn
<1>6. Exit.kind # "result"
  BY AnyRecord
<1>7. Taken(c, Exit, toHost)
  BY <1>2, <1>3, <1>5, <1>6 DEF ClientIInv, InPlace, Taken, ExitComes
<1>8. /\ cl' \in Client /\ toAgent' \in Seq(Order) /\ told' \in [Turns -> Int]
      /\ InPlace(cl', ag, toHost, toAgent') /\ OwnAnswer'
  BY <1>1, <1>2, <1>4, <1>7, AnyRecord, ClientFacts, TakeKeeps DEF ClientIInv
<1> QED
  BY <1>1, <1>8 DEF ClientIInv, ClientTyped

LEMMA PollKeptKeeps == ASSUME ClientIInv, PollKept PROVE ClientIInv'
<1> DEFINE c == [cl EXCEPT !.queued = Tail(cl.queued)]
           r == Head(cl.queued)
<1>1. /\ ~cl.exited /\ cl.call = Quiet /\ TakeRecord(c, r) /\ cl.queued # <<>>
      /\ UNCHANGED <<toHost, ag, done>>
  BY DEF PollKept
<1>2. Tail(cl.queued) \in Seq(Record) /\ r \in Record
  BY <1>1, ClientFacts, Shrunk DEF ClientIInv
<1>3. /\ c \in Client /\ c.active = cl.active /\ c.wire = cl.wire /\ c.req = cl.req
      /\ c.late = cl.late /\ c.wires = cl.wires /\ c.next = cl.next
      /\ c.queued = Tail(cl.queued) /\ c.gone = cl.gone /\ c.deferred = cl.deferred
      /\ c.call = cl.call /\ c.exited = cl.exited
  BY <1>2, ClientFacts DEF ClientIInv, Client
<1>4. /\ \A i \in 1..Len(c.queued) : i + 1 \in 1..Len(cl.queued)
                                     /\ c.queued[i] = cl.queued[i + 1]
      /\ 1 \in 1..Len(cl.queued) /\ r = cl.queued[1]
  <2>1. /\ Len(Tail(cl.queued)) = Len(cl.queued) - 1 /\ Len(cl.queued) >= 1
        /\ Len(cl.queued) \in Nat /\ r = cl.queued[1]
        /\ \A i \in 1..(Len(cl.queued) - 1) : Tail(cl.queued)[i] = cl.queued[i + 1]
    <3>1. cl.queued \in Seq(Record)
      BY ClientFacts DEF ClientIInv
    <3> QED
      BY <1>1, <3>1, Shrunk
  <2> QED
    BY <1>3, <2>1
<1>5. \A w : /\ NoEnd(cl.queued, w) => NoEnd(c.queued, w) /\ ~EndsRun(r, w)
             /\ OneEnd(cl.queued, w) /\ EndsRun(r, w) => NoEnd(c.queued, w)
             /\ OneEnd(cl.queued, w) /\ ~EndsRun(r, w) => OneEnd(c.queued, w)
             /\ NoResult(cl.queued) => NoResult(c.queued) /\ r.kind # "result"
  BY <1>1, <1>3, ClientFacts, EndsShrunk DEF ClientIInv
<1>6. \A n : ResultsOf(cl.queued, n) => /\ ResultsOf(c.queued, n)
                                        /\ r.kind = "result" => r.of \in {n, LostRun}
  BY <1>1, <1>3, ClientFacts, OwnShrunk DEF ClientIInv
<1>7. NoEnd(toHost, cl.wire) => NoResult(toHost)
  BY ClientFacts, EndsFacts DEF ClientIInv
<1>8. NoEnd(c.queued, cl.wire) => NoResult(c.queued)
  BY <1>2, <1>3, EndsFacts
<1> HIDE DEF c, r
<1>9. Numbered(c, ag, toHost, toAgent)
  BY <1>3, <1>4 DEF ClientIInv, InPlace, Numbered
<1>10. ASSUME ag.st = "up"
       PROVE  /\ \A i \in 1..Len(c.queued) : c.queued[i].kind # "exit"
              /\ r.kind # "exit"
              /\ c.active => OwnId(c, ag, toAgent)
              /\ c.active /\ EndsRun(r, c.wire) => NoRun(c, ag, toHost, toAgent)
              /\ c.active /\ ~EndsRun(r, c.wire) => OneRun(c, ag, toHost, toAgent)
              /\ ~c.active => r.kind # "result" /\ NoRun(c, ag, toHost, toAgent)
  <2>1. /\ \A i \in 1..Len(c.queued) : c.queued[i].kind # "exit"
        /\ r.kind # "exit"
    BY <1>4, <1>10 DEF ClientIInv, InPlace, RunInPlace
  <2>2. c.active => OwnId(c, ag, toAgent)
    BY <1>3, <1>10 DEF ClientIInv, InPlace, RunInPlace, OwnId
  <2>3. c.active => OneRun(cl, ag, toHost, toAgent)
    BY <1>3, <1>10 DEF ClientIInv, InPlace, RunInPlace
  <2>4. c.active /\ EndsRun(r, c.wire) => NoRun(c, ag, toHost, toAgent)
    BY <1>3, <1>5, <1>7, <1>8, <2>3 DEF OneRun, NoRun, AtRest
  <2>5. c.active /\ ~EndsRun(r, c.wire) => OneRun(c, ag, toHost, toAgent)
    BY <1>3, <1>5, <2>3 DEF OneRun, AtRest
  <2>6. ~c.active => r.kind # "result" /\ NoRun(c, ag, toHost, toAgent)
    BY <1>3, <1>5, <1>10 DEF ClientIInv, InPlace, RunInPlace, NoRun, AtRest
  <2> QED
    BY <2>1, <2>2, <2>4, <2>5, <2>6
<1>11. r # Exit \/ ag.st # "gone" \/ r = Exit
  OBVIOUS
<1>12. Taken(c, r, toHost)
  <2>1. OnlyOwn(c, ag, toHost, toAgent)
    BY <1>3, <1>6 DEF ClientIInv, InPlace, OnlyOwn
  <2>2. c.req # NoWire /\ c.req \notin c.late /\ r.kind = "result"
          => r.of \in {c.req, LostRun}
    BY <1>3, <1>6 DEF ClientIInv, InPlace, OnlyOwn
  <2>3. /\ c.gone => ~c.active
        /\ ag.st = "gone" => \/ c.gone \/ c.exited \/ \E i \in 1..Len(toHost) : toHost[i] = Exit
    BY <1>3 DEF ClientIInv, InPlace, ExitComes
  <2>4. ag.st = "up" => /\ ~c.gone /\ ~c.exited /\ c.deferred = NoWire
                        /\ \A i \in 1..Len(toHost) : toHost[i].kind # "exit"
                        /\ c.active <=> c.req # NoWire
                        /\ ~c.active => c.wire = NoWire
    BY <1>3 DEF ClientIInv, InPlace, RunInPlace
  <2> QED
    BY <1>10, <2>1, <2>2, <2>3, <2>4 DEF Taken
<1>13. /\ cl' \in Client /\ toAgent' \in Seq(Order) /\ told' \in [Turns -> Int]
      /\ InPlace(cl', ag, toHost, toAgent') /\ OwnAnswer'
  BY <1>1, <1>2, <1>3, <1>9, <1>12, ClientFacts, TakeKeeps DEF ClientIInv, r
<1> QED
  BY <1>1, <1>13 DEF ClientIInv, ClientTyped

LEMMA PollRecordKeeps == ASSUME ClientIInv, PollRecord PROVE ClientIInv'
<1> DEFINE h == Tail(toHost)
           r == Head(toHost)
<1>1. /\ ~cl.exited /\ cl.call = Quiet /\ TakeRecord(cl, r) /\ toHost # <<>>
      /\ toHost' = h /\ cl.queued = <<>>
      /\ UNCHANGED <<ag, done>>
  BY DEF PollRecord
<1>2. h \in Seq(Record) /\ r \in Record
  BY <1>1, ClientFacts, Shrunk DEF ClientIInv
<1>4. /\ \A i \in 1..Len(h) : i + 1 \in 1..Len(toHost) /\ h[i] = toHost[i + 1]
      /\ 1 \in 1..Len(toHost) /\ r = toHost[1]
  <2>1. /\ Len(h) = Len(toHost) - 1 /\ Len(toHost) >= 1
        /\ Len(toHost) \in Nat /\ r = toHost[1]
        /\ \A i \in 1..(Len(toHost) - 1) : h[i] = toHost[i + 1]
    BY <1>1, ClientFacts, Shrunk DEF ClientIInv
  <2> QED
    BY <2>1
<1>3. \A i \in 1..Len(toHost) : i # 1 => \E j \in 1..Len(h) : h[j] = toHost[i]
  <2>1. Len(h) = Len(toHost) - 1 /\ Len(toHost) \in Nat
    BY <1>1, ClientFacts, Shrunk DEF ClientIInv
  <2> TAKE i \in 1..Len(toHost)
  <2> HAVE i # 1
  <2>2. i - 1 \in 1..Len(h) /\ (i - 1) + 1 = i
    BY <2>1
  <2> QED
    BY <1>4, <2>2
<1>5. \A w : /\ NoEnd(toHost, w) => NoEnd(h, w) /\ ~EndsRun(r, w)
             /\ OneEnd(toHost, w) /\ EndsRun(r, w) => NoEnd(h, w)
             /\ OneEnd(toHost, w) /\ ~EndsRun(r, w) => OneEnd(h, w)
             /\ NoResult(toHost) => NoResult(h) /\ r.kind # "result"
  BY <1>1, ClientFacts, EndsShrunk DEF ClientIInv
<1>6. \A n : ResultsOf(toHost, n) => /\ ResultsOf(h, n)
                                     /\ r.kind = "result" => r.of \in {n, LostRun}
  BY <1>1, ClientFacts, OwnShrunk DEF ClientIInv
<1>7. NoEnd(cl.queued, cl.wire) => NoResult(cl.queued)
  BY ClientFacts, EndsFacts DEF ClientIInv
<1>8. NoEnd(h, cl.wire) => NoResult(h)
  BY <1>2, EndsFacts
<1> HIDE DEF h, r
<1>9. Numbered(cl, ag, h, toAgent)
  BY <1>4 DEF ClientIInv, InPlace, Numbered
<1>10. ASSUME ag.st = "up"
       PROVE  /\ \A i \in 1..Len(h) : h[i].kind # "exit"
              /\ r.kind # "exit"
              /\ cl.active /\ EndsRun(r, cl.wire) => NoRun(cl, ag, h, toAgent)
              /\ cl.active /\ ~EndsRun(r, cl.wire) => OneRun(cl, ag, h, toAgent)
              /\ ~cl.active => r.kind # "result" /\ NoRun(cl, ag, h, toAgent)
  <2>1. /\ \A i \in 1..Len(h) : h[i].kind # "exit"
        /\ r.kind # "exit"
    BY <1>4, <1>10 DEF ClientIInv, InPlace, RunInPlace
  <2>3. cl.active => OneRun(cl, ag, toHost, toAgent)
    BY <1>10 DEF ClientIInv, InPlace, RunInPlace
  <2>4. cl.active /\ EndsRun(r, cl.wire) => NoRun(cl, ag, h, toAgent)
    <3>1. ~OneEnd(cl.queued, cl.wire)
      BY <1>1 DEF OneEnd
    <3> QED
      BY <1>5, <1>7, <1>8, <2>3, <3>1 DEF OneRun, NoRun, AtRest
  <2>5. cl.active /\ ~EndsRun(r, cl.wire) => OneRun(cl, ag, h, toAgent)
    BY <1>5, <2>3 DEF OneRun, AtRest
  <2>6. ~cl.active => r.kind # "result" /\ NoRun(cl, ag, h, toAgent)
    BY <1>5, <1>10 DEF ClientIInv, InPlace, RunInPlace, NoRun, AtRest
  <2> QED
    BY <2>1, <2>4, <2>5, <2>6
<1>12. Taken(cl, r, h)
  <2>1. OnlyOwn(cl, ag, h, toAgent)
    BY <1>6 DEF ClientIInv, InPlace, OnlyOwn
  <2>2. cl.req # NoWire /\ cl.req \notin cl.late /\ r.kind = "result"
          => r.of \in {cl.req, LostRun}
    BY <1>6 DEF ClientIInv, InPlace, OnlyOwn
  <2>3. /\ cl.gone => ~cl.active
        /\ ag.st = "gone" => \/ cl.gone \/ cl.exited \/ r = Exit
                             \/ \E i \in 1..Len(h) : h[i] = Exit
    BY <1>3, <1>4 DEF ClientIInv, InPlace, ExitComes
  <2>4. ag.st = "up" => /\ ~cl.gone /\ ~cl.exited /\ cl.deferred = NoWire
                        /\ \A i \in 1..Len(cl.queued) : cl.queued[i].kind # "exit"
                        /\ cl.active <=> cl.req # NoWire
                        /\ cl.active => OwnId(cl, ag, toAgent)
                        /\ ~cl.active => cl.wire = NoWire
    BY DEF ClientIInv, InPlace, RunInPlace
  <2> QED
    BY <1>10, <2>1, <2>2, <2>3, <2>4 DEF Taken
<1>13. /\ cl' \in Client /\ toAgent' \in Seq(Order) /\ told' \in [Turns -> Int]
      /\ InPlace(cl', ag, h, toAgent') /\ OwnAnswer'
  BY <1>1, <1>2, <1>9, <1>12, ClientFacts, TakeKeeps DEF ClientIInv, r
<1> QED
  BY <1>1, <1>2, <1>13 DEF ClientIInv, ClientTyped

LEMMA PollDeferredKeeps == ASSUME ClientIInv, PollDeferred PROVE ClientIInv'
<1> DEFINE c == [cl EXCEPT !.deferred = NoWire]
<1>1. /\ ~cl.exited /\ cl.call = Quiet /\ cl.deferred # NoWire
      /\ FinishRun(c) /\ Tell(cl.deferred) /\ UNCHANGED <<toHost, ag, done>>
  BY DEF PollDeferred
<1>2. /\ c \in Client /\ c.active = cl.active /\ c.wire = cl.wire /\ c.req = cl.req
      /\ c.late = cl.late /\ c.wires = cl.wires /\ c.next = cl.next
      /\ c.queued = cl.queued /\ c.gone = cl.gone /\ c.exited = cl.exited
      /\ c.call = cl.call
  <2>1. cl \in Client
    BY ClientFacts DEF ClientIInv
  <2>2. \A d \in Client : [d EXCEPT !.deferred = 0] \in Client
    BY SMTT(30) DEF Client
  <2> QED
    BY <2>1, <2>2 DEF Client, NoWire
<1> HIDE DEF c
<1>3. ag.st # "up"
  BY <1>1 DEF ClientIInv, InPlace, RunInPlace
<1>4. Numbered(c, ag, toHost, toAgent)
  BY <1>2 DEF ClientIInv, InPlace, Numbered
<1>5. Finished(c, toHost)
  BY <1>2, <1>3 DEF ClientIInv, InPlace, ExitComes, Finished
<1>6. /\ cl' \in Client /\ toAgent' \in Seq(Order) /\ cl'.late = c.late
      /\ InPlace(cl', ag, toHost, toAgent')
  BY <1>1, <1>2, <1>4, <1>5, ClientFacts, FinishKeeps DEF ClientIInv
<1>7. cl.req # NoWire /\ cl.req \notin cl.late => cl.deferred \in {Refusal, LostRun, cl.req}
  BY <1>1 DEF ClientIInv, InPlace, OnlyOwn
<1>8. told' \in [Turns -> Int] /\ OwnAnswer'
  BY <1>1, <1>2, <1>6, <1>7, ClientFacts, TellKeeps DEF ClientIInv
<1> QED
  BY <1>1, <1>6, <1>8 DEF ClientIInv, ClientTyped

(* A command other than a prompt is sent, under a new id. *)
LEMMA AskKeeps ==
    ASSUME ClientIInv, NEW type \in {"abort", "set"},
           toAgent' = Append(toAgent, Command(type, cl.wires, NoWire)),
           cl' \in Client, cl'.active = cl.active, cl'.wire = cl.wire,
           cl'.wires = cl.wires + 1, cl'.req = cl.req, cl'.next = cl.next,
           cl'.queued = cl.queued, cl'.exited = cl.exited,
           cl'.deferred = cl.deferred, cl'.gone = cl.gone, cl'.late = cl.late,
           cl'.call.id \in {cl.call.id, cl.wires},
           UNCHANGED <<toHost, ag, told>>, done' \in Nat
    PROVE  ClientIInv'
<1> DEFINE m == Command(type, cl.wires, NoWire)
<1>1. m \in Order /\ m.id = cl.wires /\ m.type = type /\ m.type # "prompt"
  BY ClientFacts DEF ClientIInv, Command, Order, NoWire
<1>2. /\ toAgent' \in Seq(Order) /\ Len(toAgent') = Len(toAgent) + 1
      /\ \A i \in 1..Len(toAgent) : toAgent'[i] = toAgent[i]
      /\ toAgent'[Len(toAgent) + 1] = m /\ Len(toAgent) \in Nat
  <2>1. toAgent \in Seq(Order) /\ toAgent' = Append(toAgent, m)
    BY ClientFacts DEF ClientIInv
  <2> HIDE DEF m
  <2> QED
    BY <1>1, <2>1, Grown
<1>3. /\ NoPrompt(toAgent) => NoPrompt(toAgent')
      /\ \A w, n : OnePrompt(toAgent, w, n) => OnePrompt(toAgent', w, n)
  BY <1>1, ClientFacts, PromptsGrown DEF ClientIInv
<1> HIDE DEF m
<1>4. Numbered(cl', ag', toHost', toAgent')
  <2>1. Below(toAgent, cl.wires) /\ Below(cl.queued, cl.wires) /\ Below(toHost, cl.wires)
    BY DEF ClientIInv, InPlace, Numbered, Below
  <2>2. Below(toAgent, cl.wires + 1) /\ Below(cl.queued, cl.wires + 1)
        /\ Below(toHost, cl.wires + 1)
    BY <2>1, BelowMore, ClientFacts DEF ClientIInv
  <2> DEFINE n == cl.wires
  <2>8. /\ n \in Nat /\ cl.wire \in Nat /\ cl.call.id \in Nat /\ ag.aborts \in Seq(Nat)
        /\ ag.owed \in SUBSET Order
    BY ClientFacts DEF ClientIInv
  <2>9. /\ \A i \in 1..Len(ag.aborts) : ag.aborts[i] < n
        /\ \A x \in ag.owed : x.id < n
        /\ cl.wire < n /\ cl.call.id < n
    BY DEF ClientIInv, InPlace, Numbered
  <2> HIDE DEF n
  <2>3. \A i \in 1..Len(ag.aborts) : ag.aborts[i] < n + 1
    <3>1. \A i \in 1..Len(ag.aborts) : ag.aborts[i] \in Nat
      BY <2>8
    <3> QED
      BY <2>8, <2>9, <3>1
  <2>4. \A x \in ag.owed : x.id < n + 1
    BY <2>8, <2>9 DEF Order
  <2>5. cl.wire < n + 1 /\ cl.call.id < n + 1 /\ n < n + 1
    BY <2>8, <2>9
  <2>6. \A i \in 1..Len(toAgent') : toAgent'[i].id < cl.wires + 1
    BY <1>1, <1>2, <2>2, <2>5 DEF Below, n
  <2>7. cl.req < cl.next /\ \A r \in cl.late : r < cl.next
    BY DEF ClientIInv, InPlace, Numbered
  <2> QED
    BY <2>2, <2>3, <2>4, <2>5, <2>6, <2>7 DEF Numbered, Below, n
<1>5. RunInPlace(cl', ag', toHost', toAgent')
  <2> SUFFICES ASSUME ag.st = "up" PROVE RunInPlace(cl', ag', toHost', toAgent')
    BY DEF RunInPlace
  <2>1. cl.active => OwnId(cl', ag', toAgent')
    <3>1. cl.wire # cl.wires
      BY ClientFacts DEF ClientIInv, InPlace, Numbered
    <3> QED
      BY <1>1, <1>2, <3>1 DEF ClientIInv, InPlace, RunInPlace, OwnId
  <2>2. cl.active => OneRun(cl', ag', toHost', toAgent')
    BY <1>3 DEF ClientIInv, InPlace, RunInPlace, OneRun, AtRest
  <2>3. ~cl.active => NoRun(cl', ag', toHost', toAgent')
    BY <1>3 DEF ClientIInv, InPlace, RunInPlace, NoRun, AtRest
  <2> QED
    BY <2>1, <2>2, <2>3 DEF ClientIInv, InPlace, RunInPlace
<1>6. OnlyOwn(cl', ag', toHost', toAgent')
  BY <1>1, <1>2 DEF ClientIInv, InPlace, OnlyOwn
<1>7. ExitComes(cl', ag', toHost')
  BY DEF ClientIInv, InPlace, ExitComes
<1>8. OwnAnswer'
  BY DEF ClientIInv, OwnAnswer
<1> QED
  BY <1>2, <1>4, <1>5, <1>6, <1>7, <1>8 DEF ClientIInv, ClientTyped, InPlace

LEMMA CancelRunKeeps == ASSUME ClientIInv, CancelRun PROVE ClientIInv'
<1>1. /\ toAgent' = Append(toAgent, Command("abort", cl.wires, NoWire))
      /\ cl' = [cl EXCEPT !.wires = @ + 1] /\ done' = done + 1
      /\ UNCHANGED <<toHost, ag, told>>
  BY DEF CancelRun
<1>2. cl \in Client /\ cl.wires + 1 \in Nat \ {0} /\ done' \in Nat
  <2>1. cl \in Client /\ cl.wires \in Nat /\ cl.wires > 0 /\ done \in Nat
    BY ClientFacts DEF ClientIInv
  <2> QED
    BY <1>1, <2>1
<1>3. /\ cl' \in Client /\ cl'.active = cl.active /\ cl'.wire = cl.wire
      /\ cl'.wires = cl.wires + 1 /\ cl'.req = cl.req /\ cl'.next = cl.next
      /\ cl'.queued = cl.queued /\ cl'.exited = cl.exited
      /\ cl'.deferred = cl.deferred /\ cl'.gone = cl.gone /\ cl'.late = cl.late
      /\ cl'.call = cl.call
  BY <1>1, <1>2 DEF Client
<1> QED
  BY <1>1, <1>2, <1>3, AskKeeps

LEMMA ConfigureKeeps == ASSUME ClientIInv, Configure PROVE ClientIInv'
<1>1. /\ toAgent' = Append(toAgent, Command("set", cl.wires, NoWire))
      /\ cl' = [cl EXCEPT !.call = [id |-> cl.wires, finish |-> <<>>],
                          !.wires = @ + 1] /\ done' = done + 1
      /\ UNCHANGED <<toHost, ag, told>>
  BY DEF Configure
<1>2. /\ cl \in Client /\ cl.wires + 1 \in Nat \ {0} /\ done' \in Nat
      /\ [id |-> cl.wires, finish |-> <<>>] \in Call
  <2>1. cl \in Client /\ cl.wires \in Nat /\ cl.wires > 0 /\ done \in Nat
    BY ClientFacts DEF ClientIInv
  <2>2. [id |-> cl.wires, finish |-> <<>>] \in Call
    BY <2>1 DEF Call
  <2> QED
    BY <1>1, <2>1, <2>2
<1>3. /\ cl' \in Client /\ cl'.active = cl.active /\ cl'.wire = cl.wire
      /\ cl'.wires = cl.wires + 1 /\ cl'.req = cl.req /\ cl'.next = cl.next
      /\ cl'.queued = cl.queued /\ cl'.exited = cl.exited
      /\ cl'.deferred = cl.deferred /\ cl'.gone = cl.gone /\ cl'.late = cl.late
      /\ cl'.call.id = cl.wires
  BY <1>1, <1>2 DEF Client
<1> QED
  BY <1>1, <1>2, <1>3, AskKeeps

LEMMA EndedFields ==
    ASSUME NEW c \in Client
    PROVE  LET d == Ended(c)
           IN  /\ d \in Client /\ d.active = c.active /\ d.wire = c.wire
               /\ d.wires = c.wires /\ d.req = c.req /\ d.next = c.next
               /\ d.queued = c.queued /\ d.exited = c.exited
               /\ d.deferred = c.deferred /\ d.gone = c.gone /\ d.late = c.late
               /\ d.call.id = 0
<1>1. Quiet \in Call /\ Quiet.id = 0 /\ 0 \in 0..MaxTurns
  BY ClientAssumption DEF Quiet, Call, NoWire
<1> QED
  BY <1>1 DEF Ended, Client, NoWire

(* The client stops waiting for an answer, having lost a record that ends  *)
(* no run or none.                                                         *)
LEMMA ReturnKeeps ==
    ASSUME ClientIInv, NEW h \in Seq(Record), toHost' = h,
           cl' \in Client, cl'.active = cl.active, cl'.wire = cl.wire,
           cl'.wires = cl.wires, cl'.req = cl.req, cl'.next = cl.next,
           cl'.queued = cl.queued, cl'.deferred = cl.deferred, cl'.gone = cl.gone,
           cl'.late = cl.late, cl'.call.id = 0,
           cl'.exited = cl.exited \/ cl'.exited = TRUE,
           ag.st = "up" => cl'.exited = cl.exited,
           Below(h, cl.wires),
           \A i \in 1..Len(h) : \E j \in 1..Len(toHost) : h[i] = toHost[j],
           ag.st = "up" /\ cl.active =>
                           /\ NoEnd(toHost, cl.wire) => NoEnd(h, cl.wire)
                           /\ OneEnd(toHost, cl.wire) => OneEnd(h, cl.wire),
           \A i \in 1..Len(toHost) : toHost[i] = Exit =>
               cl'.exited \/ \E j \in 1..Len(h) : h[j] = Exit,
           UNCHANGED <<toAgent, ag, told, done>>
    PROVE  ClientIInv'
<1>1. Numbered(cl', ag', toHost', toAgent')
  BY ClientFacts DEF ClientIInv, InPlace, Numbered, Below
<1>2. RunInPlace(cl', ag', toHost', toAgent')
  <2> SUFFICES ASSUME ag.st = "up" PROVE RunInPlace(cl', ag', toHost', toAgent')
    BY DEF RunInPlace
  <2>1. cl.active => OwnId(cl', ag', toAgent')
    BY DEF ClientIInv, InPlace, RunInPlace, OwnId, NoWire
  <2>2. cl.active => OneRun(cl', ag', toHost', toAgent')
    BY DEF ClientIInv, InPlace, RunInPlace, OneRun, AtRest
  <2>3. ~cl.active => NoRun(cl', ag', toHost', toAgent')
    BY DEF ClientIInv, InPlace, RunInPlace, NoRun, AtRest, NoResult
  <2>4. \A i \in 1..Len(h) : h[i].kind # "exit"
    BY DEF ClientIInv, InPlace, RunInPlace
  <2> QED
    BY <2>1, <2>2, <2>3, <2>4 DEF ClientIInv, InPlace, RunInPlace
<1>3. OnlyOwn(cl', ag', toHost', toAgent')
  BY DEF ClientIInv, InPlace, OnlyOwn, ResultsOf
<1>4. ExitComes(cl', ag', toHost')
  BY DEF ClientIInv, InPlace, ExitComes
<1>5. OwnAnswer'
  BY DEF ClientIInv, OwnAnswer
<1> QED
  BY <1>1, <1>2, <1>3, <1>4, <1>5 DEF ClientIInv, ClientTyped, InPlace

LEMMA RequestTimesOutKeeps == ASSUME ClientIInv, RequestTimesOut PROVE ClientIInv'
<1>1. cl' = Ended(cl) /\ UNCHANGED <<toAgent, toHost, ag, told, done>>
  BY DEF RequestTimesOut
<1>2. Below(toHost, cl.wires)
  BY DEF ClientIInv, InPlace, Numbered, Below
<1>3. cl \in Client /\ toHost \in Seq(Record)
  BY ClientFacts DEF ClientIInv
<1>4. /\ cl' \in Client /\ cl'.active = cl.active /\ cl'.wire = cl.wire
      /\ cl'.wires = cl.wires /\ cl'.req = cl.req /\ cl'.next = cl.next
      /\ cl'.queued = cl.queued /\ cl'.exited = cl.exited
      /\ cl'.deferred = cl.deferred /\ cl'.gone = cl.gone /\ cl'.late = cl.late
      /\ cl'.call.id = 0
  BY <1>1, <1>3, EndedFields
<1> QED
  BY <1>1, <1>2, <1>3, <1>4, ReturnKeeps

(* The record that a request has met is kept for later. *)
LEMMA SkimKeeps ==
    ASSUME ClientIInv, toHost # <<>>, Head(toHost).kind # "exit",
           cl' = Skim(cl, Head(toHost)), toHost' = Tail(toHost),
           UNCHANGED <<toAgent, ag, told, done>>
    PROVE  ClientIInv'
<1> DEFINE h == Tail(toHost)
           r == Head(toHost)
           q == Append(cl.queued, r)
<1>1. /\ h \in Seq(Record) /\ r \in Record /\ r = toHost[1] /\ 1 \in 1..Len(toHost)
      /\ \A i \in 1..Len(h) : i + 1 \in 1..Len(toHost) /\ h[i] = toHost[i + 1]
      /\ Len(h) = Len(toHost) - 1 /\ Len(toHost) \in Nat
  <2>1. /\ Len(h) = Len(toHost) - 1 /\ Len(toHost) >= 1 /\ h \in Seq(Record)
        /\ Len(toHost) \in Nat /\ r = toHost[1] /\ r \in Record
        /\ \A i \in 1..(Len(toHost) - 1) : h[i] = toHost[i + 1]
    BY ClientFacts, Shrunk DEF ClientIInv
  <2> QED
    BY <2>1
<1>2. /\ q \in Seq(Record) /\ Len(q) = Len(cl.queued) + 1 /\ Len(cl.queued) \in Nat
      /\ \A i \in 1..Len(cl.queued) : q[i] = cl.queued[i]
      /\ q[Len(cl.queued) + 1] = r
  <2>1. cl.queued \in Seq(Record)
    BY ClientFacts DEF ClientIInv
  <2> HIDE DEF r
  <2> QED
    BY <1>1, <2>1, Grown
<1>3. \A w : /\ NoEnd(toHost, w) => NoEnd(h, w) /\ ~EndsRun(r, w)
             /\ OneEnd(toHost, w) /\ EndsRun(r, w) => NoEnd(h, w)
             /\ OneEnd(toHost, w) /\ ~EndsRun(r, w) => OneEnd(h, w)
             /\ NoResult(toHost) => NoResult(h) /\ r.kind # "result"
  BY ClientFacts, EndsShrunk DEF ClientIInv
<1>4. \A w : /\ NoEnd(cl.queued, w) /\ ~EndsRun(r, w) => NoEnd(q, w)
             /\ NoEnd(cl.queued, w) /\ EndsRun(r, w) => OneEnd(q, w)
             /\ OneEnd(cl.queued, w) /\ ~EndsRun(r, w) => OneEnd(q, w)
             /\ NoResult(cl.queued) /\ r.kind # "result" => NoResult(q)
  BY <1>1, ClientFacts, EndsGrown DEF ClientIInv
<1>5. \A n : ResultsOf(toHost, n) => /\ ResultsOf(h, n)
                                     /\ ResultsOf(cl.queued, n) => ResultsOf(q, n)
  <2> TAKE n
  <2> HAVE ResultsOf(toHost, n)
  <2>1. ResultsOf(h, n) /\ (r.kind = "result" => r.of \in {n, LostRun})
    BY ClientFacts, OwnShrunk DEF ClientIInv
  <2>2. cl.queued \in Seq(Record)
    BY ClientFacts DEF ClientIInv
  <2> QED
    BY <1>1, <2>1, <2>2, OwnGrown
<1>6. \A i \in 1..Len(toHost) : i # 1 => \E j \in 1..Len(h) : h[j] = toHost[i]
  <2> TAKE i \in 1..Len(toHost)
  <2> HAVE i # 1
  <2>2. i - 1 \in 1..Len(h) /\ (i - 1) + 1 = i
    BY <1>1
  <2> QED
    BY <1>1, <2>2
<1>7. /\ cl' \in Client /\ cl'.active = cl.active /\ cl'.wire = cl.wire
      /\ cl'.wires = cl.wires /\ cl'.req = cl.req /\ cl'.next = cl.next
      /\ cl'.queued = q /\ cl'.exited = cl.exited
      /\ cl'.deferred = cl.deferred /\ cl'.gone = cl.gone /\ cl'.late = cl.late
      /\ cl'.call = cl.call
  <2>1. cl' = [cl EXCEPT !.queued = q] /\ cl \in Client
    BY ClientFacts DEF ClientIInv, Skim
  <2> HIDE DEF q
  <2> QED
    BY <1>2, <2>1 DEF Client
<1>8. toHost' = h
  OBVIOUS
<1>9. r.kind # "exit" /\ r # Exit
  BY AnyRecord
<1> HIDE DEF h, r, q
<1>10. Numbered(cl', ag', toHost', toAgent')
  <2>1. \A i \in 1..Len(h) : h[i].id < cl.wires
    BY <1>1 DEF ClientIInv, InPlace, Numbered
  <2>2. \A i \in 1..Len(q) : q[i].id < cl.wires
    <3>1. \A i \in 1..Len(toHost) : toHost[i].id < cl.wires
      BY DEF ClientIInv, InPlace, Numbered
    <3>2. r.id < cl.wires
      BY <1>1, <3>1
    <3>3. \A i \in 1..Len(cl.queued) : cl.queued[i].id < cl.wires
      BY DEF ClientIInv, InPlace, Numbered
    <3> QED
      BY <1>2, <3>2, <3>3
  <2> QED
    BY <1>7, <1>8, <2>1, <2>2 DEF ClientIInv, InPlace, Numbered
<1>11. RunInPlace(cl', ag', toHost', toAgent')
  <2> SUFFICES ASSUME ag.st = "up" PROVE RunInPlace(cl', ag', toHost', toAgent')
    BY DEF RunInPlace
  <2>1. cl.active => OwnId(cl', ag', toAgent')
    BY <1>7 DEF ClientIInv, InPlace, RunInPlace, OwnId
  <2>2. cl.active => OneRun(cl', ag', toHost', toAgent')
    <3> HAVE cl.active
    <3>1. OneRun(cl, ag, toHost, toAgent)
      BY DEF ClientIInv, InPlace, RunInPlace
    <3>2. CASE NoEnd(cl.queued, cl.wire) /\ NoEnd(toHost, cl.wire)
      <4>1. NoEnd(q, cl.wire) /\ NoEnd(h, cl.wire)
        BY <1>3, <1>4, <3>2
      <4>2. ~OneEnd(cl.queued, cl.wire) /\ ~OneEnd(toHost, cl.wire)
        BY <3>2 DEF NoEnd, OneEnd
      <4> QED
        BY <1>7, <1>8, <3>1, <4>1, <4>2 DEF OneRun
    <3>3. CASE OneEnd(cl.queued, cl.wire) /\ NoEnd(toHost, cl.wire) /\ AtRest(ag, toAgent)
      <4>1. OneEnd(q, cl.wire) /\ NoEnd(h, cl.wire)
        BY <1>3, <1>4, <3>3
      <4> QED
        BY <1>7, <1>8, <3>3, <4>1 DEF OneRun
    <3>4. CASE NoEnd(cl.queued, cl.wire) /\ OneEnd(toHost, cl.wire) /\ AtRest(ag, toAgent)
      <4>1. \/ OneEnd(q, cl.wire) /\ NoEnd(h, cl.wire)
            \/ NoEnd(q, cl.wire) /\ OneEnd(h, cl.wire)
        BY <1>3, <1>4, <3>4
      <4> QED
        BY <1>7, <1>8, <3>4, <4>1 DEF OneRun
    <3> QED
      BY <3>1, <3>2, <3>3, <3>4 DEF OneRun
  <2>3. ~cl.active => NoRun(cl', ag', toHost', toAgent')
    BY <1>3, <1>4, <1>7, <1>8 DEF ClientIInv, InPlace, RunInPlace, NoRun, AtRest
  <2>4. \A i \in 1..Len(h) : h[i].kind # "exit"
    BY <1>1 DEF ClientIInv, InPlace, RunInPlace
  <2>5. \A i \in 1..Len(q) : q[i].kind # "exit"
    <3>1. \A i \in 1..Len(cl.queued) : cl.queued[i].kind # "exit"
      BY DEF ClientIInv, InPlace, RunInPlace
    <3> QED
      BY <1>2, <1>9, <3>1
  <2> QED
    BY <1>7, <1>8, <2>1, <2>2, <2>3, <2>4, <2>5 DEF ClientIInv, InPlace, RunInPlace
<1>12. OnlyOwn(cl', ag', toHost', toAgent')
  BY <1>5, <1>7, <1>8 DEF ClientIInv, InPlace, OnlyOwn
<1>13. ExitComes(cl', ag', toHost')
  <2>1. \A i \in 1..Len(toHost) : toHost[i] = Exit => \E j \in 1..Len(h) : h[j] = Exit
    BY <1>1, <1>6, <1>9
  <2> QED
    BY <1>7, <1>8, <2>1 DEF ClientIInv, InPlace, ExitComes
<1>14. OwnAnswer'
  BY <1>7 DEF ClientIInv, OwnAnswer
<1> QED
  BY <1>1, <1>7, <1>8, <1>10, <1>11, <1>12, <1>13, <1>14
     DEF ClientIInv, ClientTyped, InPlace

LEMMA ReadAheadKeeps == ASSUME ClientIInv, ReadAhead PROVE ClientIInv'
<1> DEFINE h == Tail(toHost)
           r == Head(toHost)
<1>1. /\ toHost # <<>> /\ toHost' = h /\ UNCHANGED <<toAgent, ag, told, done>>
      /\ cl \in Client
  BY ClientFacts DEF ReadAhead, ClientIInv
<1>2. /\ h \in Seq(Record) /\ r \in Record /\ r = toHost[1] /\ 1 \in 1..Len(toHost)
      /\ \A i \in 1..Len(h) : i + 1 \in 1..Len(toHost) /\ h[i] = toHost[i + 1]
      /\ Len(h) = Len(toHost) - 1 /\ Len(toHost) \in Nat
  <2>1. /\ Len(h) = Len(toHost) - 1 /\ Len(toHost) >= 1 /\ h \in Seq(Record)
        /\ Len(toHost) \in Nat /\ r = toHost[1] /\ r \in Record
        /\ \A i \in 1..(Len(toHost) - 1) : h[i] = toHost[i + 1]
    BY <1>1, ClientFacts, Shrunk DEF ClientIInv
  <2> QED
    BY <2>1
<1>3. /\ NoEnd(toHost, cl.wire) => NoEnd(h, cl.wire)
      /\ OneEnd(toHost, cl.wire) /\ ~EndsRun(r, cl.wire) => OneEnd(h, cl.wire)
  BY <1>1, ClientFacts, EndsShrunk DEF ClientIInv
<1>4. \A i \in 1..Len(toHost) : i # 1 => \E j \in 1..Len(h) : h[j] = toHost[i]
  <2> TAKE i \in 1..Len(toHost)
  <2> HAVE i # 1
  <2>2. i - 1 \in 1..Len(h) /\ (i - 1) + 1 = i
    BY <1>2
  <2> QED
    BY <1>2, <2>2
<1>5. Below(h, cl.wires)
  BY <1>2 DEF ClientIInv, InPlace, Numbered, Below
<1>6. \A i \in 1..Len(h) : \E j \in 1..Len(toHost) : h[i] = toHost[j]
  BY <1>2
<1>7. CASE r.kind = "exit"
  <2>1. cl' = [Ended(cl) EXCEPT !.exited = TRUE]
    BY <1>7 DEF ReadAhead
  <2> DEFINE d == Ended(cl)
  <2>2. /\ d \in Client /\ d.active = cl.active /\ d.wire = cl.wire
        /\ d.wires = cl.wires /\ d.req = cl.req /\ d.next = cl.next
        /\ d.queued = cl.queued /\ d.exited = cl.exited
        /\ d.deferred = cl.deferred /\ d.gone = cl.gone /\ d.late = cl.late
        /\ d.call.id = 0
    BY <1>1, EndedFields
  <2> HIDE DEF d
  <2>3. /\ cl' \in Client /\ cl'.active = cl.active /\ cl'.wire = cl.wire
        /\ cl'.wires = cl.wires /\ cl'.req = cl.req /\ cl'.next = cl.next
        /\ cl'.queued = cl.queued /\ cl'.exited = TRUE
        /\ cl'.deferred = cl.deferred /\ cl'.gone = cl.gone /\ cl'.late = cl.late
        /\ cl'.call.id = 0
    <3>1. cl' = [d EXCEPT !.exited = TRUE]
      BY <2>1 DEF d
    <3> QED
      BY <2>2, <3>1 DEF Client
  <2>4. ag.st # "up"
    BY <1>2, <1>7 DEF ClientIInv, InPlace, RunInPlace
  <2> HIDE DEF h, r
  <2> QED
    BY <1>1, <1>2, <1>5, <1>6, <2>3, <2>4, ReturnKeeps
<1>8. CASE r.kind = "noise" \/ (r.kind = "response" /\ r.id = cl.call.id)
  <2>1. cl' = Ended(cl)
    BY <1>8 DEF ReadAhead
  <2>2. /\ cl' \in Client /\ cl'.active = cl.active /\ cl'.wire = cl.wire
        /\ cl'.wires = cl.wires /\ cl'.req = cl.req /\ cl'.next = cl.next
        /\ cl'.queued = cl.queued /\ cl'.exited = cl.exited
        /\ cl'.deferred = cl.deferred /\ cl'.gone = cl.gone /\ cl'.late = cl.late
        /\ cl'.call.id = 0
    BY <1>1, <2>1, EndedFields
  <2>3. ag.st = "up" /\ cl.active => ~EndsRun(r, cl.wire)
    BY <1>8 DEF ClientIInv, InPlace, RunInPlace, OwnId, EndsRun
  <2>5. r # Exit
    BY <1>8, AnyRecord
  <2> HIDE DEF h, r
  <2>6. \A i \in 1..Len(toHost) : toHost[i] = Exit => \E j \in 1..Len(h) : h[j] = Exit
    BY <1>2, <1>4, <2>5
  <2> QED
    BY <1>1, <1>2, <1>3, <1>5, <1>6, <2>2, <2>3, <2>6, ReturnKeeps
<1>9. CASE ~(r.kind = "exit") /\ ~(r.kind = "noise" \/ (r.kind = "response" /\ r.id = cl.call.id))
  <2>1. cl' = Skim(cl, r)
    BY <1>9 DEF ReadAhead
  <2> QED
    BY <1>1, <1>9, <2>1, SkimKeeps
<1> QED
  BY <1>7, <1>8, <1>9

LEMMA BeginPromptKeeps == ASSUME ClientIInv, BeginPrompt PROVE ClientIInv'
<1> DEFINE m == Command("prompt", cl.wires, cl.next)
           late == IF ag.st = "closing" THEN cl.late \cup {cl.next} ELSE cl.late
<1>1. /\ cl.call = Quiet /\ ~cl.active /\ ~cl.gone /\ cl.next <= MaxTurns
      /\ ag.st # "gone" /\ toAgent' = Append(toAgent, m)
      /\ cl' = [cl EXCEPT !.active = TRUE, !.wire = cl.wires, !.wires = @ + 1,
                          !.req = cl.next, !.awaits = cl.next, !.next = @ + 1,
                          !.late = late]
      /\ UNCHANGED <<toHost, ag, told, done>>
  BY DEF BeginPrompt
<1>2. /\ m \in Order /\ m.id = cl.wires /\ m.type = "prompt" /\ m.of = cl.next
      /\ cl.next \in 0..MaxTurns /\ cl.next + 1 \in Nat \ {0}
      /\ cl.wires + 1 \in Nat \ {0} /\ late \in SUBSET Nat
  <2>1. /\ cl.wires \in Nat /\ cl.next \in Nat /\ MaxTurns \in Nat
        /\ cl.next > 0 /\ cl.late \in SUBSET Nat
    BY ClientFacts DEF ClientIInv, Client
  <2> QED
    BY <1>1, <2>1 DEF Command, Order
<1> HIDE DEF late
<1>3. /\ cl' \in Client /\ cl'.active = TRUE /\ cl'.wire = cl.wires
      /\ cl'.wires = cl.wires + 1 /\ cl'.req = cl.next /\ cl'.next = cl.next + 1
      /\ cl'.queued = cl.queued /\ cl'.exited = cl.exited
      /\ cl'.deferred = cl.deferred /\ cl'.gone = cl.gone /\ cl'.late = late
      /\ cl'.call = Quiet
  <2>1. cl \in Client /\ cl.wires \in Nat
    BY ClientFacts DEF ClientIInv
  <2> QED
    BY <1>1, <1>2, <2>1 DEF Client
<1>4. /\ toAgent' \in Seq(Order) /\ Len(toAgent') = Len(toAgent) + 1
      /\ \A i \in 1..Len(toAgent) : toAgent'[i] = toAgent[i]
      /\ toAgent'[Len(toAgent) + 1] = m /\ Len(toAgent) \in Nat
  <2>1. toAgent \in Seq(Order)
    BY ClientFacts DEF ClientIInv
  <2> HIDE DEF m
  <2> QED
    BY <1>1, <1>2, <2>1, Grown
<1>5. NoPrompt(toAgent) => OnePrompt(toAgent', cl.wires, cl.next)
  BY <1>1, <1>2, ClientFacts, PromptsGrown DEF ClientIInv
<1> DEFINE n == cl.wires
<1>6. /\ n \in Nat /\ n > 0 /\ cl.next \in Nat /\ cl.next > 0
      /\ cl.late \in SUBSET Nat
  BY ClientFacts DEF ClientIInv, Client
<1>7. /\ \A i \in 1..Len(toAgent) : toAgent[i].id \in Nat /\ toAgent[i].id < n
      /\ \A i \in 1..Len(ag.aborts) : ag.aborts[i] \in Nat /\ ag.aborts[i] < n
      /\ \A x \in ag.owed : x.id \in Nat /\ x.id < n
      /\ \A i \in 1..Len(cl.queued) : cl.queued[i].id \in Nat /\ cl.queued[i].id < n
      /\ \A i \in 1..Len(toHost) : toHost[i].id \in Nat /\ toHost[i].id < n
      /\ \A x \in cl.late : x < cl.next
  <2>1. /\ toAgent \in Seq(Order) /\ toHost \in Seq(Record) /\ cl.queued \in Seq(Record)
        /\ ag.aborts \in Seq(Nat) /\ ag.owed \in SUBSET Order
    BY ClientFacts DEF ClientIInv
  <2>2. /\ \A i \in 1..Len(toAgent) : toAgent[i] \in Order
        /\ \A i \in 1..Len(ag.aborts) : ag.aborts[i] \in Nat
        /\ \A x \in ag.owed : x \in Order
        /\ \A i \in 1..Len(cl.queued) : cl.queued[i] \in Record
        /\ \A i \in 1..Len(toHost) : toHost[i] \in Record
    BY <2>1
  <2>3. /\ \A x \in Order : x.id \in Nat
        /\ \A x \in Record : x.id \in Nat
    BY DEF Order, Record
  <2> QED
    BY <2>2, <2>3 DEF ClientIInv, InPlace, Numbered
<1> HIDE DEF m, n
<1>8. Numbered(cl', ag', toHost', toAgent')
  <2>1. \A i \in 1..Len(toAgent') : toAgent'[i].id < n + 1
    BY <1>2, <1>4, <1>6, <1>7 DEF n
  <2>2. /\ \A i \in 1..Len(ag.aborts) : ag.aborts[i] < n + 1
        /\ \A x \in ag.owed : x.id < n + 1
        /\ \A i \in 1..Len(cl.queued) : cl.queued[i].id < n + 1
        /\ \A i \in 1..Len(toHost) : toHost[i].id < n + 1
    BY <1>6, <1>7
  <2>3. \A x \in late : x < cl.next + 1
    BY <1>6, <1>7 DEF late
  <2>4. n < n + 1 /\ 0 < n + 1 /\ cl.next < cl.next + 1
    BY <1>6
  <2> QED
    BY <1>1, <1>3, <2>1, <2>2, <2>3, <2>4 DEF Numbered, Quiet, NoWire, n
<1>9. ag.st = "up" => NoRun(cl, ag, toHost, toAgent)
  BY <1>1 DEF ClientIInv, InPlace, RunInPlace
<1>10. RunInPlace(cl', ag', toHost', toAgent')
  <2> SUFFICES ASSUME ag.st = "up" PROVE RunInPlace(cl', ag', toHost', toAgent')
    BY <1>1 DEF RunInPlace
  <2>1. OwnId(cl', ag', toAgent')
    <3>1. \A i \in 1..Len(toAgent') : toAgent'[i].type = "prompt" \/ toAgent'[i].id # n
      BY <1>2, <1>4, <1>7
    <3>2. /\ \A i \in 1..Len(ag.aborts) : ag.aborts[i] # n
          /\ \A x \in ag.owed : x.id # n
      BY <1>6, <1>7
    <3>3. n # 0
      BY <1>6
    <3> QED
      BY <1>1, <1>3, <3>1, <3>2, <3>3 DEF OwnId, Quiet, NoWire, n
  <2>2. NoEnd(cl.queued, n) /\ NoEnd(toHost, n)
    <3>1. /\ \A i \in 1..Len(cl.queued) : cl.queued[i].id # n
          /\ \A i \in 1..Len(toHost) : toHost[i].id # n
      BY <1>6, <1>7
    <3> QED
      BY <1>9, <3>1, EndsFacts, ClientFacts DEF ClientIInv, NoRun
  <2>3. OneRun(cl', ag', toHost', toAgent')
    BY <1>1, <1>3, <1>5, <1>9, <2>2 DEF OneRun, NoRun, AtRest, n
  <2>4. cl.next # NoWire
    BY <1>6 DEF NoWire
  <2> QED
    BY <1>1, <1>3, <2>1, <2>3, <2>4 DEF ClientIInv, InPlace, RunInPlace
<1>11. OnlyOwn(cl', ag', toHost', toAgent')
  <2> SUFFICES ASSUME cl.next \notin late PROVE OnlyOwn(cl', ag', toHost', toAgent')
    BY <1>3 DEF OnlyOwn
  <2>1. ag.st = "up"
    BY <1>1, ClientFacts DEF late, ClientIInv, Sidecar
  <2>2. ResultsOf(cl.queued, cl.next) /\ ResultsOf(toHost, cl.next)
    BY <1>9, <2>1 DEF NoRun, NoResult, ResultsOf
  <2>3. \A i \in 1..Len(ag.work) : ag.work[i] = cl.next
    BY <1>9, <2>1 DEF NoRun, AtRest
  <2>4. \A i \in 1..Len(toAgent') : toAgent'[i].type = "prompt" => toAgent'[i].of = cl.next
    BY <1>2, <1>4, <1>9, <2>1 DEF NoRun, AtRest, NoPrompt
  <2>5. cl.deferred = NoWire
    BY <2>1 DEF ClientIInv, InPlace, RunInPlace
  <2> QED
    BY <1>1, <1>3, <2>2, <2>3, <2>4, <2>5 DEF OnlyOwn
<1>12. ExitComes(cl', ag', toHost')
  BY <1>1, <1>3 DEF ExitComes
<1>13. OwnAnswer'
  BY <1>1, <1>3 DEF ClientIInv, OwnAnswer, late
<1> QED
  BY <1>1, <1>3, <1>4, <1>8, <1>10, <1>11, <1>12, <1>13
     DEF ClientIInv, ClientTyped, InPlace

-----------------------------------------------------------------------------
(* The sidecar's steps.  They leave the client and what it was told alone. *)
LEMMA AgentStep ==
    ASSUME ClientIInv, UNCHANGED <<cl, told>>, done' \in Nat,
           ag' \in Sidecar, toHost' \in Seq(Record), toAgent' \in Seq(Order),
           InPlace(cl, ag', toHost', toAgent')
    PROVE  ClientIInv'
  BY DEF ClientIInv, ClientTyped, OwnAnswer, InPlace, Numbered, RunInPlace,
         OnlyOwn, ExitComes, NoRun, OneRun, OwnId

LEMMA AgentFields ==
    ASSUME NEW a \in Sidecar
    PROVE  /\ \A x \in Seq(Nat) :
                 LET b == [a EXCEPT !.aborts = x]
                 IN  /\ b \in Sidecar /\ b.st = a.st /\ b.work = a.work
                     /\ b.inflight = a.inflight /\ b.owed = a.owed /\ b.aborts = x
           /\ \A x \in SUBSET Order :
                 LET b == [a EXCEPT !.owed = x]
                 IN  /\ b \in Sidecar /\ b.st = a.st /\ b.work = a.work
                     /\ b.inflight = a.inflight /\ b.aborts = a.aborts /\ b.owed = x
           /\ \A n \in Nat, w \in Seq(Nat) :
                 LET b == [a EXCEPT !.inflight = n, !.work = w]
                 IN  /\ b \in Sidecar /\ b.st = a.st /\ b.work = w
                     /\ b.inflight = n /\ b.aborts = a.aborts /\ b.owed = a.owed
  BY DEF Sidecar

LEMMA AgentTakesKeeps == ASSUME ClientIInv, AgentTakes PROVE ClientIInv'
<1> DEFINE m == Head(toAgent)
<1>1. /\ toAgent # <<>> /\ m.type \in {"set", "usage"} /\ toAgent' = Tail(toAgent)
      /\ ag' = [ag EXCEPT !.owed = ag.owed \cup {m}]
      /\ UNCHANGED <<cl, toHost, told, done>>
  BY DEF AgentTakes
<1>2. /\ toAgent' \in Seq(Order) /\ m \in Order /\ m = toAgent[1] /\ 1 \in 1..Len(toAgent)
      /\ \A i \in 1..Len(toAgent') : /\ i + 1 \in 1..Len(toAgent)
                                     /\ toAgent'[i] = toAgent[i + 1]
  <2>1. /\ Len(toAgent') = Len(toAgent) - 1 /\ Len(toAgent) >= 1 /\ toAgent' \in Seq(Order)
        /\ Len(toAgent) \in Nat /\ m = toAgent[1] /\ m \in Order
        /\ \A i \in 1..(Len(toAgent) - 1) : toAgent'[i] = toAgent[i + 1]
    BY <1>1, ClientFacts, Shrunk DEF ClientIInv
  <2> QED
    BY <2>1
<1>3. /\ NoPrompt(toAgent) => NoPrompt(toAgent')
      /\ \A w, n : OnePrompt(toAgent, w, n) => OnePrompt(toAgent', w, n)
  BY <1>1, ClientFacts, PromptsShrunk DEF ClientIInv
<1> HIDE DEF m
<1>4. /\ ag' \in Sidecar /\ ag'.st = ag.st /\ ag'.work = ag.work
      /\ ag'.inflight = ag.inflight /\ ag'.aborts = ag.aborts
      /\ ag'.owed = ag.owed \cup {m}
  <2>1. ag \in Sidecar /\ ag.owed \cup {m} \in SUBSET Order
    BY <1>2, ClientFacts DEF ClientIInv
  <2> QED
    BY <1>1, <2>1 DEF Sidecar
<1>5. Numbered(cl, ag', toHost, toAgent')
  <2>1. \A i \in 1..Len(toAgent) : toAgent[i].id < cl.wires
    BY DEF ClientIInv, InPlace, Numbered
  <2>2. m.id < cl.wires /\ \A i \in 1..Len(toAgent') : toAgent'[i].id < cl.wires
    BY <1>2, <2>1
  <2> QED
    BY <1>4, <2>2 DEF ClientIInv, InPlace, Numbered
<1>6. RunInPlace(cl, ag', toHost, toAgent')
  <2> SUFFICES ASSUME ag.st = "up" PROVE RunInPlace(cl, ag', toHost, toAgent')
    BY <1>4 DEF RunInPlace
  <2>1. cl.active => OwnId(cl, ag', toAgent')
    BY <1>1, <1>2, <1>4 DEF ClientIInv, InPlace, RunInPlace, OwnId
  <2>2. cl.active => OneRun(cl, ag', toHost, toAgent')
    BY <1>3, <1>4 DEF ClientIInv, InPlace, RunInPlace, OneRun, AtRest
  <2>3. ~cl.active => NoRun(cl, ag', toHost, toAgent')
    BY <1>3, <1>4 DEF ClientIInv, InPlace, RunInPlace, NoRun, AtRest
  <2> QED
    BY <2>1, <2>2, <2>3 DEF ClientIInv, InPlace, RunInPlace
<1>7. OnlyOwn(cl, ag', toHost, toAgent')
  BY <1>2, <1>4 DEF ClientIInv, InPlace, OnlyOwn
<1>8. ExitComes(cl, ag', toHost)
  BY <1>4 DEF ClientIInv, InPlace, ExitComes
<1> QED
  BY <1>1, <1>2, <1>4, <1>5, <1>6, <1>7, <1>8, ClientFacts, AgentStep
     DEF ClientIInv, InPlace

LEMMA AgentAbortKeeps == ASSUME ClientIInv, AgentAbort PROVE ClientIInv'
<1> DEFINE m == Head(toAgent)
<1>1. /\ toAgent # <<>> /\ m.type = "abort" /\ toAgent' = Tail(toAgent)
      /\ ag' = [ag EXCEPT !.aborts = Append(ag.aborts, m.id)]
      /\ UNCHANGED <<cl, toHost, told, done>>
  BY DEF AgentAbort
<1>2. /\ toAgent' \in Seq(Order) /\ m \in Order /\ m = toAgent[1] /\ 1 \in 1..Len(toAgent)
      /\ \A i \in 1..Len(toAgent') : /\ i + 1 \in 1..Len(toAgent)
                                     /\ toAgent'[i] = toAgent[i + 1]
  <2>1. /\ Len(toAgent') = Len(toAgent) - 1 /\ Len(toAgent) >= 1 /\ toAgent' \in Seq(Order)
        /\ Len(toAgent) \in Nat /\ m = toAgent[1] /\ m \in Order
        /\ \A i \in 1..(Len(toAgent) - 1) : toAgent'[i] = toAgent[i + 1]
    BY <1>1, ClientFacts, Shrunk DEF ClientIInv
  <2> QED
    BY <2>1
<1>3. /\ NoPrompt(toAgent) => NoPrompt(toAgent')
      /\ \A w, n : OnePrompt(toAgent, w, n) => OnePrompt(toAgent', w, n)
  BY <1>1, ClientFacts, PromptsShrunk DEF ClientIInv
<1> HIDE DEF m
<1> DEFINE x == Append(ag.aborts, m.id)
<1>4. /\ x \in Seq(Nat) /\ Len(x) = Len(ag.aborts) + 1 /\ Len(ag.aborts) \in Nat
      /\ \A i \in 1..Len(ag.aborts) : x[i] = ag.aborts[i]
      /\ x[Len(ag.aborts) + 1] = m.id
  <2>1. m.id \in Nat /\ ag.aborts \in Seq(Nat)
    BY <1>2, ClientFacts DEF ClientIInv, Order
  <2> QED
    BY <2>1, Grown
<1> HIDE DEF x
<1>5. /\ ag' \in Sidecar /\ ag'.st = ag.st /\ ag'.work = ag.work
      /\ ag'.inflight = ag.inflight /\ ag'.owed = ag.owed /\ ag'.aborts = x
  <2>1. ag \in Sidecar /\ ag' = [ag EXCEPT !.aborts = x]
    BY <1>1, ClientFacts DEF ClientIInv, x
  <2> QED
    BY <1>4, <2>1 DEF Sidecar
<1>6. Numbered(cl, ag', toHost, toAgent')
  <2>1. \A i \in 1..Len(toAgent) : toAgent[i].id < cl.wires
    BY DEF ClientIInv, InPlace, Numbered
  <2>2. m.id < cl.wires /\ \A i \in 1..Len(toAgent') : toAgent'[i].id < cl.wires
    BY <1>2, <2>1
  <2>3. \A i \in 1..Len(ag.aborts) : ag.aborts[i] < cl.wires
    BY DEF ClientIInv, InPlace, Numbered
  <2>4. \A i \in 1..Len(x) : x[i] < cl.wires
    <3> DEFINE y == ag.aborts
               l == Len(y)
               b == cl.wires
               z == m.id
    <3>1. /\ z < b /\ l \in Nat /\ Len(x) = l + 1 /\ x[l + 1] = z
          /\ \A i \in 1..l : y[i] < b /\ x[i] = y[i]
      BY <1>4, <2>2, <2>3
    <3> HIDE DEF y, l, b, z
    <3>2. \A i \in 1..Len(x) : x[i] < b
      BY <3>1
    <3> QED
      BY <3>2 DEF b
  <2> QED
    BY <1>5, <2>2, <2>4 DEF ClientIInv, InPlace, Numbered
<1>7. RunInPlace(cl, ag', toHost, toAgent')
  <2> SUFFICES ASSUME ag.st = "up" PROVE RunInPlace(cl, ag', toHost, toAgent')
    BY <1>5 DEF RunInPlace
  <2>1. cl.active => OwnId(cl, ag', toAgent')
    <3> HAVE cl.active
    <3>1. OwnId(cl, ag, toAgent)
      BY DEF ClientIInv, InPlace, RunInPlace
    <3>2. m.id # cl.wire
      BY <1>1, <1>2, <3>1 DEF OwnId, m
    <3>4. \A i \in 1..Len(ag.aborts) : ag.aborts[i] # cl.wire
      BY <3>1 DEF OwnId
    <3>3. \A i \in 1..Len(x) : x[i] # cl.wire
      BY <1>4, <3>2, <3>4
    <3> QED
      BY <1>2, <1>5, <3>1, <3>3 DEF OwnId
  <2>2. cl.active => OneRun(cl, ag', toHost, toAgent')
    BY <1>3, <1>5 DEF ClientIInv, InPlace, RunInPlace, OneRun, AtRest
  <2>3. ~cl.active => NoRun(cl, ag', toHost, toAgent')
    BY <1>3, <1>5 DEF ClientIInv, InPlace, RunInPlace, NoRun, AtRest
  <2> QED
    BY <2>1, <2>2, <2>3 DEF ClientIInv, InPlace, RunInPlace
<1>8. OnlyOwn(cl, ag', toHost, toAgent')
  BY <1>2, <1>5 DEF ClientIInv, InPlace, OnlyOwn
<1>9. ExitComes(cl, ag', toHost)
  BY <1>5 DEF ClientIInv, InPlace, ExitComes
<1> QED
  BY <1>1, <1>2, <1>5, <1>6, <1>7, <1>8, <1>9, ClientFacts, AgentStep
     DEF ClientIInv, InPlace

LEMMA AgentAnswersKeeps == ASSUME ClientIInv, AgentAnswers PROVE ClientIInv'
<1>1. PICK m \in ag.owed :
         /\ ag' = [ag EXCEPT !.owed = ag.owed \ {m}]
         /\ toHost' = toHost \o <<Response(m.id, m.type, TRUE)>>
  BY DEF AgentAnswers, AgentWrites
<1>2. UNCHANGED <<cl, toAgent, told, done>>
  BY DEF AgentAnswers
<1> DEFINE r == Response(m.id, m.type, TRUE)
<1>3. m \in Order /\ m.id \in Nat /\ m.id < cl.wires
  BY ClientFacts DEF ClientIInv, InPlace, Numbered, Order
<1>4. r \in Record /\ r.kind = "response" /\ r.id = m.id
  <2>1. m.type \in {"prompt", "handled", "abort", "set", "usage"} /\ TRUE \in BOOLEAN
    BY <1>3 DEF Order
  <2> QED
    BY <1>3, <2>1 DEF Response, Record, NoWire
<1>5. toHost' = Append(toHost, r)
  <2>1. toHost \in Seq(Record)
    BY ClientFacts DEF ClientIInv
  <2>2. toHost' = toHost \o <<r>>
    BY <1>1
  <2> HIDE DEF r
  <2> QED
    BY <1>4, <2>1, <2>2, Grown
<1> HIDE DEF r
<1>6. /\ ag' \in Sidecar /\ ag'.st = ag.st /\ ag'.work = ag.work
      /\ ag'.inflight = ag.inflight /\ ag'.aborts = ag.aborts
      /\ ag'.owed = ag.owed \ {m}
  <2>1. ag \in Sidecar /\ ag.owed \ {m} \in SUBSET Order
    BY ClientFacts DEF ClientIInv
  <2> QED
    BY <1>1, <2>1 DEF Sidecar
<1>7. InPlace(cl, ag', toHost, toAgent)
  <2>1. Numbered(cl, ag', toHost, toAgent)
    BY <1>6 DEF ClientIInv, InPlace, Numbered
  <2>2. RunInPlace(cl, ag', toHost, toAgent)
    BY <1>6 DEF ClientIInv, InPlace, RunInPlace, OwnId, OneRun, NoRun, AtRest
  <2>3. OnlyOwn(cl, ag', toHost, toAgent) /\ ExitComes(cl, ag', toHost)
    BY <1>6 DEF ClientIInv, InPlace, OnlyOwn, ExitComes
  <2> QED
    BY <2>1, <2>2, <2>3 DEF InPlace
<1>8. ag'.st = "up" /\ cl.active => ~EndsRun(r, cl.wire)
  BY <1>4, <1>6 DEF ClientIInv, InPlace, RunInPlace, OwnId, EndsRun
<1>9. toHost' \in Seq(Record) /\ InPlace(cl, ag', toHost', toAgent)
  BY <1>3, <1>4, <1>5, <1>6, <1>7, <1>8, ClientFacts, WriteKeeps DEF ClientIInv
<1> QED
  BY <1>2, <1>6, <1>9, ClientFacts, AgentStep DEF ClientIInv, InPlace

(* An interrupt is answered. *)
LEMMA InterruptAnswered ==
    ASSUME ClientIInv, ag.aborts # <<>>
    PROVE  LET a == [ag EXCEPT !.aborts = Tail(ag.aborts)]
               h == Append(toHost, Response(Head(ag.aborts), "abort", TRUE))
           IN  /\ a \in Sidecar /\ h \in Seq(Record) /\ InPlace(cl, a, h, toAgent)
               /\ Response(Head(ag.aborts), "abort", TRUE) \in Record
<1> DEFINE n == Head(ag.aborts)
           r == Response(n, "abort", TRUE)
           x == Tail(ag.aborts)
           a == [ag EXCEPT !.aborts = x]
<1>2. /\ x \in Seq(Nat) /\ n \in Nat /\ n = ag.aborts[1] /\ 1 \in 1..Len(ag.aborts)
      /\ \A i \in 1..Len(x) : i + 1 \in 1..Len(ag.aborts) /\ x[i] = ag.aborts[i + 1]
  <2>1. /\ Len(x) = Len(ag.aborts) - 1 /\ Len(ag.aborts) >= 1 /\ x \in Seq(Nat)
        /\ Len(ag.aborts) \in Nat /\ n = ag.aborts[1] /\ n \in Nat
        /\ \A i \in 1..(Len(ag.aborts) - 1) : x[i] = ag.aborts[i + 1]
    <3>1. ag.aborts \in Seq(Nat)
      BY ClientFacts DEF ClientIInv
    <3> QED
      BY <3>1, Shrunk
  <2> QED
    BY <2>1
<1>3. r \in Record /\ r.kind = "response" /\ r.id = n
  BY <1>2, AnyRecord
<1>5. /\ a \in Sidecar /\ a.st = ag.st /\ a.work = ag.work
      /\ a.inflight = ag.inflight /\ a.aborts = x /\ a.owed = ag.owed
  <2>1. ag \in Sidecar
    BY ClientFacts DEF ClientIInv
  <2> HIDE DEF x
  <2> QED
    BY <1>2, <2>1 DEF Sidecar
<1> HIDE DEF n, r, x, a
<1>6. n < cl.wires /\ \A i \in 1..Len(x) : x[i] < cl.wires
  BY <1>2 DEF ClientIInv, InPlace, Numbered
<1>7. ASSUME ag.st = "up", cl.active
      PROVE  n # cl.wire /\ \A i \in 1..Len(x) : x[i] # cl.wire
  BY <1>2, <1>7 DEF ClientIInv, InPlace, RunInPlace, OwnId
<1>8. InPlace(cl, a, toHost, toAgent)
  <2>1. Numbered(cl, a, toHost, toAgent)
    BY <1>5, <1>6 DEF ClientIInv, InPlace, Numbered
  <2>2. RunInPlace(cl, a, toHost, toAgent)
    BY <1>5, <1>7 DEF ClientIInv, InPlace, RunInPlace, OwnId, OneRun, NoRun, AtRest
  <2>3. OnlyOwn(cl, a, toHost, toAgent) /\ ExitComes(cl, a, toHost)
    BY <1>5 DEF ClientIInv, InPlace, OnlyOwn, ExitComes
  <2> QED
    BY <2>1, <2>2, <2>3 DEF InPlace
<1>9. a.st = "up" /\ cl.active => ~EndsRun(r, cl.wire)
  BY <1>3, <1>5, <1>7 DEF EndsRun
<1>10. Append(toHost, r) \in Seq(Record) /\ InPlace(cl, a, Append(toHost, r), toAgent)
  BY <1>3, <1>5, <1>6, <1>8, <1>9, ClientFacts, WriteKeeps DEF ClientIInv
<1> QED
  BY <1>3, <1>5, <1>10 DEF n, r, x, a

LEMMA AgentInterruptedKeeps == ASSUME ClientIInv, AgentInterrupted PROVE ClientIInv'
<1> DEFINE r == Response(Head(ag.aborts), "abort", TRUE)
           a == [ag EXCEPT !.aborts = Tail(ag.aborts)]
<1>1. /\ ag.aborts # <<>> /\ toHost' = toHost \o <<r>> /\ ag' = a
      /\ UNCHANGED <<cl, toAgent, told, done>>
  BY DEF AgentInterrupted, AgentWrites
<1>2. /\ a \in Sidecar /\ Append(toHost, r) \in Seq(Record) /\ r \in Record
      /\ InPlace(cl, a, Append(toHost, r), toAgent)
  BY <1>1, InterruptAnswered
<1> HIDE DEF r, a
<1>3. toHost' = Append(toHost, r)
  BY <1>1, <1>2, ClientFacts, Grown DEF ClientIInv
<1> QED
  BY <1>1, <1>2, <1>3, ClientFacts, AgentStep DEF ClientIInv, InPlace

LEMMA AgentNoiseKeeps == ASSUME ClientIInv, AgentNoise PROVE ClientIInv'
<1>1. /\ toHost' = toHost \o <<Noise>> /\ done' = done + 1
      /\ UNCHANGED <<cl, toAgent, ag, told>>
  BY DEF AgentNoise, AgentWrites
<1>2. Noise \in Record /\ Noise.kind = "noise" /\ Noise.id < cl.wires
      /\ done' \in Nat /\ ~EndsRun(Noise, cl.wire)
  <2>1. Noise \in Record /\ Noise.kind = "noise" /\ Noise.id = 0
    BY AnyRecord
  <2>2. cl.wires \in Nat /\ cl.wires > 0 /\ done \in Nat
    BY ClientFacts DEF ClientIInv
  <2> QED
    BY <1>1, <2>1, <2>2 DEF EndsRun
<1>3. toHost' = Append(toHost, Noise)
  BY <1>1, <1>2, ClientFacts, Grown DEF ClientIInv
<1>4. toHost' \in Seq(Record) /\ InPlace(cl, ag, toHost', toAgent)
  BY <1>2, <1>3, ClientFacts, WriteKeeps DEF ClientIInv
<1> QED
  BY <1>1, <1>2, <1>4, ClientFacts, AgentStep DEF ClientIInv, InPlace

(* A sidecar that shuts down may write the end of the run, or of a lost    *)
(* one.                                                                    *)
LEMMA WriteAwayKeeps ==
    ASSUME NEW c \in Client, NEW a \in Sidecar, NEW h \in Seq(Record),
           NEW o \in Seq(Order), NEW r \in Record, InPlace(c, a, h, o),
           a.st # "up", r.id < c.wires,
           c.req # NoWire /\ c.req \notin c.late /\ r.kind = "result"
             => r.of \in {c.req, LostRun}
    PROVE  Append(h, r) \in Seq(Record) /\ InPlace(c, a, Append(h, r), o)
<1> DEFINE t == Append(h, r)
<1>1. /\ t \in Seq(Record) /\ Len(t) = Len(h) + 1 /\ Len(h) \in Nat
      /\ \A i \in 1..Len(h) : t[i] = h[i]
      /\ t[Len(h) + 1] = r
  BY Grown
<1>2. \A n : ResultsOf(h, n) /\ (r.kind = "result" => r.of \in {n, LostRun})
                => ResultsOf(t, n)
  BY OwnGrown
<1> HIDE DEF t
<1>3. Numbered(c, a, t, o)
  <2>1. \A i \in 1..Len(h) : h[i].id < c.wires
    BY DEF InPlace, Numbered
  <2>2. \A i \in 1..Len(t) : t[i].id < c.wires
    BY <1>1, <2>1
  <2> QED
    BY <2>2 DEF InPlace, Numbered
<1>4. RunInPlace(c, a, t, o)
  BY DEF RunInPlace
<1>5. OnlyOwn(c, a, t, o)
  BY <1>2 DEF InPlace, OnlyOwn
<1>6. ExitComes(c, a, t)
  BY <1>1 DEF InPlace, ExitComes
<1> QED
  BY <1>1, <1>3, <1>4, <1>5, <1>6 DEF InPlace, t

(* The sidecar begins to shut down, and reports the lost turn. *)
LEMMA CloseKeeps ==
    ASSUME NEW c \in Client, NEW a \in Sidecar, NEW b \in Sidecar,
           NEW h \in Seq(Record), NEW o \in Seq(Order), InPlace(c, a, h, o),
           b.st = "closing", b.owed = a.owed,
           \A i \in 1..Len(b.aborts) : b.aborts[i] < c.wires,
           \A i \in 1..Len(b.work) : \E j \in 1..Len(a.work) : b.work[i] = a.work[j]
    PROVE  /\ LostTurn(a) \in Seq(Record) /\ h \o LostTurn(a) \in Seq(Record)
           /\ InPlace(c, b, h \o LostTurn(a), o)
<1>1. InPlace(c, b, h, o)
  <2>1. Numbered(c, b, h, o)
    BY DEF InPlace, Numbered
  <2>2. RunInPlace(c, b, h, o) /\ ExitComes(c, b, h)
    BY DEF InPlace, RunInPlace, ExitComes
  <2>3. OnlyOwn(c, b, h, o)
    BY DEF InPlace, OnlyOwn
  <2> QED
    BY <2>1, <2>2, <2>3 DEF InPlace
<1>2. CASE a.inflight = 0
  <2>1. LostTurn(a) = <<>> /\ h \o <<>> = h
    BY <1>2 DEF LostTurn
  <2> QED
    BY <1>1, <2>1
<1>3. CASE a.inflight # 0
  <2> DEFINE r == Result(LostRun, "error")
  <2>1. r \in Record /\ r.id = 0 /\ r.of = LostRun
    BY AnyRecord DEF LostRun
  <2>2. c.wires > 0
    BY DEF Client
  <2>3. LostTurn(a) = <<r>>
    BY <1>3 DEF LostTurn
  <2>4. h \o <<r>> = Append(h, r) /\ <<r>> \in Seq(Record)
    BY <2>1
  <2> HIDE DEF r
  <2>5. Append(h, r) \in Seq(Record) /\ InPlace(c, b, Append(h, r), o)
    BY <1>1, <2>1, <2>2, WriteAwayKeeps
  <2> QED
    BY <2>3, <2>4, <2>5
<1> QED
  BY <1>2, <1>3

LEMMA AgentGivesUpKeeps == ASSUME ClientIInv, AgentGivesUp PROVE ClientIInv'
<1> DEFINE r == Response(Head(ag.aborts), "abort", TRUE)
           a == [ag EXCEPT !.aborts = Tail(ag.aborts)]
           lost == LostTurn(ag)
<1>1. /\ ag.aborts # <<>> /\ toHost' = toHost \o (<<r>> \o lost)
      /\ ag' = [Closing(ag) EXCEPT !.aborts = Tail(@), !.inflight = 0]
      /\ UNCHANGED <<cl, toAgent, told, done>>
  BY DEF AgentGivesUp, AgentWrites
<1>2. /\ a \in Sidecar /\ Append(toHost, r) \in Seq(Record) /\ r \in Record
      /\ InPlace(cl, a, Append(toHost, r), toAgent)
  BY <1>1, InterruptAnswered
<1>3. ag \in Sidecar /\ cl \in Client /\ toHost \in Seq(Record) /\ toAgent \in Seq(Order)
  BY ClientFacts DEF ClientIInv
<1>4. /\ a.inflight = ag.inflight /\ a.aborts = Tail(ag.aborts) /\ a.work = ag.work
      /\ a.owed = ag.owed
  BY <1>3 DEF Sidecar
<1>5. ag' = [ag EXCEPT !.st = "closing", !.aborts = Tail(ag.aborts), !.inflight = 0]
  BY <1>1, <1>3 DEF Closing, Sidecar
<1>6. a.aborts \in Seq(Nat)
  BY <1>2 DEF Sidecar
<1> HIDE DEF a
<1>7. /\ ag' \in Sidecar /\ ag'.st = "closing" /\ ag'.aborts = a.aborts
      /\ ag'.work = a.work /\ ag'.owed = a.owed
  BY <1>3, <1>4, <1>5, <1>6 DEF Sidecar
<1>8. LostTurn(a) = lost
  BY <1>4 DEF LostTurn
<1> HIDE DEF r, lost
<1>9. \A i \in 1..Len(ag'.aborts) : ag'.aborts[i] < cl.wires
  BY <1>2, <1>7 DEF InPlace, Numbered
<1>10. /\ lost \in Seq(Record) /\ Append(toHost, r) \o lost \in Seq(Record)
       /\ InPlace(cl, ag', Append(toHost, r) \o lost, toAgent)
  BY <1>2, <1>3, <1>7, <1>8, <1>9, CloseKeeps
<1>11. toHost' = Append(toHost, r) \o lost
  <2>1. Append(toHost, r) = toHost \o <<r>> /\ <<r>> \in Seq(Record)
    BY <1>2, <1>3, Grown
  <2>2. \A s1, s2, s3 \in Seq(Record) : s1 \o (s2 \o s3) = (s1 \o s2) \o s3
    OBVIOUS
  <2> QED
    BY <1>1, <1>3, <1>10, <2>1, <2>2
<1> QED
  BY <1>1, <1>3, <1>7, <1>10, <1>11, ClientFacts, AgentStep DEF ClientIInv

LEMMA AgentStreamEndsKeeps == ASSUME ClientIInv, AgentStreamEnds PROVE ClientIInv'
<1>1. /\ toHost' = toHost \o LostTurn(ag)
      /\ ag' = [Closing(ag) EXCEPT !.inflight = 0, !.work = <<>>]
      /\ UNCHANGED <<cl, toAgent, told, done>>
  BY DEF AgentStreamEnds, AgentWrites
<1>2. ag \in Sidecar /\ cl \in Client /\ toHost \in Seq(Record) /\ toAgent \in Seq(Order)
  BY ClientFacts DEF ClientIInv
<1>3. ag' = [ag EXCEPT !.st = "closing", !.inflight = 0, !.work = <<>>]
  BY <1>1, <1>2 DEF Closing, Sidecar
<1>4. /\ ag' \in Sidecar /\ ag'.st = "closing" /\ ag'.aborts = ag.aborts
      /\ ag'.work = <<>> /\ ag'.owed = ag.owed
  <2>1. \A w \in Seq(Nat) :
           LET b == [ag EXCEPT !.st = "closing", !.inflight = 0, !.work = w]
           IN  /\ b \in Sidecar /\ b.st = "closing" /\ b.aborts = ag.aborts
               /\ b.work = w /\ b.owed = ag.owed
    BY <1>2 DEF Sidecar
  <2>2. <<>> \in Seq(Nat)
    OBVIOUS
  <2> QED
    BY <1>3, <2>1, <2>2
<1>5. \A i \in 1..Len(ag'.aborts) : ag'.aborts[i] < cl.wires
  BY <1>4 DEF ClientIInv, InPlace, Numbered
<1>6. InPlace(cl, ag, toHost, toAgent)
  BY DEF ClientIInv
<1>7. toHost' \in Seq(Record) /\ InPlace(cl, ag', toHost', toAgent)
  <2>1. \A i \in 1..Len(ag'.work) : \E j \in 1..Len(ag.work) : ag'.work[i] = ag.work[j]
    BY <1>4
  <2> QED
    BY <1>1, <1>2, <1>4, <1>5, <1>6, <2>1, CloseKeeps
<1> QED
  BY <1>1, <1>2, <1>4, <1>7, ClientFacts, AgentStep DEF ClientIInv

LEMMA AgentExitsKeeps == ASSUME ClientIInv, AgentExits PROVE ClientIInv'
<1>1. /\ toHost' = toHost \o <<Exit>> /\ toAgent' = <<>>
      /\ ag' = [ag EXCEPT !.st = "gone", !.inflight = 0, !.work = <<>>,
                          !.aborts = <<>>, !.owed = {}]
      /\ UNCHANGED <<cl, told, done>>
  BY DEF AgentExits, AgentWrites
<1>2. ag \in Sidecar /\ cl \in Client /\ toHost \in Seq(Record) /\ cl.wires > 0
  BY ClientFacts DEF ClientIInv
<1>3. /\ ag' \in Sidecar /\ ag'.st = "gone" /\ ag'.aborts = <<>>
      /\ ag'.work = <<>> /\ ag'.owed = {}
  <2>1. \A w \in Seq(Nat), o \in SUBSET Order :
           LET b == [ag EXCEPT !.st = "gone", !.inflight = 0, !.work = w,
                               !.aborts = w, !.owed = o]
           IN  /\ b \in Sidecar /\ b.st = "gone" /\ b.aborts = w
               /\ b.work = w /\ b.owed = o
    BY <1>2 DEF Sidecar
  <2>2. <<>> \in Seq(Nat) /\ {} \in SUBSET Order
    OBVIOUS
  <2> QED
    BY <1>1, <2>1, <2>2
<1>4. Exit \in Record /\ Exit.kind = "exit" /\ Exit.id = 0
  BY AnyRecord
<1>5. /\ toHost' \in Seq(Record) /\ Len(toHost') = Len(toHost) + 1
      /\ \A i \in 1..Len(toHost) : toHost'[i] = toHost[i]
      /\ toHost'[Len(toHost) + 1] = Exit /\ Len(toHost) \in Nat
  BY <1>1, <1>2, <1>4, Grown
<1>6. \A n : ResultsOf(toHost, n) => ResultsOf(toHost', n)
  BY <1>4, <1>5 DEF ResultsOf
<1>7. Numbered(cl, ag', toHost', toAgent')
  BY <1>1, <1>2, <1>3, <1>4, <1>5 DEF ClientIInv, InPlace, Numbered
<1>8. OnlyOwn(cl, ag', toHost', toAgent')
  BY <1>1, <1>3, <1>6 DEF ClientIInv, InPlace, OnlyOwn
<1>9. RunInPlace(cl, ag', toHost', toAgent')
  BY <1>3 DEF RunInPlace
<1>10. ExitComes(cl, ag', toHost')
  BY <1>5 DEF ClientIInv, InPlace, ExitComes
<1>11. toAgent' \in Seq(Order)
  BY <1>1
<1> QED
  BY <1>1, <1>3, <1>5, <1>7, <1>8, <1>9, <1>10, <1>11, ClientFacts, AgentStep
     DEF ClientIInv, InPlace

LEMMA AgentResultKeeps == ASSUME ClientIInv, AgentResult PROVE ClientIInv'
<1> DEFINE w == Tail(ag.work)
           n == IF ag.inflight = 0 THEN 0 ELSE ag.inflight - 1
<1>1. PICK end \in {"ok", "error"} : toHost' = toHost \o <<Result(Head(ag.work), end)>>
  BY DEF AgentResult, AgentWrites
<1>2. /\ ag.work # <<>> /\ ag' = [ag EXCEPT !.inflight = n, !.work = w]
      /\ UNCHANGED <<cl, toAgent, told, done>>
  BY DEF AgentResult
<1> DEFINE r == Result(Head(ag.work), end)
<1>3. /\ w \in Seq(Nat) /\ Head(ag.work) \in Nat /\ Head(ag.work) = ag.work[1]
      /\ 1 \in 1..Len(ag.work)
      /\ \A i \in 1..Len(w) : i + 1 \in 1..Len(ag.work) /\ w[i] = ag.work[i + 1]
  <2>1. ag.work \in Seq(Nat)
    BY ClientFacts DEF ClientIInv
  <2>2. /\ Len(w) = Len(ag.work) - 1 /\ Len(ag.work) >= 1 /\ w \in Seq(Nat)
        /\ Len(ag.work) \in Nat /\ Head(ag.work) = ag.work[1] /\ Head(ag.work) \in Nat
        /\ \A i \in 1..(Len(ag.work) - 1) : w[i] = ag.work[i + 1]
    BY <1>2, <2>1, Shrunk
  <2> QED
    BY <2>2
<1>4. r \in Record /\ r.kind = "result" /\ r.id = 0 /\ r.of = Head(ag.work)
  <2>1. Head(ag.work) \in Int
    BY <1>3
  <2> QED
    BY <2>1, AnyRecord
<1>5. /\ ag' \in Sidecar /\ ag'.st = ag.st /\ ag'.work = w /\ ag'.inflight = n
      /\ ag'.aborts = ag.aborts /\ ag'.owed = ag.owed
  <2>1. ag \in Sidecar /\ ag.inflight \in Nat
    BY ClientFacts DEF ClientIInv
  <2>2. n \in Nat
    BY <2>1
  <2> HIDE DEF n, w
  <2> QED
    BY <1>2, <1>3, <2>1, <2>2 DEF Sidecar
<1> HIDE DEF r
<1>6. /\ toHost' = Append(toHost, r) /\ toHost' \in Seq(Record)
      /\ Len(toHost') = Len(toHost) + 1 /\ Len(toHost) \in Nat
      /\ \A i \in 1..Len(toHost) : toHost'[i] = toHost[i]
      /\ toHost'[Len(toHost) + 1] = r
  <2>1. toHost' = toHost \o <<r>> /\ toHost \in Seq(Record)
    BY <1>1, ClientFacts DEF r, ClientIInv
  <2> QED
    BY <1>4, <2>1, Grown
<1>7. Numbered(cl, ag', toHost', toAgent)
  <2>1. cl.wires > 0
    BY ClientFacts DEF ClientIInv
  <2>2. \A i \in 1..Len(toHost') : toHost'[i].id < cl.wires
    BY <1>4, <1>6, <2>1 DEF ClientIInv, InPlace, Numbered
  <2> QED
    BY <1>5, <2>2 DEF ClientIInv, InPlace, Numbered
<1>8. RunInPlace(cl, ag', toHost', toAgent)
  <2> SUFFICES ASSUME ag.st = "up" PROVE RunInPlace(cl, ag', toHost', toAgent)
    BY <1>5 DEF RunInPlace
  <2>1. cl.active
    BY <1>2 DEF ClientIInv, InPlace, RunInPlace, NoRun, AtRest
  <2>2. OneRun(cl, ag, toHost, toAgent) /\ OwnId(cl, ag, toAgent)
    BY <2>1 DEF ClientIInv, InPlace, RunInPlace
  <2>3. /\ NoPrompt(toAgent) /\ ag.work = <<cl.req>> /\ ag.inflight = 1
        /\ NoEnd(cl.queued, cl.wire) /\ NoEnd(toHost, cl.wire)
    BY <1>2, <2>2 DEF OneRun, AtRest
  <2>4. w = <<>> /\ n = 0
    BY <2>3
  <2>5. OneEnd(toHost', cl.wire)
    BY <1>4, <1>6, <2>3, EndsGrown, ClientFacts DEF ClientIInv, EndsRun
  <2>6. OneRun(cl, ag', toHost', toAgent)
    BY <1>5, <2>3, <2>4, <2>5 DEF OneRun, AtRest
  <2>7. OwnId(cl, ag', toAgent)
    BY <1>5, <2>2 DEF OwnId
  <2>8. \A i \in 1..Len(toHost') : toHost'[i].kind # "exit"
    BY <1>4, <1>6 DEF ClientIInv, InPlace, RunInPlace
  <2> QED
    BY <1>5, <2>1, <2>6, <2>7, <2>8 DEF ClientIInv, InPlace, RunInPlace
<1>9. OnlyOwn(cl, ag', toHost', toAgent)
  <2> SUFFICES ASSUME cl.req # NoWire, cl.req \notin cl.late
      PROVE  OnlyOwn(cl, ag', toHost', toAgent)
    BY DEF OnlyOwn
  <2>1. OnlyOwn(cl, ag, toHost, toAgent)
    BY DEF ClientIInv, InPlace
  <2>2. r.of = cl.req
    BY <1>3, <1>4, <2>1 DEF OnlyOwn
  <2>3. ResultsOf(toHost', cl.req)
    BY <1>4, <1>6, <2>1, <2>2, ClientFacts, OwnGrown DEF ClientIInv, OnlyOwn
  <2>4. \A i \in 1..Len(w) : w[i] = cl.req
    BY <1>3, <2>1 DEF OnlyOwn
  <2> HIDE DEF w
  <2> QED
    BY <1>5, <2>1, <2>3, <2>4 DEF OnlyOwn
<1>10. ExitComes(cl, ag', toHost')
  BY <1>5, <1>6 DEF ClientIInv, InPlace, ExitComes
<1> QED
  BY <1>2, <1>5, <1>6, <1>7, <1>8, <1>9, <1>10, ClientFacts, AgentStep
     DEF ClientIInv, InPlace

LEMMA AgentPromptKeeps == ASSUME ClientIInv, AgentPrompt PROVE ClientIInv'
<1> DEFINE m == Head(toAgent)
           o == Tail(toAgent)
<1>1. /\ toAgent # <<>> /\ m.type = "prompt" /\ toAgent' = o /\ ag.st # "gone"
      /\ UNCHANGED <<cl, told, done>>
  BY DEF AgentPrompt
<1>2. /\ cl \in Client /\ ag \in Sidecar /\ toHost \in Seq(Record) /\ toAgent \in Seq(Order)
      /\ ag.work \in Seq(Nat) /\ ag.inflight \in Nat
  BY ClientFacts DEF ClientIInv
<1>3. /\ o \in Seq(Order) /\ m \in Order /\ m = toAgent[1] /\ 1 \in 1..Len(toAgent)
      /\ \A i \in 1..Len(o) : i + 1 \in 1..Len(toAgent) /\ o[i] = toAgent[i + 1]
  <2>1. /\ Len(o) = Len(toAgent) - 1 /\ Len(toAgent) >= 1 /\ o \in Seq(Order)
        /\ Len(toAgent) \in Nat /\ m = toAgent[1] /\ m \in Order
        /\ \A i \in 1..(Len(toAgent) - 1) : o[i] = toAgent[i + 1]
    BY <1>1, <1>2, Shrunk
  <2> QED
    BY <2>1
<1>4. /\ ~NoPrompt(toAgent)
      /\ OnePrompt(toAgent, cl.wire, cl.req) =>
            NoPrompt(o) /\ m = Command("prompt", cl.wire, cl.req)
  BY <1>1, <1>2, PromptsShrunk
<1> HIDE DEF m, o
<1>5. m.id \in Nat /\ m.of \in Nat /\ m.id < cl.wires
  BY <1>3 DEF ClientIInv, InPlace, Numbered, Order
<1>6. ASSUME ag.st = "up"
      PROVE  /\ cl.active /\ OwnId(cl, ag, o) /\ NoPrompt(o)
             /\ m.id = cl.wire /\ m.of = cl.req /\ ag.work = <<>> /\ ag.inflight = 0
             /\ NoEnd(cl.queued, cl.wire) /\ NoEnd(toHost, cl.wire)
  <2>1. cl.active
    BY <1>4, <1>6 DEF ClientIInv, InPlace, RunInPlace, NoRun, AtRest
  <2>2. OneRun(cl, ag, toHost, toAgent) /\ OwnId(cl, ag, toAgent)
    BY <1>6, <2>1 DEF ClientIInv, InPlace, RunInPlace
  <2>3. /\ OnePrompt(toAgent, cl.wire, cl.req) /\ ag.work = <<>> /\ ag.inflight = 0
        /\ NoEnd(cl.queued, cl.wire) /\ NoEnd(toHost, cl.wire)
    BY <1>4, <2>2 DEF OneRun, AtRest
  <2>4. OwnId(cl, ag, o)
    BY <1>3, <2>2 DEF OwnId
  <2> QED
    BY <1>4, <2>1, <2>3, <2>4 DEF Command
<1>7. Numbered(cl, ag, toHost, o)
  BY <1>3 DEF ClientIInv, InPlace, Numbered
<1>8. OnlyOwn(cl, ag, toHost, o)
  BY <1>3 DEF ClientIInv, InPlace, OnlyOwn
<1>9. ExitComes(cl, ag, toHost)
  BY DEF ClientIInv, InPlace
<1>13. done' \in Nat
  BY <1>1, ClientFacts DEF ClientIInv
<1> DEFINE accept == Response(m.id, "prompt", TRUE)
           w == IF ag.st = "closing" THEN ag.work ELSE Append(ag.work, m.of)
<1>10. CASE ag' = [ag EXCEPT !.inflight = ag.inflight + 1, !.work = w]
            /\ AgentWrites(<<accept>>)
  <2>1. accept \in Record /\ accept.kind = "response" /\ accept.id = m.id
        /\ accept.cmd = "prompt" /\ accept.ok = TRUE
    BY <1>5, AnyRecord
  <2> HIDE DEF accept
  <2>2. toHost' = Append(toHost, accept)
    BY <1>2, <1>10, <2>1, Grown DEF AgentWrites
  <2>3. w \in Seq(Nat) /\ ag.inflight + 1 \in Nat
    BY <1>2, <1>5
  <2>4. ag.st = "up" => w = <<m.of>>
    <3>1. Append(<<>>, m.of) = <<m.of>>
      OBVIOUS
    <3>2. ag.st = "up" => w = Append(ag.work, m.of)
      OBVIOUS
    <3> HIDE DEF w
    <3> QED
      BY <1>6, <3>1, <3>2
  <2>5. \A i \in 1..Len(w) : w[i] = m.of \/ \E j \in 1..Len(ag.work) : w[i] = ag.work[j]
    <3>1. CASE ag.st = "closing"
      BY <3>1
    <3>2. CASE ag.st # "closing"
      <4>1. /\ w = Append(ag.work, m.of) /\ Len(w) = Len(ag.work) + 1
            /\ Len(ag.work) \in Nat /\ \A i \in 1..Len(ag.work) : w[i] = ag.work[i]
            /\ w[Len(ag.work) + 1] = m.of
        BY <1>2, <1>5, <3>2, Grown
      <4> HIDE DEF w
      <4> QED
        BY <4>1
    <3> QED
      BY <3>1, <3>2
  <2> HIDE DEF w
  <2>6. /\ ag' \in Sidecar /\ ag'.st = ag.st /\ ag'.work = w
        /\ ag'.inflight = ag.inflight + 1 /\ ag'.aborts = ag.aborts /\ ag'.owed = ag.owed
    BY <1>2, <1>10, <2>3 DEF Sidecar
  <2>7. InPlace(cl, ag', toHost, o)
    <3>1. Numbered(cl, ag', toHost, o) /\ ExitComes(cl, ag', toHost)
      BY <1>7, <1>9, <2>6 DEF Numbered, ExitComes
    <3>2. RunInPlace(cl, ag', toHost, o)
      <4> SUFFICES ASSUME ag.st = "up" PROVE RunInPlace(cl, ag', toHost, o)
        BY <2>6 DEF RunInPlace
      <4>1. OwnId(cl, ag', o)
        BY <1>6, <2>6 DEF OwnId
      <4>2. OneRun(cl, ag', toHost, o)
        BY <1>6, <2>4, <2>6 DEF OneRun
      <4> QED
        BY <1>6, <2>6, <4>1, <4>2 DEF ClientIInv, InPlace, RunInPlace
    <3>3. OnlyOwn(cl, ag', toHost, o)
      <4>1. cl.req # NoWire /\ cl.req \notin cl.late => m.of = cl.req
        BY <1>1, <1>3 DEF ClientIInv, InPlace, OnlyOwn, m
      <4> QED
        BY <1>8, <2>5, <2>6, <4>1 DEF OnlyOwn
    <3> QED
      BY <3>1, <3>2, <3>3 DEF InPlace
  <2>8. ~EndsRun(accept, cl.wire)
    BY <2>1 DEF EndsRun
  <2>9. toHost' \in Seq(Record) /\ InPlace(cl, ag', toHost', o)
    BY <1>2, <1>3, <1>5, <2>1, <2>2, <2>6, <2>7, <2>8, WriteKeeps
  <2>10. InPlace(cl, ag', toHost', toAgent') /\ toAgent' \in Seq(Order)
    BY <1>1, <1>3, <2>9
  <2> QED
    BY <1>1, <1>13, <2>6, <2>9, <2>10, AgentStep
<1>11. ASSUME NEW r \in {Response(m.id, "prompt", FALSE), Response(m.id, "handled", TRUE)},
              AgentWrites(<<r>>), UNCHANGED ag
       PROVE  ClientIInv'
  <2>1. r \in Record /\ r.kind = "response" /\ r.id = m.id /\ (~r.ok \/ r.cmd # "prompt")
    <3>1. CASE r = Response(m.id, "prompt", FALSE)
      BY <1>5, <3>1 DEF Response, Record, NoWire
    <3>2. CASE r = Response(m.id, "handled", TRUE)
      BY <1>5, <3>2 DEF Response, Record, NoWire
    <3> QED
      BY <3>1, <3>2
  <2>2. /\ toHost' = Append(toHost, r) /\ toHost' \in Seq(Record)
        /\ Len(toHost') = Len(toHost) + 1 /\ Len(toHost) \in Nat
        /\ \A i \in 1..Len(toHost) : toHost'[i] = toHost[i]
        /\ toHost'[Len(toHost) + 1] = r
    BY <1>2, <1>11, <2>1, Grown DEF AgentWrites
  <2>3. Numbered(cl, ag, toHost', o)
    BY <1>5, <1>7, <2>1, <2>2 DEF Numbered
  <2>4. RunInPlace(cl, ag, toHost', o)
    <3> SUFFICES ASSUME ag.st = "up" PROVE RunInPlace(cl, ag, toHost', o)
      BY DEF RunInPlace
    <3>1. OneEnd(toHost', cl.wire)
      BY <1>2, <1>6, <2>1, <2>2, EndsGrown DEF EndsRun
    <3>2. OneRun(cl, ag, toHost', o)
      BY <1>6, <3>1 DEF OneRun, AtRest
    <3>3. \A i \in 1..Len(toHost') : toHost'[i].kind # "exit"
      BY <2>1, <2>2 DEF ClientIInv, InPlace, RunInPlace
    <3> QED
      BY <1>6, <3>2, <3>3 DEF ClientIInv, InPlace, RunInPlace
  <2>5. OnlyOwn(cl, ag, toHost', o)
    <3>1. \A n : ResultsOf(toHost, n) => ResultsOf(toHost', n)
      BY <2>1, <2>2 DEF ResultsOf
    <3> QED
      BY <1>8, <3>1 DEF OnlyOwn
  <2>6. ExitComes(cl, ag, toHost')
    BY <1>9, <2>2 DEF ExitComes
  <2>7. InPlace(cl, ag', toHost', toAgent') /\ toAgent' \in Seq(Order)
    <3>1. InPlace(cl, ag, toHost', o)
      BY <2>3, <2>4, <2>5, <2>6 DEF InPlace
    <3> QED
      BY <1>1, <1>3, <1>11, <3>1
  <2> QED
    BY <1>1, <1>2, <1>11, <1>13, <2>2, <2>7, AgentStep
<1>12. \/ /\ ag' = [ag EXCEPT !.inflight = ag.inflight + 1, !.work = w]
          /\ AgentWrites(<<accept>>)
       \/ /\ \E r \in {Response(m.id, "prompt", FALSE), Response(m.id, "handled", TRUE)} :
                AgentWrites(<<r>>)
          /\ UNCHANGED ag
  BY DEF AgentPrompt, m
<1> QED
  BY <1>10, <1>11, <1>12

LEMMA ClientStarts == ASSUME ClientInit PROVE ClientIInv
<1> DEFINE e == <<>>
<1>1. /\ cl = [active |-> FALSE, wire |-> NoWire, wires |-> 1, req |-> NoWire,
               next |-> 1, queued |-> e, exited |-> FALSE, deferred |-> NoWire,
               gone |-> FALSE, call |-> Quiet, awaits |-> NoWire, late |-> {}]
      /\ toAgent = e /\ toHost = e
      /\ ag = [st |-> "up", inflight |-> 0, work |-> e, aborts |-> e, owed |-> {}]
      /\ told = [r \in Turns |-> Untold] /\ done = 0
  BY DEF ClientInit
<1>2. e \in Seq(Record) /\ e \in Seq(Order) /\ e \in Seq(Nat) /\ Len(e) = 0 /\ e = <<>>
  OBVIOUS
<1> HIDE DEF e
<1>3. Quiet \in Call /\ Quiet.id = 0 /\ 0 \in 0..MaxTurns
  BY ClientAssumption DEF Quiet, Call, NoWire
<1>4. cl \in Client
  BY <1>1, <1>2, <1>3 DEF Client, NoWire
<1>5. ag \in Sidecar
  BY <1>1, <1>2 DEF Sidecar
<1>6. told \in [Turns -> Int]
  BY <1>1 DEF Untold
<1>7. ClientTyped
  BY <1>1, <1>2, <1>4, <1>5, <1>6 DEF ClientTyped
<1>8. /\ NoPrompt(e) /\ NoResult(e)
      /\ \A i \in 1..Len(e) : FALSE
  BY <1>2 DEF NoPrompt, NoResult
<1>9. Numbered(cl, ag, toHost, toAgent)
  BY <1>1, <1>3, <1>8 DEF Numbered, NoWire
<1>10. RunInPlace(cl, ag, toHost, toAgent)
  BY <1>1, <1>2, <1>8 DEF RunInPlace, NoRun, AtRest, NoWire
<1>11. OnlyOwn(cl, ag, toHost, toAgent) /\ ExitComes(cl, ag, toHost)
  BY <1>1 DEF OnlyOwn, ExitComes, NoWire
<1>12. OwnAnswer
  BY <1>1 DEF OwnAnswer
<1> QED
  BY <1>7, <1>9, <1>10, <1>11, <1>12 DEF ClientIInv, InPlace

LEMMA ClientSteps == ASSUME ClientIInv, [ClientNext]_clientVars PROVE ClientIInv'
<1>1. CASE UNCHANGED clientVars
  BY <1>1 DEF clientVars, ClientIInv, ClientTyped, OwnAnswer, InPlace, Numbered,
              RunInPlace, OnlyOwn, ExitComes, NoRun, OneRun, OwnId
<1> QED
  BY <1>1, BeginPromptKeeps, CancelRunKeeps, ConfigureKeeps, ReadAheadKeeps,
     RequestTimesOutKeeps, PollExitedKeeps, PollDeferredKeeps, PollKeptKeeps,
     PollRecordKeeps, AgentPromptKeeps, AgentAbortKeeps, AgentTakesKeeps,
     AgentAnswersKeeps, AgentResultKeeps, AgentStreamEndsKeeps,
     AgentInterruptedKeeps, AgentGivesUpKeeps, AgentNoiseKeeps, AgentExitsKeeps
     DEF ClientNext

(* The run that is somewhere is owed its end. *)
LEMMA PlacedIsOwed == ASSUME ClientIInv PROVE RunIsOwed
<1> SUFFICES ASSUME cl.active, ag.st # "closing" PROVE RunIsOwed
  BY DEF RunIsOwed
<1>1. /\ ag.st \in {"up", "closing", "gone"} /\ toHost \in Seq(Record)
      /\ toAgent \in Seq(Order) /\ cl.queued \in Seq(Record)
  BY ClientFacts DEF ClientIInv, Sidecar
<1>2. CASE ag.st = "gone"
  <2>1. cl.exited \/ \E i \in 1..Len(toHost) : toHost[i] = Exit
    BY <1>2 DEF ClientIInv, InPlace, ExitComes
  <2>2. cl.exited \/ Exit \in Range(toHost)
    BY <1>1, <2>1 DEF Range
  <2> QED
    BY <2>2 DEF RunIsOwed
<1>3. CASE ag.st = "up"
  <2>1. OneRun(cl, ag, toHost, toAgent)
    BY <1>3 DEF ClientIInv, InPlace, RunInPlace
  <2>2. CASE OnePrompt(toAgent, cl.wire, cl.req)
    <3>1. PICK i \in 1..Len(toAgent) : toAgent[i] = Command("prompt", cl.wire, cl.req)
      BY <2>2 DEF OnePrompt
    <3>2. toAgent[i] \in Range(toAgent) /\ toAgent[i].id = cl.wire
      BY <1>1, <3>1 DEF Range, Command
    <3> QED
      BY <3>2 DEF RunIsOwed
  <2>3. CASE ag.work = <<cl.req>>
    <3>1. cl.req \in Range(ag.work)
      BY <2>3 DEF Range
    <3> QED
      BY <3>1 DEF RunIsOwed
  <2>4. ASSUME NEW s \in {cl.queued, toHost}, OneEnd(s, cl.wire) PROVE RunIsOwed
    <3>1. PICK i \in 1..Len(s) : EndsRun(s[i], cl.wire)
      BY <2>4 DEF OneEnd
    <3>2. s[i] \in Range(cl.queued) \cup Range(toHost)
      BY <1>1, <3>1 DEF Range
    <3> QED
      BY <3>1, <3>2 DEF RunIsOwed, EndsRun
  <2> QED
    BY <2>1, <2>2, <2>3, <2>4 DEF OneRun
<1> QED
  BY <1>1, <1>2, <1>3

(* The client of an agent tells the end of a prompt only from that         *)
(* prompt's own end, whatever a request reads ahead of its response, unless*)
(* the prompt was sent while the sidecar was shutting down; and a run it   *)
(* waits for is still owed its end: next_step, request and the sidecar,    *)
(* for any number of prompts, cancels and requests.                        *)
THEOREM ClientAnswers == ClientSpec => []TurnsAnswered
<1>1. ClientIInv => TurnsAnswered
  BY PlacedIsOwed DEF ClientIInv, TurnsAnswered
<1> QED
  BY <1>1, ClientStarts, ClientSteps, PTL DEF ClientSpec
=============================================================================
