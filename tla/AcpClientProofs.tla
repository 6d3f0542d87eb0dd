-------------------------- MODULE AcpClientProofs --------------------------
(* Proofs about the client of an agent that speaks ACP, for any number of  *)
(* turns, faults and questions.  The invariant says where a prompt can be  *)
(* (AcpPrompted), where an update can be next to the end of its turn       *)
(* (AcpInTurn), what the stages of the connection allow (AcpStaged), that  *)
(* the question is in one place (AcpAskedOnce), and that the turn is under *)
(* way (AcpTold).                                                          *)
EXTENDS AcpClient, SequenceTheorems, FiniteSetTheorems, TLAPS

(* The messages of the queues, and the records of the four parties.        *)
AcpCommand == {m \in [kind : {"install", "prompt", "cancel", "answer", "config",
                              "close", "shutdown"}, id : Int] :
                 IF m.kind = "prompt" THEN m.id > 0 ELSE m.kind = "answer" \/ m.id = 0}
AcpAsked == {m \in [kind : Handshakes \cup {"prompt", "cancel", "config", "close"},
                    id : Int] :
               IF m.kind = "prompt" THEN m.id > 0 ELSE m.id = 0}
AcpWritten == {m \in [kind : {"update", "ask", "permission", "response", "refusal"},
                      id : Int] :
                 /\ m.kind = "update" => m.id >= 0
                 /\ m.kind = "ask" => m.id = 1
                 /\ m.kind = "refusal" => m.id <= 0}
AcpEvent == {m \in [kind : {"update", "ask", "finished", "exited"}, id : Int] :
               /\ m.kind = "update" => m.id > 0
               /\ m.kind = "ask" => m.id = 1
               /\ m.kind = "exited" => m.id = 0}
AcpActor == [st : {"none", "starting", "live", "failed", "closing", "torn"},
             busy : BOOLEAN, turn : Nat, next : Nat \ {0}, wait : Int, shown : SUBSET Nat,
             asked : BOOLEAN, told : SUBSET Nat, gone : BOOLEAN, faults : Nat,
             configs : Nat]
AcpLoop == [st : Handshakes \cup {"none", "ready", "failed", "idle", "config",
                                  "close", "replay", "over"},
            suppress : BOOLEAN, asks : SUBSET {1}, woken : SUBSET Nat,
            reply : {"none", "response", "refusal"}, live : BOOLEAN,
            caps : SUBSET {"resume", "load", "close"}, resuming : BOOLEAN]
AcpAgent == [st : {"up", "down"}, in : Seq(AcpAsked), works : SUBSET Nat,
             wrote : SUBSET Nat, asked : BOOLEAN, answers : Nat]

AcpTyped == /\ ac \in AcpActor /\ lp \in AcpLoop /\ peer \in AcpAgent
            /\ cq \in Seq(AcpCommand) /\ wr \in Seq(AcpWritten) /\ ev \in Seq(AcpEvent)

(* At most one place of a queue has the message. *)
OnceIn(s, kind, id) ==
    \A i, j \in DOMAIN s : s[i] = AcpMsg(kind, id) /\ s[j] = AcpMsg(kind, id) => i = j

(* The number of a prompt that has begun. *)
Begun(id, n) == id > 0 /\ (id < n \/ n > MaxAcpTurns)

(* A prompt is in one place: a queue on its way out, with the agent, or on *)
(* its way back; while the agent is up it is not ended before it is done.  *)
Prompted(n, told, works, dead, woken, c, i, w, e) ==
    /\ \A id \in Int : Queued(c, "prompt", id) \/ Queued(i, "prompt", id) =>
          /\ Begun(id, n) /\ id \notin works /\ id \notin woken /\ id \notin told
          /\ ~Queued(w, "response", id) /\ ~Queued(e, "finished", id)
    /\ \A id \in Int : ~Queued(c, "prompt", id) \/ ~Queued(i, "prompt", id)
    /\ \A id \in Int : OnceIn(c, "prompt", id) /\ OnceIn(i, "prompt", id)
    /\ \A id \in works : Begun(id, n) /\ id \notin woken
    /\ \A id \in woken \cup told : Begun(id, n)
    /\ \A id \in Int : Queued(w, "response", id) /\ id > 0 =>
                            Begun(id, n) /\ id \notin works
    /\ \A id \in Int : Queued(e, "finished", id) => Begun(id, n)
    /\ \A id \in works : id \in told \/ Queued(e, "finished", id) => dead

(* In a queue an update comes before the end of its turn.                  *)
UpdateFirst(s, kind, id) ==
    \A i, j \in DOMAIN s : s[i] = AcpMsg("update", id) /\ s[j] = AcpMsg(kind, id) => i < j
Led(s, id) ==
    \A j \in DOMAIN s : s[j] = AcpMsg("finished", id) =>
        \E i \in DOMAIN s : i < j /\ s[i] = AcpMsg("update", id)

(* What was said in a turn comes before the end of it, in the stream, in   *)
(* the events and in the transcript; nothing of an earlier session comes.  *)
InTurn(told, shown, works, wrote, over, woken, w, e) ==
    /\ \A id \in Int : id > 0 => UpdateFirst(w, "response", id)
    /\ \A id \in woken : ~Queued(w, "update", id)
    /\ \A id \in Int : (Queued(e, "finished", id) \/ id \in told) /\ id \notin works
                         /\ ~over => ~Queued(w, "update", id)
    /\ \A id \in wrote : Queued(w, "update", id) \/ Queued(e, "update", id)
                            \/ id \in shown
    /\ \A id \in wrote \ works : ~Queued(w, "update", id) => id \in shown \/ Led(e, id)
    /\ \A id \in (told \cap wrote) \ works : ~Queued(w, "update", id) => id \in shown
    /\ 0 \notin shown

(* Nothing has been said before the first prompt.                          *)
Blank(a, l, p, c, e) ==
    /\ c = <<>> /\ e = <<>> /\ a.turn = 0 /\ a.wait = NoCmd /\ ~a.gone
    /\ a.told = {} /\ a.shown = {} /\ l.woken = {}
    /\ p.works = {} /\ p.wrote = {}
    /\ \A kind \in {"prompt", "config", "close"}, id \in Int : ~Queued(p.in, kind, id)

(* The request of the handshake is asked, is answered, or its answer has   *)
(* been read.                                                              *)
OnHand(l, i, w) ==
    \/ l.reply # "none" /\ i = <<>> /\ w = <<>>
    \/ l.reply = "none" /\ i = <<AcpMsg(l.st, 0)>> /\ w = <<>>
    \/ /\ l.reply = "none" /\ i = <<>>
       /\ \E kind \in {"response", "refusal"} :
             \/ w = <<AcpMsg(kind, 0)>>
             \/ l.st = "load" /\ w = <<AcpMsg("update", 0), AcpMsg(kind, 0)>>

(* What a restored session replays is there only while it is suppressed.   *)
Past(l, i, w) ==
    Queued(w, "update", Replayed) \/ Queued(i, "load", 0) =>
        l.suppress /\ l.st \in {"load", "failed", "over"}

(* An adopted connection is read only, and has the one turn.               *)
Adopted(a, l, p, c, w, e) ==
    /\ c = <<>> /\ p.in = <<>> /\ l.woken = {} /\ ~l.suppress /\ a.wait = NoCmd
    /\ a.turn \in {0, 1} /\ p.works \subseteq {1} /\ a.st \in {"live", "torn"}
    /\ \A id \in Int : Queued(w, "response", id) => id = 1
    /\ a.next > MaxAcpTurns /\ a.configs >= MaxAcpAsks /\ ~a.asked
    /\ ~Queued(e, "ask", 1)

(* What the stages of the actor and of the connection allow.               *)
Staged(a, l, p, c, w, e) ==
    /\ a.st = "none" <=> l.st = "none"
    /\ a.st = "starting" <=> l.st \in Handshakes \cup {"ready", "failed"}
    /\ a.st = "failed" => l.st = "over"
    /\ a.st \in {"none", "starting"} => Blank(a, l, p, c, e)
    /\ a.st \in {"none", "starting"} => \A i \in DOMAIN w : w[i].id = 0
    /\ a.st = "none" => p.in = <<>> /\ w = <<>> /\ ~l.suppress /\ a.next = 1
                        /\ l.reply = "none" /\ ~a.asked
    /\ l.st \in Handshakes => OnHand(l, p.in, w)
    /\ Past(l, p.in, w)
    /\ l.suppress => /\ p.works = {} /\ p.wrote = {}
                     /\ \A id \in Int : ~Queued(p.in, "prompt", id)
    /\ l.st = "load" => l.suppress
    /\ l.suppress /\ l.st \in {"idle", "config", "close"} =>
          l.st = "idle" /\ c # <<>> /\ Head(c).kind = "install"
    /\ l.st = "over" \/ Queued(c, "shutdown", 0) => p.st = "down"
    /\ l.st = "replay" => Adopted(a, l, p, c, w, e)
    /\ Queued(e, "exited", 0) \/ a.gone => l.st = "over"

(* The question is in the stream, open or answered, never two of these.    *)
AskedOnce(asked, answers, asks, w) ==
    /\ answers \in {0, 1} /\ (answers = 1 => asks = {})
    /\ ~asked => answers = 0 /\ asks = {} /\ ~Queued(w, "ask", 1)
    /\ Queued(w, "ask", 1) => answers = 0 /\ asks = {}
    /\ OnceIn(w, "ask", 1)

AcpPrompted == Prompted(ac.next, ac.told, peer.works, peer.st = "down", lp.woken,
                        cq, peer.in, wr, ev)
AcpInTurn == InTurn(ac.told, ac.shown, peer.works, peer.wrote, lp.st = "over",
                    lp.woken, wr, ev)
AcpStaged == Staged(ac, lp, peer, cq, wr, ev)
AcpAskedOnce == AskedOnce(peer.asked, peer.answers, lp.asks, wr)
AcpTold == ac.turn # 0 => UnderWay(ac.turn)

AcpIInv == AcpTyped /\ AcpPrompted /\ AcpInTurn /\ AcpStaged /\ AcpAskedOnce /\ AcpTold

-----------------------------------------------------------------------------
(* Queues of messages. *)
LEMMA MsgIs ==
    ASSUME NEW K, NEW m \in [kind : K, id : Int], NEW kind, NEW id
    PROVE  m = AcpMsg(kind, id) <=> m.kind = kind /\ m.id = id
<1>1. m = [kind |-> m.kind, id |-> m.id]
  OBVIOUS
<1> QED
  BY <1>1 DEF AcpMsg

LEMMA MsgGrown ==
    ASSUME NEW S, NEW s \in Seq(S), NEW x \in S, NEW kind, NEW id
    PROVE  /\ Queued(Append(s, x), kind, id)
                <=> Queued(s, kind, id) \/ x = AcpMsg(kind, id)
           /\ OnceIn(s, kind, id) /\ ~(Queued(s, kind, id) /\ x = AcpMsg(kind, id))
                => OnceIn(Append(s, x), kind, id)
<1> DEFINE t == Append(s, x)
<1>1. /\ t \in Seq(S) /\ Len(t) = Len(s) + 1 /\ Len(s) \in Nat
      /\ \A i \in 1..Len(s) : t[i] = s[i]
      /\ t[Len(s) + 1] = x /\ DOMAIN t = 1..(Len(s) + 1) /\ DOMAIN s = 1..Len(s)
  OBVIOUS
<1> HIDE DEF t
<1>2. \A i \in DOMAIN t : i \in DOMAIN s \/ i = Len(s) + 1
  BY <1>1
<1>3. Len(s) + 1 \in DOMAIN t /\ \A i \in DOMAIN s : i \in DOMAIN t /\ t[i] = s[i]
  BY <1>1
<1>4. Queued(t, kind, id) <=> Queued(s, kind, id) \/ x = AcpMsg(kind, id)
  BY <1>1, <1>2, <1>3 DEF Queued
<1>5. OnceIn(s, kind, id) /\ ~(Queued(s, kind, id) /\ x = AcpMsg(kind, id))
        => OnceIn(t, kind, id)
  BY <1>1, <1>2, <1>3 DEF Queued, OnceIn
<1> QED
  BY <1>4, <1>5 DEF t

LEMMA MsgTail ==
    ASSUME NEW S, NEW s \in Seq(S), s # <<>>
    PROVE  /\ Tail(s) \in Seq(S) /\ Head(s) \in S /\ Len(s) \in Nat /\ Head(s) = s[1]
           /\ 1 \in DOMAIN s /\ DOMAIN s \subseteq Int /\ DOMAIN Tail(s) \subseteq Int
           /\ \A i \in DOMAIN s : i = 1 \/ (i - 1 \in DOMAIN Tail(s) /\ i > 1)
           /\ \A i \in DOMAIN Tail(s) : i + 1 \in DOMAIN s /\ Tail(s)[i] = s[i + 1]
                                        /\ i >= 1
           /\ \A i \in DOMAIN s \ {1} : Tail(s)[i - 1] = s[i]
<1> DEFINE t == Tail(s)
<1>1. /\ t \in Seq(S) /\ Head(s) \in S /\ Len(t) = Len(s) - 1 /\ Len(s) \in Nat
      /\ Len(s) >= 1 /\ Head(s) = s[1]
      /\ \A i \in 1..(Len(s) - 1) : t[i] = s[i + 1]
      /\ DOMAIN t = 1..(Len(s) - 1) /\ DOMAIN s = 1..Len(s)
  OBVIOUS
<1> HIDE DEF t
<1>2. \A i \in DOMAIN s : i = 1 \/ (i - 1 \in DOMAIN t /\ i > 1)
  <2>1. \A n \in Nat : \A i \in 1..n : i = 1 \/ (i - 1 \in 1..(n - 1) /\ i > 1)
    OBVIOUS
  <2>2. DOMAIN s = 1..Len(s) /\ DOMAIN t = 1..(Len(s) - 1)
    BY <1>1
  <2> QED
    BY <1>1, <2>1, <2>2
<1>3. \A i \in DOMAIN t : i + 1 \in DOMAIN s /\ t[i] = s[i + 1] /\ i >= 1
  BY <1>1
<1>4. \A i \in DOMAIN s \ {1} : t[i - 1] = s[i]
  <2> TAKE i \in DOMAIN s \ {1}
  <2>1. i - 1 \in DOMAIN t /\ (i - 1) + 1 = i
    BY <1>1, <1>2
  <2> QED
    BY <1>3, <2>1
<1>5. 1 \in DOMAIN s /\ DOMAIN s \subseteq Int /\ DOMAIN t \subseteq Int
  BY <1>1
<1> QED
  BY <1>1, <1>2, <1>3, <1>4, <1>5 DEF t

LEMMA MsgShrunk ==
    ASSUME NEW S, NEW s \in Seq(S), s # <<>>, NEW kind, NEW id
    PROVE  /\ Queued(s, kind, id)
                <=> Head(s) = AcpMsg(kind, id) \/ Queued(Tail(s), kind, id)
           /\ OnceIn(s, kind, id) => /\ OnceIn(Tail(s), kind, id)
                                     /\ Head(s) # AcpMsg(kind, id)
                                          \/ ~Queued(Tail(s), kind, id)
<1> DEFINE t == Tail(s)
           Is(m) == m = AcpMsg(kind, id)
<1>1. /\ Head(s) = s[1] /\ 1 \in DOMAIN s /\ DOMAIN s \subseteq Int /\ DOMAIN t \subseteq Int
      /\ \A i \in DOMAIN s : i = 1 \/ (i - 1 \in DOMAIN t /\ i > 1)
      /\ \A i \in DOMAIN t : i + 1 \in DOMAIN s /\ t[i] = s[i + 1] /\ i >= 1
      /\ \A i \in DOMAIN s \ {1} : t[i - 1] = s[i]
  BY MsgTail
<1> HIDE DEF t, Is
<1>2. (\E i \in DOMAIN s : Is(s[i])) <=> Is(Head(s)) \/ \E i \in DOMAIN t : Is(t[i])
  BY <1>1
<1>3. ASSUME \A i, j \in DOMAIN s : Is(s[i]) /\ Is(s[j]) => i = j
      PROVE  /\ \A i, j \in DOMAIN t : Is(t[i]) /\ Is(t[j]) => i = j
             /\ ~Is(Head(s)) \/ ~\E i \in DOMAIN t : Is(t[i])
  <2>1. ASSUME NEW i \in DOMAIN t, NEW j \in DOMAIN t, Is(t[i]), Is(t[j])
        PROVE  i = j
    <3>1. i + 1 = j + 1
      BY <1>1, <1>3, <2>1
    <3> QED
      BY <1>1, <3>1
  <2>2. ASSUME NEW i \in DOMAIN t, Is(t[i]), Is(Head(s)) PROVE FALSE
    <3>1. i + 1 = 1
      BY <1>1, <1>3, <2>2
    <3> QED
      BY <1>1, <3>1
  <2> QED
    BY <2>1, <2>2
<1> QED
  BY <1>2, <1>3 DEF t, Is, Queued, OnceIn

(* The order of an update and the end of its turn. *)
LEMMA FirstGrown ==
    ASSUME NEW S, NEW s \in Seq(S), NEW x \in S, NEW kind, NEW id, kind # "update",
           UpdateFirst(s, kind, id),
           x # AcpMsg("update", id) \/ ~Queued(s, kind, id)
    PROVE  UpdateFirst(Append(s, x), kind, id)
<1> DEFINE t == Append(s, x)
<1>1. /\ \A i \in DOMAIN s : t[i] = s[i] /\ i < Len(s) + 1
      /\ t[Len(s) + 1] = x /\ \A i \in DOMAIN t : i \in DOMAIN s \/ i = Len(s) + 1
  <2>1. /\ Len(s) \in Nat /\ DOMAIN s = 1..Len(s) /\ DOMAIN t = 1..(Len(s) + 1)
        /\ \A i \in 1..Len(s) : t[i] = s[i]
        /\ t[Len(s) + 1] = x
    OBVIOUS
  <2> QED
    BY <2>1
<1> HIDE DEF t
<1>2. AcpMsg("update", id) # AcpMsg(kind, id)
  BY DEF AcpMsg
<1>3. ASSUME NEW i \in DOMAIN t, NEW j \in DOMAIN t, t[i] = AcpMsg("update", id),
             t[j] = AcpMsg(kind, id)
      PROVE  i < j
  BY <1>1, <1>2, <1>3 DEF UpdateFirst, Queued
<1> QED
  BY <1>3 DEF UpdateFirst, t

LEMMA FirstShrunk ==
    ASSUME NEW S, NEW s \in Seq(S), s # <<>>, NEW kind, NEW id,
           UpdateFirst(s, kind, id)
    PROVE  /\ UpdateFirst(Tail(s), kind, id)
           /\ Head(s) = AcpMsg(kind, id) => ~Queued(s, "update", id)
<1> DEFINE t == Tail(s)
<1>1. /\ Head(s) = s[1] /\ 1 \in DOMAIN s /\ DOMAIN s \subseteq Int /\ DOMAIN t \subseteq Int
      /\ \A i \in DOMAIN s : i >= 1
      /\ \A i \in DOMAIN t : i + 1 \in DOMAIN s /\ t[i] = s[i + 1] /\ i >= 1
  <2>1. \A i \in DOMAIN s : i = 1 \/ i > 1
    BY MsgTail
  <2> QED
    BY <2>1, MsgTail
<1> HIDE DEF t
<1>2. ASSUME NEW i \in DOMAIN t, NEW j \in DOMAIN t, t[i] = AcpMsg("update", id),
             t[j] = AcpMsg(kind, id)
      PROVE  i < j
  <2>1. i + 1 < j + 1
    BY <1>1, <1>2 DEF UpdateFirst
  <2> QED
    BY <1>1, <2>1
<1>3. ASSUME Head(s) = AcpMsg(kind, id), NEW i \in DOMAIN s, s[i] = AcpMsg("update", id)
      PROVE  FALSE
  <2>1. i < 1
    BY <1>1, <1>3 DEF UpdateFirst
  <2> QED
    BY <1>1, <2>1
<1> QED
  BY <1>2, <1>3 DEF UpdateFirst, Queued, t

LEMMA LedGrown ==
    ASSUME NEW S, NEW s \in Seq(S), NEW x \in S, NEW id,
           Led(s, id) \/ ~Queued(s, "finished", id),
           x # AcpMsg("finished", id) \/ Queued(s, "update", id)
    PROVE  Led(Append(s, x), id)
<1> DEFINE t == Append(s, x)
<1>1. /\ \A i \in DOMAIN s : i \in DOMAIN t /\ t[i] = s[i] /\ i < Len(s) + 1
      /\ t[Len(s) + 1] = x /\ \A i \in DOMAIN t : i \in DOMAIN s \/ i = Len(s) + 1
  <2>1. /\ Len(s) \in Nat /\ DOMAIN s = 1..Len(s) /\ DOMAIN t = 1..(Len(s) + 1)
        /\ \A i \in 1..Len(s) : t[i] = s[i]
        /\ t[Len(s) + 1] = x
    OBVIOUS
  <2> QED
    BY <2>1
<1> HIDE DEF t
<1>2. ASSUME NEW j \in DOMAIN t, t[j] = AcpMsg("finished", id)
      PROVE  \E i \in DOMAIN t : i < j /\ t[i] = AcpMsg("update", id)
  <2>1. CASE j \in DOMAIN s
    <3>1. \E i \in DOMAIN s : i < j /\ s[i] = AcpMsg("update", id)
      BY <1>1, <1>2, <2>1 DEF Led, Queued
    <3> QED
      BY <1>1, <3>1
  <2>2. CASE j = Len(s) + 1
    <3>1. \E i \in DOMAIN s : s[i] = AcpMsg("update", id)
      BY <1>1, <1>2, <2>2 DEF Queued
    <3> QED
      BY <1>1, <2>2, <3>1
  <2> QED
    BY <1>1, <2>1, <2>2
<1> QED
  BY <1>2 DEF Led, t

LEMMA LedShrunk ==
    ASSUME NEW S, NEW s \in Seq(S), s # <<>>, NEW id, Led(s, id)
    PROVE  /\ Head(s) # AcpMsg("update", id) => Led(Tail(s), id)
           /\ Head(s) # AcpMsg("finished", id)
<1> DEFINE t == Tail(s)
<1>1. /\ Head(s) = s[1] /\ 1 \in DOMAIN s /\ DOMAIN s \subseteq Int /\ DOMAIN t \subseteq Int
      /\ \A i \in DOMAIN s : i = 1 \/ (i - 1 \in DOMAIN t /\ i > 1)
      /\ \A i \in DOMAIN t : i + 1 \in DOMAIN s /\ t[i] = s[i + 1] /\ i >= 1
      /\ \A i \in DOMAIN s \ {1} : t[i - 1] = s[i]
  BY MsgTail
<1> HIDE DEF t
<1>2. ASSUME Head(s) # AcpMsg("update", id), NEW j \in DOMAIN t,
             t[j] = AcpMsg("finished", id)
      PROVE  \E i \in DOMAIN t : i < j /\ t[i] = AcpMsg("update", id)
  <2>1. PICK i \in DOMAIN s : i < j + 1 /\ s[i] = AcpMsg("update", id)
    BY <1>1, <1>2 DEF Led
  <2>2. i # 1 /\ i - 1 \in DOMAIN t /\ t[i - 1] = AcpMsg("update", id)
    BY <1>1, <1>2, <2>1
  <2>3. i - 1 < j
    BY <1>1, <2>1
  <2> QED
    BY <2>2, <2>3
<1>3. Head(s) # AcpMsg("finished", id)
  <2> SUFFICES ASSUME Head(s) = AcpMsg("finished", id) PROVE FALSE
    OBVIOUS
  <2>1. PICK i \in DOMAIN s : i < 1
    BY <1>1 DEF Led
  <2> QED
    BY <1>1, <2>1
<1> QED
  BY <1>2, <1>3 DEF Led, t

-----------------------------------------------------------------------------
(* What the types say. *)
LEMMA AcpFacts ==
    ASSUME AcpTyped
    PROVE  /\ ac \in AcpActor /\ lp \in AcpLoop /\ peer \in AcpAgent
           /\ cq \in Seq(AcpCommand) /\ wr \in Seq(AcpWritten) /\ ev \in Seq(AcpEvent)
           /\ peer.in \in Seq(AcpAsked)
           /\ ac.turn \in Nat /\ ac.next \in Nat \ {0} /\ ac.wait \in Int /\ ac.faults \in Nat
           /\ ac.configs \in Nat /\ ac.shown \subseteq Nat /\ ac.told \subseteq Nat
           /\ lp.asks \in SUBSET {1} /\ lp.woken \subseteq Nat
           /\ peer.works \subseteq Nat /\ peer.wrote \subseteq Nat
           /\ MaxAcpTurns \in Nat
<1>1. ac \in AcpActor /\ lp \in AcpLoop /\ peer \in AcpAgent
  BY DEF AcpTyped
<1>2. /\ ac.turn \in Nat /\ ac.next \in Nat \ {0} /\ ac.wait \in Int /\ ac.faults \in Nat
      /\ ac.configs \in Nat /\ ac.shown \subseteq Nat /\ ac.told \subseteq Nat
  BY <1>1 DEF AcpActor
<1>3. lp.asks \in SUBSET {1} /\ lp.woken \subseteq Nat
  BY <1>1 DEF AcpLoop
<1>4. peer.in \in Seq(AcpAsked) /\ peer.works \subseteq Nat /\ peer.wrote \subseteq Nat
  BY <1>1 DEF AcpAgent
<1>5. MaxAcpTurns \in Nat
  BY AcpAssumption
<1> QED
  BY <1>1, <1>2, <1>3, <1>4, <1>5 DEF AcpTyped

(* What a command or an answer writes keeps the type of the actor.         *)
LEMMA ActorUpdates ==
    ASSUME NEW a \in AcpActor, NEW w \in Int, NEW b \in BOOLEAN
    PROVE  /\ [a EXCEPT !.wait = w, !.asked = b] \in AcpActor
           /\ [a EXCEPT !.wait = w, !.configs = @ + 1] \in AcpActor
           /\ [a EXCEPT !.wait = w, !.busy = b] \in AcpActor
           /\ [a EXCEPT !.st = "closing", !.wait = w] \in AcpActor
           /\ [a EXCEPT !.st = "closing"] \in AcpActor
           /\ [a EXCEPT !.busy = b, !.wait = w, !.next = @ + 1] \in AcpActor
           /\ [a EXCEPT !.next = @ + 1] \in AcpActor
           /\ [a EXCEPT !.busy = b] \in AcpActor
           /\ \A t \in Nat : /\ [a EXCEPT !.wait = w, !.turn = t, !.busy = b] \in AcpActor
                             /\ [a EXCEPT !.gone = b, !.turn = t] \in AcpActor
           /\ [a EXCEPT !.asked = b] \in AcpActor
<1>1. a.configs + 1 \in Nat /\ a.next + 1 \in Nat \ {0}
  BY DEF AcpActor
<1>2. [a EXCEPT !.wait = w, !.asked = b] \in AcpActor
  BY DEF AcpActor
<1>3. [a EXCEPT !.wait = w, !.configs = @ + 1] \in AcpActor
  BY <1>1 DEF AcpActor
<1>4. [a EXCEPT !.wait = w, !.busy = b] \in AcpActor
  BY DEF AcpActor
<1>5. [a EXCEPT !.st = "closing", !.wait = w] \in AcpActor
  BY DEF AcpActor
<1>6. [a EXCEPT !.st = "closing"] \in AcpActor
  BY DEF AcpActor
<1>7. [a EXCEPT !.busy = b, !.wait = w, !.next = @ + 1] \in AcpActor
  BY <1>1 DEF AcpActor
<1>8. [a EXCEPT !.next = @ + 1] \in AcpActor
  BY <1>1 DEF AcpActor
<1>9. [a EXCEPT !.busy = b] \in AcpActor /\ [a EXCEPT !.asked = b] \in AcpActor
  BY DEF AcpActor
<1>10. \A t \in Nat : [a EXCEPT !.wait = w, !.turn = t, !.busy = b] \in AcpActor
  BY DEF AcpActor
<1>11. \A t \in Nat : [a EXCEPT !.gone = b, !.turn = t] \in AcpActor
  BY DEF AcpActor
<1> QED
  BY <1>2, <1>3, <1>4, <1>5, <1>6, <1>7, <1>8, <1>9, <1>10, <1>11

-----------------------------------------------------------------------------
(* The start of a connection. *)
LEMMA SpawnInternalKeeps == ASSUME AcpIInv, SpawnInternal PROVE AcpIInv'
<1> DEFINE m == AcpMsg("initialize", 0)
<1>1. /\ ac.st = "none" /\ ac' = [ac EXCEPT !.st = "starting"]
      /\ lp' = [lp EXCEPT !.st = "initialize"]
      /\ peer' = [AcpTell(m) EXCEPT !.st = "up"]
      /\ cq' = cq /\ wr' = wr /\ ev' = ev
  BY DEF SpawnInternal
<1>2. AcpTyped
  BY DEF AcpIInv
<1>3. m \in AcpAsked /\ m.kind = "initialize" /\ m = AcpMsg("initialize", 0)
  BY DEF AcpMsg, AcpAsked, Handshakes
<1> HIDE DEF m
<1>4. lp.st = "none" /\ peer.in = <<>> /\ wr = <<>> /\ lp.reply = "none" /\ ~lp.suppress
      /\ Blank(ac, lp, peer, cq, ev)
  BY <1>1 DEF AcpIInv, AcpStaged, Staged
<1>5. peer' = [peer EXCEPT !.in = Append(@, m), !.st = "up"]
  BY <1>1, <1>2, AcpFacts DEF AcpTell, AcpAgent
<1>6. Append(peer.in, m) = <<m>> /\ Append(peer.in, m) \in Seq(AcpAsked)
  BY <1>3, <1>4
<1>7. /\ ac'.st = "starting" /\ ac'.turn = ac.turn /\ ac'.next = ac.next
      /\ ac'.wait = ac.wait /\ ac'.shown = ac.shown /\ ac'.asked = ac.asked
      /\ ac'.told = ac.told /\ ac'.gone = ac.gone /\ ac'.configs = ac.configs
      /\ lp'.st = "initialize" /\ lp'.suppress = lp.suppress
      /\ lp'.asks = lp.asks /\ lp'.woken = lp.woken /\ lp'.reply = lp.reply
      /\ peer'.st = "up" /\ peer'.in = <<m>> /\ peer'.works = peer.works
      /\ peer'.wrote = peer.wrote /\ peer'.asked = peer.asked
      /\ peer'.answers = peer.answers
  BY <1>1, <1>2, <1>5, <1>6, AcpFacts DEF AcpActor, AcpLoop, AcpAgent
<1>8. AcpTyped'
  <2>1. ac' \in AcpActor
    BY <1>1, <1>2, AcpFacts DEF AcpActor
  <2>2. lp' \in AcpLoop
    BY <1>1, <1>2, AcpFacts DEF AcpLoop, Handshakes
  <2>3. peer' \in AcpAgent
    BY <1>2, <1>5, <1>6, AcpFacts DEF AcpAgent
  <2> QED
    BY <1>1, <1>2, <2>1, <2>2, <2>3 DEF AcpTyped
<1>9. \A kind, id : ~Queued(<<>>, kind, id)
  BY DEF Queued
<1>10. \A kind, id : Queued(<<m>>, kind, id) => kind = "initialize"
  BY <1>3, MsgIs DEF Queued, AcpAsked, AcpMsg
<1>11. \A id \in Int : OnceIn(<<m>>, "prompt", id) /\ OnceIn(<<>>, "prompt", id)
  BY DEF OnceIn
<1>12. AcpPrompted'
  BY <1>1, <1>4, <1>7, <1>9, <1>10, <1>11 DEF AcpPrompted, Prompted, Blank
<1>13. AcpInTurn'
  BY <1>1, <1>4, <1>7 DEF AcpInTurn, InTurn, AcpIInv, Blank
<1>14. AcpStaged'
  BY <1>1, <1>3, <1>4, <1>7, <1>9, <1>10
     DEF AcpStaged, Staged, OnHand, Past, Blank, Handshakes
<1>15. AcpAskedOnce'
  BY <1>1, <1>7 DEF AcpAskedOnce, AskedOnce, AcpIInv
<1>16. AcpTold'
  BY <1>4, <1>7 DEF AcpTold, Blank
<1> QED
  BY <1>8, <1>12, <1>13, <1>14, <1>15, <1>16 DEF AcpIInv
LEMMA EmptyQueue ==
    /\ \A kind, id : ~Queued(<<>>, kind, id) /\ OnceIn(<<>>, kind, id)
    /\ \A m, kind, id : OnceIn(<<m>>, kind, id)
    /\ \A m, kind, id : Queued(<<m>>, kind, id) <=> m = AcpMsg(kind, id)
  BY DEF Queued, OnceIn

LEMMA FaultedActor ==
    ASSUME NEW a \in AcpActor
    PROVE  AcpFaulted(a) \in AcpActor
<1>1. a.faults + 1 \in Nat
  BY DEF AcpActor
<1> QED
  BY <1>1 DEF AcpFaulted, AcpActor

LEMMA HandshakeKeeps == ASSUME AcpIInv, Handshake PROVE AcpIInv'
<1> DEFINE next == HandshakeNext(lp, lp.reply = "response")
           m == AcpMsg(next, 0)
<1>1. /\ lp.st \in Handshakes /\ lp.reply # "none"
      /\ lp' = [lp EXCEPT !.st = next, !.reply = "none",
                   !.suppress = @ \/ next \in {"resume", "load"},
                   !.live = @ \/ next = "ready"]
      /\ peer' = IF next \in Handshakes THEN AcpTell(m) ELSE peer
      /\ ac' = ac /\ cq' = cq /\ wr' = wr /\ ev' = ev
  BY DEF Handshake
<1>2. AcpTyped
  BY DEF AcpIInv
<1>3. next \in {"resume", "load", "new", "pin", "ready", "failed"}
  BY <1>1 DEF HandshakeNext, Restores, Handshakes
<1>4. m.kind = next /\ m.id = 0 /\ m = AcpMsg(next, 0)
      /\ (next \in Handshakes => m \in AcpAsked)
  BY <1>3 DEF AcpMsg, AcpAsked, Handshakes
<1> HIDE DEF next, m
<1>5. peer.in = <<>> /\ wr = <<>> /\ ac.st = "starting" /\ Blank(ac, lp, peer, cq, ev)
  BY <1>1 DEF AcpIInv, AcpStaged, Staged, OnHand
<1>6. peer' = [peer EXCEPT !.in = IF next \in Handshakes THEN <<m>> ELSE <<>>]
  BY <1>1, <1>2, <1>4, <1>5, AcpFacts DEF AcpTell, AcpAgent
<1>7. <<m>> \in Seq(AcpAsked) \/ next \notin Handshakes
  BY <1>4
<1>8. /\ ac'.st = ac.st /\ ac'.turn = ac.turn /\ ac'.next = ac.next
      /\ ac'.wait = ac.wait /\ ac'.shown = ac.shown /\ ac'.asked = ac.asked
      /\ ac'.told = ac.told /\ ac'.gone = ac.gone /\ ac'.configs = ac.configs
      /\ lp'.st = next /\ lp'.asks = lp.asks /\ lp'.woken = lp.woken
      /\ lp'.reply = "none" /\ peer'.st = peer.st /\ peer'.works = peer.works
      /\ peer'.wrote = peer.wrote /\ peer'.asked = peer.asked
      /\ peer'.answers = peer.answers
      /\ peer'.in = IF next \in Handshakes THEN <<m>> ELSE <<>>
      /\ lp'.suppress = (lp.suppress \/ next \in {"resume", "load"})
  BY <1>1, <1>2, <1>6, AcpFacts DEF AcpActor, AcpLoop, AcpAgent
<1>9. AcpTyped'
  <2>1. peer' \in AcpAgent
    <3>1. (IF next \in Handshakes THEN <<m>> ELSE <<>>) \in Seq(AcpAsked)
      BY <1>7
    <3> QED
      BY <1>2, <1>6, <3>1, AcpFacts DEF AcpAgent
  <2>2. lp' \in AcpLoop
    BY <1>1, <1>2, <1>3, AcpFacts DEF AcpLoop, Handshakes
  <2> QED
    BY <1>1, <1>2, <2>1, <2>2 DEF AcpTyped
<1>10. \A kind, id : Queued(peer'.in, kind, id) => kind = next
  BY <1>4, <1>8, EmptyQueue DEF AcpMsg
<1>11. \A id \in Int : OnceIn(peer'.in, "prompt", id)
  BY <1>8, EmptyQueue
<1>12. AcpPrompted'
  BY <1>1, <1>3, <1>5, <1>8, <1>10, <1>11, EmptyQueue DEF AcpPrompted, Prompted, Blank
<1>13. AcpInTurn'
  <2>1. lp.st # "over" /\ lp'.st # "over"
    BY <1>1, <1>3, <1>8 DEF Handshakes
  <2> QED
    BY <1>1, <1>5, <1>8, <2>1 DEF AcpInTurn, InTurn, AcpIInv, Blank
<1>14. AcpStaged'
  <2>1. lp'.st \in Handshakes => OnHand(lp', peer'.in, wr')
    BY <1>1, <1>4, <1>5, <1>8 DEF OnHand
  <2>2. Past(lp', peer'.in, wr') /\ (lp'.st = "load" => lp'.suppress)
    BY <1>1, <1>5, <1>8, <1>10, EmptyQueue DEF Past
  <2>3. lp'.st \in Handshakes \cup {"ready", "failed"} /\ ac'.st = "starting"
        /\ lp'.st \notin {"none", "over", "replay", "idle", "config", "close"}
    BY <1>3, <1>5, <1>8 DEF Handshakes
  <2>4. Blank(ac', lp', peer', cq', ev')
    BY <1>1, <1>3, <1>5, <1>8, <1>10 DEF Blank
  <2>5. \A id \in Int : ~Queued(peer'.in, "prompt", id)
    BY <1>3, <1>10
  <2>6. \A i \in DOMAIN wr' : wr'[i].id = 0
    BY <1>1, <1>5 DEF AcpIInv, AcpStaged, Staged
  <2> QED
    BY <2>1, <2>2, <2>3, <2>4, <2>5, <2>6, EmptyQueue DEF AcpStaged, Staged, Blank
<1>15. AcpAskedOnce'
  BY <1>1, <1>8 DEF AcpAskedOnce, AskedOnce, AcpIInv
<1>16. AcpTold'
  BY <1>5, <1>8 DEF AcpTold, Blank
<1> QED
  BY <1>9, <1>12, <1>13, <1>14, <1>15, <1>16 DEF AcpIInv

LEMMA HandshakeFailsKeeps == ASSUME AcpIInv, HandshakeFails PROVE AcpIInv'
<1> DEFINE st == IF lp.st = "pin" THEN "ready" ELSE "failed"
<1>1. /\ lp.st \in Handshakes /\ lp.reply = "none"
      /\ ac' = IF peer.st = "up" THEN AcpFaulted(ac) ELSE ac
      /\ lp' = [lp EXCEPT !.st = st, !.live = lp.st = "pin"]
      /\ peer' = peer /\ cq' = cq /\ wr' = wr /\ ev' = ev
  BY AcpFacts DEF HandshakeFails, AcpIInv, AcpLoop
<1>2. AcpTyped
  BY DEF AcpIInv
<1>3. st \in {"ready", "failed"} /\ (lp.st # "pin" => st = "failed")
  OBVIOUS
<1> HIDE DEF st
<1>4. /\ ac'.st = ac.st /\ ac'.turn = ac.turn /\ ac'.next = ac.next
      /\ ac'.wait = ac.wait /\ ac'.shown = ac.shown /\ ac'.asked = ac.asked
      /\ ac'.told = ac.told /\ ac'.gone = ac.gone /\ ac'.configs = ac.configs
      /\ lp'.st = st /\ lp'.suppress = lp.suppress /\ lp'.asks = lp.asks
      /\ lp'.woken = lp.woken /\ lp'.reply = lp.reply /\ peer'.st = peer.st
      /\ peer'.in = peer.in /\ peer'.works = peer.works
      /\ peer'.wrote = peer.wrote /\ peer'.asked = peer.asked
      /\ peer'.answers = peer.answers
  BY <1>1, <1>2, AcpFacts DEF AcpActor, AcpLoop, AcpFaulted
<1>5. AcpTyped'
  <2>1. ac' \in AcpActor
    BY <1>1, <1>2, FaultedActor DEF AcpTyped
  <2>2. lp' \in AcpLoop
    BY <1>1, <1>2, <1>3, AcpFacts DEF AcpLoop
  <2> QED
    BY <1>1, <1>2, <2>1, <2>2 DEF AcpTyped
<1>6. ac.st = "starting" /\ Blank(ac, lp, peer, cq, ev)
  BY <1>1 DEF AcpIInv, AcpStaged, Staged
<1>7. AcpPrompted'
  BY <1>1, <1>4 DEF AcpPrompted, AcpIInv
<1>8. AcpInTurn'
  <2>1. lp.st # "over" /\ lp'.st # "over"
    BY <1>1, <1>3, <1>4 DEF Handshakes
  <2> QED
    BY <1>1, <1>4, <2>1 DEF AcpInTurn, AcpIInv
<1>9. AcpStaged'
  BY <1>1, <1>3, <1>4, <1>6 DEF AcpIInv, AcpStaged, Staged, Past, Blank, Handshakes
<1>10. AcpAskedOnce'
  BY <1>1, <1>4 DEF AcpAskedOnce, AskedOnce, AcpIInv
<1>11. AcpTold'
  BY <1>4, <1>6 DEF AcpTold, Blank
<1> QED
  BY <1>5, <1>7, <1>8, <1>9, <1>10, <1>11 DEF AcpIInv

LEMMA SpawnReadyKeeps == ASSUME AcpIInv, SpawnReady PROVE AcpIInv'
<1> DEFINE m == AcpMsg("install", 0)
<1>1. /\ ac.st = "starting" /\ lp.st = "ready" /\ ac' = [ac EXCEPT !.st = "live"]
      /\ lp' = [lp EXCEPT !.st = "idle", !.caps = @ \cap {"close"}, !.resuming = FALSE]
      /\ cq' = IF lp.suppress THEN <<m>> ELSE <<>>
      /\ ev' = IF lp.suppress THEN <<>> ELSE ev
      /\ peer' = peer /\ wr' = wr
  BY DEF SpawnReady, Install
<1>2. AcpTyped
  BY DEF AcpIInv
<1>3. m.kind = "install" /\ m \in AcpCommand /\ Head(<<m>>) = m /\ <<m>> # <<>>
      /\ <<m>> \in Seq(AcpCommand) /\ <<>> \in Seq(AcpCommand)
  BY DEF AcpMsg, AcpCommand
<1> HIDE DEF m
<1>4. /\ ac'.st = "live" /\ ac'.turn = ac.turn /\ ac'.next = ac.next
      /\ ac'.wait = ac.wait /\ ac'.shown = ac.shown /\ ac'.asked = ac.asked
      /\ ac'.told = ac.told /\ ac'.gone = ac.gone /\ ac'.configs = ac.configs
      /\ lp'.st = "idle" /\ lp'.suppress = lp.suppress /\ lp'.asks = lp.asks
      /\ lp'.woken = lp.woken /\ lp'.reply = lp.reply /\ peer'.st = peer.st
      /\ peer'.in = peer.in /\ peer'.works = peer.works
      /\ peer'.wrote = peer.wrote /\ peer'.asked = peer.asked
      /\ peer'.answers = peer.answers
  BY <1>1, <1>2, AcpFacts DEF AcpActor, AcpLoop
<1>5. Blank(ac, lp, peer, cq, ev)
  BY <1>1 DEF AcpIInv, AcpStaged, Staged
<1>6. ev' = ev
  BY <1>1, <1>5 DEF Blank
<1>7. AcpTyped'
  <2>1. ac' \in AcpActor
    BY <1>1, <1>2, AcpFacts DEF AcpActor
  <2>2. lp' \in AcpLoop
    BY <1>1, <1>2, AcpFacts DEF AcpLoop
  <2> QED
    BY <1>1, <1>2, <1>3, <1>6, <2>1, <2>2 DEF AcpTyped
<1>8. /\ \A id \in Int : ~Queued(cq', "prompt", id) /\ OnceIn(cq', "prompt", id)
      /\ ~Queued(cq', "shutdown", 0)
  BY <1>1, <1>3, EmptyQueue DEF AcpMsg
<1>9. AcpPrompted'
  BY <1>1, <1>4, <1>6, <1>8 DEF AcpPrompted, Prompted, AcpIInv
<1>10. AcpInTurn'
  BY <1>1, <1>4, <1>6 DEF AcpInTurn, AcpIInv
<1>11. AcpStaged'
  BY <1>1, <1>3, <1>4, <1>5, <1>6, <1>8, EmptyQueue
     DEF AcpIInv, AcpStaged, Staged, Past, Blank, Handshakes
<1>12. AcpAskedOnce'
  BY <1>1, <1>4 DEF AcpAskedOnce, AskedOnce, AcpIInv
<1>13. AcpTold'
  BY <1>4, <1>5 DEF AcpTold, Blank
<1> QED
  BY <1>7, <1>9, <1>10, <1>11, <1>12, <1>13 DEF AcpIInv

LEMMA SpawnFailsKeeps == ASSUME AcpIInv, SpawnFails PROVE AcpIInv'
<1>1. /\ ac.st = "starting"
      /\ ac' = [IF lp.st = "failed" THEN ac ELSE AcpFaulted(ac) EXCEPT !.st = "failed"]
      /\ peer' = [peer EXCEPT !.st = "down"] /\ lp' = [lp EXCEPT !.st = "over"]
      /\ cq' = cq /\ wr' = wr /\ ev' = ev
  BY DEF SpawnFails
<1>2. AcpTyped
  BY DEF AcpIInv
<1>3. /\ ac'.st = "failed" /\ ac'.turn = ac.turn /\ ac'.next = ac.next
      /\ ac'.wait = ac.wait /\ ac'.shown = ac.shown /\ ac'.asked = ac.asked
      /\ ac'.told = ac.told /\ ac'.gone = ac.gone /\ ac'.configs = ac.configs
      /\ lp'.st = "over" /\ lp'.suppress = lp.suppress /\ lp'.asks = lp.asks
      /\ lp'.woken = lp.woken /\ lp'.reply = lp.reply /\ peer'.st = "down"
      /\ peer'.in = peer.in /\ peer'.works = peer.works
      /\ peer'.wrote = peer.wrote /\ peer'.asked = peer.asked
      /\ peer'.answers = peer.answers
  BY <1>1, <1>2, AcpFacts DEF AcpActor, AcpLoop, AcpAgent, AcpFaulted
<1>4. AcpTyped'
  <2>1. ac' \in AcpActor
    <3>1. \A a \in AcpActor : [a EXCEPT !.st = "failed"] \in AcpActor
      BY DEF AcpActor
    <3> QED
      BY <1>1, <1>2, <3>1, FaultedActor DEF AcpTyped
  <2>2. lp' \in AcpLoop /\ peer' \in AcpAgent
    BY <1>1, <1>2, AcpFacts DEF AcpLoop, AcpAgent
  <2> QED
    BY <1>1, <1>2, <2>1, <2>2 DEF AcpTyped
<1>5. Blank(ac, lp, peer, cq, ev)
  BY <1>1 DEF AcpIInv, AcpStaged, Staged
<1>6. AcpPrompted'
  BY <1>1, <1>3 DEF AcpPrompted, Prompted, AcpIInv
<1>7. AcpInTurn'
  BY <1>1, <1>3 DEF AcpInTurn, InTurn, AcpIInv
<1>8. AcpStaged'
  BY <1>1, <1>3, <1>5 DEF AcpIInv, AcpStaged, Staged, Past, Handshakes
<1>9. AcpAskedOnce'
  BY <1>1, <1>3 DEF AcpAskedOnce, AskedOnce, AcpIInv
<1>10. AcpTold'
  BY <1>3, <1>5 DEF AcpTold, Blank
<1> QED
  BY <1>4, <1>6, <1>7, <1>8, <1>9, <1>10 DEF AcpIInv

-----------------------------------------------------------------------------
(* The actor's commands. *)
LEMMA CommandKeeps ==
    ASSUME AcpIInv, NEW m \in AcpCommand, m.kind # "prompt", ac' \in AcpActor,
           ac.st \in {"live", "closing"}, ac'.st \in {"live", "closing", "torn"},
           ac'.turn \in {0, ac.turn}, ac'.next = ac.next, ac'.shown = ac.shown,
           ac'.told = ac.told, ac'.gone = ac.gone, lp.st # "replay", lp' = lp,
           cq' = cq \/ cq' = Append(cq, m),
           peer' = peer \/ peer' = [peer EXCEPT !.st = "down"], wr' = wr, ev' = ev,
           m.kind = "shutdown" => peer' = [peer EXCEPT !.st = "down"]
    PROVE  AcpIInv'
<1>1. AcpTyped
  BY DEF AcpIInv
<1>2. /\ peer'.in = peer.in /\ peer'.works = peer.works
      /\ peer'.wrote = peer.wrote /\ peer'.asked = peer.asked
      /\ peer'.answers = peer.answers
      /\ peer'.st \in {peer.st, "down"} /\ (m.kind = "shutdown" => peer'.st = "down")
  BY <1>1, AcpFacts DEF AcpAgent
<1>3. AcpTyped'
  <2>1. peer' \in AcpAgent
    BY <1>1, AcpFacts DEF AcpAgent
  <2>2. cq' \in Seq(AcpCommand)
    <3>1. cq \in Seq(AcpCommand)
      BY <1>1, AcpFacts
    <3>2. Append(cq, m) \in Seq(AcpCommand)
      BY <3>1
    <3> QED
      BY <3>1, <3>2
  <2> QED
    BY <1>1, <2>1, <2>2 DEF AcpTyped
<1>4. \A id \in Int : /\ Queued(cq', "prompt", id) <=> Queued(cq, "prompt", id)
                      /\ OnceIn(cq, "prompt", id) => OnceIn(cq', "prompt", id)
                      /\ Queued(cq', "shutdown", id) =>
                            Queued(cq, "shutdown", id) \/ m.kind = "shutdown"
  <2>1. /\ \A id : m # AcpMsg("prompt", id)
        /\ \A id : m = AcpMsg("shutdown", id) => m.kind = "shutdown"
    BY DEF AcpMsg
  <2>2. cq \in Seq(AcpCommand)
    BY <1>1, AcpFacts
  <2>3. \A id : /\ Queued(Append(cq, m), "prompt", id) <=> Queued(cq, "prompt", id)
                /\ OnceIn(cq, "prompt", id) => OnceIn(Append(cq, m), "prompt", id)
                /\ Queued(Append(cq, m), "shutdown", id) =>
                      Queued(cq, "shutdown", id) \/ m.kind = "shutdown"
    BY <2>1, <2>2, MsgGrown
  <2> QED
    BY <2>3
<1>5. cq # <<>> => cq' # <<>> /\ Head(cq') = Head(cq)
  <2>1. cq \in Seq(AcpCommand)
    BY <1>1, AcpFacts
  <2>2. cq # <<>> => Append(cq, m) # <<>> /\ Head(Append(cq, m)) = Head(cq)
    BY <2>1
  <2> QED
    BY <2>2
<1>6. AcpPrompted'
  BY <1>2, <1>4 DEF AcpPrompted, Prompted, AcpIInv
<1>7. AcpInTurn'
  BY <1>2 DEF AcpInTurn, AcpIInv
<1>8. AcpStaged'
  BY <1>2, <1>4, <1>5 DEF AcpIInv, AcpStaged, Staged, Past
<1>9. AcpAskedOnce'
  BY <1>2 DEF AcpAskedOnce, AcpIInv
<1>10. AcpTold'
  <2>1. CASE ac'.turn = 0
    BY <2>1 DEF AcpTold
  <2>2. CASE ac'.turn = ac.turn /\ ac.turn # 0
    <3>1. UnderWay(ac.turn) /\ ac.turn \in Int
      BY <1>1, <2>2, AcpFacts DEF AcpIInv, AcpTold
    <3>2. Queued(cq, "prompt", ac.turn) => Queued(cq', "prompt", ac.turn)
      BY <1>4, <3>1
    <3> QED
      BY <1>2, <2>2, <3>1, <3>2 DEF AcpTold, UnderWay, AcpClosed
  <2> QED
    BY <2>1, <2>2
<1> QED
  BY <1>3, <1>6, <1>7, <1>8, <1>9, <1>10 DEF AcpIInv

LEMMA OtherCommand ==
    /\ \A kind \in {"cancel", "config", "close", "shutdown"} :
          AcpMsg(kind, 0) \in AcpCommand /\ AcpMsg(kind, 0).kind = kind
    /\ AcpMsg("answer", 1) \in AcpCommand /\ AcpMsg("answer", 1).kind = "answer"
  BY DEF AcpMsg, AcpCommand

LEMMA CancelPromptKeeps == ASSUME AcpIInv, CancelPrompt PROVE AcpIInv'
<1> DEFINE w == -1
<1> w \in Int
  OBVIOUS
<1>1. /\ ac.st = "live" /\ ac.configs < MaxAcpAsks
      /\ cq' = Append(cq, AcpMsg("cancel", 0))
      /\ ac' = [ac EXCEPT !.wait = w, !.configs = @ + 1]
      /\ lp' = lp /\ peer' = peer /\ wr' = wr /\ ev' = ev
  BY DEF CancelPrompt, AcpIdle
<1> HIDE DEF w
<1>2. AcpTyped
  BY DEF AcpIInv
<1>3. ac.configs \in Nat /\ MaxAcpAsks \in Nat
  BY <1>2, AcpFacts, AcpAssumption
<1>4. lp.st # "replay"
  BY <1>1, <1>3 DEF AcpIInv, AcpStaged, Staged, Adopted
<1>5. /\ ac'.st = ac.st /\ ac'.turn = ac.turn /\ ac'.next = ac.next
      /\ ac'.wait = w /\ ac'.shown = ac.shown /\ ac'.asked = ac.asked
      /\ ac'.told = ac.told /\ ac'.gone = ac.gone
  BY <1>1, <1>2, <1>3, AcpFacts DEF AcpActor
<1>51. ac' \in AcpActor
  <2>1. w \in Int /\ TRUE \in BOOLEAN /\ ac \in AcpActor
    BY <1>2, AcpFacts
  <2>2. [ac EXCEPT !.wait = w, !.configs = @ + 1] \in AcpActor
    BY <2>1, ActorUpdates, Zenon
  <2> QED
    BY <1>1, <2>2
<1>6. AcpMsg("cancel", 0) \in AcpCommand /\ AcpMsg("cancel", 0).kind = "cancel"
  BY OtherCommand
<1> QED
  BY <1>1, <1>4, <1>5, <1>6, <1>51, CommandKeeps

LEMMA ApplyConfigOptionKeeps == ASSUME AcpIInv, ApplyConfigOption PROVE AcpIInv'
<1> DEFINE w == -1
<1> w \in Int
  OBVIOUS
<1>1. /\ ac.st = "live" /\ ac.configs < MaxAcpAsks
      /\ cq' = Append(cq, AcpMsg("config", 0))
      /\ ac' = [ac EXCEPT !.wait = w, !.configs = @ + 1]
      /\ lp' = lp /\ peer' = peer /\ wr' = wr /\ ev' = ev
  BY DEF ApplyConfigOption, AcpIdle
<1> HIDE DEF w
<1>2. AcpTyped
  BY DEF AcpIInv
<1>3. ac.configs \in Nat /\ MaxAcpAsks \in Nat
  BY <1>2, AcpFacts, AcpAssumption
<1>4. lp.st # "replay"
  BY <1>1, <1>3 DEF AcpIInv, AcpStaged, Staged, Adopted
<1>5. /\ ac'.st = ac.st /\ ac'.turn = ac.turn /\ ac'.next = ac.next
      /\ ac'.wait = w /\ ac'.shown = ac.shown /\ ac'.asked = ac.asked
      /\ ac'.told = ac.told /\ ac'.gone = ac.gone
  BY <1>1, <1>2, <1>3, AcpFacts DEF AcpActor
<1>51. ac' \in AcpActor
  <2>1. w \in Int /\ TRUE \in BOOLEAN /\ ac \in AcpActor
    BY <1>2, AcpFacts
  <2>2. [ac EXCEPT !.wait = w, !.configs = @ + 1] \in AcpActor
    BY <2>1, ActorUpdates, Zenon
  <2> QED
    BY <1>1, <2>2
<1>6. AcpMsg("config", 0) \in AcpCommand /\ AcpMsg("config", 0).kind = "config"
  BY OtherCommand
<1> QED
  BY <1>1, <1>4, <1>5, <1>6, <1>51, CommandKeeps

LEMMA RespondElicitationKeeps == ASSUME AcpIInv, RespondElicitation PROVE AcpIInv'
<1> DEFINE w == -1
<1> w \in Int
  OBVIOUS
<1>1. /\ ac.st = "live" /\ ac.asked /\ cq' = Append(cq, AcpMsg("answer", 1))
      /\ ac' = [ac EXCEPT !.wait = w, !.asked = FALSE]
      /\ lp' = lp /\ peer' = peer /\ wr' = wr /\ ev' = ev
  BY DEF RespondElicitation, AcpIdle
<1> HIDE DEF w
<1>2. AcpTyped
  BY DEF AcpIInv
<1>3. lp.st # "replay"
  BY <1>1 DEF AcpIInv, AcpStaged, Staged, Adopted
<1>4. /\ ac'.st = ac.st /\ ac'.turn = ac.turn /\ ac'.next = ac.next
      /\ ac'.wait = w /\ ac'.shown = ac.shown /\ ac'.asked = FALSE
      /\ ac'.told = ac.told /\ ac'.gone = ac.gone /\ ac'.configs = ac.configs
  BY <1>1, <1>2, AcpFacts DEF AcpActor
<1>4a. ac' \in AcpActor
  BY <1>1, <1>2, AcpFacts DEF AcpActor
<1>5. AcpMsg("answer", 1) \in AcpCommand /\ AcpMsg("answer", 1).kind = "answer"
  BY OtherCommand
<1> QED
  BY <1>1, <1>3, <1>4, <1>5, <1>4a, CommandKeeps

LEMMA CommandTimesOutKeeps == ASSUME AcpIInv, CommandTimesOut PROVE AcpIInv'
<1>1. /\ ac.st \in {"live", "closing"} /\ ac.wait # NoCmd
      /\ ac' = [IF AcpClosed THEN ac ELSE AcpFaulted(ac) EXCEPT !.wait = NoCmd,
                                 !.busy = IF ac.wait > 0 THEN FALSE ELSE @]
      /\ cq' = cq /\ lp' = lp /\ peer' = peer /\ wr' = wr /\ ev' = ev
  BY DEF CommandTimesOut
<1>2. AcpTyped
  BY DEF AcpIInv
<1>3. lp.st # "replay"
  BY <1>1 DEF AcpIInv, AcpStaged, Staged, Adopted
<1>4. /\ ac'.st = ac.st /\ ac'.turn = ac.turn /\ ac'.next = ac.next
      /\ ac'.wait = NoCmd /\ ac'.shown = ac.shown /\ ac'.asked = ac.asked
      /\ ac'.told = ac.told /\ ac'.gone = ac.gone /\ ac'.configs = ac.configs
  BY <1>1, <1>2, AcpFacts DEF AcpActor, AcpFaulted
<1>5. ac' \in AcpActor
  <2>1. \A a \in AcpActor : [a EXCEPT !.wait = NoCmd, !.busy = IF ac.wait > 0 THEN FALSE
                                                              ELSE @] \in AcpActor
    <3> TAKE a \in AcpActor
    <3> DEFINE b == IF ac.wait > 0 THEN FALSE ELSE a.busy
    <3>1. b \in BOOLEAN /\ NoCmd \in Int
      <4>1. a.busy \in BOOLEAN
        BY DEF AcpActor
      <4>2. NoCmd \in Int
        BY DEF NoCmd
      <4> QED
        BY <4>1, <4>2, Zenon
    <3>2. [a EXCEPT !.wait = NoCmd, !.busy = IF ac.wait > 0 THEN FALSE ELSE @]
            = [a EXCEPT !.wait = NoCmd, !.busy = b]
      BY DEF AcpActor
    <3> HIDE DEF b
    <3>3. [a EXCEPT !.wait = NoCmd, !.busy = b] \in AcpActor
      BY <3>1, ActorUpdates, Zenon
    <3> QED
      BY <3>2, <3>3
  <2> QED
    BY <1>1, <1>2, <2>1, FaultedActor DEF AcpTyped
<1>6. AcpMsg("cancel", 0) \in AcpCommand /\ AcpMsg("cancel", 0).kind = "cancel"
  BY OtherCommand
<1> QED
  BY <1>1, <1>3, <1>4, <1>5, <1>6, CommandKeeps

LEMMA TearDownKeeps == ASSUME AcpIInv, TearDown PROVE AcpIInv'
<1> DEFINE w == -1
<1> w \in Int
  OBVIOUS
<1>1. /\ ac.st = "live" /\ lp.st # "replay"
      /\ \/ cq' = Append(cq, AcpMsg("close", 0))
            /\ ac' = [ac EXCEPT !.st = "closing", !.wait = w]
         \/ ac' = [ac EXCEPT !.st = "closing"] /\ cq' = cq
      /\ lp' = lp /\ peer' = peer /\ wr' = wr /\ ev' = ev
  BY DEF TearDown, AcpIdle
<1> HIDE DEF w
<1>2. AcpTyped
  BY DEF AcpIInv
<1>3. /\ ac'.st = "closing" /\ ac'.turn = ac.turn /\ ac'.next = ac.next
      /\ ac'.shown = ac.shown /\ ac'.asked = ac.asked /\ ac'.told = ac.told
      /\ ac'.gone = ac.gone /\ ac'.configs = ac.configs
  BY <1>1, <1>2, AcpFacts DEF AcpActor
<1>4a. ac' \in AcpActor
  BY <1>1, <1>2, AcpFacts DEF AcpActor
<1>4. AcpMsg("close", 0) \in AcpCommand /\ AcpMsg("close", 0).kind = "close"
  BY OtherCommand
<1> QED
  BY <1>1, <1>3, <1>4, <1>4a, CommandKeeps

LEMMA KillTreeKeeps == ASSUME AcpIInv, KillTree PROVE AcpIInv'
<1>1. /\ ac.st = "closing" /\ ac' = [ac EXCEPT !.st = "torn", !.turn = 0]
      /\ cq' = Append(cq, AcpMsg("shutdown", 0))
      /\ peer' = [peer EXCEPT !.st = "down"]
      /\ lp' = lp /\ wr' = wr /\ ev' = ev
  BY DEF KillTree
<1>2. AcpTyped
  BY DEF AcpIInv
<1>3. /\ ac'.st = "torn" /\ ac'.turn = 0 /\ ac'.next = ac.next
      /\ ac'.wait = ac.wait /\ ac'.shown = ac.shown /\ ac'.asked = ac.asked
      /\ ac'.told = ac.told /\ ac'.gone = ac.gone /\ ac'.configs = ac.configs
  BY <1>1, <1>2, AcpFacts DEF AcpActor
<1>31. ac' \in AcpActor
  BY <1>1, <1>2, AcpFacts DEF AcpActor
<1>4. lp.st # "replay"
  BY <1>1 DEF AcpIInv, AcpStaged, Staged, Adopted
<1>5. AcpMsg("shutdown", 0) \in AcpCommand /\ AcpMsg("shutdown", 0).kind = "shutdown"
  BY OtherCommand
<1> QED
  BY <1>1, <1>3, <1>4, <1>5, <1>31, CommandKeeps

LEMMA AcpBeginPromptKeeps == ASSUME AcpIInv, AcpBeginPrompt PROVE AcpIInv'
<1> DEFINE n == ac.next
           m == AcpMsg("prompt", n)
<1>1. /\ ac.st = "live" /\ ac.turn = 0 /\ n <= MaxAcpTurns
      /\ lp' = lp /\ peer' = peer /\ wr' = wr /\ ev' = ev
      /\ \/ cq' = Append(cq, m)
            /\ ac' = [ac EXCEPT !.busy = TRUE, !.wait = n, !.next = @ + 1]
         \/ ac' = [ac EXCEPT !.next = @ + 1] /\ cq' = cq
  BY DEF AcpBeginPrompt, AcpIdle
<1>2. AcpTyped
  BY DEF AcpIInv
<1>3. n \in Nat /\ MaxAcpTurns \in Nat /\ cq \in Seq(AcpCommand)
  BY <1>2, AcpFacts
<1>4. /\ ac'.st = ac.st /\ ac'.turn = ac.turn /\ ac'.next = n + 1
      /\ ac'.shown = ac.shown /\ ac'.asked = ac.asked /\ ac'.told = ac.told
      /\ ac'.gone = ac.gone /\ ac'.configs = ac.configs
  BY <1>1, <1>2, <1>3, AcpFacts DEF AcpActor
<1>4a. ac' \in AcpActor
  <2>1. n \in Int /\ TRUE \in BOOLEAN /\ ac \in AcpActor
    BY <1>2, <1>3, AcpFacts
  <2>2. /\ [ac EXCEPT !.busy = TRUE, !.wait = n, !.next = @ + 1] \in AcpActor
        /\ [ac EXCEPT !.next = @ + 1] \in AcpActor
    BY <2>1, ActorUpdates, Zenon
  <2> QED
    BY <1>1, <2>2
<1>5. lp.st # "replay"
  BY <1>1, <1>3 DEF AcpIInv, AcpStaged, Staged, Adopted
<1>6. n > 0
  BY <1>2, AcpFacts
<1>7. m \in AcpCommand /\ \A id : m = AcpMsg("prompt", id) <=> id = n
  BY <1>3, <1>6 DEF AcpMsg, AcpCommand
<1> HIDE DEF m
<1>8. AcpTyped'
  <2>1. Append(cq, m) \in Seq(AcpCommand)
    BY <1>3, <1>7
  <2> QED
    BY <1>1, <1>2, <1>4a, <2>1 DEF AcpTyped
<1>9. \A id \in Int : ~Begun(id, n) \/ (id # n /\ Begun(id, n + 1))
  BY <1>1, <1>3 DEF Begun
<1>10. Begun(n, n + 1)
  BY <1>3, <1>6 DEF Begun
<1>11. AcpPrompted'
  <2> DEFINE dead == peer.st = "down"
  <2>1. Prompted(n, ac.told, peer.works, dead, lp.woken, cq, peer.in, wr, ev)
    BY DEF AcpIInv, AcpPrompted
  <2>2. peer.works \subseteq Int /\ lp.woken \subseteq Int /\ ac.told \subseteq Int
    BY <1>2, AcpFacts
  <2> HIDE DEF dead
  <2>3. CASE cq' = cq
    <3>1. Prompted(n + 1, ac.told, peer.works, dead, lp.woken, cq, peer.in, wr, ev)
      BY <1>9, <2>1, <2>2 DEF Prompted
    <3> QED
      BY <1>1, <1>4, <2>3, <3>1 DEF AcpPrompted, dead
  <2>4. CASE cq' = Append(cq, m)
    <3>1. \A id \in Int : Queued(cq', "prompt", id) <=> Queued(cq, "prompt", id) \/ id = n
      BY <1>3, <1>7, <2>4, MsgGrown
    <3>2. /\ n \notin peer.works /\ n \notin lp.woken /\ n \notin ac.told
          /\ ~Queued(wr, "response", n) /\ ~Queued(ev, "finished", n)
          /\ ~Queued(cq, "prompt", n) /\ ~Queued(peer.in, "prompt", n)
      BY <1>3, <1>6, <1>9, <2>1, <2>2 DEF Prompted
    <3>3. \A id \in Int : OnceIn(cq', "prompt", id)
      BY <1>3, <1>7, <2>4, <2>1, <3>2, MsgGrown DEF Prompted
    <3>4. Prompted(n + 1, ac.told, peer.works, dead, lp.woken, cq', peer.in, wr, ev)
      BY <1>9, <1>10, <2>1, <2>2, <3>1, <3>2, <3>3 DEF Prompted
    <3> QED
      BY <1>1, <1>4, <3>4 DEF AcpPrompted, dead
  <2> QED
    BY <1>1, <2>3, <2>4
<1>12. AcpInTurn'
  BY <1>1, <1>4 DEF AcpInTurn, AcpIInv
<1>13. AcpStaged'
  <2>1. cq # <<>> => cq' # <<>> /\ Head(cq') = Head(cq)
    <3>1. cq # <<>> => Append(cq, m) # <<>> /\ Head(Append(cq, m)) = Head(cq)
      BY <1>3
    <3> QED
      BY <1>1, <3>1
  <2>2. Queued(cq', "shutdown", 0) => Queued(cq, "shutdown", 0)
    <3>1. m # AcpMsg("shutdown", 0)
      BY DEF m, AcpMsg
    <3>2. Queued(Append(cq, m), "shutdown", 0) => Queued(cq, "shutdown", 0)
      BY <1>3, <1>7, <3>1, MsgGrown
    <3> QED
      BY <1>1, <3>2
  <2> QED
    BY <1>1, <1>4, <1>5, <2>1, <2>2 DEF AcpIInv, AcpStaged, Staged, Past
<1>14. AcpAskedOnce'
  BY <1>1 DEF AcpAskedOnce, AcpIInv
<1>15. AcpTold'
  BY <1>1, <1>4 DEF AcpTold
<1> QED
  BY <1>8, <1>11, <1>12, <1>13, <1>14, <1>15 DEF AcpIInv

-----------------------------------------------------------------------------
(* What the transcript gets, through the steps of the queues.              *)
LEMMA WrittenIs ==
    ASSUME NEW m \in AcpWritten, NEW kind, NEW id
    PROVE  m = AcpMsg(kind, id) <=> m.kind = kind /\ m.id = id
<1>1. m \in [kind : {"update", "ask", "permission", "response", "refusal"}, id : Int]
  BY DEF AcpWritten
<1> QED
  BY <1>1, MsgIs

LEMMA EventIs ==
    ASSUME NEW m \in AcpEvent, NEW kind, NEW id
    PROVE  m = AcpMsg(kind, id) <=> m.kind = kind /\ m.id = id
<1>1. m \in [kind : {"update", "ask", "finished", "exited"}, id : Int]
  BY DEF AcpEvent
<1> QED
  BY <1>1, MsgIs

LEMMA InTurnTail ==
    ASSUME NEW told, NEW shown, NEW works, NEW wrote, NEW over, NEW woken, NEW e,
           NEW w \in Seq(AcpWritten), w # <<>>, Head(w).kind # "update" \/ Head(w).id \notin wrote,
           InTurn(told, shown, works, wrote, over, woken, w, e)
    PROVE  InTurn(told, shown, works, wrote, over, woken, Tail(w), e)
<1> DEFINE t == Tail(w)
<1>1. \A id : Queued(w, "update", id) <=> Head(w) = AcpMsg("update", id) \/ Queued(t, "update", id)
  BY MsgShrunk
<1>2. \A id : UpdateFirst(w, "response", id) => UpdateFirst(t, "response", id)
  BY FirstShrunk
<1>3. \A id : Head(w) = AcpMsg("update", id) => id \notin wrote
  <2>1. Head(w) \in AcpWritten
    OBVIOUS
  <2> QED
    BY <2>1, WrittenIs
<1> HIDE DEF t
<1> QED
  BY <1>1, <1>2, <1>3 DEF InTurn, t

LEMMA InTurnHeard ==
    ASSUME NEW told \in SUBSET Int, NEW shown, NEW works, NEW wrote \in SUBSET Int, NEW woken,
           NEW e \in Seq(AcpEvent), NEW w \in Seq(AcpWritten), w # <<>>,
           Head(w).kind = "update", Head(w) \in AcpEvent,
           InTurn(told, shown, works, wrote, FALSE, woken, w, e)
    PROVE  InTurn(told, shown, works, wrote, FALSE, woken, Tail(w), Append(e, Head(w)))
<1> DEFINE t == Tail(w)
           m == Head(w)
           f == Append(e, m)
<1>1. \A id : Queued(w, "update", id) <=> m = AcpMsg("update", id) \/ Queued(t, "update", id)
  BY MsgShrunk
<1>2. \A id : UpdateFirst(w, "response", id) => UpdateFirst(t, "response", id)
  BY FirstShrunk
<1>3. \A kind, id : m = AcpMsg(kind, id) => kind = "update" /\ id = m.id
  <2>1. m \in AcpWritten
    OBVIOUS
  <2> QED
    BY <2>1, WrittenIs
<1>4. \A kind, id : Queued(f, kind, id) <=> Queued(e, kind, id) \/ m = AcpMsg(kind, id)
  BY MsgGrown
<1>5. \A id : Led(e, id) \/ ~Queued(e, "finished", id) => Led(f, id)
  BY <1>3, LedGrown
<1> HIDE DEF t, m, f
<1>6. \A id \in Int : (Queued(f, "finished", id) \/ id \in told) /\ id \notin works
                         => ~Queued(t, "update", id)
  BY <1>1, <1>3, <1>4 DEF InTurn
<1>7. \A id \in wrote : Queued(t, "update", id) \/ Queued(f, "update", id) \/ id \in shown
  BY <1>1, <1>4 DEF InTurn
<1>8. ASSUME NEW id \in wrote \ works, ~Queued(t, "update", id)
      PROVE  id \in shown \/ Led(f, id)
  <2>1. CASE Queued(w, "update", id)
    BY <1>5, <2>1 DEF InTurn
  <2>2. CASE ~Queued(w, "update", id)
    BY <1>5, <1>8, <2>2 DEF InTurn
  <2> QED
    BY <2>1, <2>2
<1>9. \A id \in (told \cap wrote) \ works : ~Queued(t, "update", id) => id \in shown
  BY <1>1 DEF InTurn
<1>10. \A id \in woken : ~Queued(t, "update", id)
  BY <1>1 DEF InTurn
<1>11. \A id \in Int : id > 0 => UpdateFirst(t, "response", id)
  BY <1>2 DEF InTurn
<1>12. 0 \notin shown
  BY DEF InTurn
<1> QED
  BY <1>6, <1>7, <1>8, <1>9, <1>10, <1>11, <1>12 DEF InTurn, t, m, f

LEMMA InTurnEnd ==
    ASSUME NEW told, NEW shown, NEW works, NEW wrote \in SUBSET Int, NEW over, NEW woken, NEW w,
           NEW e \in Seq(AcpEvent), NEW id0 \in Int,
           id0 \in works \/ over \/ ~Queued(w, "update", id0),
           InTurn(told, shown, works, wrote, over, woken, w, e)
    PROVE  InTurn(told, shown, works, wrote, over, woken, w,
                  Append(e, AcpMsg("finished", id0)))
<1> DEFINE m == AcpMsg("finished", id0)
           f == Append(e, m)
<1>1. \A kind, id : m = AcpMsg(kind, id) <=> kind = "finished" /\ id = id0
  BY DEF AcpMsg
<1>2. m \in AcpEvent
  BY DEF AcpMsg, AcpEvent
<1>3. \A kind, id : Queued(f, kind, id) <=> Queued(e, kind, id) \/ m = AcpMsg(kind, id)
  BY <1>2, MsgGrown
<1>4. \A id : /\ Led(e, id) \/ ~Queued(e, "finished", id)
              /\ m # AcpMsg("finished", id) \/ Queued(e, "update", id)
              => Led(f, id)
  BY <1>2, LedGrown
<1> HIDE DEF m, f
<1>5. \A id \in Int : (Queued(f, "finished", id) \/ id \in told) /\ id \notin works
                         /\ ~over => ~Queued(w, "update", id)
  BY <1>1, <1>3 DEF InTurn
<1>6. \A id \in wrote : Queued(w, "update", id) \/ Queued(f, "update", id) \/ id \in shown
  BY <1>1, <1>3 DEF InTurn
<1>7. ASSUME NEW id \in wrote \ works, ~Queued(w, "update", id), id \notin shown
      PROVE  Led(f, id)
  <2>1. Led(e, id) /\ Queued(e, "update", id)
    BY <1>7 DEF InTurn
  <2> QED
    BY <1>4, <2>1
<1> QED
  BY <1>5, <1>6, <1>7 DEF InTurn, m, f

LEMMA InTurnEvent ==
    ASSUME NEW told, NEW shown, NEW works, NEW wrote, NEW over, NEW woken, NEW w,
           NEW e \in Seq(AcpEvent), NEW m \in AcpEvent, m.kind # "finished",
           InTurn(told, shown, works, wrote, over, woken, w, e)
    PROVE  InTurn(told, shown, works, wrote, over, woken, w, Append(e, m))
<1> DEFINE f == Append(e, m)
<1>1. \A id : m # AcpMsg("finished", id)
  BY EventIs
<1>2. \A id : /\ Queued(e, "update", id) => Queued(f, "update", id)
              /\ Queued(f, "finished", id) <=> Queued(e, "finished", id)
              /\ Led(e, id) => Led(f, id)
  BY <1>1, MsgGrown, LedGrown
<1> HIDE DEF f
<1> QED
  BY <1>2 DEF InTurn, f

LEMMA InTurnWritten ==
    ASSUME NEW told, NEW shown, NEW works, NEW wrote, NEW over, NEW woken \in SUBSET Int, NEW e,
           NEW w \in Seq(AcpWritten), NEW m \in AcpWritten,
           m.kind = "update" /\ m.id > 0 =>
              /\ m.id \in works /\ m.id \notin woken /\ ~Queued(w, "response", m.id),
           \A id \in woken : id > 0,
           \A id \in Int : Queued(e, "finished", id) \/ id \in told => id > 0,
           InTurn(told, shown, works, wrote, over, woken, w, e)
    PROVE  InTurn(told, shown, works,
                  IF m.kind = "update" /\ m.id > 0 THEN wrote \cup {m.id} ELSE wrote,
                  over, woken, Append(w, m), e)
<1> DEFINE t == Append(w, m)
           wrote2 == IF m.kind = "update" /\ m.id > 0 THEN wrote \cup {m.id} ELSE wrote
<1>1. \A kind, id : m = AcpMsg(kind, id) <=> m.kind = kind /\ m.id = id
  BY WrittenIs
<1>2. \A id : Queued(t, "update", id) <=> Queued(w, "update", id) \/ m = AcpMsg("update", id)
  BY MsgGrown
<1>3. \A id \in Int : id > 0 => UpdateFirst(t, "response", id)
  <2>1. \A id \in Int : id > 0 => UpdateFirst(w, "response", id)
    BY DEF InTurn
  <2>2. \A id \in Int : id > 0 =>
           m # AcpMsg("update", id) \/ ~Queued(w, "response", id)
    BY <1>1
  <2> QED
    BY <2>1, <2>2, FirstGrown
<1> HIDE DEF t
<1>4. \A id \in woken : ~Queued(t, "update", id)
  BY <1>1, <1>2 DEF InTurn
<1>5. \A id \in Int : (Queued(e, "finished", id) \/ id \in told) /\ id \notin works
                         /\ ~over => ~Queued(t, "update", id)
  BY <1>1, <1>2 DEF InTurn
<1>6. \A id \in wrote2 : Queued(t, "update", id) \/ Queued(e, "update", id) \/ id \in shown
  BY <1>1, <1>2 DEF InTurn
<1>7. \A id \in wrote2 \ works : ~Queued(t, "update", id) => id \in shown \/ Led(e, id)
  BY <1>1, <1>2 DEF InTurn
<1>8. \A id \in (told \cap wrote2) \ works : ~Queued(t, "update", id) => id \in shown
  BY <1>1, <1>2 DEF InTurn
<1>9. 0 \notin shown
  BY DEF InTurn
<1> HIDE DEF wrote2
<1> QED
  BY <1>3, <1>4, <1>5, <1>6, <1>7, <1>8, <1>9 DEF InTurn, t, wrote2

LEMMA InTurnParts ==
    ASSUME NEW told, NEW shown, NEW works, NEW wrote, NEW over, NEW woken, NEW w, NEW e,
           InTurn(told, shown, works, wrote, over, woken, w, e), NEW id0
    PROVE  /\ InTurn(told, shown, works, wrote, TRUE, woken, w, e)
           /\ InTurn(told, shown, works \cup {id0}, wrote, over, woken, w, e)
           /\ InTurn(told, shown, works, wrote, over, woken \ {id0}, w, e)
           /\ InTurn(told, shown, works, wrote, over, {}, w, e)
           /\ ~Queued(w, "update", id0) =>
                 InTurn(told, shown, works, wrote, over, woken \cup {id0}, w, e)
           /\ ~Queued(e, "finished", id0) /\ id0 \notin told =>
                 InTurn(told, shown, works \ {id0}, wrote, over, woken, w, e)
<1>1. ~Queued(e, "finished", id0) => Led(e, id0)
  BY DEF Led, Queued
<1>2. /\ InTurn(told, shown, works, wrote, TRUE, woken, w, e)
      /\ InTurn(told, shown, works \cup {id0}, wrote, over, woken, w, e)
      /\ InTurn(told, shown, works, wrote, over, woken \ {id0}, w, e)
      /\ InTurn(told, shown, works, wrote, over, {}, w, e)
  BY DEF InTurn
<1>3. ~Queued(w, "update", id0) =>
         InTurn(told, shown, works, wrote, over, woken \cup {id0}, w, e)
  BY DEF InTurn
<1>4. ~Queued(e, "finished", id0) /\ id0 \notin told =>
         InTurn(told, shown, works \ {id0}, wrote, over, woken, w, e)
  BY <1>1 DEF InTurn
<1> QED
  BY <1>2, <1>3, <1>4

LEMMA PollEventKeeps == ASSUME AcpIInv, PollEvent PROVE AcpIInv'
<1> DEFINE e == Head(ev)
           f == Tail(ev)
<1>1. /\ ac.st = "live" /\ ev # <<>> /\ ev' = f
      /\ ac' = CASE e.kind = "finished" ->
                        [ac EXCEPT !.told = @ \cup {e.id},
                                   !.turn = IF @ = e.id THEN 0 ELSE @]
                   [] e.kind = "update" -> [ac EXCEPT !.shown = @ \cup {e.id}]
                   [] e.kind = "ask"    -> [ac EXCEPT !.asked = TRUE]
                   [] e.kind = "exited" -> [ac EXCEPT !.gone = TRUE, !.turn = 0]
                   [] OTHER -> ac
      /\ cq' = cq /\ lp' = lp /\ peer' = peer /\ wr' = wr
  BY DEF PollEvent, AcpIdle
<1>2. AcpTyped /\ ev \in Seq(AcpEvent)
  BY AcpFacts DEF AcpIInv
<1>3. e \in AcpEvent /\ f \in Seq(AcpEvent)
  BY <1>1, <1>2
<1>4. /\ e.kind \in {"update", "ask", "finished", "exited"} /\ e.id \in Int
      /\ (e.kind = "update" => e.id > 0) /\ (e.kind = "ask" => e.id = 1)
      /\ (e.kind = "exited" => e.id = 0)
  BY <1>3 DEF AcpEvent
<1>5. \A kind, id : e = AcpMsg(kind, id) <=> e.kind = kind /\ e.id = id
  BY <1>3, EventIs
<1>6. \A kind, id : Queued(ev, kind, id) <=> e = AcpMsg(kind, id) \/ Queued(f, kind, id)
  BY <1>1, <1>2, MsgShrunk
<1>7. \A id : Led(ev, id) => /\ e # AcpMsg("update", id) => Led(f, id)
                             /\ e # AcpMsg("finished", id)
  BY <1>1, <1>2, LedShrunk
<1> HIDE DEF e, f
<1>8. e.kind = "finished" => e.id > 0
  <2>1. e.kind = "finished" => Queued(ev, "finished", e.id)
    BY <1>5, <1>6
  <2> QED
    BY <1>4, <2>1 DEF AcpIInv, AcpPrompted, Prompted, Begun
<1>9. /\ ac'.st = ac.st /\ ac'.next = ac.next /\ ac'.wait = ac.wait
      /\ ac'.configs = ac.configs
      /\ ac'.told = IF e.kind = "finished" THEN ac.told \cup {e.id} ELSE ac.told
      /\ ac'.shown = IF e.kind = "update" THEN ac.shown \cup {e.id} ELSE ac.shown
      /\ ac'.asked = (ac.asked \/ e.kind = "ask")
      /\ ac'.gone = (ac.gone \/ e.kind = "exited")
      /\ ac'.turn = IF e.kind = "exited" \/ (e.kind = "finished" /\ e.id = ac.turn)
                    THEN 0 ELSE ac.turn
  <2>1. ac \in AcpActor
    BY <1>2, AcpFacts
  <2>2. CASE e.kind = "finished"
    BY <1>1, <2>1, <2>2 DEF AcpActor
  <2>3. CASE e.kind = "update"
    BY <1>1, <2>1, <2>3 DEF AcpActor
  <2>4. CASE e.kind = "ask"
    BY <1>1, <2>1, <2>4 DEF AcpActor
  <2>5. CASE e.kind = "exited"
    BY <1>1, <2>1, <2>5 DEF AcpActor
  <2> QED
    BY <1>4, <2>2, <2>3, <2>4, <2>5
<1>10. ac' \in AcpActor
  <2>1. ac \in AcpActor
    BY <1>2, AcpFacts
  <2>2. CASE e.kind = "finished"
    <3> DEFINE told2 == ac.told \cup {e.id}
               turn2 == IF ac.turn = e.id THEN 0 ELSE ac.turn
    <3>1. ac' = [ac EXCEPT !.told = told2, !.turn = turn2]
      BY <1>1, <2>1, <2>2 DEF AcpActor
    <3>2. told2 \in SUBSET Nat /\ turn2 \in Nat
      BY <1>2, <1>4, <1>8, <2>2, AcpFacts
    <3> HIDE DEF told2, turn2
    <3> QED
      BY <2>1, <3>1, <3>2 DEF AcpActor
  <2>3. CASE e.kind = "update"
    BY <1>1, <1>4, <2>1, <2>3 DEF AcpActor
  <2>4. CASE e.kind = "ask"
    BY <1>1, <2>1, <2>4 DEF AcpActor
  <2>5. CASE e.kind = "exited"
    BY <1>1, <2>1, <2>5 DEF AcpActor
  <2> QED
    BY <1>4, <2>2, <2>3, <2>4, <2>5
<1>11. AcpTyped'
  BY <1>1, <1>2, <1>3, <1>10 DEF AcpTyped
<1>12. AcpPrompted'
  BY <1>1, <1>4, <1>5, <1>6, <1>9 DEF AcpIInv, AcpPrompted, Prompted
<1>13. AcpInTurn'
  <2> DEFINE id0 == e.id
             told2 == ac'.told
             shown2 == ac'.shown
  <2>1. /\ \A id : Queued(f, "finished", id) \/ id \in told2
                      => Queued(ev, "finished", id) \/ id \in ac.told
        /\ ac.shown \subseteq shown2 /\ 0 \notin shown2
        /\ \A id : Queued(ev, "update", id) => Queued(f, "update", id) \/ id \in shown2
        /\ \A id : Led(ev, id) => Led(f, id) \/ id \in shown2
        /\ \A id : id \in told2 \ ac.told => ~Led(ev, id)
    BY <1>4, <1>5, <1>6, <1>7, <1>9 DEF AcpIInv, AcpInTurn, InTurn
  <2>2. peer.wrote \subseteq Int /\ ac.told \subseteq Int
    BY <1>2, AcpFacts
  <2> HIDE DEF told2, shown2
  <2>3. InTurn(told2, shown2, peer.works, peer.wrote, lp.st = "over", lp.woken, wr, f)
    BY <2>1, <2>2 DEF AcpIInv, AcpInTurn, InTurn
  <2> QED
    BY <1>1, <2>3 DEF AcpInTurn, told2, shown2
<1>14. AcpStaged'
  <2>1. lp.st = "replay" => Adopted(ac', lp', peer', cq', wr', ev')
    <3> SUFFICES ASSUME lp.st = "replay" PROVE Adopted(ac', lp', peer', cq', wr', ev')
      OBVIOUS
    <3>1. Adopted(ac, lp, peer, cq, wr, ev)
      BY DEF AcpIInv, AcpStaged, Staged
    <3>2. e.kind # "ask" /\ ~Queued(f, "ask", 1)
      BY <1>4, <1>5, <1>6, <3>1 DEF Adopted
    <3> QED
      BY <1>1, <1>9, <3>1, <3>2 DEF Adopted
  <2>2. Queued(ev', "exited", 0) \/ ac'.gone => lp.st = "over"
    <3>1. e.kind = "exited" => e = AcpMsg("exited", 0)
      BY <1>4, <1>5
    <3> QED
      BY <1>1, <1>6, <1>9, <3>1 DEF AcpIInv, AcpStaged, Staged
  <2> QED
    BY <1>1, <1>9, <2>1, <2>2 DEF AcpIInv, AcpStaged, Staged
<1>15. AcpAskedOnce'
  BY <1>1 DEF AcpIInv, AcpAskedOnce
<1>16. AcpTold'
  <2>1. CASE ac'.turn = 0
    BY <2>1 DEF AcpTold
  <2>2. CASE ac'.turn = ac.turn /\ ac.turn # 0
    <3>1. UnderWay(ac.turn)
      BY <2>2 DEF AcpIInv, AcpTold
    <3>2. e # AcpMsg("finished", ac.turn) /\ e # AcpMsg("exited", 0)
      BY <1>5, <1>9, <2>2
    <3> QED
      BY <1>1, <1>6, <2>2, <3>1, <3>2 DEF AcpTold, UnderWay, AcpClosed
  <2> QED
    BY <1>9, <2>1, <2>2
<1> QED
  BY <1>11, <1>12, <1>13, <1>14, <1>15, <1>16 DEF AcpIInv

-----------------------------------------------------------------------------
(* An agent that outlived its host. *)
LEMMA AcpAdoptKeeps == ASSUME AcpIInv, AcpAdopt PROVE AcpIInv'
<1>1. /\ ac.st = "none"
      /\ ac' = [ac EXCEPT !.st = "live", !.busy = TRUE, !.turn = 1,
                        !.next = MaxAcpTurns + 1, !.configs = MaxAcpAsks]
      /\ lp' = [lp EXCEPT !.st = "replay"]
      /\ peer' = [peer EXCEPT !.st = "up", !.works = {1}]
      /\ cq' = cq /\ wr' = wr /\ ev' = ev
  BY DEF AcpAdopt
<1>2. AcpTyped
  BY DEF AcpIInv
<1>3. MaxAcpTurns \in Nat /\ MaxAcpAsks \in Nat /\ MaxAcpTurns + 1 \in Nat \ {0}
  BY AcpAssumption
<1>4. /\ ac'.st = "live" /\ ac'.turn = 1 /\ ac'.next = MaxAcpTurns + 1
      /\ ac'.wait = ac.wait /\ ac'.shown = ac.shown /\ ac'.told = ac.told
      /\ ac'.gone = ac.gone /\ ac'.configs = MaxAcpAsks /\ lp'.st = "replay"
      /\ lp'.suppress = lp.suppress /\ lp'.asks = lp.asks
      /\ lp'.woken = lp.woken /\ lp'.reply = lp.reply /\ peer'.st = "up"
      /\ peer'.in = peer.in /\ peer'.works = {1} /\ peer'.wrote = peer.wrote
      /\ peer'.asked = peer.asked /\ peer'.answers = peer.answers
      /\ ac'.asked = ac.asked
  BY <1>1, <1>2, AcpFacts DEF AcpActor, AcpLoop, AcpAgent
<1>5. AcpTyped'
  <2>1. ac' \in AcpActor
    BY <1>1, <1>2, <1>3, AcpFacts DEF AcpActor
  <2>2. lp' \in AcpLoop
    BY <1>1, <1>2, AcpFacts DEF AcpLoop
  <2>3. peer' \in AcpAgent
    <3>1. {1} \in SUBSET Nat
      OBVIOUS
    <3> QED
      BY <1>1, <1>2, <3>1, AcpFacts DEF AcpAgent
  <2> QED
    BY <1>1, <1>2, <2>1, <2>2, <2>3 DEF AcpTyped
<1>6. /\ lp.st = "none" /\ peer.in = <<>> /\ wr = <<>> /\ ~lp.suppress /\ ~ac.asked
      /\ Blank(ac, lp, peer, cq, ev)
  BY <1>1 DEF AcpIInv, AcpStaged, Staged
<1>7. AcpPrompted'
  <2>1. Begun(1, MaxAcpTurns + 1)
    BY <1>3 DEF Begun
  <2> QED
    BY <1>1, <1>4, <1>6, <2>1, EmptyQueue DEF AcpPrompted, Prompted, Blank
<1>8. AcpInTurn'
  BY <1>1, <1>4, <1>6, EmptyQueue DEF AcpIInv, AcpInTurn, InTurn, Blank
<1>9. AcpStaged'
  <2>1. Adopted(ac', lp', peer', cq', wr', ev')
    BY <1>1, <1>3, <1>4, <1>6, EmptyQueue DEF Adopted, Blank
  <2> QED
    BY <1>1, <1>4, <1>6, <2>1, EmptyQueue DEF Staged, AcpStaged, Blank, Handshakes, Past
<1>10. AcpAskedOnce'
  BY <1>1, <1>4 DEF AcpIInv, AcpAskedOnce
<1>11. AcpTold'
  BY <1>4 DEF AcpTold, UnderWay, AcpClosed
<1> QED
  BY <1>5, <1>7, <1>8, <1>9, <1>10, <1>11 DEF AcpIInv

LEMMA AdoptedShutdownKeeps == ASSUME AcpIInv, AdoptedShutdown PROVE AcpIInv'
<1>1. /\ ac.st = "live" /\ lp.st = "replay"
      /\ ac' = [ac EXCEPT !.st = "torn", !.turn = 0] \/ ac' = ac
      /\ peer' = [peer EXCEPT !.st = "down"]
      /\ lp' = lp /\ cq' = cq /\ wr' = wr /\ ev' = ev
  BY DEF AdoptedShutdown, AcpIdle
<1>2. AcpTyped
  BY DEF AcpIInv
<1>3. /\ ac'.next = ac.next /\ ac'.wait = ac.wait /\ ac'.shown = ac.shown
      /\ ac'.asked = ac.asked /\ ac'.told = ac.told /\ ac'.gone = ac.gone
      /\ ac'.configs = ac.configs /\ peer'.st = "down" /\ peer'.in = peer.in
      /\ peer'.works = peer.works /\ peer'.wrote = peer.wrote
      /\ peer'.asked = peer.asked /\ peer'.answers = peer.answers
      /\ ac'.turn \in {0, ac.turn} /\ ac'.st \in {"live", "torn"}
  BY <1>1, <1>2, AcpFacts DEF AcpActor, AcpAgent
<1>4. AcpTyped'
  <2>1. ac' \in AcpActor
    <3>1. [ac EXCEPT !.st = "torn", !.turn = 0] \in AcpActor
      BY <1>2, AcpFacts DEF AcpActor
    <3> QED
      BY <1>1, <1>2, <3>1, AcpFacts
  <2>2. peer' \in AcpAgent
    BY <1>1, <1>2, AcpFacts DEF AcpAgent
  <2> QED
    BY <1>1, <1>2, <2>1, <2>2 DEF AcpTyped
<1>5. AcpPrompted'
  BY <1>1, <1>3 DEF AcpIInv, AcpPrompted, Prompted
<1>6. AcpInTurn'
  BY <1>1, <1>3 DEF AcpIInv, AcpInTurn
<1>7. AcpStaged'
  <2>1. Adopted(ac', lp', peer', cq', wr', ev')
    BY <1>1, <1>3 DEF AcpIInv, AcpStaged, Staged, Adopted
  <2> QED
    BY <1>1, <1>3, <2>1 DEF AcpIInv, AcpStaged, Staged, Past
<1>8. AcpAskedOnce'
  BY <1>1, <1>3 DEF AcpIInv, AcpAskedOnce
<1>9. AcpTold'
  BY <1>1, <1>3 DEF AcpTold, UnderWay, AcpClosed
<1> QED
  BY <1>4, <1>5, <1>6, <1>7, <1>8, <1>9 DEF AcpIInv

(* The exit is the last event: nobody waits after it.                      *)
LEMMA ExitTold ==
    ASSUME ev \in Seq(AcpEvent)
    PROVE  /\ ev \o LastWords = Append(ev, AcpExited) /\ AcpExited \in AcpEvent
           /\ AcpExited = AcpMsg("exited", 0) /\ AcpExited.kind = "exited"
           /\ Append(ev, AcpExited) \in Seq(AcpEvent)
           /\ Queued(Append(ev, AcpExited), "exited", 0)
<1>1. AcpExited \in AcpEvent /\ AcpExited = AcpMsg("exited", 0) /\ AcpExited.kind = "exited"
  BY DEF AcpExited, AcpMsg, AcpEvent
<1>2. ev \o LastWords = Append(ev, AcpExited)
  BY <1>1 DEF LastWords
<1>3. Append(ev, AcpExited) \in Seq(AcpEvent)
  BY <1>1
<1>4. Queued(Append(ev, AcpExited), "exited", 0)
  BY <1>1, MsgGrown
<1> QED
  BY <1>1, <1>2, <1>3, <1>4

LEMMA ReplayEndsKeeps == ASSUME AcpIInv, ReplayEnds PROVE AcpIInv'
<1>1. /\ lp.st = "replay" /\ wr = <<>> /\ peer.st = "down"
      /\ lp' = [lp EXCEPT !.st = "over"] /\ ev' = ev \o LastWords
      /\ ac' = ac /\ cq' = cq /\ peer' = peer /\ wr' = wr
  BY DEF ReplayEnds
<1>2. AcpTyped /\ ev \in Seq(AcpEvent)
  BY AcpFacts DEF AcpIInv
<1>3. /\ lp'.st = "over" /\ lp'.suppress = lp.suppress /\ lp'.asks = lp.asks
      /\ lp'.woken = lp.woken /\ lp'.reply = lp.reply
  BY <1>1, <1>2, AcpFacts DEF AcpLoop
<1>4. ev' = Append(ev, AcpExited) /\ Queued(ev', "exited", 0)
      /\ AcpExited \in AcpEvent /\ AcpExited.kind = "exited"
      /\ ev' \in Seq(AcpEvent)
  BY <1>1, <1>2, ExitTold
<1>5. AcpTyped'
  <2>1. lp' \in AcpLoop
    BY <1>1, <1>2, AcpFacts DEF AcpLoop
  <2> QED
    BY <1>1, <1>2, <1>4, <2>1 DEF AcpTyped
<1>6. \A id : Queued(ev', "finished", id) <=> Queued(ev, "finished", id)
  BY <1>2, <1>4, MsgGrown, EventIs
<1>7. AcpPrompted'
  BY <1>1, <1>3, <1>6 DEF AcpIInv, AcpPrompted, Prompted
<1>8. AcpInTurn'
  <2>1. InTurn(ac.told, ac.shown, peer.works, peer.wrote, TRUE, lp.woken, wr, ev)
    <3>1. InTurn(ac.told, ac.shown, peer.works, peer.wrote, lp.st = "over", lp.woken, wr, ev)
      BY DEF AcpIInv, AcpInTurn
    <3> QED
      BY <3>1, InTurnParts
  <2>2. InTurn(ac.told, ac.shown, peer.works, peer.wrote, TRUE, lp.woken, wr, ev')
    BY <1>2, <1>4, <2>1, InTurnEvent
  <2>3. (lp.st = "over")' = TRUE
    BY <1>3
  <2> QED
    BY <1>1, <1>3, <2>2, <2>3 DEF AcpInTurn
<1>9. AcpStaged'
  BY <1>1, <1>3, <1>4 DEF AcpIInv, AcpStaged, Staged, Past, Adopted, Handshakes
<1>10. AcpAskedOnce'
  BY <1>1, <1>3 DEF AcpIInv, AcpAskedOnce
<1>11. AcpTold'
  BY <1>4 DEF AcpTold, UnderWay
<1> QED
  BY <1>5, <1>7, <1>8, <1>9, <1>10, <1>11 DEF AcpIInv

LEMMA ReplayLineKeeps == ASSUME AcpIInv, ReplayLine PROVE AcpIInv'
<1> DEFINE m == Head(wr)
           t == Tail(wr)
           end == AcpMsg("finished", 1)
<1>1. /\ lp.st = "replay" /\ wr # <<>> /\ wr' = t /\ cq' = cq
      /\ \/ /\ m.kind = "update" /\ ev' = Append(ev, m)
            /\ ac' = ac /\ lp' = lp /\ peer' = peer
         \/ /\ m.kind = "response" /\ ac' = [ac EXCEPT !.busy = FALSE]
            /\ ev' = Append(ev, end) /\ lp' = lp /\ peer' = peer
         \/ /\ m.kind \in {"ask", "permission"}
            /\ ac' = ac /\ lp' = lp /\ peer' = peer /\ ev' = ev
         \/ /\ m.kind \in {"ask", "permission"}
            /\ ev' = ev \o (IF ac.busy THEN <<end>> ELSE <<>>) \o LastWords
            /\ ac' = [ac EXCEPT !.busy = FALSE]
            /\ lp' = [lp EXCEPT !.st = "over"] /\ peer' = [peer EXCEPT !.st = "down"]
  BY DEF ReplayLine
<1>2. AcpTyped /\ ev \in Seq(AcpEvent) /\ wr \in Seq(AcpWritten)
  BY AcpFacts DEF AcpIInv
<1>3. m \in AcpWritten /\ t \in Seq(AcpWritten)
  BY <1>1, <1>2
<1>4. m.id \in Int /\ (m.kind = "update" => m.id >= 0)
  BY <1>3 DEF AcpWritten
<1>5. \A kind, id : m = AcpMsg(kind, id) <=> m.kind = kind /\ m.id = id
  BY <1>3, WrittenIs
<1>6. /\ \A kind, id : Queued(wr, kind, id) <=> m = AcpMsg(kind, id) \/ Queued(t, kind, id)
      /\ \A kind, id : OnceIn(wr, kind, id) => OnceIn(t, kind, id)
  BY <1>1, <1>2, MsgShrunk
<1>7. Adopted(ac, lp, peer, cq, wr, ev) /\ ac.st # "starting" /\ Past(lp, peer.in, wr)
  BY <1>1 DEF AcpIInv, AcpStaged, Staged, Handshakes
<1>8. Prompted(ac.next, ac.told, peer.works, peer.st = "down", lp.woken, cq, peer.in, wr, ev)
  BY DEF AcpIInv, AcpPrompted
<1>9. InTurn(ac.told, ac.shown, peer.works, peer.wrote, FALSE, lp.woken, wr, ev)
  <2>1. (lp.st = "over") = FALSE
    BY <1>1
  <2> QED
    BY <2>1 DEF AcpIInv, AcpInTurn
<1>10. m.kind # "update" =>
          InTurn(ac.told, ac.shown, peer.works, peer.wrote, FALSE, lp.woken, t, ev)
  BY <1>1, <1>2, <1>9, InTurnTail
<1>11. /\ end \in AcpEvent /\ end.kind = "finished"
       /\ \A kind, id : end = AcpMsg(kind, id) <=> kind = "finished" /\ id = 1
  BY DEF AcpMsg, AcpEvent
<1>12. peer.wrote \in SUBSET Int /\ ac.told \in SUBSET Int /\ 1 \in Int
  BY <1>2, AcpFacts
<1>13. AcpAskedOnce'
  <2>1. peer'.asked = peer.asked /\ peer'.answers = peer.answers /\ lp'.asks = lp.asks
    BY <1>1, <1>2, AcpFacts DEF AcpAgent, AcpLoop
  <2> QED
    BY <1>1, <1>6, <2>1 DEF AcpIInv, AcpAskedOnce, AskedOnce
<1>14. Begun(1, ac.next)
  BY <1>2, <1>7, AcpFacts DEF Adopted, Begun
<1>15. /\ \A kind : ~Queued(cq, kind, 1) /\ ~Queued(peer.in, kind, 1)
       /\ \A id : ~Queued(cq, "prompt", id) /\ ~Queued(peer.in, "prompt", id)
       /\ \A id : OnceIn(cq, "prompt", id) /\ OnceIn(peer.in, "prompt", id)
  BY <1>7, EmptyQueue DEF Adopted
<1> HIDE DEF m, t, end
<1>16. ASSUME ac'.turn = ac.turn, lp' = lp, peer' = peer, ac'.st = ac.st, ac'.next = ac.next,
              ac'.gone = ac.gone, ac'.asked = ac.asked, ac'.configs = ac.configs,
              ac'.wait = ac.wait,
              \A kind, id : Queued(ev, kind, id) => Queued(ev', kind, id),
              \A kind : kind \in {"ask", "exited"} =>
                 \A id : Queued(ev', kind, id) => Queued(ev, kind, id),
              m.kind = "response" => Queued(ev', "finished", 1)
       PROVE  AcpStaged' /\ AcpTold'
  <2>1. Adopted(ac', lp', peer', cq', wr', ev')
    BY <1>1, <1>6, <1>7, <1>16 DEF Adopted
  <2>2. AcpStaged'
    BY <1>1, <1>6, <1>7, <1>16, <2>1 DEF AcpIInv, AcpStaged, Staged, Past, Handshakes
  <2>3. AcpTold'
    <3> SUFFICES ASSUME ac.turn # 0 PROVE AcpTold'
      BY <1>16 DEF AcpTold
    <3>1. UnderWay(ac.turn) /\ ac.turn = 1
      BY <1>7 DEF AcpIInv, AcpTold, Adopted
    <3>2. m = AcpMsg("response", 1) => m.kind = "response"
      BY <1>5
    <3> QED
      BY <1>1, <1>6, <1>16, <3>1, <3>2 DEF AcpTold, UnderWay, AcpClosed
  <2> QED
    BY <2>2, <2>3
<1>17. CASE m.kind = "update" /\ ev' = Append(ev, m) /\ ac' = ac /\ lp' = lp /\ peer' = peer
  <2>1. m.id > 0 /\ m \in AcpEvent
    <3>1. m.id # 0
      <4>1. m.id = 0 => Queued(wr, "update", Replayed)
        BY <1>5, <1>6, <1>17 DEF Replayed
      <4> QED
        BY <1>1, <1>7, <4>1 DEF Past
    <3>2. m.id > 0
      BY <1>4, <1>17, <3>1
    <3> QED
      BY <1>3, <1>17, <3>2 DEF AcpWritten, AcpEvent
  <2>2. \A kind, id : Queued(ev', kind, id) <=> Queued(ev, kind, id) \/ m = AcpMsg(kind, id)
    BY <1>2, <1>17, <2>1, MsgGrown
  <2>3. AcpTyped'
    <3>1. Append(ev, m) \in Seq(AcpEvent)
      BY <1>2, <2>1
    <3> QED
      BY <1>1, <1>2, <1>3, <1>17, <3>1 DEF AcpTyped
  <2>4. AcpPrompted'
    BY <1>1, <1>5, <1>6, <1>8, <1>17, <2>2 DEF AcpPrompted, Prompted
  <2>5. InTurn(ac.told, ac.shown, peer.works, peer.wrote, FALSE, lp.woken, t, Append(ev, m))
    BY <1>1, <1>2, <1>9, <1>12, <1>17, <2>1, InTurnHeard DEF m, t
  <2>6. AcpInTurn'
    <3>1. (lp.st = "over")' = FALSE
      BY <1>1, <1>17
    <3> QED
      BY <1>1, <1>17, <2>5, <3>1 DEF AcpInTurn
  <2>7. AcpStaged' /\ AcpTold'
    BY <1>5, <1>16, <1>17, <2>2
  <2> QED
    BY <1>13, <2>3, <2>4, <2>6, <2>7 DEF AcpIInv
<1>18. CASE m.kind = "response" /\ ac' = [ac EXCEPT !.busy = FALSE]
            /\ ev' = Append(ev, end) /\ lp' = lp /\ peer' = peer
  <2>1. m = AcpMsg("response", 1) /\ Queued(wr, "response", 1)
    BY <1>4, <1>5, <1>6, <1>7, <1>18 DEF Adopted
  <2>2. /\ ac'.st = ac.st /\ ac'.turn = ac.turn /\ ac'.next = ac.next
        /\ ac'.wait = ac.wait /\ ac'.shown = ac.shown /\ ac'.asked = ac.asked
        /\ ac'.told = ac.told /\ ac'.gone = ac.gone /\ ac'.configs = ac.configs
    BY <1>2, <1>18, AcpFacts DEF AcpActor
  <2>3. \A kind, id : Queued(ev', kind, id) <=>
                         Queued(ev, kind, id) \/ (kind = "finished" /\ id = 1)
    BY <1>2, <1>11, <1>18, MsgGrown
  <2>4. AcpTyped'
    <3>1. Append(ev, end) \in Seq(AcpEvent)
      BY <1>2, <1>11
    <3>2. ac' \in AcpActor
      BY <1>2, <1>18, AcpFacts DEF AcpActor
    <3> QED
      BY <1>1, <1>2, <1>3, <1>18, <3>1, <3>2 DEF AcpTyped
  <2>5. 1 \notin peer.works
    BY <1>8, <1>12, <2>1 DEF Prompted
  <2>6. AcpPrompted'
    BY <1>1, <1>6, <1>8, <1>14, <1>15, <1>18, <2>2, <2>3, <2>5 DEF AcpPrompted, Prompted
  <2>7. ~Queued(t, "update", 1)
    <3>1. UpdateFirst(wr, "response", 1)
      BY <1>9, <1>12 DEF InTurn
    <3>2. ~Queued(wr, "update", 1)
      BY <1>1, <1>2, <2>1, <3>1, FirstShrunk DEF m
    <3> QED
      BY <1>6, <3>2
  <2>8. InTurn(ac.told, ac.shown, peer.works, peer.wrote, FALSE, lp.woken, t, ev')
    BY <1>2, <1>10, <1>12, <1>18, <2>7, InTurnEnd DEF end
  <2>9. AcpInTurn'
    <3>1. (lp.st = "over")' = FALSE
      BY <1>1, <1>18
    <3> QED
      BY <1>1, <1>18, <2>2, <2>8, <3>1 DEF AcpInTurn
  <2>10. AcpStaged' /\ AcpTold'
    BY <1>16, <1>18, <2>2, <2>3
  <2> QED
    BY <1>13, <2>4, <2>6, <2>9, <2>10 DEF AcpIInv
<1>19. CASE /\ m.kind \in {"ask", "permission"}
            /\ ac' = ac /\ lp' = lp /\ peer' = peer /\ ev' = ev
  <2>1. AcpTyped'
    BY <1>1, <1>2, <1>3, <1>19 DEF AcpTyped
  <2>2. AcpPrompted'
    BY <1>1, <1>6, <1>8, <1>19 DEF AcpPrompted, Prompted
  <2>3. AcpInTurn'
    <3>1. (lp.st = "over")' = FALSE
      BY <1>1, <1>19
    <3> QED
      BY <1>1, <1>10, <1>19, <3>1 DEF AcpInTurn
  <2>4. AcpStaged' /\ AcpTold'
    BY <1>16, <1>19
  <2> QED
    BY <1>13, <2>1, <2>2, <2>3, <2>4 DEF AcpIInv
<1>20. CASE /\ m.kind \in {"ask", "permission"}
            /\ ev' = ev \o (IF ac.busy THEN <<end>> ELSE <<>>) \o LastWords
            /\ ac' = [ac EXCEPT !.busy = FALSE]
            /\ lp' = [lp EXCEPT !.st = "over"] /\ peer' = [peer EXCEPT !.st = "down"]
  <2> DEFINE f == ev \o (IF ac.busy THEN <<end>> ELSE <<>>)
  <2>1. /\ f \in Seq(AcpEvent)
        /\ f = ev \/ f = Append(ev, end)
    BY <1>2, <1>11
  <2>2. \A kind, id : Queued(f, kind, id) =>
                         Queued(ev, kind, id) \/ (kind = "finished" /\ id = 1)
    <3>1. \A kind, id : Queued(Append(ev, end), kind, id) <=>
                            Queued(ev, kind, id) \/ end = AcpMsg(kind, id)
      BY <1>2, <1>11, MsgGrown
    <3> QED
      BY <1>11, <2>1, <3>1
  <2>3. ev' = f \o <<AcpExited>>
    BY <1>20 DEF LastWords
  <2> HIDE DEF f
  <2>4. /\ AcpExited \in AcpEvent /\ AcpExited.kind = "exited"
        /\ \A kind, id : AcpExited = AcpMsg(kind, id) <=> kind = "exited" /\ id = 0
    BY DEF AcpExited, AcpMsg, AcpEvent
  <2>5. ev' = Append(f, AcpExited) /\ ev' \in Seq(AcpEvent)
    BY <2>1, <2>3, <2>4
  <2>6. \A kind, id : Queued(ev', kind, id) <=>
                         Queued(f, kind, id) \/ (kind = "exited" /\ id = 0)
    BY <2>1, <2>4, <2>5, MsgGrown
  <2>7. /\ ac'.st = ac.st /\ ac'.turn = ac.turn /\ ac'.next = ac.next
        /\ ac'.wait = ac.wait /\ ac'.shown = ac.shown /\ ac'.asked = ac.asked
        /\ ac'.told = ac.told /\ ac'.gone = ac.gone /\ ac'.configs = ac.configs
        /\ lp'.st = "over" /\ lp'.suppress = lp.suppress /\ lp'.asks = lp.asks
        /\ lp'.woken = lp.woken /\ lp'.reply = lp.reply /\ peer'.st = "down"
        /\ peer'.in = peer.in /\ peer'.works = peer.works
        /\ peer'.wrote = peer.wrote /\ peer'.asked = peer.asked
        /\ peer'.answers = peer.answers
    BY <1>2, <1>20, AcpFacts DEF AcpActor, AcpLoop, AcpAgent
  <2>8. AcpTyped'
    <3>1. ac' \in AcpActor
      BY <1>2, <1>20, AcpFacts DEF AcpActor
    <3>2. lp' \in AcpLoop
      BY <1>2, <1>20, AcpFacts DEF AcpLoop
    <3>3. peer' \in AcpAgent
      BY <1>2, <1>20, AcpFacts DEF AcpAgent
    <3> QED
      BY <1>1, <1>2, <1>3, <2>5, <3>1, <3>2, <3>3 DEF AcpTyped
  <2>9. AcpPrompted'
    BY <1>1, <1>6, <1>8, <1>14, <1>15, <2>2, <2>6, <2>7 DEF AcpPrompted, Prompted
  <2>10. AcpInTurn'
    <3>1. InTurn(ac.told, ac.shown, peer.works, peer.wrote, TRUE, lp.woken, t, ev)
      BY <1>10, <1>20, InTurnParts
    <3>2. InTurn(ac.told, ac.shown, peer.works, peer.wrote, TRUE, lp.woken, t, f)
      BY <1>2, <1>12, <2>1, <3>1, InTurnEnd DEF end
    <3>3. InTurn(ac.told, ac.shown, peer.works, peer.wrote, TRUE, lp.woken, t, ev')
      BY <2>1, <2>4, <2>5, <3>2, InTurnEvent
    <3>4. (lp.st = "over")' = TRUE
      BY <2>7
    <3> QED
      BY <1>1, <2>7, <3>3, <3>4 DEF AcpInTurn
  <2>11. AcpStaged'
    BY <1>1, <1>6, <1>7, <2>7 DEF AcpStaged, Staged, Past, Adopted, Handshakes
  <2>12. AcpTold'
    BY <2>6 DEF AcpTold, UnderWay
  <2> QED
    BY <1>13, <2>8, <2>9, <2>10, <2>11, <2>12 DEF AcpIInv
<1> QED
  BY <1>1, <1>17, <1>18, <1>19, <1>20

-----------------------------------------------------------------------------
(* The command loop. *)
LEMMA ResultActor ==
    ASSUME ac \in AcpActor, NEW n \in Int, NEW ok \in BOOLEAN
    PROVE  LET a == AcpResult(n, ok)
           IN  /\ a \in AcpActor /\ a.st = ac.st /\ a.next = ac.next /\ a.shown = ac.shown
               /\ a.asked = ac.asked /\ a.told = ac.told /\ a.gone = ac.gone
               /\ a.configs = ac.configs
               /\ a.turn = IF ac.wait = n /\ n > 0 /\ ok THEN n ELSE ac.turn
<1> DEFINE t == IF n > 0 /\ ok THEN n ELSE ac.turn
           b == IF n > 0 /\ ~ok THEN FALSE ELSE ac.busy
           a == [ac EXCEPT !.wait = NoCmd, !.turn = t, !.busy = b]
<1>1. CASE ac.wait # n
  BY <1>1 DEF AcpResult
<1>2. CASE ac.wait = n
  <2>1. AcpResult(n, ok) = a
    BY <1>2 DEF AcpResult, AcpActor
  <2>2. t \in Nat
    BY DEF AcpActor
  <2>3. b \in BOOLEAN
    <3>1. ac.busy \in BOOLEAN
      BY DEF AcpActor
    <3> QED
      BY <3>1, Zenon
  <2>4. NoCmd \in Int
    BY DEF NoCmd
  <2>5. t = IF ac.wait = n /\ n > 0 /\ ok THEN n ELSE ac.turn
    BY <1>2
  <2> HIDE DEF t, b
  <2>6. /\ a.st = ac.st /\ a.next = ac.next /\ a.shown = ac.shown
        /\ a.asked = ac.asked /\ a.told = ac.told /\ a.gone = ac.gone
        /\ a.configs = ac.configs /\ a.turn = t
    BY DEF AcpActor
  <2>7. a \in AcpActor
    BY <2>2, <2>3, <2>4, ActorUpdates, Zenon
  <2> HIDE DEF a
  <2> QED
    BY <2>1, <2>5, <2>6, <2>7
<1> QED
  BY <1>1, <1>2

LEMMA CommandTaken ==
    ASSUME AcpIInv, lp.st \in {"idle", "config", "close"},
           \/ cq' = cq
           \/ cq # <<>> /\ cq' = Tail(cq) /\ Head(cq).kind # "prompt",
           lp.suppress /\ lp'.suppress => cq' = cq /\ lp'.st = lp.st,
           ac' \in AcpActor, ac'.st = ac.st, ac'.next = ac.next, ac'.shown = ac.shown,
           ac'.told = ac.told, ac'.gone = ac.gone, ac'.turn = ac.turn,
           lp' \in AcpLoop, lp'.st \in {"idle", "config", "close"}, lp'.woken = lp.woken,
           lp'.suppress => lp.suppress,
           peer' \in AcpAgent, peer'.st = peer.st, peer'.works = peer.works,
           peer'.wrote = peer.wrote,
           peer'.in = peer.in \/ \E m \in AcpAsked : /\ peer'.in = Append(peer.in, m)
                                                    /\ m.kind \notin {"prompt", "load"},
           wr' = wr, ev' = ev, AcpAskedOnce'
    PROVE  AcpIInv'
<1>1. AcpTyped /\ cq \in Seq(AcpCommand) /\ peer.in \in Seq(AcpAsked)
  BY AcpFacts DEF AcpIInv
<1>2. AcpTyped'
  <2>1. cq' \in Seq(AcpCommand)
    <3>1. cq # <<>> => Tail(cq) \in Seq(AcpCommand)
      BY <1>1, MsgTail
    <3> QED
      BY <1>1, <3>1
  <2> QED
    BY <1>1, <2>1 DEF AcpTyped
<1>3. \A id : /\ Queued(cq', "prompt", id) <=> Queued(cq, "prompt", id)
              /\ OnceIn(cq, "prompt", id) => OnceIn(cq', "prompt", id)
              /\ Queued(cq', "shutdown", id) => Queued(cq, "shutdown", id)
  <2>1. CASE cq' = cq
    BY <2>1
  <2>2. CASE cq # <<>> /\ cq' = Tail(cq) /\ Head(cq).kind # "prompt"
    <3>1. \A id : Head(cq) # AcpMsg("prompt", id)
      BY <2>2 DEF AcpMsg
    <3> QED
      BY <1>1, <2>2, <3>1, MsgShrunk
  <2> QED
    BY <2>1, <2>2
<1>4. \A kind, id : kind \in {"prompt", "load"} =>
        /\ Queued(peer'.in, kind, id) <=> Queued(peer.in, kind, id)
        /\ OnceIn(peer.in, kind, id) => OnceIn(peer'.in, kind, id)
  <2>1. CASE peer'.in = peer.in
    BY <2>1
  <2>2. ASSUME NEW m \in AcpAsked, peer'.in = Append(peer.in, m),
               m.kind \notin {"prompt", "load"}
        PROVE  \A kind, id : kind \in {"prompt", "load"} =>
                  /\ Queued(peer'.in, kind, id) <=> Queued(peer.in, kind, id)
                  /\ OnceIn(peer.in, kind, id) => OnceIn(peer'.in, kind, id)
    <3>1. \A kind, id : kind \in {"prompt", "load"} => m # AcpMsg(kind, id)
      BY <2>2 DEF AcpMsg
    <3> QED
      BY <1>1, <2>2, <3>1, MsgGrown
  <2> QED
    BY <2>1, <2>2
<1>5. AcpPrompted'
  BY <1>3, <1>4 DEF AcpIInv, AcpPrompted, Prompted
<1>6. AcpInTurn'
  <2>1. (lp.st = "over")' = (lp.st = "over")
    OBVIOUS
  <2> QED
    BY <2>1 DEF AcpIInv, AcpInTurn
<1>7. AcpStaged'
  <2>1. /\ lp.st \notin Handshakes \cup {"none", "ready", "failed", "over", "replay", "load"}
        /\ lp'.st \notin Handshakes \cup {"none", "ready", "failed", "over", "replay", "load"}
    BY DEF Handshakes
  <2>2. Past(lp', peer'.in, wr')
    BY <1>4, <2>1 DEF AcpIInv, AcpStaged, Staged, Past
  <2>3. Staged(ac, lp, peer, cq, wr, ev)
    BY DEF AcpIInv, AcpStaged
  <2>4. lp'.suppress => /\ peer'.works = {} /\ peer'.wrote = {}
                        /\ \A id \in Int : ~Queued(peer'.in, "prompt", id)
    BY <1>4, <2>3 DEF Staged
  <2>5. lp'.suppress => lp'.st = "idle" /\ cq' # <<>> /\ Head(cq').kind = "install"
    BY <2>3 DEF Staged
  <2> QED
    BY <1>3, <2>1, <2>2, <2>3, <2>4, <2>5 DEF AcpStaged, Staged
<1>8. AcpTold'
  <2> SUFFICES ASSUME ac.turn # 0 PROVE AcpTold'
    BY DEF AcpTold
  <2>1. UnderWay(ac.turn)
    BY DEF AcpIInv, AcpTold
  <2> QED
    BY <1>3, <1>4, <2>1 DEF AcpTold, UnderWay, AcpClosed
<1> QED
  BY <1>2, <1>5, <1>6, <1>7, <1>8 DEF AcpIInv

LEMMA OneAsked ==
    ASSUME AcpIInv
    PROVE  /\ lp.asks \in {{}, {1}} /\ Cardinality({}) = 0 /\ Cardinality({1}) = 1
           /\ AskedOnce(peer.asked, peer.answers, lp.asks, wr)
           /\ AskedOnce(peer.asked, peer.answers + Cardinality(lp.asks), {}, wr)
           /\ peer.answers + Cardinality(lp.asks) \in Nat
<1>1. lp.asks \in {{}, {1}}
  BY AcpFacts DEF AcpIInv
<1>2. Cardinality({}) = 0 /\ Cardinality({1}) = 1
  BY FS_EmptySet, FS_Singleton
<1>3. AskedOnce(peer.asked, peer.answers, lp.asks, wr)
  BY DEF AcpIInv, AcpAskedOnce
<1>4. AskedOnce(peer.asked, peer.answers + Cardinality(lp.asks), {}, wr)
  <2>1. CASE lp.asks = {}
    BY <1>2, <1>3, <2>1 DEF AskedOnce
  <2>2. CASE lp.asks = {1}
    BY <1>2, <1>3, <2>2 DEF AskedOnce
  <2> QED
    BY <1>1, <2>1, <2>2
<1>5. peer.answers + Cardinality(lp.asks) \in Nat
  <2>1. peer.answers \in Nat
    BY AcpFacts DEF AcpIInv, AcpAgent
  <2>2. Cardinality(lp.asks) \in {0, 1}
    BY <1>1, <1>2
  <2> QED
    BY <2>1, <2>2
<1> QED
  BY <1>1, <1>2, <1>3, <1>4, <1>5

LEMMA ConfigAtOnceKeeps == ASSUME AcpIInv, ConfigAtOnce PROVE AcpIInv'
<1>1. /\ lp.st = "idle" /\ cq # <<>> /\ Head(cq).kind = "config"
      /\ cq' = Tail(cq) /\ ac' = AcpResult(-1, TRUE)
      /\ lp' = lp /\ peer' = peer /\ wr' = wr /\ ev' = ev
  BY DEF ConfigAtOnce
<1>2. ac \in AcpActor /\ lp \in AcpLoop /\ peer \in AcpAgent
  BY AcpFacts DEF AcpIInv
<1>3. -1 \in Int /\ ~(-1 > 0) /\ TRUE \in BOOLEAN
  OBVIOUS
<1>4. /\ ac' \in AcpActor /\ ac'.st = ac.st /\ ac'.next = ac.next /\ ac'.shown = ac.shown
      /\ ac'.told = ac.told /\ ac'.gone = ac.gone /\ ac'.turn = ac.turn
  BY <1>1, <1>2, <1>3, ResultActor
<1>5. ~lp.suppress
  BY <1>1 DEF AcpIInv, AcpStaged, Staged
<1>6. AcpAskedOnce'
  BY <1>1 DEF AcpIInv, AcpAskedOnce
<1> QED
  BY <1>1, <1>2, <1>4, <1>5, <1>6, CommandTaken

LEMMA RequestEndsKeeps == ASSUME AcpIInv, RequestEnds PROVE AcpIInv'
<1>1. /\ lp.st \in {"config", "close"}
      /\ \/ ac' = AcpResult(-1, TRUE)
         \/ ac' = AcpFaulted(AcpResult(-1, FALSE))
      /\ lp' = [lp EXCEPT !.st = "idle", !.reply = "none"]
      /\ cq' = cq /\ peer' = peer /\ wr' = wr /\ ev' = ev
  BY DEF RequestEnds
<1>2. ac \in AcpActor /\ lp \in AcpLoop /\ peer \in AcpAgent
  BY AcpFacts DEF AcpIInv
<1>3. -1 \in Int /\ ~(-1 > 0) /\ TRUE \in BOOLEAN /\ FALSE \in BOOLEAN
  OBVIOUS
<1>4. /\ ac' \in AcpActor /\ ac'.st = ac.st /\ ac'.next = ac.next /\ ac'.shown = ac.shown
      /\ ac'.told = ac.told /\ ac'.gone = ac.gone /\ ac'.turn = ac.turn
  <2>1. CASE ac' = AcpResult(-1, TRUE)
    BY <1>2, <1>3, <2>1, ResultActor
  <2>2. CASE ac' = AcpFaulted(AcpResult(-1, FALSE))
    <3> DEFINE a == AcpResult(-1, FALSE)
    <3>1. /\ a \in AcpActor /\ a.st = ac.st /\ a.next = ac.next /\ a.shown = ac.shown
          /\ a.told = ac.told /\ a.gone = ac.gone /\ a.turn = ac.turn
      BY <1>2, <1>3, ResultActor
    <3> HIDE DEF a
    <3>2. ac' = AcpFaulted(a)
      BY <2>2 DEF a
    <3>3. AcpFaulted(a) \in AcpActor
      BY <3>1, FaultedActor
    <3> QED
      BY <3>1, <3>2, <3>3 DEF AcpFaulted, AcpActor
  <2> QED
    BY <1>1, <2>1, <2>2
<1>5. ~lp.suppress
  BY <1>1 DEF AcpIInv, AcpStaged, Staged
<1>6. /\ lp'.st = "idle" /\ lp'.suppress = lp.suppress /\ lp'.asks = lp.asks
      /\ lp'.woken = lp.woken /\ lp'.reply = "none"
      /\ lp' \in AcpLoop
  BY <1>1, <1>2 DEF AcpLoop
<1>7. AcpAskedOnce'
  BY <1>1, <1>6 DEF AcpIInv, AcpAskedOnce
<1> QED
  BY <1>1, <1>2, <1>4, <1>5, <1>6, <1>7, CommandTaken

LEMMA CommandLoopKeeps == ASSUME AcpIInv, CommandLoop PROVE AcpIInv'
<1> DEFINE c == Head(cq)
           t == Tail(cq)
<1>1. /\ lp.st = "idle" /\ cq # <<>> /\ cq' = t /\ wr' = wr
      /\ CASE c.kind = "install" ->
                  /\ lp' = [lp EXCEPT !.suppress = FALSE]
                  /\ ac' = ac /\ peer' = peer /\ ev' = ev
           [] c.kind = "prompt" ->
                  /\ ac' = AcpResult(c.id, TRUE) /\ peer' = AcpTell(c)
                  /\ lp' = lp /\ ev' = ev
           [] c.kind = "cancel" ->
                  /\ ac' = AcpResult(-1, TRUE) /\ peer' = Cancelled(peer, lp)
                  /\ lp' = [lp EXCEPT !.asks = {}] /\ ev' = ev
           [] c.kind = "answer" ->
                  /\ ac' = AcpResult(-1, lp.asks # {})
                  /\ peer' = [peer EXCEPT !.answers = @ + Cardinality(lp.asks)]
                  /\ lp' = [lp EXCEPT !.asks = {}] /\ ev' = ev
           [] c.kind \in {"config", "close"} ->
                  /\ lp' = [lp EXCEPT !.st = c.kind, !.reply = "none"]
                  /\ peer' = AcpTell(c) /\ ac' = ac /\ ev' = ev
           [] c.kind = "shutdown" ->
                  /\ lp' = [lp EXCEPT !.st = "over"]
                  /\ ev' = Append(ev, AcpExited) /\ ac' = ac /\ peer' = peer
  BY DEF CommandLoop
<1>2. /\ AcpTyped /\ ac \in AcpActor /\ lp \in AcpLoop /\ peer \in AcpAgent
      /\ cq \in Seq(AcpCommand) /\ peer.in \in Seq(AcpAsked) /\ ev \in Seq(AcpEvent)
      /\ peer.answers \in Nat
  BY AcpFacts DEF AcpIInv, AcpAgent
<1>3. c \in AcpCommand /\ t \in Seq(AcpCommand)
  BY <1>1, <1>2
<1>4. /\ c.kind \in {"install", "prompt", "cancel", "answer", "config", "close", "shutdown"}
      /\ c.id \in Int /\ (c.kind = "prompt" => c.id > 0)
      /\ (c.kind \in {"config", "close", "shutdown"} => c.id = 0)
  BY <1>3 DEF AcpCommand
<1>5. \A kind, id : c = AcpMsg(kind, id) <=> c.kind = kind /\ c.id = id
  <2>1. c \in [kind : {"install", "prompt", "cancel", "answer", "config", "close",
                       "shutdown"}, id : Int]
    BY <1>3 DEF AcpCommand
  <2> QED
    BY <2>1, MsgIs
<1>6. -1 \in Int /\ ~(-1 > 0) /\ TRUE \in BOOLEAN /\ (lp.asks # {}) \in BOOLEAN
  OBVIOUS
<1>7. \A kind, id : /\ Queued(cq, kind, id) <=> c = AcpMsg(kind, id) \/ Queued(t, kind, id)
                    /\ OnceIn(cq, kind, id) => /\ OnceIn(t, kind, id)
                                               /\ c # AcpMsg(kind, id) \/ ~Queued(t, kind, id)
  BY <1>1, <1>2, MsgShrunk
<1>8. lp.suppress => c.kind = "install"
  BY <1>1 DEF AcpIInv, AcpStaged, Staged
<1>9. cq' = Tail(cq) /\ (c.kind # "prompt" => Head(cq).kind # "prompt")
  BY <1>1
<1>10. c.kind \in {"prompt", "config", "close"} => c \in AcpAsked
  BY <1>3 DEF AcpCommand, AcpAsked
<1> HIDE DEF c, t
<1>11. CASE c.kind = "install"
  <2>1. /\ lp' = [lp EXCEPT !.suppress = FALSE]
        /\ ac' = ac /\ peer' = peer /\ ev' = ev
    BY <1>1, <1>11
  <2>2. /\ lp'.st = lp.st /\ lp'.suppress = FALSE /\ lp'.asks = lp.asks
        /\ lp'.woken = lp.woken /\ lp'.reply = lp.reply
        /\ lp' \in AcpLoop
    BY <1>2, <2>1 DEF AcpLoop
  <2>3. AcpAskedOnce'
    BY <1>1, <2>1, <2>2 DEF AcpIInv, AcpAskedOnce
  <2> QED
    BY <1>1, <1>2, <1>9, <1>11, <2>1, <2>2, <2>3, CommandTaken
<1>12. CASE c.kind = "cancel"
  <2> DEFINE m == AcpMsg("cancel", 0)
  <2>1. /\ ac' = AcpResult(-1, TRUE) /\ lp' = [lp EXCEPT !.asks = {}] /\ ev' = ev
        /\ peer' = [peer EXCEPT !.answers = @ + Cardinality(lp.asks), !.in = Append(@, m)]
    BY <1>1, <1>12 DEF Cancelled
  <2>2. m \in AcpAsked /\ m.kind = "cancel"
    BY DEF AcpMsg, AcpAsked
  <2> HIDE DEF m
  <2>3. Append(peer.in, m) \in Seq(AcpAsked)
    BY <1>2, <2>2
  <2>4. peer.answers + Cardinality(lp.asks) \in Nat
    BY OneAsked
  <2>5. /\ peer'.st = peer.st /\ peer'.in = Append(peer.in, m)
        /\ peer'.works = peer.works /\ peer'.wrote = peer.wrote
        /\ peer'.asked = peer.asked
        /\ peer'.answers = peer.answers + Cardinality(lp.asks)
        /\ lp'.st = lp.st /\ lp'.suppress = lp.suppress /\ lp'.asks = {}
        /\ lp'.woken = lp.woken /\ lp'.reply = lp.reply
    BY <1>2, <2>1 DEF AcpAgent, AcpLoop
  <2>6. peer' \in AcpAgent
    BY <1>2, <2>1, <2>3, <2>4 DEF AcpAgent
  <2>7. lp' \in AcpLoop
    BY <1>2, <2>1 DEF AcpLoop
  <2>8. AcpAskedOnce'
    BY <1>1, <2>5, OneAsked DEF AcpAskedOnce
  <2>9. /\ ac' \in AcpActor /\ ac'.st = ac.st /\ ac'.next = ac.next /\ ac'.shown = ac.shown
        /\ ac'.told = ac.told /\ ac'.gone = ac.gone /\ ac'.turn = ac.turn
    BY <1>2, <1>6, <2>1, ResultActor
  <2> QED
    BY <1>1, <1>8, <1>9, <1>12, <2>1, <2>2, <2>5, <2>6, <2>7, <2>8, <2>9, CommandTaken
<1>13. CASE c.kind = "answer"
  <2>1. /\ ac' = AcpResult(-1, lp.asks # {}) /\ lp' = [lp EXCEPT !.asks = {}] /\ ev' = ev
        /\ peer' = [peer EXCEPT !.answers = @ + Cardinality(lp.asks)]
    BY <1>1, <1>13
  <2>2. peer.answers + Cardinality(lp.asks) \in Nat
    BY OneAsked
  <2>3. /\ peer'.st = peer.st /\ peer'.in = peer.in /\ peer'.works = peer.works
        /\ peer'.wrote = peer.wrote /\ peer'.asked = peer.asked
        /\ peer'.answers = peer.answers + Cardinality(lp.asks)
        /\ lp'.st = lp.st /\ lp'.suppress = lp.suppress /\ lp'.asks = {}
        /\ lp'.woken = lp.woken /\ lp'.reply = lp.reply
    BY <1>2, <2>1 DEF AcpAgent, AcpLoop
  <2>4. peer' \in AcpAgent
    BY <1>2, <2>1, <2>2 DEF AcpAgent
  <2>5. lp' \in AcpLoop
    BY <1>2, <2>1 DEF AcpLoop
  <2>6. AcpAskedOnce'
    BY <1>1, <2>3, OneAsked DEF AcpAskedOnce
  <2>7. /\ ac' \in AcpActor /\ ac'.st = ac.st /\ ac'.next = ac.next /\ ac'.shown = ac.shown
        /\ ac'.told = ac.told /\ ac'.gone = ac.gone /\ ac'.turn = ac.turn
    BY <1>2, <1>6, <2>1, ResultActor
  <2> QED
    BY <1>1, <1>8, <1>9, <1>13, <2>1, <2>3, <2>4, <2>5, <2>6, <2>7, CommandTaken
<1>14. CASE c.kind \in {"config", "close"}
  <2>1. /\ lp' = [lp EXCEPT !.st = c.kind, !.reply = "none"] /\ ac' = ac /\ ev' = ev
        /\ peer' = [peer EXCEPT !.in = Append(@, c)]
    BY <1>1, <1>14 DEF AcpTell
  <2>2. Append(peer.in, c) \in Seq(AcpAsked)
    BY <1>2, <1>10, <1>14
  <2>3. /\ peer'.st = peer.st /\ peer'.in = Append(peer.in, c)
        /\ peer'.works = peer.works /\ peer'.wrote = peer.wrote
        /\ peer'.asked = peer.asked /\ peer'.answers = peer.answers
        /\ lp'.st = c.kind /\ lp'.suppress = lp.suppress /\ lp'.asks = lp.asks
        /\ lp'.woken = lp.woken /\ lp'.reply = "none"
    BY <1>2, <2>1 DEF AcpAgent, AcpLoop
  <2>4. peer' \in AcpAgent
    BY <1>2, <2>1, <2>2 DEF AcpAgent
  <2>5. lp' \in AcpLoop
    BY <1>2, <1>14, <2>1 DEF AcpLoop
  <2>6. AcpAskedOnce'
    BY <1>1, <2>3 DEF AcpIInv, AcpAskedOnce
  <2>7. c.kind \notin {"prompt", "load"} /\ c \in AcpAsked /\ ~lp.suppress
    BY <1>8, <1>10, <1>14
  <2> QED
    BY <1>1, <1>2, <1>9, <1>14, <2>1, <2>3, <2>4, <2>5, <2>6, <2>7, CommandTaken
<1>15. CASE c.kind = "prompt"
  <2> DEFINE in2 == Append(peer.in, c)
  <2>1. /\ ac' = AcpResult(c.id, TRUE) /\ lp' = lp /\ ev' = ev
        /\ peer' = [peer EXCEPT !.in = in2]
    BY <1>1, <1>2, <1>15 DEF AcpTell, AcpAgent
  <2>2. in2 \in Seq(AcpAsked) /\ c \in AcpAsked /\ c.id > 0 /\ ~lp.suppress
    BY <1>2, <1>4, <1>8, <1>10, <1>15
  <2>3. \A kind, id : /\ Queued(in2, kind, id) <=>
                            Queued(peer.in, kind, id) \/ c = AcpMsg(kind, id)
                      /\ OnceIn(peer.in, kind, id)
                            /\ ~(Queued(peer.in, kind, id) /\ c = AcpMsg(kind, id))
                           => OnceIn(in2, kind, id)
    BY <1>2, <2>2, MsgGrown
  <2>4. /\ peer'.st = peer.st /\ peer'.in = in2 /\ peer'.works = peer.works
        /\ peer'.wrote = peer.wrote /\ peer'.asked = peer.asked
        /\ peer'.answers = peer.answers
        /\ peer' \in AcpAgent
    <3> HIDE DEF in2
    <3> QED
      BY <1>2, <2>1, <2>2 DEF AcpAgent
  <2> HIDE DEF in2
  <2>5. /\ ac' \in AcpActor /\ ac'.st = ac.st /\ ac'.next = ac.next /\ ac'.shown = ac.shown
        /\ ac'.told = ac.told /\ ac'.gone = ac.gone /\ ac'.turn \in {ac.turn, c.id}
    BY <1>2, <1>4, <1>6, <2>1, ResultActor
  <2>6. AcpTyped'
    BY <1>1, <1>2, <1>3, <2>1, <2>4, <2>5 DEF AcpTyped
  <2>7. AcpPrompted'
    <3>1. Prompted(ac.next, ac.told, peer.works, peer.st = "down", lp.woken,
                   cq, peer.in, wr, ev)
      BY DEF AcpIInv, AcpPrompted
    <3>2. \A id \in Int : Queued(t, "prompt", id) \/ Queued(in2, "prompt", id)
              => Queued(cq, "prompt", id) \/ Queued(peer.in, "prompt", id)
      BY <1>7, <2>3
    <3>3. \A id \in Int : ~Queued(t, "prompt", id) \/ ~Queued(in2, "prompt", id)
      BY <1>7, <2>3, <3>1 DEF Prompted
    <3>4. \A id \in Int : OnceIn(t, "prompt", id) /\ OnceIn(in2, "prompt", id)
      BY <1>7, <2>3, <3>1 DEF Prompted
    <3>5. Prompted(ac.next, ac.told, peer.works, peer.st = "down", lp.woken,
                   t, in2, wr, ev)
      BY <3>1, <3>2, <3>3, <3>4 DEF Prompted
    <3> QED
      BY <1>1, <2>1, <2>4, <2>5, <3>5 DEF AcpPrompted
  <2>8. AcpInTurn'
    BY <1>1, <2>1, <2>4, <2>5 DEF AcpIInv, AcpInTurn
  <2>9. AcpStaged'
    <3>1. Staged(ac, lp, peer, cq, wr, ev)
      BY DEF AcpIInv, AcpStaged
    <3>2. Past(lp', peer'.in, wr')
      BY <1>1, <1>5, <1>15, <2>1, <2>3, <2>4, <3>1 DEF Staged, Past
    <3>3. lp.st \notin Handshakes \cup {"none", "ready", "failed", "over", "replay", "load"}
      BY <1>1 DEF Handshakes
    <3>4. Queued(cq', "shutdown", 0) => Queued(cq, "shutdown", 0)
      BY <1>1, <1>7
    <3> QED
      BY <1>1, <2>1, <2>2, <2>4, <2>5, <3>1, <3>2, <3>3, <3>4 DEF AcpStaged, Staged
  <2>10. AcpAskedOnce'
    BY <1>1, <2>1, <2>4 DEF AcpIInv, AcpAskedOnce
  <2>11. AcpTold'
    <3>1. CASE ac'.turn = c.id
      <4>1. Queued(in2, "prompt", c.id)
        BY <1>5, <1>15, <2>3
      <4> QED
        BY <1>1, <2>1, <2>4, <3>1, <4>1 DEF AcpTold, UnderWay, AcpClosed
    <3>2. CASE ac'.turn = ac.turn /\ ac.turn # 0
      <4>1. UnderWay(ac.turn)
        BY <3>2 DEF AcpIInv, AcpTold
      <4> QED
        BY <1>1, <1>7, <2>1, <2>3, <2>4, <3>2, <4>1 DEF AcpTold, UnderWay, AcpClosed
    <3>3. CASE ac'.turn = 0
      BY <3>3 DEF AcpTold
    <3> QED
      BY <2>5, <3>1, <3>2, <3>3
  <2> QED
    BY <2>6, <2>7, <2>8, <2>9, <2>10, <2>11 DEF AcpIInv
<1>16. CASE c.kind = "shutdown"
  <2>1. /\ lp' = [lp EXCEPT !.st = "over"] /\ ev' = Append(ev, AcpExited)
        /\ ac' = ac /\ peer' = peer
    BY <1>1, <1>16
  <2>2. /\ lp'.st = "over" /\ lp'.suppress = lp.suppress /\ lp'.asks = lp.asks
        /\ lp'.woken = lp.woken /\ lp'.reply = lp.reply
        /\ lp' \in AcpLoop
    BY <1>2, <2>1 DEF AcpLoop
  <2>3. /\ AcpExited \in AcpEvent /\ AcpExited.kind = "exited"
        /\ Queued(ev', "exited", 0) /\ ev' \in Seq(AcpEvent)
    BY <1>2, <2>1, ExitTold
  <2>4. \A id : Queued(ev', "finished", id) <=> Queued(ev, "finished", id)
    BY <1>2, <2>1, <2>3, MsgGrown, EventIs
  <2>5. AcpTyped'
    BY <1>1, <1>2, <1>3, <2>1, <2>2, <2>3 DEF AcpTyped
  <2>6. AcpPrompted'
    BY <1>1, <1>7, <2>1, <2>2, <2>4 DEF AcpIInv, AcpPrompted, Prompted
  <2>7. AcpInTurn'
    <3>1. InTurn(ac.told, ac.shown, peer.works, peer.wrote, TRUE, lp.woken, wr, ev)
      BY InTurnParts DEF AcpIInv, AcpInTurn
    <3>2. InTurn(ac.told, ac.shown, peer.works, peer.wrote, TRUE, lp.woken, wr, ev')
      BY <1>2, <2>1, <2>3, <3>1, InTurnEvent
    <3>3. (lp.st = "over")' = TRUE
      BY <2>2
    <3> QED
      BY <1>1, <2>1, <2>2, <3>2, <3>3 DEF AcpInTurn
  <2>8. AcpStaged'
    <3>1. Staged(ac, lp, peer, cq, wr, ev)
      BY DEF AcpIInv, AcpStaged
    <3>2. Queued(cq, "shutdown", 0)
      BY <1>4, <1>5, <1>7, <1>16
    <3>3. lp.st \notin Handshakes \cup {"none", "ready", "failed", "over", "replay", "load"}
      BY <1>1 DEF Handshakes
    <3> QED
      BY <1>1, <2>1, <2>2, <3>1, <3>2, <3>3 DEF AcpStaged, Staged, Past, Handshakes
  <2>9. AcpAskedOnce'
    BY <1>1, <2>1, <2>2 DEF AcpIInv, AcpAskedOnce
  <2>10. AcpTold'
    BY <2>3 DEF AcpTold, UnderWay
  <2> QED
    BY <2>5, <2>6, <2>7, <2>8, <2>9, <2>10 DEF AcpIInv
<1> QED
  BY <1>4, <1>11, <1>12, <1>13, <1>14, <1>15, <1>16


-----------------------------------------------------------------------------
(* The end of a prompt and of the connection. *)
LEMMA PromptTaskKeeps == ASSUME AcpIInv, PromptTask PROVE AcpIInv'
<1>1. PICK id0 \in lp.woken : /\ lp' = [lp EXCEPT !.woken = @ \ {id0}]
                              /\ ev' = Append(ev, AcpMsg("finished", id0))
  BY DEF PromptTask
<1>2. /\ ac' = [ac EXCEPT !.busy = FALSE]
      /\ cq' = cq /\ peer' = peer /\ wr' = wr
  BY DEF PromptTask
<1>3. AcpTyped /\ ev \in Seq(AcpEvent) /\ peer.wrote \in SUBSET Int /\ id0 \in Int
  BY AcpFacts DEF AcpIInv
<1> DEFINE end == AcpMsg("finished", id0)
<1>4. /\ end \in AcpEvent
      /\ \A kind, id : end = AcpMsg(kind, id) <=> kind = "finished" /\ id = id0
  BY <1>3 DEF AcpMsg, AcpEvent
<1>5. /\ ac'.st = ac.st /\ ac'.turn = ac.turn /\ ac'.next = ac.next
      /\ ac'.wait = ac.wait /\ ac'.shown = ac.shown /\ ac'.asked = ac.asked
      /\ ac'.told = ac.told /\ ac'.gone = ac.gone /\ ac'.configs = ac.configs
      /\ lp'.st = lp.st /\ lp'.suppress = lp.suppress /\ lp'.asks = lp.asks
      /\ lp'.woken = lp.woken \ {id0} /\ lp'.reply = lp.reply
  BY <1>1, <1>2, <1>3, AcpFacts DEF AcpActor, AcpLoop
<1>6. ev' \in Seq(AcpEvent)
  BY <1>1, <1>3, <1>4
<1>7. \A kind, id : Queued(ev', kind, id) <=>
                       Queued(ev, kind, id) \/ (kind = "finished" /\ id = id0)
  BY <1>1, <1>3, <1>4, MsgGrown
<1> HIDE DEF end
<1>8. AcpTyped'
  <2>1. ac' \in AcpActor
    BY <1>2, <1>3, AcpFacts DEF AcpActor
  <2>2. lp' \in AcpLoop
    BY <1>1, <1>3, AcpFacts DEF AcpLoop
  <2> QED
    BY <1>2, <1>3, <1>6, <2>1, <2>2 DEF AcpTyped
<1>9. AcpPrompted'
  BY <1>2, <1>5, <1>7 DEF AcpIInv, AcpPrompted, Prompted
<1>10. AcpInTurn'
  <2>1. InTurn(ac.told, ac.shown, peer.works, peer.wrote, lp.st = "over", lp.woken, wr, ev)
    BY DEF AcpIInv, AcpInTurn
  <2>2. ~Queued(wr, "update", id0)
    BY <2>1 DEF InTurn
  <2>3. InTurn(ac.told, ac.shown, peer.works, peer.wrote, lp.st = "over",
               lp.woken \ {id0}, wr, ev)
    BY <2>1, InTurnParts
  <2>4. InTurn(ac.told, ac.shown, peer.works, peer.wrote, lp.st = "over",
               lp.woken \ {id0}, wr, ev')
    BY <1>1, <1>3, <2>2, <2>3, InTurnEnd
  <2> QED
    BY <1>2, <1>5, <2>4 DEF AcpInTurn
<1>11. AcpStaged'
  <2>1. Staged(ac, lp, peer, cq, wr, ev) /\ lp.woken # {}
    BY DEF AcpIInv, AcpStaged
  <2>2. ac.st \notin {"none", "starting"} /\ lp.st # "replay"
    BY <2>1 DEF Staged, Blank, Adopted
  <2>3. lp.st \notin Handshakes
    BY <2>1, <2>2 DEF Staged
  <2> QED
    BY <1>2, <1>5, <1>7, <2>1, <2>2, <2>3 DEF AcpStaged, Staged, Past
<1>12. AcpAskedOnce'
  BY <1>2, <1>5 DEF AcpIInv, AcpAskedOnce
<1>13. AcpTold'
  BY <1>2, <1>5, <1>7 DEF AcpIInv, AcpTold, UnderWay, AcpClosed
<1> QED
  BY <1>8, <1>9, <1>10, <1>11, <1>12, <1>13 DEF AcpIInv

LEMMA ConnectionEndsKeeps == ASSUME AcpIInv, ConnectionEnds PROVE AcpIInv'
<1>1. /\ lp.st \in {"idle", "config", "close"} /\ peer.st = "down" /\ wr = <<>>
      /\ cq' = cq /\ peer' = peer /\ wr' = wr
  BY DEF ConnectionEnds
<1>2. PICK failed \in {{}, peer.works} :
         /\ lp' = [lp EXCEPT !.st = "over", !.asks = {}, !.woken = {}]
         /\ LET ends == {id \in lp.woken \cup failed : id = ac.turn}
            IN  /\ ev' = ev \o (IF ends = {} THEN <<>>
                                ELSE <<AcpMsg("finished", ac.turn)>>) \o LastWords
                /\ ac' = IF ends = {} THEN ac ELSE [ac EXCEPT !.busy = FALSE]
  BY DEF ConnectionEnds
<1>3. /\ AcpTyped /\ ev \in Seq(AcpEvent) /\ peer.wrote \in SUBSET Int /\ ac.turn \in Int
      /\ ac \in AcpActor /\ lp \in AcpLoop
  BY AcpFacts DEF AcpIInv
<1> DEFINE ends == {id \in lp.woken \cup failed : id = ac.turn}
           end == AcpMsg("finished", ac.turn)
           f == ev \o (IF ends = {} THEN <<>> ELSE <<end>>)
<1>4. /\ end \in AcpEvent
      /\ \A kind, id : end = AcpMsg(kind, id) <=> kind = "finished" /\ id = ac.turn
  BY <1>3 DEF AcpMsg, AcpEvent
<1>5. ends # {} => ac.turn \in lp.woken \cup peer.works
  BY <1>2
<1>6. ev' = f \o <<AcpExited>> /\ (ac' = ac \/ ac' = [ac EXCEPT !.busy = FALSE])
  BY <1>2 DEF LastWords
<1> HIDE DEF ends, end
<1>7. f \in Seq(AcpEvent) /\ (f = ev \/ (ends # {} /\ f = Append(ev, end)))
  BY <1>3, <1>4
<1> HIDE DEF f
<1>8. \A kind, id : Queued(f, kind, id) =>
         Queued(ev, kind, id)
           \/ (kind = "finished" /\ id = ac.turn /\ id \in lp.woken \cup peer.works)
  <2>1. \A kind, id : Queued(Append(ev, end), kind, id) <=>
                          Queued(ev, kind, id) \/ end = AcpMsg(kind, id)
    BY <1>3, <1>4, MsgGrown
  <2> QED
    BY <1>4, <1>5, <1>7, <2>1
<1>9. /\ AcpExited \in AcpEvent /\ AcpExited.kind = "exited"
      /\ \A kind, id : AcpExited = AcpMsg(kind, id) <=> kind = "exited" /\ id = 0
  BY DEF AcpExited, AcpMsg, AcpEvent
<1>10. ev' = Append(f, AcpExited) /\ ev' \in Seq(AcpEvent)
  BY <1>6, <1>7, <1>9
<1>11. \A kind, id : Queued(ev', kind, id) <=>
                        Queued(f, kind, id) \/ (kind = "exited" /\ id = 0)
  BY <1>7, <1>9, <1>10, MsgGrown
<1>12. /\ ac'.st = ac.st /\ ac'.turn = ac.turn /\ ac'.next = ac.next
       /\ ac'.wait = ac.wait /\ ac'.shown = ac.shown /\ ac'.asked = ac.asked
       /\ ac'.told = ac.told /\ ac'.gone = ac.gone /\ ac'.configs = ac.configs
       /\ lp'.st = "over" /\ lp'.suppress = lp.suppress /\ lp'.asks = {}
       /\ lp'.woken = {} /\ lp'.reply = lp.reply
  <2>1. /\ ac'.st = ac.st /\ ac'.turn = ac.turn /\ ac'.next = ac.next
        /\ ac'.wait = ac.wait /\ ac'.shown = ac.shown /\ ac'.asked = ac.asked
        /\ ac'.told = ac.told /\ ac'.gone = ac.gone /\ ac'.configs = ac.configs
    BY <1>3, <1>6 DEF AcpActor
  <2> QED
    BY <1>2, <1>3, <2>1 DEF AcpLoop
<1>13. AcpTyped'
  <2>1. ac' \in AcpActor
    BY <1>3, <1>6 DEF AcpActor
  <2>2. lp' \in AcpLoop
    BY <1>2, <1>3 DEF AcpLoop
  <2> QED
    BY <1>1, <1>3, <1>10, <2>1, <2>2 DEF AcpTyped
<1>14. AcpPrompted'
  <2>1. Prompted(ac.next, ac.told, peer.works, TRUE, lp.woken, cq, peer.in, wr, ev)
    BY <1>1 DEF AcpIInv, AcpPrompted
  <2>2. \A id \in Int : Queued(ev', "finished", id) =>
           Queued(ev, "finished", id) \/ id \in lp.woken \cup peer.works
    BY <1>8, <1>11
  <2>3. Prompted(ac.next, ac.told, peer.works, TRUE, {}, cq, peer.in, wr, ev')
    BY <2>1, <2>2 DEF Prompted
  <2>4. (peer.st = "down")' = TRUE
    BY <1>1
  <2> QED
    BY <1>1, <1>12, <2>3, <2>4 DEF AcpPrompted
<1>15. AcpInTurn'
  <2>1. InTurn(ac.told, ac.shown, peer.works, peer.wrote, TRUE, lp.woken, wr, ev)
    <3>1. InTurn(ac.told, ac.shown, peer.works, peer.wrote, lp.st = "over", lp.woken, wr, ev)
      BY DEF AcpIInv, AcpInTurn
    <3> QED
      BY <3>1, InTurnParts
  <2>2. InTurn(ac.told, ac.shown, peer.works, peer.wrote, TRUE, {}, wr, ev)
    BY <2>1 DEF InTurn
  <2>3. InTurn(ac.told, ac.shown, peer.works, peer.wrote, TRUE, {}, wr, f)
    <3>1. InTurn(ac.told, ac.shown, peer.works, peer.wrote, TRUE, {}, wr,
                 Append(ev, AcpMsg("finished", ac.turn)))
      BY <1>3, <2>2, InTurnEnd
    <3>2. f = ev \/ f = Append(ev, AcpMsg("finished", ac.turn))
      BY <1>7 DEF end
    <3> QED
      BY <2>2, <3>1, <3>2
  <2>4. InTurn(ac.told, ac.shown, peer.works, peer.wrote, TRUE, {}, wr, ev')
    BY <1>7, <1>9, <1>10, <2>3, InTurnEvent
  <2>5. (lp.st = "over")' = TRUE
    BY <1>12
  <2> QED
    BY <1>1, <1>12, <2>4, <2>5 DEF AcpInTurn
<1>16. AcpStaged'
  <2>1. Staged(ac, lp, peer, cq, wr, ev)
    BY DEF AcpIInv, AcpStaged
  <2>2. lp.st \notin Handshakes \cup {"none", "ready", "failed", "over", "replay", "load"}
    BY <1>1 DEF Handshakes
  <2> QED
    BY <1>1, <1>12, <2>1, <2>2 DEF AcpStaged, Staged, Past, Handshakes
<1>17. AcpAskedOnce'
  BY <1>1, <1>12 DEF AcpIInv, AcpAskedOnce, AskedOnce
<1>18. AcpTold'
  BY <1>11 DEF AcpTold, UnderWay
<1> QED
  BY <1>13, <1>14, <1>15, <1>16, <1>17, <1>18 DEF AcpIInv

-----------------------------------------------------------------------------
(* The agent. *)
LEMMA AgentDiesKeeps == ASSUME AcpIInv, AgentDies PROVE AcpIInv'
<1>1. /\ peer' = [peer EXCEPT !.st = "down"] /\ ac' = AcpFaulted(ac)
      /\ cq' = cq /\ lp' = lp /\ wr' = wr /\ ev' = ev
  BY DEF AgentDies
<1>2. AcpTyped
  BY DEF AcpIInv
<1>3. /\ ac'.st = ac.st /\ ac'.turn = ac.turn /\ ac'.next = ac.next
      /\ ac'.wait = ac.wait /\ ac'.shown = ac.shown /\ ac'.asked = ac.asked
      /\ ac'.told = ac.told /\ ac'.gone = ac.gone /\ ac'.configs = ac.configs
      /\ peer'.st = "down" /\ peer'.in = peer.in /\ peer'.works = peer.works
      /\ peer'.wrote = peer.wrote /\ peer'.asked = peer.asked
      /\ peer'.answers = peer.answers
  BY <1>1, <1>2, AcpFacts DEF AcpActor, AcpAgent, AcpFaulted
<1>4. AcpTyped'
  <2>1. ac' \in AcpActor
    BY <1>1, <1>2, AcpFacts, FaultedActor
  <2>2. peer' \in AcpAgent
    BY <1>1, <1>2, AcpFacts DEF AcpAgent
  <2> QED
    BY <1>1, <1>2, <2>1, <2>2 DEF AcpTyped
<1>5. AcpPrompted'
  BY <1>1, <1>3 DEF AcpIInv, AcpPrompted, Prompted
<1>6. AcpInTurn'
  BY <1>1, <1>3 DEF AcpIInv, AcpInTurn
<1>7. AcpStaged'
  <2>1. Adopted(ac, lp, peer, cq, wr, ev) => Adopted(ac', lp', peer', cq', wr', ev')
    BY <1>1, <1>3 DEF Adopted
  <2>2. Blank(ac, lp, peer, cq, ev) => Blank(ac', lp', peer', cq', ev')
    BY <1>1, <1>3 DEF Blank
  <2> QED
    BY <1>1, <1>3, <2>1, <2>2 DEF AcpIInv, AcpStaged, Staged, Past
<1>8. AcpAskedOnce'
  BY <1>1, <1>3 DEF AcpIInv, AcpAskedOnce
<1>9. AcpTold'
  BY <1>1, <1>3 DEF AcpIInv, AcpTold, UnderWay, AcpClosed
<1> QED
  BY <1>4, <1>5, <1>6, <1>7, <1>8, <1>9 DEF AcpIInv

(* An agent that has a prompt has been prompted in a live session.         *)
LEMMA AtWork ==
    ASSUME AcpIInv, peer.works # {}
    PROVE  /\ ac.st \notin {"none", "starting"} /\ ~lp.suppress
           /\ lp.st \notin Handshakes \cup {"none", "ready", "failed"}
           /\ \A id \in peer.works : id \in Int /\ id > 0
<1>1. Staged(ac, lp, peer, cq, wr, ev)
  BY DEF AcpIInv, AcpStaged
<1>2. ac.st \notin {"none", "starting"} /\ ~lp.suppress
  BY <1>1 DEF Staged, Blank
<1>3. lp.st \notin Handshakes \cup {"none", "ready", "failed"}
  BY <1>1, <1>2 DEF Staged
<1>4. \A id \in peer.works : id \in Int /\ id > 0
  BY AcpFacts DEF AcpIInv, AcpPrompted, Prompted, Begun
<1> QED
  BY <1>2, <1>3, <1>4

LEMMA AgentFinishesKeeps == ASSUME AcpIInv, AgentFinishes PROVE AcpIInv'
<1>1. PICK id0 \in peer.works : /\ peer' = [peer EXCEPT !.works = @ \ {id0}]
                                /\ wr' = Append(wr, AcpMsg("response", id0))
  BY DEF AgentFinishes
<1>2. peer.st = "up" /\ ac' = ac /\ cq' = cq /\ lp' = lp /\ ev' = ev
  BY DEF AgentFinishes
<1>3. /\ AcpTyped /\ wr \in Seq(AcpWritten) /\ peer.wrote \in SUBSET Int
      /\ lp.woken \in SUBSET Int /\ peer \in AcpAgent
  BY AcpFacts DEF AcpIInv
<1>4. /\ ac.st \notin {"none", "starting"} /\ ~lp.suppress
      /\ lp.st \notin Handshakes \cup {"none", "ready", "failed"}
      /\ id0 \in Int /\ id0 > 0
  BY AtWork
<1> DEFINE m == AcpMsg("response", id0)
<1>5. /\ m \in AcpWritten /\ m.kind = "response"
      /\ \A kind, id : m = AcpMsg(kind, id) <=> kind = "response" /\ id = id0
  BY <1>4 DEF AcpMsg, AcpWritten
<1>6. wr' = Append(wr, m) /\ wr' \in Seq(AcpWritten)
  BY <1>1, <1>3, <1>5
<1> HIDE DEF m
<1>7. \A kind, id : /\ Queued(wr', kind, id) <=>
                         Queued(wr, kind, id) \/ (kind = "response" /\ id = id0)
                    /\ OnceIn(wr, kind, id) /\ kind # "response" => OnceIn(wr', kind, id)
  BY <1>3, <1>5, <1>6, MsgGrown
<1>8. /\ peer'.st = peer.st /\ peer'.in = peer.in
      /\ peer'.works = peer.works \ {id0} /\ peer'.wrote = peer.wrote
      /\ peer'.asked = peer.asked /\ peer'.answers = peer.answers
  BY <1>1, <1>3 DEF AcpAgent
<1>9. Prompted(ac.next, ac.told, peer.works, FALSE, lp.woken, cq, peer.in, wr, ev)
  <2>1. (peer.st = "down") = FALSE
    BY <1>2
  <2> QED
    BY <2>1 DEF AcpIInv, AcpPrompted
<1>10. AcpTyped'
  <2>1. peer' \in AcpAgent
    BY <1>1, <1>3 DEF AcpAgent
  <2> QED
    BY <1>2, <1>3, <1>6, <2>1 DEF AcpTyped
<1>11. AcpPrompted'
  <2>1. Prompted(ac.next, ac.told, peer.works \ {id0}, FALSE, lp.woken, cq, peer.in, wr', ev)
    BY <1>7, <1>9 DEF Prompted
  <2>2. (peer.st = "down")' = FALSE
    BY <1>2, <1>8
  <2> QED
    BY <1>2, <1>8, <2>1, <2>2 DEF AcpPrompted
<1>12. AcpInTurn'
  <2>1. InTurn(ac.told, ac.shown, peer.works, peer.wrote, lp.st = "over", lp.woken, wr, ev)
    BY DEF AcpIInv, AcpInTurn
  <2>2. ~Queued(ev, "finished", id0) /\ id0 \notin ac.told
    BY <1>9 DEF Prompted
  <2>3. InTurn(ac.told, ac.shown, peer.works \ {id0}, peer.wrote, lp.st = "over",
               lp.woken, wr, ev)
    BY <2>1, <2>2, InTurnParts
  <2>4. /\ \A id \in lp.woken : id > 0
        /\ \A id \in Int : Queued(ev, "finished", id) \/ id \in ac.told => id > 0
    BY <1>9 DEF Prompted, Begun
  <2>5. InTurn(ac.told, ac.shown, peer.works \ {id0}, peer.wrote, lp.st = "over",
               lp.woken, wr', ev)
    <3>1. ~(m.kind = "update" /\ m.id > 0)
      BY <1>5
    <3> QED
      BY <1>3, <1>5, <1>6, <2>3, <2>4, <3>1, InTurnWritten
  <2> QED
    BY <1>2, <1>8, <2>5 DEF AcpInTurn
<1>13. AcpStaged'
  <2>1. Staged(ac, lp, peer, cq, wr, ev)
    BY DEF AcpIInv, AcpStaged
  <2>2. Adopted(ac, lp, peer, cq, wr, ev) => Adopted(ac', lp', peer', cq', wr', ev')
    BY <1>2, <1>7, <1>8 DEF Adopted
  <2> QED
    BY <1>2, <1>4, <1>7, <1>8, <2>1, <2>2 DEF AcpStaged, Staged, Past
<1>14. AcpAskedOnce'
  BY <1>2, <1>7, <1>8 DEF AcpIInv, AcpAskedOnce, AskedOnce
<1>15. AcpTold'
  BY <1>2, <1>7, <1>8 DEF AcpIInv, AcpTold, UnderWay, AcpClosed
<1> QED
  BY <1>10, <1>11, <1>12, <1>13, <1>14, <1>15 DEF AcpIInv

LEMMA AgentSpeaksKeeps == ASSUME AcpIInv, AgentSpeaks PROVE AcpIInv'
<1>1. /\ peer.st = "up" /\ peer.works # {} /\ ac' = ac /\ cq' = cq /\ lp' = lp /\ ev' = ev
      /\ \/ \E id \in peer.works \ peer.wrote :
               /\ peer' = [peer EXCEPT !.wrote = @ \cup {id}]
               /\ wr' = Append(wr, AcpMsg("update", id))
         \/ /\ ~peer.asked /\ peer' = [peer EXCEPT !.asked = TRUE]
            /\ \E kind \in {"ask", "permission"} :
                  wr' = Append(wr, AcpMsg(kind, 1))
  BY DEF AgentSpeaks
<1>2. /\ AcpTyped /\ wr \in Seq(AcpWritten) /\ peer.wrote \in SUBSET Int
      /\ lp.woken \in SUBSET Int /\ peer \in AcpAgent
  BY AcpFacts DEF AcpIInv
<1>3. /\ ac.st \notin {"none", "starting"} /\ ~lp.suppress
      /\ lp.st \notin Handshakes \cup {"none", "ready", "failed"}
      /\ \A id \in peer.works : id \in Int /\ id > 0
  BY <1>1, AtWork
<1>4. Prompted(ac.next, ac.told, peer.works, peer.st = "down", lp.woken, cq, peer.in, wr, ev)
  BY DEF AcpIInv, AcpPrompted
<1>5. InTurn(ac.told, ac.shown, peer.works, peer.wrote, lp.st = "over", lp.woken, wr, ev)
  BY DEF AcpIInv, AcpInTurn
<1>6. /\ \A id \in lp.woken : id > 0
      /\ \A id \in Int : Queued(ev, "finished", id) \/ id \in ac.told => id > 0
  BY <1>4 DEF Prompted, Begun
<1>7. Staged(ac, lp, peer, cq, wr, ev)
  BY DEF AcpIInv, AcpStaged
<1>8. ASSUME NEW id0 \in peer.works \ peer.wrote,
             peer' = [peer EXCEPT !.wrote = @ \cup {id0}],
             wr' = Append(wr, AcpMsg("update", id0))
      PROVE  AcpIInv'
  <2> DEFINE m == AcpMsg("update", id0)
  <2>1. /\ m \in AcpWritten /\ m.kind = "update" /\ m.id = id0 /\ id0 > 0
        /\ \A kind, id : m = AcpMsg(kind, id) <=> kind = "update" /\ id = id0
    BY <1>3 DEF AcpMsg, AcpWritten
  <2>2. wr' = Append(wr, m) /\ wr' \in Seq(AcpWritten)
    BY <1>2, <1>8, <2>1
  <2> HIDE DEF m
  <2>3. \A kind, id : /\ Queued(wr', kind, id) <=>
                           Queued(wr, kind, id) \/ (kind = "update" /\ id = id0)
                      /\ OnceIn(wr, kind, id) /\ kind # "update" => OnceIn(wr', kind, id)
    BY <1>2, <2>1, <2>2, MsgGrown
  <2>4. /\ peer'.st = peer.st /\ peer'.in = peer.in /\ peer'.works = peer.works
        /\ peer'.wrote = peer.wrote \cup {id0} /\ peer'.asked = peer.asked
        /\ peer'.answers = peer.answers
    BY <1>2, <1>8 DEF AcpAgent
  <2>5. AcpTyped'
    <3>1. peer' \in AcpAgent
      <4>1. peer.wrote \cup {id0} \in SUBSET Nat
        BY <1>2, AcpFacts
      <4> QED
        BY <1>2, <1>8, <4>1 DEF AcpAgent
    <3> QED
      BY <1>1, <1>2, <2>2, <3>1 DEF AcpTyped
  <2>6. AcpPrompted'
    BY <1>1, <1>4, <2>3, <2>4 DEF AcpPrompted, Prompted
  <2>7. AcpInTurn'
    <3>1. m.id \in peer.works /\ m.id \notin lp.woken /\ ~Queued(wr, "response", m.id)
      BY <1>3, <1>4, <2>1 DEF Prompted
    <3>2. InTurn(ac.told, ac.shown, peer.works,
                 IF m.kind = "update" /\ m.id > 0 THEN peer.wrote \cup {m.id} ELSE peer.wrote,
                 lp.st = "over", lp.woken, wr', ev)
      BY <1>2, <1>5, <1>6, <2>1, <2>2, <3>1, InTurnWritten
    <3> QED
      BY <1>1, <2>1, <2>4, <3>2 DEF AcpInTurn
  <2>8. AcpStaged'
    <3>1. Adopted(ac, lp, peer, cq, wr, ev) => Adopted(ac', lp', peer', cq', wr', ev')
      BY <1>1, <2>3, <2>4 DEF Adopted
    <3>2. Past(lp', peer'.in, wr')
      BY <1>1, <1>7, <2>1, <2>3, <2>4 DEF Staged, Past, Replayed
    <3> QED
      BY <1>1, <1>3, <1>7, <2>4, <3>1, <3>2 DEF AcpStaged, Staged
  <2>9. AcpAskedOnce'
    BY <1>1, <2>3, <2>4 DEF AcpIInv, AcpAskedOnce, AskedOnce
  <2>10. AcpTold'
    BY <1>1, <2>3, <2>4 DEF AcpIInv, AcpTold, UnderWay, AcpClosed
  <2> QED
    BY <2>5, <2>6, <2>7, <2>8, <2>9, <2>10 DEF AcpIInv
<1>9. ASSUME NEW kind0 \in {"ask", "permission"},
             ~peer.asked, peer' = [peer EXCEPT !.asked = TRUE],
             wr' = Append(wr, AcpMsg(kind0, 1))
      PROVE  AcpIInv'
  <2> DEFINE m == AcpMsg(kind0, 1)
  <2>1. /\ m \in AcpWritten /\ m.kind = kind0 /\ m.id = 1
        /\ \A kind, id : m = AcpMsg(kind, id) <=> kind = kind0 /\ id = 1
    BY DEF AcpMsg, AcpWritten
  <2>2. wr' = Append(wr, m) /\ wr' \in Seq(AcpWritten)
    BY <1>2, <1>9, <2>1
  <2> HIDE DEF m
  <2>3. \A kind, id : /\ Queued(wr', kind, id) <=>
                           Queued(wr, kind, id) \/ (kind = kind0 /\ id = 1)
                      /\ OnceIn(wr, kind, id) /\ ~Queued(wr, kind, id)
                            => OnceIn(wr', kind, id)
    BY <1>2, <2>1, <2>2, MsgGrown
  <2>4. /\ peer'.st = peer.st /\ peer'.in = peer.in /\ peer'.works = peer.works
        /\ peer'.wrote = peer.wrote /\ peer'.asked = TRUE
        /\ peer'.answers = peer.answers
        /\ peer' \in AcpAgent
    BY <1>2, <1>9 DEF AcpAgent
  <2>5. AcpTyped'
    BY <1>1, <1>2, <2>2, <2>4 DEF AcpTyped
  <2>6. AcpPrompted'
    BY <1>1, <1>4, <2>3, <2>4 DEF AcpPrompted, Prompted
  <2>7. AcpInTurn'
    <3>1. ~(m.kind = "update" /\ m.id > 0)
      BY <2>1
    <3>2. InTurn(ac.told, ac.shown, peer.works, peer.wrote, lp.st = "over", lp.woken, wr', ev)
      BY <1>2, <1>5, <1>6, <2>1, <2>2, <3>1, InTurnWritten
    <3> QED
      BY <1>1, <2>4, <3>2 DEF AcpInTurn
  <2>8. AcpStaged'
    <3>1. Adopted(ac, lp, peer, cq, wr, ev) => Adopted(ac', lp', peer', cq', wr', ev')
      BY <1>1, <2>3, <2>4 DEF Adopted
    <3>2. Past(lp', peer'.in, wr')
      BY <1>1, <1>7, <2>3, <2>4 DEF Staged, Past
    <3> QED
      BY <1>1, <1>3, <1>7, <2>4, <3>1, <3>2 DEF AcpStaged, Staged
  <2>9. AcpAskedOnce'
    <3>1. AskedOnce(peer.asked, peer.answers, lp.asks, wr)
      BY DEF AcpIInv, AcpAskedOnce
    <3> QED
      BY <1>1, <1>9, <2>3, <2>4, <3>1 DEF AcpAskedOnce, AskedOnce
  <2>10. AcpTold'
    BY <1>1, <2>3, <2>4 DEF AcpIInv, AcpTold, UnderWay, AcpClosed
  <2> QED
    BY <2>5, <2>6, <2>7, <2>8, <2>9, <2>10 DEF AcpIInv
<1> QED
  BY <1>1, <1>8, <1>9

LEMMA PairOf ==
    ASSUME NEW S, NEW u \in S, NEW r \in S
    PROVE  /\ Append(Append(<<>>, u), r) = <<u, r>>
           /\ Head(<<u>>) = u /\ Tail(<<u>>) = <<>>
           /\ Head(<<u, r>>) = u /\ Tail(<<u, r>>) = <<r>>
<1> DEFINE s == Append(Append(<<>>, u), r)
           t == <<u, r>>
<1>1. Append(<<>>, u) = <<u>> /\ <<u>> \in Seq(S) /\ t \in Seq(S) /\ Len(<<u>>) = 1 /\ <<u>>[1] = u
  OBVIOUS
<1>2. s \in Seq(S) /\ Len(s) = 2 /\ s[1] = u /\ s[2] = r
  BY <1>1, AppendProperties
<1>3. Len(t) = 2 /\ t[1] = u /\ t[2] = r
  OBVIOUS
<1>4. \A i \in 1..2 : i = 1 \/ i = 2
  OBVIOUS
<1>5. s = t
  <2> HIDE DEF s, t
  <2> QED
    BY <1>1, <1>2, <1>3, <1>4, SeqEqual
<1>6. Head(<<u>>) = u /\ Tail(<<u>>) = <<>>
  OBVIOUS
<1>7. Head(s) = u /\ Tail(s) = <<r>>
  <2> DEFINE a == <<u>>
  <2>1. Append(a, r) = s /\ a # <<>> /\ a \in Seq(S) /\ Append(<<>>, r) = <<r>>
        /\ Head(a) = u /\ Tail(a) = <<>>
    BY <1>1, <1>6
  <2> HIDE DEF a, s
  <2>2. Head(Append(a, r)) = Head(a) /\ Tail(Append(a, r)) = Append(Tail(a), r)
    BY <2>1, HeadTailAppend
  <2> QED
    BY <2>1, <2>2
<1> QED
  BY <1>5, <1>6, <1>7

LEMMA AgentReadsKeeps == ASSUME AcpIInv, AgentReads PROVE AcpIInv'
<1> DEFINE m == Head(peer.in)
           t == Tail(peer.in)
           rest == [peer EXCEPT !.in = t]
<1>1. /\ peer.st = "up" /\ peer.in # <<>> /\ ac' = ac /\ cq' = cq /\ lp' = lp /\ ev' = ev
      /\ \/ /\ m.kind = "prompt"
            /\ peer' = [[peer EXCEPT !.in = Tail(@)] EXCEPT !.works = @ \cup {m.id}]
            /\ wr' = wr
         \/ m.kind = "cancel" /\ peer' = [peer EXCEPT !.in = Tail(@)] /\ wr' = wr
         \/ /\ m.kind \in Handshakes \cup {"config", "close"}
            /\ peer' = [peer EXCEPT !.in = Tail(@)]
            /\ \E kind \in {"response", "refusal"} :
                  wr' = wr \o (IF m.kind = "load"
                               THEN <<AcpMsg("update", Replayed)>> ELSE <<>>)
                           \o <<AcpMsg(kind, Awaits(m.kind))>>
  BY DEF AgentReads
<1>2. /\ AcpTyped /\ wr \in Seq(AcpWritten) /\ peer \in AcpAgent /\ peer.in \in Seq(AcpAsked)
      /\ lp.woken \in SUBSET Int /\ peer.works \in SUBSET Nat
  BY AcpFacts DEF AcpIInv
<1>3. m \in AcpAsked /\ t \in Seq(AcpAsked)
  BY <1>1, <1>2, MsgTail
<1>4. /\ m.kind \in Handshakes \cup {"prompt", "cancel", "config", "close"} /\ m.id \in Int
      /\ (m.kind = "prompt" => m.id > 0) /\ (m.kind # "prompt" => m.id = 0)
  BY <1>3 DEF AcpAsked
<1>5. \A kind, id : m = AcpMsg(kind, id) <=> m.kind = kind /\ m.id = id
  <2> DEFINE K == Handshakes \cup {"prompt", "cancel", "config", "close"}
  <2>1. m \in [kind : K, id : Int]
    BY <1>3 DEF AcpAsked
  <2> HIDE DEF K, m
  <2> QED
    BY <2>1, MsgIs
<1>6. \A kind, id : /\ Queued(peer.in, kind, id) <=> m = AcpMsg(kind, id) \/ Queued(t, kind, id)
                    /\ OnceIn(peer.in, kind, id) =>
                          OnceIn(t, kind, id) /\ (m # AcpMsg(kind, id) \/ ~Queued(t, kind, id))
  BY <1>1, <1>2, MsgShrunk
<1>7. Prompted(ac.next, ac.told, peer.works, peer.st = "down", lp.woken, cq, peer.in, wr, ev)
  BY DEF AcpIInv, AcpPrompted
<1>8. InTurn(ac.told, ac.shown, peer.works, peer.wrote, lp.st = "over", lp.woken, wr, ev)
  BY DEF AcpIInv, AcpInTurn
<1>9. Staged(ac, lp, peer, cq, wr, ev) /\ AskedOnce(peer.asked, peer.answers, lp.asks, wr)
  BY DEF AcpIInv, AcpStaged, AcpAskedOnce
<1>10. lp.st # "replay" /\ ac.st # "none"
  BY <1>1, <1>9 DEF Staged, Adopted
<1>11. peer' = [peer EXCEPT !.in = Tail(@)] => peer' = rest
  BY <1>2 DEF AcpAgent
<1>12. rest \in AcpAgent
  <2> HIDE DEF t
  <2> QED
    BY <1>2, <1>3 DEF AcpAgent
<1> HIDE DEF m
<1>13. CASE m.kind = "prompt"
  <2> DEFINE works2 == peer.works \cup {m.id}
  <2>1. /\ peer' = [peer EXCEPT !.in = t, !.works = works2] /\ wr' = wr
    <3>1. m.kind \notin Handshakes \cup {"cancel", "config", "close"}
      BY <1>13 DEF Handshakes
    <3> QED
      BY <1>1, <1>2, <3>1 DEF AcpAgent
  <2>2. works2 \in SUBSET Nat
    BY <1>2, <1>4, <1>13
  <2> HIDE DEF works2, t
  <2>3. /\ peer'.st = peer.st /\ peer'.in = t /\ peer'.works = works2
        /\ peer'.wrote = peer.wrote /\ peer'.asked = peer.asked
        /\ peer'.answers = peer.answers
        /\ peer' \in AcpAgent
    BY <1>2, <1>3, <2>1, <2>2 DEF AcpAgent
  <2> USE DEF works2
  <2>4. Queued(peer.in, "prompt", m.id)
    BY <1>5, <1>6, <1>13
  <2>5. ~lp.suppress /\ ac.st \notin {"none", "starting"}
    BY <1>4, <1>9, <2>4 DEF Staged, Blank
  <2>6. lp.st \notin Handshakes
    BY <1>9, <2>5 DEF Staged
  <2>7. AcpTyped'
    BY <1>1, <1>2, <2>1, <2>3 DEF AcpTyped
  <2>8. ~Queued(t, "prompt", m.id) /\ ~Queued(cq, "prompt", m.id)
    BY <1>4, <1>5, <1>6, <1>7, <1>13, <2>4 DEF Prompted
  <2>9. AcpPrompted'
    <3>1. Prompted(ac.next, ac.told, works2, peer.st = "down", lp.woken, cq, t, wr, ev)
      BY <1>4, <1>6, <1>7, <2>4, <2>8 DEF Prompted
    <3> QED
      BY <1>1, <2>1, <2>3, <3>1 DEF AcpPrompted
  <2>10. AcpInTurn'
    <3>1. InTurn(ac.told, ac.shown, works2, peer.wrote, lp.st = "over", lp.woken, wr, ev)
      BY <1>8, InTurnParts
    <3> QED
      BY <1>1, <2>1, <2>3, <3>1 DEF AcpInTurn
  <2>11. AcpStaged'
    <3>1. Past(lp', peer'.in, wr')
      BY <1>1, <1>6, <1>9, <2>1, <2>3 DEF Staged, Past
    <3> QED
      BY <1>1, <1>9, <1>10, <2>1, <2>3, <2>5, <2>6, <3>1 DEF AcpStaged, Staged
  <2>12. AcpAskedOnce'
    BY <1>1, <1>9, <2>1, <2>3 DEF AcpAskedOnce
  <2>13. AcpTold'
    BY <1>1, <1>5, <1>6, <2>1, <2>3 DEF AcpIInv, AcpTold, UnderWay, AcpClosed
  <2> QED
    BY <2>7, <2>9, <2>10, <2>11, <2>12, <2>13 DEF AcpIInv
<1>14. ASSUME m.kind # "prompt", peer' = rest, wr' \in Seq(AcpWritten),
              \A id : /\ Queued(wr', "response", id) /\ id > 0 => Queued(wr, "response", id)
                      /\ Queued(wr, "response", id) => Queued(wr', "response", id)
                      /\ Queued(wr', "ask", id) <=> Queued(wr, "ask", id)
                      /\ OnceIn(wr, "ask", id) => OnceIn(wr', "ask", id),
              InTurn(ac.told, ac.shown, peer.works, peer.wrote, lp.st = "over", lp.woken, wr', ev),
              Queued(wr', "update", Replayed) =>
                 Queued(wr, "update", Replayed) \/ Queued(peer.in, "load", 0),
              lp.st \in Handshakes => OnHand(lp, t, wr'),
              ac.st = "starting" => \A i \in DOMAIN wr' : wr'[i].id = 0
       PROVE  AcpIInv'
  <2>1. /\ peer'.st = peer.st /\ peer'.in = t /\ peer'.works = peer.works
        /\ peer'.wrote = peer.wrote /\ peer'.asked = peer.asked
        /\ peer'.answers = peer.answers
    <3> HIDE DEF t
    <3> QED
      BY <1>2, <1>14 DEF AcpAgent
  <2>2. \A id : /\ Queued(t, "prompt", id) <=> Queued(peer.in, "prompt", id)
                /\ OnceIn(peer.in, "prompt", id) => OnceIn(t, "prompt", id)
    BY <1>5, <1>6, <1>14
  <2>3. \A kind, id : Queued(t, kind, id) => Queued(peer.in, kind, id)
    BY <1>6
  <2> HIDE DEF t, rest
  <2>4. AcpTyped'
    BY <1>1, <1>2, <1>12, <1>14 DEF AcpTyped
  <2>5. AcpPrompted'
    <3>1. \A id : Begun(id, ac.next) => id > 0
      BY DEF Begun
    <3>2. Prompted(ac.next, ac.told, peer.works, peer.st = "down", lp.woken, cq, t, wr', ev)
      BY <1>7, <1>14, <2>2, <3>1 DEF Prompted
    <3> QED
      BY <1>1, <2>1, <3>2 DEF AcpPrompted
  <2>6. AcpInTurn'
    BY <1>1, <1>14, <2>1 DEF AcpInTurn
  <2>7. AcpStaged'
    <3>1. Past(lp', peer'.in, wr')
      BY <1>1, <1>9, <1>14, <2>1, <2>3 DEF Staged, Past
    <3>2. Blank(ac, lp, peer, cq, ev) => Blank(ac', lp', peer', cq', ev')
      BY <1>1, <2>1, <2>3 DEF Blank
    <3>3. lp'.st \in Handshakes => OnHand(lp', peer'.in, wr')
      BY <1>1, <1>14, <2>1
    <3>4. ac'.st \in {"none", "starting"} => \A i \in DOMAIN wr' : wr'[i].id = 0
      BY <1>1, <1>10, <1>14
    <3> QED
      BY <1>1, <1>9, <1>10, <2>1, <2>2, <3>1, <3>2, <3>3, <3>4 DEF AcpStaged, Staged
  <2>8. AcpAskedOnce'
    BY <1>1, <1>9, <1>14, <2>1 DEF AcpAskedOnce, AskedOnce
  <2>9. AcpTold'
    BY <1>1, <1>14, <2>1, <2>2 DEF AcpIInv, AcpTold, UnderWay, AcpClosed
  <2> QED
    BY <2>4, <2>5, <2>6, <2>7, <2>8, <2>9 DEF AcpIInv
<1>15. CASE m.kind = "cancel"
  <2>1. peer' = rest /\ wr' = wr
    <3>1. m.kind \notin Handshakes \cup {"prompt", "config", "close"}
      BY <1>15 DEF Handshakes
    <3> QED
      BY <1>1, <1>11, <3>1
  <2>2. lp.st \notin Handshakes
    <3> SUFFICES ASSUME lp.st \in Handshakes PROVE FALSE
      OBVIOUS
    <3>1. peer.in = <<AcpMsg(lp.st, 0)>>
      BY <1>1, <1>9 DEF Staged, OnHand
    <3>2. m.kind = lp.st
      BY <3>1 DEF m, AcpMsg
    <3> QED
      BY <1>15, <3>2 DEF Handshakes
  <2>3. ac.st = "starting" => \A i \in DOMAIN wr : wr[i].id = 0
    BY <1>9 DEF Staged
  <2> QED
    BY <1>2, <1>8, <1>14, <1>15, <2>1, <2>2, <2>3
<1>16. ASSUME m.kind \in Handshakes \cup {"config", "close"}, peer' = rest,
              NEW kind0 \in {"response", "refusal"},
              wr' = wr \o (IF m.kind = "load"
                           THEN <<AcpMsg("update", Replayed)>> ELSE <<>>)
                       \o <<AcpMsg(kind0, Awaits(m.kind))>>
       PROVE  AcpIInv'
  <2> DEFINE r == AcpMsg(kind0, Awaits(m.kind))
             u == AcpMsg("update", Replayed)
             w == IF m.kind = "load" THEN Append(wr, u) ELSE wr
  <2>1. /\ Awaits(m.kind) \in {0, -1, -2}
        /\ m.kind \notin {"config", "close"} => Awaits(m.kind) = 0
    BY DEF Awaits
  <2>2. /\ r \in AcpWritten /\ r.kind = kind0 /\ r.id \in {0, -1, -2}
        /\ \A kind, id : r = AcpMsg(kind, id) => kind = kind0 /\ id \in {0, -1, -2}
    BY <2>1 DEF AcpMsg, AcpWritten
  <2>3. /\ u \in AcpWritten /\ u.kind = "update" /\ u.id = 0
        /\ \A kind, id : u = AcpMsg(kind, id) => kind = "update" /\ id = 0
    BY DEF AcpMsg, AcpWritten, Replayed
  <2>4. (m.kind \notin {"config", "close"} => r.id = 0) /\ r = AcpMsg(kind0, r.id)
    BY <2>1 DEF AcpMsg
  <2>5. w \in Seq(AcpWritten) /\ wr' = Append(w, r) /\ wr' \in Seq(AcpWritten)
    <3> HIDE DEF r, u
    <3>1. w \in Seq(AcpWritten)
      BY <1>2, <2>3
    <3>2. wr' = w \o <<r>>
      BY <1>2, <1>16, <2>3 DEF r, u
    <3> HIDE DEF w
    <3> QED
      BY <2>2, <3>1, <3>2
  <2>6. m.kind = "load" \/ w = wr
    OBVIOUS
  <2> HIDE DEF r, u
  <2>7. \A kind, id : /\ Queued(w, kind, id) <=> Queued(wr, kind, id)
                                          \/ (m.kind = "load" /\ u = AcpMsg(kind, id))
                      /\ OnceIn(wr, kind, id) /\ kind # "update" => OnceIn(w, kind, id)
    BY <1>2, <2>3, MsgGrown
  <2>8. InTurn(ac.told, ac.shown, peer.works, peer.wrote, lp.st = "over", lp.woken, w, ev)
        /\ InTurn(ac.told, ac.shown, peer.works, peer.wrote, lp.st = "over", lp.woken, wr', ev)
    <3>1. /\ \A id \in lp.woken : id > 0
          /\ \A id \in Int : Queued(ev, "finished", id) \/ id \in ac.told => id > 0
      BY <1>7 DEF Prompted, Begun
    <3>2. InTurn(ac.told, ac.shown, peer.works, peer.wrote, lp.st = "over", lp.woken, w, ev)
      <4>1. ~(u.kind = "update" /\ u.id > 0)
        BY <2>3
      <4>2. InTurn(ac.told, ac.shown, peer.works, peer.wrote, lp.st = "over", lp.woken,
                   Append(wr, u), ev)
        BY <1>2, <1>8, <2>3, <3>1, <4>1, InTurnWritten
      <4> QED
        BY <1>8, <4>2
    <3> HIDE DEF w
    <3>3. ~(r.kind = "update" /\ r.id > 0)
      BY <2>2
    <3>4. InTurn(ac.told, ac.shown, peer.works, peer.wrote, lp.st = "over", lp.woken, wr', ev)
      BY <1>2, <2>2, <2>5, <3>1, <3>2, <3>3, InTurnWritten
    <3> QED
      BY <3>2, <3>4
  <2> HIDE DEF w
  <2>9. \A kind, id : /\ Queued(wr', kind, id) <=> Queued(w, kind, id) \/ r = AcpMsg(kind, id)
                      /\ OnceIn(w, kind, id) /\ kind # kind0 => OnceIn(wr', kind, id)
    BY <2>2, <2>5, MsgGrown
  <2>10. \A id : /\ Queued(wr', "response", id) /\ id > 0 => Queued(wr, "response", id)
                 /\ Queued(wr, "response", id) => Queued(wr', "response", id)
                 /\ Queued(wr', "ask", id) <=> Queued(wr, "ask", id)
                 /\ OnceIn(wr, "ask", id) => OnceIn(wr', "ask", id)
    BY <2>2, <2>3, <2>7, <2>9
  <2>11. Queued(wr', "update", Replayed) =>
            Queued(wr, "update", Replayed) \/ Queued(peer.in, "load", 0)
    <3>1. m.kind = "load" => Queued(peer.in, "load", 0)
      BY <1>4, <1>5, <1>6
    <3> QED
      BY <2>2, <2>7, <2>9, <3>1
  <2>12. lp.st \in Handshakes => OnHand(lp, t, wr')
    <3> SUFFICES ASSUME lp.st \in Handshakes PROVE OnHand(lp, t, wr')
      OBVIOUS
    <3>1. peer.in = <<AcpMsg(lp.st, 0)>> /\ wr = <<>> /\ lp.reply = "none"
      BY <1>1, <1>9 DEF Staged, OnHand
    <3>2. m.kind = lp.st /\ t = <<>>
      BY <3>1 DEF m, AcpMsg
    <3>3. r = AcpMsg(kind0, 0)
      BY <2>4, <3>2 DEF Handshakes
    <3>4. CASE m.kind = "load"
      <4>1. wr' = Append(Append(<<>>, u), r)
        BY <2>5, <3>1, <3>4 DEF w
      <4>2. wr' = <<u, r>>
        BY <2>2, <2>3, <4>1, PairOf
      <4>3. u = AcpMsg("update", 0)
        BY DEF u, Replayed
      <4> QED
        BY <3>1, <3>2, <3>3, <3>4, <4>2, <4>3 DEF OnHand
    <3>5. CASE m.kind # "load"
      <4>1. wr' = <<r>>
        BY <2>5, <3>1, <3>5 DEF w
      <4> QED
        BY <3>1, <3>2, <3>3, <4>1 DEF OnHand
    <3> QED
      BY <3>4, <3>5
  <2>13. ac.st = "starting" => \A i \in DOMAIN wr' : wr'[i].id = 0
    <3> SUFFICES ASSUME ac.st = "starting" PROVE \A i \in DOMAIN wr' : wr'[i].id = 0
      OBVIOUS
    <3>1. \A i \in DOMAIN wr : wr[i].id = 0
      BY <1>9 DEF Staged
    <3>2. r.id = 0
      <4>1. \A kind \in {"config", "close"}, id \in Int : ~Queued(peer.in, kind, id)
        BY <1>9 DEF Staged, Blank
      <4>2. m.kind \notin {"config", "close"}
        BY <1>4, <1>5, <1>6, <4>1
      <4> QED
        BY <2>4, <4>2
    <3>3. ASSUME NEW s \in Seq(AcpWritten), NEW x \in AcpWritten, x.id = 0,
                 \A i \in DOMAIN s : s[i].id = 0
          PROVE  \A i \in DOMAIN Append(s, x) : Append(s, x)[i].id = 0
      <4>1. \A i \in DOMAIN Append(s, x) : \/ i \in DOMAIN s /\ Append(s, x)[i] = s[i]
                                           \/ Append(s, x)[i] = x
        BY <3>3
      <4> QED
        BY <3>3, <4>1
    <3>4. \A i \in DOMAIN w : w[i].id = 0
      BY <1>2, <2>3, <3>1, <3>3 DEF w
    <3> QED
      BY <2>2, <2>5, <3>2, <3>3, <3>4
  <2>14. m.kind # "prompt"
    BY <1>16 DEF Handshakes
  <2> QED
    BY <1>14, <1>16, <2>5, <2>8, <2>10, <2>11, <2>12, <2>13, <2>14
<1> QED
  BY <1>1, <1>4, <1>11, <1>13, <1>15, <1>16

-----------------------------------------------------------------------------
(* The dispatch of what the agent wrote. *)
LEMMA AcpDispatchKeeps == ASSUME AcpIInv, AcpDispatch PROVE AcpIInv'
<1> DEFINE m == Head(wr)
           t == Tail(wr)
<1>1. /\ wr # <<>> /\ lp.st \notin {"over", "replay"} /\ wr' = t /\ ac' = ac /\ cq' = cq
      /\ CASE m.kind \in {"update", "options"} ->
                  /\ ev' = IF NotifyPasses(lp, m) THEN Append(ev, m) ELSE ev
                  /\ lp' = lp /\ peer' = peer
           [] m.kind = "ask" ->
                  \/ /\ lp' = [lp EXCEPT !.asks = {1}]
                     /\ ev' = Append(ev, m) /\ peer' = peer
                  \/ /\ peer' = [peer EXCEPT !.answers = @ + 1]
                     /\ lp' = lp /\ ev' = ev
           [] m.kind = "permission" -> lp' = lp /\ peer' = peer /\ ev' = ev
           [] m.kind = "response" /\ m.id > 0 ->
                  /\ lp' = [lp EXCEPT !.woken = @ \cup {m.id}]
                  /\ peer' = peer /\ ev' = ev
           [] m.kind \in {"response", "refusal"} /\ m.id <= 0 ->
                  /\ lp' = [lp EXCEPT !.reply =
                               IF m.id # Awaits(lp.st) THEN @ ELSE m.kind]
                  /\ peer' = peer /\ ev' = ev
  BY DEF AcpDispatch
<1>2. /\ AcpTyped /\ wr \in Seq(AcpWritten) /\ ev \in Seq(AcpEvent)
      /\ ac \in AcpActor /\ lp \in AcpLoop /\ peer \in AcpAgent
      /\ peer.wrote \in SUBSET Int /\ ac.told \in SUBSET Int /\ lp.woken \in SUBSET Nat
      /\ peer.answers \in Nat
  BY AcpFacts DEF AcpIInv, AcpAgent
<1>3. m \in AcpWritten /\ t \in Seq(AcpWritten) /\ m = wr[1] /\ 1 \in DOMAIN wr
  BY <1>1, <1>2, MsgTail
<1>4. /\ m.kind \in {"update", "ask", "permission", "response", "refusal"} /\ m.id \in Int
      /\ (m.kind = "update" => m.id >= 0) /\ (m.kind = "ask" => m.id = 1)
      /\ (m.kind = "refusal" => m.id <= 0)
  BY <1>3 DEF AcpWritten
<1>5. \A kind, id : m = AcpMsg(kind, id) <=> m.kind = kind /\ m.id = id
  BY <1>3, WrittenIs
<1>6. \A kind, id : /\ Queued(wr, kind, id) <=> m = AcpMsg(kind, id) \/ Queued(t, kind, id)
                    /\ OnceIn(wr, kind, id) =>
                          OnceIn(t, kind, id) /\ (m # AcpMsg(kind, id) \/ ~Queued(t, kind, id))
  BY <1>1, <1>2, MsgShrunk
<1>7. Prompted(ac.next, ac.told, peer.works, peer.st = "down", lp.woken, cq, peer.in, wr, ev)
  BY DEF AcpIInv, AcpPrompted
<1>8. InTurn(ac.told, ac.shown, peer.works, peer.wrote, FALSE, lp.woken, wr, ev)
  <2>1. (lp.st = "over") = FALSE
    BY <1>1
  <2> QED
    BY <2>1 DEF AcpIInv, AcpInTurn
<1>9. Staged(ac, lp, peer, cq, wr, ev) /\ AskedOnce(peer.asked, peer.answers, lp.asks, wr)
  BY DEF AcpIInv, AcpStaged, AcpAskedOnce
<1>10. m.kind # "update" \/ m.id \notin peer.wrote =>
          InTurn(ac.told, ac.shown, peer.works, peer.wrote, FALSE, lp.woken, t, ev)
  BY <1>1, <1>2, <1>8, InTurnTail
<1>11. ac.st # "none" /\ lp.st # "none"
  BY <1>1, <1>9 DEF Staged
<1>12. ac.st = "starting" => /\ m.id = 0 /\ ev = <<>>
                             /\ \A i \in DOMAIN t : t[i].id = 0
  <2>1. ac.st = "starting" => ev = <<>> /\ \A i \in DOMAIN wr : wr[i].id = 0
    BY <1>9 DEF Staged, Blank
  <2>2. \A i \in DOMAIN t : i + 1 \in DOMAIN wr /\ t[i] = wr[i + 1]
    BY <1>1, <1>2, MsgTail
  <2> HIDE DEF t, m
  <2> QED
    BY <1>3, <2>1, <2>2
<1>13. lp.st \in Handshakes =>
         /\ ac.st = "starting" /\ lp.reply = "none" /\ peer.in = <<>>
         /\ \E kind \in {"response", "refusal"} :
              \/ m = AcpMsg(kind, 0) /\ t = <<>>
              \/ lp.st = "load" /\ m = AcpMsg("update", 0) /\ t = <<AcpMsg(kind, 0)>>
  <2> SUFFICES ASSUME lp.st \in Handshakes
               PROVE  /\ ac.st = "starting" /\ lp.reply = "none" /\ peer.in = <<>>
                      /\ \E kind \in {"response", "refusal"} :
                          \/ m = AcpMsg(kind, 0) /\ t = <<>>
                          \/ lp.st = "load" /\ m = AcpMsg("update", 0)
                               /\ t = <<AcpMsg(kind, 0)>>
    OBVIOUS
  <2>1. ac.st = "starting" /\ lp.reply = "none" /\ peer.in = <<>>
    BY <1>1, <1>9 DEF Staged, OnHand
  <2>2. PICK kind \in {"response", "refusal"} :
           \/ wr = <<AcpMsg(kind, 0)>>
           \/ lp.st = "load" /\ wr = <<AcpMsg("update", 0), AcpMsg(kind, 0)>>
    BY <1>1, <1>9 DEF Staged, OnHand
  <2> DEFINE r == AcpMsg(kind, 0)
             u == AcpMsg("update", 0)
  <2>3. r \in AcpWritten /\ u \in AcpWritten
    BY DEF AcpMsg, AcpWritten
  <2> HIDE DEF r, u
  <2>4. /\ wr = <<r>> \/ (lp.st = "load" /\ wr = <<u, r>>)
    BY <2>2 DEF r, u
  <2>5. (m = r /\ t = <<>>) \/ (lp.st = "load" /\ m = u /\ t = <<r>>)
    <3>1. Head(<<r>>) = r /\ Tail(<<r>>) = <<>> /\ Head(<<u, r>>) = u /\ Tail(<<u, r>>) = <<r>>
      BY <2>3, PairOf
    <3> QED
      BY <2>4, <3>1
  <2> QED
    BY <2>1, <2>5 DEF r, u
<1> HIDE DEF m, t
<1>14. ASSUME peer' \in AcpAgent, peer'.st = peer.st, peer'.in = peer.in,
              peer'.works = peer.works, peer'.wrote = peer.wrote,
              lp' \in AcpLoop, lp'.st = lp.st, lp'.suppress = lp.suppress,
              ev' \in Seq(AcpEvent),
              \/ lp'.woken = lp.woken /\ ~(m.kind = "response" /\ m.id > 0)
              \/ m.kind = "response" /\ m.id > 0 /\ lp'.woken = lp.woken \cup {m.id},
              \A id : /\ Queued(ev', "finished", id) <=> Queued(ev, "finished", id)
                      /\ Queued(ev', "exited", id) <=> Queued(ev, "exited", id),
              InTurn(ac.told, ac.shown, peer.works, peer.wrote, FALSE, lp'.woken, t, ev'),
              AcpAskedOnce',
              lp.st \in Handshakes => OnHand(lp', peer.in, t),
              m.id = 0 => ev' = ev
       PROVE  AcpIInv'
  <2>1. AcpTyped'
    BY <1>1, <1>2, <1>3, <1>14 DEF AcpTyped
  <2>2. AcpPrompted'
    <3>1. m.kind = "response" /\ m.id > 0 => Queued(wr, "response", m.id)
      BY <1>5, <1>6
    <3>2. \A id : Queued(t, "response", id) => Queued(wr, "response", id)
      BY <1>6
    <3>3. \A id : id \in lp'.woken =>
              id \in lp.woken \/ (id = m.id /\ m.id > 0 /\ Queued(wr, "response", m.id))
      BY <1>14, <3>1
    <3>4. Prompted(ac.next, ac.told, peer.works, peer.st = "down", lp'.woken, cq, peer.in,
                   t, ev')
      BY <1>4, <1>7, <1>14, <3>2, <3>3 DEF Prompted
    <3> QED
      BY <1>1, <1>14, <3>4 DEF AcpPrompted
  <2>3. AcpInTurn'
    <3>1. (lp.st = "over")' = FALSE
      BY <1>1, <1>14
    <3> QED
      BY <1>1, <1>14, <3>1 DEF AcpInTurn
  <2>4. AcpStaged'
    <3>1. ac.st = "starting" => m.id = 0 /\ ev' = ev /\ lp'.woken = lp.woken
      BY <1>12, <1>14
    <3>2. ac.st = "starting" => Blank(ac', lp', peer', cq', ev')
      BY <1>1, <1>9, <1>14, <3>1 DEF Staged, Blank
    <3>3. Past(lp', peer'.in, wr')
      BY <1>1, <1>6, <1>9, <1>14 DEF Staged, Past
    <3> QED
      BY <1>1, <1>9, <1>11, <1>12, <1>14, <3>2, <3>3 DEF AcpStaged, Staged
  <2>5. AcpTold'
    <3> SUFFICES ASSUME ac.turn # 0 PROVE AcpTold'
      BY <1>1 DEF AcpTold
    <3>1. UnderWay(ac.turn)
      BY DEF AcpIInv, AcpTold
    <3>2. Queued(wr, "response", ac.turn) =>
             ac.turn \in lp'.woken \/ Queued(t, "response", ac.turn)
      <4>1. m = AcpMsg("response", ac.turn) => m.kind = "response" /\ m.id = ac.turn
        BY <1>5
      <4>2. ac.turn > 0
        BY <1>2, AcpFacts
      <4> QED
        BY <1>6, <1>14, <4>1, <4>2
    <3>3. lp.woken \subseteq lp'.woken
      BY <1>14
    <3> QED
      BY <1>1, <1>14, <3>1, <3>2, <3>3 DEF AcpTold, UnderWay, AcpClosed
  <2> QED
    BY <1>14, <2>1, <2>2, <2>3, <2>4, <2>5 DEF AcpIInv
<1>15. ASSUME peer'.asked = peer.asked, peer'.answers = peer.answers, lp'.asks = lp.asks
       PROVE  AcpAskedOnce'
  BY <1>1, <1>6, <1>9, <1>15 DEF AcpAskedOnce, AskedOnce
<1>16. CASE m.kind = "update"
  <2>1. /\ ev' = IF NotifyPasses(lp, m) THEN Append(ev, m) ELSE ev
        /\ lp' = lp /\ peer' = peer
    BY <1>1, <1>16
  <2>2. lp.st \in Handshakes => OnHand(lp', peer.in, t)
    <3> SUFFICES ASSUME lp.st \in Handshakes PROVE OnHand(lp, peer.in, t)
      BY <2>1
    <3>1. PICK kind \in {"response", "refusal"} : t = <<AcpMsg(kind, 0)>>
      BY <1>5, <1>13, <1>16
    <3> QED
      BY <1>13, <3>1 DEF OnHand
  <2>3. CASE lp.suppress
    <3>1. ev' = ev
      BY <1>16, <2>1, <2>3 DEF NotifyPasses
    <3>2. peer.wrote = {}
      BY <1>9, <2>3 DEF Staged
    <3>3. InTurn(ac.told, ac.shown, peer.works, peer.wrote, FALSE, lp.woken, t, ev)
      BY <1>10, <3>2
    <3> QED
      BY <1>2, <1>14, <1>15, <1>16, <2>1, <2>2, <3>1, <3>3
  <2>4. CASE ~lp.suppress
    <3>1. m.id # 0
      <4>1. m.id = 0 => Queued(wr, "update", Replayed)
        BY <1>5, <1>6, <1>16 DEF Replayed
      <4> QED
        BY <1>9, <2>4, <4>1 DEF Staged, Past
    <3>2. m \in AcpEvent
      <4>1. m.id > 0
        BY <1>4, <1>16, <3>1
      <4> QED
        BY <1>3, <1>16, <4>1 DEF AcpWritten, AcpEvent
    <3>3. ev' = Append(ev, m) /\ Append(ev, m) \in Seq(AcpEvent)
      BY <1>2, <2>1, <2>4, <3>2 DEF NotifyPasses
    <3>4. \A kind, id : kind # "update" => (Queued(ev', kind, id) <=> Queued(ev, kind, id))
      <4>1. \A kind, id : m = AcpMsg(kind, id) => kind = "update"
        BY <1>5, <1>16
      <4> QED
        BY <1>2, <3>2, <3>3, <4>1, MsgGrown
    <3>5. InTurn(ac.told, ac.shown, peer.works, peer.wrote, FALSE, lp.woken, t, ev')
      BY <1>1, <1>2, <1>8, <1>16, <3>2, <3>3, InTurnHeard DEF m, t
    <3> QED
      BY <1>2, <1>14, <1>15, <1>16, <2>1, <2>2, <3>1, <3>3, <3>4, <3>5
  <2> QED
    BY <2>3, <2>4
<1>17. CASE m.kind = "ask"
  <2>1. m = AcpMsg("ask", 1) /\ Queued(wr, "ask", 1) /\ m.id = 1
    BY <1>4, <1>5, <1>6, <1>17
  <2>2. /\ lp.st \notin Handshakes
        /\ InTurn(ac.told, ac.shown, peer.works, peer.wrote, FALSE, lp.woken, t, ev)
    <3>1. lp.st \notin Handshakes
      BY <1>12, <1>13, <2>1
    <3>2. m.kind # "update"
      BY <1>17
    <3> QED
      BY <1>10, <3>1, <3>2
  <2>3. /\ peer.asked /\ peer.answers = 0 /\ lp.asks = {} /\ ~Queued(t, "ask", 1)
        /\ OnceIn(t, "ask", 1)
    BY <1>6, <1>9, <2>1 DEF AskedOnce
  <2>4. CASE lp' = [lp EXCEPT !.asks = {1}] /\ ev' = Append(ev, m) /\ peer' = peer
    <3>1. /\ lp'.st = lp.st /\ lp'.suppress = lp.suppress /\ lp'.asks = {1}
          /\ lp'.woken = lp.woken /\ lp'.reply = lp.reply
          /\ lp' \in AcpLoop
      BY <1>2, <2>4 DEF AcpLoop
    <3>2. m \in AcpEvent
      BY <1>3, <1>17, <2>1 DEF AcpWritten, AcpEvent
    <3>3. Append(ev, m) \in Seq(AcpEvent)
      BY <1>2, <3>2
    <3>4. \A kind, id : kind # "ask" => (Queued(ev', kind, id) <=> Queued(ev, kind, id))
      <4>1. \A kind, id : m = AcpMsg(kind, id) => kind = "ask"
        BY <1>5, <1>17
      <4> QED
        BY <1>2, <2>4, <3>2, <4>1, MsgGrown
    <3>5. InTurn(ac.told, ac.shown, peer.works, peer.wrote, FALSE, lp.woken, t, ev')
      BY <1>2, <1>17, <2>2, <2>4, <3>2, InTurnEvent
    <3>6. AcpAskedOnce'
      BY <1>1, <2>3, <2>4, <3>1 DEF AcpAskedOnce, AskedOnce
    <3> QED
      BY <1>2, <1>14, <1>17, <2>1, <2>2, <2>4, <3>1, <3>3, <3>4, <3>5, <3>6
  <2>5. CASE peer' = [peer EXCEPT !.answers = @ + 1] /\ lp' = lp /\ ev' = ev
    <3>1. peer.answers + 1 \in Nat
      BY <1>2
    <3>2. /\ peer'.st = peer.st /\ peer'.in = peer.in
          /\ peer'.works = peer.works /\ peer'.wrote = peer.wrote
          /\ peer'.asked = peer.asked /\ peer'.answers = peer.answers + 1
          /\ peer' \in AcpAgent
      BY <1>2, <2>5, <3>1 DEF AcpAgent
    <3>3. AcpAskedOnce'
      BY <1>1, <2>3, <2>5, <3>2 DEF AcpAskedOnce, AskedOnce
    <3> QED
      BY <1>2, <1>14, <1>17, <2>1, <2>2, <2>5, <3>2, <3>3
  <2> QED
    BY <1>1, <1>17, <2>4, <2>5
<1>18. CASE m.kind = "permission"
  <2>1. lp' = lp /\ peer' = peer /\ ev' = ev
    BY <1>1, <1>18
  <2>2. lp.st \notin Handshakes
    BY <1>5, <1>13, <1>18
  <2> QED
    BY <1>2, <1>10, <1>14, <1>15, <1>18, <2>1, <2>2
<1>19. CASE m.kind = "response" /\ m.id > 0
  <2>1. /\ lp' = [lp EXCEPT !.woken = lp.woken \cup {m.id}]
        /\ peer' = peer /\ ev' = ev
    <3>1. m.kind \notin {"update", "options", "ask", "permission"} /\ ~(m.id <= 0)
      BY <1>4, <1>19
    <3> QED
      BY <1>1, <1>19, <3>1
  <2>2. lp.woken \cup {m.id} \in SUBSET Nat
    BY <1>2, <1>4, <1>19
  <2>3. /\ lp'.st = lp.st /\ lp'.suppress = lp.suppress /\ lp'.asks = lp.asks
        /\ lp'.woken = lp.woken \cup {m.id} /\ lp'.reply = lp.reply
        /\ lp' \in AcpLoop
    BY <1>2, <2>1, <2>2 DEF AcpLoop
  <2>4. lp.st \notin Handshakes
    BY <1>12, <1>13, <1>19
  <2>5. ~Queued(t, "update", m.id)
    <3>1. UpdateFirst(wr, "response", m.id)
      BY <1>4, <1>8, <1>19 DEF InTurn
    <3>2. m = AcpMsg("response", m.id)
      BY <1>5, <1>19
    <3>3. ~Queued(wr, "update", m.id)
      BY <1>1, <1>2, <3>1, <3>2, FirstShrunk DEF m
    <3> QED
      BY <1>6, <3>3
  <2>6. InTurn(ac.told, ac.shown, peer.works, peer.wrote, FALSE, lp'.woken, t, ev)
    <3>1. m.kind # "update"
      BY <1>19
    <3>2. InTurn(ac.told, ac.shown, peer.works, peer.wrote, FALSE, lp.woken, t, ev)
      BY <1>10, <3>1
    <3>3. InTurn(ac.told, ac.shown, peer.works, peer.wrote, FALSE, lp.woken \cup {m.id}, t, ev)
      BY <2>5, <3>2, InTurnParts
    <3> QED
      BY <2>3, <3>3
  <2>7. AcpAskedOnce'
    BY <1>15, <2>1, <2>3
  <2> QED
    BY <1>2, <1>4, <1>14, <1>19, <2>1, <2>3, <2>4, <2>6, <2>7
<1>20. CASE m.kind \in {"response", "refusal"} /\ m.id <= 0
  <2> DEFINE r == IF m.id # Awaits(lp.st) THEN lp.reply ELSE m.kind
  <2>1. /\ lp' = [lp EXCEPT !.reply = r]
        /\ peer' = peer /\ ev' = ev
    <3>1. ~(m.kind = "response" /\ m.id > 0)
      BY <1>4, <1>20
    <3> QED
      BY <1>1, <1>2, <1>20, <3>1 DEF AcpLoop
  <2>2. r \in {"none", "response", "refusal"}
    BY <1>2, <1>20 DEF AcpLoop
  <2>3. lp.st \in Handshakes /\ m.id = 0 => r = m.kind
    BY DEF Awaits, Handshakes
  <2> HIDE DEF r
  <2>4. /\ lp'.st = lp.st /\ lp'.suppress = lp.suppress /\ lp'.asks = lp.asks
        /\ lp'.woken = lp.woken /\ lp'.reply = r
        /\ lp' \in AcpLoop
    BY <1>2, <2>1, <2>2 DEF AcpLoop
  <2>5. lp.st \in Handshakes => OnHand(lp', peer.in, t)
    <3> SUFFICES ASSUME lp.st \in Handshakes PROVE OnHand(lp', peer.in, t)
      OBVIOUS
    <3>1. m.id = 0 /\ t = <<>> /\ peer.in = <<>>
      BY <1>5, <1>12, <1>13, <1>20
    <3>2. lp'.reply # "none"
      BY <1>20, <2>3, <2>4, <3>1
    <3> QED
      BY <3>1, <3>2 DEF OnHand
  <2>6. AcpAskedOnce'
    BY <1>15, <2>1, <2>4
  <2>7. ~(m.kind = "response" /\ m.id > 0) /\ m.kind # "update"
    BY <1>4, <1>20
  <2> QED
    BY <1>2, <1>10, <1>14, <2>1, <2>4, <2>5, <2>6, <2>7
<1>21. m.kind = "response" => m.id > 0 \/ m.id <= 0
  BY <1>4
<1> QED
  BY <1>4, <1>16, <1>17, <1>18, <1>19, <1>20, <1>21

-----------------------------------------------------------------------------
(* The invariant holds at the start and in every step.                     *)
LEMMA AcpStart == ASSUME AcpInit PROVE AcpIInv
<1>1. PICK caps \in SUBSET {"resume", "load", "close"}, resuming \in BOOLEAN :
        /\ ac = [st |-> "none", busy |-> FALSE, turn |-> 0, next |-> 1,
                 wait |-> NoCmd, shown |-> {}, asked |-> FALSE, told |-> {}, gone |-> FALSE,
                 faults |-> 0, configs |-> 0]
        /\ lp = [st |-> "none", suppress |-> FALSE, asks |-> {}, woken |-> {},
                 reply |-> "none", live |-> FALSE, caps |-> caps,
                 resuming |-> resuming]
        /\ peer = [st |-> "down", in |-> <<>>, works |-> {}, wrote |-> {},
                 asked |-> FALSE, answers |-> 0]
        /\ cq = <<>> /\ wr = <<>> /\ ev = <<>>
  BY DEF AcpInit
<1>2. /\ ac.st = "none" /\ ac.turn = 0 /\ ac.next = 1 /\ ac.wait = NoCmd /\ ac.shown = {}
      /\ ac.asked = FALSE /\ ac.told = {} /\ ac.gone = FALSE
  BY <1>1
<1>3. /\ lp.st = "none" /\ lp.suppress = FALSE /\ lp.asks = {} /\ lp.woken = {}
      /\ lp.reply = "none"
  BY <1>1
<1>4. /\ peer.st = "down" /\ peer.in = <<>> /\ peer.works = {} /\ peer.wrote = {}
      /\ peer.asked = FALSE /\ peer.answers = 0
  BY <1>1
<1>5. AcpTyped
  <2>1. ac \in AcpActor
    BY <1>1 DEF AcpActor, NoCmd
  <2>2. lp \in AcpLoop
    BY <1>1 DEF AcpLoop
  <2>3. peer \in AcpAgent
    BY <1>1 DEF AcpAgent
  <2> QED
    BY <1>1, <2>1, <2>2, <2>3 DEF AcpTyped
<1>6. AcpPrompted
  BY <1>1, <1>2, <1>3, <1>4, EmptyQueue DEF AcpPrompted, Prompted
<1>7. AcpInTurn
  <2>1. \A id \in Int : UpdateFirst(<<>>, "response", id)
    BY DEF UpdateFirst
  <2> QED
    BY <1>1, <1>2, <1>3, <1>4, <2>1, EmptyQueue DEF AcpInTurn, InTurn
<1>8. AcpStaged
  <2>1. Blank(ac, lp, peer, cq, ev)
    BY <1>1, <1>2, <1>3, <1>4, EmptyQueue DEF Blank
  <2> QED
    BY <1>1, <1>2, <1>3, <1>4, <2>1, EmptyQueue DEF AcpStaged, Staged, Past, Handshakes
<1>9. AcpAskedOnce
  BY <1>1, <1>3, <1>4, EmptyQueue DEF AcpAskedOnce, AskedOnce
<1>10. AcpTold
  BY <1>2 DEF AcpTold
<1> QED
  BY <1>5, <1>6, <1>7, <1>8, <1>9, <1>10 DEF AcpIInv

LEMMA AcpStep == ASSUME AcpIInv, [AcpNext]_acpVars PROVE AcpIInv'
<1>1. CASE UNCHANGED acpVars
  BY <1>1 DEF acpVars, AcpIInv, AcpTyped, AcpPrompted, AcpInTurn, AcpStaged, AcpAskedOnce,
              AcpTold, UnderWay, AcpClosed
<1>2. CASE SpawnInternal \/ Handshake \/ HandshakeFails \/ SpawnReady \/ SpawnFails
  BY <1>2, SpawnInternalKeeps, HandshakeKeeps, HandshakeFailsKeeps, SpawnReadyKeeps,
     SpawnFailsKeeps
<1>3. CASE AcpBeginPrompt \/ CancelPrompt \/ ApplyConfigOption \/ RespondElicitation
             \/ CommandTimesOut \/ PollEvent \/ TearDown \/ KillTree
  BY <1>3, AcpBeginPromptKeeps, CancelPromptKeeps, ApplyConfigOptionKeeps,
     RespondElicitationKeeps, CommandTimesOutKeeps, PollEventKeeps, TearDownKeeps,
     KillTreeKeeps
<1>4. CASE CommandLoop \/ ConfigAtOnce \/ RequestEnds \/ PromptTask \/ ConnectionEnds
             \/ AcpDispatch
  BY <1>4, CommandLoopKeeps, ConfigAtOnceKeeps, RequestEndsKeeps, PromptTaskKeeps,
     ConnectionEndsKeeps, AcpDispatchKeeps
<1>5. CASE AcpAdopt \/ ReplayLine \/ ReplayEnds \/ AdoptedShutdown
  BY <1>5, AcpAdoptKeeps, ReplayLineKeeps, ReplayEndsKeeps, AdoptedShutdownKeeps
<1>6. CASE AgentReads \/ AgentSpeaks \/ AgentFinishes \/ AgentDies
  BY <1>6, AgentReadsKeeps, AgentSpeaksKeeps, AgentFinishesKeeps, AgentDiesKeeps
<1> QED
  BY <1>1, <1>2, <1>3, <1>4, <1>5, <1>6 DEF AcpNext

LEMMA AcpInvariant == AcpSpec => []AcpIInv
<1>1. AcpInit => AcpIInv
  BY AcpStart
<1>2. AcpIInv /\ [AcpNext]_acpVars => AcpIInv'
  BY AcpStep
<1> QED
  BY <1>1, <1>2, PTL DEF AcpSpec

(* A turn that the actor waits for is on its way, or its end will be told; *)
(* a question is open or answered once; and when the end of a turn has     *)
(* been read, so has what was said in it before, and nothing that a        *)
(* restored session replays.  For every number of turns, faults, asks and  *)
(* interleavings of the actor's timeouts with the loop, the dispatch and   *)
(* the end of the stream (command_loop, run_async).                        *)
THEOREM AcpServes == AcpSpec => []AcpTurnServed
<1>1. AcpIInv => AcpTurnServed
  <2> SUFFICES ASSUME AcpIInv PROVE AcpTurnServed
    OBVIOUS
  <2>1. peer.answers + Cardinality(lp.asks) <= 1
    <3>1. /\ lp.asks \in {{}, {1}} /\ Cardinality({}) = 0 /\ Cardinality({1}) = 1
          /\ AskedOnce(peer.asked, peer.answers, lp.asks, wr)
      BY OneAsked
    <3>2. CASE lp.asks = {}
      BY <3>1, <3>2 DEF AskedOnce
    <3>3. CASE lp.asks = {1}
      BY <3>1, <3>3 DEF AskedOnce
    <3> QED
      BY <3>1, <3>2, <3>3
  <2>2. TurnIsTold
    BY <2>1 DEF AcpIInv, AcpTold, TurnIsTold
  <2>3. ShownOnce
    BY DEF AcpIInv, AcpInTurn, InTurn, ShownOnce, Replayed
  <2> QED
    BY <2>2, <2>3 DEF AcpTurnServed
<1> QED
  BY <1>1, AcpInvariant, PTL

=============================================================================
