--------------------------- MODULE SentOnceProofs ---------------------------
(***************************************************************************)
(* SentAtMostOnce of TaskSession, for any hosts, prompts and texts and for *)
(* any bounds.  The invariants of TaskSessionProofs say that what is sent  *)
(* is stored and that there is one agent; the one added here says of a     *)
(* host that may dispatch that nothing in its queue has been sent, and     *)
(* that everything that has been sent is known to its ledger as begun, or  *)
(* is over.                                                                *)
(***************************************************************************)
EXTENDS TaskSessionProofs

Named(s) == {x.id : x \in Elems(s)}

(* The ledger has the prompt, and not as queued.                           *)
Begun(ledger, id) ==
    Has(ledger, id) /\ \A e \in Elems(ledger) : e.id = id => e.phase # "Queued"

(* What holds of the prompts K that a host still means to dispatch, of its *)
(* ledger, the rows, and what agents have received.                        *)
Matched(K, ledger, stored, received) ==
    /\ \A q \in Elems(received) : Begun(ledger, q.id) \/ Over(stored, q.id)
    /\ \A id \in K : id \notin Named(received) /\ (Has(ledger, id) \/ Over(stored, id))

(* The ledger and the rows agree on what is queued.                        *)
Shows(ledger, stored) ==
    \A x \in Elems(stored) :
        /\ \A e \in Elems(ledger) : e.id = x.id => (e.phase = "Queued" <=> x.st = "Pending")
        /\ Has(ledger, x.id) \/ x.st \in Terminal

Form(c) ==
    /\ {"host", "agents", "run", "alive", "crashed", "ok", "rows", "sent", "s"} \subseteq DOMAIN c
    /\ {"ledger", "queue", "active", "pending", "slot", "path"} \subseteq DOMAIN c.s

(* The host may dispatch: in every slot, or when its agent is healthy.     *)
Serves(m, c) == ~c.crashed /\ (m = "any" \/ Healthy(c))

(* Another host has an agent: this one has none, sends nothing, and its    *)
(* reject_foreign_live_child sees the other.                               *)
Apart(k, c) ==
    /\ c.agents = k.agents
    /\ c.agents # {} => /\ c.sent = k.sent
                        /\ c.alive => c.crashed
                        /\ c.run.boot # c.host /\ c.run.child \in c.agents

(* What a handler keeps that was started in k, for the prompts K.          *)
Told(k, m, K, c) ==
    /\ Form(c) /\ Fine(c) /\ Distinct(c.sent) /\ c.s.path = TRUE
    /\ Apart(k, c)
    /\ Serves(m, c) => Matched(K, c.s.ledger, c.rows, c.sent)

(* The same for the queue and the prompts A that are held aside.           *)
Ready(k, m, A, c) ==
    /\ Told(k, m, A \cup Named(c.s.queue), c)
    /\ A \cap Named(c.s.queue) = {}

(* The agents and what they have received have not changed, and the host   *)
(* has not become able to dispatch.                                        *)
Near(c, d) ==
    /\ Form(d)
    /\ d.host = c.host /\ d.agents = c.agents /\ d.run = c.run
    /\ d.sent = c.sent /\ d.s.path = c.s.path
    /\ d.alive /\ ~d.crashed => c.alive /\ ~c.crashed
    /\ ~d.crashed => ~c.crashed
    /\ ~d.crashed /\ Healthy(d) => Healthy(c)

Kin(c, d) ==
    /\ Near(c, d)
    /\ d.rows = c.rows /\ d.s.ledger = c.s.ledger /\ d.s.queue = c.s.queue

LEMMA HeadTail ==
    ASSUME NEW s, IsList(s), s # <<>>
    PROVE  Elems(s) = Elems(Tail(s)) \cup {Head(s)}
<1> DEFINE R == Elems(s)
<1>1. s \in Seq(R)
  BY DEF IsList
<1> HIDE DEF R
<1>2. Len(s) \in Nat /\ Len(s) # 0 /\ Len(Tail(s)) = Len(s) - 1 /\ Head(s) = s[1]
  BY <1>1
<1>3. \A i \in 1..(Len(s) - 1) : Tail(s)[i] = s[i + 1]
  BY <1>1, <1>2
<1>4. ASSUME NEW i \in 1..Len(s)
      PROVE  i = 1 \/ (i - 1 \in 1..(Len(s) - 1) /\ s[i] = Tail(s)[i - 1])
  <2>1. i = 1 \/ i - 1 \in 1..(Len(s) - 1)
    BY <1>2
  <2>2. i - 1 \in 1..(Len(s) - 1) => s[i] = Tail(s)[i - 1]
    <3>1. i - 1 + 1 = i
      BY <1>2
    <3> QED
      BY <1>3, <3>1
  <2> QED
    BY <2>1, <2>2
<1>5. \A i \in 1..(Len(s) - 1) : i + 1 \in 1..Len(s)
  BY <1>2
<1>6. 1 \in 1..Len(s)
  BY <1>2
<1>7. ASSUME NEW x \in Elems(s)
      PROVE  x \in Elems(Tail(s)) \cup {Head(s)}
  <2>1. PICK i \in 1..Len(s) : x = s[i]
    BY DEF Elems
  <2> QED
    BY <1>2, <1>4, <2>1 DEF Elems
<1>8. ASSUME NEW x \in Elems(Tail(s))
      PROVE  x \in Elems(s)
  <2>1. PICK i \in 1..(Len(s) - 1) : x = Tail(s)[i]
    BY <1>2 DEF Elems
  <2> QED
    BY <1>3, <1>5, <2>1 DEF Elems
<1>9. Head(s) \in Elems(s)
  BY <1>2, <1>6 DEF Elems
<1> QED
  BY <1>7, <1>8, <1>9

LEMMA KinOn == \A c, d, e : Kin(c, d) /\ Kin(d, e) => Kin(c, e)
  BY DEF Kin, Near

LEMMA FineGood == \A c : Fine(c) => Good(c.rows, {}, c)
  BY KeepsSame DEF Fine, Good

LEMMA NearTold ==
    ASSUME NEW k, NEW m, NEW K, NEW c, Told(k, m, K, c), NEW d, Near(c, d), Fine(d),
           Serves(m, d) => Matched(K, d.s.ledger, d.rows, d.sent)
    PROVE  Told(k, m, K, d)
<1>1. Distinct(d.sent) /\ d.s.path = TRUE /\ Form(d)
  BY DEF Near, Told
<1>2. Apart(k, d)
  BY DEF Near, Told, Apart
<1> QED
  BY <1>1, <1>2 DEF Told

LEMMA NearServes ==
    ASSUME NEW m, NEW c, NEW d, Near(c, d), Serves(m, d)
    PROVE  Serves(m, c)
  BY DEF Near, Serves

LEMMA KinTold ==
    ASSUME NEW k, NEW m, NEW K, NEW c, Told(k, m, K, c), NEW d, Kin(c, d), Fine(d)
    PROVE  Told(k, m, K, d)
<1>1. Serves(m, d) => Matched(K, d.s.ledger, d.rows, d.sent)
  BY NearServes DEF Kin, Near, Told
<1> QED
  BY <1>1, NearTold DEF Kin

LEMMA KinReady ==
    ASSUME NEW k, NEW m, NEW A, NEW c, Ready(k, m, A, c), NEW d, Kin(c, d), Fine(d)
    PROVE  Ready(k, m, A, d)
  BY KinTold DEF Ready, Kin

(* Serving in every slot is the stronger promise.                          *)
LEMMA AnyTold ==
    ASSUME NEW k, NEW m, NEW K, NEW c, Told(k, "any", K, c)
    PROVE  Told(k, m, K, c)
  BY DEF Told, Serves

LEMMA AnyReady ==
    ASSUME NEW k, NEW m, NEW A, NEW c, Ready(k, "any", A, c)
    PROVE  Ready(k, m, A, c)
  BY AnyTold DEF Ready

(* With a healthy agent there is no difference.                            *)
LEMMA HealthyReady ==
    ASSUME NEW k, NEW m, NEW A, NEW c, Ready(k, m, A, c), Healthy(c)
    PROVE  Ready(k, "any", A, c)
  BY DEF Ready, Told, Serves

LEMMA LessTold ==
    ASSUME NEW k, NEW m, NEW K, NEW L, NEW c, Told(k, m, K, c), L \subseteq K
    PROVE  Told(k, m, L, c)
  BY DEF Told, Matched

LEMMA ReadyForm ==
    ASSUME NEW k, NEW m, NEW A, NEW c, Ready(k, m, A, c)
    PROVE  Form(c) /\ Fine(c)
  BY DEF Ready, Told

-----------------------------------------------------------------------------
(* What leaves ledger, queue and rows alone.                               *)

LEMMA ResultKin ==
    ASSUME NEW c, Form(c)
    PROVE  /\ Kin(c, c)
           /\ Kin(c, Accepted(c))
           /\ Kin(c, Rejected(c))
           /\ Kin(c, Crashed(c))
           /\ Kin(c, MarkExited(c))
           /\ Kin(c, NoteExit(c))
           /\ Kin(c, Kill(c))
           /\ \A d \in Faulty(c) : Kin(c, d)
<1>1. Kin(c, c)
  BY DEF Kin, Near
<1>2. Kin(c, Accepted(c)) /\ Kin(c, Rejected(c))
  BY DEF Kin, Near, Form, Accepted, Rejected, Healthy
<1>3. Kin(c, Crashed(c))
  BY DEF Kin, Near, Form, Crashed, Healthy
<1>4. Kin(c, MarkExited(c))
  BY <1>1 DEF Kin, Near, Form, MarkExited, Healthy
<1>5. Kin(c, NoteExit(c))
  BY <1>1, <1>4 DEF NoteExit
<1>6. Kin(c, Kill(c))
  BY <1>1 DEF Kin, Near, Form, Kill, Healthy
<1>7. \A d \in Faulty(c) : Kin(c, d)
  BY DEF Kin, Near, Form, Faulty, Healthy
<1> QED
  BY <1>1, <1>2, <1>3, <1>4, <1>5, <1>6, <1>7

LEMMA StoreKin ==
    ASSUME NEW c, Form(c)
    PROVE  \A d \in Write(c) \cup Read(c) \cup Log(c) \cup Note(c) \cup MaybeLog(c)
                    \cup Spawn(c) \cup RejectForeignLiveChild(c) : Kin(c, d)
<1>1. \A d \in Write(c) : Kin(c, d)
  <2>1. \A g \in c.peers : Kin(c, [c EXCEPT !.ok = FALSE, !.owner = g, !.claimed[g] = TRUE])
    BY DEF Kin, Near, Form, Healthy
  <2> QED
    BY <2>1, ResultKin DEF Write
<1>2. \A d \in Read(c) \cup Spawn(c) : Kin(c, d)
  BY ResultKin DEF Read, Spawn
<1>3. \A d \in Log(c) : Kin(c, d)
  <2> SUFFICES ASSUME NEW w \in Write(c)
               PROVE  Kin(c, [w EXCEPT !.s.backlog = ~w.ok, !.s.fault = ~w.ok])
    BY DEF Log
  <2> DEFINE v == ~w.ok
  <2> HIDE DEF v
  <2>1. Kin(c, [w EXCEPT !.s.backlog = v, !.s.fault = v])
    BY <1>1 DEF Kin, Near, Form, Healthy
  <2> QED
    BY <2>1 DEF v
<1>4. \A d \in Note(c) \cup MaybeLog(c) : Kin(c, d)
  <2>1. \A d : Kin(c, d) => Kin(c, Accepted(d))
    BY ResultKin, KinOn DEF Kin, Near
  <2> QED
    BY <1>3, <2>1, ResultKin DEF Note, MaybeLog
<1>5. \A d \in RejectForeignLiveChild(c) : Kin(c, d)
  <2>1. \A d : Kin(c, d) => Kin(c, Rejected(d))
    BY ResultKin, KinOn DEF Kin, Near
  <2> QED
    BY <1>2, <2>1 DEF RejectForeignLiveChild
<1> QED
  BY <1>1, <1>2, <1>3, <1>4, <1>5

(* Fields of the session that say nothing of prompts.                      *)
LEMMA FieldsKin ==
    ASSUME NEW c, Form(c), NEW v
    PROVE  /\ Kin(c, [c EXCEPT !.ok = v])
           /\ Kin(c, [c EXCEPT !.s.active = v])
           /\ Kin(c, [c EXCEPT !.s.active = v, !.s.pending = None])
           /\ Kin(c, [c EXCEPT !.s.active = v, !.s.chan = None])
           /\ Kin(c, [c EXCEPT !.ok = TRUE, !.s.active = v, !.s.chan = None])
           /\ Kin(c, [c EXCEPT !.s.active.cancel = v])
           /\ Kin(c, [c EXCEPT !.s.pending = v])
           /\ Kin(c, [c EXCEPT !.s.fault = v])
           /\ Kin(c, [c EXCEPT !.s.chan = v])
           /\ Kin(c, [c EXCEPT !.s.reconciled = v])
           /\ Kin(c, [c EXCEPT !.s.loaded = v])
           /\ Kin(c, [c EXCEPT !.s.holders = v])
<1>1. /\ Kin(c, [c EXCEPT !.ok = v])
      /\ Kin(c, [c EXCEPT !.s.active = v])
      /\ Kin(c, [c EXCEPT !.s.active = v, !.s.pending = None])
      /\ Kin(c, [c EXCEPT !.s.active = v, !.s.chan = None])
  BY DEF Kin, Near, Form, Healthy
<1>2. /\ Kin(c, [c EXCEPT !.ok = TRUE, !.s.active = v, !.s.chan = None])
      /\ Kin(c, [c EXCEPT !.s.active.cancel = v])
      /\ Kin(c, [c EXCEPT !.s.pending = v])
      /\ Kin(c, [c EXCEPT !.s.fault = v])
  BY DEF Kin, Near, Form, Healthy
<1>3. /\ Kin(c, [c EXCEPT !.s.chan = v])
      /\ Kin(c, [c EXCEPT !.s.reconciled = v])
      /\ Kin(c, [c EXCEPT !.s.loaded = v])
      /\ Kin(c, [c EXCEPT !.s.holders = v])
  BY DEF Kin, Near, Form, Healthy
<1> QED
  BY <1>1, <1>2, <1>3

(* The same, with what they keep.                                          *)
LEMMA RestTold ==
    ASSUME NEW k, NEW m, NEW K, NEW c, Told(k, m, K, c)
    PROVE  /\ \A d \in Write(c) \cup Read(c) \cup Log(c) \cup Note(c) \cup MaybeLog(c)
                       \cup RejectForeignLiveChild(c) \cup Spawn(c) :
                 Told(k, m, K, d) /\ d.s.queue = c.s.queue
           /\ \A d \in {Accepted(c), Rejected(c), Crashed(c), MarkExited(c), NoteExit(c),
                        Kill(c)} :
                 Told(k, m, K, d) /\ d.s.queue = c.s.queue
           /\ \A d \in Faulty(c) : Told(k, m, K, d) /\ d.s.queue = c.s.queue
<1>1. Form(c) /\ Fine(c) /\ Good(c.rows, {}, c)
  BY FineGood DEF Told
<1>2. \A d : Kin(c, d) /\ Good(c.rows, {}, d) => Told(k, m, K, d) /\ d.s.queue = c.s.queue
  BY KinTold DEF Kin, Good
<1>3. \A d \in Write(c) \cup Read(c) \cup Log(c) \cup Note(c) \cup MaybeLog(c)
                       \cup RejectForeignLiveChild(c) \cup Spawn(c) :
         Kin(c, d) /\ Good(c.rows, {}, d)
  BY <1>1, StoreKin, AlikeAll
<1>4. \A d \in {Accepted(c), Rejected(c), Crashed(c), MarkExited(c), NoteExit(c), Kill(c)} :
         Kin(c, d) /\ Good(c.rows, {}, d)
  BY <1>1, ResultKin, AlikeAll
<1>5. \A d \in Faulty(c) : Kin(c, d) /\ Good(c.rows, {}, d)
  BY <1>1, ResultKin, AlikeAll
<1> QED
  BY <1>2, <1>3, <1>4, <1>5

LEMMA RestReady ==
    ASSUME NEW k, NEW m, NEW A, NEW c, Ready(k, m, A, c)
    PROVE  /\ \A d \in Write(c) \cup Read(c) \cup Log(c) \cup Note(c) \cup MaybeLog(c)
                       \cup RejectForeignLiveChild(c) \cup Spawn(c) : Ready(k, m, A, d)
           /\ \A d \in {Accepted(c), Rejected(c), Crashed(c), MarkExited(c), NoteExit(c),
                        Kill(c)} : Ready(k, m, A, d)
           /\ \A d \in Faulty(c) : Ready(k, m, A, d)
<1> DEFINE K == A \cup Named(c.s.queue)
<1>1. Told(k, m, K, c)
  BY DEF Ready
<1>2. \A d : Told(k, m, K, d) /\ d.s.queue = c.s.queue => Ready(k, m, A, d)
  BY DEF Ready
<1> HIDE DEF K
<1> DEFINE Same(d) == Told(k, m, K, d) /\ d.s.queue = c.s.queue
<1>3. \A d \in Write(c) \cup Read(c) \cup Log(c) \cup Note(c) \cup MaybeLog(c)
                       \cup RejectForeignLiveChild(c) \cup Spawn(c) : Same(d)
  BY <1>1, RestTold
<1>4. \A d \in {Accepted(c), Rejected(c), Crashed(c), MarkExited(c), NoteExit(c),
                   Kill(c)} : Same(d)
  BY <1>1, RestTold
<1>5. \A d \in Faulty(c) : Same(d)
  BY <1>1, RestTold
<1>6. \A d : Same(d) => Ready(k, m, A, d)
  BY <1>2
<1> HIDE DEF Same
<1> QED
  BY <1>3, <1>4, <1>5, <1>6

LEMMA FieldsReady ==
    ASSUME NEW k, NEW m, NEW A, NEW c, Ready(k, m, A, c), NEW v
    PROVE  /\ Ready(k, m, A, [c EXCEPT !.ok = v])
           /\ Ready(k, m, A, [c EXCEPT !.s.active = None])
           /\ Ready(k, m, A, [c EXCEPT !.s.active = None, !.s.pending = None])
           /\ Ready(k, m, A, [c EXCEPT !.s.fault = v])
           /\ Ready(k, m, A, [c EXCEPT !.s.chan = v])
           /\ Ready(k, m, A, [c EXCEPT !.s.reconciled = v])
           /\ Ready(k, m, A, [c EXCEPT !.s.loaded = v])
           /\ Ready(k, m, A, [c EXCEPT !.s.holders = v])
<1>1. Form(c) /\ Fine(c) /\ Shape(c) /\ Good(c.rows, {}, c)
  BY FineGood DEF Ready, Told, Fine
<1>2. \A d : Kin(c, d) /\ (Alike(c, d) \/ Good(c.rows, {}, d)) => Ready(k, m, A, d)
  <2> SUFFICES ASSUME NEW d, Kin(c, d), Alike(c, d) \/ Good(c.rows, {}, d)
               PROVE  Ready(k, m, A, d)
    OBVIOUS
  <2>1. Alike(c, d) => Good(c.rows, {}, d)
    BY <1>1, AlikeGood
  <2>2. Fine(d)
    BY <2>1 DEF Good
  <2> QED
    BY <2>2, KinReady
<1>3. /\ Alike(c, [c EXCEPT !.ok = v])
      /\ Alike(c, [c EXCEPT !.s.fault = v])
      /\ Alike(c, [c EXCEPT !.s.chan = v])
      /\ Alike(c, [c EXCEPT !.s.reconciled = v])
      /\ Alike(c, [c EXCEPT !.s.loaded = v])
      /\ Alike(c, [c EXCEPT !.s.holders = v])
  BY <1>1 DEF Alike, Shape
<1>4. /\ Good(c.rows, {}, [c EXCEPT !.s.active = None])
      /\ Good(c.rows, {}, [c EXCEPT !.s.active = None, !.s.pending = None])
  BY <1>1, IdleGood
<1>5. /\ Ready(k, m, A, [c EXCEPT !.s.active = None])
      /\ Ready(k, m, A, [c EXCEPT !.s.active = None, !.s.pending = None])
  BY <1>1, <1>2, <1>4, FieldsKin
<1> QED
  BY <1>1, <1>2, <1>3, <1>5, FieldsKin

-----------------------------------------------------------------------------
(* A ledger that has just been committed or read shows what is queued.     *)

LEMMA MirrorsShow ==
    ASSUME NEW l, NEW R, Committable(l, R), Mirrors(l, R)
    PROVE  Shows(l, R)
<1>1. \A e \in Elems(l) : Target(e.phase) = "Pending" <=> e.phase = "Queued"
  BY TargetOf DEF Committable, EntryFine
<1> QED
  BY <1>1 DEF Mirrors, Shows

LEMMA RecoveredShows ==
    ASSUME NEW R, RowsFine(R)
    PROVE  Shows(RecoverAfterRestart(LedgerFromRows(R)), R)
<1> DEFINE l == LedgerFromRows(R)
           f == RecoverAfterRestart(l)
<1>1. LedgerFine(l, R) /\ Mirrors(l, R)
  BY FromRowsFine
<1>2. Shows(l, R)
  BY <1>1, MirrorsShow DEF LedgerFine
<1> HIDE DEF l
<1>3. /\ \A id : Has(l, id) => Has(f, id)
      /\ \A e \in Elems(f) : \E d \in Elems(l) :
            d.id = e.id /\ (d.phase = "Queued" <=> e.phase = "Queued")
  <2>1. \A e \in Elems(f) : \E d \in Elems(l) :
            /\ d.id = e.id
            /\ d.phase = e.phase \/ (d.phase = "Dispatching" /\ e.phase = "Interrupted")
    BY <1>1, RecoverFine
  <2>2. \A id : Has(l, id) => Has(f, id)
    BY <1>1, RecoverFine
  <2> QED
    BY <2>1, <2>2
<1> HIDE DEF f
<1>4. Shows(f, R)
  BY <1>2, <1>3 DEF Shows
<1> QED
  BY <1>4 DEF f, l

(* The prompts a host holds are in the rows.                               *)
LEMMA MatchedHas ==
    ASSUME NEW K, NEW l, NEW R, NEW x, Matched(K, l, R, x), LedgerFine(l, R)
    PROVE  \A id \in K : id \notin Named(x) /\ Has(R, id)
  BY DEF Matched, LedgerFine, Has, Over

LEMMA ShowMatched ==
    ASSUME NEW l, NEW R, Shows(l, R), NEW x, SentFine(x, R), NEW K,
           \A id \in K : id \notin Named(x) /\ Has(R, id)
    PROVE  Matched(K, l, R, x)
<1>1. ASSUME NEW id, Has(R, id)
      PROVE  Has(l, id) \/ Over(R, id)
  BY <1>1 DEF Shows, Over, Has
<1>2. ASSUME NEW q \in Elems(x)
      PROVE  Begun(l, q.id) \/ Over(R, q.id)
  <2>1. Durable(R, q.id) /\ Has(R, q.id)
    BY DEF SentFine, Durable
  <2>2. PICK y \in Elems(R) : y.id = q.id /\ y.st # "Pending"
    BY <2>1 DEF Durable, Has
  <2>3. \A e \in Elems(l) : e.id = q.id => e.phase # "Queued"
    BY <2>2 DEF Shows
  <2> QED
    BY <1>1, <2>1, <2>3 DEF Begun
<1> QED
  BY <1>1, <1>2 DEF Matched

-----------------------------------------------------------------------------
(* A commit.                                                               *)

LEMMA CommitNear ==
    ASSUME NEW c, Form(c), NEW l, NEW events
    PROVE  \A d \in Commit(c, l) \cup CommitWithEvents(c, l, events) :
              /\ Near(c, d) /\ d.s.queue = c.s.queue
              /\ d.ok \/ Kin(c, d)
<1> DEFINE Done(d) == Near(c, d) /\ d.s.queue = c.s.queue /\ (d.ok \/ Kin(c, d))
<1>1. \A w : Kin(c, w) => Done(w)
  BY DEF Kin
<1>2. \A w \in Read(c) \cup Write(c) : Kin(c, w)
  BY StoreKin
<1>3. Kin(c, Rejected(c))
  BY ResultKin
<1>4. ASSUME NEW w \in Read(c) \cup Write(c), w.ok
      PROVE  /\ Done([w EXCEPT !.rows = PlanApply(@, l), !.s.ledger = l])
             /\ Done([w EXCEPT !.rows = PlanApply(@, l), !.s.ledger = l,
                               !.s.backlog = FALSE, !.s.fault = FALSE])
  <2>1. Kin(c, w)
    BY <1>2
  <2>2. w.ok
    BY <1>4
  <2> HIDE <1>4
  <2>3. ASSUME NEW v
        PROVE  /\ Done([w EXCEPT !.rows = v, !.s.ledger = l])
               /\ Done([w EXCEPT !.rows = v, !.s.ledger = l,
                                 !.s.backlog = FALSE, !.s.fault = FALSE])
    BY <2>1, <2>2 DEF Kin, Near, Form, Healthy
  <2> QED
    BY <2>3
<1> HIDE DEF Done
<1>5. \A d \in Commit(c, l) : Done(d)
  <2> SUFFICES ASSUME NEW d \in Commit(c, l), d # Rejected(c)
               PROVE  Done(d)
    BY <1>1, <1>3
  <2>1. PICK w \in Read(c) \cup Write(c) :
           d = IF w.ok THEN [w EXCEPT !.rows = PlanApply(@, l), !.s.ledger = l] ELSE w
    BY DEF Commit
  <2> QED
    BY <1>1, <1>2, <1>4, <2>1
<1>6. \A d \in CommitWithEvents(c, l, events) : Done(d)
  <2> SUFFICES ASSUME NEW d \in CommitWithEvents(c, l, events), d # Rejected(c)
               PROVE  Done(d)
    BY <1>1, <1>3
  <2>1. PICK w \in Read(c) \cup Write(c) :
           d = IF w.ok
               THEN [w EXCEPT !.rows = PlanApply(@, l), !.s.ledger = l,
                              !.s.backlog = FALSE, !.s.fault = FALSE]
               ELSE w
    BY DEF CommitWithEvents
  <2> QED
    BY <1>1, <1>2, <1>4, <2>1
<1> QED
  BY <1>5, <1>6 DEF Done

(* A commit that succeeds makes the host able to dispatch, for what is now *)
(* in the rows; one that fails changes nothing.                            *)
LEMMA CommitTold ==
    ASSUME NEW k, NEW m, NEW K, NEW c, Told(k, m, K, c), NEW l, Committable(l, c.rows),
           NEW events
    PROVE  \A d \in Commit(c, l) \cup CommitWithEvents(c, l, events) :
              /\ Told(k, m, K, d) /\ d.s.queue = c.s.queue
              /\ d.ok => /\ Told(k, "any", {}, d)
                         /\ d.s.ledger = l /\ LedgerFine(l, d.rows) /\ Mirrors(l, d.rows)
<1> SUFFICES ASSUME NEW d \in Commit(c, l) \cup CommitWithEvents(c, l, events)
             PROVE  /\ Told(k, m, K, d) /\ d.s.queue = c.s.queue
                    /\ d.ok => /\ Told(k, "any", {}, d)
                               /\ d.s.ledger = l /\ LedgerFine(l, d.rows) /\ Mirrors(l, d.rows)
  OBVIOUS
<1>1. Form(c) /\ Good(c.rows, {}, c)
  BY FineGood DEF Told
<1>2. Near(c, d) /\ d.s.queue = c.s.queue /\ (d.ok \/ Kin(c, d))
  BY <1>1, CommitNear
<1>3. /\ Good(c.rows, {}, d)
      /\ d.ok => d.s.ledger = l /\ LedgerFine(l, d.rows) /\ Mirrors(l, d.rows)
  <2>1. CASE d \in Commit(c, l)
    BY <1>1, <2>1, CommitGood
  <2>2. CASE d \in CommitWithEvents(c, l, events)
    BY <1>1, <2>2, CommitWithEventsGood
  <2> QED
    BY <2>1, <2>2
<1>4. Fine(d) /\ Keeps(c.rows, d.rows)
  BY <1>3 DEF Good
<1>5. CASE Kin(c, d) /\ ~d.ok
  BY <1>2, <1>4, <1>5, KinTold
<1>6. CASE d.ok
  <2>1. d.s.ledger = l /\ LedgerFine(l, d.rows) /\ Mirrors(l, d.rows)
    BY <1>3, <1>6
  <2>2. Shows(d.s.ledger, d.rows)
    BY <2>1, MirrorsShow DEF LedgerFine
  <2>3. SentFine(d.sent, d.rows) /\ d.sent = c.sent
    BY <1>2, <1>4 DEF Fine, Near
  <2>4. Serves(m, d) => Matched(K, d.s.ledger, d.rows, d.sent)
    <3> SUFFICES ASSUME Serves(m, d)
                 PROVE  Matched(K, d.s.ledger, d.rows, d.sent)
      OBVIOUS
    <3>1. Matched(K, c.s.ledger, c.rows, c.sent) /\ LedgerFine(c.s.ledger, c.rows)
      BY <1>2, NearServes DEF Told, Fine, SessionFine
    <3>2. \A id \in K : id \notin Named(c.sent) /\ Has(c.rows, id)
      BY <3>1, MatchedHas
    <3>3. \A id \in K : id \notin Named(d.sent) /\ Has(d.rows, id)
      BY <1>4, <2>3, <3>2, KeepsHas
    <3> QED
      BY <2>2, <2>3, <3>3, ShowMatched
  <2>5. Matched({}, d.s.ledger, d.rows, d.sent)
    BY <2>2, <2>3, ShowMatched
  <2>6. Told(k, m, K, d)
    BY <1>2, <1>4, <2>4, NearTold
  <2>7. Told(k, "any", {}, d)
    BY <2>5, <2>6 DEF Told
  <2> QED
    BY <1>2, <2>1, <2>6, <2>7
<1> QED
  BY <1>2, <1>5, <1>6

LEMMA CommitReady ==
    ASSUME NEW k, NEW m, NEW A, NEW c, Ready(k, m, A, c), NEW l, Committable(l, c.rows),
           NEW events
    PROVE  \A d \in Commit(c, l) \cup CommitWithEvents(c, l, events) : Ready(k, m, A, d)
<1> DEFINE K == A \cup Named(c.s.queue)
<1>1. Told(k, m, K, c)
  BY DEF Ready
<1>2. \A d : Told(k, m, K, d) /\ d.s.queue = c.s.queue => Ready(k, m, A, d)
  BY DEF Ready
<1> HIDE DEF K
<1>3. \A d \in Commit(c, l) \cup CommitWithEvents(c, l, events) :
         Told(k, m, K, d) /\ d.s.queue = c.s.queue
  BY <1>1, CommitTold
<1> QED
  BY <1>2, <1>3

(* What a handler keeps, it keeps for the queue when it leaves that alone. *)
LEMMA SameReady ==
    ASSUME NEW k, NEW m, NEW A, NEW c, Ready(k, m, A, c), NEW S,
           \A K : Told(k, m, K, c) =>
                     \A d \in S : Told(k, m, K, d) /\ d.s.queue = c.s.queue
    PROVE  \A d \in S : Ready(k, m, A, d)
<1> DEFINE K == A \cup Named(c.s.queue)
<1>1. Told(k, m, K, c)
  BY DEF Ready
<1>2. \A d : Told(k, m, K, d) /\ d.s.queue = c.s.queue => Ready(k, m, A, d)
  BY DEF Ready
<1> HIDE DEF K
<1> QED
  BY <1>1, <1>2

-----------------------------------------------------------------------------
(* The end of a turn.                                                      *)

(* The session of c with another turn. *)
LEMMA IdleTold ==
    ASSUME NEW k, NEW m, NEW K, NEW c, Told(k, m, K, c)
    PROVE  /\ Told(k, m, K, [c EXCEPT !.s.active = None])
           /\ [c EXCEPT !.s.active = None].s.queue = c.s.queue
<1>1. Form(c) /\ Good(c.rows, {}, c)
  BY FineGood DEF Told
<1> DEFINE d == [c EXCEPT !.s.active = None]
<1>2. Good(c.rows, {}, d)
  BY <1>1, IdleGood
<1>3. Kin(c, d)
  BY <1>1, FieldsKin
<1> HIDE DEF d
<1>4. Told(k, m, K, d) /\ d.s.queue = c.s.queue
  BY <1>2, <1>3, KinTold DEF Good, Kin
<1> QED
  BY <1>4 DEF d

LEMMA FinalizeTold ==
    ASSUME NEW k, NEW m, NEW K, NEW c, Told(k, m, K, c)
    PROVE  \A d \in Finalize(c) : Told(k, m, K, d) /\ d.s.queue = c.s.queue
<1> SUFFICES ASSUME NEW d \in Finalize(c), c.s.active # None, c.s.active.term # None
             PROVE  Told(k, m, K, d) /\ d.s.queue = c.s.queue
  BY DEF Finalize
<1> DEFINE l == IF c.s.active.term = "failed"
                THEN MarkInterrupted(c.s.ledger, c.s.active.id)
                ELSE MarkCompleted(c.s.ledger, c.s.active.id)
           events == TRUE
<1>0. Good(c.rows, {}, c)
  BY FineGood DEF Told
<1>1. Committable(l, c.rows)
  <2>1. Committable(c.s.ledger, c.rows) /\ Durable(c.rows, c.s.active.id)
    BY <1>0, GoodFacts
  <2> QED
    BY <2>1, MarkInterruptedFine, MarkCompletedFine
<1>2. PICK e \in CommitWithEvents(c, l, events) :
         d \in IF e.ok THEN {[e EXCEPT !.s.active = None]}
               ELSE IF e.s.backlog THEN {e} ELSE MaybeLog(e)
  BY DEF Finalize
<1> HIDE DEF l, events
<1>3. Told(k, m, K, e) /\ e.s.queue = c.s.queue
  BY <1>1, CommitTold
<1>4. d = [e EXCEPT !.s.active = None] \/ d = e \/ d \in MaybeLog(e)
  BY <1>2
<1>5. CASE d = [e EXCEPT !.s.active = None]
  BY <1>3, <1>5, IdleTold
<1>6. CASE d = e
  BY <1>3, <1>6
<1>7. CASE d \in MaybeLog(e)
  BY <1>3, <1>7, RestTold
<1> QED
  BY <1>4, <1>5, <1>6, <1>7

LEMMA FinalizeReady ==
    ASSUME NEW k, NEW m, NEW A, NEW c, Ready(k, m, A, c)
    PROVE  \A d \in Finalize(c) : Ready(k, m, A, d)
  BY SameReady, FinalizeTold

LEMMA InterruptActiveReady ==
    ASSUME NEW k, NEW m, NEW A, NEW c, Ready(k, m, A, c)
    PROVE  \A d \in InterruptActive(c) : Ready(k, m, A, d)
<1> SUFFICES ASSUME NEW d \in InterruptActive(c)
             PROVE  Ready(k, m, A, d)
  OBVIOUS
<1>1. CASE c.s.active = None
  BY <1>1, RestReady DEF InterruptActive
<1>2. CASE c.s.active # None /\ c.s.active.term # None
  <2>1. PICK e \in Finalize(c) : d = [e EXCEPT !.ok = e.s.active = None]
    BY <1>2 DEF InterruptActive
  <2>2. Ready(k, m, A, e)
    BY FinalizeReady
  <2> DEFINE v == e.s.active = None
  <2>3. d = [e EXCEPT !.ok = v]
    BY <2>1
  <2> HIDE DEF v
  <2> QED
    BY <2>2, <2>3, FieldsReady
<1>3. CASE c.s.active # None /\ c.s.active.term = None
  <2> DEFINE l == MarkInterrupted(c.s.ledger, c.s.active.id)
  <2>0. Good(c.rows, {}, c)
    BY FineGood, ReadyForm
  <2>1. Committable(l, c.rows)
    <3>1. Committable(c.s.ledger, c.rows) /\ Durable(c.rows, c.s.active.id)
      BY <1>3, <2>0, GoodFacts
    <3> QED
      BY <3>1, MarkInterruptedFine
  <2>2. PICK e \in Commit(c, l) : d = IF e.ok THEN [e EXCEPT !.s.active = None] ELSE e
    BY <1>3 DEF InterruptActive
  <2> HIDE DEF l
  <2>3. Ready(k, m, A, e)
    BY <2>1, CommitReady
  <2> QED
    BY <2>2, <2>3, FieldsReady
<1> QED
  BY <1>1, <1>2, <1>3

-----------------------------------------------------------------------------
(* Dispatch.                                                               *)

(* The prompt is handed to the agent, for the first time: then no other    *)
(* host has one.                                                           *)
LEMMA DeliveredTold ==
    ASSUME NEW k, NEW m, NEW K, NEW c, Told(k, m, K, c), NEW q, Durable(c.rows, q.id),
           c.alive, ~c.crashed, q.id \notin Named(c.sent), q.id \notin K,
           Begun(c.s.ledger, q.id) \/ Over(c.rows, q.id)
    PROVE  LET d == [c EXCEPT !.sent = Append(@, q)]
           IN Told(k, m, K, d) /\ d.s.queue = c.s.queue
<1> DEFINE d == [c EXCEPT !.sent = Append(@, q)]
<1>1. /\ Form(c) /\ Fine(c) /\ Good(c.rows, {}, c)
      /\ Distinct(c.sent) /\ IsList(c.sent)
  BY FineGood DEF Told, Fine, SentFine
<1>2. Good(c.rows, {}, d) /\ d.rows = c.rows /\ d.s = c.s
  BY <1>1, DeliveredGood
<1>3. /\ d.sent = Append(c.sent, q) /\ d.agents = c.agents /\ d.alive = c.alive
      /\ d.crashed = c.crashed /\ d.run = c.run /\ d.host = c.host /\ Form(d)
  BY <1>1 DEF Form
<1> HIDE DEF d
<1>4. Elems(d.sent) = Elems(c.sent) \cup {q}
  BY <1>1, <1>3, AppendList
<1>5. Distinct(d.sent)
  BY <1>1, <1>3, MoreDistinct DEF Named
<1>6. Apart(k, d)
  BY <1>3 DEF Told, Apart
<1>7. Serves(m, d) => Serves(m, c)
  BY <1>2, <1>3 DEF Serves, Healthy
<1>8. Matched(K, c.s.ledger, c.rows, c.sent) => Matched(K, d.s.ledger, d.rows, d.sent)
  BY <1>2, <1>4 DEF Matched, Named
<1>9. Told(k, m, K, d)
  BY <1>2, <1>3, <1>5, <1>6, <1>7, <1>8 DEF Told, Good
<1> QED
  BY <1>2, <1>9 DEF d

LEMMA BeginTold ==
    ASSUME NEW k, NEW m, NEW K, NEW c, Told(k, m, K, c), NEW q, Durable(c.rows, q.id),
           c.alive /\ ~c.crashed =>
              /\ q.id \notin Named(c.sent) /\ q.id \notin K
              /\ Begun(c.s.ledger, q.id) \/ Over(c.rows, q.id)
    PROVE  \A d \in Begin(c, q) : Told(k, m, K, d) /\ d.s.queue = c.s.queue
<1> DEFINE begun == [c EXCEPT !.ok = TRUE, !.s.active = Active(q.id, None), !.s.chan = None]
           retained(d) == [d EXCEPT !.s.active = Active(q.id, "failed"), !.s.chan = None]
           delivered(d) == [d EXCEPT !.sent = Append(@, q)]
           failed(d) == {Rejected(e) : e \in Finalize(retained(d))}
           Fair(d) == Told(k, m, K, d) /\ d.s.queue = c.s.queue /\ d.rows = c.rows
           Pure(d) == /\ Kin(c, d) /\ Good(c.rows, {}, d)
                      /\ d.alive = c.alive /\ d.crashed = c.crashed
<1>0. Form(c) /\ Shape(c) /\ Good(c.rows, {}, c)
  BY FineGood DEF Told, Fine
<1>1. ASSUME NEW d, Kin(c, d), Good(c.rows, {}, d)
      PROVE  Fair(d)
  BY <1>1, KinTold DEF Kin, Good
<1>2. ASSUME NEW d, Pure(d), c.alive, ~c.crashed
      PROVE  Fair(delivered(d))
  <2>1. Told(k, m, K, d) /\ d.rows = c.rows /\ d.s.queue = c.s.queue
    BY <1>1, <1>2
  <2>2. /\ d.alive /\ ~d.crashed /\ d.sent = c.sent /\ d.s.ledger = c.s.ledger
    BY <1>2 DEF Kin, Near
  <2>3. /\ Durable(d.rows, q.id) /\ q.id \notin Named(d.sent) /\ q.id \notin K
        /\ Begun(d.s.ledger, q.id) \/ Over(d.rows, q.id)
    BY <1>2, <2>1, <2>2
  <2>4. Told(k, m, K, delivered(d)) /\ delivered(d).s.queue = d.s.queue
    BY <2>1, <2>2, <2>3, DeliveredTold
  <2>5. delivered(d).rows = d.rows
    BY <1>2 DEF Kin, Near, Form
  <2> QED
    BY <2>1, <2>4, <2>5
<1>3. Pure(begun)
  <2>1. /\ Shape(begun) /\ begun.rows = c.rows /\ begun.sent = c.sent
        /\ begun.s.ledger = c.s.ledger /\ begun.s.queue = c.s.queue
        /\ begun.s.pending = c.s.pending /\ begun.s.active = Active(q.id, None)
    BY <1>0 DEF Shape
  <2>2. begun.alive = c.alive /\ begun.crashed = c.crashed
    OBVIOUS
  <2>3. Kin(c, begun)
    BY <1>0, FieldsKin
  <2> HIDE DEF begun
  <2>4. Good(c.rows, {}, begun)
    BY <1>0, <2>1, TurnGood
  <2> QED
    BY <2>2, <2>3, <2>4
<1>4. ASSUME NEW d, Fair(d)
      PROVE  \A e \in failed(d) : Told(k, m, K, e) /\ e.s.queue = c.s.queue
  <2> DEFINE r == retained(d)
  <2>1. Form(d) /\ Shape(d) /\ Good(d.rows, {}, d) /\ Durable(d.rows, q.id)
    BY <1>4, FineGood DEF Told, Fine
  <2>2. /\ Shape(r) /\ r.rows = d.rows /\ r.sent = d.sent
        /\ r.s.ledger = d.s.ledger /\ r.s.queue = d.s.queue
        /\ r.s.pending = d.s.pending /\ r.s.active = Active(q.id, "failed")
    BY <2>1 DEF Shape
  <2>3. Kin(d, r)
    BY <2>1, FieldsKin
  <2> HIDE DEF r
  <2>4. Good(d.rows, {}, r)
    BY <2>1, <2>2, TurnGood
  <2>5. Told(k, m, K, r) /\ r.s.queue = c.s.queue
    BY <1>4, <2>2, <2>3, <2>4, KinTold DEF Good
  <2>6. \A e \in Finalize(r) : Told(k, m, K, e) /\ e.s.queue = c.s.queue
    BY <2>5, FinalizeTold
  <2>7. \A e \in Finalize(r) : Told(k, m, K, Rejected(e)) /\ Rejected(e).s.queue = c.s.queue
    BY <2>6, RestTold
  <2> QED
    BY <2>7 DEF r
<1>5. \A d \in Faulty(c) : Pure(d)
  <2>1. \A d \in Faulty(c) : Kin(c, d) /\ Good(c.rows, {}, d)
    BY <1>0, ResultKin, AlikeAll
  <2>2. \A d \in Faulty(c) : d.alive = c.alive /\ d.crashed = c.crashed
    BY <1>0 DEF Faulty, Form
  <2> QED
    BY <2>1, <2>2
<1>6. Fair(c) /\ Fair(Crashed(c))
  <2>1. Kin(c, Crashed(c)) /\ Good(c.rows, {}, Crashed(c))
    BY <1>0, ResultKin, AlikeAll
  <2>2. Kin(c, c)
    BY <1>0, ResultKin
  <2> QED
    BY <1>0, <1>1, <2>1, <2>2
<1> SUFFICES ASSUME NEW d \in Begin(c, q)
             PROVE  Told(k, m, K, d) /\ d.s.queue = c.s.queue
  OBVIOUS
<1> DEFINE failures == IF c.alive THEN UNION {{e, delivered(e)} : e \in Faulty(c)} ELSE {c}
<1>7. \/ d = c \/ d = Crashed(c)
      \/ ~c.crashed /\ c.alive /\ d = delivered(begun)
      \/ d = begun
      \/ ~c.crashed /\ \E e \in failures : d \in failed(e)
  BY DEF Begin
<1>8. ASSUME ~c.crashed
      PROVE  \A e \in failures : Fair(e)
  <2> HIDE DEF delivered, Fair, Pure
  <2>1. \A e : Pure(e) => Fair(e)
    BY <1>1 DEF Pure
  <2> QED
    BY <1>2, <1>5, <1>6, <1>8, <2>1
<1>9. Fair(begun)
  BY <1>1, <1>3
<1> HIDE DEF begun, delivered, failed, failures
<1> QED
  BY <1>2, <1>3, <1>4, <1>6, <1>7, <1>8, <1>9

(* The prompt q is taken out of the queue, unless its intent could not be  *)
(* made durable.                                                           *)
LEMMA DispatchQueuedTold ==
    ASSUME NEW k, NEW m, NEW K, NEW q, NEW c, Told(k, m, K \cup {q.id}, c), q.id \notin K,
           Known(c.s.ledger, c.rows, q.id), Healthy(c)
    PROVE  \A d \in DispatchQueued(c, q) :
              /\ d.s.queue = c.s.queue
              /\ IF d.ok THEN Told(k, m, K, d) ELSE Told(k, m, K \cup {q.id}, d)
<1> DEFINE L == K \cup {q.id}
           l == MarkDispatching(c.s.ledger, q.id)
           Out(d) == d.s.queue = c.s.queue /\ IF d.ok THEN Told(k, m, K, d) ELSE Told(k, m, L, d)
<1>0. Told(k, m, L, c) /\ Good(c.rows, {}, c) /\ K \subseteq L /\ q.id \in L
  BY FineGood DEF Told
<1>1. /\ Committable(l, c.rows)
      /\ \A e \in Elems(l) : e.id = q.id => e.phase = "Dispatching"
      /\ Has(c.s.ledger, q.id) => Has(l, q.id)
  <2>1. Committable(c.s.ledger, c.rows)
    BY <1>0, GoodFacts
  <2> QED
    BY <2>1, MarkDispatchingFine
<1> HIDE DEF l, L
<1>2. Out(Rejected(c))
  <2>1. Told(k, m, L, Rejected(c)) /\ Rejected(c).s.queue = c.s.queue
    BY <1>0, RestTold
  <2>2. Rejected(c).ok = FALSE
    BY <1>0 DEF Rejected, Told, Form
  <2> QED
    BY <2>1, <2>2
<1>3. ASSUME NEW e \in Commit(c, l), ~e.ok
      PROVE  Out(e)
  <2>1. Told(k, m, L, e) /\ e.s.queue = c.s.queue
    BY <1>0, <1>1, CommitTold
  <2> QED
    BY <1>3, <2>1
<1>4. ASSUME NEW e \in Commit(c, l), e.ok, NEW f \in Begin(e, q)
      PROVE  Out(Accepted(f))
  <2>1. /\ Told(k, m, L, e) /\ e.s.queue = c.s.queue
        /\ e.s.ledger = l /\ LedgerFine(l, e.rows)
    BY <1>0, <1>1, <1>4, CommitTold
  <2>2. Near(c, e)
    BY <1>0, CommitNear DEF Told
  <2>3. Keeps(c.rows, e.rows)
    <3>1. Good(c.rows, {}, e)
      BY <1>0, <1>1, CommitGood
    <3> QED
      BY <3>1 DEF Good
  <2>4. Durable(e.rows, q.id)
    <3>1. CASE Has(c.s.ledger, q.id)
      <4>1. PICK x \in Elems(l) : x.id = q.id
        BY <1>1, <3>1 DEF Has
      <4>2. x.phase # "Queued"
        BY <1>1, <4>1
      <4> QED
        BY <2>1, <4>1, <4>2 DEF LedgerFine
    <3>2. CASE Durable(c.rows, q.id)
      BY <2>3, <3>2, KeepsDurable
    <3> QED
      BY <3>1, <3>2 DEF Known
  <2>5. e.alive /\ ~e.crashed =>
           /\ q.id \notin Named(e.sent) /\ q.id \notin K
           /\ Begun(e.s.ledger, q.id) \/ Over(e.rows, q.id)
    <3> SUFFICES ASSUME e.alive, ~e.crashed
                 PROVE  /\ q.id \notin Named(e.sent)
                        /\ Begun(e.s.ledger, q.id) \/ Over(e.rows, q.id)
      OBVIOUS
    <3>1. Serves(m, c) /\ e.sent = c.sent
      BY <2>2 DEF Near, Serves
    <3>2. q.id \notin Named(c.sent) /\ (Has(c.s.ledger, q.id) \/ Over(c.rows, q.id))
      BY <1>0, <3>1 DEF Told, Matched
    <3>3. Has(c.s.ledger, q.id) => Begun(e.s.ledger, q.id)
      BY <1>1, <2>1 DEF Begun
    <3> QED
      BY <2>3, <3>1, <3>2, <3>3, KeepsOver
  <2>6. Told(k, m, K, e)
    BY <1>0, <2>1, LessTold
  <2>7. Told(k, m, K, f) /\ f.s.queue = c.s.queue
    BY <2>1, <2>4, <2>5, <2>6, BeginTold
  <2>8. Told(k, m, K, Accepted(f)) /\ Accepted(f).s.queue = c.s.queue
    BY <2>7, RestTold
  <2>9. Accepted(f).ok = TRUE
    BY <2>7 DEF Accepted, Told, Form
  <2> QED
    BY <2>8, <2>9
<1> HIDE DEF Out
<1>5. \A d \in DispatchQueued(c, q) : Out(d)
  BY <1>2, <1>3, <1>4 DEF DispatchQueued, Then, l
<1> QED
  BY <1>5 DEF Out, L

LEMMA TryDispatchReady ==
    ASSUME NEW k, NEW m, NEW A, NEW c, Ready(k, m, A, c)
    PROVE  \A d \in TryDispatch(c) : Ready(k, m, A, d)
<1> SUFFICES ASSUME NEW d \in TryDispatch(c)
             PROVE  Ready(k, m, A, d)
  OBVIOUS
<1> DEFINE n == NoteExit(c)
<1>1. Ready(k, m, A, n)
  BY RestReady
<1>2. CASE d = c \/ d = n
  BY <1>1, <1>2
<1>3. ASSUME n.s.queue # <<>>, Healthy(n), NEW e \in DispatchQueued(n, Head(n.s.queue)),
             d \in IF e.ok THEN {[e EXCEPT !.s.queue = Tail(@)]} ELSE MaybeLog(e)
      PROVE  Ready(k, m, A, d)
  <2> HIDE DEF n
  <2> DEFINE t == Tail(n.s.queue)
             q == Head(n.s.queue)
             K == A \cup Named(t)
  <2>1. /\ IsList(n.s.queue) /\ Distinct(n.s.queue)
        /\ \A x \in Elems(n.s.queue) : Known(n.s.ledger, n.rows, x.id)
    BY <1>1, ReadyForm DEF Fine, SessionFine
  <2>2. /\ q \in Elems(n.s.queue) /\ Elems(n.s.queue) = Elems(t) \cup {q}
        /\ IsList(t) /\ Distinct(t)
        /\ \A x \in Elems(t) : x.id # q.id
    BY <1>3, <2>1, TailList, TailDistinct, HeadTail
  <2>3. Known(n.s.ledger, n.rows, q.id)
    BY <2>1, <2>2
  <2>4. /\ Told(k, m, A \cup Named(n.s.queue), n) /\ A \cap Named(n.s.queue) = {}
    BY <1>1 DEF Ready
  <2>5. A \cup Named(n.s.queue) = K \cup {q.id} /\ q.id \notin K /\ A \cap Named(t) = {}
    BY <2>2, <2>4 DEF Named
  <2>6. Told(k, m, K \cup {q.id}, n)
    BY <2>4, <2>5
  <2> HIDE DEF K, q
  <2>7. e.s.queue = n.s.queue /\ IF e.ok THEN Told(k, m, K, e) ELSE Told(k, m, K \cup {q.id}, e)
    BY <1>3, <2>3, <2>5, <2>6, DispatchQueuedTold DEF q
  <2>8. CASE ~e.ok
    <3>1. Ready(k, m, A, e)
      BY <2>4, <2>5, <2>7, <2>8 DEF Ready
    <3> QED
      BY <1>3, <2>8, <3>1, RestReady
  <2>9. CASE e.ok
    <3>1. d = [e EXCEPT !.s.queue = t]
      BY <1>3, <2>7, <2>9
    <3> HIDE DEF t
    <3>2. Told(k, m, K, e) /\ Form(e) /\ Fine(e)
      BY <2>7, <2>9 DEF Told
    <3>3. Near(e, d) /\ d.s.queue = t /\ d.rows = e.rows /\ d.s.ledger = e.s.ledger /\ Shape(d)
          /\ d.sent = e.sent /\ d.s.active = e.s.active /\ d.s.pending = e.s.pending
      BY <3>1, <3>2 DEF Near, Form, Healthy, Shape
    <3>4. \A x \in Elems(t) : x \in Elems(e.s.queue)
      BY <2>2, <2>7
    <3>5. SessionFine(d.s, e.rows)
      BY <2>2, <3>2, <3>3, <3>4 DEF SessionFine, Fine
    <3>6. Fine(d)
      BY <3>2, <3>3, <3>5 DEF Fine
    <3>7. Serves(m, d) => Matched(K, d.s.ledger, d.rows, d.sent)
      BY <3>2, <3>3, NearServes DEF Told
    <3>8. Told(k, m, K, d)
      BY <3>2, <3>3, <3>6, <3>7, NearTold
    <3> QED
      BY <2>5, <3>3, <3>8 DEF Ready, K
  <2> QED
    BY <2>8, <2>9
<1> QED
  BY <1>2, <1>3 DEF TryDispatch

(* The turn of the actor is over or has another one.                       *)
LEMMA KinGoodReady ==
    ASSUME NEW k, NEW m, NEW A, NEW c, Ready(k, m, A, c),
           NEW d, Kin(c, d), Good(c.rows, {}, d)
    PROVE  Ready(k, m, A, d)
  BY KinReady DEF Good

LEMMA RetryPendingReady ==
    ASSUME NEW k, NEW m, NEW A, NEW c, Ready(k, m, A, c)
    PROVE  \A d \in RetryPending(c) : Ready(k, m, A, d)
<1> SUFFICES ASSUME NEW d \in RetryPending(c), c.s.pending # None
             PROVE  Ready(k, m, A, d)
  BY DEF RetryPending
<1> DEFINE l == MarkInterrupted(c.s.ledger, c.s.pending)
<1>0. Good(c.rows, {}, c)
  BY FineGood, ReadyForm
<1>1. Committable(l, c.rows)
  <2>1. Committable(c.s.ledger, c.rows) /\ Durable(c.rows, c.s.pending)
    BY <1>0, GoodFacts
  <2> QED
    BY <2>1, MarkInterruptedFine
<1>2. PICK e \in Commit(c, l) :
         d \in IF e.ok
               THEN Anyway(Note(e), LAMBDA f :
                       TryDispatch([f EXCEPT !.s.active = None, !.s.pending = None]))
               ELSE MaybeLog(e)
  BY DEF RetryPending
<1> HIDE DEF l
<1>3. Ready(k, m, A, e)
  BY <1>1, CommitReady
<1>4. CASE d \in MaybeLog(e)
  BY <1>3, <1>4, RestReady
<1>5. ASSUME NEW f \in Note(e),
             d \in TryDispatch([f EXCEPT !.s.active = None, !.s.pending = None])
      PROVE  Ready(k, m, A, d)
  <2>1. Ready(k, m, A, f)
    BY <1>3, RestReady
  <2>2. Ready(k, m, A, [f EXCEPT !.s.active = None, !.s.pending = None])
    BY <2>1, FieldsReady
  <2> QED
    BY <1>5, <2>2, TryDispatchReady
<1> QED
  BY <1>2, <1>4, <1>5 DEF Anyway

-----------------------------------------------------------------------------
(* The drain, and the exit of the agent.                                   *)

LEMMA DrainReady ==
    ASSUME NEW k, NEW m, NEW A, NEW c, Ready(k, m, A, c)
    PROVE  \A d \in Drain(c) : Ready(k, m, A, d)
<1>1. Form(c) /\ Good(c.rows, {}, c)
  BY FineGood, ReadyForm
<1> SUFFICES ASSUME NEW d \in Drain(c)
             PROVE  Ready(k, m, A, d)
  OBVIOUS
<1>2. Good(c.rows, {}, d)
  BY <1>1, DrainGood
<1> DEFINE a == IF c.s.active = None \/ c.s.active.term # None THEN c.s.active
                ELSE [c.s.active EXCEPT !.term = Outcome(c.s.chan, c.s.active.cancel)]
<1>3. d = c \/ d = [c EXCEPT !.s.chan = None, !.s.active = a]
  BY DEF Drain
<1> HIDE DEF a
<1>4. Kin(c, d)
  <2>1. Kin(c, c)
    BY <1>1, ResultKin
  <2>2. Kin(c, [c EXCEPT !.s.chan = None, !.s.active = a])
    BY <1>1 DEF Kin, Near, Form, Healthy
  <2> QED
    BY <1>3, <2>1, <2>2
<1> QED
  BY <1>2, <1>4, KinGoodReady

LEMMA InterruptAfterExitReady ==
    ASSUME NEW k, NEW m, NEW A, NEW c, Ready(k, m, A, c), NEW id, Durable(c.rows, id)
    PROVE  \A d \in InterruptAfterExit(c, id) : Ready(k, m, A, d)
<1> SUFFICES ASSUME NEW d \in InterruptAfterExit(c, id)
             PROVE  Ready(k, m, A, d)
  OBVIOUS
<1> DEFINE l == MarkInterrupted(c.s.ledger, id)
<1>0. Good(c.rows, {}, c)
  BY FineGood, ReadyForm
<1>1. Committable(l, c.rows)
  <2>1. Committable(c.s.ledger, c.rows)
    BY <1>0, GoodFacts
  <2> QED
    BY <2>1, MarkInterruptedFine
<1>2. PICK e \in Commit(c, l) :
         d \in IF e.ok
               THEN {[f EXCEPT !.s.active = None, !.s.pending = None] : f \in Note(e)}
               ELSE MaybeLog([e EXCEPT !.s.pending = id])
  BY DEF InterruptAfterExit
<1> HIDE DEF l
<1>3. Ready(k, m, A, e) /\ Form(e) /\ Good(e.rows, {}, e)
  BY <1>1, CommitReady, ReadyForm, FineGood
<1>4. ASSUME NEW f \in Note(e), d = [f EXCEPT !.s.active = None, !.s.pending = None]
      PROVE  Ready(k, m, A, d)
  <2>1. Ready(k, m, A, f)
    BY <1>3, RestReady
  <2> QED
    BY <1>4, <2>1, FieldsReady
<1>5. CASE d \in MaybeLog([e EXCEPT !.s.pending = id])
  <2> DEFINE p == [e EXCEPT !.s.pending = id]
  <2>1. Shape(e) /\ SessionFine(e.s, e.rows)
    BY <1>3 DEF Good, Fine
  <2>2. /\ Shape(p) /\ p.rows = e.rows /\ p.sent = e.sent /\ p.s.ledger = e.s.ledger
        /\ p.s.queue = e.s.queue /\ p.s.active = e.s.active /\ p.s.pending = id
    BY <2>1 DEF Shape
  <2>3. Kin(e, p)
    BY <1>3, FieldsKin
  <2> HIDE DEF p
  <2>4. Durable(e.rows, id)
    <3>1. Good(c.rows, {}, e)
      BY <1>0, <1>1, CommitGood
    <3> QED
      BY <3>1, KeepsDurable DEF Good
  <2>5. SessionFine(p.s, e.rows)
    BY <2>1, <2>2, <2>4 DEF SessionFine
  <2>6. Good(e.rows, {}, p)
    BY <1>3, <2>2, <2>5, SessionGood
  <2>7. Ready(k, m, A, p)
    BY <1>3, <2>3, <2>6, KinGoodReady
  <2>8. d \in MaybeLog(p)
    BY <1>5 DEF p
  <2> QED
    BY <2>7, <2>8, RestReady
<1> QED
  BY <1>2, <1>4, <1>5

LEMMA ReconcileReady ==
    ASSUME NEW k, NEW m, NEW A, NEW c, Ready(k, m, A, c)
    PROVE  \A d \in Reconcile(c) : Ready(k, m, A, d)
<1> SUFFICES ASSUME NEW d \in Reconcile(c)
             PROVE  Ready(k, m, A, d)
  OBVIOUS
<1> DEFINE b == [c EXCEPT !.s.reconciled = TRUE]
           x == MarkExited(b)
<1>1. Ready(k, m, A, b)
  BY FieldsReady
<1> HIDE DEF b
<1>2. Ready(k, m, A, x)
  BY <1>1, RestReady
<1>7. PICK e \in MaybeLog(x) :
         d \in IF e.s.active = None THEN {e}
               ELSE UNION {IF e.s.active.term \in {"ok", "cancelled"} THEN {f}
                           ELSE InterruptAfterExit(f, e.s.active.id) : f \in Finalize(e)}
  BY DEF Reconcile, Anyway, b
<1> HIDE DEF x
<1>3. \/ d = e \/ d \in Finalize(e)
      \/ /\ e.s.active # None
         /\ \E f \in Finalize(e) : d \in InterruptAfterExit(f, e.s.active.id)
  BY <1>7
<1>4. Ready(k, m, A, e) /\ Good(e.rows, {}, e)
  BY <1>2, RestReady, ReadyForm, FineGood
<1>5. CASE d = e \/ d \in Finalize(e)
  BY <1>4, <1>5, FinalizeReady
<1>6. ASSUME e.s.active # None,
             NEW f \in Finalize(e), d \in InterruptAfterExit(f, e.s.active.id)
      PROVE  Ready(k, m, A, d)
  <2>1. Durable(e.rows, e.s.active.id)
    BY <1>4, <1>6, GoodFacts
  <2>2. Ready(k, m, A, f) /\ Good(e.rows, {}, f)
    BY <1>4, <1>6, FinalizeGood, FinalizeReady
  <2>3. Durable(f.rows, e.s.active.id)
    BY <2>1, <2>2, KeepsDurable DEF Good
  <2> QED
    BY <1>6, <2>2, <2>3, InterruptAfterExitReady
<1> QED
  BY <1>3, <1>5, <1>6

LEMMA PumpReady ==
    ASSUME NEW k, NEW m, NEW A, NEW c, Ready(k, m, A, c)
    PROVE  \A d \in Pump(c) : Ready(k, m, A, d)
<1> DEFINE ended(f) == IF ~f.alive /\ ~f.s.reconciled THEN Reconcile(f)
                       ELSE {IF f.alive THEN g ELSE MarkExited(g) : g \in Finalize(f)}
<1>1. \A f : Ready(k, m, A, f) => \A g \in ended(f) : Ready(k, m, A, g)
  <2> SUFFICES ASSUME NEW f, Ready(k, m, A, f), NEW g \in ended(f)
               PROVE  Ready(k, m, A, g)
    BY Zenon
  <2>1. CASE g \in Finalize(f)
    BY <2>1, FinalizeReady
  <2>2. CASE g \in Reconcile(f)
    BY <2>2, ReconcileReady
  <2>3. CASE \E h \in Finalize(f) : g = MarkExited(h)
    BY <2>3, FinalizeReady, RestReady
  <2> QED
    BY <2>1, <2>2, <2>3
<1> SUFFICES ASSUME NEW d \in Pump(c)
             PROVE  Ready(k, m, A, d)
  OBVIOUS
<1>2. PICK e \in RetryPending(c) :
         \/ d = e
         \/ \E n \in Drain(e) : \E f \in MaybeLog(n) : \E g \in ended(f) : d \in TryDispatch(g)
  BY DEF Pump, Anyway
<1> HIDE DEF ended
<1>3. Ready(k, m, A, e)
  BY RetryPendingReady
<1>4. ASSUME NEW n \in Drain(e), NEW f \in MaybeLog(n), NEW g \in ended(f), d \in TryDispatch(g)
      PROVE  Ready(k, m, A, d)
  <2>1. Ready(k, m, A, n)
    BY <1>3, DrainReady
  <2>2. Ready(k, m, A, f)
    BY <2>1, RestReady
  <2>3. Ready(k, m, A, g)
    BY <1>1, <2>2
  <2> QED
    BY <1>4, <2>3, TryDispatchReady
<1> QED
  BY <1>2, <1>3, <1>4

-----------------------------------------------------------------------------
(* The ledger is read again: the host is able to dispatch, whatever it     *)
(* knew before.                                                            *)

LEMMA LoadedReady ==
    ASSUME NEW k, NEW m, NEW A, NEW e, Ready(k, m, A, e)
    PROVE  LET l == RecoverAfterRestart(LedgerFromRows(e.rows))
               d == [e EXCEPT !.s.ledger = l, !.s.unusable = FALSE]
           IN /\ Ready(k, m, A, d) /\ Shows(l, e.rows)
              /\ d.rows = e.rows /\ d.s.ledger = l
<1> DEFINE l == RecoverAfterRestart(LedgerFromRows(e.rows))
           d == [e EXCEPT !.s.ledger = l, !.s.unusable = FALSE]
           K == A \cup Named(e.s.queue)
<1>1. Form(e) /\ Fine(e) /\ Good(e.rows, {}, e) /\ RowsFine(e.rows)
  BY FineGood, ReadyForm DEF Fine
<1>2. Shows(l, e.rows)
  BY <1>1, RecoveredShows
<1>3. Good(e.rows, {}, d) /\ d.rows = e.rows /\ d.s.ledger = l
  BY <1>1, LoadedGood
<1> HIDE DEF l
<1>4. Near(e, d) /\ d.s.queue = e.s.queue
  BY <1>1 DEF Near, Form, Healthy
<1> HIDE DEF d
<1>5. Told(k, m, K, e) /\ A \cap Named(e.s.queue) = {}
  BY DEF Ready
<1> HIDE DEF K
<1>6. Serves(m, d) => Matched(K, d.s.ledger, d.rows, d.sent)
  <2> SUFFICES ASSUME Serves(m, d)
               PROVE  Matched(K, d.s.ledger, d.rows, d.sent)
    OBVIOUS
  <2>1. Matched(K, e.s.ledger, e.rows, e.sent) /\ LedgerFine(e.s.ledger, e.rows)
    BY <1>1, <1>4, <1>5, NearServes DEF Told, Fine, SessionFine
  <2>2. \A id \in K : id \notin Named(e.sent) /\ Has(e.rows, id)
    BY <2>1, MatchedHas
  <2>3. d.sent = e.sent /\ SentFine(e.sent, e.rows)
    BY <1>1, <1>4 DEF Near, Fine
  <2> QED
    BY <1>2, <1>3, <2>2, <2>3, ShowMatched
<1>7. Told(k, m, K, d)
  BY <1>3, <1>4, <1>5, <1>6, NearTold DEF Good
<1>8. Ready(k, m, A, d)
  BY <1>4, <1>5, <1>7 DEF Ready, K
<1> QED
  BY <1>2, <1>3, <1>8 DEF d, l

LEMMA RestoredReady ==
    ASSUME NEW k, NEW m, NEW A, NEW f, Ready(k, m, A, f), NEW l, f.s.ledger = l,
           Shows(l, f.rows)
    PROVE  Ready(k, "any", {}, [f EXCEPT !.s.queue = QueueOf(l)])
<1> DEFINE q == QueueOf(l)
           d == [f EXCEPT !.s.queue = q]
           K == Named(q)
<1>1. Form(f) /\ Fine(f) /\ Good(f.rows, {}, f) /\ LedgerFine(l, f.rows) /\ IsList(l)
  BY FineGood, ReadyForm DEF Fine, SessionFine, LedgerFine, Committable
<1>2. Good(f.rows, {}, d)
  BY <1>1, RestoredGood
<1>3. \A x \in Elems(q) : \E e \in Elems(l) : e.id = x.id /\ e.phase = "Queued"
  BY <1>1, QueueOfFine
<1> HIDE DEF q
<1>4. /\ Near(f, d) /\ d.s.queue = q /\ d.rows = f.rows /\ d.s.ledger = l
      /\ d.sent = f.sent
  BY <1>1 DEF Near, Form, Healthy
<1> HIDE DEF d
<1>5. SentFine(f.sent, f.rows)
  BY <1>1 DEF Fine
<1>6. ASSUME NEW id \in K
      PROVE  id \notin Named(f.sent) /\ Has(f.rows, id)
  <2>1. PICK e \in Elems(l) : e.id = id /\ e.phase = "Queued"
    BY <1>3 DEF Named
  <2>2. Has(f.rows, id)
    BY <1>1, <2>1 DEF LedgerFine
  <2>3. \A x \in Elems(f.rows) : x.id = id => x.st = "Pending"
    BY <2>1 DEF Shows
  <2>4. ~Durable(f.rows, id)
    BY <2>2, <2>3 DEF Durable, Has
  <2> QED
    BY <1>5, <2>2, <2>4 DEF Named, SentFine, Durable
<1>7. Matched(K, l, f.rows, f.sent)
  BY <1>5, <1>6, ShowMatched
<1>8. Told(k, "any", K, d)
  <2>1. Distinct(d.sent) /\ d.s.path = TRUE /\ Form(d) /\ Apart(k, d)
    BY <1>4 DEF Ready, Told, Near, Apart
  <2> QED
    BY <1>2, <1>4, <1>7, <2>1 DEF Told, Good
<1>9. {} \cup Named(d.s.queue) = K
  BY <1>4
<1>10. Ready(k, "any", {}, d)
  BY <1>8, <1>9 DEF Ready
<1> QED
  BY <1>10 DEF d, q

LEMMA RecoverReady ==
    ASSUME NEW k, NEW m, NEW c, Ready(k, m, {}, c)
    PROVE  \A d \in Recover(c) \cup AdoptStored(c) :
              Ready(k, m, {}, d) /\ (d.ok => Ready(k, "any", {}, d))
<1> DEFINE ledger(e) == RecoverAfterRestart(LedgerFromRows(e.rows))
           loaded(e) == [e EXCEPT !.s.ledger = ledger(e), !.s.unusable = FALSE]
           restored(e, f) == [f EXCEPT !.s.queue = QueueOf(ledger(e))]
           noted(e, f) == IF f.ok THEN Note(restored(e, f)) ELSE {f}
           committed(e) == UNION {noted(e, f) : f \in Commit(loaded(e), ledger(e))}
           after(e) == IF ledger(e) = LedgerFromRows(e.rows)
                       THEN {restored(e, loaded(e))} ELSE committed(e)
           readAgain(r) == UNION {IF e.ok THEN after(e) ELSE {e} : e \in Read(r)}
           rest(r) == IF r.s.pending # None \/ r.s.active # None THEN {Rejected(r)}
                      ELSE readAgain(r)
           Better(d) == Ready(k, m, {}, d) /\ (d.ok => Ready(k, "any", {}, d))
<1>1. Recover(c) = UNION {rest(r) : r \in RetryPending(c)}
  BY DEF Recover, Anyway, Then
<1>2. \A e : Ready(k, m, {}, e) =>
                 /\ Ready(k, m, {}, loaded(e)) /\ Shows(ledger(e), e.rows)
                 /\ loaded(e).rows = e.rows /\ loaded(e).s.ledger = ledger(e)
  BY LoadedReady
<1> HIDE DEF loaded, ledger
<1>3. \A e, f : Ready(k, m, {}, f) /\ f.s.ledger = ledger(e) /\ Shows(ledger(e), f.rows)
                   => Ready(k, "any", {}, restored(e, f))
  BY RestoredReady
<1> HIDE DEF restored
<1>4. ASSUME NEW e, Ready(k, m, {}, e), NEW g \in committed(e)
      PROVE  Better(g)
  <2> DEFINE b == loaded(e)
             l == ledger(e)
  <2>1. Ready(k, m, {}, b) /\ b.rows = e.rows /\ b.s.ledger = l
    BY <1>2, <1>4
  <2>2. PICK f \in Commit(b, l) : g \in noted(e, f)
    BY <1>4
  <2> HIDE DEF b, l
  <2>3. Good(b.rows, {}, b)
    BY <2>1, ReadyForm, FineGood
  <2>4. Committable(l, b.rows)
    BY <2>1, <2>3, GoodFacts
  <2>5. Ready(k, m, {}, f)
    BY <2>1, <2>4, CommitReady
  <2>6. CASE ~f.ok
    BY <2>2, <2>5, <2>6
  <2>7. CASE f.ok
    <3>1. f.s.ledger = l /\ LedgerFine(l, f.rows) /\ Mirrors(l, f.rows)
      BY <2>3, <2>4, <2>7, CommitGood
    <3>2. Shows(l, f.rows)
      BY <3>1, MirrorsShow DEF LedgerFine
    <3>3. Ready(k, "any", {}, restored(e, f))
      BY <1>3, <2>5, <3>1, <3>2 DEF l
    <3>4. g \in Note(restored(e, f))
      BY <2>2, <2>7
    <3>5. Ready(k, "any", {}, g)
      BY <3>3, <3>4, RestReady
    <3> QED
      BY <3>5, AnyReady
  <2> QED
    BY <2>6, <2>7
<1> HIDE DEF committed
<1>5. ASSUME NEW e, Ready(k, m, {}, e), NEW g \in after(e)
      PROVE  Better(g)
  <2>1. CASE g = restored(e, loaded(e))
    <3>1. Ready(k, "any", {}, g)
      BY <1>2, <1>3, <1>5, <2>1
    <3> QED
      BY <3>1, AnyReady
  <2>2. CASE g \in committed(e)
    BY <1>4, <1>5, <2>2
  <2> QED
    BY <1>5, <2>1, <2>2
<1> HIDE DEF after
<1>6. ASSUME NEW r, Ready(k, m, {}, r), NEW g \in readAgain(r)
      PROVE  Better(g)
  <2>1. PICK e \in Read(r) : g \in IF e.ok THEN after(e) ELSE {e}
    BY <1>6
  <2>2. Ready(k, m, {}, e)
    BY <1>6, RestReady
  <2> QED
    BY <1>5, <2>1, <2>2
<1> HIDE DEF readAgain
<1>7. ASSUME NEW r, Ready(k, m, {}, r), NEW g \in rest(r)
      PROVE  Better(g)
  <2>1. CASE g = Rejected(r)
    <3>1. Ready(k, m, {}, g)
      BY <1>7, <2>1, RestReady
    <3>2. ~g.ok
      BY <1>7, <2>1, ReadyForm DEF Rejected, Form
    <3> QED
      BY <3>1, <3>2
  <2> QED
    BY <1>6, <1>7, <2>1
<1> HIDE DEF rest
<1>8. \A d \in Recover(c) : Better(d)
  BY <1>1, <1>7, RetryPendingReady
<1>9. \A d \in AdoptStored(c) : Better(d)
  <2> SUFFICES ASSUME NEW d \in Recover(c)
               PROVE  Better(IF d.ok THEN [d EXCEPT !.s.loaded = TRUE] ELSE d)
    BY DEF AdoptStored
  <2>1. CASE d.ok
    <3>1. Ready(k, "any", {}, d)
      BY <1>8, <2>1
    <3>2. Ready(k, "any", {}, [d EXCEPT !.s.loaded = TRUE])
      BY <3>1, FieldsReady
    <3> QED
      BY <2>1, <3>2, AnyReady
  <2> QED
    BY <1>8, <2>1
<1> QED
  BY <1>8, <1>9

-----------------------------------------------------------------------------
(* The agent is released with the queue held aside: nothing of it is       *)
(* dispatched on the way.                                                  *)

LEMMA BackReady ==
    ASSUME NEW k, NEW m, NEW q, IsList(q), Distinct(q),
           NEW d, Ready(k, m, Named(q), d), Good(d.rows, Named(q), d)
    PROVE  Ready(k, m, {}, [d EXCEPT !.s.queue = q])
<1> DEFINE e == [d EXCEPT !.s.queue = q]
           J == {} \cup Named(q)
<1>1. Form(d) /\ Good(d.rows, J, d)
  BY ReadyForm
<1>2. Good(d.rows, {}, e)
  BY <1>1, BackGood DEF Named
<1>3. /\ Near(d, e) /\ e.s.queue = q /\ e.rows = d.rows /\ e.s.ledger = d.s.ledger
  BY <1>1 DEF Near, Form, Healthy
<1> HIDE DEF e
<1> DEFINE K == Named(q)
<1>4. Told(k, m, K \cup Named(d.s.queue), d)
  BY DEF Ready
<1> HIDE DEF K
<1>5. Told(k, m, K, d)
  BY <1>4, LessTold
<1>6. Serves(m, e) => Matched(K, e.s.ledger, e.rows, e.sent)
  BY <1>3, <1>5, NearServes DEF Told, Near
<1>7. Told(k, m, K, e)
  BY <1>2, <1>3, <1>5, <1>6, NearTold DEF Good
<1>8. Ready(k, m, {}, e)
  BY <1>3, <1>7 DEF Ready, K
<1> QED
  BY <1>8 DEF e

LEMMA AsideReady ==
    ASSUME NEW k, NEW m, NEW c, Ready(k, m, {}, c)
    PROVE  Ready(k, m, Named(c.s.queue), [c EXCEPT !.s.queue = <<>>])
<1> DEFINE none == <<>>
           d == [c EXCEPT !.s.queue = none]
           K == Named(c.s.queue)
<1>1. Form(c) /\ Good(c.rows, {}, c)
  BY FineGood, ReadyForm
<1>2. Good(c.rows, {}, d) /\ Named(none) = {}
  BY <1>1, EmptyGood, NoList DEF Named
<1> HIDE DEF none
<1>3. /\ Near(c, d) /\ d.s.queue = none /\ d.rows = c.rows /\ d.s.ledger = c.s.ledger
  BY <1>1 DEF Near, Form, Healthy
<1> HIDE DEF d
<1>4. Told(k, m, K, c)
  BY DEF Ready
<1> HIDE DEF K
<1>5. Serves(m, d) => Matched(K, d.s.ledger, d.rows, d.sent)
  BY <1>3, <1>4, NearServes DEF Told, Near
<1>6. Told(k, m, K, d)
  BY <1>2, <1>3, <1>4, <1>5, NearTold DEF Good
<1>7. K \cup Named(d.s.queue) = K /\ K \cap Named(d.s.queue) = {}
  BY <1>2, <1>3
<1>8. Ready(k, m, K, d)
  BY <1>6, <1>7 DEF Ready
<1> QED
  BY <1>8 DEF d, K, none

LEMMA ReleaseLiveClientReady ==
    ASSUME NEW k, NEW m, NEW c, Ready(k, m, {}, c)
    PROVE  \A d \in ReleaseLiveClient(c) : Ready(k, m, {}, d)
<1> DEFINE A == Named(c.s.queue)
           aside == [c EXCEPT !.s.queue = <<>>]
           back(d) == [d EXCEPT !.s.queue = c.s.queue]
           cancelled(d) == IF d.s.active = None THEN d ELSE [d EXCEPT !.s.active.cancel = TRUE]
           answered(d) == {d} \cup IF d.alive /\ d.s.chan = None
                                   THEN {[d EXCEPT !.s.chan = a] : a \in Answers}
                                   ELSE {}
           interrupted(d) ==
               UNION {IF e.ok THEN IF d.s.active.term = None THEN Log(e) ELSE {e} ELSE {e} :
                         e \in InterruptActive(d)}
           settle(d) == IF d.s.active = None THEN {Accepted(d)} ELSE interrupted(d)
           awaiting(d) == UNION {UNION {settle(g) : g \in Pump(f)} :
                                   f \in UNION {MaybeLog(e) : e \in answered(d)}}
           asked(e) == IF e.s.active # None /\ e.s.active.term = None
                       THEN IF HasClient(e) THEN awaiting(e) ELSE {Accepted(e)}
                       ELSE InterruptActive(e)
           body(d) == IF d.s.pending # None THEN {Rejected(d)} ELSE asked(cancelled(d))
           killed(d) == IF ~HasClient(d) THEN {d} ELSE MaybeLog(Kill(d))
           released(d) == {[e EXCEPT !.s.reconciled = TRUE] : e \in killed(d)}
           settled == UNION {body(d) : d \in RetryPending(aside)}
           all == UNION {IF d.ok THEN released(d) ELSE {d} : d \in settled}
           (* Fit for the queue held aside, which stays known. *)
           Fit(d) == Ready(k, m, A, d) /\ Good(d.rows, A, d)
<1>1. ReleaseLiveClient(c) = {back(d) : d \in all}
  BY DEF ReleaseLiveClient, Then, Anyway
<1>2. Fit(aside)
  <2>1. Good(c.rows, {}, c) /\ Shape(c)
    BY FineGood, ReadyForm DEF Fine
  <2>2. Good(c.rows, {} \cup A, aside)
    BY <2>1, AsideGood DEF Named
  <2>3. aside.rows = c.rows
    BY <2>1 DEF Shape
  <2>4. {} \cup A = A
    OBVIOUS
  <2>5. Ready(k, m, A, aside)
    BY AsideReady
  <2> HIDE DEF aside, A
  <2> QED
    BY <2>2, <2>3, <2>4, <2>5
<1> HIDE DEF A, aside
<1>3. ASSUME NEW d, Fit(d), NEW e, Good(d.rows, A, e), Ready(k, m, A, e)
      PROVE  Fit(e)
  BY <1>3, GoodFacts
<1>4. \A d : Fit(d) => Form(d) /\ Shape(d) /\ Good(d.rows, {}, d)
  BY ReadyForm, FineGood DEF Fine
<1>5. \A d : Fit(d) => Fit(cancelled(d))
  <2> SUFFICES ASSUME NEW d, Fit(d), d.s.active # None
               PROVE  Fit([d EXCEPT !.s.active.cancel = TRUE])
    OBVIOUS
  <2> DEFINE e == [d EXCEPT !.s.active.cancel = TRUE]
  <2>1. Good(d.rows, A, e) /\ Good(d.rows, {}, e)
    BY <1>4, CancelledGood
  <2>2. Kin(d, e)
    BY <1>4, FieldsKin
  <2> HIDE DEF e
  <2>3. Ready(k, m, A, e)
    BY <2>1, <2>2, KinGoodReady
  <2>4. Fit(e)
    BY <1>3, <2>1, <2>3
  <2> QED
    BY <2>4 DEF e
<1>6. \A d : Fit(d) => \A e \in answered(d) : Fit(e)
  <2>1. ASSUME NEW d, Fit(d), NEW a
        PROVE  Fit([d EXCEPT !.s.chan = a])
    <3> DEFINE e == [d EXCEPT !.s.chan = a]
    <3>1. Alike(d, e)
      BY <1>4, <2>1 DEF Alike, Shape
    <3>2. Ready(k, m, A, e)
      BY <2>1, FieldsReady
    <3> HIDE DEF e
    <3>3. Fit(e)
      BY <1>3, <2>1, <3>1, <3>2, AlikeGood
    <3> QED
      BY <3>3 DEF e
  <2> SUFFICES ASSUME NEW d, Fit(d), NEW e \in answered(d)
               PROVE  Fit(e)
    BY Zenon
  <2>2. e = d \/ \E a \in Answers : e = [d EXCEPT !.s.chan = a]
    OBVIOUS
  <2> HIDE DEF Fit
  <2> QED
    BY <2>1, <2>2
<1>7. \A d : Fit(d) => /\ Fit(Accepted(d)) /\ Fit(Rejected(d)) /\ Fit(Kill(d))
                       /\ \A e \in MaybeLog(d) : Fit(e)
                       /\ \A e \in Log(d) : Fit(e)
  <2> SUFFICES ASSUME NEW d, Fit(d)
               PROVE  /\ Fit(Accepted(d)) /\ Fit(Rejected(d)) /\ Fit(Kill(d))
                      /\ \A e \in MaybeLog(d) : Fit(e)
                      /\ \A e \in Log(d) : Fit(e)
    OBVIOUS
  <2>1. \A e \in {Accepted(d), Rejected(d), Kill(d)} \cup MaybeLog(d) \cup Log(d) :
           Good(d.rows, A, e)
    BY AlikeAll
  <2>2. \A e \in {Accepted(d), Rejected(d), Kill(d)} \cup MaybeLog(d) \cup Log(d) :
           Ready(k, m, A, e)
    BY RestReady
  <2> HIDE DEF Fit
  <2> QED
    BY <1>3, <2>1, <2>2
<1>8. \A d : Fit(d) => /\ \A e \in InterruptActive(d) : Fit(e)
                       /\ \A e \in Pump(d) : Fit(e)
                       /\ \A e \in RetryPending(d) : Fit(e)
  <2> SUFFICES ASSUME NEW d, Fit(d)
               PROVE  /\ \A e \in InterruptActive(d) : Fit(e)
                      /\ \A e \in Pump(d) : Fit(e)
                      /\ \A e \in RetryPending(d) : Fit(e)
    OBVIOUS
  <2>1. \A e \in InterruptActive(d) \cup Pump(d) \cup RetryPending(d) : Good(d.rows, A, e)
    BY InterruptActiveGood, PumpGood, RetryPendingGood
  <2>2. \A e \in InterruptActive(d) \cup Pump(d) \cup RetryPending(d) : Ready(k, m, A, e)
    BY InterruptActiveReady, PumpReady, RetryPendingReady
  <2> HIDE DEF Fit
  <2> QED
    BY <1>3, <2>1, <2>2
<1>9. \A e : Fit(e) => Fit([e EXCEPT !.s.reconciled = TRUE])
  <2> SUFFICES ASSUME NEW d, Fit(d)
               PROVE  Fit([d EXCEPT !.s.reconciled = TRUE])
    OBVIOUS
  <2> DEFINE e == [d EXCEPT !.s.reconciled = TRUE]
  <2>1. Alike(d, e)
    BY <1>4 DEF Alike, Shape
  <2>2. Ready(k, m, A, e)
    BY FieldsReady
  <2> HIDE DEF e
  <2>3. Fit(e)
    BY <1>3, <2>1, <2>2, AlikeGood
  <2> QED
    BY <2>3 DEF e
<1>10. \A d : Fit(d) => Ready(k, m, {}, back(d))
  <2>1. IsList(c.s.queue) /\ Distinct(c.s.queue)
    BY ReadyForm DEF Fine, SessionFine
  <2> QED
    BY <2>1, BackReady DEF A
<1> HIDE DEF Fit, cancelled, back
<1>11. \A d : Fit(d) => \A e \in interrupted(d) : Fit(e)
  BY <1>7, <1>8
<1> HIDE DEF interrupted
<1>12. \A d : Fit(d) => \A e \in settle(d) : Fit(e)
  BY <1>7, <1>11
<1> HIDE DEF settle, answered
<1>13. \A d : Fit(d) => \A e \in awaiting(d) : Fit(e)
  <2> SUFFICES ASSUME NEW d, Fit(d), NEW a \in answered(d), NEW f \in MaybeLog(a),
                      NEW g \in Pump(f), NEW e \in settle(g)
               PROVE  Fit(e)
    OBVIOUS
  <2> QED
    BY <1>6, <1>7, <1>8, <1>12
<1> HIDE DEF awaiting
<1>14. \A d : Fit(d) => \A e \in asked(d) : Fit(e)
  BY <1>7, <1>8, <1>13
<1> HIDE DEF asked
<1>15. \A d : Fit(d) => \A e \in body(d) : Fit(e)
  BY <1>5, <1>7, <1>14
<1>16. \A d : Fit(d) => \A e \in killed(d) : Fit(e)
  BY <1>7
<1> HIDE DEF body, killed
<1>17. \A d : Fit(d) => \A e \in released(d) : Fit(e)
  BY <1>9, <1>16
<1> HIDE DEF released
<1>18. \A d \in settled : Fit(d)
  BY <1>2, <1>8, <1>15
<1> HIDE DEF settled
<1>19. \A d \in all : Fit(d)
  BY <1>17, <1>18
<1> HIDE DEF all
<1> QED
  BY <1>1, <1>10, <1>19

-----------------------------------------------------------------------------
(* A new agent.                                                            *)

(* A handler that succeeds has made the host able to dispatch.             *)
Better(k, m, c) == Ready(k, m, {}, c) /\ (c.ok => Ready(k, "any", {}, c))

LEMMA AnyBetter ==
    ASSUME NEW k, NEW m, NEW c, Ready(k, "any", {}, c)
    PROVE  Better(k, m, c)
  BY AnyReady DEF Better

LEMMA ReadyAgents ==
    ASSUME NEW k, NEW m, NEW A, NEW c, Ready(k, m, A, c)
    PROVE  c.agents = k.agents
  BY DEF Ready, Told, Apart

LEMMA BetterResults ==
    ASSUME NEW k, NEW m, NEW c, Ready(k, m, {}, c)
    PROVE  Better(k, m, Rejected(c))
<1>1. Ready(k, m, {}, Rejected(c))
  BY RestReady
<1>2. ~Rejected(c).ok
  BY ReadyForm DEF Rejected, Form
<1> QED
  BY <1>1, <1>2 DEF Better

(* The slot says nothing to a host that may dispatch in any.               *)
LEMMA SlotReady ==
    ASSUME NEW k, NEW c, Ready(k, "any", {}, c), NEW v
    PROVE  /\ Ready(k, "any", {}, [c EXCEPT !.s.slot = v])
           /\ Ready(k, "any", {}, [c EXCEPT !.s.slot = v, !.s.reconciled = FALSE])
<1> DEFINE K == {} \cup Named(c.s.queue)
           Moved(d) == /\ Form(d) /\ Alike(c, d) /\ Apart(k, d) /\ d.s.path = TRUE
                       /\ d.crashed = c.crashed
<1>1. Form(c) /\ Fine(c) /\ Shape(c) /\ Good(c.rows, {}, c) /\ Told(k, "any", K, c)
      /\ Apart(k, c) /\ c.s.path = TRUE
  BY FineGood, ReadyForm DEF Ready, Told, Fine
<1>2. ASSUME NEW d, Moved(d)
      PROVE  Ready(k, "any", {}, d)
  <2>0. Good(c.rows, {}, d)
    BY <1>1, <1>2, AlikeGood
  <2>1. Fine(d)
    BY <2>0 DEF Good
  <2>2. /\ d.rows = c.rows /\ d.sent = c.sent /\ d.s.ledger = c.s.ledger
        /\ d.s.queue = c.s.queue
    BY <1>2 DEF Alike
  <2>3. Told(k, "any", K, d)
    BY <1>1, <1>2, <2>1, <2>2 DEF Told, Serves
  <2> QED
    BY <2>2, <2>3 DEF Ready
<1>3. Moved([c EXCEPT !.s.slot = v])
  BY <1>1 DEF Form, Alike, Apart, Shape
<1>4. Moved([c EXCEPT !.s.slot = v, !.s.reconciled = FALSE])
  BY <1>1 DEF Form, Alike, Apart, Shape
<1> HIDE DEF Moved
<1> QED
  BY <1>2, <1>3, <1>4

(* A child of another host is refused.                                     *)
LEMMA RejectForeignReady ==
    ASSUME NEW k, NEW m, NEW c, Ready(k, m, {}, c)
    PROVE  \A d \in RejectForeignLiveChild(c) :
              Ready(k, m, {}, d) /\ (d.ok => k.agents = {})
<1> SUFFICES ASSUME NEW d \in RejectForeignLiveChild(c)
             PROVE  Ready(k, m, {}, d) /\ (d.ok => k.agents = {})
  OBVIOUS
<1>1. Ready(k, m, {}, d)
  BY RestReady
<1>2. PICK r \in Read(c) : d = IF r.ok /\ r.run.boot # c.host /\ r.run.child \in c.agents
                               THEN Rejected(r) ELSE r
  BY DEF RejectForeignLiveChild
<1>3. Ready(k, m, {}, r)
  BY RestReady
<1>4. r.host = c.host /\ r.agents = c.agents /\ r.run = c.run
  BY ReadyForm, StoreKin DEF Kin, Near
<1>5. ASSUME d.ok, k.agents # {}
      PROVE  FALSE
  <2>1. c.agents = k.agents /\ c.run.boot # c.host /\ c.run.child \in c.agents
    BY <1>5 DEF Ready, Told, Apart
  <2>2. ~d.ok
    BY <1>2, <1>3, <1>4, <2>1, ReadyForm DEF Rejected, Form
  <2> QED
    BY <1>5, <2>2
<1> QED
  BY <1>1, <1>5

(* An agent is started and recorded where no other host has one.           *)
LEMMA StagedReady ==
    ASSUME NEW k, NEW m, NEW c, Ready(k, m, {}, c), k.agents = {}
    PROVE  \A d \in RecordChild(Install(c)) : Ready(k, m, {}, d)
<1> DEFINE n == Install(c)
           K == {} \cup Named(c.s.queue)
           named(d) == [d EXCEPT !.run = [child |-> n.host, boot |-> n.host]]
<1>1. RecordChild(n) = {IF d.ok THEN named(d) ELSE d : d \in Write(n)}
  BY DEF RecordChild
<1>2. Form(c) /\ Fine(c) /\ Shape(c) /\ Good(c.rows, {}, c) /\ Told(k, m, K, c)
      /\ c.agents = {} /\ c.s.path = TRUE
  BY FineGood, ReadyForm, ReadyAgents DEF Ready, Told, Fine
<1>3. Ready(k, m, {}, n)
  <2>1. Good(c.rows, {}, n)
    BY <1>2, AlikeAll
  <2>2. /\ Form(n) /\ n.agents = {} /\ n.rows = c.rows /\ n.sent = c.sent /\ n.s.path = TRUE
        /\ n.s.ledger = c.s.ledger /\ n.s.queue = c.s.queue /\ n.crashed = c.crashed
    BY <1>2 DEF Install, Form
  <2>3. Healthy(n) /\ ~n.crashed => FALSE
    BY <1>2 DEF Install, Form, Healthy
  <2>4. Apart(k, n)
    BY <2>2 DEF Apart
  <2> HIDE DEF n
  <2>5. Serves(m, n) => Serves(m, c)
    BY <2>2, <2>3 DEF Serves
  <2>6. Told(k, m, K, n)
    BY <1>2, <2>1, <2>2, <2>4, <2>5 DEF Told, Good
  <2> QED
    BY <2>2, <2>6 DEF Ready
<1> DEFINE to == [child |-> n.host, boot |-> n.host]
<1>4. \A d : named(d) = [d EXCEPT !.run = to]
  OBVIOUS
<1> HIDE DEF n, to, named, K
<1>5. ASSUME NEW d, Ready(k, m, {}, d)
      PROVE  Ready(k, m, {}, [d EXCEPT !.run = to])
  <2> DEFINE e == [d EXCEPT !.run = to]
             L == {} \cup Named(d.s.queue)
  <2>1. Form(d) /\ Shape(d) /\ Good(d.rows, {}, d) /\ Told(k, m, L, d)
        /\ d.agents = {} /\ d.s.path = TRUE
    BY <1>5, FineGood, ReadyForm, ReadyAgents DEF Ready, Told, Fine
  <2>2. /\ Alike(d, e) /\ Form(e) /\ e.agents = {} /\ e.s = d.s /\ e.rows = d.rows
        /\ e.sent = d.sent
    BY <2>1 DEF Alike, Shape, Form
  <2>3. Serves(m, e) => Serves(m, d)
    BY <2>1 DEF Serves, Healthy, Form
  <2> HIDE DEF e, L
  <2>4. Apart(k, e)
    BY <2>2 DEF Apart
  <2>5. Fine(e)
    BY <2>1, <2>2, AlikeGood DEF Good
  <2>6. Told(k, m, L, e)
    BY <2>1, <2>2, <2>3, <2>4, <2>5 DEF Told
  <2>7. Ready(k, m, {}, e)
    BY <2>2, <2>6 DEF Ready, L
  <2> QED
    BY <2>7 DEF e
<1>6. \A d \in Write(n) : Ready(k, m, {}, d)
  BY <1>3, RestReady
<1> QED
  BY <1>1, <1>4, <1>5, <1>6 DEF n

LEMMA FinalizeMetadataReady ==
    ASSUME NEW k, NEW c, Ready(k, "any", {}, c)
    PROVE  \A d \in FinalizeMetadata(c) : Ready(k, "any", {}, d)
<1> SUFFICES ASSUME NEW d \in FinalizeMetadata(c)
             PROVE  Ready(k, "any", {}, d)
  OBVIOUS
<1>1. PICK e \in Write(c) :
         d = e \/ \E f \in MaybeLog(e) : d = [f EXCEPT !.s.slot = "live", !.s.reconciled = FALSE]
  BY DEF FinalizeMetadata, Then
<1>2. Ready(k, "any", {}, e)
  BY RestReady
<1>3. ASSUME NEW f \in MaybeLog(e), d = [f EXCEPT !.s.slot = "live", !.s.reconciled = FALSE]
      PROVE  Ready(k, "any", {}, d)
  <2>1. Ready(k, "any", {}, f)
    BY <1>2, RestReady
  <2> QED
    BY <1>3, <2>1, SlotReady
<1> QED
  BY <1>1, <1>2, <1>3

(* discard_staged_client and discard_unsaved_client. *)
LEMMA DiscardBetter ==
    ASSUME NEW k, NEW m, NEW S, \A d \in S : Better(k, m, d)
    PROVE  \A d \in Discard(S) : Better(k, m, d)
<1> SUFFICES ASSUME NEW d \in S, ~d.ok
             PROVE  Better(k, m, Kill(d))
  BY DEF Discard
<1>1. Ready(k, m, {}, Kill(d))
  BY RestReady DEF Better
<1>2. ~Kill(d).ok
  BY ReadyForm DEF Better, Kill, Form
<1> QED
  BY <1>1, <1>2 DEF Better

LEMMA InstallReplacedBetter ==
    ASSUME NEW k, NEW m, NEW c, Ready(k, m, {}, c), k.agents = {}
    PROVE  \A d \in InstallReplaced(c) : Better(k, m, d)
<1> DEFINE recorded == RecordChild(Install(c))
           recovered == UNION {IF d.ok THEN Recover(d) ELSE {d} : d \in recorded}
           final == UNION {IF d.ok THEN FinalizeMetadata(d) ELSE {d} : d \in recovered}
           begun(d) == {Accepted(e) : e \in TryDispatch(d)}
<1>1. InstallReplaced(c) = UNION {IF d.ok THEN begun(d) ELSE {d} : d \in Discard(final)}
  BY DEF InstallReplaced, Then
<1>2. \A d \in recorded : Ready(k, m, {}, d)
  BY StagedReady
<1> HIDE DEF recorded
<1>3. \A d \in recovered : Better(k, m, d)
  BY <1>2, RecoverReady DEF Better
<1> HIDE DEF recovered
<1>4. \A d \in final : Better(k, m, d)
  <2> SUFFICES ASSUME NEW d \in recovered, d.ok, NEW e \in FinalizeMetadata(d)
               PROVE  Better(k, m, e)
    BY <1>3
  <2>1. Ready(k, "any", {}, d)
    BY <1>3 DEF Better
  <2> QED
    BY <2>1, FinalizeMetadataReady, AnyBetter
<1> HIDE DEF final
<1>5. \A d \in Discard(final) : Better(k, m, d)
  BY <1>4, DiscardBetter
<1>6. \A d : Ready(k, "any", {}, d) => \A e \in begun(d) : Better(k, m, e)
  <2> SUFFICES ASSUME NEW d, Ready(k, "any", {}, d), NEW e \in TryDispatch(d)
               PROVE  Better(k, m, Accepted(e))
    BY Zenon
  <2>1. Ready(k, "any", {}, e)
    BY TryDispatchReady
  <2>2. Ready(k, "any", {}, Accepted(e))
    BY <2>1, RestReady
  <2> QED
    BY <2>2, AnyBetter
<1> HIDE DEF begun
<1> QED
  BY <1>1, <1>5, <1>6 DEF Better

(* The check for a foreign child, then the handshake with a new agent.     *)
LEMMA SpawnedReady ==
    ASSUME NEW k, NEW m, NEW S, \A d \in S : Ready(k, m, {}, d)
    PROVE  \A e \in UNION {IF d.ok THEN Spawn(d) ELSE {d} :
                             d \in UNION {IF d.ok THEN RejectForeignLiveChild(d) ELSE {d} : d \in S}} :
              Ready(k, m, {}, e) /\ (e.ok => k.agents = {})
<1> DEFINE checked == UNION {IF d.ok THEN RejectForeignLiveChild(d) ELSE {d} : d \in S}
           Freed(d) == Ready(k, m, {}, d) /\ (d.ok => k.agents = {})
<1>1. \A d \in checked : Freed(d)
  BY RejectForeignReady
<1> HIDE DEF checked
<1>2. \A d \in checked : d.ok => \A e \in Spawn(d) : Freed(e)
  BY <1>1, RestReady
<1> HIDE DEF Freed
<1>3. \A e \in UNION {IF d.ok THEN Spawn(d) ELSE {d} : d \in checked} : Freed(e)
  BY <1>1, <1>2
<1> QED
  BY <1>3 DEF checked, Freed

LEMMA ReplacedBetter ==
    ASSUME NEW k, NEW m, NEW S, \A d \in S : Ready(k, m, {}, d)
    PROVE  \A e \in UNION {IF d.ok THEN InstallReplaced(d) ELSE {d} :
              d \in UNION {IF d.ok THEN Spawn(d) ELSE {d} :
                 d \in UNION {IF d.ok THEN RejectForeignLiveChild(d) ELSE {d} : d \in S}}} :
              Better(k, m, e)
<1> DEFINE spawned == UNION {IF d.ok THEN Spawn(d) ELSE {d} :
                         d \in UNION {IF d.ok THEN RejectForeignLiveChild(d) ELSE {d} : d \in S}}
<1>1. \A d \in spawned : Ready(k, m, {}, d) /\ (d.ok => k.agents = {})
  BY SpawnedReady
<1> HIDE DEF spawned
<1>2. \A d \in spawned : ~d.ok => Better(k, m, d)
  BY <1>1 DEF Better
<1>3. \A d \in spawned : d.ok => \A e \in InstallReplaced(d) : Better(k, m, e)
  BY <1>1, InstallReplacedBetter
<1>4. \A e \in UNION {IF d.ok THEN InstallReplaced(d) ELSE {d} : d \in spawned} :
         Better(k, m, e)
  BY <1>2, <1>3
<1> QED
  BY <1>4 DEF spawned

LEMMA RespawnBetter ==
    ASSUME NEW k, NEW m, NEW c, Ready(k, m, {}, c)
    PROVE  \A d \in Respawn(c) : Better(k, m, d)
<1> DEFINE released == UNION {IF d.ok THEN ReleaseLiveClient(d) ELSE {d} : d \in Read(c)}
           checked == UNION {IF d.ok THEN RejectForeignLiveChild(d) ELSE {d} : d \in released}
           spawned == UNION {IF d.ok THEN Spawn(d) ELSE {d} : d \in checked}
           all == UNION {IF d.ok THEN InstallReplaced(d) ELSE {d} : d \in spawned}
<1>1. Respawn(c) = IF c.lost \/ ~HasClient(c) THEN {Rejected(c)} ELSE all
  BY DEF Respawn, Then
<1>2. \A d \in all : Better(k, m, d)
  <2>1. \A d \in Read(c) : Ready(k, m, {}, d)
    BY RestReady
  <2>2. \A d \in released : Ready(k, m, {}, d)
    BY <2>1, ReleaseLiveClientReady
  <2> HIDE DEF released
  <2> QED
    BY <2>2, ReplacedBetter
<1> HIDE DEF all
<1>3. Better(k, m, Rejected(c))
  BY BetterResults
<1> QED
  BY <1>1, <1>2, <1>3

(* The queue is given up, in the ledger and in the rows.                   *)
LEMMA GivenUpReady ==
    ASSUME NEW k, NEW m, NEW c, Ready(k, m, {}, c), NEW events
    PROVE  \A d \in CommitWithEvents([c EXCEPT !.s.fault = FALSE],
                                     RemoveQueued(c.s.ledger), events) :
              /\ Ready(k, m, {}, d)
              /\ d.ok => Ready(k, "any", {}, [d EXCEPT !.s.queue = <<>>])
<1> DEFINE b == [c EXCEPT !.s.fault = FALSE]
           l == RemoveQueued(c.s.ledger)
           none == <<>>
<1>1. Ready(k, m, {}, b) /\ Good(c.rows, {}, c)
  BY FieldsReady, ReadyForm, FineGood
<1>2. b.rows = c.rows
  BY ReadyForm DEF Form
<1>3. Committable(l, b.rows)
  BY <1>1, <1>2, GoodFacts, RemoveQueuedFine
<1> HIDE DEF b, l
<1>4. \A d \in CommitWithEvents(b, l, events) : Ready(k, m, {}, d)
  BY <1>1, <1>3, CommitReady
<1>5. ASSUME NEW d \in CommitWithEvents(b, l, events), d.ok
      PROVE  Ready(k, "any", {}, [d EXCEPT !.s.queue = none])
  <2> DEFINE K == {} \cup Named(b.s.queue)
             e == [d EXCEPT !.s.queue = none]
             empty == {}
  <2>1. Told(k, m, K, b)
    BY <1>1 DEF Ready
  <2> HIDE DEF K
  <2>2. Told(k, "any", empty, d)
    BY <1>3, <1>5, <2>1, CommitTold
  <2>3. Named(none) = empty
    BY NoList DEF Named
  <2>4. Form(d) /\ Good(d.rows, {}, d)
    BY <2>2, FineGood DEF Told
  <2>5. Good(d.rows, {}, e)
    BY <2>4, EmptyGood
  <2> HIDE DEF empty, none
  <2>6. /\ Near(d, e) /\ e.s.queue = none /\ e.rows = d.rows /\ e.s.ledger = d.s.ledger
        /\ e.sent = d.sent
    BY <2>4 DEF Near, Form, Healthy
  <2> HIDE DEF e
  <2>7. Serves("any", e) => Matched(empty, e.s.ledger, e.rows, e.sent)
    BY <2>2, <2>6, NearServes DEF Told
  <2>8. Told(k, "any", empty, e)
    BY <2>2, <2>5, <2>6, <2>7, NearTold DEF Good
  <2>9. empty \cup Named(e.s.queue) = empty /\ empty \cap Named(e.s.queue) = {} /\ empty = {}
    BY <2>3, <2>6 DEF empty
  <2>10. Ready(k, "any", {}, e)
    BY <2>8, <2>9 DEF Ready
  <2> QED
    BY <2>10 DEF e
<1> QED
  BY <1>4, <1>5 DEF b, l, none

LEMMA SwitchBetter ==
    ASSUME NEW k, NEW m, NEW c, Ready(k, m, {}, c)
    PROVE  \A d \in Switch(c) : Better(k, m, d)
<1> DEFINE events == FALSE
           given(d) == CommitWithEvents([d EXCEPT !.s.fault = FALSE],
                                        RemoveQueued(d.s.ledger), events)
           out(e) == ReleaseLiveClient([e EXCEPT !.s.queue = <<>>])
           saved(e) == UNION {IF f.ok THEN Write(f) ELSE {f} : f \in out(e)}
           retire(d) == UNION {IF e.ok THEN saved(e) ELSE {e} : e \in given(d)}
           kept(d) == UNION {IF e.ok THEN Write(e) ELSE {e} : e \in retire(d)}
           logged(d) == UNION {IF e.ok THEN Log(e) ELSE {e} : e \in kept(d)}
           spawned(d) == UNION {IF e.ok THEN Discard(RecordChild(Install(e))) ELSE {e} :
                                   e \in logged(d)}
           up(f) == MaybeLog([f EXCEPT !.s.slot = "live"])
           replaced(e) == UNION {IF f.ok THEN up(f) ELSE {f} : f \in spawned(e)}
           tried(d) == UNION {IF e.ok THEN replaced(e) ELSE {Rejected(f) : f \in Log(e)} :
                                 e \in Spawn(d)}
           Free(d) == Ready(k, m, {}, d) /\ k.agents = {}
           Any(d) == Ready(k, "any", {}, d)
           Done(d) == Better(k, m, d)
<1>1. Switch(c) = UNION {IF d.ok THEN tried(d) ELSE {d} : d \in RejectForeignLiveChild(c)}
  BY DEF Switch, Then
<1>2. \A d : Free(d) => \A e \in given(d) :
                IF e.ok THEN Any([e EXCEPT !.s.queue = <<>>]) ELSE Done(e)
  <2> HIDE DEF events
  <2> QED
    BY GivenUpReady DEF Better
<1> HIDE DEF given, events
<1>3. \A e : Any([e EXCEPT !.s.queue = <<>>]) => \A f \in saved(e) : Done(f)
  <2> SUFFICES ASSUME NEW e, Any([e EXCEPT !.s.queue = <<>>]), NEW f \in out(e)
               PROVE  Done(f) /\ \A g \in Write(f) : Done(g)
    OBVIOUS
  <2>1. Any(f)
    BY ReleaseLiveClientReady
  <2>2. \A g \in Write(f) : Any(g)
    BY <2>1, RestReady
  <2> QED
    BY <2>1, <2>2, AnyBetter
<1> HIDE DEF saved
<1>4. \A d : Free(d) => \A e \in retire(d) : Done(e)
  <2> HIDE DEF Free, Any, Done
  <2> QED
    BY <1>2, <1>3
<1> HIDE DEF retire
<1>5. \A d : Done(d) /\ d.ok => Any(d)
  BY DEF Better
<1>6. \A d : Any(d) => Done(d)
  BY AnyBetter
<1>7. \A d : Any(d) => \A e \in Write(d) \cup Log(d) \cup MaybeLog(d) : Any(e)
  BY RestReady
<1>8. \A d : Free(d) => \A e \in kept(d) : Done(e)
  <2> HIDE DEF Free, Any, Done
  <2> QED
    BY <1>4, <1>5, <1>6, <1>7
<1> HIDE DEF kept
<1>9. \A d : Free(d) => \A e \in logged(d) : Done(e)
  <2> HIDE DEF Free, Any, Done
  <2> QED
    BY <1>5, <1>6, <1>7, <1>8
<1> HIDE DEF logged
<1>10. \A d : Any(d) /\ k.agents = {} => \A e \in Discard(RecordChild(Install(d))) : Done(e)
  <2> SUFFICES ASSUME NEW d, Any(d), k.agents = {}
               PROVE  \A e \in Discard(RecordChild(Install(d))) : Done(e)
    OBVIOUS
  <2>1. \A e \in RecordChild(Install(d)) : Any(e)
    BY StagedReady
  <2>2. \A e \in RecordChild(Install(d)) : Done(e)
    BY <1>6, <2>1
  <2> QED
    BY <2>2, DiscardBetter
<1>11. \A d : Free(d) => \A e \in spawned(d) : Done(e)
  <2>1. \A d : Free(d) => k.agents = {}
    OBVIOUS
  <2> HIDE DEF Free, Any, Done
  <2> QED
    BY <1>5, <1>9, <1>10, <2>1
<1> HIDE DEF spawned
<1>12. \A f : Any(f) => \A g \in up(f) : Done(g)
  <2>1. \A f : Any(f) => Any([f EXCEPT !.s.slot = "live"])
    BY SlotReady
  <2> HIDE DEF Any, Done
  <2> QED
    BY <1>6, <1>7, <2>1
<1> HIDE DEF up
<1>13. \A d : Free(d) => \A e \in replaced(d) : Done(e)
  <2> HIDE DEF Free, Any, Done
  <2> QED
    BY <1>5, <1>11, <1>12
<1> HIDE DEF replaced
<1>14. \A d : Free(d) => \A e \in tried(d) : Done(e)
  <2> SUFFICES ASSUME NEW d, Free(d), NEW e \in Spawn(d)
               PROVE  /\ \A g \in replaced(e) : Done(g)
                      /\ \A f \in Log(e) : Done(Rejected(f))
    OBVIOUS
  <2>1. Free(e)
    BY RestReady
  <2>2. \A f \in Log(e) : Ready(k, m, {}, f)
    BY <2>1, RestReady
  <2>3. \A f \in Log(e) : Done(Rejected(f))
    BY <2>2, BetterResults
  <2> QED
    BY <1>13, <2>1, <2>3
<1> HIDE DEF tried
<1>15. \A d \in RejectForeignLiveChild(c) : IF d.ok THEN Free(d) ELSE Done(d)
  BY RejectForeignReady DEF Better
<1> HIDE DEF Free, Done
<1>16. \A d \in Switch(c) : Done(d)
  BY <1>1, <1>14, <1>15
<1> QED
  BY <1>16 DEF Done

LEMMA FirstAcquireBetter ==
    ASSUME NEW k, NEW m, NEW c, Ready(k, m, {}, c)
    PROVE  \A d \in FirstAcquire(c) : Better(k, m, d)
<1> DEFINE read == Read(c)
           checked == UNION {IF d.ok THEN RejectForeignLiveChild(d) ELSE {d} : d \in read}
           spawned == UNION {IF d.ok THEN Spawn(d) ELSE {d} : d \in checked}
           recorded(d) == RecordChild(Install(d))
           adopted(d) == UNION {IF e.ok THEN AdoptStored(e) ELSE {e} : e \in recorded(d)}
           final(d) == UNION {IF e.ok THEN FinalizeMetadata(e) ELSE {e} : e \in adopted(d)}
           begun(e) == {Accepted(f) : f \in TryDispatch([e EXCEPT !.s.holders = 1])}
           all(d) == UNION {IF e.ok THEN begun(e) ELSE {e} : e \in Discard(final(d))}
           Free(d) == Ready(k, m, {}, d) /\ k.agents = {}
           Any(d) == Ready(k, "any", {}, d)
           Done(d) == Better(k, m, d)
<1>1. FirstAcquire(c) = UNION {IF d.ok THEN all(d) ELSE {d} : d \in spawned}
  BY DEF FirstAcquire, Then
<1>2. \A d \in spawned : Ready(k, m, {}, d) /\ (d.ok => k.agents = {})
  <2>1. \A d \in read : Ready(k, m, {}, d)
    BY RestReady
  <2> HIDE DEF read
  <2> QED
    BY <2>1, SpawnedReady
<1> HIDE DEF spawned
<1>3. \A d \in spawned : IF d.ok THEN Free(d) ELSE Done(d)
  BY <1>2 DEF Better
<1>4. \A d : Free(d) => \A e \in recorded(d) : Ready(k, m, {}, e)
  BY StagedReady
<1> HIDE DEF recorded
<1>5. \A d : Free(d) => \A e \in adopted(d) : Done(e)
  <2>1. \A e : Ready(k, m, {}, e) => \A f \in AdoptStored(e) : Done(f)
    BY RecoverReady DEF Better
  <2>2. \A e : Ready(k, m, {}, e) /\ ~e.ok => Done(e)
    BY DEF Better
  <2> HIDE DEF Free, Done
  <2> QED
    BY <1>4, <2>1, <2>2
<1> HIDE DEF adopted
<1>6. \A d : Done(d) /\ d.ok => Any(d)
  BY DEF Better
<1>7. \A d : Any(d) => \A e \in FinalizeMetadata(d) : Done(e)
  BY FinalizeMetadataReady, AnyBetter
<1>8. \A d : Free(d) => \A e \in final(d) : Done(e)
  <2> HIDE DEF Free, Any, Done
  <2> QED
    BY <1>5, <1>6, <1>7
<1> HIDE DEF final
<1>9. \A d : Free(d) => \A e \in Discard(final(d)) : Done(e)
  BY <1>8, DiscardBetter
<1>10. \A e : Any(e) => \A f \in begun(e) : Done(f)
  <2> SUFFICES ASSUME NEW e, Any(e), NEW f \in TryDispatch([e EXCEPT !.s.holders = 1])
               PROVE  Done(Accepted(f))
    OBVIOUS
  <2>1. Any([e EXCEPT !.s.holders = 1])
    BY FieldsReady
  <2>2. Any(f)
    BY <2>1, TryDispatchReady
  <2>3. Any(Accepted(f))
    BY <2>2, RestReady
  <2> QED
    BY <2>3, AnyBetter
<1> HIDE DEF begun
<1>11. \A d : Free(d) => \A e \in all(d) : Done(e)
  <2> HIDE DEF Free, Any, Done
  <2> QED
    BY <1>6, <1>9, <1>10
<1> HIDE DEF all, Free, Done
<1>12. \A d \in FirstAcquire(c) : Done(d)
  BY <1>1, <1>3, <1>11
<1> QED
  BY <1>12 DEF Done

(* One more client is attached. *)
LEMMA HoldersBetter ==
    ASSUME NEW k, NEW m, NEW c, Better(k, m, c), NEW v
    PROVE  Better(k, m, [c EXCEPT !.s.holders = v])
<1>1. Ready(k, m, {}, [c EXCEPT !.s.holders = v])
  BY FieldsReady DEF Better
<1>2. c.ok => Ready(k, "any", {}, [c EXCEPT !.s.holders = v])
  BY FieldsReady DEF Better
<1>3. [c EXCEPT !.s.holders = v].ok = c.ok
  BY ReadyForm DEF Better, Form
<1> QED
  BY <1>1, <1>2, <1>3 DEF Better

LEMMA HeldBetter ==
    ASSUME NEW k, NEW m, NEW c, Better(k, m, c)
    PROVE  Better(k, m, [c EXCEPT !.s.holders = @ + 1])
<1> DEFINE v == c.s.holders + 1
<1> HIDE DEF v
<1>1. Better(k, m, [c EXCEPT !.s.holders = v])
  BY HoldersBetter
<1> QED
  BY <1>1 DEF v

LEMMA AcquireBetter ==
    ASSUME NEW k, NEW m, NEW c, Form(c), ~c.lost, Ready(k, m, {}, [c EXCEPT !.s.path = TRUE]),
           NEW other
    PROVE  \A d \in Acquire(c, other) : Better(k, m, d)
<1> DEFINE b == [c EXCEPT !.s.path = TRUE]
           held(S) == {IF e.ok THEN [e EXCEPT !.s.holders = @ + 1] ELSE e : e \in S}
           released == UNION {IF d.ok THEN ReleaseLiveClient(d) ELSE {d} : d \in Read(b)}
           checked == UNION {IF d.ok THEN RejectForeignLiveChild(d) ELSE {d} : d \in released}
           spawned == UNION {IF d.ok THEN Spawn(d) ELSE {d} : d \in checked}
           replaced == UNION {IF d.ok THEN InstallReplaced(d) ELSE {d} : d \in spawned}
<1>1. Acquire(c, other) = IF c.lost THEN {Rejected(c)}
                          ELSE IF ~HasClient(c) THEN FirstAcquire(b)
                          ELSE IF other THEN held(Switch(b))
                          ELSE IF Healthy(c) THEN held({Accepted(b)})
                          ELSE held(replaced)
  BY DEF Acquire, Then
<1>2. Ready(k, m, {}, b) /\ (Healthy(c) => Healthy(b))
  BY DEF Healthy, Form
<1> HIDE DEF b
<1>3. \A d \in released : Ready(k, m, {}, d)
  BY <1>2, RestReady, ReleaseLiveClientReady
<1> HIDE DEF released
<1>4. \A d \in replaced : Better(k, m, d)
  BY <1>3, ReplacedBetter
<1> HIDE DEF replaced
<1>5. \A S : (\A d \in S : Better(k, m, d)) => \A d \in held(S) : Better(k, m, d)
  BY HeldBetter
<1> HIDE DEF held
<1>6. Healthy(c) => \A d \in {Accepted(b)} : Better(k, m, d)
  <2> SUFFICES ASSUME Healthy(c)
               PROVE  Better(k, m, Accepted(b))
    OBVIOUS
  <2>1. Ready(k, "any", {}, b)
    BY <1>2, HealthyReady
  <2>2. Ready(k, "any", {}, Accepted(b))
    BY <2>1, RestReady
  <2> QED
    BY <2>2, AnyBetter
<1>7. \A d \in Switch(b) : Better(k, m, d)
  BY <1>2, SwitchBetter
<1>8. \A d \in held(Switch(b)) \cup held(replaced) : Better(k, m, d)
  BY <1>4, <1>5, <1>7
<1>9. Healthy(c) => \A d \in held({Accepted(b)}) : Better(k, m, d)
  BY <1>5, <1>6
<1>10. \A d \in FirstAcquire(b) : Better(k, m, d)
  BY <1>2, FirstAcquireBetter
<1> QED
  BY <1>1, <1>8, <1>9, <1>10

(* Of a host whose actor has been asked for the slot before.               *)
LEMMA AcquireAgain ==
    ASSUME NEW k, NEW m, NEW c, Ready(k, m, {}, c), NEW other
    PROVE  \A d \in Acquire(c, other) : Better(k, m, d)
<1> DEFINE b == [c EXCEPT !.s.path = TRUE]
<1>1. Form(c) /\ Shape(c) /\ Good(c.rows, {}, c) /\ c.s.path = TRUE
  BY ReadyForm, FineGood DEF Ready, Told, Fine
<1>2. Kin(c, b) /\ Alike(c, b)
  BY <1>1 DEF Kin, Near, Form, Healthy, Alike, Shape
<1>3. Ready(k, m, {}, b)
  <2> HIDE DEF b
  <2>1. Good(c.rows, {}, b)
    BY <1>1, <1>2, AlikeGood
  <2> QED
    BY <1>2, <2>1, KinGoodReady
<1>4. CASE c.lost
  <2>1. Acquire(c, other) = {Rejected(c)}
    BY <1>4 DEF Acquire
  <2> QED
    BY <2>1, BetterResults
<1>5. CASE ~c.lost
  BY <1>1, <1>3, <1>5, AcquireBetter
<1> QED
  BY <1>4, <1>5

LEMMA KeepingHoldersBetter ==
    ASSUME NEW k, NEW m, NEW c, Ready(k, m, {}, c)
    PROVE  \A d \in AcquireKeepingHolders(c) : Better(k, m, d)
<1> DEFINE other == FALSE
<1> HIDE DEF other
<1>1. \A d \in Acquire(c, other) : Better(k, m, d)
  BY AcquireAgain
<1>2. \A d \in Acquire(c, other) : Better(k, m, [d EXCEPT !.s.holders = c.s.holders])
  BY <1>1, HoldersBetter
<1> QED
  BY <1>2 DEF AcquireKeepingHolders, other

LEMMA ReviveBetter ==
    ASSUME NEW k, NEW m, NEW c, Ready(k, m, {}, c)
    PROVE  \A d \in Revive(c) : Better(k, m, d)
<1>1. c.s.path
  BY DEF Ready, Told
<1> QED
  BY <1>1, KeepingHoldersBetter DEF Revive

LEMMA ClearContextBetter ==
    ASSUME NEW k, NEW m, NEW c, Ready(k, m, {}, c), NEW takeHolder
    PROVE  \A d \in ClearContext(c, takeHolder) : Ready(k, m, {}, d)
<1> DEFINE events == FALSE
           loaded == IF c.s.loaded THEN {Accepted(c)}
                     ELSE UNION {IF d.ok THEN AdoptStored(d) ELSE {d} : d \in Read(c)}
           given(d) == CommitWithEvents([d EXCEPT !.s.fault = FALSE],
                                        RemoveQueued(d.s.ledger), events)
           emptied(d) == {[e EXCEPT !.s.queue = IF e.ok THEN <<>> ELSE @] : e \in given(d)}
           known == UNION {IF d.ok THEN emptied(d) ELSE {d} : d \in loaded}
           released == UNION {IF d.ok THEN ReleaseLiveClient(d) ELSE {d} : d \in known}
           checked(d) == UNION {IF e.ok THEN RejectForeignLiveChild(e) ELSE {e} : e \in Write(d)}
           spawned(d) == UNION {IF e.ok THEN Spawn(e) ELSE {e} : e \in checked(d)}
           saved(d) == UNION {IF e.ok THEN Write(e) ELSE {e} : e \in spawned(d)}
           respawned(d) == UNION {IF e.ok THEN Log(e) ELSE {e} : e \in saved(d)}
           up(e) == MaybeLog([e EXCEPT !.s.slot = "live"])
           installed(d) == UNION {IF e.ok THEN up(e) ELSE {e} :
                                     e \in Discard(RecordChild(Install(d)))}
           new == UNION {IF d.ok THEN respawned(d) ELSE {d} : d \in released}
           all == UNION {IF d.ok THEN installed(d) ELSE {d} : d \in new}
           Fit(d) == Ready(k, m, {}, d)
           Any(d) == Ready(k, "any", {}, d)
           Done(d) == Better(k, m, d)
           (* No other host has an agent. *)
           Freed(d) == Better(k, m, d) /\ (d.ok => k.agents = {})
<1>1. ClearContext(c, takeHolder) =
         {IF d.ok /\ takeHolder THEN [d EXCEPT !.s.holders = @ + 1] ELSE d : d \in all}
  BY DEF ClearContext, Then
<1>2. \A d \in loaded : Fit(d)
  <2>1. \A d : Fit(d) => \A e \in AdoptStored(d) : Fit(e)
    BY RecoverReady
  <2>2. \A d \in Read(c) \cup {Accepted(c)} : Fit(d)
    BY RestReady
  <2> HIDE DEF Fit
  <2> QED
    BY <2>1, <2>2
<1> HIDE DEF loaded
<1>3. \A d : Fit(d) => \A e \in given(d) :
                Fit(e) /\ (e.ok => Any([e EXCEPT !.s.queue = <<>>]))
  <2> HIDE DEF events
  <2> QED
    BY GivenUpReady
<1> HIDE DEF given, events
<1>4. \A d : Fit(d) => \A e \in emptied(d) : Done(e)
  <2> SUFFICES ASSUME NEW d, Fit(d), NEW e \in given(d)
               PROVE  Done([e EXCEPT !.s.queue = IF e.ok THEN <<>> ELSE @])
    BY Zenon
  <2>1. Fit(e) /\ (e.ok => Any([e EXCEPT !.s.queue = <<>>]))
    BY <1>3
  <2>2. CASE e.ok
    <3>1. Any([e EXCEPT !.s.queue = <<>>])
      BY <2>1, <2>2
    <3>2. Done([e EXCEPT !.s.queue = <<>>])
      BY <3>1, AnyBetter
    <3> QED
      BY <2>2, <3>2
  <2>3. CASE ~e.ok
    <3> DEFINE f == [e EXCEPT !.s.queue = e.s.queue]
    <3>1. Form(e) /\ Shape(e) /\ Good(e.rows, {}, e)
      BY <2>1, ReadyForm, FineGood DEF Fine
    <3>2. Kin(e, f) /\ Alike(e, f) /\ f.ok = e.ok
      BY <3>1 DEF Kin, Near, Form, Healthy, Alike, Shape
    <3> HIDE DEF f
    <3>3. Fit(f)
      BY <2>1, <3>1, <3>2, AlikeGood, KinGoodReady
    <3>4. Done(f)
      BY <2>3, <3>2, <3>3 DEF Better
    <3> QED
      BY <2>3, <3>4 DEF f
  <2> QED
    BY <2>2, <2>3
<1> HIDE DEF emptied
<1>5. \A d : Done(d) /\ d.ok => Any(d)
  BY DEF Better
<1>6. \A d : Any(d) => Done(d)
  BY AnyBetter
<1>7. \A d : Any(d) => \A e \in Write(d) \cup Log(d) \cup MaybeLog(d) \cup Spawn(d) : Any(e)
  BY RestReady
<1>8. \A d : Any(d) => \A e \in ReleaseLiveClient(d) : Any(e)
  BY ReleaseLiveClientReady
<1>9. \A d : Any(d) => \A e \in RejectForeignLiveChild(d) : Any(e) /\ (e.ok => k.agents = {})
  BY RejectForeignReady
<1>10. \A d : Fit(d) /\ ~d.ok => Done(d)
  BY DEF Better
<1>11. \A d : Freed(d) <=> Done(d) /\ (d.ok => k.agents = {})
  OBVIOUS
<1>12. \A d : Any(d) /\ k.agents = {} => \A e \in Discard(RecordChild(Install(d))) : Done(e)
  <2> SUFFICES ASSUME NEW d, Any(d), k.agents = {}
               PROVE  \A e \in Discard(RecordChild(Install(d))) : Done(e)
    OBVIOUS
  <2>1. \A e \in RecordChild(Install(d)) : Any(e)
    BY StagedReady
  <2>2. \A e \in RecordChild(Install(d)) : Done(e)
    BY <1>6, <2>1
  <2> QED
    BY <2>2, DiscardBetter
<1>13. \A f : Any(f) => Any([f EXCEPT !.s.slot = "live"])
  BY SlotReady
<1>14. \A d : Done(d) => Fit(d)
  BY DEF Better
<1> HIDE DEF Fit, Any, Done, Freed
<1>15. \A d \in known : Done(d)
  BY <1>2, <1>4, <1>10
<1> HIDE DEF known
<1>16. \A d \in released : Done(d)
  BY <1>5, <1>6, <1>8, <1>15
<1> HIDE DEF released
<1>17. \A d : Any(d) => \A e \in checked(d) : Freed(e)
  <2> SUFFICES ASSUME NEW d, Any(d), NEW e \in Write(d)
               PROVE  IF e.ok THEN \A f \in RejectForeignLiveChild(e) : Freed(f) ELSE Freed(e)
    OBVIOUS
  <2>1. Any(e)
    BY <1>7
  <2>2. \A f \in RejectForeignLiveChild(e) : Any(f) /\ (f.ok => k.agents = {})
    BY <1>9, <2>1
  <2> QED
    BY <1>6, <1>11, <2>1, <2>2
<1> HIDE DEF checked
<1>18. \A d : Freed(d) /\ d.ok =>
          \A e \in Write(d) \cup Log(d) \cup MaybeLog(d) \cup Spawn(d) : Freed(e)
  BY <1>5, <1>6, <1>7, <1>11
<1>19. \A d : Any(d) => \A e \in spawned(d) : Freed(e)
  BY <1>17, <1>18
<1> HIDE DEF spawned
<1>20. \A d : Any(d) => \A e \in saved(d) : Freed(e)
  BY <1>18, <1>19
<1> HIDE DEF saved
<1>21. \A d : Any(d) => \A e \in respawned(d) : Freed(e)
  BY <1>18, <1>20
<1> HIDE DEF respawned
<1>22. \A d \in new : d.ok => Freed(d)
  BY <1>5, <1>16, <1>21
<1>23. \A d \in new : Done(d)
  BY <1>5, <1>11, <1>16, <1>21
<1> HIDE DEF new
<1>24. \A d : Any(d) => \A e \in up(d) : Done(e)
  BY <1>6, <1>7, <1>13
<1> HIDE DEF up
<1>25. \A d : Freed(d) /\ d.ok => \A e \in installed(d) : Done(e)
  BY <1>5, <1>11, <1>12, <1>24
<1> HIDE DEF installed
<1>26. \A d \in all : Done(d)
  BY <1>22, <1>23, <1>25
<1> HIDE DEF all
<1>27. \A d \in all : Better(k, m, d)
  BY <1>26 DEF Done
<1>28. \A d \in all : Better(k, m, [d EXCEPT !.s.holders = @ + 1])
  BY <1>27, HeldBetter
<1> QED
  BY <1>1, <1>27, <1>28 DEF Better

-----------------------------------------------------------------------------
(* The commands: prompts.                                                  *)

(* Another queue, of prompts that were in it already.                      *)
LEMMA QueueReady ==
    ASSUME NEW k, NEW m, NEW c, Ready(k, m, {}, c), NEW q, IsList(q), Distinct(q),
           \A x \in Elems(q) : \E p \in Elems(c.s.queue) : p.id = x.id
    PROVE  Ready(k, m, {}, [c EXCEPT !.s.queue = q])
<1> DEFINE d == [c EXCEPT !.s.queue = q]
           K == {} \cup Named(c.s.queue)
           L == {} \cup Named(q)
<1>1. Form(c) /\ Good(c.rows, {}, c) /\ Told(k, m, K, c)
  BY FineGood, ReadyForm DEF Ready
<1>2. Good(c.rows, {}, d)
  BY <1>1, QueueGood
<1>3. /\ Near(c, d) /\ d.s.queue = q /\ d.rows = c.rows /\ d.s.ledger = c.s.ledger
  BY <1>1 DEF Near, Form, Healthy
<1>4. L \subseteq K
  BY DEF Named
<1> HIDE DEF d, K, L
<1>5. Told(k, m, L, c)
  BY <1>1, <1>4, LessTold
<1>6. Serves(m, d) => Matched(L, d.s.ledger, d.rows, d.sent)
  BY <1>3, <1>5, NearServes DEF Told, Near
<1>7. Told(k, m, L, d)
  BY <1>2, <1>3, <1>5, <1>6, NearTold DEF Good
<1>8. Ready(k, m, {}, d)
  BY <1>3, <1>7 DEF Ready, L
<1> QED
  BY <1>8 DEF d

LEMMA EmptyReady ==
    ASSUME NEW k, NEW m, NEW c, Ready(k, m, {}, c)
    PROVE  Ready(k, m, {}, [c EXCEPT !.s.queue = <<>>])
<1> DEFINE none == <<>>
<1>1. IsList(none) /\ Distinct(none) /\ Elems(none) = {}
  BY NoList
<1> HIDE DEF none
<1>2. Ready(k, m, {}, [c EXCEPT !.s.queue = none])
  BY <1>1, QueueReady
<1> QED
  BY <1>2 DEF none

LEMMA UpdateQueuedReady ==
    ASSUME NEW k, NEW m, NEW c, Ready(k, m, {}, c), NEW id, NEW text
    PROVE  \A d \in UpdateQueued(c, id, text) : Ready(k, m, {}, d)
<1> DEFINE l == UpsertQueued(c.s.ledger, id, text)
           new == [id |-> id, text |-> text]
           edited(s) == [i \in DOMAIN s |-> IF s[i].id = id THEN new ELSE s[i]]
           updated(d) == [d EXCEPT !.s.queue =
                             [i \in DOMAIN @ |-> IF @[i].id = id THEN new ELSE @[i]]]
<1>1. UpdateQueued(c, id, text) =
         UNION {IF d.ok THEN Log(updated(d)) ELSE {d} : d \in Commit(c, l)}
  BY DEF UpdateQueued, Then
<1>2. Committable(l, c.rows)
  <2>1. Good(c.rows, {}, c)
    BY ReadyForm, FineGood
  <2>2. Committable(c.s.ledger, c.rows)
    BY <2>1, GoodFacts
  <2> QED
    BY <2>2, UpsertQueuedFine
<1> HIDE DEF l
<1>3. \A d \in Commit(c, l) : Ready(k, m, {}, d)
  BY <1>2, CommitReady
<1>4. new.id = id
  OBVIOUS
<1> HIDE DEF new
<1>5. \A s : IsList(s) /\ Distinct(s) =>
                /\ IsList(edited(s)) /\ Distinct(edited(s))
                /\ \A q \in Elems(edited(s)) : \E p \in Elems(s) : p.id = q.id
  <2> SUFFICES ASSUME NEW s, IsList(s), Distinct(s)
               PROVE  /\ IsList(edited(s)) /\ Distinct(edited(s))
                      /\ \A q \in Elems(edited(s)) : \E p \in Elems(s) : p.id = q.id
    BY Zenon
  <2> DEFINE f == edited(s)
  <2>1. f = [i \in DOMAIN s |-> f[i]] /\ \A i \in DOMAIN s : f[i].id = s[i].id
    BY <1>4
  <2> HIDE DEF f
  <2>2. /\ IsList(f) /\ Elems(f) = {f[i] : i \in DOMAIN s}
        /\ Elems(s) = {s[i] : i \in DOMAIN s}
    BY <2>1, MapList
  <2>3. \A q \in Elems(f) : \E p \in Elems(s) : p.id = q.id
    BY <2>1, <2>2
  <2>4. Distinct(f)
    BY <2>1, MapDistinct
  <2> QED
    BY <2>2, <2>3, <2>4 DEF f
<1>6. \A d : Ready(k, m, {}, d) => Ready(k, m, {}, updated(d))
  <2> SUFFICES ASSUME NEW d, Ready(k, m, {}, d)
               PROVE  Ready(k, m, {}, updated(d))
    BY Zenon
  <2> DEFINE s == edited(d.s.queue)
  <2>1. updated(d) = [d EXCEPT !.s.queue = s]
    OBVIOUS
  <2>2. IsList(d.s.queue) /\ Distinct(d.s.queue)
    BY ReadyForm DEF Fine, SessionFine
  <2>3. IsList(s) /\ Distinct(s) /\ \A q \in Elems(s) : \E p \in Elems(d.s.queue) : p.id = q.id
    BY <1>5, <2>2
  <2> HIDE DEF s, updated
  <2> QED
    BY <2>1, <2>3, QueueReady
<1> HIDE DEF updated
<1>7. \A d \in Commit(c, l) : \A e \in Log(updated(d)) : Ready(k, m, {}, e)
  BY <1>3, <1>6, RestReady
<1> QED
  BY <1>1, <1>3, <1>7

LEMMA WithdrawQueuedReady ==
    ASSUME NEW k, NEW m, NEW c, Ready(k, m, {}, c), NEW id
    PROVE  \A d \in WithdrawQueued(c, id) : Ready(k, m, {}, d)
<1> DEFINE l == RemoveEntry(c.s.ledger, id)
           S(s) == {q \in Elems(s) : q.id # id}
           cut(d) == [d EXCEPT !.s.queue = Keeping(@, {q \in Elems(@) : q.id # id})]
           all == UNION {IF d.ok THEN Log(cut(d)) ELSE {d} : d \in Commit(c, l)}
<1>1. WithdrawQueued(c, id) = IF ~Has(c.s.ledger, id) THEN {Accepted(c)}
                              ELSE IF PhaseOf(c.s.ledger, id) # "Queued" THEN Log(c) ELSE all
  BY DEF WithdrawQueued, Then
<1>2. Committable(l, c.rows)
  <2>1. Good(c.rows, {}, c)
    BY ReadyForm, FineGood
  <2>2. Committable(c.s.ledger, c.rows)
    BY <2>1, GoodFacts
  <2> QED
    BY <2>2, RemoveEntryFine
<1> HIDE DEF l
<1>3. \A d \in Commit(c, l) : Ready(k, m, {}, d)
  BY <1>2, CommitReady
<1>4. \A d : Ready(k, m, {}, d) => Ready(k, m, {}, cut(d))
  <2> SUFFICES ASSUME NEW d, Ready(k, m, {}, d)
               PROVE  Ready(k, m, {}, cut(d))
    BY Zenon
  <2> DEFINE T == S(d.s.queue)
             s == Keeping(d.s.queue, T)
  <2>1. cut(d) = [d EXCEPT !.s.queue = s]
    OBVIOUS
  <2>2. IsList(d.s.queue) /\ Distinct(d.s.queue)
    BY ReadyForm DEF Fine, SessionFine
  <2> HIDE DEF T, cut
  <2>3. IsList(s) /\ Distinct(s) /\ Elems(s) = Elems(d.s.queue) \cap T
    BY <2>2, KeepingList, PartDistinct
  <2> HIDE DEF s
  <2> QED
    BY <2>1, <2>3, QueueReady
<1> HIDE DEF cut
<1>5. \A d \in Commit(c, l) : \A e \in Log(cut(d)) : Ready(k, m, {}, e)
  BY <1>3, <1>4, RestReady
<1>6. \A d \in all : Ready(k, m, {}, d)
  BY <1>3, <1>5
<1> HIDE DEF all
<1>7. Ready(k, m, {}, Accepted(c)) /\ \A d \in Log(c) : Ready(k, m, {}, d)
  BY RestReady
<1> QED
  BY <1>1, <1>6, <1>7

(* plan_commit refuses a prompt that is over.                              *)
LEMMA OverRefused ==
    ASSUME NEW R, NEW l, NEW id, Over(R, id), NEW e \in Elems(l), e.id = id,
           e.phase \in {"Queued", "Dispatching"}
    PROVE  ~PlanOK(R, l)
<1>1. Has(R, id) /\ Of(R, id) \in Elems(R) /\ Of(R, id).id = id
  BY OfHas DEF Over
<1>2. Of(R, id).st \in Terminal
  BY <1>1 DEF Over
<1>3. Target(e.phase) \in {"Pending", "Running"}
  BY DEF Target
<1>4. ~Reachable("Completed", Target(e.phase))
  <2>1. CASE Target(e.phase) = "Pending"
    BY <2>1 DEF Reachable, Routes
  <2>2. CASE Target(e.phase) = "Running"
    BY <2>2 DEF Reachable, Routes
  <2> QED
    BY <1>3, <2>1, <2>2
<1>5. ~EntryOK(Of(R, id), e)
  BY <1>2, <1>4 DEF EntryOK, Terminal
<1> QED
  BY <1>1, <1>5 DEF PlanOK

(* A prompt that is new to the ledger, and whose commit is accepted, has   *)
(* not been sent and is not in the queue.                                  *)
LEMMA NewUnsent ==
    ASSUME NEW k, NEW c, Ready(k, "any", {}, c), NEW id, ~Has(c.s.ledger, id),
           NEW l, NEW e \in Elems(l), e.id = id, e.phase \in {"Queued", "Dispatching"},
           NEW events, NEW d \in CommitWithEvents(c, l, events), d.ok, ~d.crashed
    PROVE  id \notin Named(c.sent) /\ id \notin Named(c.s.queue)
<1> DEFINE K == {} \cup Named(c.s.queue)
<1>1. Form(c) /\ Told(k, "any", K, c)
  BY ReadyForm DEF Ready
<1>2. Near(c, d)
  BY <1>1, CommitNear
<1>3. Matched(K, c.s.ledger, c.rows, c.sent)
  BY <1>1, <1>2 DEF Told, Serves, Near
<1>4. ~Over(c.rows, id)
  <2>1. PlanOK(c.rows, l)
    <3>1. ~Rejected(c).ok
      BY <1>1 DEF Rejected, Form
    <3> QED
      BY <3>1 DEF CommitWithEvents
  <2> QED
    BY <2>1, OverRefused
<1> QED
  BY <1>3, <1>4 DEF Matched, Begun, Named

LEMMA AdmitPromptReady ==
    ASSUME NEW k, NEW c, Ready(k, "any", {}, c), NEW id, NEW text, ~Has(c.s.ledger, id)
    PROVE  \A d \in AdmitPrompt(c, id, text) : Ready(k, "any", {}, d)
<1> DEFINE q == [id |-> id, text |-> text]
           l == UpsertQueued(c.s.ledger, id, text)
           m == MarkDispatching(l, id)
           events == TRUE
           begun == UNION {IF d.ok THEN Begin(d, q) ELSE {d} : d \in CommitWithEvents(c, m, events)}
           logged == UNION {IF d.ok THEN Log(d) ELSE {d} : d \in begun}
           added(d) == [d EXCEPT !.s.queue = Append(@, q)]
           waits == {IF d.ok THEN added(d) ELSE d : d \in CommitWithEvents(c, l, events)}
           K == {} \cup Named(c.s.queue)
           Any(d) == Ready(k, "any", {}, d)
<1>1. AdmitPrompt(c, id, text) = IF c.s.active = None THEN logged
                                 ELSE IF Len(c.s.queue) >= MaxQueued THEN {Rejected(c)} ELSE waits
  BY DEF AdmitPrompt, Then
<1>2. q.id = id
  OBVIOUS
<1>3. \A d \in AdmitPrompt(c, id, text) : Good(c.rows, {}, d)
  <2>1. Good(c.rows, {}, c)
    BY ReadyForm, FineGood
  <2> QED
    BY <2>1, AdmitPromptGood
<1> HIDE DEF q, events
<1>4. /\ Committable(l, c.rows) /\ Has(l, id)
      /\ \A e \in Elems(l) : e.id = id => e.phase = "Queued"
  <2>1. Good(c.rows, {}, c)
    BY ReadyForm, FineGood
  <2>2. Committable(c.s.ledger, c.rows)
    BY <2>1, GoodFacts
  <2> QED
    BY <2>2, UpsertQueuedFine
<1> HIDE DEF l
<1>5. /\ Committable(m, c.rows) /\ Has(m, id)
      /\ \A e \in Elems(m) : e.id = id => e.phase = "Dispatching"
  BY <1>4, MarkDispatchingFine
<1> HIDE DEF m
<1>6. Told(k, "any", K, c) /\ Form(c) /\ K = Named(c.s.queue)
  BY ReadyForm DEF Ready
<1> HIDE DEF K
<1>7. ASSUME NEW e, Told(k, "any", K, e), e.s.queue = c.s.queue
      PROVE  Any(e)
  BY <1>6, <1>7 DEF Ready
<1>8. ASSUME NEW d \in CommitWithEvents(c, m, events), d.ok, NEW e \in Begin(d, q)
      PROVE  Any(e)
  <2>1. /\ Told(k, "any", K, d) /\ d.s.queue = c.s.queue
        /\ d.s.ledger = m /\ LedgerFine(m, d.rows)
    BY <1>5, <1>6, <1>8, CommitTold
  <2>2. PICK x \in Elems(m) : x.id = id
    BY <1>5 DEF Has
  <2>3. x.phase = "Dispatching"
    BY <1>5, <2>2
  <2>4. Durable(d.rows, q.id)
    BY <1>2, <2>1, <2>2, <2>3 DEF LedgerFine
  <2>5. Begun(d.s.ledger, q.id)
    BY <1>2, <1>5, <2>1 DEF Begun
  <2>6. d.alive /\ ~d.crashed => q.id \notin Named(d.sent) /\ q.id \notin K
    <3> SUFFICES ASSUME ~d.crashed
                 PROVE  q.id \notin Named(d.sent) /\ q.id \notin K
      OBVIOUS
    <3>1. id \notin Named(c.sent) /\ id \notin Named(c.s.queue)
      BY <1>8, <2>2, <2>3, NewUnsent
    <3>2. d.sent = c.sent
      BY <1>6, CommitNear DEF Near
    <3> QED
      BY <1>2, <1>6, <3>1, <3>2
  <2>7. Told(k, "any", K, e) /\ e.s.queue = d.s.queue
    BY <1>8, <2>1, <2>4, <2>5, <2>6, BeginTold
  <2> HIDE DEF Any
  <2> QED
    BY <1>7, <2>1, <2>7
<1>9. \A d \in CommitWithEvents(c, m, events) : Any(d)
  BY <1>5, CommitReady
<1>10. \A d \in begun : Any(d)
  <2> HIDE DEF Any
  <2> QED
    BY <1>8, <1>9
<1> HIDE DEF begun
<1>11. \A d \in logged : Any(d)
  BY <1>10, RestReady
<1> HIDE DEF logged
<1>12. ASSUME NEW d \in CommitWithEvents(c, l, events), d.ok, Good(c.rows, {}, added(d))
       PROVE  Any(added(d))
  <2>1. /\ Told(k, "any", K, d) /\ d.s.queue = c.s.queue
        /\ d.s.ledger = l /\ LedgerFine(l, d.rows)
    <3> HIDE DEF added
    <3> QED
      BY <1>4, <1>6, <1>12, CommitTold
  <2> DEFINE g == added(d)
             L == {} \cup Named(g.s.queue)
  <2>2. PICK x \in Elems(l) : x.id = id
    BY <1>4 DEF Has
  <2>3. x.phase = "Queued"
    BY <1>4, <2>2
  <2>4. d.sent = c.sent /\ Form(d) /\ IsList(d.s.queue)
    BY <1>6, <2>1, CommitNear DEF Near, Told, Fine, SessionFine
  <2>5. /\ Near(d, g) /\ g.s.queue = Append(d.s.queue, q) /\ g.rows = d.rows
        /\ g.s.ledger = d.s.ledger /\ g.sent = d.sent /\ g.crashed = d.crashed
    BY <2>4 DEF Near, Form, Healthy
  <2>6. Good(c.rows, {}, g)
    BY <1>12
  <2> HIDE DEF g
  <2>7. Elems(g.s.queue) = Elems(d.s.queue) \cup {q}
    BY <2>4, <2>5, AppendList
  <2>8. L = K \cup {id}
    BY <1>2, <1>6, <2>1, <2>7 DEF Named
  <2> HIDE DEF L
  <2>9. Serves("any", g) => Matched(L, g.s.ledger, g.rows, g.sent)
    <3> SUFFICES ASSUME ~g.crashed
                 PROVE  Matched(L, g.s.ledger, g.rows, g.sent)
      BY DEF Serves
    <3>1. id \notin Named(c.sent)
      BY <1>12, <2>2, <2>3, <2>5, NewUnsent
    <3>2. Matched(K, d.s.ledger, d.rows, d.sent)
      BY <2>1, <2>5 DEF Told, Serves
    <3> QED
      BY <1>4, <2>1, <2>4, <2>5, <2>8, <3>1, <3>2 DEF Matched
  <2>10. Told(k, "any", L, g)
    <3>1. Distinct(g.sent) /\ g.s.path = TRUE /\ Form(g)
      BY <2>1, <2>5 DEF Near, Told
    <3>2. Apart(k, g)
      BY <2>1, <2>5 DEF Near, Told, Apart
    <3> QED
      BY <2>6, <2>9, <3>1, <3>2 DEF Told, Good
  <2>11. Any(g)
    BY <2>10 DEF Ready, L
  <2> QED
    BY <2>11 DEF g
<1>13. \A d \in CommitWithEvents(c, l, events) : Any(d)
  BY <1>4, CommitReady
<1>14. (\A d \in waits : Good(c.rows, {}, d)) => \A d \in waits : Any(d)
  <2> HIDE DEF Any, added
  <2> QED
    BY <1>12, <1>13
<1> HIDE DEF waits
<1>15. Any(Rejected(c))
  BY RestReady
<1>16. CASE c.s.active = None
  BY <1>1, <1>11, <1>16
<1>17. CASE c.s.active # None /\ Len(c.s.queue) >= MaxQueued
  BY <1>1, <1>15, <1>17
<1>18. CASE c.s.active # None /\ ~(Len(c.s.queue) >= MaxQueued)
  BY <1>1, <1>3, <1>14, <1>18
<1> QED
  BY <1>16, <1>17, <1>18

(* A prompt that is new is admitted only by a host that may dispatch.      *)
LEMMA SubmitPromptReady ==
    ASSUME NEW k, NEW m, NEW c, Ready(k, m, {}, c), NEW id, NEW text,
           m = "any" \/ text = NoText \/ PhaseOf(c.s.ledger, id) = "Queued"
    PROVE  \A d \in SubmitPrompt(c, id, text) : Ready(k, m, {}, d)
<1> DEFINE phase == PhaseOf(c.s.ledger, id)
           refused == {Rejected(d) : d \in Log(c)}
           admitted == IF phase = "None" /\ text # NoText THEN AdmitPrompt(c, id, text) ELSE {}
<1>1. phase \in Phases \cup {"None"} /\ (phase = "None" => ~Has(c.s.ledger, id))
  <2>1. ASSUME Has(c.s.ledger, id)
        PROVE  Of(c.s.ledger, id).phase \in Phases
    <3>1. Good(c.rows, {}, c)
      BY ReadyForm, FineGood
    <3> QED
      BY <2>1, <3>1, OfHas, GoodFacts DEF Committable, EntryFine
  <2> QED
    BY <2>1 DEF PhaseOf, Phases
<1>2. \A d \in refused : Ready(k, m, {}, d)
  <2>1. \A d \in Log(c) : Ready(k, m, {}, d)
    BY RestReady
  <2> QED
    BY <2>1, RestReady
<1>3. SubmitPrompt(c, id, text) \subseteq
         {Rejected(c)} \cup WithdrawQueued(c, id) \cup refused
            \cup UpdateQueued(c, id, text) \cup Log(c) \cup admitted
  <2> DEFINE cases == CASE phase = "Interrupted" -> refused
                        [] phase = "Queued" -> UpdateQueued(c, id, text)
                        [] phase \in {"Completed", "Dispatching"} -> Log(c)
                        [] OTHER -> AdmitPrompt(c, id, text)
  <2>1. \/ cases \in {refused, UpdateQueued(c, id, text), Log(c)}
        \/ phase = "None" /\ cases = AdmitPrompt(c, id, text)
    <3> HIDE DEF phase, refused
    <3> QED
      BY <1>1 DEF Phases
  <2>2. \/ SubmitPrompt(c, id, text) \in {{Rejected(c)}, WithdrawQueued(c, id)}
        \/ text # NoText /\ SubmitPrompt(c, id, text) = cases
    BY DEF SubmitPrompt
  <2> HIDE DEF cases, refused, phase
  <2> QED
    BY <2>1, <2>2
<1>4. \A d \in admitted : Ready(k, m, {}, d)
  <2> SUFFICES ASSUME phase = "None", text # NoText
               PROVE  \A d \in AdmitPrompt(c, id, text) : Ready(k, m, {}, d)
    OBVIOUS
  <2>1. m = "any"
    OBVIOUS
  <2> QED
    BY <1>1, <2>1, AdmitPromptReady
<1> HIDE DEF refused, admitted, phase
<1>5. \A d \in {Rejected(c)} \cup Log(c) : Ready(k, m, {}, d)
  BY RestReady
<1>6. \A d \in WithdrawQueued(c, id) \cup UpdateQueued(c, id, text) : Ready(k, m, {}, d)
  BY WithdrawQueuedReady, UpdateQueuedReady
<1> QED
  BY <1>2, <1>3, <1>4, <1>5, <1>6

(* A host without a healthy agent revives it before it admits a prompt.    *)
LEMMA SubmitAfterReleaseReady ==
    ASSUME NEW k, NEW m, NEW c, Ready(k, m, {}, c), NEW id, NEW text
    PROVE  \A d \in SubmitAfterRelease(c, id, text) : Ready(k, m, {}, d)
<1> DEFINE n == NoteExit(c)
           submitted(e) == UNION {SubmitPrompt(f, id, text) : f \in TryDispatch(e)}
           revived == UNION {IF e.ok THEN submitted(e) ELSE {e} : e \in Revive(n)}
           easy == Healthy(n) \/ text = NoText \/ PhaseOf(n.s.ledger, id) = "Queued"
           any == "any"
<1>1. SubmitAfterRelease(c, id, text) = IF easy THEN SubmitPrompt(n, id, text) ELSE revived
  BY DEF SubmitAfterRelease, Then, Anyway
<1>2. Ready(k, m, {}, n)
  BY RestReady
<1> HIDE DEF n, any
<1>3. easy => \A d \in SubmitPrompt(n, id, text) : Ready(k, m, {}, d)
  <2>1. CASE Healthy(n)
    <3>1. Ready(k, any, {}, n)
      BY <1>2, <2>1, HealthyReady DEF any
    <3>2. any = "any"
      BY DEF any
    <3>3. \A d \in SubmitPrompt(n, id, text) : Ready(k, any, {}, d)
      BY <3>1, <3>2, SubmitPromptReady
    <3> QED
      BY <3>2, <3>3, AnyReady
  <2>2. CASE text = NoText \/ PhaseOf(n.s.ledger, id) = "Queued"
    BY <1>2, <2>2, SubmitPromptReady
  <2> QED
    BY <2>1, <2>2
<1>4. \A e : Ready(k, "any", {}, e) => \A d \in submitted(e) : Ready(k, m, {}, d)
  <2> SUFFICES ASSUME NEW e, Ready(k, "any", {}, e), NEW f \in TryDispatch(e),
                      NEW d \in SubmitPrompt(f, id, text)
               PROVE  Ready(k, m, {}, d)
    OBVIOUS
  <2>1. Ready(k, any, {}, f)
    BY TryDispatchReady DEF any
  <2>2. any = "any"
    BY DEF any
  <2>3. Ready(k, any, {}, d)
    BY <2>1, <2>2, SubmitPromptReady
  <2> QED
    BY <2>2, <2>3, AnyReady
<1> HIDE DEF submitted, easy
<1>5. \A d \in revived : Ready(k, m, {}, d)
  BY <1>2, <1>4, ReviveBetter DEF Better
<1> HIDE DEF revived
<1> QED
  BY <1>1, <1>3, <1>5

LEMMA CancelReady ==
    ASSUME NEW k, NEW m, NEW c, Ready(k, m, {}, c), NEW keepQueue
    PROVE  \A d \in Cancel(c, keepQueue) : Ready(k, m, {}, d)
<1> DEFINE l == RemoveQueued(c.s.ledger)
           dropped == {IF d.ok THEN [d EXCEPT !.s.queue = <<>>] ELSE d : d \in Commit(c, l)}
           emptied == IF keepQueue THEN {Accepted(c)} ELSE dropped
           asked(d) == IF ~HasClient(d) THEN {Rejected(d)}
                       ELSE Faulty(d) \cup {Accepted(d)} \cup IF d.alive THEN {} ELSE {Rejected(d)}
           cancelled(d) == IF d.s.active = None THEN d ELSE [d EXCEPT !.s.active.cancel = TRUE]
           first == UNION {IF d.ok THEN asked(d) ELSE {d} : d \in emptied}
           Mine(d) == Ready(k, m, {}, d)
<1>1. Cancel(c, keepQueue) = UNION {IF d.ok THEN MaybeLog(cancelled(d)) ELSE {d} : d \in first}
  BY DEF Cancel, Then
<1>2. Committable(l, c.rows)
  <2>1. Good(c.rows, {}, c)
    BY ReadyForm, FineGood
  <2>2. Committable(c.s.ledger, c.rows)
    BY <2>1, GoodFacts
  <2> QED
    BY <2>2, RemoveQueuedFine
<1> HIDE DEF l
<1>3. \A d \in dropped : Mine(d)
  <2>1. \A d \in Commit(c, l) : Mine(d)
    BY <1>2, CommitReady
  <2> QED
    BY <2>1, EmptyReady
<1> HIDE DEF dropped
<1>4. \A d \in emptied : Mine(d)
  BY <1>3, RestReady
<1> HIDE DEF emptied
<1>5. \A d : Mine(d) => \A e \in asked(d) : Mine(e)
  BY RestReady
<1> HIDE DEF asked
<1>6. \A d \in first : Mine(d)
  <2> HIDE DEF Mine
  <2> QED
    BY <1>4, <1>5
<1> HIDE DEF first
<1>7. ASSUME NEW d, Mine(d)
      PROVE  Mine(cancelled(d))
  <2>1. Form(d) /\ Good(d.rows, {}, d)
    BY <1>7, ReadyForm, FineGood
  <2>2. Kin(d, [d EXCEPT !.s.active.cancel = TRUE])
    BY <2>1, FieldsKin
  <2>3. CASE d.s.active = None
    BY <1>7, <2>3
  <2>4. CASE d.s.active # None
    <3>1. Good(d.rows, {}, [d EXCEPT !.s.active.cancel = TRUE])
      BY <2>1, <2>4, CancelledGood
    <3>2. Ready(k, m, {}, [d EXCEPT !.s.active.cancel = TRUE])
      BY <1>7, <2>2, <3>1, KinGoodReady
    <3> QED
      BY <2>4, <3>2
  <2> QED
    BY <2>3, <2>4
<1> HIDE DEF cancelled
<1>8. \A d : Mine(d) => \A e \in MaybeLog(d) : Mine(e)
  BY RestReady
<1> HIDE DEF Mine
<1>9. \A d \in Cancel(c, keepQueue) : Mine(d)
  BY <1>1, <1>6, <1>7, <1>8
<1> QED
  BY <1>9 DEF Mine

LEMMA InterruptDispatchingReady ==
    ASSUME NEW k, NEW m, NEW c, Ready(k, m, {}, c), NEW id, NEW events,
           PhaseOf(c.s.ledger, id) = "Dispatching"
    PROVE  \A d \in CommitWithEvents(c, MarkInterrupted(c.s.ledger, id), events) :
              Ready(k, m, {}, d)
<1> DEFINE l == MarkInterrupted(c.s.ledger, id)
<1>1. Has(c.s.ledger, id) /\ Of(c.s.ledger, id).phase = "Dispatching"
  BY DEF PhaseOf
<1>2. Of(c.s.ledger, id) \in Elems(c.s.ledger) /\ Of(c.s.ledger, id).id = id
  BY <1>1, OfHas
<1>3. Good(c.rows, {}, c)
  BY ReadyForm, FineGood
<1>4. Durable(c.rows, id)
  BY <1>1, <1>2, <1>3 DEF Good, Fine, SessionFine, LedgerFine
<1>5. Committable(c.s.ledger, c.rows)
  BY <1>3, GoodFacts
<1>6. Committable(l, c.rows)
  BY <1>4, <1>5, MarkInterruptedFine
<1> HIDE DEF l
<1>7. \A d \in CommitWithEvents(c, l, events) : Ready(k, m, {}, d)
  BY <1>6, CommitReady
<1> QED
  BY <1>7 DEF l

(* What a restart sends again, it sends after the new agent is in place.   *)
LEMMA RestartReady ==
    ASSUME NEW k, NEW m, NEW c, Ready(k, m, {}, c)
    PROVE  \A d \in Restart(c) : Ready(k, m, {}, d)
<1> DEFINE f == InFlight(c)
           events == FALSE
           any == "any"
           interrupted(d) ==
               IF f # None /\ PhaseOf(d.s.ledger, f.id) = "Dispatching"
               THEN CommitWithEvents(d, MarkInterrupted(d.s.ledger, f.id), events)
               ELSE {d}
           again(d) == f # None /\ PhaseOf(d.s.ledger, f.id) = "Interrupted"
           submitted(d, e) == IF again(d) THEN SubmitPrompt(e, RestartId(f.id), f.text) ELSE {e}
           dispatched(d, e) == UNION {submitted(d, g) : g \in TryDispatch(e)}
           resent(d) == UNION {IF e.ok THEN dispatched(d, e) ELSE {e} : e \in Log(d)}
           replaced == IF HasClient(c) THEN Respawn(c) ELSE AcquireKeepingHolders(c)
           settled == UNION {IF d.ok THEN interrupted(d) ELSE {d} : d \in replaced}
           Any(d) == Ready(k, any, {}, d)
           Mine(d) == Ready(k, m, {}, d)
<1>1. Restart(c) = UNION {IF d.ok THEN resent(d) ELSE {d} : d \in settled}
  BY DEF Restart, Then, Anyway
<1>2. any = "any"
  OBVIOUS
<1> HIDE DEF f, events, any
<1>3. \A d \in replaced : Mine(d) /\ (d.ok => Any(d))
  <2>1. \A d \in replaced : Better(k, m, d)
    BY RespawnBetter, KeepingHoldersBetter
  <2> QED
    BY <1>2, <2>1 DEF Better
<1> HIDE DEF replaced
<1>4. \A d : Any(d) => \A e \in interrupted(d) : Any(e)
  BY InterruptDispatchingReady
<1> HIDE DEF interrupted
<1>5. \A d : Any(d) => Mine(d)
  BY <1>2, AnyReady
<1>6. \A d \in settled : Mine(d) /\ (d.ok => Any(d))
  <2> HIDE DEF Any, Mine
  <2> QED
    BY <1>3, <1>4, <1>5
<1> HIDE DEF settled, again
<1>7. \A d, e : Any(e) => \A g \in submitted(d, e) : Any(g)
  BY <1>2, SubmitPromptReady
<1> HIDE DEF submitted
<1>8. \A e : Any(e) => \A g \in TryDispatch(e) : Any(g)
  BY TryDispatchReady
<1>9. \A d, e : Any(e) => \A g \in dispatched(d, e) : Any(g)
  <2> HIDE DEF Any
  <2> QED
    BY <1>7, <1>8
<1> HIDE DEF dispatched
<1>10. \A d : Any(d) => \A e \in Log(d) : Any(e)
  BY RestReady
<1>11. \A d : Any(d) => \A e \in resent(d) : Any(e)
  <2> HIDE DEF Any
  <2> QED
    BY <1>9, <1>10
<1> HIDE DEF resent, Any, Mine
<1>12. \A d \in Restart(c) : Mine(d)
  BY <1>1, <1>5, <1>6, <1>11
<1> QED
  BY <1>12 DEF Mine

-----------------------------------------------------------------------------
(* The poll, and the end of the actor.                                     *)

LEMMA FlushReady ==
    ASSUME NEW k, NEW m, NEW c, Ready(k, m, {}, c)
    PROVE  \A d \in Flush(c) : Ready(k, m, {}, d)
  BY FinalizeReady, RestReady DEF Flush

LEMMA RetryBacklogReady ==
    ASSUME NEW k, NEW m, NEW c, Ready(k, m, {}, c)
    PROVE  \A d \in RetryBacklog(c) : Ready(k, m, {}, d)
  BY RestReady DEF RetryBacklog

LEMMA ResumeQueuedReady ==
    ASSUME NEW k, NEW m, NEW c, Ready(k, m, {}, c)
    PROVE  \A d \in ResumeQueued(c) : Ready(k, m, {}, d)
<1> DEFINE forgot(d) == Note([d EXCEPT !.s.queue = <<>>])
<1>1. ResumeQueued(c) \in {{c}, UNION {IF d.ok THEN {d} ELSE forgot(d) : d \in Revive(c)}}
  BY DEF ResumeQueued
<1>2. \A d : Ready(k, m, {}, d) => \A e \in forgot(d) : Ready(k, m, {}, e)
  BY EmptyReady, RestReady
<1> HIDE DEF forgot
<1>3. \A d \in Revive(c) : Ready(k, m, {}, d)
  BY ReviveBetter DEF Better
<1> QED
  BY <1>1, <1>2, <1>3

LEMMA TickReady ==
    ASSUME NEW k, NEW m, NEW c, Ready(k, m, {}, c)
    PROVE  \A d \in Tick(c) : Ready(k, m, {}, d)
<1> DEFINE retried == UNION {RetryBacklog(d) : d \in RetryPending(c)}
           pumped(d) == IF HasClient(d) THEN Pump(d) ELSE {d}
           resumed(d) == UNION {ResumeQueued(e) : e \in pumped(d)}
<1>1. Tick(c) = UNION {resumed(d) : d \in retried}
  BY DEF Tick, Anyway
<1>2. \A d \in retried : Ready(k, m, {}, d)
  BY RetryPendingReady, RetryBacklogReady
<1> HIDE DEF retried
<1>3. \A d : Ready(k, m, {}, d) => \A e \in pumped(d) : Ready(k, m, {}, e)
  BY PumpReady
<1> HIDE DEF pumped
<1>4. \A d : Ready(k, m, {}, d) => \A e \in resumed(d) : Ready(k, m, {}, e)
  BY <1>3, ResumeQueuedReady
<1> HIDE DEF resumed
<1> QED
  BY <1>1, <1>2, <1>4

LEMMA ShutdownReady ==
    ASSUME NEW k, NEW m, NEW c, Ready(k, m, {}, c), NEW close
    PROVE  \A d \in Shutdown(c, close) : Ready(k, m, {}, d)
<1> DEFINE dropped(d) == IF close THEN Commit(d, RemoveQueued(d.s.ledger)) ELSE {d}
           killed(e) == IF HasClient(e) THEN MaybeLog(Kill(e)) ELSE {e}
           ended(d) == UNION {killed(e) : e \in dropped(d)}
<1>1. Shutdown(c, close) = UNION {ended(d) : d \in Flush(c)}
  BY DEF Shutdown, Anyway
<1>2. \A d : Ready(k, m, {}, d) => \A e \in dropped(d) : Ready(k, m, {}, e)
  <2> SUFFICES ASSUME NEW d, Ready(k, m, {}, d), NEW e \in Commit(d, RemoveQueued(d.s.ledger))
               PROVE  Ready(k, m, {}, e)
    BY Zenon
  <2>1. Good(d.rows, {}, d)
    BY ReadyForm, FineGood
  <2>2. Committable(d.s.ledger, d.rows)
    BY <2>1, GoodFacts
  <2>3. Committable(RemoveQueued(d.s.ledger), d.rows)
    BY <2>2, RemoveQueuedFine
  <2> QED
    BY <2>3, CommitReady
<1> HIDE DEF dropped
<1>3. \A e : Ready(k, m, {}, e) => \A d \in killed(e) : Ready(k, m, {}, d)
  BY RestReady
<1> HIDE DEF killed
<1>4. \A d : Ready(k, m, {}, d) => \A e \in ended(d) : Ready(k, m, {}, e)
  BY <1>2, <1>3
<1> HIDE DEF ended
<1> QED
  BY <1>1, <1>4, FlushReady

-----------------------------------------------------------------------------
(* The specification.                                                      *)

(* A host has no actor, or its actor is Ready whenever it may dispatch.    *)
Kept(s, up, stored, received) ==
    \/ s = NoSession
    \/ /\ {"slot", "path"} \subseteq DOMAIN s /\ s.path = TRUE
       /\ up /\ s.slot = "live" => Matched(Named(s.queue), s.ledger, stored, received)

OnceInv ==
    /\ Distinct(sent)
    /\ \A h \in Hosts : Kept(sess[h], alive[h], rows, sent)

LEMMA KeepsMatched ==
    ASSUME NEW R, NEW S, Keeps(R, S), NEW K, NEW l, NEW x, Matched(K, l, R, x)
    PROVE  Matched(K, l, S, x)
  BY KeepsOver DEF Matched

LEMMA KeepsKept ==
    ASSUME NEW R, NEW S, Keeps(R, S), NEW s, NEW x, NEW up, Kept(s, up, R, x)
    PROVE  Kept(s, up, S, x)
  BY KeepsMatched DEF Kept

(* A configuration that shares the agents and the rows with Load(h).       *)
AtStart(h, c) ==
    /\ Form(c)
    /\ c.host = h /\ c.agents = Load(h).agents /\ c.run = run /\ c.alive = alive[h]
    /\ c.sent = sent /\ c.rows = rows

LEMMA AtStartReady ==
    ASSUME AgentInv, OnceInv, NEW h \in Hosts, NEW c, AtStart(h, c), Good(rows, {}, c),
           c.s.path = TRUE,
           Healthy(c) => Matched(Named(c.s.queue), c.s.ledger, rows, sent)
    PROVE  Ready(Load(h), "live", {}, c)
<1> DEFINE k == Load(h)
           K == {} \cup Named(c.s.queue)
<1>1. k.agents = {g \in Hosts \ {h} : alive[g]} /\ k.sent = sent
  BY DEF Load
<1>2. c.agents = k.agents /\ c.sent = k.sent
  BY <1>1 DEF AtStart
<1> HIDE DEF k
<1>3. ASSUME c.agents # {}
      PROVE  ~c.alive /\ c.run.boot # c.host /\ c.run.child \in c.agents
  <2>1. PICK g \in Hosts \ {h} : alive[g]
    BY <1>1, <1>2, <1>3
  <2>2. run.child = g /\ run.boot = g
    BY <2>1 DEF AgentInv
  <2>3. ~alive[h]
    BY <2>1, <2>2 DEF AgentInv
  <2>4. g \in c.agents
    BY <1>1, <1>2, <2>1
  <2> QED
    BY <2>1, <2>2, <2>3, <2>4 DEF AtStart
<1>4. Apart(k, c)
  BY <1>2, <1>3 DEF Apart
<1>5. K = Named(c.s.queue)
  OBVIOUS
<1> HIDE DEF K
<1>6. Serves("live", c) => Matched(K, c.s.ledger, c.rows, c.sent)
  BY <1>5 DEF Serves, AtStart
<1>7. Form(c) /\ Fine(c) /\ Distinct(c.sent)
  BY DEF AtStart, Good, OnceInv
<1>8. Told(k, "live", K, c)
  BY <1>4, <1>6, <1>7 DEF Told
<1> QED
  BY <1>8 DEF Ready, K, k

LEMMA LoadReady ==
    ASSUME IInv, AgentInv, OnceInv, NEW h \in Hosts, Running(h)
    PROVE  Ready(Load(h), "live", {}, Load(h))
<1> DEFINE c == Load(h)
<1>1. sess[h] # NoSession
  BY DEF Running, NoSession
<1>2. /\ {"slot", "path"} \subseteq DOMAIN sess[h] /\ sess[h].path = TRUE
      /\ alive[h] /\ sess[h].slot = "live" =>
            Matched(Named(sess[h].queue), sess[h].ledger, rows, sent)
  BY <1>1 DEF OnceInv, Kept
<1>3. {"ledger", "queue", "active", "pending"} \subseteq DOMAIN sess[h]
  BY DEF IInv, SessionsFine
<1>4. Good(rows, {}, c)
  BY LoadGood
<1>5. c.s = sess[h] /\ c.alive = alive[h]
  BY DEF Load
<1>6. AtStart(h, c)
  BY <1>2, <1>3 DEF AtStart, Form, Load
<1> HIDE DEF c
<1>7. Healthy(c) => Matched(Named(c.s.queue), c.s.ledger, rows, sent)
  BY <1>2, <1>5 DEF Healthy
<1>8. Ready(Load(h), "live", {}, c)
  BY <1>2, <1>4, <1>5, <1>6, <1>7, AtStartReady
<1> QED
  BY <1>8 DEF c

(* A handler's effect on the host that ran it and on all the others.       *)
LEMMA ApplyOnce ==
    ASSUME IInv, OnceInv, NEW h \in Hosts, NEW c, Apply(h, c), Keeps(rows, c.rows),
           Distinct(c.sent), c.agents \subseteq Load(h).agents, c.agents # {} => c.sent = sent,
           ~c.crashed => Kept(c.s, c.alive, c.rows, c.sent)
    PROVE  OnceInv'
<1> DEFINE s == IF c.crashed THEN NoSession ELSE c.s
<1>1. rows' = c.rows /\ sent' = c.sent /\ sess' = [sess EXCEPT ![h] = s]
  BY DEF Apply
<1>2. PICK survives \in IF c.crashed /\ c.run.child = h THEN BOOLEAN ELSE {~c.crashed} :
         alive' = [g \in Hosts |-> IF g = h THEN c.alive /\ survives ELSE g \in c.agents]
  BY DEF Apply
<1>3. ASSUME NEW g \in Hosts, g # h
      PROVE  Kept(sess'[g], alive'[g], rows', sent')
  <2>1. sess'[g] = sess[g]
    BY <1>1, <1>3 DEF IInv, SessionsFine
  <2>2. Kept(sess[g], alive[g], rows, sent)
    BY DEF OnceInv
  <2>3. CASE g \in c.agents
    <3>1. alive[g]
      BY <2>3 DEF Load
    <3>2. sent' = sent
      BY <1>1, <2>3
    <3>3. Kept(sess[g], alive'[g], rows, sent)
      BY <2>2, <3>1 DEF Kept
    <3>4. Kept(sess[g], alive'[g], c.rows, sent)
      BY <3>3, KeepsKept
    <3> QED
      BY <1>1, <2>1, <3>2, <3>4
  <2>4. CASE g \notin c.agents
    <3>1. ~alive'[g]
      BY <1>2, <1>3, <2>4
    <3> QED
      BY <2>1, <2>2, <3>1 DEF Kept
  <2> QED
    BY <2>3, <2>4
<1>4. Kept(sess'[h], alive'[h], rows', sent')
  <2>1. sess'[h] = s
    BY <1>1 DEF IInv, SessionsFine
  <2>2. CASE c.crashed
    BY <2>1, <2>2 DEF Kept
  <2>3. CASE ~c.crashed
    <3>1. alive'[h] => c.alive
      BY <1>2
    <3>2. Kept(c.s, c.alive, c.rows, c.sent)
      BY <2>3
    <3>3. Kept(c.s, alive'[h], c.rows, c.sent)
      BY <3>1, <3>2 DEF Kept
    <3> QED
      BY <1>1, <2>1, <2>3, <3>3
  <2> QED
    BY <2>2, <2>3
<1>5. \A g \in Hosts : Kept(sess'[g], alive'[g], rows', sent')
  BY <1>3, <1>4
<1> QED
  BY <1>1, <1>5 DEF OnceInv

LEMMA ReadyApply ==
    ASSUME NEW h \in Hosts, NEW c, Ready(Load(h), "live", {}, c)
    PROVE  /\ Distinct(c.sent) /\ c.agents \subseteq Load(h).agents
           /\ c.agents # {} => c.sent = sent
           /\ ~c.crashed => Kept(c.s, c.alive, c.rows, c.sent)
<1> DEFINE k == Load(h)
           K == {} \cup Named(c.s.queue)
<1>1. k.sent = sent
  BY DEF Load
<1> HIDE DEF k
<1>2. Told(k, "live", K, c)
  BY DEF Ready, k
<1>3. K = Named(c.s.queue)
  OBVIOUS
<1> HIDE DEF K
<1>4. Distinct(c.sent) /\ c.agents = k.agents /\ (c.agents # {} => c.sent = k.sent)
  BY <1>2 DEF Told, Apart
<1>5. ~c.crashed => Kept(c.s, c.alive, c.rows, c.sent)
  BY <1>2, <1>3 DEF Told, Form, Serves, Healthy, Kept
<1> QED
  BY <1>1, <1>4, <1>5 DEF k

LEMMA CommandOnce ==
    ASSUME IInv, OnceInv, NEW h \in Hosts, NEW S, Command(h, S),
           \A c \in S : Good(rows, {}, c) /\ Ready(Load(h), "live", {}, c)
    PROVE  OnceInv'
<1>1. PICK c \in S : Apply(h, c)
  BY DEF Command
<1>2. Keeps(rows, c.rows)
  BY DEF Good
<1>3. /\ Distinct(c.sent) /\ c.agents \subseteq Load(h).agents
      /\ c.agents # {} => c.sent = sent
      /\ ~c.crashed => Kept(c.s, c.alive, c.rows, c.sent)
  BY ReadyApply
<1> QED
  BY <1>1, <1>2, <1>3, ApplyOnce

(* A handler that runs no part of the actor.                               *)
Bare(h, c) ==
    /\ {"sent", "s", "alive", "agents", "rows"} \subseteq DOMAIN c
    /\ c.sent = sent /\ c.s = sess[h] /\ c.alive = alive[h] /\ c.agents \subseteq Load(h).agents

LEMMA BareSteps ==
    ASSUME NEW h, NEW c, Bare(h, c)
    PROVE  /\ \A d \in Write(c) \cup Read(c) \cup Faulty(c) \cup {Accepted(c), Crashed(c)} :
                 Bare(h, d)
           /\ Bare(h, [c EXCEPT !.run.child = NoHost])
           /\ Bare(h, [c EXCEPT !.agents = @ \ {c.run.child}])
           /\ \A l : Bare(h, [c EXCEPT !.rows = PlanApply(@, l)])
<1>1. \A d \in Faulty(c) \cup {Accepted(c), Rejected(c), Crashed(c)} : Bare(h, d)
  BY DEF Bare, Faulty, Accepted, Rejected, Crashed
<1>2. \A d \in Write(c) : Bare(h, d)
  <2>1. \A g : Bare(h, [c EXCEPT !.ok = FALSE, !.owner = g, !.claimed[g] = TRUE])
    BY DEF Bare
  <2> QED
    BY <1>1, <2>1 DEF Write
<1>3. \A d \in Read(c) : Bare(h, d)
  BY <1>1 DEF Read
<1>4. Bare(h, [c EXCEPT !.run.child = NoHost])
  BY DEF Bare
<1>5. Bare(h, [c EXCEPT !.agents = @ \ {c.run.child}])
  BY DEF Bare
<1>6. \A l : Bare(h, [c EXCEPT !.rows = PlanApply(@, l)])
  BY DEF Bare
<1> QED
  BY <1>1, <1>2, <1>3, <1>4, <1>5, <1>6

LEMMA LoadBare == \A h : Bare(h, Load(h))
  BY DEF Bare, Load

LEMMA BareOnce ==
    ASSUME IInv, OnceInv, NEW h \in Hosts, NEW c, Bare(h, c), Good(rows, {}, c), Apply(h, c)
    PROVE  OnceInv'
<1>1. Keeps(rows, c.rows)
  BY DEF Good
<1>2. Kept(sess[h], alive[h], c.rows, sent)
  BY <1>1, KeepsKept DEF OnceInv
<1>3. Kept(c.s, c.alive, c.rows, c.sent)
  BY <1>2 DEF Bare
<1>4. Distinct(c.sent)
  BY DEF OnceInv, Bare
<1> QED
  BY <1>1, <1>3, <1>4, ApplyOnce DEF Bare

LEMMA SweepOnce ==
    ASSUME IInv, OnceInv, NEW h \in Hosts, Sweep(h)
    PROVE  OnceInv'
<1>1. PICK c \in SweepChild(Load(h)) : \E d \in RecoverInterrupted(c) : Apply(h, d)
  BY DEF Sweep
<1>2. PICK d \in RecoverInterrupted(c) : Apply(h, d)
  BY <1>1
<1>3. Good(rows, {}, d)
  BY LoadGood, SweepChildGood, RecoverInterruptedGood
<1>4. \A e : Bare(h, e) => \A f \in SweepChild(e) : Bare(h, f)
  <2> SUFFICES ASSUME NEW e, Bare(h, e)
               PROVE  \A f \in SweepChild(e) : Bare(h, f)
    OBVIOUS
  <2> DEFINE cleared(f) == [f EXCEPT !.run.child = NoHost]
             spared == [e EXCEPT !.agents = @ \ {e.run.child}]
             killed == IF e.run.child \in e.agents THEN {spared} \cup Faulty(e) ELSE {e}
             noted(f) == {IF g.ok THEN cleared(g) ELSE g : g \in Write(f)}
             all == UNION {IF f.ok THEN noted(f) ELSE {f} : f \in killed}
  <2>1. SweepChild(e) \in {{e}, all}
    BY DEF SweepChild, Then
  <2>2. \A f : Bare(h, f) => Bare(h, cleared(f))
    BY BareSteps
  <2>3. Bare(h, spared)
    BY BareSteps
  <2> HIDE DEF cleared, spared
  <2>4. \A f \in killed : Bare(h, f)
    BY <2>3, BareSteps
  <2> HIDE DEF killed
  <2>5. \A f : Bare(h, f) => \A g \in noted(f) : Bare(h, g)
    BY <2>2, BareSteps
  <2> HIDE DEF noted
  <2>6. \A f \in all : Bare(h, f)
    BY <2>4, <2>5
  <2> HIDE DEF all
  <2> QED
    BY <2>1, <2>6
<1>5. Bare(h, c)
  BY <1>4, LoadBare
<1>6. Bare(h, d)
  <2> DEFINE l == RecoverAfterRestart(LedgerFromRows(c.rows))
             applied(e) == [e EXCEPT !.rows = PlanApply(@, l)]
             saved(e) == IF l = LedgerFromRows(e.rows) THEN {e}
                         ELSE {IF f.ok THEN applied(f) ELSE f : f \in Write(e)}
  <2>1. RecoverInterrupted(c) \in
           {{Accepted(c)}, UNION {IF e.ok THEN saved(e) ELSE {e} : e \in Read(c)}}
    BY DEF RecoverInterrupted, Then
  <2> HIDE DEF l
  <2>2. \A e : Bare(h, e) => Bare(h, applied(e))
    BY BareSteps
  <2> HIDE DEF applied
  <2>3. \A e : Bare(h, e) => \A f \in saved(e) : Bare(h, f)
    BY <2>2, BareSteps
  <2> HIDE DEF saved
  <2>4. \A e \in Read(c) \cup {Accepted(c)} : Bare(h, e)
    BY <1>5, BareSteps
  <2> QED
    BY <2>1, <2>3, <2>4
<1> QED
  BY <1>2, <1>3, <1>6, BareOnce

LEMMA DiscardQueuedOnce ==
    ASSUME IInv, OnceInv, NEW h \in Hosts, DiscardQueued(h)
    PROVE  OnceInv'
<1> DEFINE l == RemoveQueued(LedgerFromRows(rows))
           c == Load(h)
<1>1. Committable(l, rows) /\ PlanOK(rows, l)
  BY DiscardedOK DEF IInv
<1>2. PICK d \in Read(c) : \E e \in {d} \cup Write(d) :
         Apply(h, IF e.ok THEN [e EXCEPT !.rows = PlanApply(@, l)] ELSE e)
  <2> HIDE DEF c
  <2> QED
    BY DEF DiscardQueued, c
<1>3. PICK e \in {d} \cup Write(d) :
         Apply(h, IF e.ok THEN [e EXCEPT !.rows = PlanApply(@, l)] ELSE e)
  BY <1>2
<1> HIDE DEF l
<1>4. Good(rows, {}, c) /\ c.rows = rows /\ Bare(h, c)
  BY LoadGood, LoadBare
<1> HIDE DEF c
<1>5. Good(rows, {}, d) /\ d.rows = rows /\ Bare(h, d)
  <2>1. Good(rows, {}, d) /\ d.rows = rows
    BY <1>4, AlikeAll DEF Alike
  <2>2. Bare(h, d)
    BY <1>4, BareSteps
  <2> QED
    BY <2>1, <2>2
<1>6. Good(rows, {}, e) /\ e.rows = rows /\ Bare(h, e)
  <2>1. Good(rows, {}, d) /\ d.rows = rows
    BY <1>5
  <2>2. \A f \in Write(d) : Good(rows, {}, f) /\ f.rows = rows
    BY <2>1, AlikeAll DEF Alike
  <2>3. Bare(h, e)
    BY <1>5, BareSteps
  <2> QED
    BY <2>1, <2>2, <2>3
<1>7. Good(rows, {}, [e EXCEPT !.rows = PlanApply(@, l)])
  BY <1>1, <1>6, AppliedGood
<1>8. Bare(h, [e EXCEPT !.rows = PlanApply(@, l)])
  BY <1>6, BareSteps
<1> DEFINE f == IF e.ok THEN [e EXCEPT !.rows = PlanApply(@, l)] ELSE e
<1>9. Good(rows, {}, f) /\ Bare(h, f) /\ Apply(h, f)
  BY <1>3, <1>6, <1>7, <1>8
<1> HIDE DEF f
<1> QED
  BY <1>9, BareOnce

(* A started actor has neither a queue nor an agent.                       *)
LEMMA StartedReady ==
    ASSUME IInv, AgentInv, OnceInv, NEW h \in Hosts,
           NEW d \in Read([Load(h) EXCEPT !.lost = FALSE]),
           NEW s, {"ledger", "queue", "active", "pending", "slot", "path"} \subseteq DOMAIN s,
           s.slot = "absent", Good(rows, {}, [d EXCEPT !.s = s])
    PROVE  LET e == [d EXCEPT !.s = s]
           IN /\ Form(e) /\ ~e.lost
              /\ Ready(Load(h), "live", {}, [e EXCEPT !.s.path = TRUE])
<1> DEFINE c == [Load(h) EXCEPT !.lost = FALSE]
           e == [d EXCEPT !.s = s]
           g == [e EXCEPT !.s.path = TRUE]
           AtHost(f) == /\ {"host", "agents", "run", "alive", "crashed", "ok", "rows", "sent", "s",
                            "lost"} \subseteq DOMAIN f
                        /\ f.host = h /\ f.agents = Load(h).agents /\ f.run = run
                        /\ f.alive = alive[h] /\ f.sent = sent /\ f.rows = rows /\ f.lost = FALSE
<1>1. AtHost(c)
  BY DEF Load
<1> HIDE DEF c
<1>2. AtHost(d)
  <2>1. d \in {Accepted(c)} \cup Faulty(c)
    BY DEF Read, c
  <2>2. AtHost(Accepted(c))
    BY <1>1 DEF Accepted
  <2>3. \A f \in Faulty(c) : AtHost(f)
    BY <1>1 DEF Faulty
  <2> QED
    BY <2>1, <2>2, <2>3
<1>3. AtHost(e) /\ e.s = s
  BY <1>2
<1> HIDE DEF e
<1>4. Form(e) /\ ~e.lost
  BY <1>3 DEF Form
<1>5. AtStart(h, g) /\ g.s.path = TRUE /\ g.s.slot = "absent"
  BY <1>3 DEF AtStart, Form
<1>6. Good(rows, {}, g)
  <2>1. Good(rows, {}, e)
    BY DEF e
  <2> QED
    BY <2>1, FieldsGood
<1> HIDE DEF g
<1>7. Ready(Load(h), "live", {}, g)
  BY <1>5, <1>6, AtStartReady DEF Healthy
<1> QED
  BY <1>4, <1>7 DEF e, g

LEMMA AttachOnce ==
    ASSUME IInv, AgentInv, OnceInv, NEW h \in Hosts, NEW other, Attach(h, other)
    PROVE  OnceInv'
<1> DEFINE c == [Load(h) EXCEPT !.lost = FALSE]
           started == IF sess[h].actor THEN {c} ELSE SpawnActor(c)
           all == UNION {Acquire(d, other) : d \in started}
           Sets(d) == /\ Form(d) /\ ~d.lost
                      /\ Ready(Load(h), "live", {}, [d EXCEPT !.s.path = TRUE])
<1>1. Command(h, all)
  BY DEF Attach, Anyway
<1>2. Good(rows, {}, c)
  BY LoadGood, FieldsGood
<1>3. \A d \in started : Good(rows, {}, d)
  <2> HIDE DEF c
  <2> QED
    BY <1>2, SpawnActorGood
<1>4. ASSUME sess[h].actor
      PROVE  Sets(c)
  <2> DEFINE k == Load(h)
             e == [c EXCEPT !.s.path = TRUE]
  <2>1. Running(h)
    BY <1>4 DEF Attach, Running
  <2>2. Ready(k, "live", {}, k)
    BY <2>1, LoadReady
  <2>3. Form(k) /\ k.s.path = TRUE
    BY <2>2 DEF Ready, Told
  <2>4. "lost" \in DOMAIN k
    BY DEF Load
  <2>5. Kin(k, c) /\ Form(c) /\ ~c.lost
    BY <2>3, <2>4 DEF Kin, Near, Form, Healthy
  <2>6. Kin(k, e)
    BY <2>3, <2>4 DEF Kin, Near, Form, Healthy
  <2>7. Good(rows, {}, e)
    BY <1>2, FieldsGood
  <2> HIDE DEF c, k
  <2>8. Fine(e)
    BY <2>7 DEF Good
  <2> HIDE DEF e
  <2>9. Ready(k, "live", {}, e)
    BY <2>2, <2>6, <2>8, KinReady
  <2> QED
    BY <2>5, <2>9 DEF e, k
<1>5. ASSUME NEW d \in SpawnActor(c)
      PROVE  Sets(d)
  <2>1. PICK f \in Read(c) :
           d = [f EXCEPT !.s = [NoSession EXCEPT !.actor = TRUE, !.unusable = ~f.ok,
                                  !.ledger = IF f.ok THEN LedgerFromRows(f.rows) ELSE <<>>]]
    BY <1>5 DEF SpawnActor
  <2> DEFINE s == [NoSession EXCEPT !.actor = TRUE, !.unusable = ~f.ok,
                                  !.ledger = IF f.ok THEN LedgerFromRows(f.rows) ELSE <<>>]
  <2>2. /\ {"ledger", "queue", "active", "pending", "slot", "path"} \subseteq DOMAIN s
        /\ s.slot = "absent"
    BY DEF NoSession
  <2>3. d = [f EXCEPT !.s = s]
    BY <2>1
  <2> HIDE DEF s
  <2>4. Good(rows, {}, d)
    <3> HIDE DEF c
    <3> QED
      BY <1>2, <1>5, SpawnActorGood
  <2>5. Good(rows, {}, [f EXCEPT !.s = s])
    BY <2>3, <2>4
  <2>6. /\ Form([f EXCEPT !.s = s]) /\ ~[f EXCEPT !.s = s].lost
        /\ Ready(Load(h), "live", {}, [[f EXCEPT !.s = s] EXCEPT !.s.path = TRUE])
    BY <2>2, <2>5, StartedReady
  <2> QED
    BY <2>3, <2>6
<1>6. \A d \in started : Sets(d)
  <2> HIDE DEF c, Sets
  <2> QED
    BY <1>4, <1>5
<1> HIDE DEF c, started
<1>7. \A d : Sets(d) => \A e \in Acquire(d, other) : Ready(Load(h), "live", {}, e)
  BY AcquireBetter DEF Better
<1>8. \A d \in started : \A e \in Acquire(d, other) : Good(rows, {}, e)
  BY <1>3, AcquireGood
<1> HIDE DEF Sets
<1>9. \A e \in all : Good(rows, {}, e) /\ Ready(Load(h), "live", {}, e)
  BY <1>6, <1>7, <1>8
<1> HIDE DEF all
<1> QED
  BY <1>1, <1>9, CommandOnce

LEMMA DetachOnce ==
    ASSUME IInv, AgentInv, OnceInv, NEW h \in Hosts, Detach(h)
    PROVE  OnceInv'
<1> DEFINE v == sess[h].holders - 1
           k == Load(h)
           c == [k EXCEPT !.s.holders = v]
<1>1. c = [Load(h) EXCEPT !.s.holders = @ - 1]
  BY DEF Load
<1> HIDE DEF v
<1>2. Good(rows, {}, c)
  BY LoadGood, FieldsGood
<1>3. Command(h, {c})
  BY <1>1 DEF Detach
<1>4. Ready(k, "live", {}, k)
  BY LoadReady DEF Detach
<1> HIDE DEF k
<1>5. Form(k)
  BY <1>4, ReadyForm
<1>6. Kin(k, c)
  BY <1>5, FieldsKin
<1> HIDE DEF c
<1>7. Fine(c)
  BY <1>2 DEF Good
<1>8. Ready(k, "live", {}, c)
  BY <1>4, <1>6, <1>7, KinReady
<1>9. \A d \in {c} : Good(rows, {}, d) /\ Ready(Load(h), "live", {}, d)
  BY <1>2, <1>8 DEF k
<1> QED
  BY <1>3, <1>9, CommandOnce

LEMMA EndedOnce ==
    ASSUME IInv, AgentInv, OnceInv, NEW h \in Hosts, Running(h), NEW close,
           Command(h, Ended(Shutdown(Load(h), close)))
    PROVE  OnceInv'
<1>1. PICK c \in Shutdown(Load(h), close) : Apply(h, [c EXCEPT !.s = NoSession])
  BY DEF Command, Ended
<1> DEFINE d == [c EXCEPT !.s = NoSession]
<1>2. Ready(Load(h), "live", {}, Load(h))
  BY LoadReady
<1>3. Ready(Load(h), "live", {}, c)
  BY <1>2, ShutdownReady
<1>4. Good(rows, {}, c)
  BY LoadGood, ShutdownGood
<1>5. Form(c)
  BY <1>3, ReadyForm
<1>6. /\ d.rows = c.rows /\ d.sent = c.sent /\ d.agents = c.agents /\ d.s = NoSession
  BY <1>5 DEF Form
<1>7. Apply(h, d)
  BY <1>1
<1> HIDE DEF d
<1>8. Keeps(rows, d.rows)
  BY <1>4, <1>6 DEF Good
<1>9. /\ Distinct(d.sent) /\ d.agents \subseteq Load(h).agents /\ (d.agents # {} => d.sent = sent)
  BY <1>3, <1>6, ReadyApply
<1>10. Kept(d.s, d.alive, d.rows, d.sent)
  BY <1>6 DEF Kept
<1> QED
  BY <1>7, <1>8, <1>9, <1>10, ApplyOnce

LEMMA ChildAnswersOnce ==
    ASSUME IInv, OnceInv, NEW h \in Hosts, NEW a, ChildAnswers(h, a)
    PROVE  OnceInv'
<1>1. /\ rows' = rows /\ sent' = sent /\ alive' = alive
      /\ sess' = [sess EXCEPT ![h].chan = a] /\ sess[h].active # None
  BY DEF ChildAnswers, dbVars
<1>2. ASSUME NEW g \in Hosts
      PROVE  Kept(sess'[g], alive[g], rows, sent)
  <2>1. Kept(sess[g], alive[g], rows, sent)
    BY DEF OnceInv
  <2>2. CASE g # h
    <3>1. sess'[g] = sess[g]
      BY <1>1, <2>2 DEF IInv, SessionsFine
    <3> QED
      BY <2>1, <3>1
  <2>3. CASE g = h
    <3> DEFINE s == sess[h]
    <3>1. s # NoSession /\ {"ledger", "queue", "active", "pending"} \subseteq DOMAIN s
      BY <1>1 DEF NoSession, IInv, SessionsFine
    <3>2. sess'[h] = [s EXCEPT !.chan = a]
      BY <1>1 DEF IInv, SessionsFine
    <3> HIDE DEF s
    <3>3. Kept(s, alive[h], rows, sent)
      BY <2>1, <2>3 DEF s
    <3>4. Kept([s EXCEPT !.chan = a], alive[h], rows, sent)
      BY <3>1, <3>3 DEF Kept
    <3> QED
      BY <2>3, <3>2, <3>4
  <2> QED
    BY <2>2, <2>3
<1> QED
  BY <1>1, <1>2 DEF OnceInv

LEMMA ChildExitsOnce ==
    ASSUME IInv, AgentInv, OnceInv, NEW h \in Hosts, ChildExits(h)
    PROVE  OnceInv'
<1>1. /\ rows' = rows /\ sent' = sent /\ sess' = sess
      /\ alive' = [alive EXCEPT ![h] = FALSE]
  BY DEF ChildExits, dbVars
<1>2. ASSUME NEW g \in Hosts
      PROVE  Kept(sess[g], alive'[g], rows, sent)
  <2>1. Kept(sess[g], alive[g], rows, sent)
    BY DEF OnceInv
  <2>2. alive'[g] => alive[g]
    BY <1>1 DEF AgentInv
  <2> QED
    BY <2>1, <2>2 DEF Kept
<1> QED
  BY <1>1, <1>2 DEF OnceInv

LEMMA StepOnce ==
    ASSUME IInv, AgentInv, OnceInv, [Next]_vars
    PROVE  OnceInv'
<1>1. CASE UNCHANGED vars
  BY <1>1 DEF vars, OnceInv
<1>2. ASSUME NEW h \in Hosts, StartHost(h) \/ ClaimLease(h) \/ ConfirmLease(h) \/ LoseLease(h)
      PROVE  OnceInv'
  BY <1>2 DEF StartHost, ClaimLease, ConfirmLease, LoseLease, dbVars, OnceInv
<1>3. ASSUME NEW h \in Hosts, Crash(h)
      PROVE  OnceInv'
  <2> DEFINE c == Crashed(Load(h))
  <2>1. Apply(h, c)
    BY <1>3 DEF Crash, Command
  <2>2. Bare(h, c)
    BY LoadBare, BareSteps
  <2>3. Good(rows, {}, c)
    BY LoadGood, AlikeAll
  <2> HIDE DEF c
  <2> QED
    BY <2>1, <2>2, <2>3, BareOnce
<1>4. ASSUME NEW h \in Hosts, Running(h)
      PROVE  Good(rows, {}, Load(h)) /\ Ready(Load(h), "live", {}, Load(h))
  BY <1>4, LoadGood, LoadReady
<1>5. ASSUME NEW h \in Hosts, NEW p, NEW t, Submit(h, p, t)
      PROVE  OnceInv'
  <2> DEFINE id == <<p, 0>>
             all == SubmitAfterRelease(Load(h), id, t)
  <2>1. Running(h) /\ Command(h, all)
    BY <1>5 DEF Submit
  <2> HIDE DEF id
  <2>2. \A c \in all : Good(rows, {}, c)
    BY <1>4, <2>1, SubmitAfterReleaseGood
  <2>3. \A c \in all : Ready(Load(h), "live", {}, c)
    BY <1>4, <2>1, SubmitAfterReleaseReady
  <2> HIDE DEF all
  <2> QED
    BY <2>1, <2>2, <2>3, CommandOnce
<1>6. ASSUME NEW h \in Hosts, NEW keepQueue, CancelTurn(h, keepQueue)
      PROVE  OnceInv'
  <2> DEFINE all == Cancel(Load(h), keepQueue)
  <2>1. Running(h) /\ Command(h, all)
    BY <1>6 DEF CancelTurn
  <2>2. \A c \in all : Good(rows, {}, c)
    BY <1>4, <2>1, CancelGood
  <2>3. \A c \in all : Ready(Load(h), "live", {}, c)
    BY <1>4, <2>1, CancelReady
  <2> HIDE DEF all
  <2> QED
    BY <2>1, <2>2, <2>3, CommandOnce
<1>7. ASSUME NEW h \in Hosts, RestartAgent(h)
      PROVE  OnceInv'
  <2> DEFINE all == Restart(Load(h))
  <2>1. Running(h) /\ Command(h, all)
    BY <1>7 DEF RestartAgent
  <2>2. \A c \in all : Good(rows, {}, c)
    BY <1>4, <2>1, RestartGood
  <2>3. \A c \in all : Ready(Load(h), "live", {}, c)
    BY <1>4, <2>1, RestartReady
  <2> HIDE DEF all
  <2> QED
    BY <2>1, <2>2, <2>3, CommandOnce
<1>8. ASSUME NEW h \in Hosts, ChangeConfig(h)
      PROVE  OnceInv'
  <2> DEFINE all == Respawn(Load(h))
  <2>1. Running(h) /\ Command(h, all)
    BY <1>8 DEF ChangeConfig
  <2>2. \A c \in all : Good(rows, {}, c)
    BY <1>4, <2>1, RespawnGood
  <2>3. \A c \in all : Ready(Load(h), "live", {}, c)
    BY <1>4, <2>1, RespawnBetter DEF Better
  <2> HIDE DEF all
  <2> QED
    BY <2>1, <2>2, <2>3, CommandOnce
<1>9. ASSUME NEW h \in Hosts, NEW takeHolder, ClearChat(h, takeHolder)
      PROVE  OnceInv'
  <2> DEFINE all == ClearContext(Load(h), takeHolder)
  <2>1. Running(h) /\ Command(h, all)
    BY <1>9 DEF ClearChat
  <2>2. \A c \in all : Good(rows, {}, c)
    BY <1>4, <2>1, ClearContextGood
  <2>3. \A c \in all : Ready(Load(h), "live", {}, c)
    BY <1>4, <2>1, ClearContextBetter
  <2> HIDE DEF all
  <2> QED
    BY <2>1, <2>2, <2>3, CommandOnce
<1>10. ASSUME NEW h \in Hosts, SwitchHarness(h)
       PROVE  OnceInv'
  <2> DEFINE all == Switch(Load(h))
  <2>1. Running(h) /\ Command(h, all)
    BY <1>10 DEF SwitchHarness
  <2>2. \A c \in all : Good(rows, {}, c)
    BY <1>4, <2>1, SwitchGood
  <2>3. \A c \in all : Ready(Load(h), "live", {}, c)
    BY <1>4, <2>1, SwitchBetter DEF Better
  <2> HIDE DEF all
  <2> QED
    BY <2>1, <2>2, <2>3, CommandOnce
<1>11. ASSUME NEW h \in Hosts, Poll(h)
       PROVE  OnceInv'
  <2> DEFINE all == Tick(Load(h))
  <2>1. Running(h) /\ Command(h, all)
    BY <1>11 DEF Poll
  <2>2. \A c \in all : Good(rows, {}, c)
    BY <1>4, <2>1, TickGood
  <2>3. \A c \in all : Ready(Load(h), "live", {}, c)
    BY <1>4, <2>1, TickReady
  <2> HIDE DEF all
  <2> QED
    BY <2>1, <2>2, <2>3, CommandOnce
<1>12. ASSUME NEW h \in Hosts, FlushActor(h)
       PROVE  OnceInv'
  <2> DEFINE all == Flush(Load(h))
  <2>1. Running(h) /\ Command(h, all)
    BY <1>12 DEF FlushActor
  <2>2. \A c \in all : Good(rows, {}, c)
    BY <1>4, <2>1, FlushGood
  <2>3. \A c \in all : Ready(Load(h), "live", {}, c)
    BY <1>4, <2>1, FlushReady
  <2> HIDE DEF all
  <2> QED
    BY <2>1, <2>2, <2>3, CommandOnce
<1>13. ASSUME NEW h \in Hosts, Evict(h) \/ DropSession(h)
       PROVE  OnceInv'
  <2>1. Running(h) /\ \E close \in BOOLEAN : Command(h, Ended(Shutdown(Load(h), close)))
    BY <1>13 DEF Evict, DropSession
  <2> QED
    BY <2>1, EndedOnce
<1> QED
  BY <1>1, <1>2, <1>3, <1>5, <1>6, <1>7, <1>8, <1>9, <1>10, <1>11, <1>12, <1>13,
     SweepOnce, AttachOnce, DetachOnce, DiscardQueuedOnce, ChildAnswersOnce, ChildExitsOnce
     DEF Next

(* SentAtMostOnce for any number of hosts, prompts, texts, faults and      *)
(* claims: across crashes, takeovers, failed writes and replaced agents,   *)
(* a prompt reaches an agent at most once.  The dispatch is committed      *)
(* before begin_prompt, and a slot is live only after                      *)
(* reject_foreign_live_child has seen no other agent and recover_prompts   *)
(* has read the rows, or a reset has emptied the queue.  From then on what *)
(* was sent is in the host's ledger as begun or is over in the rows, and   *)
(* plan_commit takes nothing back that is over.                            *)
THEOREM SentOnlyOnce == Spec => []SentAtMostOnce
<1> DEFINE Inv == IInv /\ AgentInv /\ OnceInv
<1>1. Init => Inv
  <2> SUFFICES ASSUME Init
               PROVE  AgentInv /\ OnceInv
    BY InitFine
  <2>1. AgentInv
    BY NoHostAssumption DEF Init, AgentInv
  <2>2. OnceInv
    BY NoList DEF Init, OnceInv, Kept, Distinct
  <2> QED
    BY <2>1, <2>2
<1>2. Inv /\ [Next]_vars => Inv'
  BY StepKeeps, StepSole, StepOnce
<1>3. Inv => SentAtMostOnce
  <2> SUFFICES ASSUME Distinct(sent), IsList(sent)
               PROVE  SentAtMostOnce
    BY DEF OnceInv, IInv, SentFine
  <2>1. DOMAIN sent = 1..Len(sent)
    BY DEF IsList
  <2> QED
    BY <2>1 DEF Distinct, SentAtMostOnce
<1> HIDE DEF Inv
<1> QED
  BY <1>1, <1>2, <1>3, PTL DEF Spec
=============================================================================
