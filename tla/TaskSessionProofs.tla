-------------------------- MODULE TaskSessionProofs --------------------------
(***************************************************************************)
(* Proofs about the prompt ledger and about TaskSession, for any hosts,    *)
(* prompts and texts and for any bounds.  First what every commit of a     *)
(* ledger does to the stored rows, then an invariant that relates the      *)
(* rows, the ledger and queue in the memory of every host, its turn and    *)
(* what agents have received; every handler keeps it whatever fails on     *)
(* the way.                                                                *)
(***************************************************************************)
EXTENDS TaskSession, FilterProofs, TLAPS

-----------------------------------------------------------------------------
(* The steps of a commit.                                                  *)

(* The path leads from one state to the other by allowed transitions. *)
Legal(from, path, to) ==
    /\ <<from, path[1]>> \in Allowed
    /\ \A i \in 1..(Len(path) - 1) : <<path[i], path[i + 1]>> \in Allowed
    /\ path[Len(path)] = to

(* A path of two allowed transitions is legal. *)
LEMMA TwoSteps ==
    ASSUME NEW from, NEW via, NEW to,
           <<from, via>> \in Allowed, <<via, to>> \in Allowed
    PROVE  Legal(from, <<via, to>>, to)
<1> DEFINE path == <<via, to>>
<1>1. Len(path) = 2 /\ path[1] = via /\ path[2] = to
  OBVIOUS
<1>2. ASSUME NEW i \in 1..(Len(path) - 1)
      PROVE  i = 1
  BY <1>1
<1> HIDE DEF path
<1>3. Legal(from, path, to)
  BY <1>1, <1>2 DEF Legal
<1> QED
  BY <1>3 DEF path

(* A path of three allowed transitions is legal. *)
LEMMA ThreeSteps ==
    ASSUME NEW from, NEW a, NEW b, NEW to,
           <<from, a>> \in Allowed, <<a, b>> \in Allowed, <<b, to>> \in Allowed
    PROVE  Legal(from, <<a, b, to>>, to)
<1> DEFINE path == <<a, b, to>>
<1>1. Len(path) = 3 /\ path[1] = a /\ path[2] = b /\ path[3] = to
  OBVIOUS
<1>2. ASSUME NEW i \in 1..(Len(path) - 1)
      PROVE  i = 1 \/ i = 2
  BY <1>1
<1> HIDE DEF path
<1>3. Legal(from, path, to)
  BY <1>1, <1>2 DEF Legal
<1> QED
  BY <1>3 DEF path

(* A path of four allowed transitions is legal. *)
LEMMA FourSteps ==
    ASSUME NEW from, NEW a, NEW b, NEW c, NEW to,
           <<from, a>> \in Allowed, <<a, b>> \in Allowed,
           <<b, c>> \in Allowed, <<c, to>> \in Allowed
    PROVE  Legal(from, <<a, b, c, to>>, to)
<1> DEFINE path == <<a, b, c, to>>
<1>1. Len(path) = 4 /\ path[1] = a /\ path[2] = b /\ path[3] = c /\ path[4] = to
  OBVIOUS
<1>2. ASSUME NEW i \in 1..(Len(path) - 1)
      PROVE  i = 1 \/ i = 2 \/ i = 3
  BY <1>1
<1> HIDE DEF path
<1>3. Legal(from, path, to)
  BY <1>1, <1>2 DEF Legal
<1> QED
  BY <1>3 DEF path

(* Every step of a path that transition_path takes from a row's state to   *)
(* the desired one is a step that transition of execution.rs allows, and   *)
(* the path ends there, so no planned commit fails inside commit_execution *)
(* on its way.                                                             *)
THEOREM PathsAllowed ==
    \A r \in Routes : Legal(r[1], TransitionPath(r[1], r[2]), r[2])
<1>1. SUFFICES ASSUME NEW from \in States, NEW to \in States, <<from, to>> \in Routes
               PROVE  Legal(from, TransitionPath(from, to), to)
  BY DEF Routes, States
<1>2. CASE from = "Pending" /\ to = "Running"
  <2>1. TransitionPath(from, to) = <<"Running">>
    BY <1>2 DEF TransitionPath
  <2>2. QED
    BY <1>2, <2>1 DEF Legal, Allowed
<1>3. CASE from = "Pending" /\ to = "Interrupted"
  <2>1. TransitionPath(from, to) = <<"Running", "Interrupted">>
    BY <1>3 DEF TransitionPath
  <2>2. /\ <<"Pending", "Running">> \in Allowed
        /\ <<"Running", "Interrupted">> \in Allowed
    BY DEF Allowed
  <2>3. QED
    BY <1>3, <2>1, <2>2, TwoSteps
<1>4. CASE from = "Pending" /\ to = "Completed"
  <2>1. TransitionPath(from, to) = <<"Running", "Completing", "Completed">>
    BY <1>4 DEF TransitionPath
  <2>2. /\ <<"Pending", "Running">> \in Allowed
        /\ <<"Running", "Completing">> \in Allowed
        /\ <<"Completing", "Completed">> \in Allowed
    BY DEF Allowed
  <2>3. QED
    BY <1>4, <2>1, <2>2, ThreeSteps
<1>5. CASE from = "Running" /\ to = "Pending"
  <2>1. TransitionPath(from, to) = <<"Interrupted", "Pending">>
    BY <1>5 DEF TransitionPath
  <2>2. <<"Running", "Interrupted">> \in Allowed /\ <<"Interrupted", "Pending">> \in Allowed
    BY DEF Allowed
  <2>3. QED
    BY <1>5, <2>1, <2>2, TwoSteps
<1>6. CASE from = "Running" /\ to = "Interrupted"
  <2>1. TransitionPath(from, to) = <<"Interrupted">>
    BY <1>6 DEF TransitionPath
  <2>2. QED
    BY <1>6, <2>1 DEF Legal, Allowed
<1>7. CASE from = "Running" /\ to = "Completed"
  <2>1. TransitionPath(from, to) = <<"Completing", "Completed">>
    BY <1>7 DEF TransitionPath
  <2>2. <<"Running", "Completing">> \in Allowed /\ <<"Completing", "Completed">> \in Allowed
    BY DEF Allowed
  <2>3. QED
    BY <1>7, <2>1, <2>2, TwoSteps
<1>8. CASE from = "Interrupted" /\ to = "Pending"
  <2>1. TransitionPath(from, to) = <<"Pending">>
    BY <1>8 DEF TransitionPath
  <2>2. QED
    BY <1>8, <2>1 DEF Legal, Allowed
<1>9. CASE from = "Interrupted" /\ to = "Running"
  <2>1. TransitionPath(from, to) = <<"Pending", "Running">>
    BY <1>9 DEF TransitionPath
  <2>2. <<"Interrupted", "Pending">> \in Allowed /\ <<"Pending", "Running">> \in Allowed
    BY DEF Allowed
  <2>3. QED
    BY <1>9, <2>1, <2>2, TwoSteps
<1>10. CASE from = "Interrupted" /\ to = "Completed"
  <2>1. TransitionPath(from, to) = <<"Pending", "Running", "Completing", "Completed">>
    BY <1>10 DEF TransitionPath
  <2>2. /\ <<"Interrupted", "Pending">> \in Allowed
        /\ <<"Pending", "Running">> \in Allowed
        /\ <<"Running", "Completing">> \in Allowed
        /\ <<"Completing", "Completed">> \in Allowed
    BY DEF Allowed
  <2>3. QED
    BY <1>10, <2>1, <2>2, FourSteps
<1>11. QED
  BY <1>1, <1>2, <1>3, <1>4, <1>5, <1>6, <1>7, <1>8, <1>9, <1>10 DEF Routes

(* A commit that plan_commit and commit_execution accept leaves a finished *)
(* prompt finished: a completed row stays completed whatever ledger a host *)
(* with stale memory asks for, and a failed or cancelled one is refused.   *)
THEOREM FinishedStays ==
    ASSUME NEW r, NEW e, e.phase \in Phases, r.st \in Terminal, EntryOK(r, e)
    PROVE  RowApply(r, e).st = r.st
<1>1. r.st = "Completed"
  BY DEF EntryOK, Terminal
<1>2. Target(e.phase) \in States
  BY DEF Target, Phases, States
<1>3. Target(e.phase) = "Completed"
  BY <1>1, <1>2 DEF EntryOK, Reachable, Routes
<1>4. QED
  BY <1>1, <1>3 DEF RowApply

(* The text of a prompt that has left the queue is never rewritten: an     *)
(* accepted commit keeps it, or clears it when the prompt completes.  So   *)
(* what is stored for a dispatched prompt is what the agent was given.     *)
THEOREM DispatchedTextFixed ==
    ASSUME NEW r, NEW e, e.phase \in Phases, r.st # "Pending", EntryOK(r, e)
    PROVE  \/ RowApply(r, e).text = r.text
           \/ /\ RowApply(r, e).st = "Completed"
              /\ RowApply(r, e).text = NoText
<1>1. ~ContentUpdate(r, e)
  BY DEF EntryOK
<1>2. CASE Target(e.phase) = "Completed"
  BY <1>2 DEF RowApply
<1>3. CASE Target(e.phase) # "Completed"
  <2> DEFINE kept == <<r.text, r.marked>>
  <2>1. kept[1] = r.text
    OBVIOUS
  <2> HIDE DEF kept
  <2>2. RowApply(r, e).text = kept[1]
    BY <1>1, <1>3, Zenon DEF RowApply, kept
  <2>3. QED
    BY <2>1, <2>2
<1>4. QED
  BY <1>2, <1>3

-----------------------------------------------------------------------------
(* Lists.                                                                  *)

IsList(s) == s \in Seq(Elems(s))

(* The members of a list are those at its positions.                       *)
LEMMA ListOf ==
    ASSUME NEW R, NEW s \in Seq(R)
    PROVE  /\ IsList(s)
           /\ Elems(s) = Members(s)
           /\ Elems(s) \subseteq R
<1>1. DOMAIN s = 1..Len(s) /\ Len(s) \in Nat
  OBVIOUS
<1>2. \A i \in 1..Len(s) : s[i] \in R
  OBVIOUS
<1>3. Elems(s) = Members(s) /\ Elems(s) \subseteq R
  BY <1>1, <1>2 DEF Elems, Members
<1>4. \A i \in 1..Len(s) : s[i] \in Elems(s)
  BY DEF Elems
<1> HIDE DEF Elems
<1>5. s \in Seq(Elems(s))
  BY <1>1, <1>4
<1> QED
  BY <1>3, <1>5 DEF IsList

(* The filter of a list.                                                   *)
LEMMA KeepingList ==
    ASSUME NEW s, IsList(s), NEW S
    PROVE  IsList(Keeping(s, S)) /\ Elems(Keeping(s, S)) = Elems(s) \cap S
<1>1. s \in Seq(Elems(s))
  BY DEF IsList
<1>2. /\ Keeping(s, S) \in Seq(Elems(s))
      /\ Members(Keeping(s, S)) = Members(s) \cap S
  BY <1>1, KeepingElements
<1>3. Elems(s) = Members(s)
  BY <1>1, ListOf
<1>4. IsList(Keeping(s, S)) /\ Elems(Keeping(s, S)) = Members(Keeping(s, S))
  BY <1>2, ListOf
<1> QED
  BY <1>2, <1>3, <1>4

(* A function over the positions of a list is a list.                      *)
LEMMA MapList ==
    ASSUME NEW s, IsList(s), NEW f, f = [i \in DOMAIN s |-> f[i]]
    PROVE  /\ IsList(f)
           /\ Elems(f) = {f[i] : i \in DOMAIN s}
           /\ Elems(s) = {s[i] : i \in DOMAIN s}
<1>1. DOMAIN s = 1..Len(s) /\ Len(s) \in Nat
  BY DEF IsList
<1> DEFINE R == {f[i] : i \in DOMAIN s}
<1>2. DOMAIN f = 1..Len(s) /\ \A i \in 1..Len(s) : f[i] \in R
  BY <1>1
<1> HIDE DEF R
<1>3. f \in Seq(R)
  BY <1>1, <1>2
<1>4. IsList(f) /\ Elems(f) = Members(f)
  BY <1>3, ListOf
<1>5. Elems(s) = Members(s)
  BY ListOf DEF IsList
<1> QED
  BY <1>1, <1>2, <1>4, <1>5 DEF R, Members

(* One more element at the end.                                            *)
LEMMA AppendList ==
    ASSUME NEW s, IsList(s), NEW e
    PROVE  IsList(Append(s, e)) /\ Elems(Append(s, e)) = Elems(s) \cup {e}
<1> DEFINE R == Elems(s) \cup {e}
<1>1. s \in Seq(R) /\ e \in R
  BY DEF IsList
<1>2. Append(s, e) \in Seq(R)
  BY <1>1
<1>3. Members(Append(s, e)) = Members(s) \cup {e}
  BY <1>1, AppendElements
<1>4. /\ Elems(s) = Members(s)
      /\ IsList(Append(s, e)) /\ Elems(Append(s, e)) = Members(Append(s, e))
  BY <1>1, <1>2, ListOf
<1> QED
  BY <1>3, <1>4

(* One element less at the front.                                          *)
LEMMA TailList ==
    ASSUME NEW s, IsList(s), s # <<>>
    PROVE  /\ IsList(Tail(s)) /\ Elems(Tail(s)) \subseteq Elems(s)
           /\ Head(s) \in Elems(s)
<1>1. s \in Seq(Elems(s)) /\ Len(s) \in Nat /\ Len(s) # 0
  BY DEF IsList
<1> DEFINE R == Elems(s)
<1> HIDE DEF R
<1>2. s \in Seq(R) /\ Tail(s) \in Seq(R) /\ Head(s) \in R
  BY <1>1 DEF R
<1> QED
  BY <1>2, ListOf DEF R

(* Two lists in one.                                                       *)
LEMMA JoinList ==
    ASSUME NEW s, NEW t, IsList(s), IsList(t)
    PROVE  IsList(s \o t) /\ Elems(s \o t) = Elems(s) \cup Elems(t)
<1> DEFINE R == Elems(s) \cup Elems(t)
<1>1. R = Elems(s) \cup Elems(t)
  OBVIOUS
<1>2. s \in Seq(R) /\ t \in Seq(R)
  BY DEF IsList
<1> HIDE DEF R
<1>3. s \o t \in Seq(R)
  BY <1>2
<1>4. /\ Len(s) \in Nat /\ Len(t) \in Nat
      /\ Len(s \o t) = Len(s) + Len(t)
      /\ \A i \in 1..Len(s) : (s \o t)[i] = s[i]
      /\ \A i \in 1..Len(t) : (s \o t)[Len(s) + i] = t[i]
  BY <1>2
<1>5. \A i \in 1..(Len(s) + Len(t)) :
         i \in 1..Len(s) \/ \E j \in 1..Len(t) : i = Len(s) + j
  <2> SUFFICES ASSUME NEW i \in 1..(Len(s) + Len(t)), i \notin 1..Len(s)
               PROVE  \E j \in 1..Len(t) : i = Len(s) + j
    OBVIOUS
  <2>1. i - Len(s) \in 1..Len(t) /\ i = Len(s) + (i - Len(s))
    BY <1>4
  <2> QED
    BY <2>1
<1>6. \A i \in 1..Len(s) : i \in 1..(Len(s) + Len(t))
  BY <1>4
<1>7. \A i \in 1..Len(t) : Len(s) + i \in 1..(Len(s) + Len(t))
  BY <1>4
<1>8. Elems(s \o t) \subseteq R
  BY <1>3, ListOf
<1>9. ASSUME NEW x \in Elems(s)
      PROVE  x \in Elems(s \o t)
  <2>1. PICK i \in 1..Len(s) : x = s[i]
    BY <1>9 DEF Elems
  <2>2. i \in 1..Len(s \o t) /\ x = (s \o t)[i]
    BY <1>4, <1>6, <2>1
  <2> QED
    BY <2>2 DEF Elems
<1>10. ASSUME NEW x \in Elems(t)
       PROVE  x \in Elems(s \o t)
  <2>1. PICK i \in 1..Len(t) : x = t[i]
    BY <1>10 DEF Elems
  <2>2. Len(s) + i \in 1..Len(s \o t) /\ x = (s \o t)[Len(s) + i]
    BY <1>4, <1>7, <2>1
  <2> QED
    BY <2>2 DEF Elems
<1> QED
  BY <1>1, <1>3, <1>8, <1>9, <1>10, ListOf

(* The empty list.                                                         *)
LEMMA NoList == IsList(<<>>) /\ Elems(<<>>) = {} /\ Distinct(<<>>)
<1> DEFINE none == <<>>
           nothing == {}
<1>1. none \in Seq(nothing)
  OBVIOUS
<1> HIDE DEF none, nothing
<1>2. IsList(none) /\ Elems(none) \subseteq nothing
  BY <1>1, ListOf
<1>3. Distinct(none)
  BY DEF Distinct, none
<1> QED
  BY <1>2, <1>3 DEF none, nothing

(* A filter, another element, or new contents keep a list distinct, and so *)
(* does a second list about other things.                                  *)
LEMMA PartDistinct ==
    ASSUME NEW s, IsList(s), NEW S, Distinct(s)
    PROVE  Distinct(Keeping(s, S))
  BY KeepingDistinct DEF IsList

LEMMA MoreDistinct ==
    ASSUME NEW s, IsList(s), NEW e, Distinct(s), \A x \in Elems(s) : x.id # e.id
    PROVE  Distinct(Append(s, e))
<1>1. s \in Seq(Elems(s)) /\ Elems(s) = Members(s)
  BY ListOf DEF IsList
<1> QED
  BY <1>1, AppendDistinct

LEMMA MapDistinct ==
    ASSUME NEW s, NEW f, f = [i \in DOMAIN s |-> f[i]], Distinct(s),
           \A i \in DOMAIN s : f[i].id = s[i].id
    PROVE  Distinct(f)
<1>1. DOMAIN f = DOMAIN s
  OBVIOUS
<1> QED
  BY <1>1 DEF Distinct

LEMMA TailDistinct ==
    ASSUME NEW s, IsList(s), s # <<>>, Distinct(s)
    PROVE  Distinct(Tail(s)) /\ \A x \in Elems(Tail(s)) : x.id # Head(s).id
<1> DEFINE R == Elems(s)
<1>1. s \in Seq(R)
  BY DEF IsList
<1> HIDE DEF R
<1>2. Len(s) \in Nat /\ Len(s) # 0 /\ DOMAIN s = 1..Len(s)
  BY <1>1
<1>3. /\ DOMAIN Tail(s) = 1..(Len(s) - 1) /\ Len(Tail(s)) = Len(s) - 1
      /\ \A i \in 1..(Len(s) - 1) : Tail(s)[i] = s[i + 1]
      /\ Head(s) = s[1]
  BY <1>1, <1>2
<1>4. \A i \in 1..(Len(s) - 1) : i + 1 \in DOMAIN s /\ i + 1 # 1
  BY <1>2
<1>5. 1 \in DOMAIN s
  BY <1>2
<1>6. \A i \in 1..(Len(s) - 1) : Tail(s)[i].id # Head(s).id
  BY <1>3, <1>4, <1>5 DEF Distinct
<1>7. \A i, j \in 1..(Len(s) - 1) : Tail(s)[i].id = Tail(s)[j].id => i = j
  <2> SUFFICES ASSUME NEW i \in 1..(Len(s) - 1), NEW j \in 1..(Len(s) - 1),
                      Tail(s)[i].id = Tail(s)[j].id
               PROVE  i = j
    OBVIOUS
  <2>1. i + 1 = j + 1
    BY <1>3, <1>4 DEF Distinct
  <2> QED
    BY <1>2, <2>1
<1> QED
  BY <1>3, <1>6, <1>7 DEF Distinct, Elems

LEMMA JoinDistinct ==
    ASSUME NEW s, NEW t, IsList(s), IsList(t), Distinct(s), Distinct(t),
           \A x \in Elems(s) : \A y \in Elems(t) : x.id # y.id
    PROVE  Distinct(s \o t)
<1> DEFINE R == Elems(s) \cup Elems(t)
           u == s \o t
<1>1. s \in Seq(R) /\ t \in Seq(R)
  BY DEF IsList
<1>2. /\ Len(s) \in Nat /\ Len(t) \in Nat
      /\ DOMAIN s = 1..Len(s) /\ DOMAIN t = 1..Len(t)
  BY <1>1
<1> HIDE DEF R
<1>3. /\ DOMAIN u = 1..(Len(s) + Len(t))
      /\ \A i \in 1..Len(s) : u[i] = s[i]
      /\ \A i \in 1..Len(t) : u[Len(s) + i] = t[i]
  BY <1>1
<1> HIDE DEF u
<1>4. ASSUME NEW i \in 1..(Len(s) + Len(t)), i \notin 1..Len(s)
      PROVE  i - Len(s) \in 1..Len(t) /\ u[i] = t[i - Len(s)] /\ u[i] \in Elems(t)
  <2>1. i - Len(s) \in 1..Len(t) /\ i = Len(s) + (i - Len(s))
    BY <1>2, <1>4
  <2>2. u[i] = t[i - Len(s)]
    BY <1>3, <2>1
  <2> QED
    BY <2>1, <2>2 DEF Elems
<1>5. \A i \in 1..Len(s) : u[i] \in Elems(s)
  BY <1>3 DEF Elems
<1>6. ASSUME NEW i \in DOMAIN u, NEW j \in DOMAIN u, u[i].id = u[j].id
      PROVE  i = j
  <2>1. CASE i \in 1..Len(s) /\ j \in 1..Len(s)
    BY <1>2, <1>3, <1>6, <2>1 DEF Distinct
  <2>2. CASE i \in 1..Len(s) /\ j \notin 1..Len(s)
    BY <1>3, <1>4, <1>5, <1>6, <2>2
  <2>3. CASE i \notin 1..Len(s) /\ j \in 1..Len(s)
    BY <1>3, <1>4, <1>5, <1>6, <2>3
  <2>4. CASE i \notin 1..Len(s) /\ j \notin 1..Len(s)
    <3>1. /\ i - Len(s) \in 1..Len(t) /\ u[i] = t[i - Len(s)]
          /\ j - Len(s) \in 1..Len(t) /\ u[j] = t[j - Len(s)]
      BY <1>3, <1>4, <2>4
    <3>2. i - Len(s) = j - Len(s)
      BY <1>2, <1>6, <3>1 DEF Distinct
    <3> QED
      BY <1>2, <1>3, <3>2
  <2> QED
    BY <2>1, <2>2, <2>3, <2>4
<1> QED
  BY <1>6 DEF Distinct, u

(* The entry that is looked up is one of the list.                         *)
LEMMA OfHas ==
    ASSUME NEW s, NEW id, Has(s, id)
    PROVE  Of(s, id) \in Elems(s) /\ Of(s, id).id = id
  BY DEF Has, Of

-----------------------------------------------------------------------------
(* What a ledger and the rows have to do with each other.                  *)

(* The row of the prompt has left the queue. *)
Durable(stored, id) ==
    Has(stored, id) /\ \A x \in Elems(stored) : x.id = id => x.st # "Pending"

(* A host that keeps this ledger has the prompt in it, or need not: it     *)
(* cannot be dispatched any more.                                          *)
Known(ledger, stored, id) == Has(ledger, id) \/ Durable(stored, id)

(* Rows: a queued one carries no dispatch marks, a running or interrupted  *)
(* one does.  This is what makes plan_commit refuse the stale ledger of a  *)
(* host that still has the prompt in its queue: the content differs.       *)
RowFine(x) ==
    /\ {"id", "st", "text", "marked"} \subseteq DOMAIN x
    /\ x.st \in {"Pending", "Running", "Interrupted", "Completed", "Cancelled"}
    /\ x.st = "Pending" => x.marked = FALSE
    /\ x.st \in {"Running", "Interrupted"} => x.marked = TRUE

RowsFine(stored) ==
    /\ IsList(stored) /\ Distinct(stored)
    /\ \A x \in Elems(stored) : RowFine(x)
    /\ \A x, y \in Elems(stored) : x.id = y.id => x.st = y.st

(* A ledger that may be committed on these rows. *)
EntryFine(e) ==
    /\ {"id", "phase", "text", "marked"} \subseteq DOMAIN e
    /\ e.phase \in Phases
    /\ e.phase = "Queued" => e.marked = FALSE
    /\ e.phase = "Dispatching" => e.marked = TRUE

Committable(ledger, stored) ==
    /\ IsList(ledger) /\ Distinct(ledger)
    /\ \A e \in Elems(ledger) : EntryFine(e)
    /\ \A e, f \in Elems(ledger) : e.id = f.id => e.phase = f.phase
    /\ \A e \in Elems(ledger) :
          e.phase \in {"Interrupted", "Completed"} => Durable(stored, e.id)

(* A ledger that a host keeps: its prompts are stored, and those that have *)
(* left its queue have left the stored one.  The converse does not hold    *)
(* for a host that another has taken the lease from.                       *)
LedgerFine(ledger, stored) ==
    /\ Committable(ledger, stored)
    /\ \A e \in Elems(ledger) :
          Has(stored, e.id) /\ (e.phase # "Queued" => Durable(stored, e.id))

(* The prompt is finished or withdrawn.                                    *)
Over(stored, id) ==
    Has(stored, id) /\ \A x \in Elems(stored) : x.id = id => x.st \in Terminal

(* The rows are what the ledger says, and a prompt it does not have is     *)
(* over: this holds where a ledger has just been committed or read.        *)
Mirrors(ledger, stored) ==
    \A x \in Elems(stored) :
        /\ \A e \in Elems(ledger) : e.id = x.id => x.st = Target(e.phase)
        /\ Has(ledger, x.id) \/ x.st \in Terminal

(* From the first rows to the second no prompt is lost, none that has left *)
(* the queue is back in it, and what is over stays over.                   *)
Keeps(before, after) ==
    \A x \in Elems(before) :
        /\ Has(after, x.id)
        /\ x.st # "Pending" => Durable(after, x.id)
        /\ x.st \in Terminal => Over(after, x.id)

LEMMA KeepsSame == \A R : RowsFine(R) => Keeps(R, R)
  BY DEF Keeps, RowsFine, Has, Durable, Over

LEMMA KeepsOn ==
    ASSUME NEW R, NEW S, NEW T, Keeps(R, S), Keeps(S, T)
    PROVE  Keeps(R, T)
<1> SUFFICES ASSUME NEW x \in Elems(R)
             PROVE  /\ Has(T, x.id)
                    /\ x.st # "Pending" => Durable(T, x.id)
                    /\ x.st \in Terminal => Over(T, x.id)
  BY DEF Keeps
<1>1. PICK y \in Elems(S) : y.id = x.id
  BY DEF Keeps, Has
<1>2. /\ Has(T, x.id)
      /\ y.st # "Pending" => Durable(T, x.id)
      /\ y.st \in Terminal => Over(T, x.id)
  BY <1>1 DEF Keeps
<1>3. /\ x.st # "Pending" => y.st # "Pending"
      /\ x.st \in Terminal => y.st \in Terminal
  BY <1>1 DEF Keeps, Durable, Over
<1> QED
  BY <1>2, <1>3

LEMMA KeepsDurable ==
    ASSUME NEW R, NEW S, Keeps(R, S), NEW id, Durable(R, id)
    PROVE  Durable(S, id)
<1>1. PICK y \in Elems(R) : y.id = id /\ y.st # "Pending"
  BY DEF Durable, Has
<1> QED
  BY <1>1 DEF Keeps

LEMMA KeepsOver ==
    ASSUME NEW R, NEW S, Keeps(R, S), NEW id, Over(R, id)
    PROVE  Over(S, id)
<1>1. PICK y \in Elems(R) : y.id = id /\ y.st \in Terminal
  BY DEF Over, Has
<1> QED
  BY <1>1 DEF Keeps

LEMMA KeepsHas ==
    ASSUME NEW R, NEW S, Keeps(R, S), NEW id, Has(R, id)
    PROVE  Has(S, id)
  BY DEF Keeps, Has

LEMMA KeepsLedger ==
    ASSUME NEW R, NEW S, Keeps(R, S), NEW l, LedgerFine(l, R)
    PROVE  LedgerFine(l, S)
  BY KeepsDurable, KeepsHas DEF LedgerFine, Committable

-----------------------------------------------------------------------------
(* What the operations of the ledger make of it.                           *)

LEMMA PartCommittable ==
    ASSUME NEW l, NEW k, NEW R, Committable(l, R), IsList(k), Elems(k) \subseteq Elems(l),
           Distinct(k)
    PROVE  Committable(k, R)
  BY DEF Committable

LEMMA RemoveQueuedFine ==
    ASSUME NEW l, NEW R, Committable(l, R)
    PROVE  Committable(RemoveQueued(l), R)
  BY KeepingList, PartDistinct, PartCommittable DEF RemoveQueued, Committable

LEMMA RemoveEntryFine ==
    ASSUME NEW l, NEW R, NEW id, Committable(l, R)
    PROVE  Committable(RemoveEntry(l, id), R)
  BY KeepingList, PartDistinct, PartCommittable DEF RemoveEntry, Committable

(* An entry with a new phase for one prompt: the phase it gets is one the  *)
(* rows bear, and its marks follow the phase.                              *)
LEMMA RewriteFine ==
    ASSUME NEW l, NEW R, NEW id, NEW f, NEW p, Committable(l, R),
           f = [i \in DOMAIN l |-> f[i]],
           \A i \in DOMAIN l : l[i].id # id => f[i] = l[i],
           \A i \in DOMAIN l : l[i].id = id =>
              f[i].id = id /\ f[i].phase = p /\ EntryFine(f[i]),
           p \in {"Interrupted", "Completed"} => Durable(R, id)
    PROVE  Committable(f, R) /\ \A e \in Elems(f) : e.id = id => e.phase = p
<1>1. /\ IsList(f)
      /\ Elems(f) = {f[i] : i \in DOMAIN l}
      /\ Elems(l) = {l[i] : i \in DOMAIN l}
  BY MapList DEF Committable
<1>2. \A i \in DOMAIN l : EntryFine(l[i]) /\ EntryFine(f[i])
  BY <1>1 DEF Committable
<1>3. \A i \in DOMAIN l : f[i].id = l[i].id
  OBVIOUS
<1>4. \A i \in DOMAIN l : f[i].id = id => f[i].phase = p
  BY <1>3
<1>5. \A i \in DOMAIN l : f[i].id # id => f[i] \in Elems(l)
  BY <1>1, <1>3
<1>6. \A e, g \in Elems(f) : e.id = g.id => e.phase = g.phase
  BY <1>1, <1>4, <1>5 DEF Committable
<1>7. \A e \in Elems(f) : e.phase \in {"Interrupted", "Completed"} => Durable(R, e.id)
  BY <1>1, <1>4, <1>5 DEF Committable
<1>8. Distinct(f)
  BY <1>3, MapDistinct DEF Committable
<1> QED
  BY <1>1, <1>2, <1>4, <1>6, <1>7, <1>8 DEF Committable

LEMMA MarkDispatchingFine ==
    ASSUME NEW l, NEW R, NEW id, Committable(l, R)
    PROVE  /\ Committable(MarkDispatching(l, id), R)
           /\ \A e \in Elems(MarkDispatching(l, id)) : e.id = id => e.phase = "Dispatching"
           /\ Has(l, id) => Has(MarkDispatching(l, id), id)
<1> DEFINE f == MarkDispatching(l, id)
<1>1. f = [i \in DOMAIN l |-> IF l[i].id = id
              THEN [l[i] EXCEPT !.phase = "Dispatching", !.marked = TRUE] ELSE l[i]]
  BY DEF MarkDispatching, Rewrite
<1>2. /\ Elems(l) = {l[i] : i \in DOMAIN l}
      /\ \A i \in DOMAIN l : EntryFine(l[i])
  BY MapList DEF Committable
<1>3. f = [i \in DOMAIN l |-> f[i]]
  BY <1>1
<1>4. \A i \in DOMAIN l : l[i].id # id => f[i] = l[i]
  BY <1>1
<1>5. ASSUME NEW i \in DOMAIN l, l[i].id = id
      PROVE  f[i].id = id /\ f[i].phase = "Dispatching" /\ EntryFine(f[i])
  <2>1. f[i] = [l[i] EXCEPT !.phase = "Dispatching", !.marked = TRUE]
    BY <1>1, <1>5
  <2> QED
    BY <1>2, <1>5, <2>1 DEF EntryFine, Phases
<1> HIDE DEF f
<1> DEFINE p == "Dispatching"
<1>6. \A i \in DOMAIN l : l[i].id = id =>
         f[i].id = id /\ f[i].phase = p /\ EntryFine(f[i])
  BY <1>5
<1>10. p \notin {"Interrupted", "Completed"}
  OBVIOUS
<1> HIDE DEF p
<1>9. Committable(f, R)
  BY <1>3, <1>4, <1>6, <1>10, RewriteFine
<1>7. Elems(f) = {f[i] : i \in DOMAIN l}
  BY <1>3, MapList DEF Committable
<1>11. \A e \in Elems(f) : e.id = id => e.phase = p
  BY <1>4, <1>6, <1>7
<1>8. Has(l, id) => Has(f, id)
  BY <1>2, <1>5, <1>7 DEF Has
<1> QED
  BY <1>8, <1>9, <1>11 DEF f, p

LEMMA MarkInterruptedFine ==
    ASSUME NEW l, NEW R, NEW id, Committable(l, R), Durable(R, id)
    PROVE  Committable(MarkInterrupted(l, id), R)
<1> DEFINE f == MarkInterrupted(l, id)
<1>1. f = [i \in DOMAIN l |-> IF l[i].id = id
              THEN [l[i] EXCEPT !.phase = "Interrupted"] ELSE l[i]]
  BY DEF MarkInterrupted, Rewrite
<1>3. f = [i \in DOMAIN l |-> f[i]]
  BY <1>1
<1>4. \A i \in DOMAIN l : l[i].id # id => f[i] = l[i]
  BY <1>1
<1>5. ASSUME NEW i \in DOMAIN l, l[i].id = id
      PROVE  /\ EntryFine(l[i]) => f[i].id = id /\ f[i].phase = "Interrupted" /\ EntryFine(f[i])
  <2>1. f[i] = [l[i] EXCEPT !.phase = "Interrupted"]
    BY <1>1, <1>5
  <2> QED
    BY <1>5, <2>1 DEF EntryFine, Phases
<1>2. /\ Elems(l) = {l[i] : i \in DOMAIN l}
      /\ \A i \in DOMAIN l : EntryFine(l[i])
  BY MapList DEF Committable
<1> HIDE DEF f
<1> DEFINE p == "Interrupted"
<1>6. \A i \in DOMAIN l : l[i].id = id =>
         f[i].id = id /\ f[i].phase = p /\ EntryFine(f[i])
  BY <1>2, <1>5
<1> HIDE DEF p
<1>7. Committable(f, R)
  BY <1>3, <1>4, <1>6, RewriteFine
<1> QED
  BY <1>7 DEF f

LEMMA MarkCompletedFine ==
    ASSUME NEW l, NEW R, NEW id, Committable(l, R), Durable(R, id)
    PROVE  Committable(MarkCompleted(l, id), R)
<1> DEFINE f == MarkCompleted(l, id)
<1>1. f = [i \in DOMAIN l |-> IF l[i].id = id
              THEN [l[i] EXCEPT !.phase = "Completed", !.text = NoText, !.marked = FALSE]
              ELSE l[i]]
  BY DEF MarkCompleted, Rewrite
<1>3. f = [i \in DOMAIN l |-> f[i]]
  BY <1>1
<1>4. \A i \in DOMAIN l : l[i].id # id => f[i] = l[i]
  BY <1>1
<1>5. ASSUME NEW i \in DOMAIN l, l[i].id = id
      PROVE  /\ EntryFine(l[i]) => f[i].id = id /\ f[i].phase = "Completed" /\ EntryFine(f[i])
  <2>1. f[i] = [l[i] EXCEPT !.phase = "Completed", !.text = NoText, !.marked = FALSE]
    BY <1>1, <1>5
  <2> QED
    BY <1>5, <2>1 DEF EntryFine, Phases
<1>2. /\ Elems(l) = {l[i] : i \in DOMAIN l}
      /\ \A i \in DOMAIN l : EntryFine(l[i])
  BY MapList DEF Committable
<1> HIDE DEF f
<1> DEFINE p == "Completed"
<1>6. \A i \in DOMAIN l : l[i].id = id =>
         f[i].id = id /\ f[i].phase = p /\ EntryFine(f[i])
  BY <1>2, <1>5
<1> HIDE DEF p
<1>7. Committable(f, R)
  BY <1>3, <1>4, <1>6, RewriteFine
<1> QED
  BY <1>7 DEF f

LEMMA UpsertQueuedFine ==
    ASSUME NEW l, NEW R, NEW id, NEW text, Committable(l, R)
    PROVE  /\ Committable(UpsertQueued(l, id, text), R)
           /\ Has(UpsertQueued(l, id, text), id)
           /\ \A e \in Elems(UpsertQueued(l, id, text)) : e.id = id => e.phase = "Queued"
<1> DEFINE new == [id |-> id, phase |-> "Queued", text |-> text, marked |-> FALSE]
           f == [i \in DOMAIN l |-> IF l[i].id = id THEN new ELSE l[i]]
<1>1. EntryFine(new) /\ new.id = id /\ new.phase = "Queued"
  BY DEF EntryFine, Phases
<1>2. UpsertQueued(l, id, text) = IF Has(l, id) THEN f ELSE Append(l, new)
  BY DEF UpsertQueued
<1> HIDE DEF new
<1>3. CASE Has(l, id)
  <2>1. f = [i \in DOMAIN l |-> f[i]]
    OBVIOUS
  <2>2. \A i \in DOMAIN l : IF l[i].id = id THEN f[i] = new ELSE f[i] = l[i]
    OBVIOUS
  <2>3. /\ Elems(l) = {l[i] : i \in DOMAIN l}
    BY MapList DEF Committable
  <2> HIDE DEF f
  <2>4. Committable(f, R)
    BY <1>1, <2>1, <2>2, RewriteFine
  <2>5. Elems(f) = {f[i] : i \in DOMAIN l}
    BY <2>1, MapList DEF Committable
  <2>6. Has(f, id)
    BY <1>1, <1>3, <2>2, <2>3, <2>5 DEF Has
  <2>7. \A e \in Elems(f) : e.id = id => e.phase = "Queued"
    BY <1>1, <2>2, <2>5
  <2> QED
    BY <1>2, <1>3, <2>4, <2>6, <2>7
<1>4. CASE ~Has(l, id)
  <2> DEFINE g == Append(l, new)
  <2>1. IsList(g) /\ Elems(g) = Elems(l) \cup {new}
    BY AppendList DEF Committable
  <2>3. Distinct(g)
    BY <1>1, <1>4, MoreDistinct DEF Committable, Has
  <2> HIDE DEF g
  <2>2. Committable(g, R) /\ Has(g, id)
    BY <1>1, <1>4, <2>1, <2>3 DEF Committable, Has
  <2>4. \A e \in Elems(g) : e.id = id => e.phase = "Queued"
    BY <1>1, <1>4, <2>1 DEF Has
  <2> QED
    BY <1>2, <1>4, <2>2, <2>4 DEF g
<1> QED
  BY <1>3, <1>4

-----------------------------------------------------------------------------
(* A commit.                                                               *)

LEMMA TargetOf ==
    ASSUME NEW p \in Phases
    PROVE  /\ Target(p) \in {"Pending", "Running", "Interrupted", "Completed"}
           /\ Target(p) = "Pending" <=> p = "Queued"
           /\ Target(p) = "Running" <=> p = "Dispatching"
           /\ Target(p) = "Interrupted" <=> p = "Interrupted"
           /\ Target(p) = "Completed" <=> p = "Completed"
  BY DEF Target, Phases

(* The row after the commit. *)
LEMMA RowApplied ==
    ASSUME NEW x, NEW e
    PROVE  /\ {"id", "st", "text", "marked"} \subseteq DOMAIN RowApply(x, e)
           /\ RowApply(x, e).id = x.id
           /\ RowApply(x, e).st = Target(e.phase)
           /\ RowApply(x, e).marked = IF Target(e.phase) = "Completed" THEN FALSE
                                      ELSE IF ContentUpdate(x, e) THEN e.marked
                                      ELSE x.marked
<1> DEFINE to == Target(e.phase)
           content == IF to = "Completed" THEN <<NoText, FALSE>>
                      ELSE IF ContentUpdate(x, e) THEN <<e.text, e.marked>>
                      ELSE <<x.text, x.marked>>
           open == \/ to = "Running" /\ x.st # "Running"
                   \/ x.open /\ ~(x.st = "Running" /\ to = "Completed")
<1>1. RowApply(x, e) = [id |-> x.id, st |-> to, text |-> content[1],
                        marked |-> content[2], open |-> open]
  BY DEF RowApply
<1>2. content[2] = IF to = "Completed" THEN FALSE
                   ELSE IF ContentUpdate(x, e) THEN e.marked ELSE x.marked
  OBVIOUS
<1> HIDE DEF content, open, to
<1>3. /\ {"id", "st", "text", "marked"} \subseteq DOMAIN RowApply(x, e)
      /\ RowApply(x, e).id = x.id
      /\ RowApply(x, e).st = to
      /\ RowApply(x, e).marked = content[2]
  BY <1>1
<1> QED
  BY <1>2, <1>3 DEF to

LEMMA AppliedId == \A x, e : RowApply(x, e).id = x.id
  BY RowApplied

(* An accepted entry brings a row to a state that its marks fit, and never *)
(* back into the queue.  y is the row that the plan looked at.             *)
LEMMA RowFollows ==
    ASSUME NEW x, NEW y, NEW e, RowFine(x), RowFine(y), y.st = x.st,
           EntryFine(e), EntryOK(y, e),
           e.phase \in {"Interrupted", "Completed"} => x.st # "Pending"
    PROVE  /\ RowFine(RowApply(x, e))
           /\ x.st # "Pending" => RowApply(x, e).st # "Pending"
           /\ e.phase # "Queued" => RowApply(x, e).st # "Pending"
<1> DEFINE to == Target(e.phase)
           z == RowApply(x, e)
<1>1. /\ {"id", "st", "text", "marked"} \subseteq DOMAIN z
      /\ z.st = to
      /\ z.marked = IF to = "Completed" THEN FALSE
                    ELSE IF ContentUpdate(x, e) THEN e.marked ELSE x.marked
  BY RowApplied
<1>2. /\ to \in {"Pending", "Running", "Interrupted", "Completed"}
      /\ to = "Pending" <=> e.phase = "Queued"
      /\ to = "Running" <=> e.phase = "Dispatching"
      /\ to \in {"Interrupted", "Completed"} => x.st # "Pending"
  BY TargetOf DEF EntryFine
<1>3. x.st \in {"Pending", "Running", "Interrupted", "Completed"}
  BY DEF EntryOK, RowFine
<1>4. x.st = to \/ <<x.st, to>> \in Routes
  BY DEF EntryOK, Reachable
<1> DEFINE differ(w) == <<w.text, w.marked>> # <<e.text, e.marked>>
<1>5. /\ \A w : ContentUpdate(w, e) <=>
                  (to = "Pending" \/ (w.st = "Pending" /\ to = "Running")) /\ differ(w)
      /\ \A w : w.marked # e.marked => differ(w)
  BY DEF ContentUpdate
<1>6. ContentUpdate(y, e) => y.st = "Pending"
  BY DEF EntryOK
<1> HIDE DEF to, z, differ
<1>7. CASE to = "Pending"
  <2>1. e.marked = FALSE
    BY <1>2, <1>7 DEF EntryFine
  <2>2. x.st \notin {"Running", "Interrupted"}
    <3> SUFFICES ASSUME x.st \in {"Running", "Interrupted"}
                 PROVE  FALSE
      OBVIOUS
    <3>1. y.marked = TRUE
      BY DEF RowFine
    <3>2. differ(y)
      BY <1>5, <2>1, <3>1
    <3> QED
      BY <1>5, <1>6, <1>7, <3>2
  <2>3. x.st = "Pending"
    BY <1>3, <1>4, <1>7, <2>2 DEF Routes
  <2>4. z.marked = FALSE
    BY <1>1, <1>7, <2>1, <2>3 DEF RowFine
  <2> QED
    BY <1>1, <1>2, <1>7, <2>3, <2>4 DEF RowFine, z
<1>8. CASE to = "Running"
  <2>1. e.marked = TRUE
    BY <1>2, <1>8 DEF EntryFine
  <2>2. x.st # "Completed"
    BY <1>4, <1>8 DEF Routes
  <2>3. z.marked = TRUE
    <3>1. CASE x.st = "Pending"
      <4>1. x.marked = FALSE
        BY <3>1 DEF RowFine
      <4>2. ContentUpdate(x, e)
        BY <1>5, <1>8, <2>1, <3>1, <4>1
      <4> QED
        BY <1>1, <1>8, <2>1, <4>2
    <3>2. CASE x.st # "Pending"
      <4>1. x.marked = TRUE
        BY <1>3, <2>2, <3>2 DEF RowFine
      <4>2. ~ContentUpdate(x, e)
        BY <1>5, <1>8, <3>2
      <4> QED
        BY <1>1, <1>8, <4>1, <4>2
    <3> QED
      BY <3>1, <3>2
  <2> QED
    BY <1>1, <1>8, <2>3 DEF RowFine, z
<1>9. CASE to = "Interrupted"
  <2>1. x.st \in {"Running", "Interrupted"}
    BY <1>2, <1>3, <1>4, <1>9 DEF Routes
  <2>2. ~ContentUpdate(x, e)
    BY <1>5, <1>9
  <2>3. z.marked = TRUE
    BY <1>1, <1>9, <2>1, <2>2 DEF RowFine
  <2> QED
    BY <1>1, <1>9, <2>3 DEF RowFine, z
<1>10. CASE to = "Completed"
  BY <1>1, <1>10 DEF RowFine, z
<1> QED
  BY <1>2, <1>7, <1>8, <1>9, <1>10

(* A prompt the rows do not have yet. *)
LEMMA FreshFollows ==
    ASSUME NEW e, EntryFine(e), e.phase \in {"Queued", "Dispatching"}
    PROVE  /\ RowFine(RowApply(Fresh(e), e))
           /\ RowApply(Fresh(e), e).id = e.id
           /\ RowApply(Fresh(e), e).st = Target(e.phase)
<1> DEFINE x == Fresh(e)
           z == RowApply(x, e)
<1>1. x.id = e.id /\ x.st = "Pending" /\ x.text = e.text /\ x.marked = e.marked
  BY DEF Fresh
<1> HIDE DEF x
<1>2. ~ContentUpdate(x, e)
  BY <1>1 DEF ContentUpdate
<1>3. /\ Target(e.phase) \in {"Pending", "Running"}
      /\ Target(e.phase) = "Pending" <=> e.phase = "Queued"
  BY TargetOf DEF EntryFine
<1>4. /\ {"id", "st", "text", "marked"} \subseteq DOMAIN z
      /\ z.id = e.id /\ z.st = Target(e.phase) /\ z.marked = e.marked
  BY <1>1, <1>2, <1>3, RowApplied
<1> HIDE DEF z
<1>5. RowFine(z)
  BY <1>3, <1>4 DEF RowFine, EntryFine
<1> QED
  BY <1>4, <1>5 DEF x, z

(* The state of a row that the ledger does not have any more. *)
Settled(x) == IF x.st \in Terminal THEN x.st ELSE "Cancelled"

(* The rows after a commit, one by one. *)
LEMMA CommittedRows ==
    ASSUME NEW R, NEW l, RowsFine(R), Committable(l, R)
    PROVE  /\ IsList(PlanApply(R, l)) /\ Distinct(PlanApply(R, l))
           /\ \A z \in Elems(PlanApply(R, l)) :
                \/ \E x \in Elems(R) :
                      /\ Has(l, x.id)
                      /\ z = RowApply(x, Of(l, x.id))
                \/ \E x \in Elems(R) :
                      /\ ~Has(l, x.id) /\ RowFine(z)
                      /\ z.id = x.id /\ z.st = Settled(x)
                \/ \E e \in Elems(l) :
                      /\ ~Has(R, e.id)
                      /\ z = RowApply(Fresh(e), e)
           /\ \A x \in Elems(R) : \E z \in Elems(PlanApply(R, l)) : z.id = x.id
           /\ \A e \in Elems(l) : \E z \in Elems(PlanApply(R, l)) : z.id = e.id
<1> DEFINE S == {e \in Elems(l) : ~Has(R, e.id)}
           n == Keeping(l, S)
           f == [i \in DOMAIN R |->
                   IF Has(l, R[i].id) THEN RowApply(R[i], Of(l, R[i].id))
                   ELSE IF R[i].st \in Terminal THEN R[i]
                   ELSE [R[i] EXCEPT !.st = "Cancelled", !.text = NoText, !.marked = FALSE]]
           g == [i \in DOMAIN n |-> RowApply(Fresh(n[i]), n[i])]
<1>1. PlanApply(R, l) = f \o g
  BY DEF PlanApply
<1>2. /\ IsList(f) /\ Elems(f) = {f[i] : i \in DOMAIN R}
      /\ Elems(R) = {R[i] : i \in DOMAIN R}
  <2>1. f = [i \in DOMAIN R |-> f[i]]
    OBVIOUS
  <2> HIDE DEF f
  <2> QED
    BY <2>1, MapList DEF RowsFine
<1>3. IsList(n) /\ Elems(n) = S /\ Distinct(n)
  <2> HIDE DEF S
  <2>1. IsList(n) /\ Elems(n) = Elems(l) \cap S /\ Distinct(n)
    BY KeepingList, PartDistinct DEF Committable
  <2> QED
    BY <2>1 DEF S
<1> HIDE DEF n
<1>4. /\ IsList(g) /\ Elems(g) = {g[i] : i \in DOMAIN n}
      /\ Elems(n) = {n[i] : i \in DOMAIN n}
  <2>1. g = [i \in DOMAIN n |-> g[i]]
    OBVIOUS
  <2> HIDE DEF g
  <2> QED
    BY <1>3, <2>1, MapList
<1>5. \A i \in DOMAIN R :
         f[i] = IF Has(l, R[i].id) THEN RowApply(R[i], Of(l, R[i].id))
                ELSE IF R[i].st \in Terminal THEN R[i]
                ELSE [R[i] EXCEPT !.st = "Cancelled", !.text = NoText, !.marked = FALSE]
  OBVIOUS
<1>6. \A i \in DOMAIN n : g[i] = RowApply(Fresh(n[i]), n[i])
  OBVIOUS
<1>12. f = [i \in DOMAIN R |-> f[i]] /\ g = [i \in DOMAIN n |-> g[i]]
  OBVIOUS
<1> HIDE DEF f, g
<1>7. IsList(f \o g) /\ Elems(f \o g) = Elems(f) \cup Elems(g)
  BY <1>2, <1>4, JoinList
<1>8. ASSUME NEW i \in DOMAIN R
      PROVE  /\ f[i].id = R[i].id
             /\ Has(l, R[i].id) => f[i] = RowApply(R[i], Of(l, R[i].id))
             /\ ~Has(l, R[i].id) =>
                   RowFine(f[i]) /\ f[i].st = Settled(R[i])
  <2>1. RowFine(R[i])
    BY <1>2 DEF RowsFine
  <2>2. CASE Has(l, R[i].id)
    <3>1. f[i] = RowApply(R[i], Of(l, R[i].id))
      BY <1>5, <2>2
    <3>2. f[i].id = R[i].id
      BY <3>1, AppliedId
    <3> QED
      BY <2>2, <3>1, <3>2
  <2>3. CASE ~Has(l, R[i].id) /\ R[i].st \in Terminal
    BY <1>5, <2>1, <2>3 DEF Settled
  <2>4. CASE ~Has(l, R[i].id) /\ R[i].st \notin Terminal
    <3>1. f[i] = [R[i] EXCEPT !.st = "Cancelled", !.text = NoText, !.marked = FALSE]
      BY <1>5, <2>4
    <3> QED
      BY <2>1, <2>4, <3>1 DEF RowFine, Settled
  <2> QED
    BY <2>2, <2>3, <2>4
<1>9. ASSUME NEW z \in Elems(f \o g)
      PROVE  \/ \E x \in Elems(R) :
                   Has(l, x.id) /\ z = RowApply(x, Of(l, x.id))
             \/ \E x \in Elems(R) :
                   /\ ~Has(l, x.id) /\ RowFine(z)
                   /\ z.id = x.id /\ z.st = Settled(x)
             \/ \E e \in Elems(l) :
                   ~Has(R, e.id) /\ z = RowApply(Fresh(e), e)
  <2>1. CASE z \in Elems(f)
    <3>1. PICK i \in DOMAIN R : z = f[i]
      BY <1>2, <2>1
    <3>2. R[i] \in Elems(R)
      BY <1>2
    <3>3. CASE Has(l, R[i].id)
      BY <1>8, <3>1, <3>2, <3>3
    <3>4. CASE ~Has(l, R[i].id)
      BY <1>8, <3>1, <3>2, <3>4
    <3> QED
      BY <3>3, <3>4
  <2>2. CASE z \in Elems(g)
    <3>1. PICK i \in DOMAIN n : z = RowApply(Fresh(n[i]), n[i])
      BY <1>4, <1>6, <2>2
    <3>2. n[i] \in Elems(l) /\ ~Has(R, n[i].id)
      BY <1>3, <1>4
    <3> QED
      BY <3>1, <3>2
  <2> QED
    BY <1>7, <2>1, <2>2
<1>10. ASSUME NEW x \in Elems(R)
       PROVE  \E z \in Elems(f \o g) : z.id = x.id
  BY <1>2, <1>7, <1>8
<1>11. ASSUME NEW e \in Elems(l)
       PROVE  \E z \in Elems(f \o g) : z.id = e.id
  <2>1. CASE Has(R, e.id)
    BY <1>10, <2>1 DEF Has
  <2>2. CASE ~Has(R, e.id)
    <3>1. PICK i \in DOMAIN n : e = n[i]
      BY <1>3, <1>4, <2>2
    <3>2. g[i] \in Elems(f \o g) /\ g[i] = RowApply(Fresh(e), e)
      BY <1>4, <1>6, <1>7, <3>1
    <3>3. g[i].id = Fresh(e).id
      BY <3>2, AppliedId
    <3> QED
      BY <3>2, <3>3 DEF Fresh
  <2> QED
    BY <2>1, <2>2
<1>13. Distinct(f)
  BY <1>8, <1>12, MapDistinct DEF RowsFine
<1>14. \A i \in DOMAIN n : g[i].id = n[i].id
  <2>1. \A i \in DOMAIN n : g[i].id = Fresh(n[i]).id
    BY <1>6, AppliedId
  <2> QED
    BY <2>1 DEF Fresh
<1>15. Distinct(g)
  BY <1>3, <1>12, <1>14, MapDistinct
<1>16. \A x \in Elems(f) : \A y \in Elems(g) : x.id # y.id
  <2>1. \A i \in DOMAIN R : \A j \in DOMAIN n : f[i].id # g[j].id
    BY <1>2, <1>3, <1>4, <1>8, <1>14 DEF Has
  <2> QED
    BY <1>2, <1>4, <2>1
<1>17. Distinct(f \o g)
  BY <1>2, <1>4, <1>13, <1>15, <1>16, JoinDistinct
<1> QED
  BY <1>1, <1>7, <1>9, <1>10, <1>11, <1>17

(* What every accepted commit does, whatever ledger a host asks for: the   *)
(* rows stay fine, no prompt comes back into the queue, the ledger fits    *)
(* the new rows, and it has every prompt that is still queued.             *)
THEOREM CommitKeeps ==
    ASSUME NEW R, NEW l, RowsFine(R), Committable(l, R), PlanOK(R, l)
    PROVE  /\ RowsFine(PlanApply(R, l))
           /\ Keeps(R, PlanApply(R, l))
           /\ LedgerFine(l, PlanApply(R, l))
           /\ Mirrors(l, PlanApply(R, l))
           /\ \A z \in Elems(PlanApply(R, l)) : Known(l, PlanApply(R, l), z.id)
<1> DEFINE T == PlanApply(R, l)
           Old(z, x) == Has(l, x.id) /\ z = RowApply(x, Of(l, x.id))
           Cut(z, x) == /\ ~Has(l, x.id) /\ RowFine(z)
                        /\ z.id = x.id /\ z.st = Settled(x)
           New(z, e) == ~Has(R, e.id) /\ z = RowApply(Fresh(e), e)
<1>1. /\ IsList(T) /\ Distinct(T)
      /\ \A z \in Elems(T) : \/ \E x \in Elems(R) : Old(z, x)
                             \/ \E x \in Elems(R) : Cut(z, x)
                             \/ \E e \in Elems(l) : New(z, e)
      /\ \A x \in Elems(R) : Has(T, x.id)
      /\ \A e \in Elems(l) : Has(T, e.id)
  BY CommittedRows DEF Has
<1> HIDE DEF T
(* A row that has an entry. *)
<1>2. ASSUME NEW x \in Elems(R), NEW z, Old(z, x)
      PROVE  /\ RowFine(z) /\ z.id = x.id
             /\ x.st # "Pending" => z.st # "Pending"
             /\ x.st \in Terminal => z.st = x.st
             /\ \A e \in Elems(l) : e.id = z.id =>
                   z.st = Target(e.phase) /\ (e.phase # "Queued" => z.st # "Pending")
  <2> DEFINE e == Of(l, x.id)
             y == Of(R, e.id)
  <2>1. e \in Elems(l) /\ e.id = x.id
    BY <1>2, OfHas
  <2>2. Has(R, e.id) /\ y \in Elems(R) /\ y.id = x.id
    BY <2>1, OfHas DEF Has
  <2>3. EntryOK(y, e)
    BY <2>1, <2>2 DEF PlanOK
  <2>4. RowFine(x) /\ RowFine(y) /\ x.st = y.st
    BY <2>2 DEF RowsFine
  <2>5. EntryFine(e) /\ \A d \in Elems(l) : d.id = x.id => d.phase = e.phase
    BY <2>1 DEF Committable
  <2>6. e.phase \in {"Interrupted", "Completed"} => x.st # "Pending"
    BY <2>1 DEF Committable, Durable
  <2>7. z = RowApply(x, e)
    BY <1>2
  <2> HIDE DEF e, y
  <2>8. z.id = x.id /\ z.st = Target(e.phase)
    BY <2>7, RowApplied
  <2>9. /\ RowFine(z)
        /\ x.st # "Pending" => z.st # "Pending"
        /\ e.phase # "Queued" => z.st # "Pending"
    BY <2>3, <2>4, <2>5, <2>6, <2>7, RowFollows
  <2>10. x.st \in Terminal => z.st = x.st
    <3>1. x.st \in Terminal => RowApply(y, e).st = y.st
      BY <2>3, <2>4, <2>5, FinishedStays DEF EntryFine
    <3>2. RowApply(y, e).st = Target(e.phase)
      BY RowApplied
    <3> QED
      BY <2>4, <2>8, <3>1, <3>2
  <2> QED
    BY <2>5, <2>8, <2>9, <2>10
(* A row whose prompt is new. *)
<1>3. ASSUME NEW e \in Elems(l), NEW z, New(z, e)
      PROVE  /\ RowFine(z) /\ z.id = e.id /\ ~Has(R, z.id)
             /\ \A d \in Elems(l) : d.id = z.id =>
                   z.st = Target(d.phase) /\ (d.phase # "Queued" => z.st # "Pending")
  <2>1. EntryFine(e) /\ \A d \in Elems(l) : d.id = e.id => d.phase = e.phase
    BY DEF Committable
  <2>2. e.phase \in {"Queued", "Dispatching"}
    <3>1. e.phase \in {"Interrupted", "Completed"} => Has(R, e.id)
      BY DEF Committable, Durable
    <3> QED
      BY <1>3, <2>1, <3>1 DEF EntryFine, Phases
  <2>3. /\ RowFine(z) /\ z.id = e.id /\ z.st = Target(e.phase)
    BY <1>3, <2>1, <2>2, FreshFollows
  <2>4. Target(e.phase) = "Pending" <=> e.phase = "Queued"
    BY <2>1, TargetOf DEF EntryFine
  <2> QED
    BY <1>3, <2>1, <2>3, <2>4
<1>4. \A z \in Elems(T) : RowFine(z)
  BY <1>1, <1>2, <1>3
<1>5. ASSUME NEW z \in Elems(T), NEW e \in Elems(l), e.id = z.id
      PROVE  z.st = Target(e.phase) /\ (e.phase # "Queued" => z.st # "Pending")
  <2>1. ~ \E x \in Elems(R) : Cut(z, x)
    BY <1>5 DEF Has
  <2> QED
    BY <1>1, <1>2, <1>3, <1>5, <2>1
<1>6. ASSUME NEW z \in Elems(T), ~Has(l, z.id)
      PROVE  \E x \in Elems(R) : Cut(z, x)
  <2>1. ~ \E x \in Elems(R) : Old(z, x)
    BY <1>2, <1>6
  <2>2. ~ \E e \in Elems(l) : New(z, e)
    BY <1>3, <1>6 DEF Has
  <2> QED
    BY <1>1, <2>1, <2>2
<1>7. \A z \in Elems(T) : ~Has(l, z.id) => z.st # "Pending"
  BY <1>6 DEF Settled, Terminal
<1>8. ASSUME NEW y \in Elems(T), NEW z \in Elems(T), y.id = z.id
      PROVE  y.st = z.st
  <2>1. CASE Has(l, y.id)
    <3>1. PICK e \in Elems(l) : e.id = y.id
      BY <2>1 DEF Has
    <3> QED
      BY <1>5, <1>8, <3>1
  <2>2. CASE ~Has(l, y.id)
    <3>1. PICK a \in Elems(R) : Cut(y, a)
      BY <1>6, <2>2
    <3>2. PICK b \in Elems(R) : Cut(z, b)
      BY <1>6, <1>8, <2>2
    <3>3. a.st = b.st
      BY <1>8, <3>1, <3>2 DEF RowsFine
    <3> QED
      BY <3>1, <3>2, <3>3 DEF Settled
  <2> QED
    BY <2>1, <2>2
<1>9. RowsFine(T)
  BY <1>1, <1>4, <1>8 DEF RowsFine
<1>10. ASSUME NEW x \in Elems(R), x.st # "Pending", NEW z \in Elems(T), z.id = x.id
       PROVE  z.st # "Pending"
  <2>1. ~ \E e \in Elems(l) : New(z, e)
    BY <1>3, <1>10 DEF Has
  <2>2. ASSUME NEW y \in Elems(R), Old(z, y)
        PROVE  z.st # "Pending"
    <3>1. y.id = x.id /\ y.st = x.st
      BY <1>2, <1>10, <2>2 DEF RowsFine
    <3> QED
      BY <1>2, <1>10, <2>2, <3>1
  <2>3. ASSUME NEW y \in Elems(R), Cut(z, y)
        PROVE  z.st # "Pending"
    BY <2>3 DEF Settled, Terminal
  <2> QED
    BY <1>1, <2>1, <2>2, <2>3
<1>14. ASSUME NEW x \in Elems(R), x.st \in Terminal, NEW z \in Elems(T), z.id = x.id
       PROVE  z.st \in Terminal
  <2>1. ~ \E e \in Elems(l) : New(z, e)
    BY <1>3, <1>14 DEF Has
  <2>2. ASSUME NEW y \in Elems(R), Old(z, y)
        PROVE  z.st \in Terminal
    <3>1. y.id = x.id /\ y.st = x.st
      BY <1>2, <1>14, <2>2 DEF RowsFine
    <3> QED
      BY <1>2, <1>14, <2>2, <3>1
  <2>3. ASSUME NEW y \in Elems(R), Cut(z, y)
        PROVE  z.st \in Terminal
    BY <2>3 DEF Settled, Terminal
  <2> QED
    BY <1>1, <2>1, <2>2, <2>3
<1>11. Keeps(R, T)
  BY <1>1, <1>10, <1>14 DEF Keeps, Durable, Over
<1>12. LedgerFine(l, T)
  <2>1. \A e \in Elems(l) : Has(T, e.id) /\ (e.phase # "Queued" => Durable(T, e.id))
    BY <1>1, <1>5 DEF Durable
  <2>2. \A e \in Elems(l) : e.phase \in {"Interrupted", "Completed"} => Durable(T, e.id)
    BY <2>1
  <2> QED
    BY <2>1, <2>2 DEF LedgerFine, Committable
<1>13. ASSUME NEW z \in Elems(T)
       PROVE  Known(l, T, z.id)
  <2>1. ASSUME ~Has(l, z.id)
        PROVE  Durable(T, z.id)
    BY <1>7, <2>1 DEF Durable, Has
  <2> QED
    BY <2>1 DEF Known
<1>15. Mirrors(l, T)
  <2>1. \A z \in Elems(T) : Has(l, z.id) \/ z.st \in Terminal
    BY <1>6 DEF Settled, Terminal
  <2> QED
    BY <1>5, <2>1 DEF Mirrors
<1> QED
  BY <1>9, <1>11, <1>12, <1>13, <1>15 DEF T

-----------------------------------------------------------------------------
(* The ledger that is read from the rows.                                  *)

(* The entry of a row. *)
EntryOf(x, e) ==
    /\ e.id = x.id
    /\ EntryFine(e)
    /\ x.st # "Cancelled"
    /\ Target(e.phase) = x.st

LEMMA FromRowsEntries ==
    ASSUME NEW R, RowsFine(R)
    PROVE  /\ IsList(LedgerFromRows(R)) /\ Distinct(LedgerFromRows(R))
           /\ \A e \in Elems(LedgerFromRows(R)) : \E x \in Elems(R) : EntryOf(x, e)
           /\ \A x \in Elems(R) : x.st # "Cancelled" => Has(LedgerFromRows(R), x.id)
<1> DEFINE S == {r \in Elems(R) : r.st \notin {"Failed", "Cancelled"}}
           kept == Keeping(R, S)
           phase(st) == CASE st = "Pending"                            -> "Queued"
                          [] st \in {"Running", "Waiting", "Completing"} -> "Dispatching"
                          [] OTHER                                     -> st
           entry(x) == [id     |-> x.id,
                        phase  |-> phase(x.st),
                        text   |-> IF x.st = "Completed" THEN NoText ELSE x.text,
                        marked |-> x.st # "Completed" /\ x.marked]
           f == [i \in DOMAIN kept |-> entry(kept[i])]
<1>1. LedgerFromRows(R) = f
  BY DEF LedgerFromRows
<1>2. IsList(kept) /\ Elems(kept) = S /\ Distinct(kept)
  <2> HIDE DEF S
  <2>1. IsList(kept) /\ Elems(kept) = Elems(R) \cap S /\ Distinct(kept)
    BY KeepingList, PartDistinct DEF RowsFine
  <2> QED
    BY <2>1 DEF S
<1>3. ASSUME NEW x \in S
      PROVE  EntryOf(x, entry(x))
  <2>1. RowFine(x) /\ x.st \notin {"Failed", "Cancelled"}
    BY DEF RowsFine
  <2>2. /\ x.st = "Pending" => phase(x.st) = "Queued"
        /\ x.st = "Running" => phase(x.st) = "Dispatching"
        /\ x.st = "Interrupted" => phase(x.st) = "Interrupted"
        /\ x.st = "Completed" => phase(x.st) = "Completed"
    OBVIOUS
  <2>3. (x.st # "Completed" /\ x.marked) \in BOOLEAN
    OBVIOUS
  <2> DEFINE p == phase(x.st)
             m == (x.st # "Completed" /\ x.marked)
             e == entry(x)
  <2>4. /\ e.id = x.id /\ e.phase = p /\ e.marked = m
        /\ {"id", "phase", "text", "marked"} \subseteq DOMAIN e
    OBVIOUS
  <2>5. /\ x.st = "Pending" => m = FALSE
        /\ x.st = "Running" => m = TRUE
    BY <2>1 DEF RowFine
  <2>6. x.st \in {"Pending", "Running", "Interrupted", "Completed"}
    BY <2>1 DEF RowFine
  <2> HIDE DEF p, m, e
  <2>7. p \in Phases /\ Target(p) = x.st
    BY <2>2, <2>6 DEF p, Phases, Target
  <2>8. /\ p = "Queued" => m = FALSE
        /\ p = "Dispatching" => m = TRUE
    BY <2>2, <2>5, <2>6 DEF p
  <2>9. EntryOf(x, e)
    BY <2>1, <2>4, <2>7, <2>8 DEF EntryOf, EntryFine
  <2> QED
    BY <2>9 DEF e
<1> HIDE DEF kept, entry
<1>4. /\ IsList(f) /\ Elems(f) = {f[i] : i \in DOMAIN kept}
      /\ Elems(kept) = {kept[i] : i \in DOMAIN kept}
  <2>1. f = [i \in DOMAIN kept |-> f[i]]
    OBVIOUS
  <2> HIDE DEF f
  <2> QED
    BY <1>2, <2>1, MapList
<1>5. \A i \in DOMAIN kept : f[i] = entry(kept[i])
  OBVIOUS
<1>8. f = [i \in DOMAIN kept |-> f[i]]
  OBVIOUS
<1> HIDE DEF f
<1>9. Distinct(f)
  <2>1. \A i \in DOMAIN kept : f[i].id = kept[i].id
    BY <1>2, <1>3, <1>4, <1>5 DEF EntryOf
  <2> QED
    BY <1>2, <1>8, <2>1, MapDistinct
<1>6. \A e \in Elems(f) : \E x \in Elems(R) : EntryOf(x, e)
  BY <1>2, <1>3, <1>4, <1>5
<1>7. ASSUME NEW x \in Elems(R), x.st # "Cancelled"
      PROVE  Has(f, x.id)
  <2>1. x \in S
    BY <1>7 DEF RowsFine, RowFine
  <2>2. PICK i \in DOMAIN kept : kept[i] = x
    BY <1>2, <1>4, <2>1
  <2>3. f[i] \in Elems(f) /\ f[i].id = x.id
    BY <1>3, <1>4, <1>5, <2>1, <2>2 DEF EntryOf
  <2> QED
    BY <2>3 DEF Has
<1> QED
  BY <1>1, <1>4, <1>6, <1>7, <1>9

(* The ledger that a host reads fits the rows and misses none of them that *)
(* could still be dispatched.                                              *)
LEMMA FromRowsFine ==
    ASSUME NEW R, RowsFine(R)
    PROVE  /\ LedgerFine(LedgerFromRows(R), R)
           /\ \A x \in Elems(R) : Known(LedgerFromRows(R), R, x.id)
           /\ \A e \in Elems(LedgerFromRows(R)) : \A x \in Elems(R) :
                 x.id = e.id => x.st = Target(e.phase) /\ x.st # "Cancelled"
           /\ Mirrors(LedgerFromRows(R), R)
<1> DEFINE l == LedgerFromRows(R)
<1>1. /\ IsList(l) /\ Distinct(l)
      /\ \A e \in Elems(l) : \E x \in Elems(R) : EntryOf(x, e)
      /\ \A x \in Elems(R) : x.st # "Cancelled" => Has(l, x.id)
  BY FromRowsEntries
<1> HIDE DEF l
<1>2. ASSUME NEW e \in Elems(l)
      PROVE  /\ EntryFine(e) /\ Has(R, e.id)
             /\ \A x \in Elems(R) : x.id = e.id =>
                   x.st = Target(e.phase) /\ x.st # "Cancelled"
             /\ e.phase # "Queued" => Durable(R, e.id)
  <2>1. PICK x \in Elems(R) : EntryOf(x, e)
    BY <1>1
  <2>2. Has(R, e.id) /\ EntryFine(e)
    BY <2>1 DEF EntryOf, Has
  <2>3. \A y \in Elems(R) : y.id = e.id => y.st = Target(e.phase) /\ y.st # "Cancelled"
    BY <2>1 DEF EntryOf, RowsFine
  <2>4. e.phase # "Queued" => Target(e.phase) # "Pending"
    BY <2>2, TargetOf DEF EntryFine
  <2> QED
    BY <2>2, <2>3, <2>4 DEF Durable
<1>3. ASSUME NEW d \in Elems(l), NEW e \in Elems(l), d.id = e.id
      PROVE  d.phase = e.phase
  <2>1. PICK x \in Elems(R) : EntryOf(x, d)
    BY <1>1
  <2>2. Target(d.phase) = Target(e.phase)
    BY <1>2, <1>3, <2>1 DEF EntryOf
  <2>3. d.phase \in Phases /\ e.phase \in Phases
    BY <1>2 DEF EntryFine
  <2> QED
    BY <2>2, <2>3 DEF Target, Phases
<1>4. LedgerFine(l, R)
  <2>1. \A e \in Elems(l) : e.phase \in {"Interrupted", "Completed"} => Durable(R, e.id)
    BY <1>2
  <2>2. Committable(l, R)
    BY <1>1, <1>2, <1>3, <2>1 DEF Committable
  <2> QED
    BY <1>2, <2>2 DEF LedgerFine
<1>5. ASSUME NEW x \in Elems(R)
      PROVE  Known(l, R, x.id)
  <2>1. CASE x.st = "Cancelled"
    BY <2>1 DEF Known, Durable, Has, RowsFine
  <2> QED
    BY <1>1, <2>1 DEF Known
<1>6. Mirrors(l, R)
  BY <1>1, <1>2 DEF Mirrors, Terminal
<1> QED
  BY <1>2, <1>4, <1>5, <1>6 DEF l

(* What was being dispatched is interrupted. *)
LEMMA RecoverFine ==
    ASSUME NEW l, NEW R, LedgerFine(l, R)
    PROVE  /\ LedgerFine(RecoverAfterRestart(l), R)
           /\ \A id : Has(l, id) => Has(RecoverAfterRestart(l), id)
           /\ \A e \in Elems(RecoverAfterRestart(l)) : \E d \in Elems(l) :
                 /\ d.id = e.id
                 /\ d.phase = e.phase \/ (d.phase = "Dispatching" /\ e.phase = "Interrupted")
<1> DEFINE f == RecoverAfterRestart(l)
<1>1. /\ f = [i \in DOMAIN l |-> f[i]]
      /\ \A i \in DOMAIN l : f[i] = IF l[i].phase = "Dispatching"
                                    THEN [l[i] EXCEPT !.phase = "Interrupted"] ELSE l[i]
  BY DEF RecoverAfterRestart
<1> HIDE DEF f
<1>2. /\ IsList(f) /\ Elems(f) = {f[i] : i \in DOMAIN l}
      /\ Elems(l) = {l[i] : i \in DOMAIN l}
  BY <1>1, MapList DEF LedgerFine, Committable
<1>3. ASSUME NEW i \in DOMAIN l
      PROVE  /\ EntryFine(f[i]) /\ f[i].id = l[i].id
             /\ f[i].phase = IF l[i].phase = "Dispatching" THEN "Interrupted" ELSE l[i].phase
             /\ Has(R, f[i].id) /\ (f[i].phase # "Queued" => Durable(R, f[i].id))
  <2>1. l[i] \in Elems(l) /\ EntryFine(l[i])
    BY <1>2 DEF LedgerFine, Committable
  <2>2. /\ EntryFine(f[i]) /\ f[i].id = l[i].id
        /\ f[i].phase = IF l[i].phase = "Dispatching" THEN "Interrupted" ELSE l[i].phase
    BY <1>1, <2>1 DEF EntryFine, Phases
  <2>3. Has(R, l[i].id) /\ (l[i].phase # "Queued" => Durable(R, l[i].id))
    BY <2>1 DEF LedgerFine
  <2> QED
    BY <2>2, <2>3
<1>4. \A i, j \in DOMAIN l : l[i].id = l[j].id => l[i].phase = l[j].phase
  BY <1>2 DEF LedgerFine, Committable
<1>5. \A d, e \in Elems(f) : d.id = e.id => d.phase = e.phase
  BY <1>2, <1>3, <1>4
<1>6. LedgerFine(f, R)
  <2>1. \A e \in Elems(f) :
           /\ EntryFine(e) /\ Has(R, e.id)
           /\ e.phase # "Queued" => Durable(R, e.id)
    BY <1>2, <1>3
  <2>2. Distinct(f)
    BY <1>1, <1>3, MapDistinct DEF LedgerFine, Committable
  <2> QED
    BY <1>2, <1>5, <2>1, <2>2 DEF LedgerFine, Committable
<1>7. \A id : Has(l, id) => Has(f, id)
  BY <1>2, <1>3 DEF Has
<1>8. \A e \in Elems(f) : \E d \in Elems(l) :
         /\ d.id = e.id
         /\ d.phase = e.phase \/ (d.phase = "Dispatching" /\ e.phase = "Interrupted")
  BY <1>2, <1>3
<1> QED
  BY <1>6, <1>7, <1>8 DEF f

(* A ledger made from the rows is accepted by plan_commit, whether it      *)
(* interrupts what was being dispatched or drops what is queued.           *)
LEMMA DerivedOK ==
    ASSUME NEW R, RowsFine(R), NEW l, Committable(l, R),
           \A e \in Elems(l) : Has(R, e.id),
           \A e \in Elems(l) : \A x \in Elems(R) : x.id = e.id =>
              /\ x.st # "Cancelled"
              /\ x.st = Target(e.phase) \/ (x.st = "Running" /\ e.phase = "Interrupted")
    PROVE  PlanOK(R, l)
<1>1. ASSUME NEW e \in Elems(l)
      PROVE  EntryOK(Of(R, e.id), e)
  <2> DEFINE x == Of(R, e.id)
             to == Target(e.phase)
  <2>1. x \in Elems(R) /\ x.id = e.id
    BY OfHas
  <2> HIDE DEF x
  <2>2. x.st # "Cancelled" /\ (x.st = to \/ (x.st = "Running" /\ e.phase = "Interrupted"))
    BY <2>1
  <2>3. /\ to \in {"Pending", "Running", "Interrupted", "Completed"}
        /\ to = "Interrupted" <=> e.phase = "Interrupted"
    BY TargetOf DEF Committable, EntryFine
  <2>4. x.st \in {"Pending", "Running", "Interrupted", "Completed"}
    BY <2>1, <2>2 DEF RowsFine, RowFine
  <2>5. Reachable(x.st, to)
    BY <2>2, <2>3, <2>4 DEF Reachable, Routes
  <2>6. ContentUpdate(x, e) => x.st = "Pending"
    BY <2>2, <2>3 DEF ContentUpdate
  <2>7. EntryOK(x, e)
    BY <2>2, <2>3, <2>4, <2>5, <2>6 DEF EntryOK
  <2> QED
    BY <2>7 DEF x
<1>2. \A x \in Elems(R) : x.st # "Completing"
  BY DEF RowsFine, RowFine
<1> QED
  BY <1>1, <1>2 DEF PlanOK

LEMMA RecoveredOK ==
    ASSUME NEW R, RowsFine(R)
    PROVE  /\ LedgerFine(RecoverAfterRestart(LedgerFromRows(R)), R)
           /\ \A x \in Elems(R) : Known(RecoverAfterRestart(LedgerFromRows(R)), R, x.id)
           /\ PlanOK(R, RecoverAfterRestart(LedgerFromRows(R)))
<1> DEFINE l == LedgerFromRows(R)
           k == RecoverAfterRestart(l)
<1>1. /\ LedgerFine(l, R)
      /\ \A x \in Elems(R) : Known(l, R, x.id)
      /\ \A e \in Elems(l) : \A x \in Elems(R) :
            x.id = e.id => x.st = Target(e.phase) /\ x.st # "Cancelled"
  BY FromRowsFine
<1> HIDE DEF l
<1>2. /\ LedgerFine(k, R)
      /\ \A id : Has(l, id) => Has(k, id)
      /\ \A e \in Elems(k) : \E d \in Elems(l) :
                 /\ d.id = e.id
                 /\ d.phase = e.phase \/ (d.phase = "Dispatching" /\ e.phase = "Interrupted")
  BY <1>1, RecoverFine
<1> HIDE DEF k
<1>3. \A x \in Elems(R) : Known(k, R, x.id)
  BY <1>1, <1>2 DEF Known
<1>4. Target("Dispatching") = "Running"
  BY DEF Target
<1>5. \A e \in Elems(k) : \A x \in Elems(R) : x.id = e.id =>
              /\ x.st # "Cancelled"
              /\ x.st = Target(e.phase) \/ (x.st = "Running" /\ e.phase = "Interrupted")
  BY <1>1, <1>2, <1>4
<1>6. PlanOK(R, k)
  BY <1>2, <1>5, DerivedOK DEF LedgerFine
<1> QED
  BY <1>2, <1>3, <1>6 DEF k, l

LEMMA DiscardedOK ==
    ASSUME NEW R, RowsFine(R)
    PROVE  /\ Committable(RemoveQueued(LedgerFromRows(R)), R)
           /\ PlanOK(R, RemoveQueued(LedgerFromRows(R)))
<1> DEFINE l == LedgerFromRows(R)
           k == RemoveQueued(l)
<1>1. /\ LedgerFine(l, R)
      /\ \A e \in Elems(l) : \A x \in Elems(R) :
            x.id = e.id => x.st = Target(e.phase) /\ x.st # "Cancelled"
  BY FromRowsFine
<1> HIDE DEF l
<1>2. Committable(k, R)
  BY <1>1, RemoveQueuedFine DEF LedgerFine
<1>3. Elems(k) \subseteq Elems(l)
  BY <1>1, KeepingList DEF RemoveQueued, LedgerFine, Committable
<1> HIDE DEF k
<1>4. PlanOK(R, k)
  <2>1. \A e \in Elems(k) : Has(R, e.id)
    BY <1>1, <1>3 DEF LedgerFine
  <2>2. \A e \in Elems(k) : \A x \in Elems(R) : x.id = e.id =>
              /\ x.st # "Cancelled"
              /\ x.st = Target(e.phase) \/ (x.st = "Running" /\ e.phase = "Interrupted")
    BY <1>1, <1>3
  <2> QED
    BY <1>2, <2>1, <2>2, DerivedOK
<1> QED
  BY <1>2, <1>4 DEF k, l

(* The queue that is restored from a ledger.                               *)
LEMMA QueueOfFine ==
    ASSUME NEW l, IsList(l)
    PROVE  /\ IsList(QueueOf(l))
           /\ \A q \in Elems(QueueOf(l)) : Has(l, q.id)
           /\ \A q \in Elems(QueueOf(l)) : \E e \in Elems(l) :
                 e.id = q.id /\ e.phase = "Queued"
           /\ Distinct(l) => Distinct(QueueOf(l))
<1> DEFINE S == {e \in Elems(l) : e.phase = "Queued"}
           queued == Keeping(l, S)
           f == [i \in DOMAIN queued |-> [id |-> queued[i].id, text |-> queued[i].text]]
<1>1. QueueOf(l) = f
  BY DEF QueueOf, InPhase
<1>2. /\ IsList(queued) /\ Elems(queued) \subseteq Elems(l)
      /\ Elems(queued) \subseteq S
      /\ Distinct(l) => Distinct(queued)
  <2> HIDE DEF S
  <2> QED
    BY KeepingList, PartDistinct
<1> HIDE DEF queued
<1>3. \A i \in DOMAIN queued : f[i].id = queued[i].id
  OBVIOUS
<1>4. f = [i \in DOMAIN queued |-> f[i]]
  OBVIOUS
<1> HIDE DEF f
<1>5. /\ IsList(f) /\ Elems(f) = {f[i] : i \in DOMAIN queued}
      /\ Elems(queued) = {queued[i] : i \in DOMAIN queued}
  BY <1>2, <1>4, MapList
<1>6. Distinct(l) => Distinct(f)
  BY <1>2, <1>3, <1>4, MapDistinct
<1>7. \A q \in Elems(f) : \E e \in Elems(l) : e.id = q.id /\ e.phase = "Queued"
  BY <1>2, <1>3, <1>5
<1> QED
  BY <1>1, <1>2, <1>3, <1>5, <1>6, <1>7 DEF Has

-----------------------------------------------------------------------------
(* Configurations.                                                         *)

(* What has to hold of an actor's memory, given the rows: its ledger fits  *)
(* them, every prompt of its queue is in the ledger or need not be, and    *)
(* its turn, also one whose end could not be saved, is of a prompt that    *)
(* has left the queue.                                                     *)
SessionFine(s, stored) ==
    /\ LedgerFine(s.ledger, stored)
    /\ IsList(s.queue) /\ Distinct(s.queue)
    /\ \A q \in Elems(s.queue) : Known(s.ledger, stored, q.id)
    /\ s.active # None => "id" \in DOMAIN s.active /\ Durable(stored, s.active.id)
    /\ s.pending # None => Durable(stored, s.pending)

(* What agents have received has left the queue.                           *)
SentFine(received, stored) ==
    IsList(received) /\ \A q \in Elems(received) : Durable(stored, q.id)

Shape(c) ==
    /\ {"rows", "sent", "s", "ok"} \subseteq DOMAIN c
    /\ {"ledger", "queue", "active", "pending"} \subseteq DOMAIN c.s

Fine(c) ==
    /\ Shape(c)
    /\ RowsFine(c.rows)
    /\ SessionFine(c.s, c.rows)
    /\ SentFine(c.sent, c.rows)

(* What a handler may leave that was started on the rows R, when the       *)
(* actor knew about the prompts I: this is what every handler keeps.       *)
Good(R, I, c) ==
    /\ Fine(c)
    /\ Keeps(R, c.rows)
    /\ \A i \in I : Known(c.s.ledger, c.rows, i)

(* Neither the prompts nor the turn have changed. *)
Alike(c, d) ==
    /\ Shape(d)
    /\ d.rows = c.rows /\ d.sent = c.sent
    /\ d.s.ledger = c.s.ledger /\ d.s.queue = c.s.queue
    /\ d.s.active = c.s.active /\ d.s.pending = c.s.pending

LEMMA AlikeSelf == \A c : Shape(c) => Alike(c, c)
  BY DEF Alike

LEMMA AlikeOn == \A c, d, e : Alike(c, d) /\ Alike(d, e) => Alike(c, e)
  BY DEF Alike

LEMMA AlikeShape == \A c, d : Alike(c, d) => Shape(d)
  BY DEF Alike

LEMMA AlikeGood == \A R, I, c, d : Good(R, I, c) /\ Alike(c, d) => Good(R, I, d)
  BY DEF Alike, Good, Fine, SessionFine

LEMMA GoodShape == \A R, I, c : Good(R, I, c) => Shape(c)
  BY DEF Good, Fine

(* What is known before a step is known after it, so the rows may follow   *)
(* an accepted plan whether the actor adopts its ledger or not.            *)
LEMMA KeepsKnown ==
    ASSUME NEW R, NEW S, Keeps(R, S), NEW l, NEW id, Known(l, R, id)
    PROVE  Known(l, S, id)
  BY KeepsDurable DEF Known

LEMMA KeepsSession ==
    ASSUME NEW R, NEW S, Keeps(R, S), NEW s, SessionFine(s, R)
    PROVE  SessionFine(s, S)
  BY KeepsLedger, KeepsKnown, KeepsDurable DEF SessionFine

LEMMA KeepsSent ==
    ASSUME NEW R, NEW S, Keeps(R, S), NEW x, SentFine(x, R)
    PROVE  SentFine(x, S)
  BY KeepsDurable DEF SentFine

(* The rows and the ledger of the actor follow an accepted plan. *)
LEMMA CommittedGood ==
    ASSUME NEW R, NEW I, NEW c, Good(R, I, c), NEW l, Committable(l, c.rows),
           PlanOK(c.rows, l),
           NEW d, Shape(d), d.rows = PlanApply(c.rows, l), d.sent = c.sent,
           d.s.ledger = l, d.s.queue = c.s.queue,
           d.s.active = c.s.active, d.s.pending = c.s.pending
    PROVE  Good(R, I, d) /\ LedgerFine(l, d.rows) /\ Mirrors(l, d.rows)
<1> DEFINE S == c.rows
           T == PlanApply(S, l)
<1>1. /\ RowsFine(S) /\ SessionFine(c.s, S) /\ SentFine(c.sent, S) /\ Keeps(R, S)
      /\ \A i \in I : Known(c.s.ledger, S, i)
  BY DEF Good, Fine
<1> HIDE DEF S
<1>2. /\ RowsFine(T) /\ Keeps(S, T) /\ LedgerFine(l, T) /\ Mirrors(l, T)
      /\ \A z \in Elems(T) : Known(l, T, z.id)
  BY <1>1, CommitKeeps DEF S
<1>3. d.rows = T
  BY DEF S
<1> HIDE DEF T
<1>4. \A id : Known(c.s.ledger, S, id) => Known(l, T, id)
  <2> SUFFICES ASSUME NEW id, Known(c.s.ledger, S, id)
               PROVE  Known(l, T, id)
    OBVIOUS
  <2>1. Has(S, id)
    BY <1>1 DEF Known, Durable, SessionFine, LedgerFine, Has
  <2>2. Has(T, id)
    BY <1>2, <2>1, KeepsHas
  <2> QED
    BY <1>2, <2>2 DEF Has
<1>5. SessionFine(d.s, T)
  <2>1. SessionFine(c.s, T)
    BY <1>1, <1>2, KeepsSession
  <2>2. \A q \in Elems(c.s.queue) : Known(l, T, q.id)
    BY <1>1, <1>4 DEF SessionFine
  <2> QED
    BY <1>2, <2>1, <2>2 DEF SessionFine
<1>6. SentFine(d.sent, T)
  BY <1>1, <1>2, KeepsSent
<1>7. Keeps(R, T)
  BY <1>1, <1>2, KeepsOn
<1>8. \A i \in I : Known(l, T, i)
  BY <1>1, <1>4
<1> QED
  BY <1>2, <1>3, <1>5, <1>6, <1>7, <1>8 DEF Good, Fine

-----------------------------------------------------------------------------
(* The database: what leaves the prompts alone.                            *)

LEMMA AcceptedAlike == \A c : Shape(c) => Alike(c, Accepted(c)) /\ Accepted(c).ok = TRUE
  BY DEF Accepted, Alike, Shape

LEMMA RejectedAlike == \A c : Shape(c) => Alike(c, Rejected(c)) /\ Rejected(c).ok = FALSE
  BY DEF Rejected, Alike, Shape

LEMMA CrashedAlike == \A c : Shape(c) => Alike(c, Crashed(c))
  BY DEF Crashed, Alike, Shape

LEMMA FaultyAlike == \A c : Shape(c) => \A d \in Faulty(c) : Alike(c, d)
  BY DEF Faulty, Alike, Shape

LEMMA WriteAlike ==
    ASSUME NEW c, Shape(c)
    PROVE  \A d \in Write(c) : Alike(c, d)
<1> SUFFICES ASSUME NEW d \in Write(c)
             PROVE  Alike(c, d)
  OBVIOUS
<1>1. CASE d = Rejected(c) \/ d = Accepted(c) \/ d = Crashed(c) \/ d \in Faulty(c)
  BY <1>1, AcceptedAlike, RejectedAlike, CrashedAlike, FaultyAlike
<1>2. CASE \E g \in c.peers : d = [c EXCEPT !.ok = FALSE, !.owner = g, !.claimed[g] = TRUE]
  BY <1>2 DEF Alike, Shape
<1> QED
  BY <1>1, <1>2 DEF Write

LEMMA ReadAlike ==
    ASSUME NEW c, Shape(c)
    PROVE  \A d \in Read(c) : Alike(c, d)
  BY AcceptedAlike, FaultyAlike DEF Read

LEMMA LogAlike ==
    ASSUME NEW c, Shape(c)
    PROVE  \A d \in Log(c) : Alike(c, d)
<1> SUFFICES ASSUME NEW w \in Write(c)
             PROVE  Alike(c, [w EXCEPT !.s.backlog = ~w.ok, !.s.fault = ~w.ok])
  BY DEF Log
<1>1. Alike(c, w)
  BY WriteAlike
<1> QED
  BY <1>1 DEF Alike, Shape

LEMMA NoteAlike ==
    ASSUME NEW c, Shape(c)
    PROVE  \A d \in Note(c) : Alike(c, d)
  BY LogAlike, AcceptedAlike, AlikeOn, AlikeShape DEF Note

LEMMA MaybeLogAlike ==
    ASSUME NEW c, Shape(c)
    PROVE  \A d \in MaybeLog(c) : Alike(c, d)
  BY NoteAlike, AcceptedAlike DEF MaybeLog

(* persist_ledger_update: nothing changes, or rows and ledger both follow. *)
LEMMA CommitGood ==
    ASSUME NEW R, NEW I, NEW c, Good(R, I, c), NEW l, Committable(l, c.rows)
    PROVE  \A d \in Commit(c, l) :
              /\ Good(R, I, d)
              /\ d.ok => d.s.ledger = l /\ LedgerFine(l, d.rows) /\ Mirrors(l, d.rows)
              /\ d.s.queue = c.s.queue
              /\ d.s.active = c.s.active /\ d.s.pending = c.s.pending
<1> SUFFICES ASSUME NEW d \in Commit(c, l)
             PROVE  /\ Good(R, I, d)
                    /\ d.ok => d.s.ledger = l /\ LedgerFine(l, d.rows) /\ Mirrors(l, d.rows)
                    /\ d.s.queue = c.s.queue
                    /\ d.s.active = c.s.active /\ d.s.pending = c.s.pending
  OBVIOUS
<1>0. Shape(c)
  BY GoodShape
<1>1. CASE Alike(c, d) /\ ~d.ok
  BY <1>1, AlikeGood DEF Alike
<1>2. ASSUME PlanOK(c.rows, l), NEW w, Alike(c, w), w.ok,
             d = [w EXCEPT !.rows = PlanApply(@, l), !.s.ledger = l]
      PROVE  /\ Good(R, I, d) /\ LedgerFine(l, d.rows) /\ d.s.ledger = l
             /\ Mirrors(l, d.rows)
             /\ d.s.queue = c.s.queue
             /\ d.s.active = c.s.active /\ d.s.pending = c.s.pending
  <2>1. /\ Shape(d) /\ d.rows = PlanApply(c.rows, l) /\ d.sent = c.sent
        /\ d.s.ledger = l /\ d.s.queue = c.s.queue
        /\ d.s.active = c.s.active /\ d.s.pending = c.s.pending
    BY <1>2 DEF Alike, Shape
  <2>2. Good(R, I, d) /\ LedgerFine(l, d.rows) /\ Mirrors(l, d.rows)
    BY <1>2, <2>1, CommittedGood
  <2> QED
    BY <2>1, <2>2
<1>3. CASE ~PlanOK(c.rows, l)
  <2>1. d = Rejected(c)
    BY <1>3 DEF Commit
  <2> QED
    BY <1>0, <1>1, <2>1, RejectedAlike
<1>4. CASE PlanOK(c.rows, l)
  <2>1. PICK w \in Read(c) \cup Write(c) :
           d = IF w.ok THEN [w EXCEPT !.rows = PlanApply(@, l), !.s.ledger = l] ELSE w
    BY <1>4 DEF Commit
  <2>2. Alike(c, w)
    BY <1>0, ReadAlike, WriteAlike
  <2> QED
    BY <1>1, <1>2, <1>4, <2>1, <2>2
<1> QED
  BY <1>3, <1>4

(* commit_ledger_with_events. *)
LEMMA CommitWithEventsGood ==
    ASSUME NEW R, NEW I, NEW c, Good(R, I, c), NEW l, Committable(l, c.rows), NEW events
    PROVE  \A d \in CommitWithEvents(c, l, events) :
              /\ Good(R, I, d)
              /\ d.ok => d.s.ledger = l /\ LedgerFine(l, d.rows) /\ Mirrors(l, d.rows)
              /\ d.s.queue = c.s.queue
              /\ d.s.active = c.s.active /\ d.s.pending = c.s.pending
<1> SUFFICES ASSUME NEW d \in CommitWithEvents(c, l, events)
             PROVE  /\ Good(R, I, d)
                    /\ d.ok => d.s.ledger = l /\ LedgerFine(l, d.rows) /\ Mirrors(l, d.rows)
                    /\ d.s.queue = c.s.queue
                    /\ d.s.active = c.s.active /\ d.s.pending = c.s.pending
  OBVIOUS
<1>0. Shape(c)
  BY GoodShape
<1>1. CASE Alike(c, d) /\ ~d.ok
  BY <1>1, AlikeGood DEF Alike
<1>2. ASSUME PlanOK(c.rows, l), NEW w, Alike(c, w), w.ok,
             d = [w EXCEPT !.rows = PlanApply(@, l), !.s.ledger = l,
                           !.s.backlog = FALSE, !.s.fault = FALSE]
      PROVE  /\ Good(R, I, d) /\ LedgerFine(l, d.rows) /\ d.s.ledger = l
             /\ Mirrors(l, d.rows)
             /\ d.s.queue = c.s.queue
             /\ d.s.active = c.s.active /\ d.s.pending = c.s.pending
  <2>1. /\ Shape(d) /\ d.rows = PlanApply(c.rows, l) /\ d.sent = c.sent
        /\ d.s.ledger = l /\ d.s.queue = c.s.queue
        /\ d.s.active = c.s.active /\ d.s.pending = c.s.pending
    BY <1>2 DEF Alike, Shape
  <2>2. Good(R, I, d) /\ LedgerFine(l, d.rows) /\ Mirrors(l, d.rows)
    BY <1>2, <2>1, CommittedGood
  <2> QED
    BY <2>1, <2>2
<1>3. CASE ~PlanOK(c.rows, l)
  <2>1. d = Rejected(c)
    BY <1>3 DEF CommitWithEvents
  <2> QED
    BY <1>0, <1>1, <2>1, RejectedAlike
<1>4. CASE PlanOK(c.rows, l)
  <2>1. PICK w \in Read(c) \cup Write(c) :
           d = IF w.ok
               THEN [w EXCEPT !.rows = PlanApply(@, l), !.s.ledger = l,
                              !.s.backlog = FALSE, !.s.fault = FALSE]
               ELSE w
    BY <1>4 DEF CommitWithEvents
  <2>2. Alike(c, w)
    BY <1>0, ReadAlike, WriteAlike
  <2> QED
    BY <1>1, <1>2, <1>4, <2>1, <2>2
<1> QED
  BY <1>3, <1>4

-----------------------------------------------------------------------------
(* The agent slot leaves the prompts alone.                                *)

LEMMA MarkExitedAlike == \A c : Shape(c) => Alike(c, MarkExited(c))
  BY DEF MarkExited, Alike, Shape

LEMMA NoteExitAlike == \A c : Shape(c) => Alike(c, NoteExit(c))
  BY MarkExitedAlike, AlikeSelf DEF NoteExit

LEMMA KillAlike == \A c : Shape(c) => Alike(c, Kill(c))
  BY DEF Kill, Alike, Shape

LEMMA InstallAlike == \A c : Shape(c) => Alike(c, Install(c))
  BY DEF Install, Alike, Shape

LEMMA RecordChildAlike ==
    ASSUME NEW c, Shape(c)
    PROVE  \A d \in RecordChild(c) : Alike(c, d)
<1> SUFFICES ASSUME NEW w \in Write(c)
             PROVE  /\ Alike(c, w)
                    /\ Alike(c, [w EXCEPT !.run = [child |-> c.host, boot |-> c.host]])
  BY DEF RecordChild
<1>1. Alike(c, w)
  BY WriteAlike
<1> QED
  BY <1>1 DEF Alike, Shape

LEMMA RejectForeignAlike ==
    ASSUME NEW c, Shape(c)
    PROVE  \A d \in RejectForeignLiveChild(c) : Alike(c, d)
  BY ReadAlike, RejectedAlike, AlikeOn, AlikeShape DEF RejectForeignLiveChild

LEMMA DiscardGood ==
    ASSUME NEW R, NEW I, NEW S, \A d \in S : Good(R, I, d)
    PROVE  \A d \in Discard(S) : Good(R, I, d)
  BY KillAlike, AlikeGood, GoodShape DEF Discard

(* The same, for what is Good. *)
LEMMA AlikeAll ==
    ASSUME NEW R, NEW I, NEW c, Good(R, I, c)
    PROVE  /\ \A d \in Write(c) \cup Read(c) \cup Log(c) \cup Note(c) \cup MaybeLog(c)
                       \cup RecordChild(c) \cup RejectForeignLiveChild(c) \cup Spawn(c) :
                 Good(R, I, d) /\ Alike(c, d)
           /\ \A d \in {Accepted(c), Rejected(c), Crashed(c), MarkExited(c), NoteExit(c),
                        Kill(c), Install(c)} :
                 Good(R, I, d) /\ Alike(c, d)
           /\ \A d \in Faulty(c) : Good(R, I, d) /\ Alike(c, d)
<1>1. Shape(c)
  BY GoodShape
<1>2. /\ \A d \in Write(c) \cup Read(c) \cup Log(c) \cup Note(c) \cup MaybeLog(c) : Alike(c, d)
      /\ \A d \in RecordChild(c) \cup RejectForeignLiveChild(c) \cup Spawn(c) : Alike(c, d)
  BY <1>1, WriteAlike, ReadAlike, LogAlike, NoteAlike, MaybeLogAlike, RecordChildAlike,
     RejectForeignAlike DEF Spawn
<1>3. \A d \in {Accepted(c), Rejected(c), Crashed(c), MarkExited(c), NoteExit(c),
                Kill(c), Install(c)} : Alike(c, d)
  BY <1>1, AcceptedAlike, RejectedAlike, CrashedAlike, MarkExitedAlike, NoteExitAlike,
     KillAlike, InstallAlike
<1>4. \A d \in Faulty(c) : Alike(c, d)
  BY <1>1, FaultyAlike
<1> QED
  BY <1>2, <1>3, <1>4, AlikeGood

(* The actor's queue or turn has changed. *)
LEMMA SessionGood ==
    ASSUME NEW R, NEW I, NEW c, Good(R, I, c),
           NEW d, Shape(d), d.rows = c.rows, d.sent = c.sent, d.s.ledger = c.s.ledger,
           SessionFine(d.s, c.rows)
    PROVE  Good(R, I, d)
  BY DEF Good, Fine

LEMMA IdleGood ==
    ASSUME NEW R, NEW I, NEW c, Good(R, I, c)
    PROVE  /\ Good(R, I, [c EXCEPT !.s.active = None])
           /\ Good(R, I, [c EXCEPT !.s.active = None, !.s.pending = None])
           /\ [c EXCEPT !.s.active = None].s.queue = c.s.queue
<1>1. Shape(c) /\ SessionFine(c.s, c.rows)
  BY DEF Good, Fine
<1> DEFINE d == [c EXCEPT !.s.active = None]
           e == [c EXCEPT !.s.active = None, !.s.pending = None]
<1>2. /\ Shape(d) /\ d.rows = c.rows /\ d.sent = c.sent /\ d.s.ledger = c.s.ledger
      /\ d.s.queue = c.s.queue /\ d.s.active = None /\ d.s.pending = c.s.pending
  BY <1>1 DEF Shape
<1>3. /\ Shape(e) /\ e.rows = c.rows /\ e.sent = c.sent /\ e.s.ledger = c.s.ledger
      /\ e.s.queue = c.s.queue /\ e.s.active = None /\ e.s.pending = None
  BY <1>1 DEF Shape
<1> HIDE DEF d, e
<1>4. Good(R, I, d)
  BY <1>1, <1>2, SessionGood DEF SessionFine
<1>5. Good(R, I, e)
  BY <1>1, <1>3, SessionGood DEF SessionFine
<1> QED
  BY <1>2, <1>4, <1>5 DEF d, e

LEMMA GoodFacts ==
    ASSUME NEW R, NEW I, NEW c, Good(R, I, c)
    PROVE  /\ Good(c.rows, I, c)
           /\ Committable(c.s.ledger, c.rows)
           /\ c.s.active # None => Durable(c.rows, c.s.active.id)
           /\ c.s.pending # None => Durable(c.rows, c.s.pending)
  BY KeepsSame DEF Good, Fine, SessionFine, LedgerFine

-----------------------------------------------------------------------------
(* The end of a turn.                                                      *)

LEMMA FinalizeGood ==
    ASSUME NEW R, NEW I, NEW c, Good(R, I, c)
    PROVE  \A d \in Finalize(c) : Good(R, I, d) /\ d.s.queue = c.s.queue
<1> SUFFICES ASSUME NEW d \in Finalize(c), c.s.active # None, c.s.active.term # None
             PROVE  Good(R, I, d) /\ d.s.queue = c.s.queue
  BY DEF Finalize
<1> DEFINE l == IF c.s.active.term = "failed"
                THEN MarkInterrupted(c.s.ledger, c.s.active.id)
                ELSE MarkCompleted(c.s.ledger, c.s.active.id)
           events == TRUE
<1>1. Committable(l, c.rows)
  BY GoodFacts, MarkInterruptedFine, MarkCompletedFine
<1>2. PICK e \in CommitWithEvents(c, l, events) :
         d \in IF e.ok THEN {[e EXCEPT !.s.active = None]}
               ELSE IF e.s.backlog THEN {e} ELSE MaybeLog(e)
  BY DEF Finalize
<1> HIDE DEF l, events
<1>3. Good(R, I, e) /\ e.s.queue = c.s.queue
  BY <1>1, CommitWithEventsGood
<1>4. d = [e EXCEPT !.s.active = None] \/ d = e \/ d \in MaybeLog(e)
  BY <1>2
<1>5. CASE d = [e EXCEPT !.s.active = None]
  BY <1>3, <1>5, IdleGood
<1>6. CASE d = e
  BY <1>3, <1>6
<1>7. CASE d \in MaybeLog(e)
  BY <1>3, <1>7, AlikeAll DEF Alike
<1> QED
  BY <1>4, <1>5, <1>6, <1>7

LEMMA InterruptActiveGood ==
    ASSUME NEW R, NEW I, NEW c, Good(R, I, c)
    PROVE  \A d \in InterruptActive(c) : Good(R, I, d)
<1> SUFFICES ASSUME NEW d \in InterruptActive(c)
             PROVE  Good(R, I, d)
  OBVIOUS
<1>1. CASE c.s.active = None
  BY <1>1, AlikeAll DEF InterruptActive
<1>2. CASE c.s.active # None /\ c.s.active.term # None
  <2>1. PICK e \in Finalize(c) : d = [e EXCEPT !.ok = e.s.active = None]
    BY <1>2 DEF InterruptActive
  <2>2. Good(R, I, e)
    BY FinalizeGood
  <2>3. Alike(e, d)
    BY <2>1, <2>2, GoodShape DEF Alike, Shape
  <2> QED
    BY <2>2, <2>3, AlikeGood
<1>3. CASE c.s.active # None /\ c.s.active.term = None
  <2> DEFINE l == MarkInterrupted(c.s.ledger, c.s.active.id)
  <2>1. Committable(l, c.rows)
    BY <1>3, GoodFacts, MarkInterruptedFine
  <2>2. PICK e \in Commit(c, l) : d = IF e.ok THEN [e EXCEPT !.s.active = None] ELSE e
    BY <1>3 DEF InterruptActive
  <2> HIDE DEF l
  <2>3. Good(R, I, e)
    BY <2>1, CommitGood
  <2> QED
    BY <2>2, <2>3, IdleGood
<1> QED
  BY <1>1, <1>2, <1>3

-----------------------------------------------------------------------------
(* Dispatch.                                                               *)

LEMMA TurnGood ==
    ASSUME NEW R, NEW I, NEW c, Good(R, I, c), NEW id, Durable(c.rows, id), NEW term,
           NEW d, Shape(d), d.rows = c.rows, d.sent = c.sent, d.s.ledger = c.s.ledger,
           d.s.queue = c.s.queue, d.s.pending = c.s.pending, d.s.active = Active(id, term)
    PROVE  Good(R, I, d)
<1>1. SessionFine(c.s, c.rows)
  BY DEF Good, Fine
<1>2. "id" \in DOMAIN d.s.active /\ d.s.active.id = id
  BY DEF Active
<1>3. SessionFine(d.s, c.rows)
  BY <1>1, <1>2 DEF SessionFine
<1> QED
  BY <1>3, SessionGood

(* The prompt is handed to the agent. *)
LEMMA DeliveredGood ==
    ASSUME NEW R, NEW I, NEW c, Good(R, I, c), NEW q, Durable(c.rows, q.id)
    PROVE  LET d == [c EXCEPT !.sent = Append(@, q)]
           IN Good(R, I, d) /\ d.rows = c.rows /\ d.s = c.s
<1> DEFINE d == [c EXCEPT !.sent = Append(@, q)]
<1>1. Shape(c) /\ SentFine(c.sent, c.rows)
  BY DEF Good, Fine
<1>2. Shape(d) /\ d.rows = c.rows /\ d.s = c.s /\ d.sent = Append(c.sent, q)
  BY <1>1 DEF Shape
<1> HIDE DEF d
<1>3. SentFine(d.sent, c.rows)
  BY <1>1, <1>2, AppendList DEF SentFine
<1>4. Good(R, I, d)
  BY <1>2, <1>3 DEF Good, Fine
<1> QED
  BY <1>2, <1>4 DEF d

LEMMA BeginGood ==
    ASSUME NEW R, NEW I, NEW c, Good(R, I, c), NEW q, Durable(c.rows, q.id)
    PROVE  \A d \in Begin(c, q) : Good(R, I, d) /\ d.s.queue = c.s.queue
<1> DEFINE begun == [c EXCEPT !.ok = TRUE, !.s.active = Active(q.id, None), !.s.chan = None]
           retained(d) == [d EXCEPT !.s.active = Active(q.id, "failed"), !.s.chan = None]
           delivered(d) == [d EXCEPT !.sent = Append(@, q)]
           failed(d) == {Rejected(e) : e \in Finalize(retained(d))}
           Fits(d) == Good(R, I, d) /\ d.s.queue = c.s.queue /\ d.rows = c.rows
<1>1. Fits(begun)
  <2>1. Shape(c)
    BY GoodShape
  <2>2. /\ Shape(begun) /\ begun.rows = c.rows /\ begun.sent = c.sent
        /\ begun.s.ledger = c.s.ledger /\ begun.s.queue = c.s.queue
        /\ begun.s.pending = c.s.pending /\ begun.s.active = Active(q.id, None)
    BY <2>1 DEF Shape
  <2> HIDE DEF begun
  <2> QED
    BY <2>2, TurnGood
<1>2. ASSUME NEW d, Fits(d)
      PROVE  Fits(delivered(d))
  <2>1. Durable(d.rows, q.id)
    BY <1>2
  <2>2. Good(R, I, delivered(d)) /\ delivered(d).rows = d.rows /\ delivered(d).s = d.s
    BY <1>2, <2>1, DeliveredGood
  <2> QED
    BY <1>2, <2>2
<1>3. ASSUME NEW d, Fits(d)
      PROVE  \A e \in failed(d) : Good(R, I, e) /\ e.s.queue = c.s.queue
  <2> DEFINE r == retained(d)
  <2>1. Shape(d)
    BY <1>3, GoodShape
  <2>2. /\ Shape(r) /\ r.rows = d.rows /\ r.sent = d.sent
        /\ r.s.ledger = d.s.ledger /\ r.s.queue = d.s.queue
        /\ r.s.pending = d.s.pending /\ r.s.active = Active(q.id, "failed")
    BY <2>1 DEF Shape
  <2> HIDE DEF r
  <2>3. Good(R, I, r) /\ r.s.queue = c.s.queue
    BY <1>3, <2>2, TurnGood
  <2>4. \A e \in Finalize(r) : Good(R, I, e) /\ e.s.queue = c.s.queue
    BY <2>3, FinalizeGood
  <2>5. \A e \in Finalize(r) : Good(R, I, Rejected(e)) /\ Rejected(e).s.queue = c.s.queue
    BY <2>4, AlikeAll DEF Alike
  <2> QED
    BY <2>5 DEF r
<1>4. Fits(c)
  OBVIOUS
<1>5. \A d \in Faulty(c) : Fits(d)
  <2>1. \A d \in Faulty(c) : Good(R, I, d) /\ Alike(c, d)
    BY AlikeAll
  <2> QED
    BY <2>1 DEF Alike
<1>6. Fits(Crashed(c))
  BY AlikeAll DEF Alike
<1> SUFFICES ASSUME NEW d \in Begin(c, q)
             PROVE  Good(R, I, d) /\ d.s.queue = c.s.queue
  OBVIOUS
<1> DEFINE failures == IF c.alive THEN UNION {{e, delivered(e)} : e \in Faulty(c)} ELSE {c}
<1>7. \/ d = c \/ d = Crashed(c) \/ d = delivered(begun) \/ d = begun
      \/ \E e \in failures : d \in failed(e)
  BY DEF Begin
<1> HIDE DEF begun, delivered, failed
<1>8. \A e \in failures : Fits(e)
  BY <1>2, <1>4, <1>5
<1> QED
  BY <1>1, <1>2, <1>3, <1>4, <1>6, <1>7, <1>8

(* The intent to dispatch is durable before the agent gets the prompt.     *)
LEMMA DispatchQueuedGood ==
    ASSUME NEW R, NEW I, NEW c, Good(R, I, c), NEW q, Known(c.s.ledger, c.rows, q.id)
    PROVE  \A d \in DispatchQueued(c, q) : Good(R, I, d) /\ d.s.queue = c.s.queue
<1> SUFFICES ASSUME NEW d \in DispatchQueued(c, q)
             PROVE  Good(R, I, d) /\ d.s.queue = c.s.queue
  OBVIOUS
<1> DEFINE l == MarkDispatching(c.s.ledger, q.id)
<1>1. /\ Committable(l, c.rows)
      /\ \A e \in Elems(l) : e.id = q.id => e.phase = "Dispatching"
      /\ Has(c.s.ledger, q.id) => Has(l, q.id)
  BY GoodFacts, MarkDispatchingFine
<1>2. CASE d = Rejected(c)
  BY <1>2, AlikeAll DEF Alike
<1>3. ASSUME NEW e \in Commit(c, l), e.ok, NEW f \in Begin(e, q), d = Accepted(f)
      PROVE  Good(R, I, d) /\ d.s.queue = c.s.queue
  <2> HIDE DEF l
  <2>1. Good(R, I, e) /\ e.s.queue = c.s.queue /\ LedgerFine(l, e.rows)
    BY <1>1, <1>3, CommitGood
  <2>2. Keeps(c.rows, e.rows)
    <3>1. Good(c.rows, I, c)
      BY GoodFacts
    <3>2. Good(c.rows, I, e)
      BY <1>1, <3>1, CommitGood
    <3> QED
      BY <3>2 DEF Good
  <2>3. Durable(e.rows, q.id)
    <3>1. CASE Has(c.s.ledger, q.id)
      <4>1. PICK x \in Elems(l) : x.id = q.id
        BY <1>1, <3>1 DEF Has
      <4>2. x.phase # "Queued"
        BY <1>1, <4>1
      <4> QED
        BY <2>1, <4>1, <4>2 DEF LedgerFine
    <3>2. CASE Durable(c.rows, q.id)
      BY <2>2, <3>2, KeepsDurable
    <3> QED
      BY <3>1, <3>2 DEF Known
  <2>4. Good(R, I, f) /\ f.s.queue = c.s.queue
    BY <2>1, <2>3, BeginGood
  <2> QED
    BY <1>3, <2>4, AlikeAll DEF Alike
<1>4. CASE d \in Commit(c, l) /\ ~d.ok
  <2> HIDE DEF l
  <2> QED
    BY <1>1, <1>4, CommitGood
<1> QED
  BY <1>2, <1>3, <1>4 DEF DispatchQueued, Then

LEMMA TryDispatchGood ==
    ASSUME NEW R, NEW I, NEW c, Good(R, I, c)
    PROVE  \A d \in TryDispatch(c) : Good(R, I, d)
<1> SUFFICES ASSUME NEW d \in TryDispatch(c)
             PROVE  Good(R, I, d)
  OBVIOUS
<1> DEFINE n == NoteExit(c)
<1>1. Good(R, I, n)
  BY AlikeAll
<1>2. CASE d = c \/ d = n
  BY <1>1, <1>2
<1>3. ASSUME n.s.queue # <<>>, NEW e \in DispatchQueued(n, Head(n.s.queue)),
             d \in IF e.ok THEN {[e EXCEPT !.s.queue = Tail(@)]} ELSE MaybeLog(e)
      PROVE  Good(R, I, d)
  <2> HIDE DEF n
  <2>1. IsList(n.s.queue) /\ \A q \in Elems(n.s.queue) : Known(n.s.ledger, n.rows, q.id)
    BY <1>1 DEF Good, Fine, SessionFine
  <2>2. Head(n.s.queue) \in Elems(n.s.queue)
    BY <1>3, <2>1, TailList
  <2>3. Good(R, I, e) /\ e.s.queue = n.s.queue
    BY <1>1, <1>3, <2>1, <2>2, DispatchQueuedGood
  <2>4. CASE d \in MaybeLog(e)
    BY <2>3, <2>4, AlikeAll
  <2>5. CASE d = [e EXCEPT !.s.queue = Tail(@)]
    <3>1. Shape(e) /\ SessionFine(e.s, e.rows)
      BY <2>3 DEF Good, Fine
    <3>2. /\ Shape(d) /\ d.rows = e.rows /\ d.sent = e.sent /\ d.s.ledger = e.s.ledger
          /\ d.s.queue = Tail(e.s.queue) /\ d.s.active = e.s.active
          /\ d.s.pending = e.s.pending
      BY <2>5, <3>1 DEF Shape
    <3>3. IsList(d.s.queue) /\ Elems(d.s.queue) \subseteq Elems(e.s.queue)
      BY <1>3, <2>1, <2>3, <3>2, TailList
    <3>5. Distinct(d.s.queue)
      BY <1>3, <2>1, <2>3, <3>1, <3>2, TailDistinct DEF SessionFine
    <3>4. SessionFine(d.s, e.rows)
      BY <3>1, <3>2, <3>3, <3>5 DEF SessionFine
    <3> QED
      BY <2>3, <3>2, <3>4, SessionGood
  <2> QED
    BY <1>3, <2>4, <2>5
<1> QED
  BY <1>2, <1>3 DEF TryDispatch

LEMMA RetryPendingGood ==
    ASSUME NEW R, NEW I, NEW c, Good(R, I, c)
    PROVE  \A d \in RetryPending(c) : Good(R, I, d)
<1> SUFFICES ASSUME NEW d \in RetryPending(c), c.s.pending # None
             PROVE  Good(R, I, d)
  BY DEF RetryPending
<1> DEFINE l == MarkInterrupted(c.s.ledger, c.s.pending)
<1>1. Committable(l, c.rows)
  BY GoodFacts, MarkInterruptedFine
<1>2. PICK e \in Commit(c, l) :
         d \in IF e.ok
               THEN Anyway(Note(e), LAMBDA f :
                       TryDispatch([f EXCEPT !.s.active = None, !.s.pending = None]))
               ELSE MaybeLog(e)
  BY DEF RetryPending
<1> HIDE DEF l
<1>3. Good(R, I, e)
  BY <1>1, CommitGood
<1>4. CASE d \in MaybeLog(e)
  BY <1>3, <1>4, AlikeAll
<1>5. ASSUME NEW f \in Note(e),
             d \in TryDispatch([f EXCEPT !.s.active = None, !.s.pending = None])
      PROVE  Good(R, I, d)
  <2>1. Good(R, I, f)
    BY <1>3, AlikeAll
  <2>2. Good(R, I, [f EXCEPT !.s.active = None, !.s.pending = None])
    BY <2>1, IdleGood
  <2> QED
    BY <1>5, <2>2, TryDispatchGood
<1> QED
  BY <1>2, <1>4, <1>5 DEF Anyway

-----------------------------------------------------------------------------
(* The drain, and the exit of the agent.                                   *)

LEMMA DrainGood ==
    ASSUME NEW R, NEW I, NEW c, Good(R, I, c)
    PROVE  \A d \in Drain(c) : Good(R, I, d)
<1> DEFINE term == Outcome(c.s.chan, c.s.active.cancel)
           a == IF c.s.active = None \/ c.s.active.term # None THEN c.s.active
                ELSE [c.s.active EXCEPT !.term = term]
           d == [c EXCEPT !.s.chan = None,
                          !.s.active = IF @ = None \/ @.term # None THEN @
                                       ELSE [@ EXCEPT !.term = term]]
<1>1. Shape(c) /\ SessionFine(c.s, c.rows)
  BY DEF Good, Fine
<1> HIDE DEF term
<1>2. /\ Shape(d) /\ d.rows = c.rows /\ d.sent = c.sent /\ d.s.ledger = c.s.ledger
      /\ d.s.queue = c.s.queue /\ d.s.pending = c.s.pending /\ d.s.active = a
  BY <1>1 DEF Shape
<1>3. a # None => "id" \in DOMAIN a /\ Durable(c.rows, a.id)
  BY <1>1 DEF SessionFine
<1> HIDE DEF a, d
<1>4. SessionFine(d.s, c.rows)
  BY <1>1, <1>2, <1>3 DEF SessionFine
<1>5. Good(R, I, d)
  BY <1>2, <1>4, SessionGood
<1> QED
  BY <1>5 DEF Drain, d, term

LEMMA InterruptAfterExitGood ==
    ASSUME NEW R, NEW I, NEW c, Good(R, I, c), NEW id, Durable(c.rows, id)
    PROVE  \A d \in InterruptAfterExit(c, id) : Good(R, I, d)
<1> SUFFICES ASSUME NEW d \in InterruptAfterExit(c, id)
             PROVE  Good(R, I, d)
  OBVIOUS
<1> DEFINE l == MarkInterrupted(c.s.ledger, id)
<1>1. Committable(l, c.rows)
  BY GoodFacts, MarkInterruptedFine
<1>2. PICK e \in Commit(c, l) :
         d \in IF e.ok
               THEN {[f EXCEPT !.s.active = None, !.s.pending = None] : f \in Note(e)}
               ELSE MaybeLog([e EXCEPT !.s.pending = id])
  BY DEF InterruptAfterExit
<1> HIDE DEF l
<1>3. Good(R, I, e) /\ Keeps(c.rows, e.rows)
  <2>1. Good(c.rows, I, c)
    BY GoodFacts
  <2>2. Good(R, I, e) /\ Good(c.rows, I, e)
    BY <1>1, <2>1, CommitGood
  <2> QED
    BY <2>2 DEF Good
<1>4. ASSUME NEW f \in Note(e), d = [f EXCEPT !.s.active = None, !.s.pending = None]
      PROVE  Good(R, I, d)
  <2>1. Good(R, I, f)
    BY <1>3, AlikeAll
  <2> QED
    BY <1>4, <2>1, IdleGood
<1>5. CASE d \in MaybeLog([e EXCEPT !.s.pending = id])
  <2> DEFINE p == [e EXCEPT !.s.pending = id]
  <2>1. Shape(e) /\ SessionFine(e.s, e.rows)
    BY <1>3 DEF Good, Fine
  <2>2. /\ Shape(p) /\ p.rows = e.rows /\ p.sent = e.sent /\ p.s.ledger = e.s.ledger
        /\ p.s.queue = e.s.queue /\ p.s.active = e.s.active /\ p.s.pending = id
    BY <2>1 DEF Shape
  <2> HIDE DEF p
  <2>3. Durable(e.rows, id)
    BY <1>3, KeepsDurable
  <2>4. SessionFine(p.s, e.rows)
    BY <2>1, <2>2, <2>3 DEF SessionFine
  <2>5. Good(R, I, p)
    BY <1>3, <2>2, <2>4, SessionGood
  <2>6. d \in MaybeLog(p)
    BY <1>5 DEF p
  <2> QED
    BY <2>5, <2>6, AlikeAll
<1> QED
  BY <1>2, <1>4, <1>5

LEMMA ReconcileGood ==
    ASSUME NEW R, NEW I, NEW c, Good(R, I, c)
    PROVE  \A d \in Reconcile(c) : Good(R, I, d)
<1> SUFFICES ASSUME NEW d \in Reconcile(c)
             PROVE  Good(R, I, d)
  OBVIOUS
<1> DEFINE b == [c EXCEPT !.s.reconciled = TRUE]
           m == MarkExited(b)
<1>1. Good(R, I, b)
  <2>1. Alike(c, b)
    BY GoodShape DEF Alike, Shape
  <2> QED
    BY <2>1, AlikeGood
<1> HIDE DEF b
<1>2. Good(R, I, m)
  BY <1>1, AlikeAll
<1>7. PICK e \in MaybeLog(m) :
         d \in IF e.s.active = None THEN {e}
               ELSE UNION {IF e.s.active.term \in {"ok", "cancelled"} THEN {f}
                           ELSE InterruptAfterExit(f, e.s.active.id) : f \in Finalize(e)}
  BY DEF Reconcile, Anyway, b
<1> HIDE DEF m
<1>3. \/ d = e \/ d \in Finalize(e)
      \/ /\ e.s.active # None
         /\ \E f \in Finalize(e) : d \in InterruptAfterExit(f, e.s.active.id)
  BY <1>7
<1>4. Good(R, I, e)
  BY <1>2, AlikeAll
<1>5. CASE d = e \/ d \in Finalize(e)
  BY <1>4, <1>5, FinalizeGood
<1>6. ASSUME e.s.active # None,
             NEW f \in Finalize(e), d \in InterruptAfterExit(f, e.s.active.id)
      PROVE  Good(R, I, d)
  <2>1. Good(e.rows, I, e) /\ Durable(e.rows, e.s.active.id)
    BY <1>4, <1>6, GoodFacts
  <2>2. Good(R, I, f) /\ Good(e.rows, I, f)
    BY <1>4, <1>6, <2>1, FinalizeGood
  <2>3. Durable(f.rows, e.s.active.id)
    BY <2>1, <2>2, KeepsDurable DEF Good
  <2> QED
    BY <1>6, <2>2, <2>3, InterruptAfterExitGood
<1> QED
  BY <1>3, <1>5, <1>6

LEMMA PumpGood ==
    ASSUME NEW R, NEW I, NEW c, Good(R, I, c)
    PROVE  \A d \in Pump(c) : Good(R, I, d)
<1> DEFINE ended(f) == IF ~f.alive /\ ~f.s.reconciled THEN Reconcile(f)
                       ELSE {IF f.alive THEN g ELSE MarkExited(g) : g \in Finalize(f)}
<1>1. \A f : Good(R, I, f) => \A g \in ended(f) : Good(R, I, g)
  <2> SUFFICES ASSUME NEW f, Good(R, I, f), NEW g \in ended(f)
               PROVE  Good(R, I, g)
    BY Zenon
  <2>1. CASE g \in Finalize(f)
    BY <2>1, FinalizeGood
  <2>2. CASE g \in Reconcile(f)
    BY <2>2, ReconcileGood
  <2>3. CASE \E h \in Finalize(f) : g = MarkExited(h)
    BY <2>3, FinalizeGood, AlikeAll
  <2> QED
    BY <2>1, <2>2, <2>3
<1> SUFFICES ASSUME NEW d \in Pump(c)
             PROVE  Good(R, I, d)
  OBVIOUS
<1>2. PICK e \in RetryPending(c) :
         \/ d = e
         \/ \E n \in Drain(e) : \E f \in MaybeLog(n) : \E g \in ended(f) : d \in TryDispatch(g)
  BY DEF Pump, Anyway
<1> HIDE DEF ended
<1>3. Good(R, I, e)
  BY RetryPendingGood
<1>4. ASSUME NEW n \in Drain(e), NEW f \in MaybeLog(n), NEW g \in ended(f), d \in TryDispatch(g)
      PROVE  Good(R, I, d)
  <2>1. Good(R, I, n)
    BY <1>3, DrainGood
  <2>2. Good(R, I, f)
    BY <2>1, AlikeAll
  <2>3. Good(R, I, g)
    BY <1>1, <2>2
  <2> QED
    BY <1>4, <2>3, TryDispatchGood
<1> QED
  BY <1>2, <1>3, <1>4

-----------------------------------------------------------------------------
(* The ledger is read again.                                               *)

(* The ledger of the rows is adopted, with what was being dispatched       *)
(* interrupted.                                                            *)
LEMMA LoadedGood ==
    ASSUME NEW R, NEW I, NEW e, Good(R, I, e)
    PROVE  LET l == RecoverAfterRestart(LedgerFromRows(e.rows))
               m == [e EXCEPT !.s.ledger = l, !.s.unusable = FALSE]
           IN /\ Good(R, I, m) /\ Shape(m)
              /\ m.rows = e.rows /\ m.s.ledger = l
              /\ LedgerFine(l, e.rows)
<1> DEFINE l == RecoverAfterRestart(LedgerFromRows(e.rows))
           m == [e EXCEPT !.s.ledger = l, !.s.unusable = FALSE]
<1>1. /\ Shape(e) /\ RowsFine(e.rows) /\ SessionFine(e.s, e.rows)
      /\ \A i \in I : Known(e.s.ledger, e.rows, i)
  BY DEF Good, Fine
<1>2. LedgerFine(l, e.rows) /\ \A x \in Elems(e.rows) : Known(l, e.rows, x.id)
  BY <1>1, RecoveredOK
<1> HIDE DEF l
<1>3. /\ Shape(m) /\ m.rows = e.rows /\ m.sent = e.sent /\ m.s.ledger = l
      /\ m.s.queue = e.s.queue /\ m.s.active = e.s.active /\ m.s.pending = e.s.pending
  BY <1>1 DEF Shape
<1> HIDE DEF m
<1>4. \A id : Known(e.s.ledger, e.rows, id) => Known(l, e.rows, id)
  <2> SUFFICES ASSUME NEW id, Known(e.s.ledger, e.rows, id)
               PROVE  Known(l, e.rows, id)
    OBVIOUS
  <2>1. Has(e.rows, id)
    BY <1>1 DEF Known, Durable, SessionFine, LedgerFine, Has
  <2> QED
    BY <1>2, <2>1 DEF Has
<1>5. SessionFine(m.s, e.rows)
  BY <1>1, <1>2, <1>3, <1>4 DEF SessionFine
<1>6. Good(R, I, m)
  BY <1>1, <1>3, <1>4, <1>5 DEF Good, Fine
<1> QED
  BY <1>2, <1>3, <1>6 DEF l, m

(* The queue is made from the ledger.                                      *)
LEMMA RestoredGood ==
    ASSUME NEW R, NEW I, NEW f, Good(R, I, f), NEW l, f.s.ledger = l
    PROVE  Good(R, I, [f EXCEPT !.s.queue = QueueOf(l)])
<1> DEFINE q == QueueOf(l)
           m == [f EXCEPT !.s.queue = q]
<1> HIDE DEF q
<1>1. Shape(f) /\ SessionFine(f.s, f.rows)
  BY DEF Good, Fine
<1>2. /\ Shape(m) /\ m.rows = f.rows /\ m.sent = f.sent /\ m.s.ledger = f.s.ledger
      /\ m.s.queue = q /\ m.s.active = f.s.active /\ m.s.pending = f.s.pending
  BY <1>1 DEF Shape
<1> HIDE DEF m
<1>3. IsList(l) /\ Distinct(l)
  BY <1>1 DEF SessionFine, LedgerFine, Committable
<1>4. IsList(q) /\ Distinct(q) /\ \A x \in Elems(q) : Has(l, x.id)
  BY <1>3, QueueOfFine DEF q
<1>5. SessionFine(m.s, f.rows)
  BY <1>1, <1>2, <1>4 DEF SessionFine, Known
<1>6. Good(R, I, m)
  BY <1>2, <1>5, SessionGood
<1> QED
  BY <1>6 DEF m, q

LEMMA RecoverGood ==
    ASSUME NEW R, NEW I, NEW c, Good(R, I, c)
    PROVE  \A d \in Recover(c) : Good(R, I, d)
<1> SUFFICES ASSUME NEW d \in Recover(c)
             PROVE  Good(R, I, d)
  OBVIOUS
<1> DEFINE stored(e) == LedgerFromRows(e.rows)
           ledger(e) == RecoverAfterRestart(stored(e))
           loaded(e) == [e EXCEPT !.s.ledger = ledger(e), !.s.unusable = FALSE]
           restored(e, f) == [f EXCEPT !.s.queue = QueueOf(ledger(e))]
<1>1. ASSUME NEW e, Good(R, I, e)
      PROVE  /\ Good(R, I, loaded(e)) /\ Shape(loaded(e))
             /\ loaded(e).rows = e.rows /\ loaded(e).s.ledger = ledger(e)
             /\ LedgerFine(ledger(e), e.rows)
  BY <1>1, LoadedGood
<1>2. ASSUME NEW e, NEW f, Good(R, I, f), f.s.ledger = ledger(e)
      PROVE  Good(R, I, restored(e, f))
  <2> HIDE DEF ledger
  <2> QED
    BY <1>2, RestoredGood
<1> DEFINE committed(e) ==
             UNION {IF f.ok THEN Note(restored(e, f)) ELSE {f} : f \in Commit(loaded(e), ledger(e))}
           after(e) == IF ledger(e) = stored(e) THEN {restored(e, loaded(e))} ELSE committed(e)
<1>7. Recover(c) = UNION {IF r.s.pending # None \/ r.s.active # None THEN {Rejected(r)}
                          ELSE UNION {IF e.ok THEN after(e) ELSE {e} : e \in Read(r)} :
                             r \in RetryPending(c)}
  BY DEF Recover, Anyway, Then
<1> HIDE DEF after
<1>8. PICK r \in RetryPending(c) :
         d = Rejected(r) \/ \E e \in Read(r) : d \in after(e) \/ d = e
  BY <1>7
<1>9. \A e : \A x \in after(e) :
         \/ x = restored(e, loaded(e))
         \/ \E f \in Commit(loaded(e), ledger(e)) :
               IF f.ok THEN x \in Note(restored(e, f)) ELSE x = f
  <2> HIDE DEF loaded, restored, ledger, stored
  <2> QED
    BY DEF after
<1> HIDE DEF loaded, restored, ledger, committed
<1>3. \/ d = Rejected(r)
      \/ \E e \in Read(r) :
              \/ d = e
              \/ d = restored(e, loaded(e))
              \/ \E f \in Commit(loaded(e), ledger(e)) :
                    IF f.ok THEN d \in Note(restored(e, f)) ELSE d = f
  BY <1>8, <1>9
<1>4. Good(R, I, r)
  BY RetryPendingGood
<1>5. CASE d = Rejected(r)
  BY <1>4, <1>5, AlikeAll
<1>6. ASSUME NEW e \in Read(r)
      PROVE  /\ Good(R, I, e)
             /\ Good(R, I, restored(e, loaded(e)))
             /\ \A f \in Commit(loaded(e), ledger(e)) :
                   Good(R, I, f) /\ (f.ok => Good(R, I, restored(e, f)))
  <2>1. Good(R, I, e)
    BY <1>4, AlikeAll
  <2> DEFINE m == loaded(e)
             l == ledger(e)
  <2>2. Good(R, I, m) /\ m.rows = e.rows /\ m.s.ledger = l /\ LedgerFine(l, e.rows)
    BY <1>1, <2>1
  <2>3. Good(R, I, restored(e, m))
    BY <1>2, <2>2
  <2>4. Committable(l, m.rows)
    BY <2>2 DEF LedgerFine
  <2> HIDE DEF m, l
  <2>5. \A f \in Commit(m, l) : Good(R, I, f) /\ (f.ok => f.s.ledger = l)
    BY <2>2, <2>4, CommitGood
  <2>6. \A f \in Commit(m, l) : f.ok => Good(R, I, restored(e, f))
    BY <1>2, <2>5 DEF l
  <2> QED
    BY <2>1, <2>3, <2>5, <2>6 DEF m, l
<1> QED
  BY <1>3, <1>5, <1>6, AlikeAll

-----------------------------------------------------------------------------
(* The commands: release and replacement of the agent.                     *)

(* The queue is put aside: what it holds stays known.                      *)
LEMMA AsideGood ==
    ASSUME NEW R, NEW I, NEW c, Good(R, I, c)
    PROVE  Good(R, I \cup {q.id : q \in Elems(c.s.queue)}, [c EXCEPT !.s.queue = <<>>])
<1> DEFINE J == I \cup {q.id : q \in Elems(c.s.queue)}
           none == <<>>
           d == [c EXCEPT !.s.queue = none]
<1>1. Shape(c) /\ SessionFine(c.s, c.rows) /\ \A i \in I : Known(c.s.ledger, c.rows, i)
  BY DEF Good, Fine
<1>2. IsList(none) /\ Elems(none) = {} /\ Distinct(none)
  BY NoList
<1> HIDE DEF none
<1>3. /\ Shape(d) /\ d.rows = c.rows /\ d.sent = c.sent /\ d.s.ledger = c.s.ledger
      /\ d.s.queue = none /\ d.s.pending = c.s.pending /\ d.s.active = c.s.active
  BY <1>1 DEF Shape
<1>4. \A i \in J : Known(c.s.ledger, c.rows, i)
  BY <1>1 DEF SessionFine
<1> HIDE DEF J, d
<1>5. SessionFine(d.s, c.rows)
  BY <1>1, <1>2, <1>3 DEF SessionFine
<1>6. Good(R, J, d)
  BY <1>3, <1>4, <1>5 DEF Good, Fine
<1> QED
  BY <1>6 DEF J, d, none

(* The queue comes back, or another queue of known prompts. *)
LEMMA BackGood ==
    ASSUME NEW R, NEW I, NEW d, NEW k, IsList(k), Distinct(k),
           Good(R, I \cup {q.id : q \in Elems(k)}, d)
    PROVE  Good(R, I, [d EXCEPT !.s.queue = k])
<1> DEFINE e == [d EXCEPT !.s.queue = k]
<1>1. Shape(d) /\ SessionFine(d.s, d.rows)
  BY DEF Good, Fine
<1>2. /\ Shape(e) /\ e.rows = d.rows /\ e.sent = d.sent /\ e.s.ledger = d.s.ledger
      /\ e.s.queue = k /\ e.s.pending = d.s.pending /\ e.s.active = d.s.active
  BY <1>1 DEF Shape
<1> HIDE DEF e
<1>3. \A q \in Elems(k) : Known(d.s.ledger, d.rows, q.id)
  BY DEF Good
<1>4. SessionFine(e.s, d.rows)
  BY <1>1, <1>2, <1>3 DEF SessionFine
<1>5. Good(R, I, e)
  BY <1>2, <1>4 DEF Good, Fine
<1> QED
  BY <1>5 DEF e

(* The queue is emptied. *)
LEMMA EmptyGood ==
    ASSUME NEW R, NEW I, NEW c, Good(R, I, c)
    PROVE  Good(R, I, [c EXCEPT !.s.queue = <<>>])
<1>1. Good(R, I \cup {q.id : q \in Elems(c.s.queue)}, [c EXCEPT !.s.queue = <<>>])
  BY AsideGood
<1> QED
  BY <1>1 DEF Good

(* The agent is asked to cancel. *)
LEMMA CancelledGood ==
    ASSUME NEW R, NEW I, NEW c, Good(R, I, c)
    PROVE  Good(R, I, [c EXCEPT !.s.active.cancel = TRUE]) \/ c.s.active = None
<1> SUFFICES ASSUME c.s.active # None
             PROVE  Good(R, I, [c EXCEPT !.s.active.cancel = TRUE])
  OBVIOUS
<1> DEFINE a == [c.s.active EXCEPT !.cancel = TRUE]
           e == [c EXCEPT !.s.active.cancel = TRUE]
<1>1. Shape(c) /\ SessionFine(c.s, c.rows)
  BY DEF Good, Fine
<1>2. /\ Shape(e) /\ e.rows = c.rows /\ e.sent = c.sent /\ e.s.ledger = c.s.ledger
      /\ e.s.queue = c.s.queue /\ e.s.pending = c.s.pending /\ e.s.active = a
  BY <1>1 DEF Shape
<1>3. "id" \in DOMAIN a /\ a.id = c.s.active.id
  BY <1>1 DEF SessionFine
<1> HIDE DEF a, e
<1>4. SessionFine(e.s, c.rows)
  BY <1>1, <1>2, <1>3 DEF SessionFine
<1>5. Good(R, I, e)
  BY <1>2, <1>4, SessionGood
<1> QED
  BY <1>5 DEF e

LEMMA ReleaseLiveClientGood ==
    ASSUME NEW R, NEW I, NEW c, Good(R, I, c)
    PROVE  \A d \in ReleaseLiveClient(c) : Good(R, I, d)
<1> DEFINE J == I \cup {q.id : q \in Elems(c.s.queue)}
           aside == [c EXCEPT !.s.queue = <<>>]
           back(d) == [d EXCEPT !.s.queue = c.s.queue]
           cancelled(d) == IF d.s.active = None THEN d ELSE [d EXCEPT !.s.active.cancel = TRUE]
           answered(d) == {d} \cup IF d.alive /\ d.s.chan = None
                                   THEN {[d EXCEPT !.s.chan = a] : a \in Answers}
                                   ELSE {}
           interrupted(d) ==
               UNION {IF e.ok THEN IF d.s.active.term = None THEN Log(e) ELSE {e} ELSE {e} :
                         e \in InterruptActive(d)}
           settle(d) == IF d.s.active = None THEN {Accepted(d)} ELSE interrupted(d)
           awaiting(d) == UNION {UNION {settle(g) : g \in Pump(f)} :
                                   f \in UNION {MaybeLog(e) : e \in answered(d)}}
           asked(e) == IF e.s.active # None /\ e.s.active.term = None
                       THEN IF HasClient(e) THEN awaiting(e) ELSE {Accepted(e)}
                       ELSE InterruptActive(e)
           body(d) == IF d.s.pending # None THEN {Rejected(d)} ELSE asked(cancelled(d))
           killed(d) == IF ~HasClient(d) THEN {d} ELSE MaybeLog(Kill(d))
           released(d) == {[e EXCEPT !.s.reconciled = TRUE] : e \in killed(d)}
           settled == UNION {body(d) : d \in RetryPending(aside)}
           all == UNION {IF d.ok THEN released(d) ELSE {d} : d \in settled}
<1>1. ReleaseLiveClient(c) = {back(d) : d \in all}
  BY DEF ReleaseLiveClient, Then, Anyway
<1>2. Good(R, J, aside)
  BY AsideGood
<1>3. \A d : Good(R, J, d) => Good(R, J, cancelled(d))
  BY CancelledGood
<1>4. \A d : Good(R, J, d) => \A e \in answered(d) : Good(R, J, e)
  <2> SUFFICES ASSUME NEW d, Good(R, J, d), NEW e \in answered(d)
               PROVE  Good(R, J, e)
    BY Zenon
  <2>1. e = d \/ \E a \in Answers : e = [d EXCEPT !.s.chan = a]
    OBVIOUS
  <2>2. Alike(d, e)
    BY <2>1, GoodShape DEF Alike, Shape
  <2> QED
    BY <2>2, AlikeGood
<1>5. \A d : Good(R, J, d) => \A e \in interrupted(d) : Good(R, J, e)
  BY InterruptActiveGood, AlikeAll
<1> HIDE DEF interrupted
<1>6. \A d : Good(R, J, d) => \A e \in settle(d) : Good(R, J, e)
  BY <1>5, AlikeAll
<1> HIDE DEF settle, answered, J
<1>7. \A d : Good(R, J, d) => \A e \in awaiting(d) : Good(R, J, e)
  <2> SUFFICES ASSUME NEW d, Good(R, J, d), NEW a \in answered(d), NEW f \in MaybeLog(a),
                      NEW g \in Pump(f), NEW e \in settle(g)
               PROVE  Good(R, J, e)
    OBVIOUS
  <2>1. Good(R, J, a)
    BY <1>4
  <2>2. Good(R, J, f)
    BY <2>1, AlikeAll
  <2>3. Good(R, J, g)
    BY <2>2, PumpGood
  <2> QED
    BY <1>6, <2>3
<1> HIDE DEF awaiting
<1>8. \A d : Good(R, J, d) => \A e \in asked(d) : Good(R, J, e)
  BY <1>7, AlikeAll, InterruptActiveGood
<1> HIDE DEF asked, cancelled
<1>9. \A d : Good(R, J, d) => \A e \in body(d) : Good(R, J, e)
  BY <1>3, <1>8, AlikeAll
<1>10. \A d : Good(R, J, d) => \A e \in killed(d) : Good(R, J, e)
  BY AlikeAll
<1> HIDE DEF body, killed
<1>11. \A d : Good(R, J, d) => \A e \in released(d) : Good(R, J, e)
  <2> SUFFICES ASSUME NEW e, Good(R, J, e)
               PROVE  Good(R, J, [e EXCEPT !.s.reconciled = TRUE])
    BY <1>10
  <2>1. Alike(e, [e EXCEPT !.s.reconciled = TRUE])
    BY GoodShape DEF Alike, Shape
  <2> QED
    BY <2>1, AlikeGood
<1> HIDE DEF released, aside
<1>12. \A d \in settled : Good(R, J, d)
  BY <1>2, <1>9, RetryPendingGood
<1> HIDE DEF settled
<1>13. \A d \in all : Good(R, J, d)
  BY <1>11, <1>12
<1>14. IsList(c.s.queue) /\ Distinct(c.s.queue)
  BY DEF Good, Fine, SessionFine
<1>15. \A d \in all : Good(R, I, back(d))
  BY <1>13, <1>14, BackGood DEF J
<1> QED
  BY <1>1, <1>15

LEMMA FinalizeMetadataGood ==
    ASSUME NEW R, NEW I, NEW c, Good(R, I, c)
    PROVE  \A d \in FinalizeMetadata(c) : Good(R, I, d)
<1> SUFFICES ASSUME NEW d \in FinalizeMetadata(c)
             PROVE  Good(R, I, d)
  OBVIOUS
<1>1. PICK e \in Write(c) :
         d = e \/ \E f \in MaybeLog(e) : d = [f EXCEPT !.s.slot = "live", !.s.reconciled = FALSE]
  BY DEF FinalizeMetadata, Then
<1>2. Good(R, I, e)
  BY AlikeAll
<1>3. ASSUME NEW f \in MaybeLog(e), d = [f EXCEPT !.s.slot = "live", !.s.reconciled = FALSE]
      PROVE  Good(R, I, d)
  <2>1. Good(R, I, f)
    BY <1>2, AlikeAll
  <2>2. Alike(f, d)
    BY <1>3, <2>1, GoodShape DEF Alike, Shape
  <2> QED
    BY <2>1, <2>2, AlikeGood
<1> QED
  BY <1>1, <1>2, <1>3

LEMMA InstallReplacedGood ==
    ASSUME NEW R, NEW I, NEW c, Good(R, I, c)
    PROVE  \A d \in InstallReplaced(c) : Good(R, I, d)
<1> DEFINE recorded == RecordChild(Install(c))
           recovered == UNION {IF d.ok THEN Recover(d) ELSE {d} : d \in recorded}
           final == UNION {IF d.ok THEN FinalizeMetadata(d) ELSE {d} : d \in recovered}
<1>1. InstallReplaced(c) =
         UNION {IF d.ok THEN {Accepted(e) : e \in TryDispatch(d)} ELSE {d} : d \in Discard(final)}
  BY DEF InstallReplaced, Then
<1>2. \A d \in recorded : Good(R, I, d)
  BY AlikeAll
<1> HIDE DEF recorded
<1>3. \A d \in recovered : Good(R, I, d)
  BY <1>2, RecoverGood
<1> HIDE DEF recovered
<1>4. \A d \in final : Good(R, I, d)
  BY <1>3, FinalizeMetadataGood
<1> HIDE DEF final
<1>5. \A d \in Discard(final) : Good(R, I, d)
  BY <1>4, DiscardGood
<1> QED
  BY <1>1, <1>5, TryDispatchGood, AlikeAll

LEMMA RespawnGood ==
    ASSUME NEW R, NEW I, NEW c, Good(R, I, c)
    PROVE  \A d \in Respawn(c) : Good(R, I, d)
<1> DEFINE released == UNION {IF d.ok THEN ReleaseLiveClient(d) ELSE {d} : d \in Read(c)}
           checked == UNION {IF d.ok THEN RejectForeignLiveChild(d) ELSE {d} : d \in released}
           spawned == UNION {IF d.ok THEN Spawn(d) ELSE {d} : d \in checked}
           all == UNION {IF d.ok THEN InstallReplaced(d) ELSE {d} : d \in spawned}
<1>1. Respawn(c) = IF c.lost \/ ~HasClient(c) THEN {Rejected(c)} ELSE all
  BY DEF Respawn, Then
<1>2. \A d \in released : Good(R, I, d)
  BY AlikeAll, ReleaseLiveClientGood
<1> HIDE DEF released
<1>3. \A d \in checked : Good(R, I, d)
  BY <1>2, AlikeAll
<1> HIDE DEF checked
<1>4. \A d \in spawned : Good(R, I, d)
  BY <1>3, AlikeAll
<1> HIDE DEF spawned
<1>5. \A d \in all : Good(R, I, d)
  BY <1>4, InstallReplacedGood
<1> HIDE DEF all
<1> QED
  BY <1>1, <1>5, AlikeAll

(* Fields of the actor that the prompts do not depend on. *)
LEMMA FieldsAlike ==
    ASSUME NEW c, Shape(c), NEW v
    PROVE  /\ Alike(c, [c EXCEPT !.s.fault = v])
           /\ Alike(c, [c EXCEPT !.s.slot = v])
           /\ Alike(c, [c EXCEPT !.s.loaded = v])
           /\ Alike(c, [c EXCEPT !.s.path = v])
           /\ Alike(c, [c EXCEPT !.s.holders = v])
           /\ Alike(c, [c EXCEPT !.s.queue = @])
           /\ Alike(c, [c EXCEPT !.lost = v])
  BY DEF Alike, Shape

LEMMA FieldsGood ==
    ASSUME NEW R, NEW I, NEW c, Good(R, I, c), NEW v
    PROVE  /\ Good(R, I, [c EXCEPT !.s.fault = v])
           /\ Good(R, I, [c EXCEPT !.s.slot = v])
           /\ Good(R, I, [c EXCEPT !.s.loaded = v])
           /\ Good(R, I, [c EXCEPT !.s.path = v])
           /\ Good(R, I, [c EXCEPT !.s.holders = v])
           /\ Good(R, I, [c EXCEPT !.s.queue = @])
           /\ Good(R, I, [c EXCEPT !.lost = v])
  BY GoodShape, FieldsAlike, AlikeGood

(* One more client is attached. *)
LEMMA HeldGood ==
    ASSUME NEW R, NEW I, NEW c, Good(R, I, c)
    PROVE  Good(R, I, [c EXCEPT !.s.holders = @ + 1])
<1> DEFINE v == c.s.holders + 1
<1> HIDE DEF v
<1>1. Good(R, I, [c EXCEPT !.s.holders = v])
  BY FieldsGood
<1> QED
  BY <1>1 DEF v

(* The queue is given up, in the ledger and in the rows. *)
LEMMA GivenUpGood ==
    ASSUME NEW R, NEW I, NEW c, Good(R, I, c), NEW events
    PROVE  \A d \in CommitWithEvents([c EXCEPT !.s.fault = FALSE],
                                     RemoveQueued(c.s.ledger), events) :
              Good(R, I, d) /\ Good(R, I, [d EXCEPT !.s.queue = <<>>])
<1> DEFINE b == [c EXCEPT !.s.fault = FALSE]
           l == RemoveQueued(c.s.ledger)
<1>1. Good(R, I, b)
  BY FieldsGood
<1>2. b.rows = c.rows
  BY GoodShape DEF Shape
<1>3. Committable(l, b.rows)
  BY <1>2, GoodFacts, RemoveQueuedFine
<1> HIDE DEF b, l
<1>4. \A d \in CommitWithEvents(b, l, events) : Good(R, I, d)
  BY <1>1, <1>3, CommitWithEventsGood
<1>5. \A d \in CommitWithEvents(b, l, events) :
         Good(R, I, d) /\ Good(R, I, [d EXCEPT !.s.queue = <<>>])
  BY <1>4, EmptyGood
<1> QED
  BY <1>5 DEF b, l

LEMMA SwitchGood ==
    ASSUME NEW R, NEW I, NEW c, Good(R, I, c)
    PROVE  \A d \in Switch(c) : Good(R, I, d)
<1> DEFINE events == FALSE
           given(d) == CommitWithEvents([d EXCEPT !.s.fault = FALSE],
                                        RemoveQueued(d.s.ledger), events)
           out(e) == ReleaseLiveClient([e EXCEPT !.s.queue = <<>>])
           saved(e) == UNION {IF f.ok THEN Write(f) ELSE {f} : f \in out(e)}
           retire(d) == UNION {IF e.ok THEN saved(e) ELSE {e} : e \in given(d)}
           kept(d) == UNION {IF e.ok THEN Write(e) ELSE {e} : e \in retire(d)}
           logged(d) == UNION {IF e.ok THEN Log(e) ELSE {e} : e \in kept(d)}
           spawned(d) == UNION {IF e.ok THEN Discard(RecordChild(Install(e))) ELSE {e} :
                                   e \in logged(d)}
           up(f) == MaybeLog([f EXCEPT !.s.slot = "live"])
           replaced(e) == UNION {IF f.ok THEN up(f) ELSE {f} : f \in spawned(e)}
           tried(d) == UNION {IF e.ok THEN replaced(e) ELSE {Rejected(f) : f \in Log(e)} :
                                 e \in Spawn(d)}
<1>1. Switch(c) = UNION {IF d.ok THEN tried(d) ELSE {d} : d \in RejectForeignLiveChild(c)}
  BY DEF Switch, Then
<1>2. \A d : Good(R, I, d) => \A e \in given(d) :
                Good(R, I, e) /\ Good(R, I, [e EXCEPT !.s.queue = <<>>])
  <2> HIDE DEF events
  <2> QED
    BY GivenUpGood
<1> HIDE DEF given, events
<1>3. \A e : Good(R, I, [e EXCEPT !.s.queue = <<>>]) => \A f \in saved(e) : Good(R, I, f)
  <2> SUFFICES ASSUME NEW e, Good(R, I, [e EXCEPT !.s.queue = <<>>]), NEW f \in out(e)
               PROVE  Good(R, I, f) /\ \A g \in Write(f) : Good(R, I, g)
    OBVIOUS
  <2>1. Good(R, I, f)
    BY ReleaseLiveClientGood
  <2> QED
    BY <2>1, AlikeAll
<1> HIDE DEF saved
<1>4. \A d : Good(R, I, d) => \A e \in retire(d) : Good(R, I, e)
  BY <1>2, <1>3
<1> HIDE DEF retire
<1>5. \A d : Good(R, I, d) => \A e \in kept(d) : Good(R, I, e)
  BY <1>4, AlikeAll
<1> HIDE DEF kept
<1>6. \A d : Good(R, I, d) => \A e \in logged(d) : Good(R, I, e)
  BY <1>5, AlikeAll
<1> HIDE DEF logged
<1>7. \A d : Good(R, I, d) => \A e \in Discard(RecordChild(Install(d))) : Good(R, I, e)
  BY AlikeAll, DiscardGood
<1>8. \A d : Good(R, I, d) => \A e \in spawned(d) : Good(R, I, e)
  BY <1>6, <1>7
<1> HIDE DEF spawned
<1>9. \A f : Good(R, I, f) => \A g \in up(f) : Good(R, I, g)
  BY FieldsGood, AlikeAll
<1> HIDE DEF up
<1>10. \A d : Good(R, I, d) => \A e \in replaced(d) : Good(R, I, e)
  BY <1>8, <1>9
<1> HIDE DEF replaced
<1>11. \A d : Good(R, I, d) => \A e \in tried(d) : Good(R, I, e)
  <2> SUFFICES ASSUME NEW d, Good(R, I, d), NEW e \in Spawn(d)
               PROVE  /\ \A g \in replaced(e) : Good(R, I, g)
                      /\ \A f \in Log(e) : Good(R, I, Rejected(f))
    OBVIOUS
  <2>1. Good(R, I, e)
    BY AlikeAll
  <2>2. \A f \in Log(e) : Good(R, I, f)
    BY <2>1, AlikeAll
  <2>3. \A f \in Log(e) : Good(R, I, Rejected(f))
    BY <2>2, AlikeAll
  <2> QED
    BY <1>10, <2>1, <2>3
<1> HIDE DEF tried
<1> QED
  BY <1>1, <1>11, AlikeAll

LEMMA AdoptStoredGood ==
    ASSUME NEW R, NEW I, NEW c, Good(R, I, c)
    PROVE  \A d \in AdoptStored(c) : Good(R, I, d)
<1>1. \A d \in Recover(c) : Good(R, I, d)
  BY RecoverGood
<1>2. \A d \in Recover(c) : Good(R, I, [d EXCEPT !.s.loaded = TRUE])
  BY <1>1, FieldsGood
<1> QED
  BY <1>1, <1>2 DEF AdoptStored

LEMMA FirstAcquireGood ==
    ASSUME NEW R, NEW I, NEW c, Good(R, I, c)
    PROVE  \A d \in FirstAcquire(c) : Good(R, I, d)
<1> DEFINE checked == UNION {IF d.ok THEN RejectForeignLiveChild(d) ELSE {d} : d \in Read(c)}
           spawned == UNION {IF d.ok THEN Spawn(d) ELSE {d} : d \in checked}
           recorded(d) == RecordChild(Install(d))
           adopted(d) == UNION {IF e.ok THEN AdoptStored(e) ELSE {e} : e \in recorded(d)}
           final(d) == UNION {IF e.ok THEN FinalizeMetadata(e) ELSE {e} : e \in adopted(d)}
           begun(e) == {Accepted(f) : f \in TryDispatch([e EXCEPT !.s.holders = 1])}
           all(d) == UNION {IF e.ok THEN begun(e) ELSE {e} : e \in Discard(final(d))}
<1>1. FirstAcquire(c) = UNION {IF d.ok THEN all(d) ELSE {d} : d \in spawned}
  BY DEF FirstAcquire, Then
<1>2. \A d \in checked : Good(R, I, d)
  BY AlikeAll
<1> HIDE DEF checked
<1>3. \A d \in spawned : Good(R, I, d)
  BY <1>2, AlikeAll
<1> HIDE DEF spawned
<1>4. \A d : Good(R, I, d) => \A e \in recorded(d) : Good(R, I, e)
  BY AlikeAll
<1> HIDE DEF recorded
<1>5. \A d : Good(R, I, d) => \A e \in adopted(d) : Good(R, I, e)
  BY <1>4, AdoptStoredGood
<1> HIDE DEF adopted
<1>6. \A d : Good(R, I, d) => \A e \in final(d) : Good(R, I, e)
  BY <1>5, FinalizeMetadataGood
<1> HIDE DEF final
<1>7. \A d : Good(R, I, d) => \A e \in Discard(final(d)) : Good(R, I, e)
  BY <1>6, DiscardGood
<1>8. \A e : Good(R, I, e) => \A f \in begun(e) : Good(R, I, f)
  <2> SUFFICES ASSUME NEW e, Good(R, I, e), NEW f \in TryDispatch([e EXCEPT !.s.holders = 1])
               PROVE  Good(R, I, Accepted(f))
    OBVIOUS
  <2>1. Good(R, I, [e EXCEPT !.s.holders = 1])
    BY FieldsGood
  <2>2. Good(R, I, f)
    BY <2>1, TryDispatchGood
  <2> QED
    BY <2>2, AlikeAll
<1> HIDE DEF begun
<1>9. \A d : Good(R, I, d) => \A e \in all(d) : Good(R, I, e)
  BY <1>7, <1>8
<1> HIDE DEF all
<1> QED
  BY <1>1, <1>3, <1>9

LEMMA AcquireGood ==
    ASSUME NEW R, NEW I, NEW c, Good(R, I, c), NEW other
    PROVE  \A d \in Acquire(c, other) : Good(R, I, d)
<1> DEFINE b == [c EXCEPT !.s.path = TRUE]
           held(S) == {IF e.ok THEN [e EXCEPT !.s.holders = @ + 1] ELSE e : e \in S}
           released == UNION {IF d.ok THEN ReleaseLiveClient(d) ELSE {d} : d \in Read(b)}
           checked == UNION {IF d.ok THEN RejectForeignLiveChild(d) ELSE {d} : d \in released}
           spawned == UNION {IF d.ok THEN Spawn(d) ELSE {d} : d \in checked}
           replaced == UNION {IF d.ok THEN InstallReplaced(d) ELSE {d} : d \in spawned}
<1>1. Acquire(c, other) = IF c.lost THEN {Rejected(c)}
                          ELSE IF ~HasClient(c) THEN FirstAcquire(b)
                          ELSE IF other THEN held(Switch(b))
                          ELSE IF Healthy(c) THEN held({Accepted(b)})
                          ELSE held(replaced)
  BY DEF Acquire, Then
<1>2. Good(R, I, b)
  BY FieldsGood
<1> HIDE DEF b
<1>3. \A d \in released : Good(R, I, d)
  BY <1>2, AlikeAll, ReleaseLiveClientGood
<1> HIDE DEF released
<1>4. \A d \in checked : Good(R, I, d)
  BY <1>3, AlikeAll
<1> HIDE DEF checked
<1>5. \A d \in spawned : Good(R, I, d)
  BY <1>4, AlikeAll
<1> HIDE DEF spawned
<1>6. \A d \in replaced : Good(R, I, d)
  BY <1>5, InstallReplacedGood
<1> HIDE DEF replaced
<1>7. \A S : (\A d \in S : Good(R, I, d)) => \A d \in held(S) : Good(R, I, d)
  BY HeldGood
<1> HIDE DEF held
<1>8. \A d \in held(Switch(b)) \cup held({Accepted(b)}) \cup held(replaced) : Good(R, I, d)
  <2>1. \A d \in Switch(b) : Good(R, I, d)
    BY <1>2, SwitchGood
  <2>2. \A d \in {Accepted(b)} : Good(R, I, d)
    BY <1>2, AlikeAll
  <2> QED
    BY <1>6, <1>7, <2>1, <2>2
<1>9. \A d \in FirstAcquire(b) \cup {Rejected(c)} : Good(R, I, d)
  BY <1>2, FirstAcquireGood, AlikeAll
<1> QED
  BY <1>1, <1>8, <1>9

LEMMA KeepingHoldersGood ==
    ASSUME NEW R, NEW I, NEW c, Good(R, I, c)
    PROVE  \A d \in AcquireKeepingHolders(c) : Good(R, I, d)
<1> DEFINE other == FALSE
<1> HIDE DEF other
<1>1. \A d \in Acquire(c, other) : Good(R, I, d)
  BY AcquireGood
<1>2. \A d \in Acquire(c, other) : Good(R, I, [d EXCEPT !.s.holders = c.s.holders])
  BY <1>1, FieldsGood
<1> QED
  BY <1>2 DEF AcquireKeepingHolders, other

LEMMA ReviveGood ==
    ASSUME NEW R, NEW I, NEW c, Good(R, I, c)
    PROVE  \A d \in Revive(c) : Good(R, I, d)
  BY KeepingHoldersGood, AlikeAll DEF Revive

LEMMA ClearContextGood ==
    ASSUME NEW R, NEW I, NEW c, Good(R, I, c), NEW takeHolder
    PROVE  \A d \in ClearContext(c, takeHolder) : Good(R, I, d)
<1> DEFINE events == FALSE
           loaded == IF c.s.loaded THEN {Accepted(c)}
                     ELSE UNION {IF d.ok THEN AdoptStored(d) ELSE {d} : d \in Read(c)}
           given(d) == CommitWithEvents([d EXCEPT !.s.fault = FALSE],
                                        RemoveQueued(d.s.ledger), events)
           emptied(d) == {[e EXCEPT !.s.queue = IF e.ok THEN <<>> ELSE @] : e \in given(d)}
           known == UNION {IF d.ok THEN emptied(d) ELSE {d} : d \in loaded}
           released == UNION {IF d.ok THEN ReleaseLiveClient(d) ELSE {d} : d \in known}
           checked(d) == UNION {IF e.ok THEN RejectForeignLiveChild(e) ELSE {e} : e \in Write(d)}
           spawned(d) == UNION {IF e.ok THEN Spawn(e) ELSE {e} : e \in checked(d)}
           saved(d) == UNION {IF e.ok THEN Write(e) ELSE {e} : e \in spawned(d)}
           respawned(d) == UNION {IF e.ok THEN Log(e) ELSE {e} : e \in saved(d)}
           up(e) == MaybeLog([e EXCEPT !.s.slot = "live"])
           installed(d) == UNION {IF e.ok THEN up(e) ELSE {e} :
                                     e \in Discard(RecordChild(Install(d)))}
           new == UNION {IF d.ok THEN respawned(d) ELSE {d} : d \in released}
           all == UNION {IF d.ok THEN installed(d) ELSE {d} : d \in new}
<1>1. ClearContext(c, takeHolder) =
         {IF d.ok /\ takeHolder THEN [d EXCEPT !.s.holders = @ + 1] ELSE d : d \in all}
  BY DEF ClearContext, Then
<1>2. \A d \in loaded : Good(R, I, d)
  BY AlikeAll, AdoptStoredGood
<1> HIDE DEF loaded
<1>3. \A d : Good(R, I, d) => \A e \in given(d) :
                Good(R, I, e) /\ Good(R, I, [e EXCEPT !.s.queue = <<>>])
  <2> HIDE DEF events
  <2> QED
    BY GivenUpGood
<1> HIDE DEF given, events
<1>4. \A d : Good(R, I, d) => \A e \in emptied(d) : Good(R, I, e)
  <2> SUFFICES ASSUME NEW d, Good(R, I, d), NEW e \in given(d)
               PROVE  Good(R, I, [e EXCEPT !.s.queue = IF e.ok THEN <<>> ELSE @])
    BY Zenon
  <2>1. Good(R, I, e) /\ Good(R, I, [e EXCEPT !.s.queue = <<>>])
    BY <1>3
  <2>2. Good(R, I, [e EXCEPT !.s.queue = @])
    BY <2>1, FieldsGood
  <2> QED
    BY <2>1, <2>2
<1> HIDE DEF emptied
<1>5. \A d \in known : Good(R, I, d)
  BY <1>2, <1>4
<1> HIDE DEF known
<1>6. \A d \in released : Good(R, I, d)
  BY <1>5, ReleaseLiveClientGood
<1> HIDE DEF released
<1>7. \A d : Good(R, I, d) => \A e \in checked(d) : Good(R, I, e)
  BY AlikeAll
<1> HIDE DEF checked
<1>8. \A d : Good(R, I, d) => \A e \in spawned(d) : Good(R, I, e)
  BY <1>7, AlikeAll
<1> HIDE DEF spawned
<1>9. \A d : Good(R, I, d) => \A e \in saved(d) : Good(R, I, e)
  BY <1>8, AlikeAll
<1> HIDE DEF saved
<1>10. \A d : Good(R, I, d) => \A e \in respawned(d) : Good(R, I, e)
  BY <1>9, AlikeAll
<1> HIDE DEF respawned
<1>11. \A d : Good(R, I, d) => \A e \in up(d) : Good(R, I, e)
  BY FieldsGood, AlikeAll
<1> HIDE DEF up
<1>12. \A d : Good(R, I, d) => \A e \in installed(d) : Good(R, I, e)
  <2>1. \A d : Good(R, I, d) => \A e \in Discard(RecordChild(Install(d))) : Good(R, I, e)
    BY AlikeAll, DiscardGood
  <2> QED
    BY <1>11, <2>1
<1> HIDE DEF installed
<1>13. \A d \in new : Good(R, I, d)
  BY <1>6, <1>10
<1> HIDE DEF new
<1>14. \A d \in all : Good(R, I, d)
  BY <1>12, <1>13
<1> HIDE DEF all
<1> QED
  BY <1>1, <1>14, HeldGood

-----------------------------------------------------------------------------
(* The commands: prompts.                                                  *)

(* Another queue, of prompts that were in it already. *)
LEMMA QueueGood ==
    ASSUME NEW R, NEW I, NEW c, Good(R, I, c), NEW k, IsList(k), Distinct(k),
           \A q \in Elems(k) : \E p \in Elems(c.s.queue) : p.id = q.id
    PROVE  Good(R, I, [c EXCEPT !.s.queue = k])
<1> DEFINE d == [c EXCEPT !.s.queue = k]
<1>1. Shape(c) /\ SessionFine(c.s, c.rows)
  BY DEF Good, Fine
<1>2. /\ Shape(d) /\ d.rows = c.rows /\ d.sent = c.sent /\ d.s.ledger = c.s.ledger
      /\ d.s.queue = k /\ d.s.pending = c.s.pending /\ d.s.active = c.s.active
  BY <1>1 DEF Shape
<1> HIDE DEF d
<1>3. SessionFine(d.s, c.rows)
  BY <1>1, <1>2 DEF SessionFine
<1>4. Good(R, I, d)
  BY <1>2, <1>3, SessionGood
<1> QED
  BY <1>4 DEF d

LEMMA UpdateQueuedGood ==
    ASSUME NEW R, NEW I, NEW c, Good(R, I, c), NEW id, NEW text
    PROVE  \A d \in UpdateQueued(c, id, text) : Good(R, I, d)
<1> DEFINE l == UpsertQueued(c.s.ledger, id, text)
           new == [id |-> id, text |-> text]
           edited(k) == [i \in DOMAIN k |-> IF k[i].id = id THEN new ELSE k[i]]
           updated(d) == [d EXCEPT !.s.queue =
                             [i \in DOMAIN @ |-> IF @[i].id = id THEN new ELSE @[i]]]
<1>1. UpdateQueued(c, id, text) =
         UNION {IF d.ok THEN Log(updated(d)) ELSE {d} : d \in Commit(c, l)}
  BY DEF UpdateQueued, Then
<1>2. Committable(l, c.rows)
  BY GoodFacts, UpsertQueuedFine
<1> HIDE DEF l
<1>3. \A d \in Commit(c, l) : Good(R, I, d)
  BY <1>2, CommitGood
<1>4. new.id = id
  OBVIOUS
<1> HIDE DEF new
<1>5. \A k : IsList(k) /\ Distinct(k) =>
                /\ IsList(edited(k)) /\ Distinct(edited(k))
                /\ \A q \in Elems(edited(k)) : \E p \in Elems(k) : p.id = q.id
  <2> SUFFICES ASSUME NEW k, IsList(k), Distinct(k)
               PROVE  /\ IsList(edited(k)) /\ Distinct(edited(k))
                      /\ \A q \in Elems(edited(k)) : \E p \in Elems(k) : p.id = q.id
    BY Zenon
  <2> DEFINE f == edited(k)
  <2>1. f = [i \in DOMAIN k |-> f[i]] /\ \A i \in DOMAIN k : f[i].id = k[i].id
    BY <1>4
  <2> HIDE DEF f
  <2>2. /\ IsList(f) /\ Elems(f) = {f[i] : i \in DOMAIN k}
        /\ Elems(k) = {k[i] : i \in DOMAIN k}
    BY <2>1, MapList
  <2>3. \A q \in Elems(f) : \E p \in Elems(k) : p.id = q.id
    BY <2>1, <2>2
  <2>4. Distinct(f)
    BY <2>1, MapDistinct
  <2> QED
    BY <2>2, <2>3, <2>4 DEF f
<1>6. \A d : Good(R, I, d) => Good(R, I, updated(d))
  <2> SUFFICES ASSUME NEW d, Good(R, I, d)
               PROVE  Good(R, I, updated(d))
    BY Zenon
  <2> DEFINE k == edited(d.s.queue)
  <2>1. updated(d) = [d EXCEPT !.s.queue = k]
    OBVIOUS
  <2>2. IsList(d.s.queue) /\ Distinct(d.s.queue)
    BY DEF Good, Fine, SessionFine
  <2>3. IsList(k) /\ Distinct(k) /\ \A q \in Elems(k) : \E p \in Elems(d.s.queue) : p.id = q.id
    BY <1>5, <2>2
  <2> HIDE DEF k, updated
  <2> QED
    BY <2>1, <2>3, QueueGood
<1> HIDE DEF updated
<1>7. \A d \in Commit(c, l) : \A e \in Log(updated(d)) : Good(R, I, e)
  BY <1>3, <1>6, AlikeAll
<1> QED
  BY <1>1, <1>3, <1>7

LEMMA WithdrawQueuedGood ==
    ASSUME NEW R, NEW I, NEW c, Good(R, I, c), NEW id
    PROVE  \A d \in WithdrawQueued(c, id) : Good(R, I, d)
<1> DEFINE l == RemoveEntry(c.s.ledger, id)
           S(k) == {q \in Elems(k) : q.id # id}
           cut(d) == [d EXCEPT !.s.queue = Keeping(@, {q \in Elems(@) : q.id # id})]
           all == UNION {IF d.ok THEN Log(cut(d)) ELSE {d} : d \in Commit(c, l)}
<1>1. WithdrawQueued(c, id) = IF ~Has(c.s.ledger, id) THEN {Accepted(c)}
                              ELSE IF PhaseOf(c.s.ledger, id) # "Queued" THEN Log(c) ELSE all
  BY DEF WithdrawQueued, Then
<1>2. Committable(l, c.rows)
  BY GoodFacts, RemoveEntryFine
<1> HIDE DEF l
<1>3. \A d \in Commit(c, l) : Good(R, I, d)
  BY <1>2, CommitGood
<1>4. \A d : Good(R, I, d) => Good(R, I, cut(d))
  <2> SUFFICES ASSUME NEW d, Good(R, I, d)
               PROVE  Good(R, I, cut(d))
    BY Zenon
  <2> DEFINE T == S(d.s.queue)
             k == Keeping(d.s.queue, T)
  <2>1. cut(d) = [d EXCEPT !.s.queue = k]
    OBVIOUS
  <2>2. IsList(d.s.queue) /\ Distinct(d.s.queue)
    BY DEF Good, Fine, SessionFine
  <2> HIDE DEF T, cut
  <2>3. IsList(k) /\ Distinct(k) /\ Elems(k) = Elems(d.s.queue) \cap T
    BY <2>2, KeepingList, PartDistinct
  <2> HIDE DEF k
  <2> QED
    BY <2>1, <2>3, QueueGood
<1> HIDE DEF cut
<1>5. \A d \in Commit(c, l) : \A e \in Log(cut(d)) : Good(R, I, e)
  BY <1>3, <1>4, AlikeAll
<1>6. \A d \in all : Good(R, I, d)
  BY <1>3, <1>5
<1> HIDE DEF all
<1> QED
  BY <1>1, <1>6, AlikeAll

(* A new prompt is durable as dispatched before the agent gets it, or it   *)
(* waits in the ledger and in the queue.                                   *)
LEMMA AdmitPromptGood ==
    ASSUME NEW R, NEW I, NEW c, Good(R, I, c), NEW id, NEW text, ~Has(c.s.ledger, id)
    PROVE  \A d \in AdmitPrompt(c, id, text) : Good(R, I, d)
<1> DEFINE q == [id |-> id, text |-> text]
           l == UpsertQueued(c.s.ledger, id, text)
           m == MarkDispatching(l, id)
           events == TRUE
           begun == UNION {IF d.ok THEN Begin(d, q) ELSE {d} : d \in CommitWithEvents(c, m, events)}
           logged == UNION {IF d.ok THEN Log(d) ELSE {d} : d \in begun}
           added(d) == [d EXCEPT !.s.queue = Append(@, q)]
           waits == {IF d.ok THEN added(d) ELSE d : d \in CommitWithEvents(c, l, events)}
<1>1. AdmitPrompt(c, id, text) = IF c.s.active = None THEN logged
                                 ELSE IF Len(c.s.queue) >= MaxQueued THEN {Rejected(c)} ELSE waits
  BY DEF AdmitPrompt, Then
<1>2. q.id = id
  OBVIOUS
<1> HIDE DEF q, events
<1>3. /\ Committable(l, c.rows) /\ Has(l, id)
      /\ \A e \in Elems(l) : e.id = id => e.phase = "Queued"
  <2>1. Committable(c.s.ledger, c.rows)
    BY GoodFacts
  <2> HIDE DEF q, events
  <2> QED
    BY <2>1, UpsertQueuedFine
<1> HIDE DEF l
<1>4. /\ Committable(m, c.rows) /\ Has(m, id)
      /\ \A e \in Elems(m) : e.id = id => e.phase = "Dispatching"
  BY <1>3, MarkDispatchingFine
<1> HIDE DEF m
<1>5. \A d \in begun : Good(R, I, d)
  <2> SUFFICES ASSUME NEW d \in CommitWithEvents(c, m, events)
               PROVE  Good(R, I, d) /\ (d.ok => \A e \in Begin(d, q) : Good(R, I, e))
    OBVIOUS
  <2>1. Good(R, I, d) /\ (d.ok => LedgerFine(m, d.rows))
    BY <1>4, CommitWithEventsGood
  <2>2. ASSUME d.ok
        PROVE  Durable(d.rows, q.id)
    <3>1. PICK e \in Elems(m) : e.id = id
      BY <1>4 DEF Has
    <3>2. e.phase # "Queued"
      BY <1>4, <3>1
    <3> QED
      BY <1>2, <2>1, <2>2, <3>1, <3>2 DEF LedgerFine
  <2> QED
    BY <2>1, <2>2, BeginGood
<1> HIDE DEF begun
<1>6. \A d \in logged : Good(R, I, d)
  BY <1>5, AlikeAll
<1> HIDE DEF logged
<1>7. \A d \in waits : Good(R, I, d)
  <2> SUFFICES ASSUME NEW d \in CommitWithEvents(c, l, events)
               PROVE  Good(R, I, d) /\ (d.ok => Good(R, I, added(d)))
    OBVIOUS
  <2>1. Good(R, I, d) /\ (d.ok => d.s.ledger = l /\ Mirrors(l, d.rows))
    BY <1>3, CommitWithEventsGood
  <2>3. ASSUME d.ok, NEW p \in Elems(d.s.queue)
        PROVE  p.id # id
    <3>1. Good(c.rows, I, c)
      BY GoodFacts
    <3>2. Good(c.rows, I, d) /\ d.s.queue = c.s.queue
      BY <1>3, <3>1, CommitWithEventsGood
    <3>3. Known(c.s.ledger, c.rows, p.id)
      BY <2>3, <3>1, <3>2 DEF Good, Fine, SessionFine
    <3>4. Durable(c.rows, id) => Durable(d.rows, id)
      BY <3>2, KeepsDurable DEF Good
    <3>5. ~Durable(d.rows, id)
      <4>1. PICK e \in Elems(l) : e.id = id /\ e.phase = "Queued"
        BY <1>3 DEF Has
      <4>2. \A x \in Elems(d.rows) : x.id = id => x.st = Target("Queued")
        BY <2>1, <2>3, <4>1 DEF Mirrors
      <4> QED
        BY <4>2 DEF Durable, Has, Target
    <3> QED
      BY <3>3, <3>4, <3>5 DEF Known
  <2>2. ASSUME d.ok
        PROVE  Good(R, I, added(d))
    <3> DEFINE e == added(d)
    <3>1. Shape(d) /\ SessionFine(d.s, d.rows) /\ d.s.ledger = l
      BY <2>1, <2>2 DEF Good, Fine
    <3>2. /\ Shape(e) /\ e.rows = d.rows /\ e.sent = d.sent /\ e.s.ledger = d.s.ledger
          /\ e.s.queue = Append(d.s.queue, q) /\ e.s.pending = d.s.pending
          /\ e.s.active = d.s.active
      BY <3>1 DEF Shape
    <3> HIDE DEF e
    <3>3. IsList(e.s.queue) /\ Elems(e.s.queue) = Elems(d.s.queue) \cup {q}
      BY <3>1, <3>2, AppendList DEF SessionFine
    <3>4. Known(d.s.ledger, d.rows, q.id)
      BY <1>2, <1>3, <3>1 DEF Known
    <3>7. Distinct(e.s.queue)
      BY <1>2, <2>2, <2>3, <3>1, <3>2, MoreDistinct DEF SessionFine
    <3>5. SessionFine(e.s, d.rows)
      BY <3>1, <3>2, <3>3, <3>4, <3>7 DEF SessionFine
    <3>6. Good(R, I, e)
      BY <2>1, <3>2, <3>5, SessionGood
    <3> QED
      BY <3>6 DEF e
  <2> QED
    BY <2>1, <2>2
<1> HIDE DEF waits
<1> QED
  BY <1>1, <1>6, <1>7, AlikeAll

LEMMA SubmitPromptGood ==
    ASSUME NEW R, NEW I, NEW c, Good(R, I, c), NEW id, NEW text
    PROVE  \A d \in SubmitPrompt(c, id, text) : Good(R, I, d)
<1> DEFINE phase == PhaseOf(c.s.ledger, id)
           refused == {Rejected(d) : d \in Log(c)}
<1>1. phase \in Phases \cup {"None"}
  <2>1. ASSUME Has(c.s.ledger, id)
        PROVE  Of(c.s.ledger, id).phase \in Phases
    BY <2>1, OfHas, GoodFacts DEF Committable, EntryFine
  <2> QED
    BY <2>1 DEF PhaseOf
<1>2. \A d \in refused : Good(R, I, d)
  <2>1. \A d \in Log(c) : Good(R, I, d)
    BY AlikeAll
  <2> QED
    BY <2>1, AlikeAll
<1>4. phase = "None" => ~Has(c.s.ledger, id)
  <2>1. ASSUME Has(c.s.ledger, id)
        PROVE  Of(c.s.ledger, id).phase \in Phases
    BY <2>1, OfHas, GoodFacts DEF Committable, EntryFine
  <2> QED
    BY <2>1 DEF PhaseOf, Phases
<1>3. SubmitPrompt(c, id, text) \subseteq
         {Rejected(c)} \cup WithdrawQueued(c, id) \cup refused
            \cup UpdateQueued(c, id, text) \cup Log(c)
            \cup (IF phase = "None" THEN AdmitPrompt(c, id, text) ELSE {})
  <2> DEFINE cases == CASE phase = "Interrupted" -> refused
                        [] phase = "Queued" -> UpdateQueued(c, id, text)
                        [] phase \in {"Completed", "Dispatching"} -> Log(c)
                        [] OTHER -> AdmitPrompt(c, id, text)
  <2>1. \/ cases \in {refused, UpdateQueued(c, id, text), Log(c)}
        \/ phase = "None" /\ cases = AdmitPrompt(c, id, text)
    <3> HIDE DEF phase, refused
    <3> QED
      BY <1>1 DEF Phases
  <2>2. SubmitPrompt(c, id, text) \in {{Rejected(c)}, WithdrawQueued(c, id), cases}
    BY DEF SubmitPrompt
  <2> HIDE DEF cases, refused, phase
  <2> QED
    BY <2>1, <2>2
<1> HIDE DEF refused, phase
<1>5. phase = "None" => \A d \in AdmitPrompt(c, id, text) : Good(R, I, d)
  BY <1>4, AdmitPromptGood
<1> QED
  BY <1>2, <1>3, <1>5, AlikeAll, WithdrawQueuedGood, UpdateQueuedGood

LEMMA SubmitAfterReleaseGood ==
    ASSUME NEW R, NEW I, NEW c, Good(R, I, c), NEW id, NEW text
    PROVE  \A d \in SubmitAfterRelease(c, id, text) : Good(R, I, d)
<1> DEFINE n == NoteExit(c)
           submitted(e) == UNION {SubmitPrompt(f, id, text) : f \in TryDispatch(e)}
           revived == UNION {IF e.ok THEN submitted(e) ELSE {e} : e \in Revive(n)}
<1>1. SubmitAfterRelease(c, id, text) \in {SubmitPrompt(n, id, text), revived}
  BY DEF SubmitAfterRelease, Then, Anyway
<1>2. Good(R, I, n)
  BY AlikeAll
<1> HIDE DEF n
<1>3. \A e : Good(R, I, e) => \A d \in submitted(e) : Good(R, I, d)
  BY TryDispatchGood, SubmitPromptGood
<1> HIDE DEF submitted
<1>4. \A d \in revived : Good(R, I, d)
  BY <1>2, <1>3, ReviveGood
<1> HIDE DEF revived
<1> QED
  BY <1>1, <1>2, <1>4, SubmitPromptGood

LEMMA CancelGood ==
    ASSUME NEW R, NEW I, NEW c, Good(R, I, c), NEW keepQueue
    PROVE  \A d \in Cancel(c, keepQueue) : Good(R, I, d)
<1> DEFINE l == RemoveQueued(c.s.ledger)
           dropped == {IF d.ok THEN [d EXCEPT !.s.queue = <<>>] ELSE d : d \in Commit(c, l)}
           emptied == IF keepQueue THEN {Accepted(c)} ELSE dropped
           asked(d) == IF ~HasClient(d) THEN {Rejected(d)}
                       ELSE Faulty(d) \cup {Accepted(d)} \cup IF d.alive THEN {} ELSE {Rejected(d)}
           cancelled(d) == IF d.s.active = None THEN d ELSE [d EXCEPT !.s.active.cancel = TRUE]
           first == UNION {IF d.ok THEN asked(d) ELSE {d} : d \in emptied}
<1>1. Cancel(c, keepQueue) = UNION {IF d.ok THEN MaybeLog(cancelled(d)) ELSE {d} : d \in first}
  BY DEF Cancel, Then
<1>2. Committable(l, c.rows)
  BY GoodFacts, RemoveQueuedFine
<1> HIDE DEF l
<1>3. \A d \in dropped : Good(R, I, d)
  <2>1. \A d \in Commit(c, l) : Good(R, I, d)
    BY <1>2, CommitGood
  <2> QED
    BY <2>1, EmptyGood
<1> HIDE DEF dropped
<1>4. \A d \in emptied : Good(R, I, d)
  BY <1>3, AlikeAll
<1> HIDE DEF emptied
<1>5. \A d : Good(R, I, d) => \A e \in asked(d) : Good(R, I, e)
  BY AlikeAll
<1> HIDE DEF asked
<1>6. \A d \in first : Good(R, I, d)
  BY <1>4, <1>5
<1> HIDE DEF first
<1>7. \A d : Good(R, I, d) => Good(R, I, cancelled(d))
  BY CancelledGood
<1> HIDE DEF cancelled
<1> QED
  BY <1>1, <1>6, <1>7, AlikeAll

(* The turn of a ledger entry that is being dispatched is interrupted.     *)
LEMMA InterruptDispatchingGood ==
    ASSUME NEW R, NEW I, NEW c, Good(R, I, c), NEW id, NEW events,
           PhaseOf(c.s.ledger, id) = "Dispatching"
    PROVE  \A d \in CommitWithEvents(c, MarkInterrupted(c.s.ledger, id), events) : Good(R, I, d)
<1> DEFINE l == MarkInterrupted(c.s.ledger, id)
<1>1. Has(c.s.ledger, id) /\ Of(c.s.ledger, id).phase = "Dispatching"
  BY DEF PhaseOf
<1>2. Of(c.s.ledger, id) \in Elems(c.s.ledger) /\ Of(c.s.ledger, id).id = id
  BY <1>1, OfHas
<1>3. Durable(c.rows, id)
  BY <1>1, <1>2 DEF Good, Fine, SessionFine, LedgerFine
<1>4. Committable(l, c.rows)
  BY <1>3, GoodFacts, MarkInterruptedFine
<1> HIDE DEF l
<1>5. \A d \in CommitWithEvents(c, l, events) : Good(R, I, d)
  BY <1>4, CommitWithEventsGood
<1> QED
  BY <1>5 DEF l

LEMMA RestartGood ==
    ASSUME NEW R, NEW I, NEW c, Good(R, I, c)
    PROVE  \A d \in Restart(c) : Good(R, I, d)
<1> DEFINE f == InFlight(c)
           events == FALSE
           interrupted(d) ==
               IF f # None /\ PhaseOf(d.s.ledger, f.id) = "Dispatching"
               THEN CommitWithEvents(d, MarkInterrupted(d.s.ledger, f.id), events)
               ELSE {d}
           again(d) == f # None /\ PhaseOf(d.s.ledger, f.id) = "Interrupted"
           submitted(d, e) == IF again(d) THEN SubmitPrompt(e, RestartId(f.id), f.text) ELSE {e}
           dispatched(d, e) == UNION {submitted(d, g) : g \in TryDispatch(e)}
           resent(d) == UNION {IF e.ok THEN dispatched(d, e) ELSE {e} : e \in Log(d)}
           replaced == IF HasClient(c) THEN Respawn(c) ELSE AcquireKeepingHolders(c)
           settled == UNION {IF d.ok THEN interrupted(d) ELSE {d} : d \in replaced}
<1>1. Restart(c) = UNION {IF d.ok THEN resent(d) ELSE {d} : d \in settled}
  BY DEF Restart, Then, Anyway
<1> HIDE DEF f, events
<1>2. \A d \in replaced : Good(R, I, d)
  BY RespawnGood, KeepingHoldersGood
<1> HIDE DEF replaced
<1>3. \A d : Good(R, I, d) => \A e \in interrupted(d) : Good(R, I, e)
  BY InterruptDispatchingGood
<1> HIDE DEF interrupted
<1>4. \A d \in settled : Good(R, I, d)
  BY <1>2, <1>3
<1> HIDE DEF settled, again
<1>5. \A d, e : Good(R, I, e) => \A g \in submitted(d, e) : Good(R, I, g)
  BY SubmitPromptGood
<1> HIDE DEF submitted
<1>6. \A d, e : Good(R, I, e) => \A g \in dispatched(d, e) : Good(R, I, g)
  BY <1>5, TryDispatchGood
<1> HIDE DEF dispatched
<1>7. \A d : Good(R, I, d) => \A e \in resent(d) : Good(R, I, e)
  BY <1>6, AlikeAll
<1> HIDE DEF resent
<1> QED
  BY <1>1, <1>4, <1>7

-----------------------------------------------------------------------------
(* The poll, and the end of the actor.                                     *)

LEMMA FlushGood ==
    ASSUME NEW R, NEW I, NEW c, Good(R, I, c)
    PROVE  \A d \in Flush(c) : Good(R, I, d)
  BY FinalizeGood, AlikeAll DEF Flush

LEMMA RetryBacklogGood ==
    ASSUME NEW R, NEW I, NEW c, Good(R, I, c)
    PROVE  \A d \in RetryBacklog(c) : Good(R, I, d)
  BY AlikeAll DEF RetryBacklog

LEMMA ResumeQueuedGood ==
    ASSUME NEW R, NEW I, NEW c, Good(R, I, c)
    PROVE  \A d \in ResumeQueued(c) : Good(R, I, d)
<1> DEFINE forgot(d) == Note([d EXCEPT !.s.queue = <<>>])
<1>1. ResumeQueued(c) \in {{c}, UNION {IF d.ok THEN {d} ELSE forgot(d) : d \in Revive(c)}}
  BY DEF ResumeQueued
<1>2. \A d : Good(R, I, d) => \A e \in forgot(d) : Good(R, I, e)
  BY EmptyGood, AlikeAll
<1> HIDE DEF forgot
<1> QED
  BY <1>1, <1>2, ReviveGood

LEMMA TickGood ==
    ASSUME NEW R, NEW I, NEW c, Good(R, I, c)
    PROVE  \A d \in Tick(c) : Good(R, I, d)
<1> DEFINE retried == UNION {RetryBacklog(d) : d \in RetryPending(c)}
           pumped(d) == IF HasClient(d) THEN Pump(d) ELSE {d}
           resumed(d) == UNION {ResumeQueued(e) : e \in pumped(d)}
<1>1. Tick(c) = UNION {resumed(d) : d \in retried}
  BY DEF Tick, Anyway
<1>2. \A d \in retried : Good(R, I, d)
  BY RetryPendingGood, RetryBacklogGood
<1> HIDE DEF retried
<1>3. \A d : Good(R, I, d) => \A e \in pumped(d) : Good(R, I, e)
  BY PumpGood
<1> HIDE DEF pumped
<1>4. \A d : Good(R, I, d) => \A e \in resumed(d) : Good(R, I, e)
  BY <1>3, ResumeQueuedGood
<1> HIDE DEF resumed
<1> QED
  BY <1>1, <1>2, <1>4

LEMMA ShutdownGood ==
    ASSUME NEW R, NEW I, NEW c, Good(R, I, c), NEW close
    PROVE  \A d \in Shutdown(c, close) : Good(R, I, d)
<1> DEFINE dropped(d) == IF close THEN Commit(d, RemoveQueued(d.s.ledger)) ELSE {d}
           killed(e) == IF HasClient(e) THEN MaybeLog(Kill(e)) ELSE {e}
           ended(d) == UNION {killed(e) : e \in dropped(d)}
<1>1. Shutdown(c, close) = UNION {ended(d) : d \in Flush(c)}
  BY DEF Shutdown, Anyway
<1>2. \A d : Good(R, I, d) => \A e \in dropped(d) : Good(R, I, e)
  <2> SUFFICES ASSUME NEW d, Good(R, I, d), NEW e \in Commit(d, RemoveQueued(d.s.ledger))
               PROVE  Good(R, I, e)
    BY Zenon
  <2>1. Committable(RemoveQueued(d.s.ledger), d.rows)
    BY GoodFacts, RemoveQueuedFine
  <2> QED
    BY <2>1, CommitGood
<1> HIDE DEF dropped
<1>3. \A e : Good(R, I, e) => \A d \in killed(e) : Good(R, I, d)
  BY AlikeAll
<1> HIDE DEF killed
<1>4. \A d : Good(R, I, d) => \A e \in ended(d) : Good(R, I, e)
  BY <1>2, <1>3
<1> HIDE DEF ended
<1> QED
  BY <1>1, <1>4, FlushGood

-----------------------------------------------------------------------------
(* The sweep, and the start of an actor.                                   *)

(* The rows follow an accepted plan, and the actor does not: its ledger is *)
(* now older than the stored one.                                          *)
LEMMA AppliedGood ==
    ASSUME NEW R, NEW I, NEW c, Good(R, I, c), NEW l, Committable(l, c.rows),
           PlanOK(c.rows, l)
    PROVE  Good(R, I, [c EXCEPT !.rows = PlanApply(@, l)])
<1> DEFINE S == c.rows
           T == PlanApply(c.rows, l)
           d == [c EXCEPT !.rows = PlanApply(@, l)]
<1>1. /\ Shape(c) /\ RowsFine(S) /\ SessionFine(c.s, S) /\ SentFine(c.sent, S) /\ Keeps(R, S)
      /\ \A i \in I : Known(c.s.ledger, S, i)
  BY DEF Good, Fine
<1>2. RowsFine(T) /\ Keeps(S, T)
  BY <1>1, CommitKeeps
<1>3. Shape(d) /\ d.rows = T /\ d.s = c.s /\ d.sent = c.sent
  BY <1>1 DEF Shape
<1> HIDE DEF S, T, d
<1>4. SessionFine(c.s, T) /\ SentFine(c.sent, T) /\ Keeps(R, T)
  BY <1>1, <1>2, KeepsSession, KeepsSent, KeepsOn
<1>5. \A i \in I : Known(c.s.ledger, T, i)
  BY <1>1, <1>2, KeepsKnown
<1>6. Good(R, I, d)
  BY <1>2, <1>3, <1>4, <1>5 DEF Good, Fine
<1> QED
  BY <1>6 DEF d

LEMMA SweepChildGood ==
    ASSUME NEW R, NEW I, NEW c, Good(R, I, c)
    PROVE  \A d \in SweepChild(c) : Good(R, I, d)
<1> DEFINE cleared(e) == [e EXCEPT !.run.child = NoHost]
           spared == [c EXCEPT !.agents = @ \ {c.run.child}]
           killed == IF c.run.child \in c.agents THEN {spared} \cup Faulty(c) ELSE {c}
           noted(d) == {IF e.ok THEN cleared(e) ELSE e : e \in Write(d)}
           all == UNION {IF d.ok THEN noted(d) ELSE {d} : d \in killed}
<1>1. SweepChild(c) \in {{c}, all}
  BY DEF SweepChild, Then
<1>2. \A e : Good(R, I, e) => Good(R, I, cleared(e))
  <2> SUFFICES ASSUME NEW e, Good(R, I, e)
               PROVE  Good(R, I, [e EXCEPT !.run.child = NoHost])
    BY Zenon
  <2>1. Alike(e, [e EXCEPT !.run.child = NoHost])
    BY GoodShape DEF Alike, Shape
  <2> QED
    BY <2>1, AlikeGood
<1> HIDE DEF cleared
<1>3. Good(R, I, spared)
  <2>1. Alike(c, spared)
    BY GoodShape DEF Alike, Shape
  <2> QED
    BY <2>1, AlikeGood
<1> HIDE DEF spared
<1>4. \A d \in killed : Good(R, I, d)
  BY <1>3, AlikeAll
<1> HIDE DEF killed
<1>5. \A d : Good(R, I, d) => \A e \in noted(d) : Good(R, I, e)
  BY <1>2, AlikeAll
<1> HIDE DEF noted
<1>6. \A d \in all : Good(R, I, d)
  BY <1>4, <1>5
<1> HIDE DEF all
<1> QED
  BY <1>1, <1>6

LEMMA RecoverInterruptedGood ==
    ASSUME NEW R, NEW I, NEW c, Good(R, I, c)
    PROVE  \A d \in RecoverInterrupted(c) : Good(R, I, d)
<1> DEFINE l == RecoverAfterRestart(LedgerFromRows(c.rows))
           applied(e) == [e EXCEPT !.rows = PlanApply(@, l)]
           saved(d) == IF l = LedgerFromRows(d.rows) THEN {d}
                       ELSE {IF e.ok THEN applied(e) ELSE e : e \in Write(d)}
<1>1. RecoverInterrupted(c) \in
         {{Accepted(c)}, UNION {IF d.ok THEN saved(d) ELSE {d} : d \in Read(c)}}
  BY DEF RecoverInterrupted, Then
<1>2. LedgerFine(l, c.rows) /\ PlanOK(c.rows, l)
  <2>1. RowsFine(c.rows)
    BY DEF Good, Fine
  <2> QED
    BY <2>1, RecoveredOK
<1> HIDE DEF l
<1>3. \A e : Good(R, I, e) /\ e.rows = c.rows => Good(R, I, applied(e))
  BY <1>2, AppliedGood DEF LedgerFine
<1> HIDE DEF applied
<1>4. ASSUME NEW d \in Read(c)
      PROVE  \A e \in saved(d) : Good(R, I, e)
  <2>1. Good(R, I, d) /\ d.rows = c.rows
    BY AlikeAll DEF Alike
  <2>2. \A e \in Write(d) : Good(R, I, e) /\ e.rows = c.rows
    BY <2>1, AlikeAll DEF Alike
  <2> QED
    BY <1>3, <2>1, <2>2
<1> HIDE DEF saved
<1> QED
  BY <1>1, <1>4, AlikeAll

(* An actor that has not loaded anything yet.                              *)
LEMMA NewSessionFine ==
    ASSUME NEW R, NEW s, {"ledger", "queue", "active", "pending"} \subseteq DOMAIN s,
           LedgerFine(s.ledger, R), s.queue = <<>>, s.active = None, s.pending = None
    PROVE  SessionFine(s, R)
  BY NoList DEF SessionFine

LEMMA NoSessionFine ==
    ASSUME NEW R
    PROVE  /\ {"ledger", "queue", "active", "pending"} \subseteq DOMAIN NoSession
           /\ SessionFine(NoSession, R)
<1> DEFINE s == NoSession
           none == <<>>
<1>1. /\ {"ledger", "queue", "active", "pending"} \subseteq DOMAIN s
      /\ s.ledger = <<>> /\ s.queue = <<>> /\ s.active = None /\ s.pending = None
  BY DEF NoSession
<1> HIDE DEF s
<1>2. LedgerFine(none, R)
  BY NoList DEF LedgerFine, Committable
<1>3. SessionFine(s, R)
  BY <1>1, <1>2, NewSessionFine
<1> QED
  BY <1>1, <1>3 DEF s

(* Another session in the same configuration.                              *)
LEMMA OtherSessionGood ==
    ASSUME NEW R, NEW c, Good(R, {}, c), NEW s,
           {"ledger", "queue", "active", "pending"} \subseteq DOMAIN s,
           SessionFine(s, c.rows)
    PROVE  Good(R, {}, [c EXCEPT !.s = s])
<1> DEFINE d == [c EXCEPT !.s = s]
<1>1. Shape(c)
  BY GoodShape
<1>2. Shape(d) /\ d.rows = c.rows /\ d.sent = c.sent /\ d.s = s
  BY <1>1 DEF Shape
<1> HIDE DEF d
<1>3. Good(R, {}, d)
  BY <1>2 DEF Good, Fine
<1> QED
  BY <1>3 DEF d

LEMMA SpawnActorGood ==
    ASSUME NEW R, NEW c, Good(R, {}, c)
    PROVE  \A d \in SpawnActor(c) : Good(R, {}, d)
<1> SUFFICES ASSUME NEW d \in Read(c)
             PROVE  Good(R, {}, [d EXCEPT !.s = [NoSession EXCEPT !.actor = TRUE, !.unusable = ~d.ok,
                          !.ledger = IF d.ok THEN LedgerFromRows(d.rows) ELSE <<>>]])
  BY DEF SpawnActor
<1> DEFINE l == IF d.ok THEN LedgerFromRows(d.rows) ELSE <<>>
           s == [NoSession EXCEPT !.actor = TRUE, !.unusable = ~d.ok, !.ledger = l]
<1>1. Good(R, {}, d)
  BY AlikeAll
<1>2. RowsFine(d.rows)
  BY <1>1 DEF Good, Fine
<1>3. LedgerFine(l, d.rows)
  <2>1. LedgerFine(LedgerFromRows(d.rows), d.rows)
    BY <1>2, FromRowsFine
  <2>2. LedgerFine(<<>>, d.rows)
    BY NoList DEF LedgerFine, Committable
  <2> QED
    BY <2>1, <2>2
<1> HIDE DEF l
<1>4. /\ {"ledger", "queue", "active", "pending"} \subseteq DOMAIN s
      /\ s.ledger = l /\ s.queue = <<>> /\ s.active = None /\ s.pending = None
  BY DEF NoSession
<1> HIDE DEF s
<1>5. SessionFine(s, d.rows)
  BY <1>3, <1>4, NewSessionFine
<1>6. Good(R, {}, [d EXCEPT !.s = s])
  BY <1>1, <1>4, <1>5, OtherSessionGood
<1> QED
  BY <1>6 DEF s, l

-----------------------------------------------------------------------------
(* The specification.                                                      *)

(* The invariant: the actors of all hosts fit the rows they share, also    *)
(* those of hosts that have lost the lease and do not know it yet.         *)
SessionsFine ==
    /\ DOMAIN sess = Hosts
    /\ \A h \in Hosts : /\ {"ledger", "queue", "active", "pending"} \subseteq DOMAIN sess[h]
                        /\ SessionFine(sess[h], rows)

IInv ==
    /\ RowsFine(rows)
    /\ SentFine(sent, rows)
    /\ SessionsFine

LEMMA LoadGood ==
    ASSUME IInv, NEW h \in Hosts
    PROVE  Good(rows, {}, Load(h)) /\ Load(h).rows = rows
<1>1. /\ {"rows", "sent", "s", "ok"} \subseteq DOMAIN Load(h)
      /\ Load(h).rows = rows /\ Load(h).sent = sent /\ Load(h).s = sess[h]
  BY DEF Load
<1>2. Shape(Load(h))
  BY <1>1 DEF Shape, IInv, SessionsFine
<1>3. Keeps(rows, rows)
  BY KeepsSame DEF IInv
<1> QED
  BY <1>1, <1>2, <1>3 DEF Good, Fine, IInv, SessionsFine

(* A handler's effect on the host that ran it and on all the others.       *)
LEMMA ApplyKeeps ==
    ASSUME IInv, NEW h \in Hosts, NEW c, Good(rows, {}, c), Apply(h, c)
    PROVE  IInv' /\ Keeps(rows, rows')
<1> DEFINE s == IF c.crashed THEN NoSession ELSE c.s
<1>1. rows' = c.rows /\ sent' = c.sent /\ sess' = [sess EXCEPT ![h] = s]
  BY DEF Apply
<1>2. RowsFine(rows') /\ SentFine(sent', rows') /\ Keeps(rows, rows')
  BY <1>1 DEF Good, Fine
<1>3. {"ledger", "queue", "active", "pending"} \subseteq DOMAIN s /\ SessionFine(s, rows')
  <2>1. {"ledger", "queue", "active", "pending"} \subseteq DOMAIN c.s /\ SessionFine(c.s, rows')
    BY <1>1 DEF Good, Fine, Shape
  <2>2. /\ {"ledger", "queue", "active", "pending"} \subseteq DOMAIN NoSession
        /\ SessionFine(NoSession, rows')
    BY NoSessionFine
  <2> QED
    BY <2>1, <2>2
<1> HIDE DEF s
<1>4. ASSUME NEW g \in Hosts
      PROVE  /\ {"ledger", "queue", "active", "pending"} \subseteq DOMAIN sess'[g]
             /\ SessionFine(sess'[g], rows')
  <2>1. CASE g = h
    BY <1>1, <1>3, <2>1 DEF IInv, SessionsFine
  <2>2. CASE g # h
    <3>1. sess'[g] = sess[g]
      BY <1>1, <2>2
    <3>2. /\ {"ledger", "queue", "active", "pending"} \subseteq DOMAIN sess[g]
          /\ SessionFine(sess[g], rows)
      BY DEF IInv, SessionsFine
    <3> QED
      BY <1>2, <3>1, <3>2, KeepsSession
  <2> QED
    BY <2>1, <2>2
<1>5. DOMAIN sess' = Hosts
  BY <1>1 DEF IInv, SessionsFine
<1>6. SessionsFine'
  BY <1>4, <1>5 DEF SessionsFine
<1> QED
  BY <1>2, <1>6 DEF IInv

LEMMA CommandKeeps ==
    ASSUME IInv, NEW h \in Hosts, NEW S, \A c \in S : Good(rows, {}, c), Command(h, S)
    PROVE  IInv' /\ Keeps(rows, rows')
<1>1. PICK c \in S : Apply(h, c)
  BY DEF Command
<1> QED
  BY <1>1, ApplyKeeps

(* A step that changes no row, no session and nothing an agent received.   *)
LEMMA OtherKeeps ==
    ASSUME IInv, UNCHANGED <<rows, sess, sent>>
    PROVE  IInv' /\ Keeps(rows, rows')
<1>1. IInv'
  BY DEF IInv, SessionsFine
<1>2. Keeps(rows, rows')
  BY KeepsSame DEF IInv
<1> QED
  BY <1>1, <1>2

LEMMA SweepKeeps ==
    ASSUME IInv, NEW h \in Hosts, Sweep(h)
    PROVE  IInv' /\ Keeps(rows, rows')
<1>1. PICK c \in SweepChild(Load(h)) : \E d \in RecoverInterrupted(c) : Apply(h, d)
  BY DEF Sweep
<1>2. PICK d \in RecoverInterrupted(c) : Apply(h, d)
  BY <1>1
<1>3. Good(rows, {}, c)
  BY <1>1, LoadGood, SweepChildGood
<1>4. Good(rows, {}, d)
  BY <1>2, <1>3, RecoverInterruptedGood
<1> QED
  BY <1>2, <1>4, ApplyKeeps

LEMMA AttachKeeps ==
    ASSUME IInv, NEW h \in Hosts, NEW other, Attach(h, other)
    PROVE  IInv' /\ Keeps(rows, rows')
<1> DEFINE c == [Load(h) EXCEPT !.lost = FALSE]
           started == IF sess[h].actor THEN {c} ELSE SpawnActor(c)
           all == UNION {Acquire(d, other) : d \in started}
<1>1. Command(h, all)
  BY DEF Attach, Anyway
<1>2. Good(rows, {}, c)
  BY LoadGood, FieldsGood
<1> HIDE DEF c
<1>3. \A d \in started : Good(rows, {}, d)
  BY <1>2, SpawnActorGood
<1> HIDE DEF started
<1>4. \A d \in all : Good(rows, {}, d)
  BY <1>3, AcquireGood
<1> HIDE DEF all
<1> QED
  BY <1>1, <1>4, CommandKeeps

LEMMA DetachKeeps ==
    ASSUME IInv, NEW h \in Hosts, Detach(h)
    PROVE  IInv' /\ Keeps(rows, rows')
<1> DEFINE v == sess[h].holders - 1
           c == [Load(h) EXCEPT !.s.holders = @ - 1]
<1>1. c = [Load(h) EXCEPT !.s.holders = v]
  BY DEF Load
<1> HIDE DEF v
<1>2. Good(rows, {}, c)
  BY <1>1, LoadGood, FieldsGood
<1>3. Command(h, {c})
  BY DEF Detach
<1> HIDE DEF c
<1> QED
  BY <1>2, <1>3, CommandKeeps

LEMMA DiscardQueuedKeeps ==
    ASSUME IInv, NEW h \in Hosts, DiscardQueued(h)
    PROVE  IInv' /\ Keeps(rows, rows')
<1> DEFINE l == RemoveQueued(LedgerFromRows(rows))
           c == Load(h)
<1>1. Committable(l, rows) /\ PlanOK(rows, l)
  BY DiscardedOK DEF IInv
<1>2. PICK d \in Read(c) : \E e \in {d} \cup Write(d) :
         Apply(h, IF e.ok THEN [e EXCEPT !.rows = PlanApply(@, l)] ELSE e)
  <2> HIDE DEF c
  <2> QED
    BY DEF DiscardQueued, c
<1>3. PICK e \in {d} \cup Write(d) :
         Apply(h, IF e.ok THEN [e EXCEPT !.rows = PlanApply(@, l)] ELSE e)
  BY <1>2
<1> HIDE DEF l
<1>4. Good(rows, {}, c) /\ c.rows = rows
  BY LoadGood
<1> HIDE DEF c
<1>5. Good(rows, {}, d) /\ d.rows = rows
  BY <1>4, AlikeAll DEF Alike
<1>6. Good(rows, {}, e) /\ e.rows = rows
  BY <1>5, AlikeAll DEF Alike
<1>7. Good(rows, {}, [e EXCEPT !.rows = PlanApply(@, l)])
  BY <1>1, <1>6, AppliedGood
<1> DEFINE f == IF e.ok THEN [e EXCEPT !.rows = PlanApply(@, l)] ELSE e
<1>8. Good(rows, {}, f) /\ Apply(h, f)
  BY <1>3, <1>6, <1>7
<1> HIDE DEF f
<1> QED
  BY <1>8, ApplyKeeps

LEMMA EndedKeeps ==
    ASSUME IInv, NEW h \in Hosts, NEW close, Command(h, Ended(Shutdown(Load(h), close)))
    PROVE  IInv' /\ Keeps(rows, rows')
<1>1. ASSUME NEW c \in Shutdown(Load(h), close)
      PROVE  Good(rows, {}, [c EXCEPT !.s = NoSession])
  <2>1. Good(rows, {}, c)
    BY LoadGood, ShutdownGood
  <2> QED
    BY <2>1, NoSessionFine, OtherSessionGood
<1> DEFINE all == Ended(Shutdown(Load(h), close))
<1>2. \A d \in all : Good(rows, {}, d)
  BY <1>1 DEF Ended
<1> HIDE DEF all
<1>3. Command(h, all)
  BY DEF all
<1> QED
  BY <1>2, <1>3, CommandKeeps

LEMMA ChildAnswersKeeps ==
    ASSUME IInv, NEW h \in Hosts, NEW a, ChildAnswers(h, a)
    PROVE  IInv' /\ Keeps(rows, rows')
<1>1. rows' = rows /\ sent' = sent /\ sess' = [sess EXCEPT ![h].chan = a]
  BY DEF ChildAnswers, dbVars
<1>2. Keeps(rows, rows')
  BY <1>1, KeepsSame DEF IInv
<1>3. ASSUME NEW g \in Hosts
      PROVE  /\ {"ledger", "queue", "active", "pending"} \subseteq DOMAIN sess'[g]
             /\ SessionFine(sess'[g], rows)
  <2>1. /\ {"ledger", "queue", "active", "pending"} \subseteq DOMAIN sess[g]
        /\ SessionFine(sess[g], rows)
    BY DEF IInv, SessionsFine
  <2>2. /\ DOMAIN sess'[g] = DOMAIN sess[g]
        /\ sess'[g].ledger = sess[g].ledger /\ sess'[g].queue = sess[g].queue
        /\ sess'[g].active = sess[g].active /\ sess'[g].pending = sess[g].pending
    BY <1>1, <2>1 DEF IInv, SessionsFine
  <2> QED
    BY <2>1, <2>2 DEF SessionFine
<1>4. DOMAIN sess' = Hosts
  BY <1>1 DEF IInv, SessionsFine
<1>5. SessionsFine'
  BY <1>1, <1>3, <1>4 DEF SessionsFine
<1> QED
  BY <1>1, <1>2, <1>5 DEF IInv

(* What every step of the specification does.                              *)
LEMMA StepKeeps ==
    ASSUME IInv, [Next]_vars
    PROVE  IInv' /\ Keeps(rows, rows')
<1>1. CASE UNCHANGED vars
  BY <1>1, OtherKeeps DEF vars
<1>2. ASSUME NEW h \in Hosts,
             StartHost(h) \/ ClaimLease(h) \/ ConfirmLease(h) \/ LoseLease(h) \/ ChildExits(h)
      PROVE  IInv' /\ Keeps(rows, rows')
  BY <1>2, OtherKeeps DEF StartHost, ClaimLease, ConfirmLease, LoseLease, ChildExits, dbVars
<1>3. ASSUME NEW h \in Hosts
      PROVE  Good(rows, {}, Load(h))
  BY LoadGood
<1>4. ASSUME NEW h \in Hosts, Crash(h)
      PROVE  IInv' /\ Keeps(rows, rows')
  <2> DEFINE all == {Crashed(Load(h))}
  <2>1. \A c \in all : Good(rows, {}, c)
    BY <1>3, AlikeAll
  <2>2. Command(h, all)
    BY <1>4 DEF Crash
  <2> HIDE DEF all
  <2> QED
    BY <2>1, <2>2, CommandKeeps
<1>5. ASSUME NEW h \in Hosts, NEW p, NEW t, Submit(h, p, t)
      PROVE  IInv' /\ Keeps(rows, rows')
  <2> DEFINE id == <<p, 0>>
             all == SubmitAfterRelease(Load(h), id, t)
  <2>1. Command(h, all)
    BY <1>5 DEF Submit
  <2> HIDE DEF id
  <2>2. \A c \in all : Good(rows, {}, c)
    BY <1>3, SubmitAfterReleaseGood
  <2> HIDE DEF all
  <2> QED
    BY <2>1, <2>2, CommandKeeps
<1>6. ASSUME NEW h \in Hosts, NEW keepQueue, CancelTurn(h, keepQueue)
      PROVE  IInv' /\ Keeps(rows, rows')
  BY <1>3, <1>6, CancelGood, CommandKeeps DEF CancelTurn
<1>7. ASSUME NEW h \in Hosts, RestartAgent(h)
      PROVE  IInv' /\ Keeps(rows, rows')
  BY <1>3, <1>7, RestartGood, CommandKeeps DEF RestartAgent
<1>8. ASSUME NEW h \in Hosts, ChangeConfig(h)
      PROVE  IInv' /\ Keeps(rows, rows')
  BY <1>3, <1>8, RespawnGood, CommandKeeps DEF ChangeConfig
<1>9. ASSUME NEW h \in Hosts, NEW takeHolder, ClearChat(h, takeHolder)
      PROVE  IInv' /\ Keeps(rows, rows')
  BY <1>3, <1>9, ClearContextGood, CommandKeeps DEF ClearChat
<1>10. ASSUME NEW h \in Hosts, SwitchHarness(h)
       PROVE  IInv' /\ Keeps(rows, rows')
  BY <1>3, <1>10, SwitchGood, CommandKeeps DEF SwitchHarness
<1>11. ASSUME NEW h \in Hosts, Poll(h)
       PROVE  IInv' /\ Keeps(rows, rows')
  BY <1>3, <1>11, TickGood, CommandKeeps DEF Poll
<1>12. ASSUME NEW h \in Hosts, FlushActor(h)
       PROVE  IInv' /\ Keeps(rows, rows')
  BY <1>3, <1>12, FlushGood, CommandKeeps DEF FlushActor
<1>13. ASSUME NEW h \in Hosts, Evict(h) \/ DropSession(h)
       PROVE  IInv' /\ Keeps(rows, rows')
  <2>1. \E close \in BOOLEAN : Command(h, Ended(Shutdown(Load(h), close)))
    BY <1>13 DEF Evict, DropSession
  <2> QED
    BY <2>1, EndedKeeps
<1> QED
  BY <1>1, <1>2, <1>4, <1>5, <1>6, <1>7, <1>8, <1>9, <1>10, <1>11, <1>12, <1>13,
     SweepKeeps, AttachKeeps, DetachKeeps, DiscardQueuedKeeps, ChildAnswersKeeps DEF Next

LEMMA InitFine == Init => IInv
<1> SUFFICES ASSUME Init
             PROVE  IInv
  OBVIOUS
<1>1. rows = <<>> /\ sent = <<>> /\ sess = [h \in Hosts |-> NoSession]
  BY DEF Init
<1> DEFINE none == <<>>
<1>2. IsList(none) /\ Elems(none) = {} /\ Distinct(none)
  BY NoList
<1> HIDE DEF none
<1>3. RowsFine(none) /\ SentFine(none, none)
  BY <1>2 DEF RowsFine, SentFine
<1>4. SessionsFine
  BY <1>1, NoSessionFine DEF SessionsFine
<1> QED
  BY <1>1, <1>3, <1>4 DEF IInv, none

LEMMA AlwaysFine == Spec => []IInv
<1>1. IInv /\ [Next]_vars => IInv'
  BY StepKeeps
<1> QED
  BY InitFine, <1>1, PTL DEF Spec

(* SentIsDurable for any number of hosts, prompts, texts, faults and       *)
(* claims: whatever an agent has received, from any host, is stored in a   *)
(* row that is not queued.  dispatch_queued_prompt and submit_prompt make  *)
(* the dispatch durable before begin_prompt, and no later commit of any    *)
(* host, not even one with a stale ledger, takes the row back or out.      *)
THEOREM SentAlwaysDurable == Spec => []SentIsDurable
<1>1. IInv => SentIsDurable
  BY OfHas DEF IInv, SentFine, Durable, SentIsDurable
<1> QED
  BY <1>1, AlwaysFine, PTL

(* NeverQueuedAgain, likewise: a row that has left Pending never returns   *)
(* to it, whichever host commits what.  plan_commit would accept           *)
(* Interrupted -> Pending and Running -> Pending; what keeps every host    *)
(* from asking for it is that a queued entry has no dispatch marks and a   *)
(* dispatched row does, so the plan would rewrite content that is fixed.   *)
THEOREM NeverBackInQueue == Spec => NeverQueuedAgain
<1> DEFINE Left == \A r \in Elems(rows) :
              r.st # "Pending" /\ Has(rows', r.id) => Of(rows', r.id).st # "Pending"
<1>1. IInv /\ [Next]_vars => Left
  <2> SUFFICES ASSUME IInv, [Next]_vars
               PROVE  Left
    OBVIOUS
  <2>1. Keeps(rows, rows')
    BY StepKeeps
  <2> QED
    BY <2>1, OfHas DEF Keeps, Durable
<1> HIDE DEF Left
<1>2. [][Left]_vars => NeverQueuedAgain
  BY DEF NeverQueuedAgain, Left
<1> QED
  BY <1>1, <1>2, AlwaysFine, PTL DEF Spec

-----------------------------------------------------------------------------
(* One agent.  Every handler but the start of an agent, the record of its  *)
(* identity and the sweep leaves the run row and the agents of the other   *)
(* hosts alone, and starts no agent.                                       *)

(* What c has of k. *)
Held(k, c) ==
    /\ {"host", "agents", "run", "alive", "crashed", "ok"} \subseteq DOMAIN c
    /\ c.host = k.host /\ c.agents = k.agents /\ c.run = k.run
    /\ c.alive /\ ~c.crashed => k.alive /\ ~k.crashed

LEMMA SameHeld ==
    ASSUME NEW k, NEW c, Held(k, c),
           NEW d, {"host", "agents", "run", "alive", "crashed", "ok"} \subseteq DOMAIN d,
           d.host = c.host, d.agents = c.agents, d.run = c.run,
           d.alive = c.alive, d.crashed = c.crashed
    PROVE  Held(k, d)
  BY DEF Held

(* Fields that the agents do not depend on. *)
LEMMA OtherFieldsHeld ==
    ASSUME NEW k, NEW c, Held(k, c), NEW v, NEW w
    PROVE  /\ Held(k, [c EXCEPT !.ok = v])
           /\ Held(k, [c EXCEPT !.lost = v])
           /\ Held(k, [c EXCEPT !.rows = v])
           /\ Held(k, [c EXCEPT !.sent = v])
           /\ Held(k, [c EXCEPT !.s = v])
           /\ Held(k, [c EXCEPT !.rows = v, !.s.ledger = w])
           /\ Held(k, [c EXCEPT !.rows = v, !.s.ledger = w, !.s.backlog = FALSE,
                                !.s.fault = FALSE])
           /\ Held(k, [c EXCEPT !.s.backlog = v, !.s.fault = v])
  BY DEF Held

LEMMA SessionFieldsHeld ==
    ASSUME NEW k, NEW c, Held(k, c), NEW v
    PROVE  /\ Held(k, [c EXCEPT !.s.active = v])
           /\ Held(k, [c EXCEPT !.s.active = v, !.s.pending = None])
           /\ Held(k, [c EXCEPT !.s.active = v, !.s.chan = None])
           /\ Held(k, [c EXCEPT !.ok = TRUE, !.s.active = v, !.s.chan = None])
           /\ Held(k, [c EXCEPT !.s.active.cancel = v])
           /\ Held(k, [c EXCEPT !.s.pending = v])
           /\ Held(k, [c EXCEPT !.s.queue = v])
           /\ Held(k, [c EXCEPT !.s.fault = v])
           /\ Held(k, [c EXCEPT !.s.chan = v])
           /\ Held(k, [c EXCEPT !.s.slot = v])
           /\ Held(k, [c EXCEPT !.s.slot = v, !.s.reconciled = FALSE])
           /\ Held(k, [c EXCEPT !.s.reconciled = v])
           /\ Held(k, [c EXCEPT !.s.loaded = v])
           /\ Held(k, [c EXCEPT !.s.path = v])
           /\ Held(k, [c EXCEPT !.s.holders = v])
  BY DEF Held

LEMMA ResultHeld ==
    ASSUME NEW k, NEW c, Held(k, c)
    PROVE  /\ Held(k, Accepted(c))
           /\ Held(k, Rejected(c))
           /\ Held(k, Crashed(c))
           /\ Held(k, MarkExited(c))
           /\ Held(k, NoteExit(c))
           /\ Held(k, Kill(c))
           /\ \A d \in Faulty(c) : Held(k, d)
<1>1. Held(k, Accepted(c)) /\ Held(k, Rejected(c))
  BY DEF Held, Accepted, Rejected
<1>2. Held(k, Crashed(c))
  BY DEF Held, Crashed
<1>3. Held(k, MarkExited(c))
  BY SessionFieldsHeld DEF MarkExited
<1>4. Held(k, NoteExit(c))
  BY <1>3 DEF NoteExit
<1>5. Held(k, Kill(c))
  BY DEF Held, Kill
<1>6. \A d \in Faulty(c) : Held(k, d)
  BY DEF Held, Faulty
<1> QED
  BY <1>1, <1>2, <1>3, <1>4, <1>5, <1>6

LEMMA StoreHeld ==
    ASSUME NEW k, NEW c, Held(k, c)
    PROVE  \A d \in Write(c) \cup Read(c) \cup Log(c) \cup Note(c) \cup MaybeLog(c)
                    \cup Spawn(c) \cup RejectForeignLiveChild(c) : Held(k, d)
<1>1. \A d \in Write(c) : Held(k, d)
  <2>1. \A g \in c.peers : Held(k, [c EXCEPT !.ok = FALSE, !.owner = g, !.claimed[g] = TRUE])
    BY DEF Held
  <2> QED
    BY <2>1, ResultHeld DEF Write
<1>2. \A d \in Read(c) \cup Spawn(c) : Held(k, d)
  BY ResultHeld DEF Read, Spawn
<1>3. \A d \in Log(c) : Held(k, d)
  <2> SUFFICES ASSUME NEW w \in Write(c)
               PROVE  Held(k, [w EXCEPT !.s.backlog = ~w.ok, !.s.fault = ~w.ok])
    BY DEF Log
  <2> DEFINE v == ~w.ok
  <2> HIDE DEF v
  <2>1. Held(k, [w EXCEPT !.s.backlog = v, !.s.fault = v])
    BY <1>1, OtherFieldsHeld
  <2> QED
    BY <2>1 DEF v
<1>4. \A d \in Note(c) \cup MaybeLog(c) : Held(k, d)
  BY <1>3, ResultHeld DEF Note, MaybeLog
<1>5. \A d \in RejectForeignLiveChild(c) : Held(k, d)
  BY <1>2, ResultHeld DEF RejectForeignLiveChild
<1> QED
  BY <1>1, <1>2, <1>3, <1>4, <1>5

LEMMA CommitHeld ==
    ASSUME NEW k, NEW c, Held(k, c), NEW l, NEW events
    PROVE  \A d \in Commit(c, l) \cup CommitWithEvents(c, l, events) : Held(k, d)
<1>1. \A w \in Read(c) \cup Write(c) : Held(k, w)
  BY StoreHeld
<1>2. \A w \in Read(c) \cup Write(c) :
         /\ Held(k, [w EXCEPT !.rows = PlanApply(@, l), !.s.ledger = l])
         /\ Held(k, [w EXCEPT !.rows = PlanApply(@, l), !.s.ledger = l,
                              !.s.backlog = FALSE, !.s.fault = FALSE])
  BY <1>1, OtherFieldsHeld
<1>3. \A d \in Commit(c, l) : Held(k, d)
  <2> SUFFICES ASSUME NEW d \in Commit(c, l), d # Rejected(c)
               PROVE  Held(k, d)
    BY ResultHeld
  <2>1. PICK w \in Read(c) \cup Write(c) :
           d = IF w.ok THEN [w EXCEPT !.rows = PlanApply(@, l), !.s.ledger = l] ELSE w
    BY DEF Commit
  <2> QED
    BY <1>1, <1>2, <2>1
<1>4. \A d \in CommitWithEvents(c, l, events) : Held(k, d)
  <2> SUFFICES ASSUME NEW d \in CommitWithEvents(c, l, events), d # Rejected(c)
               PROVE  Held(k, d)
    BY ResultHeld
  <2>1. PICK w \in Read(c) \cup Write(c) :
           d = IF w.ok
               THEN [w EXCEPT !.rows = PlanApply(@, l), !.s.ledger = l,
                              !.s.backlog = FALSE, !.s.fault = FALSE]
               ELSE w
    BY DEF CommitWithEvents
  <2> QED
    BY <1>1, <1>2, <2>1
<1> QED
  BY <1>3, <1>4

LEMMA FinalizeHeld ==
    ASSUME NEW k, NEW c, Held(k, c)
    PROVE  \A d \in Finalize(c) : Held(k, d)
<1> SUFFICES ASSUME NEW d \in Finalize(c), d # c
             PROVE  Held(k, d)
  OBVIOUS
<1> DEFINE events == TRUE
<1>1. PICK l : \E e \in CommitWithEvents(c, l, events) :
         d \in IF e.ok THEN {[e EXCEPT !.s.active = None]}
               ELSE IF e.s.backlog THEN {e} ELSE MaybeLog(e)
  BY DEF Finalize
<1> HIDE DEF events
<1>2. PICK e \in CommitWithEvents(c, l, events) :
         d = [e EXCEPT !.s.active = None] \/ d = e \/ d \in MaybeLog(e)
  BY <1>1
<1>3. Held(k, e)
  BY CommitHeld
<1>4. Held(k, [e EXCEPT !.s.active = None]) /\ \A f \in MaybeLog(e) : Held(k, f)
  BY <1>3, SessionFieldsHeld, StoreHeld
<1> QED
  BY <1>2, <1>3, <1>4

LEMMA InterruptActiveHeld ==
    ASSUME NEW k, NEW c, Held(k, c)
    PROVE  \A d \in InterruptActive(c) : Held(k, d)
<1> DEFINE l == MarkInterrupted(c.s.ledger, c.s.active.id)
           idle == {IF d.ok THEN [d EXCEPT !.s.active = None] ELSE d : d \in Commit(c, l)}
           ended == {[d EXCEPT !.ok = d.s.active = None] : d \in Finalize(c)}
<1>1. InterruptActive(c) \in {{Accepted(c)}, ended, idle}
  BY DEF InterruptActive
<1> HIDE DEF l
<1>2. \A d \in idle : Held(k, d)
  <2>1. \A d \in Commit(c, l) : Held(k, d)
    BY CommitHeld
  <2>2. \A d : Held(k, d) => Held(k, [d EXCEPT !.s.active = None])
    BY DEF Held
  <2> QED
    BY <2>1, <2>2
<1>3. \A d \in ended : Held(k, d)
  <2> SUFFICES ASSUME NEW d \in Finalize(c)
               PROVE  Held(k, [d EXCEPT !.ok = d.s.active = None])
    OBVIOUS
  <2> DEFINE v == d.s.active = None
  <2> HIDE DEF v
  <2>1. Held(k, [d EXCEPT !.ok = v])
    BY FinalizeHeld, OtherFieldsHeld
  <2> QED
    BY <2>1 DEF v
<1> HIDE DEF idle, ended
<1> QED
  BY <1>1, <1>2, <1>3, ResultHeld

LEMMA BeginHeld ==
    ASSUME NEW k, NEW c, Held(k, c), NEW q
    PROVE  \A d \in Begin(c, q) : Held(k, d)
<1> DEFINE begun == [c EXCEPT !.ok = TRUE, !.s.active = Active(q.id, None), !.s.chan = None]
           retained(d) == [d EXCEPT !.s.active = Active(q.id, "failed"), !.s.chan = None]
           delivered(d) == [d EXCEPT !.sent = Append(@, q)]
           failed(d) == {Rejected(e) : e \in Finalize(retained(d))}
<1>1. Held(k, begun)
  BY SessionFieldsHeld
<1>2. \A d : Held(k, d) => Held(k, delivered(d))
  BY OtherFieldsHeld
<1>3. \A d : Held(k, d) => \A e \in failed(d) : Held(k, e)
  <2>1. \A d : Held(k, d) => Held(k, retained(d))
    BY SessionFieldsHeld
  <2> HIDE DEF retained
  <2>2. \A d : Held(k, d) => \A e \in Finalize(retained(d)) : Held(k, e)
    BY <2>1, FinalizeHeld
  <2> QED
    BY <2>2, ResultHeld
<1> DEFINE failures == IF c.alive THEN UNION {{d, delivered(d)} : d \in Faulty(c)} ELSE {c}
<1>4. Begin(c, q) \subseteq
         {c, Crashed(c), delivered(begun), begun} \cup UNION {failed(d) : d \in failures}
  BY DEF Begin
<1> HIDE DEF begun, delivered, failed
<1>5. \A d \in failures : Held(k, d)
  BY <1>2, ResultHeld
<1> QED
  BY <1>1, <1>2, <1>3, <1>4, <1>5, ResultHeld

LEMMA TryDispatchHeld ==
    ASSUME NEW k, NEW c, Held(k, c)
    PROVE  \A d \in TryDispatch(c) : Held(k, d)
<1> DEFINE n == NoteExit(c)
           q == Head(n.s.queue)
           l == MarkDispatching(n.s.ledger, q.id)
           begun == UNION {IF e.ok THEN {Accepted(f) : f \in Begin(e, q)} ELSE {e} :
                              e \in Commit(n, l)}
           next(e) == IF e.ok THEN {[e EXCEPT !.s.queue = Tail(@)]} ELSE MaybeLog(e)
<1>1. TryDispatch(c) \in {{c}, {n}, UNION {next(e) : e \in DispatchQueued(n, q)}}
  BY DEF TryDispatch
<1>2. DispatchQueued(n, q) \in {{Rejected(n)}, begun}
  BY DEF DispatchQueued, Then
<1>3. Held(k, n)
  BY ResultHeld
<1> HIDE DEF n, q, l
<1>4. \A e \in begun : Held(k, e)
  <2>1. \A e \in Commit(n, l) : Held(k, e)
    BY <1>3, CommitHeld
  <2>2. \A e \in Commit(n, l) : \A f \in Begin(e, q) : Held(k, Accepted(f))
    BY <2>1, BeginHeld, ResultHeld
  <2> QED
    BY <2>1, <2>2
<1> HIDE DEF begun
<1>5. \A e \in DispatchQueued(n, q) : Held(k, e)
  BY <1>2, <1>3, <1>4, ResultHeld
<1>6. \A e : Held(k, e) => \A d \in next(e) : Held(k, d)
  <2>1. \A e : Held(k, e) => Held(k, [e EXCEPT !.s.queue = Tail(@)])
    BY DEF Held
  <2> QED
    BY <2>1, StoreHeld
<1> HIDE DEF next
<1> QED
  BY <1>1, <1>3, <1>5, <1>6

LEMMA RetryPendingHeld ==
    ASSUME NEW k, NEW c, Held(k, c)
    PROVE  \A d \in RetryPending(c) : Held(k, d)
<1> DEFINE l == MarkInterrupted(c.s.ledger, c.s.pending)
           idle(e) == [e EXCEPT !.s.active = None, !.s.pending = None]
           settled(d) == UNION {TryDispatch(idle(e)) : e \in Note(d)}
           after(d) == IF d.ok THEN settled(d) ELSE MaybeLog(d)
<1>1. RetryPending(c) \in {{c}, UNION {after(d) : d \in Commit(c, l)}}
  BY DEF RetryPending, Anyway
<1> HIDE DEF l
<1>2. \A e : Held(k, e) => Held(k, idle(e))
  BY SessionFieldsHeld
<1> HIDE DEF idle
<1>3. \A d : Held(k, d) => \A e \in settled(d) : Held(k, e)
  <2> SUFFICES ASSUME NEW d, Held(k, d), NEW e \in Note(d), NEW f \in TryDispatch(idle(e))
               PROVE  Held(k, f)
    OBVIOUS
  <2>1. Held(k, e)
    BY StoreHeld
  <2> QED
    BY <1>2, <2>1, TryDispatchHeld
<1> HIDE DEF settled
<1>4. \A d : Held(k, d) => \A e \in after(d) : Held(k, e)
  BY <1>3, StoreHeld
<1> HIDE DEF after
<1>5. \A d \in Commit(c, l) : Held(k, d)
  BY CommitHeld
<1> QED
  BY <1>1, <1>4, <1>5

LEMMA InterruptAfterExitHeld ==
    ASSUME NEW k, NEW c, Held(k, c), NEW id
    PROVE  \A d \in InterruptAfterExit(c, id) : Held(k, d)
<1> DEFINE l == MarkInterrupted(c.s.ledger, id)
           idle(d) == {[e EXCEPT !.s.active = None, !.s.pending = None] : e \in Note(d)}
           waits(d) == MaybeLog([d EXCEPT !.s.pending = id])
<1>1. InterruptAfterExit(c, id) =
         UNION {IF d.ok THEN idle(d) ELSE waits(d) : d \in Commit(c, l)}
  BY DEF InterruptAfterExit
<1> HIDE DEF l
<1>2. \A d : Held(k, d) => \A e \in idle(d) : Held(k, e)
  <2>1. \A d : Held(k, d) => \A e \in Note(d) : Held(k, e)
    BY StoreHeld
  <2>2. \A e : Held(k, e) => Held(k, [e EXCEPT !.s.active = None, !.s.pending = None])
    BY DEF Held
  <2> QED
    BY <2>1, <2>2
<1>3. \A d : Held(k, d) => \A e \in waits(d) : Held(k, e)
  BY SessionFieldsHeld, StoreHeld
<1> HIDE DEF idle, waits
<1>4. \A d \in Commit(c, l) : Held(k, d)
  BY CommitHeld
<1> QED
  BY <1>1, <1>2, <1>3, <1>4

LEMMA ReconcileHeld ==
    ASSUME NEW k, NEW c, Held(k, c)
    PROVE  \A d \in Reconcile(c) : Held(k, d)
<1> DEFINE m == MarkExited([c EXCEPT !.s.reconciled = TRUE])
           late(e, id) == UNION {IF e.s.active.term \in {"ok", "cancelled"} THEN {f}
                                 ELSE InterruptAfterExit(f, id) : f \in Finalize(e)}
           ended(e) == IF e.s.active = None THEN {e} ELSE late(e, e.s.active.id)
<1>1. Reconcile(c) = UNION {ended(e) : e \in MaybeLog(m)}
  BY DEF Reconcile, Anyway
<1>2. Held(k, m)
  BY SessionFieldsHeld, ResultHeld
<1> HIDE DEF m
<1>3. \A e \in MaybeLog(m) : Held(k, e)
  BY <1>2, StoreHeld
<1>4. \A e, id : Held(k, e) => \A f \in late(e, id) : Held(k, f)
  BY FinalizeHeld, InterruptAfterExitHeld
<1> HIDE DEF late
<1>5. \A e : Held(k, e) => \A f \in ended(e) : Held(k, f)
  BY <1>4, FinalizeHeld
<1> HIDE DEF ended
<1> QED
  BY <1>1, <1>3, <1>5

LEMMA PumpHeld ==
    ASSUME NEW k, NEW c, Held(k, c)
    PROVE  \A d \in Pump(c) : Held(k, d)
<1> DEFINE gone(f) == {IF f.alive THEN g ELSE MarkExited(g) : g \in Finalize(f)}
           ended(f) == IF ~f.alive /\ ~f.s.reconciled THEN Reconcile(f) ELSE gone(f)
           moved(f) == UNION {TryDispatch(g) : g \in ended(f)}
           logged(e) == UNION {MaybeLog(n) : n \in Drain(e)}
           rest(e) == IF ~HasClient(e) THEN {e} ELSE UNION {moved(f) : f \in logged(e)}
<1>1. Pump(c) = UNION {rest(e) : e \in RetryPending(c)}
  BY DEF Pump, Anyway
<1>2. \A f : Held(k, f) => \A g \in gone(f) : Held(k, g)
  BY FinalizeHeld, ResultHeld
<1> HIDE DEF gone
<1>3. \A f : Held(k, f) => \A g \in ended(f) : Held(k, g)
  BY <1>2, FinalizeHeld, ReconcileHeld
<1> HIDE DEF ended
<1>4. \A f : Held(k, f) => \A g \in moved(f) : Held(k, g)
  BY <1>3, TryDispatchHeld
<1> HIDE DEF moved
<1>5. \A e : Held(k, e) => \A n \in Drain(e) : Held(k, n)
  <2> SUFFICES ASSUME NEW e, Held(k, e), NEW n \in Drain(e)
               PROVE  Held(k, n)
    OBVIOUS
  <2> DEFINE a == IF e.s.active = None \/ e.s.active.term # None THEN e.s.active
                  ELSE [e.s.active EXCEPT !.term = Outcome(e.s.chan, e.s.active.cancel)]
  <2>1. n = e \/ n = [e EXCEPT !.s.chan = None,
                       !.s.active = IF @ = None \/ @.term # None THEN @
                                    ELSE [@ EXCEPT !.term = Outcome(e.s.chan, e.s.active.cancel)]]
    BY DEF Drain
  <2> QED
    BY <2>1 DEF Held
<1>6. \A e : Held(k, e) => \A n \in logged(e) : Held(k, n)
  BY <1>5, StoreHeld
<1> HIDE DEF logged
<1>7. \A e : Held(k, e) => \A f \in rest(e) : Held(k, f)
  BY <1>4, <1>6
<1> HIDE DEF rest
<1> QED
  BY <1>1, <1>7, RetryPendingHeld

LEMMA RecoverHeld ==
    ASSUME NEW k, NEW c, Held(k, c)
    PROVE  \A d \in Recover(c) \cup AdoptStored(c) : Held(k, d)
<1> DEFINE ledger(e) == RecoverAfterRestart(LedgerFromRows(e.rows))
           loaded(e) == [e EXCEPT !.s.ledger = ledger(e), !.s.unusable = FALSE]
           restored(e, f) == [f EXCEPT !.s.queue = QueueOf(ledger(e))]
           noted(e, f) == IF f.ok THEN Note(restored(e, f)) ELSE {f}
           committed(e) == UNION {noted(e, f) : f \in Commit(loaded(e), ledger(e))}
           after(e) == IF ledger(e) = LedgerFromRows(e.rows)
                       THEN {restored(e, loaded(e))} ELSE committed(e)
           readAgain(r) == UNION {IF e.ok THEN after(e) ELSE {e} : e \in Read(r)}
           rest(r) == IF r.s.pending # None \/ r.s.active # None THEN {Rejected(r)}
                      ELSE readAgain(r)
<1>1. Recover(c) = UNION {rest(r) : r \in RetryPending(c)}
  BY DEF Recover, Anyway, Then
<1>2. \A e : Held(k, e) => Held(k, loaded(e))
  BY DEF Held
<1> HIDE DEF loaded
<1>3. \A e, f : Held(k, f) => Held(k, restored(e, f))
  BY SessionFieldsHeld
<1> HIDE DEF restored
<1>4. \A e, f : Held(k, f) => \A g \in noted(e, f) : Held(k, g)
  BY <1>3, StoreHeld
<1> HIDE DEF noted, ledger
<1>5. \A e : Held(k, e) => \A g \in committed(e) : Held(k, g)
  BY <1>2, <1>4, CommitHeld
<1> HIDE DEF committed
<1>6. \A e : Held(k, e) => \A g \in after(e) : Held(k, g)
  BY <1>2, <1>3, <1>5
<1> HIDE DEF after
<1>7. \A r : Held(k, r) => \A g \in readAgain(r) : Held(k, g)
  BY <1>6, StoreHeld
<1> HIDE DEF readAgain
<1>8. \A r : Held(k, r) => \A g \in rest(r) : Held(k, g)
  BY <1>7, ResultHeld
<1> HIDE DEF rest
<1>9. \A d \in Recover(c) : Held(k, d)
  BY <1>1, <1>8, RetryPendingHeld
<1>10. \A d \in AdoptStored(c) : Held(k, d)
  <2>1. \A d : Held(k, d) => Held(k, [d EXCEPT !.s.loaded = TRUE])
    BY DEF Held
  <2> QED
    BY <1>9, <2>1 DEF AdoptStored
<1> QED
  BY <1>9, <1>10

(* The same of everything that writes, reads or answers.                   *)
LEMMA AllHeld ==
    ASSUME NEW k, NEW c, Held(k, c)
    PROVE  /\ \A d \in Write(c) \cup Read(c) \cup Log(c) \cup Note(c) \cup MaybeLog(c)
                       \cup RejectForeignLiveChild(c) \cup Spawn(c) \cup Faulty(c) : Held(k, d)
           /\ \A d \in {Accepted(c), Rejected(c), Crashed(c), MarkExited(c), NoteExit(c),
                        Kill(c)} : Held(k, d)
<1>1. \A d \in Write(c) \cup Read(c) \cup Log(c) \cup Note(c) \cup MaybeLog(c)
                \cup RejectForeignLiveChild(c) \cup Spawn(c) : Held(k, d)
  BY StoreHeld
<1>2. \A d \in Faulty(c) : Held(k, d)
  BY ResultHeld
<1>3. \A d \in {Accepted(c), Rejected(c), Crashed(c), MarkExited(c), NoteExit(c), Kill(c)} :
         Held(k, d)
  BY ResultHeld
<1> QED
  BY <1>1, <1>2, <1>3

LEMMA ReleaseLiveClientHeld ==
    ASSUME NEW k, NEW c, Held(k, c)
    PROVE  \A d \in ReleaseLiveClient(c) : Held(k, d)
<1> DEFINE aside == [c EXCEPT !.s.queue = <<>>]
           back(d) == [d EXCEPT !.s.queue = c.s.queue]
           cancelled(d) == IF d.s.active = None THEN d ELSE [d EXCEPT !.s.active.cancel = TRUE]
           answered(d) == {d} \cup IF d.alive /\ d.s.chan = None
                                   THEN {[d EXCEPT !.s.chan = a] : a \in Answers}
                                   ELSE {}
           interrupted(d) ==
               UNION {IF e.ok THEN IF d.s.active.term = None THEN Log(e) ELSE {e} ELSE {e} :
                         e \in InterruptActive(d)}
           settle(d) == IF d.s.active = None THEN {Accepted(d)} ELSE interrupted(d)
           awaiting(d) == UNION {UNION {settle(g) : g \in Pump(f)} :
                                   f \in UNION {MaybeLog(e) : e \in answered(d)}}
           asked(e) == IF e.s.active # None /\ e.s.active.term = None
                       THEN IF HasClient(e) THEN awaiting(e) ELSE {Accepted(e)}
                       ELSE InterruptActive(e)
           body(d) == IF d.s.pending # None THEN {Rejected(d)} ELSE asked(cancelled(d))
           killed(d) == IF ~HasClient(d) THEN {d} ELSE MaybeLog(Kill(d))
           released(d) == {[e EXCEPT !.s.reconciled = TRUE] : e \in killed(d)}
           settled == UNION {body(d) : d \in RetryPending(aside)}
           all == UNION {IF d.ok THEN released(d) ELSE {d} : d \in settled}
<1>1. ReleaseLiveClient(c) = {back(d) : d \in all}
  BY DEF ReleaseLiveClient, Then, Anyway
<1>2. Held(k, aside)
  BY DEF Held
<1>3. \A d : Held(k, d) => Held(k, cancelled(d))
  BY DEF Held
<1>4. \A d : Held(k, d) => \A e \in answered(d) : Held(k, e)
  <2> SUFFICES ASSUME NEW d, Held(k, d), NEW e \in answered(d)
               PROVE  Held(k, e)
    BY Zenon
  <2>1. e = d \/ \E a \in Answers : e = [d EXCEPT !.s.chan = a]
    OBVIOUS
  <2>2. \A a : Held(k, [d EXCEPT !.s.chan = a])
    BY DEF Held
  <2> QED
    BY <2>1, <2>2
<1>5. \A d : Held(k, d) => \A e \in interrupted(d) : Held(k, e)
  BY InterruptActiveHeld, AllHeld
<1> HIDE DEF interrupted
<1>6. \A d : Held(k, d) => \A e \in settle(d) : Held(k, e)
  BY <1>5, AllHeld
<1> HIDE DEF settle, answered
<1>7. \A d : Held(k, d) => \A e \in awaiting(d) : Held(k, e)
  <2> SUFFICES ASSUME NEW d, Held(k, d), NEW a \in answered(d), NEW f \in MaybeLog(a),
                      NEW g \in Pump(f), NEW e \in settle(g)
               PROVE  Held(k, e)
    OBVIOUS
  <2>1. Held(k, a)
    BY <1>4
  <2>2. Held(k, f)
    BY <2>1, AllHeld
  <2>3. Held(k, g)
    BY <2>2, PumpHeld
  <2> QED
    BY <1>6, <2>3
<1> HIDE DEF awaiting
<1>8. \A d : Held(k, d) => \A e \in asked(d) : Held(k, e)
  BY <1>7, AllHeld, InterruptActiveHeld
<1> HIDE DEF asked, cancelled
<1>9. \A d : Held(k, d) => \A e \in body(d) : Held(k, e)
  BY <1>3, <1>8, AllHeld
<1>10. \A d : Held(k, d) => \A e \in killed(d) : Held(k, e)
  BY AllHeld
<1> HIDE DEF body, killed
<1>11. \A d : Held(k, d) => \A e \in released(d) : Held(k, e)
  <2> SUFFICES ASSUME NEW e, Held(k, e)
               PROVE  Held(k, [e EXCEPT !.s.reconciled = TRUE])
    BY <1>10
  <2>1. Held(k, [e EXCEPT !.s.reconciled = TRUE])
    BY DEF Held
  <2> QED
    BY <2>1
<1> HIDE DEF released, aside
<1>12. \A d \in settled : Held(k, d)
  BY <1>2, <1>9, RetryPendingHeld
<1> HIDE DEF settled
<1>13. \A d \in all : Held(k, d)
  BY <1>11, <1>12
<1>14. \A d : Held(k, d) => Held(k, back(d))
  BY DEF Held
<1> HIDE DEF all, back
<1> QED
  BY <1>1, <1>13, <1>14

LEMMA FinalizeMetadataHeld ==
    ASSUME NEW k, NEW c, Held(k, c)
    PROVE  \A d \in FinalizeMetadata(c) : Held(k, d)
<1> SUFFICES ASSUME NEW d \in FinalizeMetadata(c)
             PROVE  Held(k, d)
  OBVIOUS
<1>1. PICK e \in Write(c) :
         d = e \/ \E f \in MaybeLog(e) : d = [f EXCEPT !.s.slot = "live", !.s.reconciled = FALSE]
  BY DEF FinalizeMetadata, Then
<1>2. Held(k, e)
  BY AllHeld
<1>3. ASSUME NEW f \in MaybeLog(e), d = [f EXCEPT !.s.slot = "live", !.s.reconciled = FALSE]
      PROVE  Held(k, d)
  <2>1. Held(k, f)
    BY <1>2, AllHeld
  <2> QED
    BY <1>3, <2>1 DEF Held
<1> QED
  BY <1>1, <1>2, <1>3

LEMMA UpdateQueuedHeld ==
    ASSUME NEW k, NEW c, Held(k, c), NEW id, NEW text
    PROVE  \A d \in UpdateQueued(c, id, text) : Held(k, d)
<1> DEFINE l == UpsertQueued(c.s.ledger, id, text)
           new == [id |-> id, text |-> text]
           edited(z) == [i \in DOMAIN z |-> IF z[i].id = id THEN new ELSE z[i]]
           updated(d) == [d EXCEPT !.s.queue =
                             [i \in DOMAIN @ |-> IF @[i].id = id THEN new ELSE @[i]]]
<1>1. UpdateQueued(c, id, text) =
         UNION {IF d.ok THEN Log(updated(d)) ELSE {d} : d \in Commit(c, l)}
  BY DEF UpdateQueued, Then
<1> HIDE DEF l
<1>2. \A d \in Commit(c, l) : Held(k, d)
  BY CommitHeld
<1>3. \A d : Held(k, d) => Held(k, updated(d))
  BY DEF Held
<1> HIDE DEF updated
<1>4. \A d \in Commit(c, l) : \A e \in Log(updated(d)) : Held(k, e)
  BY <1>2, <1>3, AllHeld
<1> QED
  BY <1>1, <1>2, <1>4

LEMMA WithdrawQueuedHeld ==
    ASSUME NEW k, NEW c, Held(k, c), NEW id
    PROVE  \A d \in WithdrawQueued(c, id) : Held(k, d)
<1> DEFINE l == RemoveEntry(c.s.ledger, id)
           left(d) == Keeping(d.s.queue, {q \in Elems(d.s.queue) : q.id # id})
           withdrawn(d) == [d EXCEPT !.s.queue = Keeping(@, {q \in Elems(@) : q.id # id})]
           all == UNION {IF d.ok THEN Log(withdrawn(d)) ELSE {d} : d \in Commit(c, l)}
<1>1. WithdrawQueued(c, id) = IF ~Has(c.s.ledger, id) THEN {Accepted(c)}
                              ELSE IF PhaseOf(c.s.ledger, id) # "Queued" THEN Log(c) ELSE all
  BY DEF WithdrawQueued, Then
<1>2. \A d : withdrawn(d) = [d EXCEPT !.s.queue = left(d)]
  OBVIOUS
<1> HIDE DEF l, left, withdrawn
<1>3. \A d : Held(k, d) => Held(k, withdrawn(d))
  <2>1. \A d : Held(k, d) => Held(k, [d EXCEPT !.s.queue = left(d)])
    BY DEF Held
  <2> QED
    BY <1>2, <2>1
<1>4. \A d \in Commit(c, l) : Held(k, d)
  BY CommitHeld
<1>5. \A d \in Commit(c, l) : \A e \in Log(withdrawn(d)) : Held(k, e)
  BY <1>3, <1>4, AllHeld
<1>6. \A d \in all : Held(k, d)
  BY <1>4, <1>5
<1> HIDE DEF all
<1> QED
  BY <1>1, <1>6, AllHeld

LEMMA AdmitPromptHeld ==
    ASSUME NEW k, NEW c, Held(k, c), NEW id, NEW text
    PROVE  \A d \in AdmitPrompt(c, id, text) : Held(k, d)
<1> DEFINE q == [id |-> id, text |-> text]
           l == UpsertQueued(c.s.ledger, id, text)
           m == MarkDispatching(l, id)
           events == TRUE
           begun == UNION {IF d.ok THEN Begin(d, q) ELSE {d} : d \in CommitWithEvents(c, m, events)}
           logged == UNION {IF d.ok THEN Log(d) ELSE {d} : d \in begun}
           added(d) == [d EXCEPT !.s.queue = Append(@, q)]
           waits == {IF d.ok THEN added(d) ELSE d : d \in CommitWithEvents(c, l, events)}
<1>1. AdmitPrompt(c, id, text) = IF c.s.active = None THEN logged
                                 ELSE IF Len(c.s.queue) >= MaxQueued THEN {Rejected(c)} ELSE waits
  BY DEF AdmitPrompt, Then
<1> HIDE DEF q, l, m, events
<1>2. \A d \in begun : Held(k, d)
  BY CommitHeld, BeginHeld
<1> HIDE DEF begun
<1>3. \A d \in logged : Held(k, d)
  BY <1>2, AllHeld
<1> HIDE DEF logged
<1>4. \A d : Held(k, d) => Held(k, added(d))
  BY DEF Held
<1> HIDE DEF added
<1>5. \A d \in waits : Held(k, d)
  BY <1>4, CommitHeld
<1> HIDE DEF waits
<1> QED
  BY <1>1, <1>3, <1>5, AllHeld

LEMMA SubmitPromptHeld ==
    ASSUME NEW k, NEW c, Held(k, c), NEW id, NEW text
    PROVE  \A d \in SubmitPrompt(c, id, text) : Held(k, d)
<1> DEFINE phase == PhaseOf(c.s.ledger, id)
           refused == {Rejected(d) : d \in Log(c)}
           known == phase \in {"Interrupted", "Queued", "Completed", "Dispatching"}
<1>1. \A d \in refused : Held(k, d)
  <2>1. \A d \in Log(c) : Held(k, d)
    BY AllHeld
  <2> QED
    BY <2>1, AllHeld
<1>2. SubmitPrompt(c, id, text) \subseteq
         {Rejected(c)} \cup WithdrawQueued(c, id) \cup refused
            \cup UpdateQueued(c, id, text) \cup Log(c) \cup AdmitPrompt(c, id, text)
  <2> DEFINE cases == CASE phase = "Interrupted" -> refused
                        [] phase = "Queued" -> UpdateQueued(c, id, text)
                        [] phase \in {"Completed", "Dispatching"} -> Log(c)
                        [] OTHER -> AdmitPrompt(c, id, text)
  <2>1. cases \in {refused, UpdateQueued(c, id, text), Log(c), AdmitPrompt(c, id, text)}
    <3> HIDE DEF phase, refused
    <3> QED
      OBVIOUS
  <2>2. SubmitPrompt(c, id, text) \in {{Rejected(c)}, WithdrawQueued(c, id), cases}
    BY DEF SubmitPrompt
  <2> HIDE DEF cases, refused
  <2> QED
    BY <2>1, <2>2
<1> HIDE DEF refused
<1> QED
  BY <1>1, <1>2, AllHeld, WithdrawQueuedHeld, UpdateQueuedHeld, AdmitPromptHeld

LEMMA CancelHeld ==
    ASSUME NEW k, NEW c, Held(k, c), NEW keepQueue
    PROVE  \A d \in Cancel(c, keepQueue) : Held(k, d)
<1> DEFINE l == RemoveQueued(c.s.ledger)
           emptied(d) == [d EXCEPT !.s.queue = <<>>]
           dropped == {IF d.ok THEN emptied(d) ELSE d : d \in Commit(c, l)}
           kept == IF keepQueue THEN {Accepted(c)} ELSE dropped
           asked(d) == IF ~HasClient(d) THEN {Rejected(d)}
                       ELSE Faulty(d) \cup {Accepted(d)} \cup IF d.alive THEN {} ELSE {Rejected(d)}
           cancelled(d) == IF d.s.active = None THEN d ELSE [d EXCEPT !.s.active.cancel = TRUE]
           first == UNION {IF d.ok THEN asked(d) ELSE {d} : d \in kept}
<1>1. Cancel(c, keepQueue) = UNION {IF d.ok THEN MaybeLog(cancelled(d)) ELSE {d} : d \in first}
  BY DEF Cancel, Then
<1> HIDE DEF l
<1>2. \A d : Held(k, d) => Held(k, emptied(d))
  BY DEF Held
<1> HIDE DEF emptied
<1>3. \A d \in dropped : Held(k, d)
  BY <1>2, CommitHeld
<1> HIDE DEF dropped
<1>4. \A d \in kept : Held(k, d)
  BY <1>3, AllHeld
<1> HIDE DEF kept
<1>5. \A d : Held(k, d) => \A e \in asked(d) : Held(k, e)
  BY AllHeld
<1> HIDE DEF asked
<1>6. \A d \in first : Held(k, d)
  BY <1>4, <1>5
<1> HIDE DEF first
<1>7. \A d : Held(k, d) => Held(k, cancelled(d))
  BY DEF Held
<1> HIDE DEF cancelled
<1> QED
  BY <1>1, <1>6, <1>7, AllHeld

LEMMA FlushHeld ==
    ASSUME NEW k, NEW c, Held(k, c)
    PROVE  \A d \in Flush(c) \cup RetryBacklog(c) : Held(k, d)
  BY FinalizeHeld, AllHeld DEF Flush, RetryBacklog

LEMMA ShutdownHeld ==
    ASSUME NEW k, NEW c, Held(k, c), NEW close
    PROVE  \A d \in Shutdown(c, close) : Held(k, d)
<1> DEFINE dropped(d) == IF close THEN Commit(d, RemoveQueued(d.s.ledger)) ELSE {d}
           killed(e) == IF HasClient(e) THEN MaybeLog(Kill(e)) ELSE {e}
           ended(d) == UNION {killed(e) : e \in dropped(d)}
<1>1. Shutdown(c, close) = UNION {ended(d) : d \in Flush(c)}
  BY DEF Shutdown, Anyway
<1>2. \A d : Held(k, d) => \A e \in dropped(d) : Held(k, e)
  BY CommitHeld
<1> HIDE DEF dropped
<1>3. \A e : Held(k, e) => \A d \in killed(e) : Held(k, d)
  BY AllHeld
<1> HIDE DEF killed
<1>4. \A d : Held(k, d) => \A e \in ended(d) : Held(k, e)
  BY <1>2, <1>3
<1> HIDE DEF ended
<1> QED
  BY <1>1, <1>4, FlushHeld

LEMMA RecoverInterruptedHeld ==
    ASSUME NEW k, NEW c, Held(k, c)
    PROVE  \A d \in RecoverInterrupted(c) : Held(k, d)
<1> DEFINE l == RecoverAfterRestart(LedgerFromRows(c.rows))
           applied(e) == [e EXCEPT !.rows = PlanApply(@, l)]
           saved(d) == IF l = LedgerFromRows(d.rows) THEN {d}
                       ELSE {IF e.ok THEN applied(e) ELSE e : e \in Write(d)}
<1>1. RecoverInterrupted(c) \in
         {{Accepted(c)}, UNION {IF d.ok THEN saved(d) ELSE {d} : d \in Read(c)}}
  BY DEF RecoverInterrupted, Then
<1> HIDE DEF l
<1>2. \A e : Held(k, e) => Held(k, applied(e))
  BY DEF Held
<1> HIDE DEF applied
<1>3. \A d : Held(k, d) => \A e \in saved(d) : Held(k, e)
  BY <1>2, AllHeld
<1> HIDE DEF saved
<1>4. Held(k, Accepted(c)) /\ \A d \in Read(c) : Held(k, d)
  BY AllHeld
<1>5. CASE RecoverInterrupted(c) = {Accepted(c)}
  BY <1>4, <1>5
<1>6. CASE RecoverInterrupted(c) = UNION {IF d.ok THEN saved(d) ELSE {d} : d \in Read(c)}
  BY <1>3, <1>4, <1>6
<1> QED
  BY <1>1, <1>5, <1>6

LEMMA SpawnActorHeld ==
    ASSUME NEW k, NEW c, Held(k, c)
    PROVE  \A d \in SpawnActor(c) : Held(k, d)
<1> DEFINE new(d) == [NoSession EXCEPT !.actor = TRUE, !.unusable = ~d.ok,
                          !.ledger = IF d.ok THEN LedgerFromRows(d.rows) ELSE <<>>]
<1>1. SpawnActor(c) = {[d EXCEPT !.s = new(d)] : d \in Read(c)}
  BY DEF SpawnActor
<1> HIDE DEF new
<1>2. \A d : Held(k, d) => Held(k, [d EXCEPT !.s = new(d)])
  BY DEF Held
<1> QED
  BY <1>1, <1>2, AllHeld

-----------------------------------------------------------------------------
(* The agents of the other hosts are where the run row says, and so is the *)
(* agent of this host, once its start is over.                             *)

Almost(h, c) ==
    /\ {"host", "agents", "run", "alive", "crashed", "ok"} \subseteq DOMAIN c
    /\ {"child", "boot"} \subseteq DOMAIN c.run
    /\ h \in Hosts /\ c.host = h
    /\ c.run.child \in Hosts => c.run.boot = c.run.child
    /\ \A g \in c.agents : g \in Hosts /\ g # h /\ g = c.run.child

Sole(h, c) ==
    /\ Almost(h, c)
    /\ c.alive /\ ~c.crashed => c.run.child = h

(* No other host has an agent.                                             *)
Alone(h, c) == Sole(h, c) /\ c.agents = {}

(* What reject_foreign_live_child has let through.                         *)
Checked(h, c) == Sole(h, c) /\ (c.ok => Alone(h, c))

(* An agent has been started, which is killed when a later step fails.     *)
Staged(h, c) == Almost(h, c) /\ (c.ok => Sole(h, c))

LEMMA HeldSole ==
    ASSUME NEW h, NEW k, NEW c, Held(k, c)
    PROVE  /\ Sole(h, k) => Sole(h, c)
           /\ Alone(h, k) => Alone(h, c)
  BY DEF Sole, Almost, Alone, Held

LEMMA SoleHeld == \A h, c : Sole(h, c) => Held(c, c)
  BY DEF Sole, Almost, Held

LEMMA AloneSole == \A h, c : Alone(h, c) => Sole(h, c) /\ Checked(h, c) /\ Staged(h, c)
  BY DEF Alone, Checked, Staged, Sole

LEMMA SoleFields ==
    ASSUME NEW h, NEW c, Sole(h, c), NEW v
    PROVE  /\ Sole(h, [c EXCEPT !.s.fault = v])
           /\ Sole(h, [c EXCEPT !.s.queue = v])
           /\ Sole(h, [c EXCEPT !.s.slot = v])
           /\ Sole(h, [c EXCEPT !.s.path = v])
           /\ Sole(h, [c EXCEPT !.s.holders = v])
           /\ Sole(h, [c EXCEPT !.lost = v])
           /\ Sole(h, [c EXCEPT !.s = v])
  BY DEF Sole, Almost

LEMMA AloneFields ==
    ASSUME NEW h, NEW c, Alone(h, c), NEW v
    PROVE  Alone(h, [c EXCEPT !.s.queue = v]) /\ Alone(h, [c EXCEPT !.s.fault = v])
  BY DEF Alone, Sole, Almost

(* One more client is attached. *)
LEMMA HoldersSole ==
    ASSUME NEW h, NEW c, Sole(h, c)
    PROVE  Sole(h, [c EXCEPT !.s.holders = @ + 1])
<1> DEFINE v == c.s.holders + 1
<1> HIDE DEF v
<1>1. Sole(h, [c EXCEPT !.s.holders = v])
  BY SoleFields
<1> QED
  BY <1>1 DEF v

(* What the handlers that start no agent do.                               *)
QuietSteps(c) ==
    Write(c) \cup Read(c) \cup Spawn(c) \cup Log(c) \cup Note(c) \cup MaybeLog(c) \cup Faulty(c)
       \cup {Accepted(c), Rejected(c), Crashed(c), NoteExit(c), Kill(c)}
       \cup RejectForeignLiveChild(c)
       \cup ReleaseLiveClient(c) \cup Recover(c) \cup AdoptStored(c) \cup FinalizeMetadata(c)
       \cup RetryPending(c) \cup TryDispatch(c) \cup Pump(c) \cup Flush(c) \cup RetryBacklog(c)

LEMMA QuietHeld ==
    ASSUME NEW k, NEW c, Held(k, c)
    PROVE  \A d \in QuietSteps(c) : Held(k, d)
<1>1. \A d \in Write(c) \cup Read(c) \cup Spawn(c) \cup Log(c) \cup Note(c) \cup MaybeLog(c)
                 \cup Faulty(c) \cup RejectForeignLiveChild(c) : Held(k, d)
  BY AllHeld
<1>2. \A d \in {Accepted(c), Rejected(c), Crashed(c), NoteExit(c), Kill(c)} : Held(k, d)
  BY AllHeld
<1>3. \A d \in ReleaseLiveClient(c) \cup FinalizeMetadata(c) : Held(k, d)
  BY ReleaseLiveClientHeld, FinalizeMetadataHeld
<1>4. \A d \in Recover(c) \cup AdoptStored(c) : Held(k, d)
  BY RecoverHeld
<1>5. \A d \in RetryPending(c) \cup TryDispatch(c) : Held(k, d)
  BY RetryPendingHeld, TryDispatchHeld
<1>6. \A d \in Pump(c) \cup Flush(c) \cup RetryBacklog(c) : Held(k, d)
  BY PumpHeld, FlushHeld
<1> QED
  BY <1>1, <1>2, <1>3, <1>4, <1>5, <1>6 DEF QuietSteps

LEMMA QuietSole ==
    ASSUME NEW h, NEW c, Sole(h, c)
    PROVE  /\ \A d \in QuietSteps(c) : Sole(h, d)
           /\ Alone(h, c) => \A d \in QuietSteps(c) : Alone(h, d)
  BY SoleHeld, QuietHeld, HeldSole

LEMMA CommitSole ==
    ASSUME NEW h, NEW c, Sole(h, c), NEW l, NEW events
    PROVE  /\ \A d \in Commit(c, l) \cup CommitWithEvents(c, l, events) : Sole(h, d)
           /\ Alone(h, c) =>
                 \A d \in Commit(c, l) \cup CommitWithEvents(c, l, events) : Alone(h, d)
  BY SoleHeld, CommitHeld, HeldSole

LEMMA SubmitSole ==
    ASSUME NEW h, NEW c, Sole(h, c), NEW id, NEW text
    PROVE  \A d \in SubmitPrompt(c, id, text) : Sole(h, d)
  BY SoleHeld, SubmitPromptHeld, HeldSole

(* A run of this host is its own child; a run of another that has an agent *)
(* is refused.                                                             *)
LEMMA RejectForeignChecked ==
    ASSUME NEW h, NEW c, Sole(h, c)
    PROVE  \A d \in RejectForeignLiveChild(c) : Checked(h, d)
<1> SUFFICES ASSUME NEW d \in RejectForeignLiveChild(c)
             PROVE  Checked(h, d)
  OBVIOUS
<1>1. PICK r \in Read(c) : d = IF r.ok /\ r.run.boot # c.host /\ r.run.child \in c.agents
                               THEN Rejected(r) ELSE r
  BY DEF RejectForeignLiveChild
<1>2. Sole(h, r) /\ Sole(h, Rejected(r))
  <2>1. Sole(h, r)
    BY QuietSole DEF QuietSteps
  <2> QED
    BY <2>1, QuietSole DEF QuietSteps
<1>3. r.agents = c.agents /\ c.host = h
  <2>1. Held(c, r)
    BY SoleHeld, QuietHeld DEF QuietSteps
  <2> QED
    BY <2>1 DEF Held, Sole, Almost
<1>4. CASE r.ok /\ r.run.boot # c.host /\ r.run.child \in c.agents
  <2>1. d = Rejected(r) /\ ~d.ok
    BY <1>1, <1>2, <1>4 DEF Rejected, Sole, Almost
  <2> QED
    BY <1>2, <2>1 DEF Checked
<1>5. CASE ~r.ok
  BY <1>1, <1>2, <1>5 DEF Checked
<1>6. CASE r.ok /\ (r.run.boot = c.host \/ r.run.child \notin c.agents)
  <2>1. r.agents = {}
    BY <1>2, <1>3, <1>6 DEF Sole, Almost
  <2> QED
    BY <1>1, <1>2, <1>6, <2>1 DEF Checked, Alone
<1> QED
  BY <1>4, <1>5, <1>6

(* The record of the identity makes the new agent the one of the run row.  *)
LEMMA RecordStaged ==
    ASSUME NEW h, NEW c, Alone(h, c)
    PROVE  \A d \in RecordChild(Install(c)) : Staged(h, d)
<1> DEFINE n == Install(c)
           named(d) == [d EXCEPT !.run = [child |-> n.host, boot |-> n.host]]
<1>1. RecordChild(n) = {IF d.ok THEN named(d) ELSE d : d \in Write(n)}
  BY DEF RecordChild
<1>2. n.agents = {} /\ n.host = h /\ Almost(h, n) /\ Held(n, n)
  BY DEF Install, Alone, Sole, Almost, Held
<1> HIDE DEF n
<1>3. \A d \in Write(n) : Held(n, d)
  BY <1>2, AllHeld
<1>4. ASSUME NEW d \in Write(n), d.ok
      PROVE  Staged(h, named(d))
  <2>1. Held(n, d)
    BY <1>3
  <2>2. Sole(h, named(d))
    BY <1>2, <2>1 DEF Held, Sole, Almost
  <2> QED
    BY <2>2 DEF Staged, Sole
<1>5. ASSUME NEW d \in Write(n), ~d.ok
      PROVE  Staged(h, d)
  <2>1. Held(n, d)
    BY <1>3
  <2> QED
    BY <1>2, <1>5, <2>1 DEF Held, Staged, Almost
<1> QED
  BY <1>1, <1>4, <1>5 DEF n

LEMMA QuietStaged ==
    ASSUME NEW h, NEW c, Staged(h, c), c.ok
    PROVE  \A d \in QuietSteps(c) : Staged(h, d)
  BY QuietSole DEF Staged, Sole

(* discard_staged_client and discard_unsaved_client. *)
LEMMA DiscardSole ==
    ASSUME NEW h, NEW S, \A d \in S : Staged(h, d)
    PROVE  \A d \in Discard(S) : Sole(h, d)
<1>1. \A d : Staged(h, d) => Sole(h, IF d.ok THEN d ELSE Kill(d))
  BY DEF Staged, Sole, Almost, Kill
<1> QED
  BY <1>1 DEF Discard

LEMMA InstallReplacedSole ==
    ASSUME NEW h, NEW c, Alone(h, c)
    PROVE  \A d \in InstallReplaced(c) : Sole(h, d)
<1> DEFINE recorded == RecordChild(Install(c))
           recovered == UNION {IF d.ok THEN Recover(d) ELSE {d} : d \in recorded}
           final == UNION {IF d.ok THEN FinalizeMetadata(d) ELSE {d} : d \in recovered}
           begun(d) == {Accepted(e) : e \in TryDispatch(d)}
<1>1. InstallReplaced(c) = UNION {IF d.ok THEN begun(d) ELSE {d} : d \in Discard(final)}
  BY DEF InstallReplaced, Then
<1>2. \A d \in recorded : Staged(h, d)
  BY RecordStaged
<1> HIDE DEF recorded
<1>3. \A d \in recovered : Staged(h, d)
  BY <1>2, QuietStaged DEF QuietSteps
<1> HIDE DEF recovered
<1>4. \A d \in final : Staged(h, d)
  BY <1>3, QuietStaged DEF QuietSteps
<1> HIDE DEF final
<1>5. \A d \in Discard(final) : Sole(h, d)
  BY <1>4, DiscardSole
<1>6. \A d : Sole(h, d) => \A e \in begun(d) : Sole(h, e)
  <2> SUFFICES ASSUME NEW d, Sole(h, d), NEW e \in TryDispatch(d)
               PROVE  Sole(h, Accepted(e))
    BY Zenon
  <2>1. Sole(h, e)
    BY QuietSole DEF QuietSteps
  <2> QED
    BY <2>1, QuietSole DEF QuietSteps
<1> HIDE DEF begun
<1> QED
  BY <1>1, <1>5, <1>6

(* The check for a foreign child, then the handshake with a new agent.     *)
LEMMA SpawnedChecked ==
    ASSUME NEW h, NEW S, \A d \in S : Sole(h, d)
    PROVE  \A e \in UNION {IF d.ok THEN Spawn(d) ELSE {d} :
                             d \in UNION {IF d.ok THEN RejectForeignLiveChild(d) ELSE {d} : d \in S}} :
              Checked(h, e)
<1> DEFINE checked == UNION {IF d.ok THEN RejectForeignLiveChild(d) ELSE {d} : d \in S}
<1>1. \A d \in checked : Checked(h, d)
  BY RejectForeignChecked DEF Checked
<1> HIDE DEF checked
<1>2. \A d \in checked : d.ok => \A e \in Spawn(d) : Checked(h, e)
  BY <1>1, AloneSole, QuietSole DEF Checked, QuietSteps
<1>3. \A e \in UNION {IF d.ok THEN Spawn(d) ELSE {d} : d \in checked} : Checked(h, e)
  BY <1>1, <1>2
<1> QED
  BY <1>3 DEF checked

LEMMA ReplacedSole ==
    ASSUME NEW h, NEW S, \A d \in S : Sole(h, d)
    PROVE  \A e \in UNION {IF d.ok THEN InstallReplaced(d) ELSE {d} :
              d \in UNION {IF d.ok THEN Spawn(d) ELSE {d} :
                 d \in UNION {IF d.ok THEN RejectForeignLiveChild(d) ELSE {d} : d \in S}}} :
              Sole(h, e)
<1> DEFINE spawned == UNION {IF d.ok THEN Spawn(d) ELSE {d} :
                         d \in UNION {IF d.ok THEN RejectForeignLiveChild(d) ELSE {d} : d \in S}}
<1>1. \A d \in spawned : Checked(h, d)
  BY SpawnedChecked
<1> HIDE DEF spawned
<1>2. \A e \in UNION {IF d.ok THEN InstallReplaced(d) ELSE {d} : d \in spawned} : Sole(h, e)
  BY <1>1, InstallReplacedSole DEF Checked
<1> QED
  BY <1>2 DEF spawned

LEMMA RespawnSole ==
    ASSUME NEW h, NEW c, Sole(h, c)
    PROVE  \A d \in Respawn(c) : Sole(h, d)
<1> DEFINE released == UNION {IF d.ok THEN ReleaseLiveClient(d) ELSE {d} : d \in Read(c)}
           checked == UNION {IF d.ok THEN RejectForeignLiveChild(d) ELSE {d} : d \in released}
           spawned == UNION {IF d.ok THEN Spawn(d) ELSE {d} : d \in checked}
           all == UNION {IF d.ok THEN InstallReplaced(d) ELSE {d} : d \in spawned}
<1>1. Respawn(c) = IF c.lost \/ ~HasClient(c) THEN {Rejected(c)} ELSE all
  BY DEF Respawn, Then
<1>2. \A d \in all : Sole(h, d)
  <2>1. \A d \in Read(c) : Sole(h, d)
    BY QuietSole DEF QuietSteps
  <2>2. \A d \in released : Sole(h, d)
    BY <2>1, QuietSole DEF QuietSteps
  <2> HIDE DEF released
  <2> QED
    BY <2>2, ReplacedSole
<1> HIDE DEF all
<1>3. Sole(h, Rejected(c))
  BY QuietSole DEF QuietSteps
<1> QED
  BY <1>1, <1>2, <1>3

LEMMA SwitchSole ==
    ASSUME NEW h, NEW c, Sole(h, c)
    PROVE  \A d \in Switch(c) : Sole(h, d)
<1> DEFINE events == FALSE
           given(d) == CommitWithEvents([d EXCEPT !.s.fault = FALSE],
                                        RemoveQueued(d.s.ledger), events)
           out(e) == ReleaseLiveClient([e EXCEPT !.s.queue = <<>>])
           saved(e) == UNION {IF f.ok THEN Write(f) ELSE {f} : f \in out(e)}
           retire(d) == UNION {IF e.ok THEN saved(e) ELSE {e} : e \in given(d)}
           kept(d) == UNION {IF e.ok THEN Write(e) ELSE {e} : e \in retire(d)}
           logged(d) == UNION {IF e.ok THEN Log(e) ELSE {e} : e \in kept(d)}
           spawned(d) == UNION {IF e.ok THEN Discard(RecordChild(Install(e))) ELSE {e} :
                                   e \in logged(d)}
           up(f) == MaybeLog([f EXCEPT !.s.slot = "live"])
           replaced(e) == UNION {IF f.ok THEN up(f) ELSE {f} : f \in spawned(e)}
           tried(d) == UNION {IF e.ok THEN replaced(e) ELSE {Rejected(f) : f \in Log(e)} :
                                 e \in Spawn(d)}
<1>1. Switch(c) = UNION {IF d.ok THEN tried(d) ELSE {d} : d \in RejectForeignLiveChild(c)}
  BY DEF Switch, Then
<1>2. \A d : Alone(h, d) => \A e \in given(d) : Alone(h, e)
  <2> SUFFICES ASSUME NEW d, Alone(h, d), NEW e \in given(d)
               PROVE  Alone(h, e)
    BY Zenon
  <2> DEFINE l == RemoveQueued(d.s.ledger)
             b == [d EXCEPT !.s.fault = FALSE]
  <2>1. Alone(h, b) /\ Sole(h, b)
    BY AloneFields, AloneSole
  <2>2. e \in CommitWithEvents(b, l, events)
    OBVIOUS
  <2> HIDE DEF b, l, events
  <2> QED
    BY <2>1, <2>2, CommitSole
<1> HIDE DEF given, events
<1>3. \A e : Alone(h, e) => \A f \in saved(e) : Alone(h, f)
  <2> SUFFICES ASSUME NEW e, Alone(h, e), NEW f \in out(e)
               PROVE  Alone(h, f) /\ \A g \in Write(f) : Alone(h, g)
    BY Zenon
  <2>1. Alone(h, [e EXCEPT !.s.queue = <<>>])
    BY AloneFields
  <2>2. Alone(h, f)
    BY <2>1, AloneSole, QuietSole DEF QuietSteps
  <2> QED
    BY <2>2, AloneSole, QuietSole DEF QuietSteps
<1> HIDE DEF saved
<1>4. \A d : Alone(h, d) => \A e \in retire(d) : Alone(h, e)
  BY <1>2, <1>3
<1> HIDE DEF retire
<1>5. \A d : Alone(h, d) => \A e \in kept(d) : Alone(h, e)
  BY <1>4, AloneSole, QuietSole DEF QuietSteps
<1> HIDE DEF kept
<1>6. \A d : Alone(h, d) => \A e \in logged(d) : Alone(h, e)
  BY <1>5, AloneSole, QuietSole DEF QuietSteps
<1> HIDE DEF logged
<1>7. \A d : Alone(h, d) => \A e \in spawned(d) : Sole(h, e)
  BY <1>6, AloneSole, RecordStaged, DiscardSole
<1> HIDE DEF spawned
<1>8. \A f : Sole(h, f) => \A g \in up(f) : Sole(h, g)
  BY SoleFields, QuietSole DEF QuietSteps
<1> HIDE DEF up
<1>9. \A d : Alone(h, d) => \A e \in replaced(d) : Sole(h, e)
  BY <1>7, <1>8
<1> HIDE DEF replaced
<1>10. \A d : Alone(h, d) => \A e \in tried(d) : Sole(h, e)
  <2> SUFFICES ASSUME NEW d, Alone(h, d), NEW e \in Spawn(d)
               PROVE  /\ \A g \in replaced(e) : Sole(h, g)
                      /\ \A f \in Log(e) : Sole(h, Rejected(f))
    OBVIOUS
  <2>1. Alone(h, e) /\ Sole(h, e)
    BY AloneSole, QuietSole DEF QuietSteps
  <2>2. \A f \in Log(e) : Sole(h, f)
    BY <2>1, QuietSole DEF QuietSteps
  <2>3. \A f \in Log(e) : Sole(h, Rejected(f))
    BY <2>2, QuietSole DEF QuietSteps
  <2> QED
    BY <1>9, <2>1, <2>3
<1> HIDE DEF tried
<1>11. \A d \in RejectForeignLiveChild(c) : Checked(h, d)
  BY RejectForeignChecked
<1> QED
  BY <1>1, <1>10, <1>11 DEF Checked

LEMMA FirstAcquireSole ==
    ASSUME NEW h, NEW c, Sole(h, c)
    PROVE  \A d \in FirstAcquire(c) : Sole(h, d)
<1> DEFINE checked == UNION {IF d.ok THEN RejectForeignLiveChild(d) ELSE {d} : d \in Read(c)}
           spawned == UNION {IF d.ok THEN Spawn(d) ELSE {d} : d \in checked}
           recorded(d) == RecordChild(Install(d))
           adopted(d) == UNION {IF e.ok THEN AdoptStored(e) ELSE {e} : e \in recorded(d)}
           final(d) == UNION {IF e.ok THEN FinalizeMetadata(e) ELSE {e} : e \in adopted(d)}
           begun(e) == {Accepted(f) : f \in TryDispatch([e EXCEPT !.s.holders = 1])}
           all(d) == UNION {IF e.ok THEN begun(e) ELSE {e} : e \in Discard(final(d))}
<1>1. FirstAcquire(c) = UNION {IF d.ok THEN all(d) ELSE {d} : d \in spawned}
  BY DEF FirstAcquire, Then
<1>2. \A d \in Read(c) : Sole(h, d)
  BY QuietSole DEF QuietSteps
<1>3. \A d \in spawned : Checked(h, d)
  <2> DEFINE read == Read(c)
  <2> HIDE DEF read
  <2> QED
    BY <1>2, SpawnedChecked DEF read
<1> HIDE DEF spawned
<1>4. \A d : Alone(h, d) => \A e \in recorded(d) : Staged(h, e)
  BY RecordStaged
<1> HIDE DEF recorded
<1>5. \A d : Alone(h, d) => \A e \in adopted(d) : Staged(h, e)
  BY <1>4, QuietStaged DEF QuietSteps
<1> HIDE DEF adopted
<1>6. \A d : Alone(h, d) => \A e \in final(d) : Staged(h, e)
  BY <1>5, QuietStaged DEF QuietSteps
<1> HIDE DEF final
<1>7. \A d : Alone(h, d) => \A e \in Discard(final(d)) : Sole(h, e)
  BY <1>6, DiscardSole
<1>8. \A e : Sole(h, e) => \A f \in begun(e) : Sole(h, f)
  <2> SUFFICES ASSUME NEW e, Sole(h, e), NEW f \in TryDispatch([e EXCEPT !.s.holders = 1])
               PROVE  Sole(h, Accepted(f))
    BY Zenon
  <2>1. Sole(h, [e EXCEPT !.s.holders = 1])
    BY SoleFields
  <2>2. Sole(h, f)
    BY <2>1, QuietSole DEF QuietSteps
  <2> QED
    BY <2>2, QuietSole DEF QuietSteps
<1> HIDE DEF begun
<1>9. \A d : Alone(h, d) => \A e \in all(d) : Sole(h, e)
  BY <1>7, <1>8
<1> HIDE DEF all
<1> QED
  BY <1>1, <1>3, <1>9 DEF Checked

LEMMA AcquireSole ==
    ASSUME NEW h, NEW c, Sole(h, c), NEW other
    PROVE  \A d \in Acquire(c, other) : Sole(h, d)
<1> DEFINE b == [c EXCEPT !.s.path = TRUE]
           held(S) == {IF e.ok THEN [e EXCEPT !.s.holders = @ + 1] ELSE e : e \in S}
           released == UNION {IF d.ok THEN ReleaseLiveClient(d) ELSE {d} : d \in Read(b)}
           checked == UNION {IF d.ok THEN RejectForeignLiveChild(d) ELSE {d} : d \in released}
           spawned == UNION {IF d.ok THEN Spawn(d) ELSE {d} : d \in checked}
           replaced == UNION {IF d.ok THEN InstallReplaced(d) ELSE {d} : d \in spawned}
<1>1. Acquire(c, other) = IF c.lost THEN {Rejected(c)}
                          ELSE IF ~HasClient(c) THEN FirstAcquire(b)
                          ELSE IF other THEN held(Switch(b))
                          ELSE IF Healthy(c) THEN held({Accepted(b)})
                          ELSE held(replaced)
  BY DEF Acquire, Then
<1>2. Sole(h, b)
  BY SoleFields
<1> HIDE DEF b
<1>3. \A d \in replaced : Sole(h, d)
  <2>1. \A d \in Read(b) : Sole(h, d)
    BY <1>2, QuietSole DEF QuietSteps
  <2>2. \A d \in released : Sole(h, d)
    BY <2>1, QuietSole DEF QuietSteps
  <2> HIDE DEF released
  <2> QED
    BY <2>2, ReplacedSole
<1> HIDE DEF replaced
<1>4. \A S : (\A d \in S : Sole(h, d)) => \A d \in held(S) : Sole(h, d)
  BY HoldersSole
<1> HIDE DEF held
<1>5. \A d \in held(Switch(b)) \cup held({Accepted(b)}) \cup held(replaced) : Sole(h, d)
  <2>1. \A d \in Switch(b) : Sole(h, d)
    BY <1>2, SwitchSole
  <2>2. \A d \in {Accepted(b)} : Sole(h, d)
    BY <1>2, QuietSole DEF QuietSteps
  <2> QED
    BY <1>3, <1>4, <2>1, <2>2
<1>6. \A d \in FirstAcquire(b) : Sole(h, d)
  BY <1>2, FirstAcquireSole
<1>7. Sole(h, Rejected(c))
  BY QuietSole DEF QuietSteps
<1> QED
  BY <1>1, <1>5, <1>6, <1>7

LEMMA KeepingHoldersSole ==
    ASSUME NEW h, NEW c, Sole(h, c)
    PROVE  \A d \in AcquireKeepingHolders(c) : Sole(h, d)
<1> DEFINE other == FALSE
<1> HIDE DEF other
<1>1. \A d \in Acquire(c, other) : Sole(h, d)
  BY AcquireSole
<1>2. \A d \in Acquire(c, other) : Sole(h, [d EXCEPT !.s.holders = c.s.holders])
  BY <1>1, SoleFields
<1> QED
  BY <1>2 DEF AcquireKeepingHolders, other

LEMMA ReviveSole ==
    ASSUME NEW h, NEW c, Sole(h, c)
    PROVE  \A d \in Revive(c) : Sole(h, d)
  BY KeepingHoldersSole, QuietSole DEF QuietSteps, Revive

LEMMA ClearContextSole ==
    ASSUME NEW h, NEW c, Sole(h, c), NEW takeHolder
    PROVE  \A d \in ClearContext(c, takeHolder) : Sole(h, d)
<1> DEFINE events == FALSE
           loaded == IF c.s.loaded THEN {Accepted(c)}
                     ELSE UNION {IF d.ok THEN AdoptStored(d) ELSE {d} : d \in Read(c)}
           given(d) == CommitWithEvents([d EXCEPT !.s.fault = FALSE],
                                        RemoveQueued(d.s.ledger), events)
           emptied(d) == {[e EXCEPT !.s.queue = IF e.ok THEN <<>> ELSE @] : e \in given(d)}
           known == UNION {IF d.ok THEN emptied(d) ELSE {d} : d \in loaded}
           released == UNION {IF d.ok THEN ReleaseLiveClient(d) ELSE {d} : d \in known}
           checked(d) == UNION {IF e.ok THEN RejectForeignLiveChild(e) ELSE {e} : e \in Write(d)}
           spawned(d) == UNION {IF e.ok THEN Spawn(e) ELSE {e} : e \in checked(d)}
           saved(d) == UNION {IF e.ok THEN Write(e) ELSE {e} : e \in spawned(d)}
           respawned(d) == UNION {IF e.ok THEN Log(e) ELSE {e} : e \in saved(d)}
           up(e) == MaybeLog([e EXCEPT !.s.slot = "live"])
           installed(d) == UNION {IF e.ok THEN up(e) ELSE {e} :
                                     e \in Discard(RecordChild(Install(d)))}
           new == UNION {IF d.ok THEN respawned(d) ELSE {d} : d \in released}
           all == UNION {IF d.ok THEN installed(d) ELSE {d} : d \in new}
<1>1. ClearContext(c, takeHolder) =
         {IF d.ok /\ takeHolder THEN [d EXCEPT !.s.holders = @ + 1] ELSE d : d \in all}
  BY DEF ClearContext, Then
<1>2. \A d \in loaded : Sole(h, d)
  <2>1. \A d \in Read(c) : Sole(h, d) /\ \A e \in AdoptStored(d) : Sole(h, e)
    BY QuietSole DEF QuietSteps
  <2>2. Sole(h, Accepted(c))
    BY QuietSole DEF QuietSteps
  <2> QED
    BY <2>1, <2>2
<1> HIDE DEF loaded
<1>3. \A d : Sole(h, d) => \A e \in given(d) : Sole(h, e)
  <2> SUFFICES ASSUME NEW d, Sole(h, d), NEW e \in given(d)
               PROVE  Sole(h, e)
    BY Zenon
  <2> DEFINE l == RemoveQueued(d.s.ledger)
             b == [d EXCEPT !.s.fault = FALSE]
  <2>1. Sole(h, b)
    BY SoleFields
  <2>2. e \in CommitWithEvents(b, l, events)
    OBVIOUS
  <2> HIDE DEF b, l, events
  <2> QED
    BY <2>1, <2>2, CommitSole
<1> HIDE DEF given, events
<1>4. \A d : Sole(h, d) => \A e \in emptied(d) : Sole(h, e)
  <2> SUFFICES ASSUME NEW d, Sole(h, d), NEW e \in given(d)
               PROVE  Sole(h, [e EXCEPT !.s.queue = IF e.ok THEN <<>> ELSE @])
    BY Zenon
  <2> DEFINE v == IF e.ok THEN <<>> ELSE e.s.queue
  <2>1. Sole(h, e)
    BY <1>3
  <2> HIDE DEF v
  <2>2. Sole(h, [e EXCEPT !.s.queue = v])
    BY <2>1, SoleFields
  <2> QED
    BY <2>2 DEF v
<1> HIDE DEF emptied
<1>5. \A d \in known : Sole(h, d)
  BY <1>2, <1>4
<1> HIDE DEF known
<1>6. \A d \in released : Sole(h, d)
  BY <1>5, QuietSole DEF QuietSteps
<1> HIDE DEF released
<1>7. \A d : Sole(h, d) => \A e \in spawned(d) : Checked(h, e)
  <2> SUFFICES ASSUME NEW d, Sole(h, d)
               PROVE  \A e \in spawned(d) : Checked(h, e)
    BY Zenon
  <2> DEFINE written == Write(d)
  <2>1. \A e \in written : Sole(h, e)
    BY QuietSole DEF QuietSteps
  <2> HIDE DEF written
  <2> QED
    BY <2>1, SpawnedChecked DEF written
<1> HIDE DEF spawned
<1>8. \A d : Sole(h, d) => \A e \in saved(d) : Checked(h, e)
  BY <1>7, AloneSole, QuietSole DEF Checked, QuietSteps
<1> HIDE DEF saved
<1>9. \A d : Sole(h, d) => \A e \in respawned(d) : Checked(h, e)
  BY <1>8, AloneSole, QuietSole DEF Checked, QuietSteps
<1> HIDE DEF respawned
<1>10. \A d : Sole(h, d) => \A e \in up(d) : Sole(h, e)
  BY SoleFields, QuietSole DEF QuietSteps
<1> HIDE DEF up
<1>11. \A d : Alone(h, d) => \A e \in installed(d) : Sole(h, e)
  <2>1. \A d : Alone(h, d) => \A e \in Discard(RecordChild(Install(d))) : Sole(h, e)
    BY RecordStaged, DiscardSole
  <2> QED
    BY <1>10, <2>1
<1> HIDE DEF installed
<1>12. \A d \in new : Checked(h, d)
  BY <1>6, <1>9 DEF Checked
<1> HIDE DEF new
<1>13. \A d \in all : Sole(h, d)
  BY <1>11, <1>12 DEF Checked
<1> HIDE DEF all
<1> QED
  BY <1>1, <1>13, HoldersSole

LEMMA SubmitAfterReleaseSole ==
    ASSUME NEW h, NEW c, Sole(h, c), NEW id, NEW text
    PROVE  \A d \in SubmitAfterRelease(c, id, text) : Sole(h, d)
<1> DEFINE n == NoteExit(c)
           submitted(e) == UNION {SubmitPrompt(f, id, text) : f \in TryDispatch(e)}
           revived == UNION {IF e.ok THEN submitted(e) ELSE {e} : e \in Revive(n)}
<1>1. SubmitAfterRelease(c, id, text) \in {SubmitPrompt(n, id, text), revived}
  BY DEF SubmitAfterRelease, Then, Anyway
<1>2. Sole(h, n)
  BY QuietSole DEF QuietSteps
<1> HIDE DEF n
<1>3. \A e : Sole(h, e) => \A d \in submitted(e) : Sole(h, d)
  BY QuietSole, SubmitSole DEF QuietSteps
<1> HIDE DEF submitted
<1>4. \A d \in revived : Sole(h, d)
  BY <1>2, <1>3, ReviveSole
<1> HIDE DEF revived
<1> QED
  BY <1>1, <1>2, <1>4, SubmitSole

LEMMA RestartSole ==
    ASSUME NEW h, NEW c, Sole(h, c)
    PROVE  \A d \in Restart(c) : Sole(h, d)
<1> DEFINE f == InFlight(c)
           events == FALSE
           interrupted(d) ==
               IF f # None /\ PhaseOf(d.s.ledger, f.id) = "Dispatching"
               THEN CommitWithEvents(d, MarkInterrupted(d.s.ledger, f.id), events)
               ELSE {d}
           again(d) == f # None /\ PhaseOf(d.s.ledger, f.id) = "Interrupted"
           submitted(d, e) == IF again(d) THEN SubmitPrompt(e, RestartId(f.id), f.text) ELSE {e}
           dispatched(d, e) == UNION {submitted(d, g) : g \in TryDispatch(e)}
           resent(d) == UNION {IF e.ok THEN dispatched(d, e) ELSE {e} : e \in Log(d)}
           replaced == IF HasClient(c) THEN Respawn(c) ELSE AcquireKeepingHolders(c)
           settled == UNION {IF d.ok THEN interrupted(d) ELSE {d} : d \in replaced}
<1>1. Restart(c) = UNION {IF d.ok THEN resent(d) ELSE {d} : d \in settled}
  BY DEF Restart, Then, Anyway
<1> HIDE DEF f, events
<1>2. \A d \in replaced : Sole(h, d)
  BY RespawnSole, KeepingHoldersSole
<1> HIDE DEF replaced
<1>3. \A d : Sole(h, d) => \A e \in interrupted(d) : Sole(h, e)
  BY CommitSole
<1> HIDE DEF interrupted
<1>4. \A d \in settled : Sole(h, d)
  BY <1>2, <1>3
<1> HIDE DEF settled, again
<1>5. \A d, e : Sole(h, e) => \A g \in submitted(d, e) : Sole(h, g)
  BY SubmitSole
<1> HIDE DEF submitted
<1>6. \A d, e : Sole(h, e) => \A g \in dispatched(d, e) : Sole(h, g)
  BY <1>5, QuietSole DEF QuietSteps
<1> HIDE DEF dispatched
<1>7. \A d : Sole(h, d) => \A e \in resent(d) : Sole(h, e)
  BY <1>6, QuietSole DEF QuietSteps
<1> HIDE DEF resent
<1> QED
  BY <1>1, <1>4, <1>7

LEMMA ResumeQueuedSole ==
    ASSUME NEW h, NEW c, Sole(h, c)
    PROVE  \A d \in ResumeQueued(c) : Sole(h, d)
<1> DEFINE forgot(d) == Note([d EXCEPT !.s.queue = <<>>])
<1>1. ResumeQueued(c) \in {{c}, UNION {IF d.ok THEN {d} ELSE forgot(d) : d \in Revive(c)}}
  BY DEF ResumeQueued
<1>2. \A d : Sole(h, d) => \A e \in forgot(d) : Sole(h, e)
  BY SoleFields, QuietSole DEF QuietSteps
<1> HIDE DEF forgot
<1> QED
  BY <1>1, <1>2, ReviveSole

LEMMA TickSole ==
    ASSUME NEW h, NEW c, Sole(h, c)
    PROVE  \A d \in Tick(c) : Sole(h, d)
<1> DEFINE retried == UNION {RetryBacklog(d) : d \in RetryPending(c)}
           pumped(d) == IF HasClient(d) THEN Pump(d) ELSE {d}
           resumed(d) == UNION {ResumeQueued(e) : e \in pumped(d)}
<1>1. Tick(c) = UNION {resumed(d) : d \in retried}
  BY DEF Tick, Anyway
<1>2. \A d \in retried : Sole(h, d)
  BY QuietSole DEF QuietSteps
<1> HIDE DEF retried
<1>3. \A d : Sole(h, d) => \A e \in pumped(d) : Sole(h, e)
  BY QuietSole DEF QuietSteps
<1> HIDE DEF pumped
<1>4. \A d : Sole(h, d) => \A e \in resumed(d) : Sole(h, e)
  BY <1>3, ResumeQueuedSole
<1> HIDE DEF resumed
<1> QED
  BY <1>1, <1>2, <1>4

LEMMA SweepChildSole ==
    ASSUME NEW h, NEW c, Sole(h, c)
    PROVE  \A d \in SweepChild(c) : Sole(h, d)
<1> DEFINE cleared(e) == [e EXCEPT !.run.child = NoHost]
           spared == [c EXCEPT !.agents = @ \ {c.run.child}]
           killed == IF c.run.child \in c.agents THEN {spared} \cup Faulty(c) ELSE {c}
           noted(d) == {IF e.ok THEN cleared(e) ELSE e : e \in Write(d)}
           all == UNION {IF d.ok THEN noted(d) ELSE {d} : d \in killed}
<1>1. SweepChild(c) = IF c.run.child = NoHost \/ c.run.boot = c.host THEN {c} ELSE all
  BY DEF SweepChild, Then
<1> SUFFICES ASSUME c.run.boot # c.host
             PROVE  \A d \in all : Sole(h, d)
  BY <1>1
(* This host has no agent: it would be the one of its own run. *)
<1> DEFINE Free(d) == Alone(h, d) /\ (d.alive => d.crashed)
<1>2. c.alive => c.crashed
  BY DEF Sole, Almost
<1>3. \A d \in killed : Sole(h, d) /\ (d.ok => Free(d))
  <2>1. CASE c.run.child \in c.agents
    <3>1. Free(spared)
      BY <1>2 DEF Alone, Sole, Almost
    <3>2. \A d \in Faulty(c) : Sole(h, d)
      BY QuietSole DEF QuietSteps
    <3>3. \A d \in Faulty(c) : ~d.ok
      <4> DEFINE f == c.faults + 1
      <4>1. Faulty(c) \subseteq {[c EXCEPT !.ok = FALSE, !.faults = f]}
        BY DEF Faulty
      <4> HIDE DEF f
      <4> QED
        BY <4>1 DEF Sole, Almost
    <3>4. \A d \in Faulty(c) : Sole(h, d) /\ ~d.ok
      BY <3>2, <3>3
    <3> HIDE DEF spared
    <3>5. \A d \in killed : d = spared \/ d \in Faulty(c)
      BY <2>1
    <3> HIDE DEF killed
    <3> QED
      BY <3>1, <3>4, <3>5 DEF Alone
  <2>2. CASE c.run.child \notin c.agents
    <3>1. c.agents = {}
      BY <2>2 DEF Sole, Almost
    <3> QED
      BY <1>2, <2>2, <3>1 DEF Alone
  <2> QED
    BY <2>1, <2>2
<1> HIDE DEF killed, spared
<1>4. ASSUME NEW d, Free(d)
      PROVE  \A e \in noted(d) : Sole(h, e)
  <2> SUFFICES ASSUME NEW w \in Write(d)
               PROVE  Sole(h, w) /\ Sole(h, cleared(w))
    BY Zenon
  <2>1. Held(d, w)
    BY <1>4, AloneSole, SoleHeld, AllHeld
  <2>2. Alone(h, w)
    BY <1>4, <2>1, HeldSole
  <2>3. ~(w.alive /\ ~w.crashed)
    BY <1>4, <2>1 DEF Held
  <2>4. Sole(h, cleared(w))
    BY <2>2, <2>3, NoHostAssumption DEF Alone, Sole, Almost
  <2> QED
    BY <2>2, <2>4, AloneSole
<1> HIDE DEF noted, Free
<1>5. \A d \in killed : d.ok => \A e \in noted(d) : Sole(h, e)
  BY <1>3, <1>4
<1>6. \A d \in all : Sole(h, d)
  BY <1>3, <1>5
<1> QED
  BY <1>6

LEMMA StartedSole ==
    ASSUME NEW h, NEW c, Sole(h, c)
    PROVE  \A d \in SpawnActor(c) : Sole(h, d)
  BY SoleHeld, SpawnActorHeld, HeldSole

(* The run row names the host whose agent runs, if one does.               *)
AgentInv ==
    /\ DOMAIN alive = Hosts
    /\ {"child", "boot"} \subseteq DOMAIN run
    /\ run.child \in Hosts => run.boot = run.child
    /\ \A h \in Hosts : alive[h] => run.child = h

LEMMA LoadSole ==
    ASSUME AgentInv, NEW h \in Hosts
    PROVE  Sole(h, Load(h))
  BY DEF AgentInv, Load, Sole, Almost

LEMMA ApplySole ==
    ASSUME AgentInv, NEW h \in Hosts, NEW c, Sole(h, c), Apply(h, c)
    PROVE  AgentInv'
<1>1. run' = c.run
  BY DEF Apply
<1>2. PICK survives \in IF c.crashed /\ c.run.child = h THEN BOOLEAN ELSE {~c.crashed} :
         alive' = [g \in Hosts |-> IF g = h THEN c.alive /\ survives ELSE g \in c.agents]
  BY DEF Apply
<1>3. ASSUME NEW g \in Hosts, alive'[g]
      PROVE  c.run.child = g
  <2>1. CASE g = h
    <3>1. c.alive /\ survives
      BY <1>2, <1>3, <2>1
    <3>2. c.crashed => c.run.child = h
      BY <1>2, <3>1
    <3> QED
      BY <2>1, <3>1, <3>2 DEF Sole
  <2>2. CASE g # h
    <3>1. g \in c.agents
      BY <1>2, <1>3, <2>2
    <3> QED
      BY <3>1 DEF Sole, Almost
  <2> QED
    BY <2>1, <2>2
<1>4. DOMAIN alive' = Hosts
  BY <1>2
<1> QED
  BY <1>1, <1>3, <1>4 DEF AgentInv, Sole, Almost

LEMMA CommandSole ==
    ASSUME AgentInv, NEW h \in Hosts, NEW S, \A c \in S : Sole(h, c), Command(h, S)
    PROVE  AgentInv'
<1>1. PICK c \in S : Apply(h, c)
  BY DEF Command
<1> QED
  BY <1>1, ApplySole

LEMMA SweepSole ==
    ASSUME AgentInv, NEW h \in Hosts, Sweep(h)
    PROVE  AgentInv'
<1>1. PICK c \in SweepChild(Load(h)) : \E d \in RecoverInterrupted(c) : Apply(h, d)
  BY DEF Sweep
<1>2. PICK d \in RecoverInterrupted(c) : Apply(h, d)
  BY <1>1
<1>3. Sole(h, c)
  BY <1>1, LoadSole, SweepChildSole
<1>4. Sole(h, d)
  BY <1>2, <1>3, SoleHeld, RecoverInterruptedHeld, HeldSole
<1> QED
  BY <1>2, <1>4, ApplySole

LEMMA AttachSole ==
    ASSUME AgentInv, NEW h \in Hosts, NEW other, Attach(h, other)
    PROVE  AgentInv'
<1> DEFINE c == [Load(h) EXCEPT !.lost = FALSE]
           started == IF sess[h].actor THEN {c} ELSE SpawnActor(c)
           all == UNION {Acquire(d, other) : d \in started}
<1>1. Command(h, all)
  BY DEF Attach, Anyway
<1>2. Sole(h, c)
  BY LoadSole, SoleFields
<1> HIDE DEF c
<1>3. \A d \in started : Sole(h, d)
  BY <1>2, StartedSole
<1> HIDE DEF started
<1>4. \A d \in all : Sole(h, d)
  BY <1>3, AcquireSole
<1> HIDE DEF all
<1> QED
  BY <1>1, <1>4, CommandSole

LEMMA DetachSole ==
    ASSUME AgentInv, NEW h \in Hosts, Detach(h)
    PROVE  AgentInv'
<1> DEFINE v == sess[h].holders - 1
           c == [Load(h) EXCEPT !.s.holders = @ - 1]
<1>1. c = [Load(h) EXCEPT !.s.holders = v]
  BY DEF Load
<1> HIDE DEF v
<1>2. Sole(h, c)
  BY <1>1, LoadSole, SoleFields
<1>3. Command(h, {c})
  BY DEF Detach
<1> HIDE DEF c
<1> QED
  BY <1>2, <1>3, CommandSole

LEMMA DiscardQueuedSole ==
    ASSUME AgentInv, NEW h \in Hosts, DiscardQueued(h)
    PROVE  AgentInv'
<1> DEFINE l == RemoveQueued(LedgerFromRows(rows))
           c == Load(h)
<1>1. PICK d \in Read(c) : \E e \in {d} \cup Write(d) :
         Apply(h, IF e.ok THEN [e EXCEPT !.rows = PlanApply(@, l)] ELSE e)
  <2> HIDE DEF c
  <2> QED
    BY DEF DiscardQueued, c
<1>2. PICK e \in {d} \cup Write(d) :
         Apply(h, IF e.ok THEN [e EXCEPT !.rows = PlanApply(@, l)] ELSE e)
  BY <1>1
<1> HIDE DEF l
<1>3. Sole(h, c)
  BY LoadSole
<1> HIDE DEF c
<1>4. Sole(h, d)
  BY <1>3, QuietSole DEF QuietSteps
<1>5. Sole(h, e)
  BY <1>4, QuietSole DEF QuietSteps
<1>6. Sole(h, [e EXCEPT !.rows = PlanApply(@, l)])
  BY <1>5 DEF Sole, Almost
<1> QED
  BY <1>2, <1>5, <1>6, ApplySole

LEMMA EndedSole ==
    ASSUME AgentInv, NEW h \in Hosts, NEW close, Command(h, Ended(Shutdown(Load(h), close)))
    PROVE  AgentInv'
<1>1. ASSUME NEW c \in Shutdown(Load(h), close)
      PROVE  Sole(h, [c EXCEPT !.s = NoSession])
  <2>1. Sole(h, c)
    BY LoadSole, SoleHeld, ShutdownHeld, HeldSole
  <2> QED
    BY <2>1, SoleFields
<1> DEFINE all == Ended(Shutdown(Load(h), close))
<1>2. \A d \in all : Sole(h, d)
  BY <1>1 DEF Ended
<1> HIDE DEF all
<1>3. Command(h, all)
  BY DEF all
<1> QED
  BY <1>2, <1>3, CommandSole

LEMMA StepSole ==
    ASSUME AgentInv, [Next]_vars
    PROVE  AgentInv'
<1>1. CASE UNCHANGED vars
  BY <1>1 DEF vars, AgentInv
<1>2. ASSUME NEW h \in Hosts, StartHost(h) \/ ClaimLease(h) \/ ConfirmLease(h) \/ LoseLease(h)
      PROVE  AgentInv'
  BY <1>2 DEF StartHost, ClaimLease, ConfirmLease, LoseLease, dbVars, AgentInv
<1>3. ASSUME NEW h \in Hosts, (\E a \in Answers : ChildAnswers(h, a)) \/ ChildExits(h)
      PROVE  AgentInv'
  BY <1>3 DEF ChildAnswers, ChildExits, dbVars, AgentInv
<1>4. ASSUME NEW h \in Hosts
      PROVE  Sole(h, Load(h))
  BY LoadSole
<1>5. ASSUME NEW h \in Hosts, Crash(h)
      PROVE  AgentInv'
  <2> DEFINE all == {Crashed(Load(h))}
  <2>1. \A c \in all : Sole(h, c)
    BY <1>4, QuietSole DEF QuietSteps
  <2>2. Command(h, all)
    BY <1>5 DEF Crash
  <2> HIDE DEF all
  <2> QED
    BY <2>1, <2>2, CommandSole
<1>6. ASSUME NEW h \in Hosts, NEW p, NEW t, Submit(h, p, t)
      PROVE  AgentInv'
  <2> DEFINE id == <<p, 0>>
             all == SubmitAfterRelease(Load(h), id, t)
  <2>1. Command(h, all)
    BY <1>6 DEF Submit
  <2> HIDE DEF id
  <2>2. \A c \in all : Sole(h, c)
    BY <1>4, SubmitAfterReleaseSole
  <2> HIDE DEF all
  <2> QED
    BY <2>1, <2>2, CommandSole
<1>7. ASSUME NEW h \in Hosts, NEW keepQueue, CancelTurn(h, keepQueue)
      PROVE  AgentInv'
  <2>1. \A d \in Cancel(Load(h), keepQueue) : Sole(h, d)
    BY <1>4, SoleHeld, CancelHeld, HeldSole
  <2> QED
    BY <1>7, <2>1, CommandSole DEF CancelTurn
<1>8. ASSUME NEW h \in Hosts, RestartAgent(h)
      PROVE  AgentInv'
  BY <1>4, <1>8, RestartSole, CommandSole DEF RestartAgent
<1>9. ASSUME NEW h \in Hosts, ChangeConfig(h)
      PROVE  AgentInv'
  BY <1>4, <1>9, RespawnSole, CommandSole DEF ChangeConfig
<1>10. ASSUME NEW h \in Hosts, NEW takeHolder, ClearChat(h, takeHolder)
       PROVE  AgentInv'
  BY <1>4, <1>10, ClearContextSole, CommandSole DEF ClearChat
<1>11. ASSUME NEW h \in Hosts, SwitchHarness(h)
       PROVE  AgentInv'
  BY <1>4, <1>11, SwitchSole, CommandSole DEF SwitchHarness
<1>12. ASSUME NEW h \in Hosts, Poll(h)
       PROVE  AgentInv'
  BY <1>4, <1>12, TickSole, CommandSole DEF Poll
<1>13. ASSUME NEW h \in Hosts, FlushActor(h)
       PROVE  AgentInv'
  <2>1. \A d \in Flush(Load(h)) : Sole(h, d)
    BY <1>4, QuietSole DEF QuietSteps
  <2> QED
    BY <1>13, <2>1, CommandSole DEF FlushActor
<1>14. ASSUME NEW h \in Hosts, Evict(h) \/ DropSession(h)
       PROVE  AgentInv'
  <2>1. \E close \in BOOLEAN : Command(h, Ended(Shutdown(Load(h), close)))
    BY <1>14 DEF Evict, DropSession
  <2> QED
    BY <2>1, EndedSole
<1> QED
  BY <1>1, <1>2, <1>3, <1>5, <1>6, <1>7, <1>8, <1>9, <1>10, <1>11, <1>12, <1>13, <1>14,
     SweepSole, AttachSole, DetachSole, DiscardQueuedSole DEF Next

(* OneAgent for any number of hosts that run at once, and any crashes,     *)
(* takeovers and failed writes: an agent that outlives its host is always  *)
(* the one the run row names (record_child_identity before the slot is     *)
(* kept, discard_staged_client otherwise), so reject_foreign_live_child    *)
(* sees it, and only the sweep clears the row, after it has ended it.      *)
THEOREM NeverTwoAgents == Spec => []OneAgent
<1>1. Init => AgentInv
  BY NoHostAssumption DEF Init, AgentInv
<1>2. AgentInv /\ [Next]_vars => AgentInv'
  BY StepSole
<1>3. AgentInv => OneAgent
  BY DEF AgentInv, OneAgent
<1> QED
  BY <1>1, <1>2, <1>3, PTL DEF Spec
=============================================================================
