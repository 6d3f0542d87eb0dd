---------------------------- MODULE OperationGate ----------------------------
(***************************************************************************)
(* The gate in front of the web host's mutations: OperationCoordinator     *)
(* (ajax-web/src/runtime/state.rs) and the file of outcomes it keeps       *)
(* (operation_outcomes.rs).  One mutation runs at a time; a request id     *)
(* whose outcome is remembered gets that outcome again instead of a second *)
(* run, also after a restart.  The outcomes are put into the file after    *)
(* the gate was opened for the next request.                               *)
(***************************************************************************)
EXTENDS Filter, Integers, SequencesExt

CONSTANTS Request,        \* request ids
          NoId,           \* a request that came without an id
          Keep,           \* MAX_COMPLETED_OPERATIONS
          MaxSends,       \* bound: requests sent, retries included
          MaxGateFaults   \* bound: crashes, failed writes, outcomes that age

ASSUME GateAssumption ==
    NoId \notin Request /\ Keep \in Nat \ {0} /\ {MaxSends, MaxGateFaults} \subseteq Nat

VARIABLES completed,  \* completed_request_ids, oldest first
          aged,       \* ids whose outcome is more than a day old
          inFlight,   \* in_flight_requests and in_flight_tasks
          writes,     \* PendingOutcomeWrite of handlers that have finished
          seq,        \* write_seq and persisted_seq
          file,       \* the ids in operation-outcomes.json
          missed,     \* the last write of the file failed
          ran,        \* how often each request was carried out
          excused,    \* ids whose outcome was cut off, evicted or aged
          chances     \* what is left of the bounds

gateVars == <<completed, aged, inFlight, writes, seq, file, missed, ran,
              excused, chances>>

GateTypeOK ==
    /\ completed \in Seq(Request) /\ Len(completed) <= Keep
    /\ file \in Seq(Request) /\ Len(file) <= Keep
    /\ aged \subseteq Request /\ excused \subseteq Request
    /\ inFlight \subseteq Request \cup {NoId}
    /\ seq \in [written : Nat, persisted : Nat] /\ seq.persisted <= seq.written
    /\ \A w \in writes : /\ w \in [seq : 1..seq.written, ids : Seq(Request)]
                         /\ Len(w.ids) <= Keep
    /\ \A v, w \in writes : v.seq = w.seq => v = w
    /\ missed \in BOOLEAN
    /\ ran \in [Request -> Nat]
    /\ chances \in [sends : 0..MaxSends, faults : 0..MaxGateFaults]

GateInit ==
    /\ completed = <<>> /\ file = <<>>
    /\ aged = {} /\ excused = {} /\ inFlight = {} /\ writes = {}
    /\ seq = [written |-> 0, persisted |-> 0]
    /\ missed = FALSE
    /\ ran = [r \in Request |-> 0]
    /\ chances = [sends |-> MaxSends, faults |-> MaxGateFaults]

Fault == /\ chances.faults > 0
         /\ chances' = [chances EXCEPT !.faults = @ - 1]

(* completed_response: the outcome of a request, if it is not too old.     *)
Replayable(r) == r \in ToSet(completed) /\ r \notin aged

(* axum_start_task and axum_action through try_begin: a request that can   *)
(* be replayed, or comes while a mutation is in flight, changes nothing.   *)
Send(r) ==
    /\ chances.sends > 0
    /\ chances' = [chances EXCEPT !.sends = @ - 1]
    /\ IF ~Replayable(r) /\ inFlight = {}
       THEN /\ inFlight' = inFlight \cup {r}
            /\ ran' = IF r = NoId THEN ran ELSE [ran EXCEPT ![r] = @ + 1]
       ELSE UNCHANGED <<inFlight, ran>>
    /\ UNCHANGED <<completed, aged, writes, seq, file, missed, excused>>

(* remember_completed_response: to the end of the list, the oldest out.    *)
Remember(ids, r) ==
    LET new == Append(Keeping(ids, Request \ {r}), r)
    IN  IF Len(new) > Keep THEN Tail(new) ELSE new

(* finish_operation, also after a worker that panicked: the gate opens and *)
(* a snapshot of the outcomes is taken, to be written after the unlock.    *)
Finish(r) ==
    /\ r \in inFlight
    /\ inFlight' = inFlight \ {r}
    /\ IF r = NoId
       THEN UNCHANGED <<completed, aged, writes, seq, excused>>
       ELSE /\ completed' = Remember(completed, r)
            /\ aged' = aged \ {r}
            /\ excused' = excused \cup (ToSet(completed) \ ToSet(completed'))
            /\ seq' = [seq EXCEPT !.written = @ + 1]
            /\ writes' = writes \cup
                           {[seq |-> seq.written + 1, ids |-> completed']}
    /\ UNCHANGED <<file, missed, ran, chances>>

(* Mutant: snapshots are written in whatever order they come.              *)
NewestAlways(w) == TRUE

Newest(w) == w.seq > seq.persisted

(* PendingOutcomeWrite::persist: an older snapshot is given up; a write    *)
(* that fails counts as written.                                           *)
Persist(w) ==
    /\ writes' = writes \ {w}
    /\ IF Newest(w)
       THEN /\ seq' = [seq EXCEPT !.persisted = w.seq]
            /\ \/ file' = w.ids /\ missed' = FALSE /\ UNCHANGED chances
               \/ Fault /\ missed' = TRUE /\ UNCHANGED file
       ELSE UNCHANGED <<seq, file, missed, chances>>
    /\ UNCHANGED <<completed, aged, inFlight, ran, excused>>

(* A day passes for an outcome.                                            *)
Age(r) ==
    /\ r \in ToSet(completed) \ aged
    /\ Fault
    /\ aged' = aged \cup {r}
    /\ excused' = excused \cup {r}
    /\ UNCHANGED <<completed, inFlight, writes, seq, file, missed, ran>>

(* load_persistent skips the outcomes that are too old.                    *)
LoadPersistent == Keeping(file, Request \ aged)

(* The host dies, with its handlers, and a new one loads the file.         *)
Restart ==
    /\ Fault
    /\ completed' = LoadPersistent
    /\ excused' = excused \cup (inFlight \ {NoId})
                          \cup (ToSet(completed) \ ToSet(file))
    /\ inFlight' = {} /\ writes' = {}
    /\ seq' = [written |-> 0, persisted |-> 0]
    /\ missed' = FALSE
    /\ UNCHANGED <<aged, file, ran>>

GateNext == \/ \E r \in Request \cup {NoId} : Send(r) \/ Finish(r)
            \/ \E r \in Request : Age(r)
            \/ \E w \in writes : Persist(w)
            \/ Restart

GateSpec == GateInit /\ [][GateNext]_gateVars

-----------------------------------------------------------------------------
(* A request is carried out once, however often it is sent, unless the     *)
(* host died before its outcome was in the file, or its outcome was pushed *)
(* out of the list or is a day old.                                        *)
RunsOnce == \A r \in Request : ran[r] > 1 => r \in excused

(* An outcome that is remembered is in the file or in a snapshot that will *)
(* still be written, though handlers write their snapshots in any order;   *)
(* only a write that failed leaves it out, until the next one.             *)
OutcomesReachFile ==
    \A r \in ToSet(completed) :
        \/ r \in ToSet(file) \/ missed
        \/ \E w \in writes : w.seq > seq.persisted /\ r \in ToSet(w.ids)

(* A request runs once and its answer is found again after a restart       *)
(* (begin_operation, finish_operation).                                    *)
RequestRunsOnce == RunsOnce /\ OutcomesReachFile
=============================================================================
