-------------------------- MODULE SessionDirectory --------------------------
(***************************************************************************)
(* The directory of a host's chats: one entry for each chat that has an    *)
(* actor, found or made by whoever acquires the chat (a browser, the       *)
(* delivery of CI news, the dispatch of queued prompts after a start),     *)
(* marked when it is released, and removed by the eviction of idle chats   *)
(* and by the cleanup of chats that lost their task.  None of these holds  *)
(* a lock from its first look to its last step.                            *)
(*                                                                         *)
(* A call to an actor and its answer are one step; an actor that was told  *)
(* to shut down takes the calls that were sent before that and no others,  *)
(* and which those are is not known.  TaskSession has the actor's inside.  *)
(***************************************************************************)
EXTENDS Integers, FiniteSets, Sequences, FiniteSetsExt

CONSTANTS Chat,       \* qualified handles
          Caller,     \* who acquires chats besides the startup dispatch
          MaxActors,  \* bound: actors made
          MaxVisits,  \* bound: acquires; one if a start finds a queue
          MaxIdle,    \* MAX_IDLE_SESSIONS
          MaxLosses,  \* bound: tasks dropped or made again, agents lost,
                      \* prompts submitted; none if a start finds a queue
          ClaimTries  \* CLAIM_RETRIES

ASSUME DirectoryAssumption ==
    /\ {MaxActors, MaxLosses} \subseteq Nat
    /\ {MaxVisits, MaxIdle, ClaimTries} \subseteq Nat \ {0}

VARIABLES entry,   \* sessions: the actor of a chat and its released mark
          actor,   \* what an actor is to the directory
          kept,    \* stored sessions and prompt ledgers
          owned,   \* chats whose task the host knows
          caller,  \* where each caller of acquire and release is
          sweep,   \* cleanup_unowned, cleanup_session
          startup  \* startup_dispatch_handles and run_all

directoryVars == <<entry, actor, kept, owned, caller, sweep, startup>>

Actor == 1..MaxActors
Headless == "headless"
Callers == Caller \cup {Headless}
Unused == [chat |-> "none", phase |-> "none", holders |-> 0, agent |-> FALSE,
           busy |-> FALSE, close |-> FALSE, slip |-> FALSE]
Away == [at |-> "away", chat |-> "none", actor |-> 0, ask |-> {}, idle |-> {}]
NoEntry == [actor |-> 0, released |-> "no"]
NoSweep == [at |-> "off", of |-> "none", todo |-> {}, actor |-> 0]

DirectoryInit ==
    /\ entry = [c \in Chat |-> NoEntry]
    /\ actor = [n \in Actor |-> Unused]
    /\ owned = [c \in Chat |-> TRUE]
    /\ caller = [v \in Callers |-> Away]
    /\ \E queued \in SUBSET Chat :
          /\ kept = [c \in Chat |-> [data |-> c \in queued,
                           queued |-> IF c \in queued THEN "boot" ELSE "no"]]
          /\ startup = [at |-> IF queued = {} THEN "over" ELSE "scan",
                        tries |-> 0, left |-> {}, given |-> {}, failed |-> FALSE]
          /\ sweep = [job |-> NoSweep,
                      visits |-> IF queued = {} THEN 0 ELSE MaxVisits - 1,
                      losses |-> IF queued = {} THEN 0 ELSE MaxLosses]

Live(n) == n # 0 /\ actor[n].phase = "on"
Calls(n) == n # 0 /\ actor[n].phase \in {"on", "ending"}
Where(v, at) == caller[v].at = at
Moves(v, at) == caller' = [caller EXCEPT ![v].at = at]
Holds(v, n) == caller[v].at = "held" /\ caller[v].actor = n
NewActor == {n \in Actor : actor[n].phase = "none"}

-----------------------------------------------------------------------------
(* Acquire.  ensure_entry_for_acquire looks for the entry and unmarks it.  *)
Visits(v, c) ==
    /\ Where(v, "away")
    /\ IF entry[c].actor # 0
       THEN /\ entry' = [entry EXCEPT ![c].released = "no"]
            /\ caller' = [caller EXCEPT ![v] = [Away EXCEPT !.at = "send",
                             !.chat = c, !.actor = entry[c].actor]]
       ELSE /\ caller' = [caller EXCEPT ![v] = [Away EXCEPT !.at = "ask",
                             !.chat = c, !.ask = {d \in Chat :
                                 entry[d].actor # 0 /\ entry[d].released = "old"}]]
            /\ UNCHANGED entry
    /\ UNCHANGED <<actor, kept, owned>>

(* A browser or ci_agent_delivery acquires the chat of a task.             *)
StartAcquire(v, c) ==
    /\ v # Headless /\ owned[c] /\ sweep.visits < MaxVisits
    /\ Visits(v, c)
    /\ sweep' = [sweep EXCEPT !.visits = @ + 1]
    /\ UNCHANGED startup

(* EvictionSnapshot: nobody holds it, nothing runs or waits, and a stored  *)
(* session can be resumed.                                                 *)
Evictable(n) ==
    /\ actor[n].holders = 0 /\ ~actor[n].busy
    /\ kept[actor[n].chat].data /\ kept[actor[n].chat].queued = "no"

(* evict_idle_over_limit, the first look at a candidate.                   *)
AskIdle(v) ==
    /\ Where(v, "ask") /\ caller[v].ask # {}
    /\ \E d \in caller[v].ask :
          caller' = [caller EXCEPT ![v].ask = @ \ {d},
              ![v].idle = IF Live(entry[d].actor) /\ Evictable(entry[d].actor)
                          THEN @ \cup {d} ELSE @]
    /\ UNCHANGED <<entry, actor, kept, owned, sweep, startup>>

(* Enough of them, the ones released first, are to go.                     *)
ChooseIdle(v) ==
    /\ Where(v, "ask") /\ caller[v].ask = {}
    /\ IF Cardinality(caller[v].idle) < MaxIdle
       THEN Moves(v, "insert")
       ELSE \E go \in kSubset(Cardinality(caller[v].idle) - MaxIdle + 1,
                              caller[v].idle) :
               caller' = [caller EXCEPT ![v].at = "evict", ![v].idle = go]
    /\ UNCHANGED <<entry, actor, kept, owned, sweep, startup>>

(* The second look: still marked, still evictable.                         *)
LookAgain(v) ==
    /\ Where(v, "evict") /\ caller[v].idle # {}
    /\ \E d \in caller[v].idle :
          IF /\ entry[d].released # "no"
             /\ Live(entry[d].actor) /\ Evictable(entry[d].actor)
          THEN caller' = [caller EXCEPT ![v].at = "remove", ![v].ask = {d},
                                        ![v].idle = @ \ {d}]
          ELSE caller' = [caller EXCEPT ![v].idle = @ \ {d}]
    /\ UNCHANGED <<entry, actor, kept, owned, sweep, startup>>

EvictsAll(v) ==
    /\ Where(v, "evict") /\ caller[v].idle = {}
    /\ Moves(v, "insert")
    /\ UNCHANGED <<entry, actor, kept, owned, sweep, startup>>

(* The look under the lock that removes the entry.                         *)
Removable(d) == entry[d].actor # 0 /\ entry[d].released # "no"

Evict1(v) ==
    /\ Where(v, "remove")
    /\ \E d \in caller[v].ask :
          IF Removable(d)
          THEN /\ entry' = [entry EXCEPT ![d] = NoEntry]
               /\ actor' = [actor EXCEPT ![entry[d].actor].phase = "ending"]
          ELSE UNCHANGED <<entry, actor>>
    /\ caller' = [caller EXCEPT ![v].at = "evict", ![v].ask = {}]
    /\ UNCHANGED <<kept, owned, sweep, startup>>

(* The second look for the entry; made if it is still missing              *)
(* (spawn_task_session).                                                   *)
Insert(v) ==
    /\ Where(v, "insert")
    /\ LET c == caller[v].chat IN
       \/ /\ entry[c].actor # 0
          /\ entry' = [entry EXCEPT ![c].released = "no"]
          /\ caller' = [caller EXCEPT ![v].at = "send", ![v].actor = entry[c].actor]
          /\ UNCHANGED actor
       \/ \E n \in NewActor :
             /\ entry[c].actor = 0 /\ \A k \in NewActor : n <= k
             /\ entry' = [entry EXCEPT ![c] = [actor |-> n, released |-> "no"]]
             /\ actor' = [actor EXCEPT ![n].chat = c, ![n].phase = "on"]
             /\ caller' = [caller EXCEPT ![v].at = "send", ![v].actor = n]
    /\ UNCHANGED <<kept, owned, sweep, startup>>

(* The actor answers Acquire: an agent is there, or one is started and the *)
(* holders are set to one, or that fails and nobody holds the chat.        *)
SendAcquire(v) ==
    /\ Where(v, "send")
    /\ LET n == caller[v].actor
       IN  \/ /\ Calls(n) /\ actor[n].agent
              /\ actor' = [actor EXCEPT ![n].holders = @ + 1]
              /\ Moves(v, "held") /\ UNCHANGED kept
           \/ /\ Calls(n) /\ ~actor[n].agent
              /\ actor' = [actor EXCEPT ![n].holders = 1, ![n].agent = TRUE]
              /\ kept' = [kept EXCEPT ![actor[n].chat].data = TRUE]
              /\ Moves(v, "held")
           \/ /\ ~Live(n) \/ ~actor[n].agent
              /\ caller' = [caller EXCEPT ![v] = Away]
              /\ UNCHANGED <<actor, kept>>
    /\ startup' = IF v = Headless /\ caller'[v] = Away
                  THEN [startup EXCEPT !.failed = TRUE] ELSE startup
    /\ UNCHANGED <<entry, owned, sweep>>

-----------------------------------------------------------------------------
(* Release: the entry's actor of that moment, the answer, then the mark.   *)
StartRelease(v) ==
    /\ Where(v, "held")
    /\ v = Headless => startup.at = "release"
    /\ LET n == entry[caller[v].chat].actor IN
       /\ caller' = [caller EXCEPT ![v] = IF n = 0 THEN Away
                        ELSE [@ EXCEPT !.at = "let", !.actor = n]]
    /\ startup' = IF v = Headless THEN [startup EXCEPT !.at = "run"] ELSE startup
    /\ UNCHANGED <<entry, actor, kept, owned, sweep>>

SendRelease(v) ==
    /\ Where(v, "let")
    /\ LET n == caller[v].actor IN
       \/ /\ Calls(n) /\ Moves(v, "mark")
          /\ actor' = [actor EXCEPT ![n].holders = IF @ = 0 THEN 0 ELSE @ - 1]
       \/ ~Live(n) /\ Moves(v, "mark") /\ UNCHANGED actor
    /\ UNCHANGED <<entry, kept, owned, sweep, startup>>

MarkReleased(v) ==
    /\ Where(v, "mark")
    /\ LET c == caller[v].chat
           n == entry[c].actor
       IN  /\ entry' = IF n = 0 THEN entry
                       ELSE [entry EXCEPT ![c].released = "new"]
           /\ actor' = IF n # 0 /\ \E w \in Callers \ {v} :
                               \/ Holds(w, n)
                               \/ Where(w, "send") /\ caller[w].actor = n
                       THEN [actor EXCEPT ![n].slip = TRUE] ELSE actor
    /\ caller' = [caller EXCEPT ![v] = Away]
    /\ UNCHANGED <<kept, owned, sweep, startup>>

(* IDLE_RELEASE_GRACE has passed.                                          *)
GraceEnds(c) ==
    /\ entry[c].released = "new"
    /\ entry' = [entry EXCEPT ![c].released = "old"]
    /\ UNCHANGED <<actor, kept, owned, caller, sweep, startup>>

-----------------------------------------------------------------------------
(* The actor: it sends a queued prompt to its agent, the turn ends, the    *)
(* agent goes, and the shutdown ends it: what is unsaved is flushed, and a *)
(* close forgets the queue.                                                *)
ActorSends(n) ==
    /\ Calls(n) /\ actor[n].agent /\ ~actor[n].busy
    /\ kept[actor[n].chat].queued # "no" /\ entry[actor[n].chat].actor \in {0, n}
    /\ actor' = [actor EXCEPT ![n].busy = TRUE]
    /\ kept' = [kept EXCEPT ![actor[n].chat].queued = "no"]
    /\ UNCHANGED <<entry, owned, caller, sweep, startup>>

TurnEnds(n) ==
    /\ Calls(n) /\ actor[n].busy
    /\ actor' = [actor EXCEPT ![n].busy = FALSE]
    /\ UNCHANGED <<entry, kept, owned, caller, sweep, startup>>

AgentGoes(n) ==
    /\ Live(n) /\ actor[n].agent /\ sweep.losses < MaxLosses
    /\ actor' = [actor EXCEPT ![n].agent = FALSE, ![n].busy = FALSE]
    /\ sweep' = [sweep EXCEPT !.losses = @ + 1]
    /\ UNCHANGED <<entry, kept, owned, caller, startup>>

ActorEnds(n) ==
    /\ n # 0 /\ actor[n].phase = "ending"
    /\ actor' = [actor EXCEPT ![n].phase = "gone", ![n].agent = FALSE,
                              ![n].busy = FALSE, ![n].holders = 0]
    /\ kept' = IF actor[n].close
               THEN [kept EXCEPT ![actor[n].chat].queued = "no"] ELSE kept
    /\ UNCHANGED <<entry, owned, caller, sweep, startup>>

(* resume_queued_after_release: a queued prompt starts an agent again; if  *)
(* that fails nothing is changed in the store.                             *)
ActorResumes(n) ==
    /\ Calls(n) /\ ~actor[n].agent /\ entry[actor[n].chat].actor = n
    /\ kept[actor[n].chat].queued # "no" /\ kept[actor[n].chat].data
    /\ actor' = [actor EXCEPT ![n].agent = TRUE]
    /\ UNCHANGED <<entry, kept, owned, caller, sweep, startup>>

(* ci_agent_delivery: submits its brief to the chat it holds.              *)
SubmitThere(v) ==
    /\ Where(v, "held") /\ v # Headless /\ Calls(caller[v].actor)
    /\ entry[caller[v].chat].actor = caller[v].actor
    /\ kept[caller[v].chat].queued = "no" /\ sweep.losses < MaxLosses
    /\ kept' = [kept EXCEPT ![caller[v].chat].queued = "later"]
    /\ sweep' = [sweep EXCEPT !.losses = @ + 1]
    /\ UNCHANGED <<entry, actor, owned, caller, startup>>

-----------------------------------------------------------------------------
(* The host hears that a task is gone: a reload finds it dropped, and      *)
(* cleanup_unowned runs; or its own Drop is done, and cleanup_session      *)
(* runs.  A new task may get the same handle, not while the latter runs.   *)
TaskGoes(c) ==
    /\ owned[c] /\ sweep.job.at = "off" /\ sweep.losses < MaxLosses
    /\ owned' = [owned EXCEPT ![c] = FALSE]
    /\ \/ sweep' = [sweep EXCEPT !.losses = @ + 1, !.job = [NoSweep EXCEPT
                       !.at = "each", !.todo = {d \in Chat : entry[d].actor # 0
                                                /\ ~owned'[d]}]]
       \/ sweep' = [sweep EXCEPT !.losses = @ + 1, !.job = [NoSweep EXCEPT
                       !.at = "drop", !.of = c]]
    /\ UNCHANGED <<entry, actor, kept, caller, startup>>

TaskReturns(c) ==
    /\ ~owned[c] /\ sweep.losses < MaxLosses
    /\ sweep.job.of # c \/ sweep.job.of \in sweep.job.todo
    /\ owned' = [owned EXCEPT ![c] = TRUE]
    /\ sweep' = [sweep EXCEPT !.losses = @ + 1]
    /\ UNCHANGED <<entry, actor, kept, caller, startup>>

(* cleanup_unowned: each chat is checked before its session is dropped.    *)
SweepNext ==
    /\ sweep.job.at = "each"
    /\ IF sweep.job.todo = {} THEN sweep' = [sweep EXCEPT !.job = NoSweep]
       ELSE \E c \in sweep.job.todo :
               sweep' = IF owned[c]
                        THEN [sweep EXCEPT !.job.todo = @ \ {c}]
                        ELSE [sweep EXCEPT !.job.at = "drop", !.job.of = c]
    /\ UNCHANGED <<entry, actor, kept, owned, caller, startup>>

Sweeping == sweep.job.of \in sweep.job.todo

(* drop_session: the entry is removed, and its actor waited for.           *)
DropChat ==
    /\ sweep.job.at = "drop"
    /\ LET c == sweep.job.of
           n == entry[c].actor
       IN  /\ entry' = [entry EXCEPT ![c] = NoEntry]
           /\ actor' = IF n = 0 THEN actor
                       ELSE [actor EXCEPT ![n].phase = "ending", ![n].close = TRUE]
           /\ sweep' = [sweep EXCEPT !.job.at = "join", !.job.actor = n]
    /\ UNCHANGED <<kept, owned, caller, startup>>

(* cleanup_unowned looks for a new entry, under the lock.                  *)
Deletable(c) == ~Sweeping \/ entry[c].actor = 0

(* It has looked at the ownership once more, before it took the lock.      *)
JoinDropped ==
    /\ sweep.job.at = "join"
    /\ sweep.job.actor # 0 => actor[sweep.job.actor].phase = "gone"
    /\ sweep' = IF Sweeping /\ owned[sweep.job.of]
                THEN [sweep EXCEPT !.job.at = "each",
                                   !.job.todo = @ \ {sweep.job.of}]
                ELSE [sweep EXCEPT !.job.at = "delete"]
    /\ UNCHANGED <<entry, actor, kept, owned, caller, startup>>

DeleteStored ==
    /\ sweep.job.at = "delete"
    /\ LET c == sweep.job.of IN
       IF Deletable(c)
       THEN /\ kept' = [kept EXCEPT ![c] = [data |-> FALSE, queued |-> "no"]]
            /\ actor' = IF Sweeping \/ entry[c].actor = 0 THEN actor
                        ELSE [actor EXCEPT ![entry[c].actor].slip = TRUE]
       ELSE UNCHANGED <<kept, actor>>
    /\ sweep' = IF Sweeping
                THEN [sweep EXCEPT !.job.at = "each",
                                   !.job.todo = @ \ {sweep.job.of}]
                ELSE [sweep EXCEPT !.job = NoSweep]
    /\ UNCHANGED <<entry, owned, caller, startup>>

-----------------------------------------------------------------------------
(* startup_dispatch_handles, called until the stored chats could all be    *)
(* read or the tries are used up: a chat is handed out once.               *)
WithQueue == {c \in Chat : kept[c].queued # "no"}

ScanFails ==
    /\ startup.at = "scan"
    /\ startup' = [startup EXCEPT !.tries = @ + 1, !.failed = @ \/ startup.tries + 1
                        = ClaimTries, !.at = IF startup.tries + 1 = ClaimTries
                                            THEN "over" ELSE @]
    /\ UNCHANGED <<entry, actor, kept, owned, caller, sweep>>

ScanFinds ==
    /\ startup.at = "scan"
    /\ \E found \in SUBSET WithQueue :
          LET given == startup.given \cup found
              whole == found = WithQueue
              ends == whole \/ startup.tries + 1 = ClaimTries
              targets == {c \in given : owned[c]}
          IN  startup' = [at |-> IF ends THEN "run" ELSE "scan",
                          tries |-> startup.tries + 1, given |-> given,
                          left |-> IF ends THEN targets ELSE {},
                          failed |-> ends /\ ~(whole /\ targets = given)]
    /\ UNCHANGED <<entry, actor, kept, owned, caller, sweep>>

(* run_all: one chat after the other, each acquired, waited for and        *)
(* released.  Two idle polls in a row, or max_wait, end the wait.          *)
HeadlessTakes ==
    /\ startup.at = "run" /\ startup.left # {}
    /\ \E c \in startup.left :
          /\ Visits(Headless, c)
          /\ startup' = [startup EXCEPT !.left = @ \ {c}]
    /\ UNCHANGED sweep

(* Mutant: idle though the actor has not taken the queue up yet.           *)
PolledQuiet(c, n) == Live(n) => ~actor[n].busy

PolledIdle(c, n) == kept[c].queued = "no" /\ (Live(n) => ~actor[n].busy)

HeadlessPolls ==
    /\ startup.at = "run" /\ Where(Headless, "held")
    /\ LET c == caller[Headless].chat IN
       \/ /\ PolledIdle(c, entry[c].actor)
          /\ startup' = [startup EXCEPT !.at = "release"]
       \/ /\ ~PolledIdle(c, entry[c].actor)
          /\ startup' = [startup EXCEPT !.at = "release", !.failed = TRUE]
    /\ UNCHANGED <<entry, actor, kept, owned, caller, sweep>>

HeadlessEnds ==
    /\ startup.at = "run" /\ startup.left = {} /\ Where(Headless, "away")
    /\ startup' = [startup EXCEPT !.at = "over"]
    /\ UNCHANGED <<entry, actor, kept, owned, caller, sweep>>

-----------------------------------------------------------------------------
CallerSteps(v) ==
    \/ \E c \in Chat : StartAcquire(v, c)
    \/ AskIdle(v) \/ ChooseIdle(v) \/ LookAgain(v) \/ EvictsAll(v) \/ Evict1(v)
    \/ Insert(v) \/ SendAcquire(v)
    \/ StartRelease(v) \/ SendRelease(v) \/ MarkReleased(v) \/ SubmitThere(v)

DirectoryNext ==
    \/ \E v \in Callers : CallerSteps(v)
    \/ \E n \in Actor : \/ ActorSends(n) \/ TurnEnds(n) \/ AgentGoes(n)
                        \/ ActorEnds(n) \/ ActorResumes(n)
    \/ \E c \in Chat : GraceEnds(c) \/ TaskGoes(c) \/ TaskReturns(c)
    \/ SweepNext \/ DropChat \/ JoinDropped \/ DeleteStored
    \/ ScanFails \/ ScanFinds \/ HeadlessTakes \/ HeadlessPolls \/ HeadlessEnds

DirectorySpec == DirectoryInit /\ [][DirectoryNext]_directoryVars

Entry == [actor : {0} \cup Actor, released : {"no", "new", "old"}]
ActorState == [chat : Chat \cup {"none"}, phase : {"none", "on", "ending", "gone"},
               holders : Nat, agent : BOOLEAN, busy : BOOLEAN, close : BOOLEAN,
               slip : BOOLEAN]
Stored == [data : BOOLEAN, queued : {"no", "boot", "later"}]
CallerState == [at : {"away", "ask", "evict", "remove", "insert", "send", "held",
                      "let", "mark"},
                chat : Chat \cup {"none"}, actor : {0} \cup Actor,
                ask : SUBSET Chat, idle : SUBSET Chat]
Job == [at : {"off", "each", "drop", "join", "delete"}, of : Chat \cup {"none"},
        todo : SUBSET Chat, actor : {0} \cup Actor]
Startup == [at : {"scan", "run", "release", "over"}, tries : 0..ClaimTries,
            left : SUBSET Chat, given : SUBSET Chat, failed : BOOLEAN]

DirectoryTypeOK ==
    /\ entry \in [Chat -> Entry] /\ actor \in [Actor -> ActorState]
    /\ kept \in [Chat -> Stored] /\ owned \in [Chat -> BOOLEAN]
    /\ caller \in [Callers -> CallerState]
    /\ sweep \in [job : Job, visits : 0..MaxVisits, losses : 0..MaxLosses]
    /\ startup \in Startup

-----------------------------------------------------------------------------
(* The directory serves who holds a chat.  The actor a caller holds goes   *)
(* on until its task is dropped; its chat's stored session stays; and      *)
(* after a start whose dispatch met no failure no prompt stored before it  *)
(* is left.  The first two are not so for an actor that is marked released *)
(* by one caller after another acquired it, or whose stored session is     *)
(* deleted by the cleanup of the task before it ("slip"): see the README.  *)
DirectoryServes ==
    /\ \A v \in Callers, n \in Actor :
          Holds(v, n) /\ ~actor[n].slip =>
             /\ actor[n].phase # "on" => actor[n].close
             /\ actor[n].phase = "on" => kept[actor[n].chat].data
    /\ startup.at = "over" /\ ~startup.failed =>
          \A c \in Chat : kept[c].queued # "boot"
=============================================================================
