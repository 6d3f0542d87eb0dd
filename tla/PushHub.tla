------------------------------- MODULE PushHub -------------------------------
(***************************************************************************)
(* The push subscriptions of the web host: a store in memory that requests *)
(* and delivery threads change under its lock, a file, and the flusher     *)
(* that carries the one to the other 50 ms after it was notified.          *)
(***************************************************************************)
EXTENDS Integers, FiniteSets

CONSTANTS Endpoint,       \* endpoints of devices
          Attempts,       \* 1 + the number of RETRY_DELAYS
          MaxHubEvents,   \* bound: requests, deliveries and restarts
          MaxHubFaults    \* bound: writes of the file that fail

ASSUME PushHubAssumption ==
    /\ {Attempts, MaxHubEvents, MaxHubFaults} \subseteq Nat
    /\ Attempts > 0

VARIABLES hub,   \* the store, its dirty mark and the flusher's permit
          subsFile,  \* the subscriptions file
          flu,   \* the flusher
          push,   \* the delivery thread: who is left, who is gone
          hubEnv \* what happened so far

hubVars == <<hub, subsFile, flu, push, hubEnv>>

(* A subscription is its endpoint and the keys that came with it.          *)
Sub == [at : Endpoint, keys : 0..MaxHubEvents]
NoPush == [on |-> FALSE, left |-> {}, failed |-> {}, dead |-> {}, try |-> 0]

HubInit ==
    /\ hub = [store |-> {}, dirty |-> FALSE, permit |-> FALSE]
    /\ subsFile = {}
    /\ flu = [at |-> "waits", took |-> {}, failed |-> FALSE]
    /\ push = NoPush
    /\ hubEnv = [events |-> 0, faults |-> 0]

Happened == hubEnv.events < MaxHubEvents
            /\ hubEnv' = [hubEnv EXCEPT !.events = @ + 1]

(* Every change marks the store dirty and notifies the flusher.            *)
Changed(store) == hub' = [store |-> store, dirty |-> TRUE, permit |-> TRUE]

(* upsert_subscription: the last device to subscribe is the only one.      *)
Subscribe ==
    /\ Happened
    /\ \E e \in Endpoint : Changed({[at |-> e, keys |-> hubEnv'.events]})
    /\ UNCHANGED <<subsFile, flu, push>>

(* apply_unsubscribe: one endpoint, or all.                                *)
Unsubscribe ==
    /\ Happened
    /\ \E gone \in {Endpoint} \cup {{e} : e \in Endpoint} :
            Changed({s \in hub.store : s.at \notin gone})
    /\ UNCHANGED <<subsFile, flu, push>>

-----------------------------------------------------------------------------
(* spawn_push_flusher and flush_if_dirty.                                  *)
FlusherWakes ==
    /\ flu.at = "waits" /\ hub.permit
    /\ hub' = [hub EXCEPT !.permit = FALSE]
    /\ flu' = [flu EXCEPT !.at = "woken"]
    /\ UNCHANGED <<subsFile, push, hubEnv>>

FlusherReads ==
    /\ flu.at = "woken"
    /\ flu' = IF hub.dirty
              THEN [flu EXCEPT !.at = "writes", !.took = hub.store]
              ELSE [flu EXCEPT !.at = "waits"]
    /\ UNCHANGED <<hub, subsFile, push, hubEnv>>

FlusherWrites ==
    /\ flu.at = "writes"
    /\ \/ /\ subsFile' = flu.took
          /\ flu' = [flu EXCEPT !.at = "settles", !.failed = FALSE]
          /\ UNCHANGED hubEnv
       \/ /\ hubEnv.faults < MaxHubFaults
          /\ hubEnv' = [hubEnv EXCEPT !.faults = @ + 1]
          /\ flu' = [at |-> "waits", took |-> {}, failed |-> TRUE]
          /\ UNCHANGED subsFile
    /\ UNCHANGED <<hub, push>>

(* Mutant: what was written is taken for what is in memory.                *)
FlusherSettlesAll ==
    /\ flu.at = "settles"
    /\ hub' = [hub EXCEPT !.dirty = FALSE]
    /\ flu' = [flu EXCEPT !.at = "waits", !.took = {}]
    /\ UNCHANGED <<subsFile, push, hubEnv>>

FlusherSettles ==
    /\ flu.at = "settles"
    /\ hub' = [hub EXCEPT !.dirty = @ /\ hub.store # flu.took]
    /\ flu' = [flu EXCEPT !.at = "waits", !.took = {}]
    /\ UNCHANGED <<subsFile, push, hubEnv>>

-----------------------------------------------------------------------------
(* deliver_attention_pushes hands the subscriptions of the moment to a     *)
(* thread; deliver_jobs tries each, and those that failed again.           *)
StartJob ==
    /\ ~push.on /\ hub.store # {} /\ Happened
    /\ push' = [NoPush EXCEPT !.on = TRUE, !.left = hub.store, !.try = 1]
    /\ UNCHANGED <<hub, subsFile, flu>>

DeliverOne ==
    /\ push.on
    /\ \E s \in push.left :
        LET rest == [push EXCEPT !.left = @ \ {s}]
        IN  \/ push' = rest
            \/ push' = [rest EXCEPT !.failed = @ \cup {s}]
            \/ push' = [rest EXCEPT !.dead = @ \cup {s.at}]
    /\ UNCHANGED <<hub, subsFile, flu, hubEnv>>

RetryJob ==
    /\ push.on /\ push.left = {} /\ push.failed # {} /\ push.try < Attempts
    /\ push' = [push EXCEPT !.left = push.failed, !.failed = {}, !.try = @ + 1]
    /\ UNCHANGED <<hub, subsFile, flu, hubEnv>>

(* prune_endpoints: the gone ones are forgotten.                           *)
EndJob ==
    /\ push.on /\ push.left = {} /\ (push.failed = {} \/ push.try = Attempts)
    /\ push' = NoPush
    /\ IF push.dead = {} THEN UNCHANGED hub
       ELSE Changed({s \in hub.store : s.at \notin push.dead})
    /\ UNCHANGED <<subsFile, flu, hubEnv>>

(* The host ends and starts again: load_or_create reads the file.          *)
HubRestarts ==
    /\ Happened
    /\ hub' = [store |-> subsFile, dirty |-> FALSE, permit |-> FALSE]
    /\ flu' = [at |-> "waits", took |-> {}, failed |-> FALSE]
    /\ push' = NoPush
    /\ UNCHANGED subsFile

HubNext ==
    \/ Subscribe \/ Unsubscribe
    \/ FlusherWakes \/ FlusherReads \/ FlusherWrites \/ FlusherSettles
    \/ StartJob \/ DeliverOne \/ RetryJob \/ EndJob \/ HubRestarts

HubSpec == HubInit /\ [][HubNext]_hubVars

HubTypeOK ==
    /\ hub \in [store : SUBSET Sub, dirty : BOOLEAN, permit : BOOLEAN]
    /\ subsFile \in SUBSET Sub
    /\ flu \in [at : {"waits", "woken", "writes", "settles"},
               took : SUBSET Sub, failed : BOOLEAN]
    /\ push \in [on : BOOLEAN, left : SUBSET Sub, failed : SUBSET Sub,
                dead : SUBSET Endpoint, try : 0..Attempts]
    /\ hubEnv \in [events : 0..MaxHubEvents, faults : 0..MaxHubFaults]

-----------------------------------------------------------------------------
(* No change of the subscriptions is forgotten: memory that calls itself   *)
(* clean is what the file holds, and what is not there yet has a flush     *)
(* under way or ahead of it, whatever requests and deliveries come in      *)
(* between; only a write that failed waits for the next change             *)
(* (flush_if_dirty, spawn_push_flusher).                                   *)
SubscriptionsStored ==
    /\ ~hub.dirty => subsFile = hub.store
    /\ hub.dirty => hub.permit \/ flu.at # "waits" \/ flu.failed
=============================================================================
