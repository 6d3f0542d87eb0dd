----------------------------- MODULE TaskAttach -----------------------------
(***************************************************************************)
(* A task opened in the operator's own terminal: "tmux attach" runs as a   *)
(* child on a PTY and a loop copies between the two terminals, keeps the   *)
(* size of the inner one up to date, takes the keys that return to the     *)
(* cockpit, and attaches again when tmux was interrupted by a signal.      *)
(*                                                                         *)
(* What the operator types is a sequence of "key", "report" (something the *)
(* terminal itself says, such as a focus change), "back" (Ctrl-Q) and      *)
(* "new" (Ctrl-T); a read returns some of it.  The trace file and the      *)
(* modes of the two terminals are left out.                                *)
(***************************************************************************)
EXTENDS Integers, Sequences, FiniteSets, SequencesExt, Filter

CONSTANTS MaxKeys,        \* bound: what the operator types
          MaxResizes,     \* bound: changes of the terminal's size
          MaxTries,       \* attempts after an interruption (code: 3)
          MaxAttaches     \* bound: attach clients started

ASSUME AttachAssumption == {MaxKeys, MaxResizes, MaxTries, MaxAttaches} \subseteq Nat

VARIABLES tty,      \* the operator's terminal
          att,      \* the program
          kid       \* the attach client on the PTY

attachVars == <<tty, att, kid>>

NoKid == [st |-> "none", size |-> 0, hup |-> FALSE, ok |-> FALSE,
          eintr |-> FALSE]

AttachInit ==
    /\ tty = [size |-> 0, keys |-> <<>>, typed |-> <<>>, winch |-> FALSE,
              handler |-> FALSE]
    /\ att = [st |-> "start", forkSize |-> 0, tries |-> 0, first |-> TRUE,
              got |-> <<>>, sig |-> "none", end |-> "none", blind |-> FALSE,
              attaches |-> 0, goal |-> "none"]
    /\ kid = NoKid

-----------------------------------------------------------------------------
(* The operator and the terminal. *)

TypeKey ==
    /\ Len(tty.typed) < MaxKeys /\ att.st # "over"
    /\ \E k \in {"key", "report", "back", "new"} :
          tty' = [tty EXCEPT !.keys = Append(@, k), !.typed = Append(@, k)]
    /\ UNCHANGED <<att, kid>>

(* A resize raises the flag once the handler is installed.                 *)
ResizeTerminal ==
    /\ tty.size < MaxResizes /\ att.st # "over"
    /\ tty' = [tty EXCEPT !.size = @ + 1, !.winch = @ \/ tty.handler]
    /\ UNCHANGED <<att, kid>>

-----------------------------------------------------------------------------
(* run_pty_task_session. *)

ReadWinsize ==
    /\ att.st = "start"
    /\ att' = [att EXCEPT !.st = "install", !.forkSize = tty.size]
    /\ UNCHANGED <<tty, kid>>

(* Mutant: the flag starts clear.                                          *)
InstallClear(t) == [t EXCEPT !.handler = TRUE]

(* TaskWinchGuard::install: a resize that came before the handler is        *)
(* caught by raising the flag.                                             *)
InstallWinch(t) == [t EXCEPT !.handler = TRUE, !.winch = TRUE]

OpenTerminal ==
    /\ att.st = "install"
    /\ tty' = InstallWinch(tty)
    /\ att' = [att EXCEPT !.st = "fork"]
    /\ UNCHANGED kid

ForkPty ==
    /\ att.st = "fork" /\ att.attaches < MaxAttaches
    /\ kid' = [NoKid EXCEPT !.st = "alive", !.size = att.forkSize]
    /\ att' = [att EXCEPT !.st = "sync", !.attaches = @ + 1,
                          !.first = att.attaches = 0]
    /\ UNCHANGED tty

(* sync_pending_winsize: the flag is taken, then the size read and set.    *)
SyncWinsize ==
    /\ att.st = "sync"
    /\ tty' = [tty EXCEPT !.winch = FALSE]
    /\ \/ /\ kid' = IF tty.winch THEN [kid EXCEPT !.size = tty.size] ELSE kid
          /\ att' = [att EXCEPT !.st = "poll"]
       \/ /\ tty.winch /\ UNCHANGED kid              \* the ioctl fails
          /\ att' = [att EXCEPT !.st = "poll", !.blind = TRUE]

(* poll is interrupted; or it already waits and the flag waits with it.    *)
PollInterrupted ==
    /\ att.st = "poll" /\ tty.winch
    /\ att' = [att EXCEPT !.st = "sync"] /\ UNCHANGED <<tty, kid>>

IsStop(k) == k \in {"back", "new"}
IsKey(k) == k = "key"
Stops(s) == {i \in DOMAIN s : IsStop(s[i])}

(* filter_task_input: what is forwarded ends at the first reserved key.    *)
FilterInput(s) ==
    LET n == IF Stops(s) = {} THEN Len(s) ELSE Min(Stops(s)) - 1
    IN  [bytes |-> Keeping(SubSeq(s, 1, n), {"key"}),
         action |-> IF Stops(s) = {} THEN "forward" ELSE s[n + 1]]

ReadTerminal ==
    /\ att.st = "poll" /\ tty.keys # <<>> /\ ~(kid.hup)
    /\ \E n \in 1..Len(tty.keys) :
          LET f == FilterInput(SubSeq(tty.keys, 1, n))
          IN  /\ tty' = [tty EXCEPT !.keys = SubSeq(@, n + 1, Len(@))]
              /\ att' = [att EXCEPT
                           !.got = @ \o f.bytes, !.goal = f.action,
                           !.st = IF f.action = "forward" THEN "sync"
                                  ELSE "detach"]
    /\ UNCHANGED kid

(* The terminal is gone: the task is left as with the reserved key.        *)
TerminalGone ==
    /\ att.st = "poll"
    /\ att' = [att EXCEPT !.st = "detach", !.goal = "back"]
    /\ UNCHANGED <<tty, kid>>

(* The PTY has output; it is written on and its end is remembered.         *)
ReadPty ==
    /\ att.st = "poll" /\ kid.st = "alive" /\ ~kid.hup
    /\ \E said \in BOOLEAN : kid' = [kid EXCEPT !.eintr = said]
    /\ att' = [att EXCEPT !.st = "sync"] /\ UNCHANGED tty

PtyClosed ==
    /\ att.st = "poll" /\ kid.hup
    /\ att' = [att EXCEPT !.st = "wait"] /\ UNCHANGED <<tty, kid>>

(* Reading or writing fails: the session ends, and the PTY with it.        *)
PumpFails ==
    /\ att.st = "poll"
    /\ att' = [att EXCEPT !.st = "over", !.end = "error"]
    /\ UNCHANGED <<tty, kid>>

-----------------------------------------------------------------------------
(* detach_task_child: the PTY is closed and SIGHUP sent, then SIGTERM and  *)
(* SIGKILL; the client must be gone before the session ends well.          *)
DetachChild ==
    /\ att.st = "detach"
    /\ att' = [att EXCEPT !.st = "reap", !.sig = "hup"]
    /\ kid' = [kid EXCEPT !.hup = TRUE] /\ UNCHANGED tty

ShutdownAction ==
    /\ att.st = "reap" /\ kid.st # "dead"
    /\ att' = CASE att.sig = "hup"  -> [att EXCEPT !.sig = "term"]
                [] att.sig = "term" -> [att EXCEPT !.sig = "kill"]
                [] att.sig = "kill" -> [att EXCEPT !.st = "over", !.end = "error"]
    /\ UNCHANGED <<tty, kid>>

ReapChild ==
    /\ att.st = "reap" /\ kid.st = "dead"
    /\ att' = [att EXCEPT !.st = "over",
                          !.end = IF att.goal = "new" THEN "new" ELSE "normal"]
    /\ kid' = [kid EXCEPT !.st = "reaped"] /\ UNCHANGED tty

(* wait_for_attach_child_status: the status, or none after a while.        *)
(* attach_exit_allows_retry: a client that failed and spoke of an          *)
(* interrupted call is started again, a limited number of times unless it  *)
(* had lasted.                                                             *)
AttachExit ==
    /\ att.st = "wait"
    /\ \E known \in {TRUE, FALSE}, lasted \in BOOLEAN :
          /\ known => kid.st = "dead"
          /\ LET tries == IF lasted THEN 0 ELSE att.tries
                 retry == ~(known /\ kid.ok) /\ kid.eintr
             IN  att' = [att EXCEPT
                           !.tries = IF retry /\ tries < MaxTries
                                     THEN tries + 1 ELSE tries,
                           !.st = IF retry /\ tries < MaxTries
                                  THEN "fork" ELSE "over",
                           !.end = IF ~retry THEN "normal"
                                   ELSE IF tries < MaxTries THEN @ ELSE "error"]
          /\ kid' = IF known THEN [kid EXCEPT !.st = "reaped"] ELSE kid
    /\ UNCHANGED tty

(* External: the attach client closes its PTY and ends.                    *)
KidCloses ==
    /\ kid.st = "alive" /\ ~kid.hup
    /\ kid' = [kid EXCEPT !.hup = TRUE] /\ UNCHANGED <<tty, att>>

KidDies ==
    /\ kid.st = "alive" /\ kid.hup
    /\ \E ok \in BOOLEAN : kid' = [kid EXCEPT !.st = "dead", !.ok = ok]
    /\ UNCHANGED <<tty, att>>

AttachNext ==
    \/ TypeKey \/ ResizeTerminal \/ ReadWinsize \/ OpenTerminal \/ ForkPty
    \/ SyncWinsize \/ PollInterrupted \/ ReadTerminal \/ TerminalGone
    \/ ReadPty \/ PtyClosed \/ PumpFails \/ DetachChild \/ ShutdownAction
    \/ ReapChild \/ AttachExit \/ KidCloses \/ KidDies

AttachSpec == AttachInit /\ [][AttachNext]_attachVars

AttachTypeOK ==
    /\ kid.size \in 0..MaxResizes /\ att.tries \in 0..MaxTries
    /\ att.end \in {"none", "normal", "new", "error"}

(* The keys meant for the task.                                            *)
Addressed(s) ==
    LET mine == {i \in DOMAIN s : IsKey(s[i]) /\ \A j \in 1..i : ~IsStop(s[j])}
    IN  [i \in 1..Cardinality(mine) |-> "key"]

(* The task gets the operator's keys in the order typed, none twice over   *)
(* the attach clients that follow each other, no report of the terminal    *)
(* and nothing typed after the key that leaves; a session that was left    *)
(* well has no client any more; and while the first client runs no resize  *)
(* is forgotten: the PTY has the terminal's size or the flag is up, even   *)
(* for a resize before the handler was installed.                          *)
AttachFaithful ==
    /\ IsPrefix(att.got, Addressed(tty.typed))
    /\ att.st = "over" /\ att.goal \in {"back", "new"} /\ att.end # "error"
          => kid.st = "reaped" /\ att.end \in {"normal", "new"}
    /\ att.st \in {"sync", "poll"} /\ att.first /\ ~att.blind
          => kid.size = tty.size \/ tty.winch
=============================================================================
