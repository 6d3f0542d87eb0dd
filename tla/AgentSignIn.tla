----------------------------- MODULE AgentSignIn -----------------------------
(***************************************************************************)
(* Signing in to the agents' services.  The login of Cursor runs in a      *)
(* sidecar that prints what happens; a thread of the host reads it and     *)
(* keeps the phase the browser asks for.  Each start of a login is a flow  *)
(* with a number.  Beside it the browser asks whether each agent is        *)
(* installed and signed in, and every request probes anew.                 *)
(*                                                                         *)
(* A key in the store is the number of the flow that saved it, 0 is none;  *)
(* Cursor goes on accepting a key it has accepted once.                    *)
(***************************************************************************)
EXTENDS Integers, Sequences, FiniteSets

CONSTANTS MaxFlows,    \* bound: logins started
          MaxProbes    \* bound: requests for the status

ASSUME SignInAssumption == {MaxFlows, MaxProbes} \subseteq Nat

VARIABLES login,    \* CursorLogin: the phase shown and the newest flow
          flow,     \* each flow: its watching thread, its sidecar
          keyStore, \* external: the SDK's credential store
          probe     \* probe_all: the request under way and its report

signInVars == <<login, flow, keyStore, probe>>

Flow == 1..MaxFlows
Phase(kind, f) == [kind |-> kind, flow |-> f]
NoFlow == [watch |-> "off", cancel |-> FALSE, side |-> "off",
           closed |-> FALSE, said |-> <<>>]

SignInInit ==
    /\ login = [phase |-> Phase("idle", 0), newest |-> 0]
    /\ flow = [f \in Flow |-> NoFlow]
    /\ keyStore = 0
    /\ probe = [agent |-> "none", count |-> 0, atStart |-> 0, report |-> "none"]

-----------------------------------------------------------------------------
(* External: cursor_sdk_login.mjs.  It shows a URL, verifies the minted    *)
(* key and saves it only then, and not if its stdin was closed before.     *)
SidecarSays(f, word, at) ==
    flow' = [flow EXCEPT ![f].side = at,
                         ![f].said = IF flow[f].watch = "on"
                                     THEN Append(@, word) ELSE @]

SidecarMoves(f) ==
    LET s == flow[f] IN
    \/ /\ s.side = "new" /\ SidecarSays(f, "url", "asked") /\ UNCHANGED keyStore
    \/ /\ s.side = "asked" /\ ~s.closed
       /\ SidecarSays(f, "verifying", "minted") /\ UNCHANGED keyStore
    \/ /\ s.side = "minted" /\ ~s.closed
       /\ flow' = [flow EXCEPT ![f].side = "verified"] /\ UNCHANGED keyStore
    \/ /\ s.side = "verified"
       /\ keyStore' = f /\ SidecarSays(f, "succeeded", "ending")
    \/ /\ s.side \in {"new", "asked", "minted"}
       /\ SidecarSays(f, "failed", "ending") /\ UNCHANGED keyStore
    \/ /\ s.side \in {"new", "asked", "minted", "ending"}
       /\ SidecarSays(f, "exited", "gone") /\ UNCHANGED keyStore

Sidecar(f) == SidecarMoves(f) /\ UNCHANGED <<login, probe>>

-----------------------------------------------------------------------------
LoginUnderWay == {"waiting", "verifying"}
Terminal == {"succeeded", "failed"}

(* Mutants: a late word of an earlier flow, or of a flow that has ended.   *)
ApplyAnyFlow(kind, f) ==
    IF login.phase.kind \in Terminal THEN login
    ELSE [login EXCEPT !.phase = Phase(kind, f)]
ApplyAlways(kind, f) ==
    IF login.newest # f THEN login
    ELSE [login EXCEPT !.phase = Phase(kind, f)]

(* apply_phase: only the newest flow, and not over a final phase.          *)
ApplyPhase(kind, f) ==
    IF login.newest # f \/ login.phase.kind \in Terminal THEN login
    ELSE [login EXCEPT !.phase = Phase(kind, f)]

(* start: refused while a login is shown under way.  The launch may fail   *)
(* (fail_flow).                                                            *)
StartLogin ==
    /\ login.newest < MaxFlows /\ login.phase.kind \notin LoginUnderWay
    /\ LET f == login.newest + 1 IN
       \/ /\ login' = [login EXCEPT !.newest = f]
          /\ flow' = [flow EXCEPT ![f].watch = "on", ![f].side = "new"]
       \/ /\ login' = [phase |-> Phase("failed", f), newest |-> f]
          /\ UNCHANGED flow
    /\ UNCHANGED <<keyStore, probe>>

(* cancel: a flag for the thread that watches the newest flow.             *)
CancelLogin ==
    /\ login.phase.kind \in LoginUnderWay /\ ~flow[login.newest].cancel
    /\ flow' = [flow EXCEPT ![login.newest].cancel = TRUE]
    /\ UNCHANGED <<login, keyStore, probe>>

(* watch_sidecar: a word of the sidecar, the flag, the deadline.           *)
WatchReads(f) ==
    /\ flow[f].watch = "on" /\ flow[f].said # <<>>
    /\ LET word == Head(flow[f].said)
           kind == CASE word = "url" -> "waiting"
                     [] word = "exited" -> "failed"
                     [] OTHER -> word
       IN  /\ login' = ApplyPhase(kind, f)
           /\ flow' = [flow EXCEPT ![f].said = Tail(@),
                                   ![f].watch = IF word = "exited" THEN "over"
                                                ELSE @]
    /\ UNCHANGED <<keyStore, probe>>

WatchCancels(f) ==
    /\ flow[f].watch = "on" /\ flow[f].cancel /\ ~flow[f].closed
    /\ flow' = [flow EXCEPT ![f].closed = TRUE]
    /\ UNCHANGED <<login, keyStore, probe>>

WatchTimesOut(f) ==
    /\ flow[f].watch = "on"
    /\ login' = ApplyPhase("failed", f)
    /\ flow' = [flow EXCEPT ![f].closed = TRUE, ![f].watch = "over",
                            ![f].said = <<>>]
    /\ UNCHANGED <<keyStore, probe>>

Watch(f) == WatchReads(f) \/ WatchCancels(f) \/ WatchTimesOut(f)

-----------------------------------------------------------------------------
(* probe_all: one thread for each agent and one deadline for all; the      *)
(* threads share nothing, so one of them is followed.                      *)
ProbeStarts ==
    /\ probe.agent = "none" /\ probe.count < MaxProbes
    /\ \E agent \in {"cursor", "cli"} :
          probe' = [agent |-> agent, count |-> probe.count + 1,
                    atStart |-> keyStore, report |-> "none"]
    /\ UNCHANGED <<login, flow, keyStore>>

(* undetermined: a probe that failed or is late says nothing.              *)
Undetermined == "unknown"

(* cursor_status: a saved key that Cursor accepts.                         *)
CursorSignedIn == IF keyStore = 0 THEN "no" ELSE "yes"

CursorStatus == {CursorSignedIn, Undetermined}

(* cli_status and run_probe: the other agents' own commands.               *)
CliStatus == {"yes", "no", "absent", Undetermined}

ProbeAnswers ==
    /\ probe.agent # "none"
    /\ \E r \in IF probe.agent = "cursor" THEN CursorStatus ELSE CliStatus :
          probe' = [probe EXCEPT !.agent = "none",
                                 !.report = IF probe.agent = "cursor" THEN r
                                            ELSE "none"]
    /\ UNCHANGED <<login, flow, keyStore>>

Watchers == \E f \in Flow : Watch(f)

SignInNext ==
    \/ StartLogin \/ CancelLogin \/ Watchers
    \/ \E f \in Flow : Sidecar(f)
    \/ ProbeStarts \/ ProbeAnswers

(* A thread polls its sidecar until a deadline.                            *)
SignInFairness == WF_signInVars(Watchers)
SignInSpec == SignInInit /\ [][SignInNext]_signInVars /\ SignInFairness

SignInTypeOK ==
    /\ login.newest \in 0..MaxFlows /\ keyStore \in 0..MaxFlows
    /\ login.phase.kind \in {"idle"} \cup LoginUnderWay \cup Terminal
    /\ probe.count \in 0..MaxProbes

-----------------------------------------------------------------------------
(* What the browser is shown of a login: under way is the newest flow and  *)
(* its thread still watches; success means that this flow's key was saved  *)
(* and only a later flow has replaced it; a flow whose success was read is *)
(* not shown as failed; and the status says "signed out" only if no key    *)
(* was there when it was asked for, so a sign-in shows in the next request *)
(* (CursorLogin, apply_phase, watch_sidecar, probe_all).                   *)
LoginTold ==
    LET p == login.phase IN
    /\ p.kind \in LoginUnderWay => p.flow = login.newest /\ flow[p.flow].watch = "on"
    /\ p.kind = "succeeded" => keyStore # 0 /\ flow[p.flow].side # "verified"
    /\ p.kind = "failed" /\ flow[p.flow].watch = "over" /\ keyStore = p.flow
          => flow[p.flow].closed
    /\ probe.report = "no" => probe.atStart = 0

(* A test allows a login after one that failed, and web-cockpit.md says of *)
(* a pending login that its URL is shown; start leaves the final phase in  *)
(* place, and apply_phase never replaces it.                               *)
LaterLoginShown ==
    \A f \in Flow :
        flow[f].side = "asked" /\ f = login.newest /\ flow[f].said = <<>>
           /\ flow[f].watch = "on" => login.phase.flow = f

(* What is shown of a sign-in is true, and a sign-in that is shown ends.   *)
LoginShown == login.phase.kind \in LoginUnderWay

SignInServes == [](LoginTold /\ (LoginShown => <>~LoginShown))
=============================================================================
