---------------------------- MODULE MC_Workspace ----------------------------
(***************************************************************************)
(* The parts of a workspace that must come to an end, for TLC: the         *)
(* operations on a task, the background tick with its notifications, the   *)
(* command that supervises an agent, the sign-in of an agent and speech    *)
(* input.  They share no variable; a behaviour moves one of them, chosen   *)
(* at the start.                                                           *)
(***************************************************************************)
EXTENDS TaskOperations, TaskAttention, AgentSupervisor, AgentSignIn,
        SpeechBridge

VARIABLE part

helperVars == <<supervisorVars, signInVars, speechVars>>
workspaceVars == <<opsVars, attentionVars, helperVars, part>>

WorkspaceInit ==
    /\ OpsInit /\ AttentionInit /\ SupervisorInit /\ SignInInit /\ SpeechInit
    /\ part \in {"operations", "attention", "supervisor", "sign-in", "speech"}
    /\ part = "attention" \/ agt.subscribed
    /\ part = "supervisor" \/ lead.snaps

(* The sockets are alike: the first dictation is on the first of them.     *)
FirstSocket == CHOOSE k \in Socket : TRUE
FirstIsFirst == \A k \in Socket : talk[k].id = 1 => k = FirstSocket

HelperNext ==
    \/ /\ part = "supervisor" /\ SupervisorNext
       /\ UNCHANGED <<signInVars, speechVars>>
    \/ /\ part = "sign-in" /\ SignInNext
       /\ UNCHANGED <<supervisorVars, speechVars>>
    \/ /\ part = "speech" /\ SpeechNext /\ FirstIsFirst'
       /\ UNCHANGED <<supervisorVars, signInVars>>

WorkspaceNext ==
    /\ \/ /\ part = "operations" /\ OpsNext
          /\ UNCHANGED <<attentionVars, helperVars>>
       \/ /\ part = "attention" /\ AttentionNext
          /\ UNCHANGED <<opsVars, helperVars>>
       \/ HelperNext /\ UNCHANGED <<opsVars, attentionVars>>
    /\ UNCHANGED part

(* The types of the parts.  A part that rests is as it was at the start.   *)
WorkspaceTypeOK ==
    /\ part = "operations" => OpsTypeOK
    /\ part = "attention" => AttentionTypeOK
    /\ part = "supervisor" => SupervisorTypeOK
    /\ part = "sign-in" => SignInTypeOK
    /\ part = "speech" => SpeechTypeOK

(* The fairness of OpsSpec, AttentionSpec, SupervisorSpec, SignInSpec and  *)
(* SpeechSpec, each for the behaviours that move its part.                 *)
WorkspaceSpec ==
    /\ WorkspaceInit /\ [][WorkspaceNext]_workspaceVars
    /\ WF_opsVars(part = "operations" /\ Retry)
    /\ WF_opsVars(part = "operations" /\ Runs)
    /\ WF_attentionVars(part = "attention" /\ TickStep)
    /\ WF_attentionVars(part = "attention" /\ Passes)
    /\ WF_supervisorVars(part = "supervisor" /\ SupervisorSteps)
    /\ WF_supervisorVars(part = "supervisor" /\ Forwards)
    /\ WF_supervisorVars(part = "supervisor" /\ Command)
    /\ WF_supervisorVars(part = "supervisor" /\ Reads)
    /\ WF_supervisorVars(part = "supervisor" /\ Watches)
    /\ WF_signInVars(part = "sign-in" /\ Watchers)
    /\ \A k \in Socket :
          /\ WF_speechVars(part = "speech" /\ BridgeLoops(k))
          /\ WF_speechVars(part = "speech" /\ SpeechClock(k))
=============================================================================
