------------------------------ MODULE MC_Host ------------------------------
(***************************************************************************)
(* The parts around the chats and tasks of one host, for TLC: the registry *)
(* file and its processes, the gate of web requests, the host's shared     *)
(* state, its push subscriptions and its chats, the way of a chat from the *)
(* agent to the browser, what the task list says of it, the clients of     *)
(* agents that speak JSON lines and ACP, the settings of a model, the shim *)
(* that keeps an agent alive, the terminals of browsers and operators, and *)
(* what an agent in a terminal leaves behind.  They share no variable; a   *)
(* behaviour moves one of them, chosen at the start.                       *)
(***************************************************************************)
EXTENDS RegistryStore, OperationGate, PushHub, WebState, SessionDirectory,
        SessionReplay, SessionActivity, NativeClient, AcpClient, ModelPin,
        SessionShim, TerminalBridge, TaskAttach, AgentEvidence

CONSTANTS web, cli, a, b

VARIABLE part

registryVars == <<storeVars, gateVars, hubVars, webVars, directoryVars>>
chatVars == <<replayVars, activityVars>>
agentVars == <<clientVars, shimVars, acpVars, pinVars>>
terminalVars == <<bridgeVars, out, attachVars, evidenceVars>>
hostVars == <<registryVars, chatVars, agentVars, terminalVars, part>>

(* A part that rests has one initial state.                                *)
HostInit ==
    /\ part \in {"store", "gate", "hub", "state", "directory", "replay",
                 "activity", "client", "shim", "acp", "pin", "bridge", "pipe",
                 "attach", "evidence"}
    /\ PinInit
    /\ \/ part = "pin"
       \/ /\ world = [offer |-> [id \in Id |-> PlainModel], names |-> "own"]
          /\ task.pin = Auto /\ bot.now.model = "m"
    /\ AcpInit
    /\ part = "acp" \/ (lp.caps = {} /\ ~lp.resuming)
    /\ StoreInit
    /\ part = "store" \/ disk = [t \in Tasks |-> NoTask]
    /\ DirectoryInit
    /\ part = "directory" \/ startup.at = "over"
    /\ GateInit /\ HubInit /\ WebInit /\ ReplayInit /\ ActivityInit
    /\ ClientInit /\ ShimInit /\ BridgeInit /\ PipeInit /\ AttachInit
    /\ EvidenceInit

RegistryNext ==
    \/ /\ part = "store" /\ StoreNext
       /\ UNCHANGED <<gateVars, hubVars, webVars, directoryVars>>
    \/ /\ part = "gate" /\ GateNext
       /\ UNCHANGED <<storeVars, hubVars, webVars, directoryVars>>
    \/ /\ part = "hub" /\ HubNext
       /\ UNCHANGED <<storeVars, gateVars, webVars, directoryVars>>
    \/ /\ part = "state" /\ WebNext
       /\ UNCHANGED <<storeVars, gateVars, hubVars, directoryVars>>
    \/ /\ part = "directory" /\ DirectoryNext
       /\ UNCHANGED <<storeVars, gateVars, hubVars, webVars>>

ChatNext ==
    \/ part = "replay" /\ ReplayNext /\ UNCHANGED activityVars
    \/ part = "activity" /\ ActivityNext /\ UNCHANGED replayVars

AgentNext ==
    \/ /\ part = "client" /\ ClientNext
       /\ UNCHANGED <<shimVars, acpVars, pinVars>>
    \/ /\ part = "shim" /\ ShimNext
       /\ UNCHANGED <<clientVars, acpVars, pinVars>>
    \/ /\ part = "acp" /\ AcpNext
       /\ UNCHANGED <<clientVars, shimVars, pinVars>>
    \/ /\ part = "pin" /\ PinNext
       /\ UNCHANGED <<clientVars, shimVars, acpVars>>

TerminalNext ==
    \/ /\ part = "bridge" /\ BridgeNext
       /\ UNCHANGED <<out, attachVars, evidenceVars>>
    \/ /\ part = "pipe" /\ PipeNext
       /\ UNCHANGED <<bridgeVars, attachVars, evidenceVars>>
    \/ /\ part = "attach" /\ AttachNext
       /\ UNCHANGED <<bridgeVars, out, evidenceVars>>
    \/ /\ part = "evidence" /\ EvidenceNext
       /\ UNCHANGED <<bridgeVars, out, attachVars>>

HostNext ==
    /\ \/ RegistryNext /\ UNCHANGED <<chatVars, agentVars, terminalVars>>
       \/ ChatNext /\ UNCHANGED <<registryVars, agentVars, terminalVars>>
       \/ AgentNext /\ UNCHANGED <<registryVars, chatVars, terminalVars>>
       \/ TerminalNext /\ UNCHANGED <<registryVars, chatVars, agentVars>>
    /\ UNCHANGED part

(* The types of the parts.  A part that rests is as it was at the start.   *)
HostTypeOK ==
    /\ part = "store" => StoreTypeOK
    /\ part = "gate" => GateTypeOK
    /\ part = "hub" => HubTypeOK
    /\ part = "state" => WebTypeOK
    /\ part = "directory" => DirectoryTypeOK
    /\ part = "replay" => ReplayTypeOK
    /\ part = "activity" => ActivityTypeOK
    /\ part = "client" => ClientTypeOK
    /\ part = "shim" => ShimTypeOK
    /\ part = "acp" => AcpTypeOK
    /\ part = "pin" => PinTypeOK
    /\ part = "bridge" => BridgeTypeOK
    /\ part = "attach" => AttachTypeOK
    /\ part = "evidence" => EvidenceTypeOK

(* The part that moves: the others are as they were at the start.          *)
HostView ==
    <<part, CASE part = "store" -> storeVars
              [] part = "gate" -> gateVars
              [] part = "hub" -> hubVars
              [] part = "state" -> webVars
              [] part = "directory" -> directoryVars
              [] part = "replay" -> replayVars
              [] part = "activity" -> activityVars
              [] part = "client" -> clientVars
              [] part = "shim" -> shimVars
              [] part = "acp" -> acpVars
              [] part = "pin" -> pinVars
              [] part = "bridge" -> bridgeVars
              [] part = "pipe" -> out
              [] part = "attach" -> attachVars
              [] part = "evidence" -> evidenceVars>>

HostSpec == HostInit /\ [][HostNext]_hostVars
=============================================================================
