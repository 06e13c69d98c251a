---------------------------- MODULE NodeCommands ----------------------------
(***************************************************************************)
(* What the node protocol promises about commands, without sessions,       *)
(* streams, agents or crashes (capability.NodeRuntime, node.Operation):    *)
(*  - a command is outstanding from the moment it is recorded until it is  *)
(*    settled, and is settled once (a refused preparation may be asked     *)
(*    again, which makes it outstanding again);                            *)
(*  - a launch starts at most one container, and only while its command is *)
(*    outstanding;                                                         *)
(*  - a preparation acknowledged as applied really left its content.       *)
(* NodeAgent is shown to implement this specification.                     *)
(***************************************************************************)
EXTENDS Naturals

CONSTANTS Launches, Stops, Preparations    \* operation identities, by kind

Op == Launches \cup Stops \cup Preparations

VARIABLES command,    \* how far each command has travelled
          took        \* how often each of the first and last kind took effect
cvars == <<command, took>>

CInit == command = [o \in Op |-> "none"] /\ took = [o \in Launches \cup Preparations |-> 0]

Issue(o) ==
    /\ command[o] = "none" \/ (o \in Preparations /\ command[o] = "refused")
    /\ command' = [command EXCEPT ![o] = "pending"]
    /\ UNCHANGED took

(* Content already there is there: preparing twice is preparing once. *)
TakeEffect(o) ==
    /\ took[o] = 0
    /\ command[o] = "pending" \/ (o \in Preparations /\ command[o] # "none")
    /\ took' = [took EXCEPT ![o] = 1]
    /\ UNCHANGED command

Settle(o, outcome) ==
    /\ command[o] = "pending"
    /\ (o \in Preparations /\ outcome = "applied") => took[o] = 1
    /\ command' = [command EXCEPT ![o] = outcome]
    /\ UNCHANGED took

CNext ==
    \/ \E o \in Op : Issue(o) \/ \E outcome \in {"applied", "refused"} : Settle(o, outcome)
    \/ \E o \in Launches \cup Preparations : TakeEffect(o)

CSpec == CInit /\ [][CNext]_cvars
=============================================================================
