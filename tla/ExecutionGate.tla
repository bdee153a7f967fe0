--------------------------- MODULE ExecutionGate ---------------------------
(***************************************************************************)
(* What the admission gate of a resident Pet promises, without its queue,  *)
(* its slot, its reads or its states: a dispatch executes alone, at most   *)
(* once; conversations may execute together; a conversation that asked to  *)
(* execute goes before every dispatch that has not started.                *)
(* (The comments of services/host/src/host/residentPetCoordinator.ts at    *)
(* the class, at holdForConversation and in drain.)                        *)
(***************************************************************************)
CONSTANTS Dispatches, Conversations

VARIABLES
    started,    \* dispatches that have executed, or are executing
    executing,  \* dispatches executing now
    asking,     \* conversations waiting to execute
    talking     \* conversations executing now

gateVars == <<started, executing, asking, talking>>

GateTypeOK ==
    /\ started \subseteq Dispatches
    /\ executing \subseteq started
    /\ asking \subseteq Conversations
    /\ talking \subseteq Conversations

GateInit ==
    started = {} /\ executing = {} /\ asking = {} /\ talking = {}

StartDispatch(d) ==
    /\ d \notin started
    /\ executing = {} /\ asking = {} /\ talking = {}
    /\ started' = started \cup {d}
    /\ executing' = {d}
    /\ UNCHANGED <<asking, talking>>

FinishDispatch(d) ==
    /\ d \in executing
    /\ executing' = executing \ {d}
    /\ UNCHANGED <<started, asking, talking>>

Ask(c) ==
    /\ c \notin asking \cup talking
    /\ asking' = asking \cup {c}
    /\ UNCHANGED <<started, executing, talking>>

StartTalking(c) ==
    /\ c \notin talking
    /\ executing = {}
    /\ asking' = asking \ {c}
    /\ talking' = talking \cup {c}
    /\ UNCHANGED <<started, executing>>

StopTalking(c) ==
    /\ c \in talking
    /\ talking' = talking \ {c}
    /\ UNCHANGED <<started, executing, asking>>

GateNext ==
    \/ \E d \in Dispatches : StartDispatch(d) \/ FinishDispatch(d)
    \/ \E c \in Conversations : Ask(c) \/ StartTalking(c) \/ StopTalking(c)

GateSpec == GateInit /\ [][GateNext]_gateVars

\* An execution ends, and a conversation that asked is let in.
GateFairness ==
    /\ \A d \in Dispatches : WF_gateVars(FinishDispatch(d))
    /\ \A c \in Conversations :
          WF_gateVars(c \in asking /\ StartTalking(c)) /\ WF_gateVars(StopTalking(c))

FairGateSpec == GateSpec /\ GateFairness

\* A dispatch executes alone.
ExecutesAlone ==
    executing # {} =>
        talking = {} /\ \A d, e \in executing : d = e
=============================================================================
