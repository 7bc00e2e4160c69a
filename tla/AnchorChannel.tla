--------------------------- MODULE AnchorChannel ---------------------------
(***************************************************************************)
(* What the boot driver and the commit path are promised by their          *)
(* transport (trait BootRelayChannel, agent_boot_relay.rs): a call sends   *)
(* one frame and comes back with the anchor's answer to that frame, or     *)
(* with an error that says nothing. The anchor may act on a frame whose    *)
(* call has failed. A call always comes back.                              *)
(***************************************************************************)
CONSTANTS Enclaves,     \* the callers
          Frames,       \* the request frames; each call has its own
          NoFrame       \* no call is under way

VARIABLES pending,      \* the frame each caller waits on
          begun,        \* frames of the calls so far
          answered,     \* frames the anchor answered
          returned      \* frames whose answer a call came back with

vars == <<pending, begun, answered, returned>>

Init ==
    /\ pending = [g \in Enclaves |-> NoFrame]
    /\ begun = {}
    /\ answered = {}
    /\ returned = {}

Begin(g, f) ==
    /\ pending[g] = NoFrame
    /\ f \notin begun
    /\ pending' = [pending EXCEPT ![g] = f]
    /\ begun' = begun \cup {f}
    /\ UNCHANGED <<answered, returned>>

\* Also after the call has failed.
Answer(f) ==
    /\ f \in begun \ answered
    /\ answered' = answered \cup {f}
    /\ UNCHANGED <<pending, begun, returned>>

Return(g) ==
    /\ pending[g] \in answered \ returned
    /\ returned' = returned \cup {pending[g]}
    /\ pending' = [pending EXCEPT ![g] = NoFrame]
    /\ UNCHANGED <<begun, answered>>

Fail(g) ==
    /\ pending[g] # NoFrame
    /\ pending' = [pending EXCEPT ![g] = NoFrame]
    /\ UNCHANGED <<begun, answered, returned>>

End(g) == Return(g) \/ Fail(g)

Next ==
    \/ \E g \in Enclaves :
        \/ \E f \in Frames : Begin(g, f)
        \/ End(g)
    \/ \E f \in Frames : Answer(f)

Fairness == \A g \in Enclaves : WF_vars(End(g))

Spec == Init /\ [][Next]_vars /\ Fairness
=============================================================================
