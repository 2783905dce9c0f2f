---------------------------- MODULE MCHistories ----------------------------
(***************************************************************************)
(* The two corpora of histories, one behaviour each: a behaviour tells     *)
(* either of an active request or of a conversation.                       *)
(***************************************************************************)
EXTENDS SessionHistories, ConversationHistories

VARIABLE about

historyVars == <<sessionVars, conversationVars, about>>

(* The corpus that a behaviour is not about stays at one initial state.    *)
Init ==
    /\ about \in {"session", "conversation"}
    /\ SessionInit /\ ConversationInit
    /\ about = "session" => script = NoScript
    /\ about = "conversation" =>
          /\ control = "none"
          /\ config = [write |-> FALSE, allow |-> FALSE, budget |-> 0, reference |-> 0,
                       locations |-> <<1>>]

Session      == about = "session" /\ SessionNext /\ UNCHANGED <<conversationVars, about>>
Conversation == about = "conversation" /\ ConversationNext /\ UNCHANGED <<sessionVars, about>>

Next == Session \/ Conversation
Spec == Init /\ [][Next]_historyVars

(* The controls of both self-tests end as they expect, whatever history a  *)
(* control is followed through; and validate() accepts what is told.       *)
ControlsEnd == ControlsHold /\ ConversationControls
=============================================================================
