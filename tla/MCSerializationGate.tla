------------------------ MODULE MCSerializationGate ------------------------
(***************************************************************************)
(* Three threads that share one client make up to eight calls: every     *)
(* thread can be overtaken between taking its ticket and binding its task, *)
(* and one thread can call again while the others are still queued.        *)
(***************************************************************************)
EXTENDS SerializationGate

CONSTANTS c1, c2, c3

MCCallers == {c1, c2, c3}
=============================================================================
