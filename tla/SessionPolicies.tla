-------------------------- MODULE SessionPolicies --------------------------
(***************************************************************************)
(* The decisions of the client that involve no input or output: the legal  *)
(* lifecycle transitions, the classes of errors and which of them may be   *)
(* retried, what a received PDU reference means to the exchange that waits *)
(* for another one, and the next PDU reference.                            *)
(***************************************************************************)
EXTENDS Integers

CONSTANT ReferenceModulus   \* 2^16 in the code: PDU references are UInt16

ASSUME ReferenceModulusAssumption == ReferenceModulus \in Nat \ {0}

References == 0 .. ReferenceModulus - 1

-----------------------------------------------------------------------------
(* Lifecycle                                                               *)

LifecycleStates == {"connected", "disconnected", "closed"}
LifecycleEvents == {"transportClosed", "reconnected", "disconnect"}

Illegal == "illegal"

(* Only an explicit disconnect closes a client, and only a disconnected    *)
(* one, never a closed or a connected one, can be reconnected.             *)
Transition(state, event) ==
    CASE event = "disconnect"      -> "closed"
      [] event = "transportClosed" -> IF state = "closed" THEN "closed" ELSE "disconnected"
      [] event = "reconnected"     -> IF state = "disconnected" THEN "connected" ELSE Illegal

-----------------------------------------------------------------------------
(* ClientError and RetryPolicy                                             *)

ErrorKinds == {"invalidInput", "protocol", "plcRejected", "timeout",
               "disconnected", "lifecycle", "transport", "other"}

IsRetryable(kind) == kind \in {"timeout", "disconnected", "transport"}

AnyRetryPermitted(safety, allowMutating) == TRUE       \* faulty
RetryPermitted(safety, allowMutating) == safety = "readOnly" \/ allowMutating

NoRetry == -1

RetryBudgetAfter(remaining, closed, kind, safety, allowMutating) ==
    IF closed \/ remaining = 0 \/ ~IsRetryable(kind) \/ ~RetryPermitted(safety, allowMutating)
    THEN NoRetry
    ELSE remaining - 1

-----------------------------------------------------------------------------
(* Correlation                                                             *)

SameReference(reference) == reference                    \* faulty
NextReference(reference) == (reference + 1) % ReferenceModulus

(* What an incoming reference means while another is expected and allowance *)
(* more stale replies may be skipped.                                       *)
CorrelationStep(expected, allowance, incoming) ==
    CASE incoming = expected                   -> "deliver"
      [] incoming # expected /\ allowance = 0  -> "tooManyStale"
      [] incoming # expected /\ allowance # 0  -> "skipStale"
=============================================================================
