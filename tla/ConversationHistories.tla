----------------------- MODULE ConversationHistories -----------------------
(***************************************************************************)
(* The primitives of a conversation (lifecycle, retry decision, write      *)
(* progress and the wire exchanges of writes and reads) in any order, told *)
(* by the oracle of the integration harness, conversation_conformance, and *)
(* by the client's own policies and codecs (ConversationConformance.step). *)
(***************************************************************************)
EXTENDS SessionPolicies, WriteProgress, SequencesExt, FiniteSets

CONSTANTS AreaEnd,           \* 16#200000# bytes in an area
          MaxItems,          \* 20
          MaxBytes,          \* 8191, what a 16-bit length of bits can hold
          MaxData,           \* 65535 bytes in the data section of a request
          Starts, ByteCounts, \* of the ranges that are asked for
          MaxEvents          \* 1024

ASSUME ConversationHistoriesAssumption ==
    /\ {AreaEnd, MaxItems, MaxBytes, MaxData, MaxEvents} \subseteq Nat \ {0}
    /\ Starts \subseteq 0 .. AreaEnd - 1 /\ ByteCounts \subseteq Nat

VARIABLES told,       \* the oracle: its state and its last result
          policies,   \* the client's policies: the same
          unasked,    \* history: what the last event read or acknowledged that was
                      \* never asked of a PLC
          script,     \* the control that is followed, if any
          fed         \* events so far

conversationVars == <<told, policies, unasked, script, fed>>

MemoryRanges == [start : Starts, count : ByteCounts]
NotAsked == -1

Ok                == [status |-> "accept"]
Permitted(answer) == [status |-> "accept", permitted |-> answer]
Payload(size)     == [status |-> "accept", payload |-> size]
Reject(category)  == [status |-> "reject", category |-> category]

-----------------------------------------------------------------------------
(* The events a corpus may hold.  Their bytes are left out: those of the   *)
(* client's encoders stand in the corpus, wire() refuses a corpus in which *)
(* the encoder of the oracle has others, so one encoder is enough here.    *)

LifecycleStep(event) == [operation |-> "lifecycle", event |-> event]
RetryStep(safety, allow, kind, remaining) ==
    [operation |-> "retry", safety |-> safety, allow |-> allow, kind |-> kind,
     remaining |-> remaining]
SendStep(reference, locations) ==
    [operation |-> "send", reference |-> reference, locations |-> locations]
AcknowledgeStep(reference, count, codes) ==
    [operation |-> "acknowledge", reference |-> reference, count |-> count, codes |-> codes]
ReadStep(reference, range, size) ==
    [operation |-> "read", reference |-> reference, range |-> range, size |-> size]

Sequences(S, length) == UNION {[1 .. n -> S] : n \in 0 .. length}

Steps ==
    {LifecycleStep(event) : event \in LifecycleEvents}
    \union {RetryStep(safety, allow, kind, remaining) :
              safety \in {"readOnly", "potentiallyMutating"}, allow \in BOOLEAN,
              kind \in ErrorKinds, remaining \in {0, 1}}
    \union {SendStep(reference, locations) :
              reference \in References, locations \in Sequences(MemoryRanges, MaxItems)}
    \union {AcknowledgeStep(reference, count, codes) :
              reference \in References, count \in 0 .. MaxItems,
              codes \in Sequences({Success, 5}, MaxItems)}
    \union {ReadStep(reference, range, size) :
              reference \in References, range \in MemoryRanges, size \in 0 .. MaxBytes}

(* Each item of a write has a header of four bytes and, unless it is the   *)
(* last one, even length.                                                  *)
WriteData(ranges) ==
    MapThenSumSet(LAMBDA i : 4 + ranges[i].count
                               + IF i < Len(ranges) THEN ranges[i].count % 2 ELSE 0,
                  DOMAIN ranges)

(* request(): what the encoder of the oracle can put on the wire.          *)
Encodes(ranges, write) ==
    /\ ranges # <<>> /\ Len(ranges) <= MaxItems
    /\ \A i \in DOMAIN ranges :
          /\ ranges[i].count # 0 /\ ranges[i].start + ranges[i].count <= AreaEnd
          /\ write => ranges[i].count <= MaxBytes
    /\ write => WriteData(ranges) <= MaxData

(* Exchanges no PLC was asked for: the read of a range that begins inside  *)
(* the area and ends beyond it, and the acknowledgement of no write.       *)
BeyondArea(range) == range.count # 0 /\ range.start + range.count > AreaEnd
Unasked(step) ==
    CASE step.operation = "read" /\ BeyondArea(step.range)          -> "read"
      [] step.operation = "acknowledge" /\ told.pending = <<>>      -> "acknowledgement"
      [] OTHER                                                      -> "none"

-----------------------------------------------------------------------------
(* The oracle                                                              *)

ToldLifecycle(event) ==
    CASE event = "disconnect" -> [told EXCEPT !.lifecycle = "closed", !.result = Ok]
      [] event = "transportClosed" ->
            [told EXCEPT !.lifecycle = IF @ = "closed" THEN @ ELSE "disconnected", !.result = Ok]
      [] event = "reconnected" ->
            IF told.lifecycle = "disconnected"
            THEN [told EXCEPT !.lifecycle = "connected", !.result = Ok]
            ELSE [told EXCEPT !.result = Reject("lifecycle-transition")]

Settling(outcomes) ==
    [told EXCEPT !.pending = <<>>, !.reference = NotAsked,
                 !.history = @ \o [i \in DOMAIN told.pending |->
                                     [location |-> told.pending[i], outcome |-> outcomes[i]]]]

UnsettledRetry(step) == [told EXCEPT !.result = Permitted(                    \* faulty
    /\ step.remaining > 0 /\ IsRetryable(step.kind)
    /\ step.safety = "readOnly" \/ step.allow)]
ToldRetry(step) ==
    LET permitted == /\ told.lifecycle # "closed" /\ step.remaining > 0
                     /\ step.kind \in {"timeout", "disconnected", "transport"}
                     /\ step.safety = "readOnly" \/ step.allow
    IN  [(IF permitted /\ step.safety = "potentiallyMutating"
          THEN Settling([i \in DOMAIN told.pending |-> "replayedUnknown"]) ELSE told)
            EXCEPT !.result = Permitted(permitted)]

ToldSend(step) ==
    IF told.lifecycle # "connected" THEN [told EXCEPT !.result = Reject("not-connected")]
    ELSE IF ~Encodes(step.locations, TRUE) THEN [told EXCEPT !.result = Reject("request-codec")]
    ELSE IF told.pending # <<>> THEN [told EXCEPT !.result = Reject("write-progress")]
    ELSE [told EXCEPT !.pending = step.locations, !.reference = step.reference, !.result = Ok]

ToldAcknowledge(step) ==
    IF told.lifecycle # "connected" THEN [told EXCEPT !.result = Reject("not-connected")]
    ELSE IF \/ told.reference # NotAsked /\ step.reference # told.reference
            \/ step.count # Len(told.pending) \/ Len(step.codes) # Len(told.pending)
    THEN [told EXCEPT !.result = Reject("response-codec")]
    ELSE [Settling([i \in DOMAIN step.codes |-> ItemOutcome(step.codes[i])]) EXCEPT !.result = Ok]

ToldRead(step) ==
    [told EXCEPT !.result =
        IF told.lifecycle # "connected" THEN Reject("not-connected")
        ELSE IF told.pending # <<>> THEN Reject("write-pending")
        ELSE IF step.range.count = 0 THEN Reject("request-codec")
        ELSE IF step.size # step.range.count THEN Reject("response-codec")
        ELSE Payload(step.size)]

ToldStep(step) ==
    CASE step.operation = "lifecycle"   -> ToldLifecycle(step.event)
      [] step.operation = "retry"       -> ToldRetry(step)
      [] step.operation = "send"        -> ToldSend(step)
      [] step.operation = "acknowledge" -> ToldAcknowledge(step)
      [] step.operation = "read"        -> ToldRead(step)

ToldAttempts ==
    told.history \o [i \in DOMAIN told.pending |->
                       [location |-> told.pending[i], outcome |-> "pending"]]

-----------------------------------------------------------------------------
(* The client's policies and codecs                                        *)

Answer(result) == [policies EXCEPT !.result = result]
Offline == policies.lifecycle # "connected"

PolicyAcknowledge(step) ==
    LET expected == Len(policies.progress.pending)
        decodes  == /\ expected # 0 /\ expected <= MaxItems
                    /\ step.reference = IF policies.reference = NotAsked THEN step.reference
                                        ELSE policies.reference
                    /\ step.count = expected /\ Len(step.codes) = expected
        results  == [i \in DOMAIN step.codes |-> ItemOutcome(step.codes[i])]
    IN  IF ~decodes THEN Answer(Reject("response-codec"))
        ELSE IF ~MayAcknowledge(policies.progress, results) THEN Answer(Reject("write-progress"))
        ELSE [Answer(Ok) EXCEPT !.progress = Acknowledge(@, results), !.reference = NotAsked]

PolicyStep(step) ==
    CASE step.operation = "lifecycle" ->
            LET next == Transition(policies.lifecycle, step.event)
            IN  IF next = Illegal THEN Answer(Reject("lifecycle-transition"))
                ELSE [Answer(Ok) EXCEPT !.lifecycle = next]
      [] step.operation = "retry" ->
            LET permitted == RetryBudgetAfter(step.remaining, policies.lifecycle = "closed",
                                              step.kind, step.safety, step.allow) # NoRetry
            IN  IF permitted /\ step.safety = "potentiallyMutating"
                THEN [Answer(Permitted(TRUE)) EXCEPT !.progress = Replay(@), !.reference = NotAsked]
                ELSE Answer(Permitted(permitted))
      [] step.operation # "lifecycle" /\ step.operation # "retry" /\ Offline ->
            Answer(Reject("not-connected"))
      [] step.operation = "send" /\ ~Offline ->
            IF ~Encodes(step.locations, TRUE) THEN Answer(Reject("request-codec"))
            ELSE IF ~MaySend(policies.progress, step.locations)
            THEN Answer(Reject("write-progress"))
            ELSE [Answer(Ok) EXCEPT !.progress = Sent(@, step.locations),
                                    !.reference = step.reference]
      [] step.operation = "acknowledge" /\ ~Offline -> PolicyAcknowledge(step)
      [] step.operation = "read" /\ ~Offline ->
            IF policies.progress.pending # <<>> THEN Answer(Reject("write-pending"))
            ELSE IF ~Encodes(<<step.range>>, FALSE) THEN Answer(Reject("request-codec"))
            ELSE IF step.size # step.range.count THEN Answer(Reject("response-codec"))
            ELSE Answer(Payload(step.size))

-----------------------------------------------------------------------------
(* The controls of the self-test                                           *)

Scripts == {"conservative", "opt-in", "resurrection"}

ScriptSteps(name, pair) ==
    LET write == SendStep(0, pair)
        timeout(allow) == RetryStep("potentiallyMutating", allow, "timeout", 1)
    IN  CASE name = "conservative" -> <<write, LifecycleStep("transportClosed"), timeout(FALSE)>>
          [] name = "opt-in"       -> <<write, timeout(TRUE)>>
          [] name = "resurrection" -> <<LifecycleStep("disconnect"), LifecycleStep("reconnected")>>

NoScript == [name |-> "none", steps |-> <<>>]
Writable == {pair \in MemoryRanges \X MemoryRanges : Encodes(pair, TRUE)}
ScriptChoices ==
    {[name |-> name, steps |-> ScriptSteps(name, pair)] : name \in Scripts, pair \in Writable}

ScriptEnds(name) ==
    LET outcomes == [i \in DOMAIN ToldAttempts |-> ToldAttempts[i].outcome]
    IN  CASE name = "conservative" ->
                told.result = Permitted(FALSE) /\ outcomes = <<"pending", "pending">>
          [] name = "opt-in" -> outcomes = <<"replayedUnknown", "replayedUnknown">>
          [] name = "resurrection" ->
                told.result = Reject("lifecycle-transition") /\ told.lifecycle = "closed"

(* expectation(): the steps that the corpus may be told to expect.         *)
Expectable(lifecycle, attempts, result) ==
    /\ lifecycle \in {"connected", "disconnected", "closed"}
    /\ Len(attempts) <= MaxItems * MaxEvents
    /\ \A i \in DOMAIN attempts :
          /\ attempts[i].location \in MemoryRanges
          /\ attempts[i].outcome \in
                {"pending", "replayedUnknown", "globalRejected", "success", "itemRejected"}
    /\ \/ result.status = "reject" /\ DOMAIN result = {"status", "category"}
       \/ /\ result.status = "accept"
          /\ \/ DOMAIN result = {"status", "permitted"} /\ result.permitted \in BOOLEAN
             \/ DOMAIN result = {"status", "payload"} /\ result.payload \in 0 .. MaxBytes
             \/ DOMAIN result = {"status"}

-----------------------------------------------------------------------------

ConversationInit ==
    /\ told = [lifecycle |-> "connected", history |-> <<>>, pending |-> <<>>,
               reference |-> NotAsked, result |-> Ok]
    /\ policies = [lifecycle |-> "connected", progress |-> NoProgress,
                   reference |-> NotAsked, result |-> Ok]
    /\ unasked = "none" /\ fed = 0
    /\ script \in {NoScript} \union ScriptChoices

Hear(step) ==
    /\ told' = ToldStep(step)
    /\ policies' = PolicyStep(step)
    /\ unasked' = Unasked(step)
    /\ fed' = fed + 1
    /\ UNCHANGED script

HearAny == script = NoScript /\ fed < MaxEvents /\ \E step \in Steps : Hear(step)

HearScript == script # NoScript /\ fed < Len(script.steps) /\ Hear(script.steps[fed + 1])

ConversationNext == HearAny \/ HearScript

-----------------------------------------------------------------------------
(* Properties                                                              *)

(* The oracle of conversation_conformance tells of every conversation what *)
(* the client's primitives do: the same lifecycle, the same attempts of    *)
(* writes and the same result of every event.  Only an exchange that no    *)
(* PLC was asked for may be answered otherwise: of a read beyond its area  *)
(* the oracle looks at the answer, the client at the request; and of no    *)
(* items the oracle takes an empty answer, which the client's decoder      *)
(* refuses.                                                                *)
ConversationAgreesOnRequests ==
    /\ told.lifecycle = policies.lifecycle
    /\ ToldAttempts = Trace(policies.progress)
    /\ \/ told.result = policies.result
       \/ /\ unasked = "read" /\ policies.result = Reject("request-codec")
          /\ "payload" \in DOMAIN told.result \/ told.result = Reject("response-codec")
       \/ /\ unasked = "acknowledgement" /\ policies.result = Reject("response-codec")
          /\ told.result = Ok /\ told.pending = <<>>

(* A read encodes its request before it decodes an answer, says the        *)
(* description of the corpus: the oracle accepts no exchange whose request *)
(* the client's codec refuses to encode.                                   *)
UnencodableIsRefused ==
    policies.result = Reject("request-codec") => told.result.status = "reject"

(* The controls of the self-test end as it expects, and validate() accepts *)
(* every step that the oracle tells of.                                    *)
ConversationControls ==
    /\ Expectable(told.lifecycle, ToldAttempts, told.result)
    /\ script # NoScript /\ fed = Len(script.steps) => ScriptEnds(script.name)
=============================================================================
