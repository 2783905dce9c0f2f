-------------------------- MODULE SessionHistories --------------------------
(***************************************************************************)
(* The life of one active request, told twice: by the oracle of the        *)
(* integration harness (session_conformance.trace, decoding responses for  *)
(* itself) and by the client's own policies (SessionConformance.step, over *)
(* RetryPolicy, WriteProgress and the S7 decoders).  Both are fed the same *)
(* events, those that session_fuzz.generate draws or those of the fixed    *)
(* controls, and must tell the same story.                                 *)
(***************************************************************************)
EXTENDS SessionPolicies, WriteProgress, SequencesExt, FiniteSets, TLC

CONSTANTS MaxBudget, MaxWidth    \* bounds: 16 retries and 20 items in the code

ASSUME SessionHistoriesAssumption == MaxBudget \in Nat /\ MaxWidth \in Nat \ {0}

NoReference == -1

(* A location stands for its range, whose size in bytes is its number.     *)
Ranges == {1, 2}

Configurations ==
    [write : BOOLEAN, allow : BOOLEAN, budget : 0 .. MaxBudget, reference : References,
     locations : UNION {[1 .. width -> Ranges] : width \in 1 .. MaxWidth}]

VARIABLES config, control,    \* never change
          done,               \* events fed so far, by a control
          oracle, model       \* what either makes of them

sessionVars == <<config, control, done, oracle, model>>

Width == Len(config.locations)

-----------------------------------------------------------------------------
(* Events, and the answers of a PLC                                        *)

Accepted           == [status |-> "accept"]
Decided(retry)     == [status |-> "accept", retry |-> retry]
Rejected(category) == [status |-> "reject", category |-> category]

(* An item of a read answer; its 16-bit length is one cell.                *)
ItemBytes(code, transport, bits, size, last) ==
    <<code, transport, bits>> \o [i \in 1 .. size |-> 0]
        \o (IF ~last /\ size % 2 = 1 THEN <<0>> ELSE <<>>)

Items(item) ==
    IF config.write THEN {<<Success>>, <<5>>}
    ELSE {ItemBytes(Success, 4, 8 * config.locations[item], config.locations[item], item = Width)}
         \union {ItemBytes(5, transport, IF transport = 9 THEN size ELSE 8 * size, size, item = Width) :
                    transport \in {4, 9}, size \in {0, 1}}

Reply(data) ==
    [header |-> TRUE, protocol |-> TRUE, kind |-> 3, reference |-> config.reference,
     sized |-> TRUE, error |-> FALSE, parameters |-> <<IF config.write THEN 5 ELSE 4, Width>>,
     data |-> data]

(* The mutations of the fuzzer; reserved header bytes remain opaque.       *)
Mutations(reply) ==
    {reply,
     [reply EXCEPT !.protocol = FALSE], [reply EXCEPT !.kind = 7], [reply EXCEPT !.kind = 2],
     [reply EXCEPT !.reference = (@ + 1) % ReferenceModulus],
     [reply EXCEPT !.parameters[1] = 9 - @], [reply EXCEPT !.parameters[2] = @ + 1],
     [reply EXCEPT !.header = FALSE], [reply EXCEPT !.sized = FALSE],
     [reply EXCEPT !.error = TRUE], [reply EXCEPT !.data = <<>>]}
    \union (IF config.write THEN {}
            ELSE {[reply EXCEPT !.data[2] = 7], [reply EXCEPT !.data[3] = IF @ % 2 = 0 THEN @ + 1 ELSE @]})

Replies ==
    {Reply(FlattenSeq(items)) : items \in
        {sequence \in [1 .. Width -> UNION {Items(item) : item \in 1 .. Width}] :
            \A item \in 1 .. Width : sequence[item] \in Items(item)}}
Responses == UNION {Mutations(reply) : reply \in Replies}

Event(operation) == [operation |-> operation]
Failure(kind) == [operation |-> "failure", kind |-> kind]
Response(pdu) == [operation |-> "response", pdu |-> pdu]

(* What may be drawn next: the legal events of the phase or, now and then, *)
(* any event at all.                                                       *)
Generated(phase) ==
    {Event(operation) : operation \in
        {"begin", "send", "reconnect-setup", "reconnected", "disconnect"}}
    \union {Failure(kind) : kind \in
        CASE phase = "awaiting" -> {"timeout", "transport", "disconnected", "protocol", "plcRejected"}
          [] phase \in {"reconnectCotp", "reconnectSetup"} -> {"timeout", "transport", "disconnected"}
          [] OTHER -> {"timeout"}}
    \union {Response(pdu) : pdu \in Responses}

-----------------------------------------------------------------------------
(* The oracle                                                              *)

OracleInit ==
    [lifecycle |-> "connected", phase |-> "idle", remaining |-> 0, sends |-> 0,
     active |-> NoReference, history |-> <<>>, pending |-> <<>>, result |-> Accepted]

(* Where an item of a read answer ends, if it decodes.                     *)
Malformed == -1
OracleItem(data, item, offset) ==
    IF offset = Malformed \/ offset + 3 > Len(data) THEN Malformed
    ELSE LET code == data[offset + 1]
             transport == data[offset + 2]
             length == data[offset + 3]
             size == IF transport = 9 THEN length ELSE length \div 8
             end  == offset + 3 + size
             padded == item < Width /\ size % 2 = 1
         IN  IF \/ transport # 9 /\ length % 8 # 0
                \/ end > Len(data)
                \/ padded /\ end = Len(data)
                \/ code = Success /\ (transport # 4 \/ size # config.locations[item])
             THEN Malformed
             ELSE IF padded THEN end + 1 ELSE end

OracleItems(data) ==
    LET end[item \in 0 .. Width] ==
          IF item = 0 THEN 0 ELSE OracleItem(data, item, end[item - 1])
    IN  end[Width]

(* response(): the error of an answer, "none" for one that is accepted.    *)
OracleError(pdu) ==
    CASE ~pdu.header \/ ~pdu.protocol \/ pdu.kind \notin {2, 3} \/ ~pdu.sized -> "protocol"
      [] pdu.header /\ pdu.protocol /\ pdu.kind \in {2, 3} /\ pdu.sized ->
         CASE pdu.reference # config.reference -> "protocol"
           [] pdu.reference = config.reference /\ pdu.error -> "plcRejected"
           [] OTHER ->
              IF /\ pdu.parameters = <<IF config.write THEN 5 ELSE 4, Width>>
                 /\ IF config.write THEN Len(pdu.data) = Width
                                    ELSE OracleItems(pdu.data) = Len(pdu.data)
              THEN "none" ELSE "protocol"

OracleFinish(state, outcomes) ==
    [state EXCEPT !.pending = <<>>,
                  !.history = @ \o [i \in DOMAIN state.pending |->
                                      [location |-> state.pending[i], outcome |-> outcomes[i]]]]
Everywhere(outcome) == [i \in 1 .. Width |-> outcome]

ForgetfulFail(state, kind) ==                           \* faulty
    IF state.remaining > 0 /\ IsRetryable(kind) /\ (~config.write \/ config.allow)
    THEN [state EXCEPT !.remaining = @ - 1, !.lifecycle = "disconnected",
                       !.phase = "reconnectCotp", !.result = Decided(TRUE)]
    ELSE [state EXCEPT !.lifecycle = "disconnected", !.phase = "failed",
                       !.active = NoReference, !.result = Decided(FALSE)]
OracleFail(state, kind) ==
    IF /\ state.lifecycle # "closed" /\ state.remaining > 0
       /\ kind \in {"timeout", "disconnected", "transport"}
       /\ ~config.write \/ config.allow
    THEN [(IF config.write /\ state.phase = "awaiting"
           THEN OracleFinish(state, Everywhere("replayedUnknown")) ELSE state)
             EXCEPT !.remaining = @ - 1, !.lifecycle = "disconnected",
                    !.phase = "reconnectCotp", !.result = Decided(TRUE)]
    ELSE [(IF config.write /\ kind = "plcRejected" /\ state.phase = "awaiting"
           THEN OracleFinish(state, Everywhere("globalRejected")) ELSE state)
             EXCEPT !.lifecycle = "disconnected", !.phase = "failed",
                    !.active = NoReference, !.result = Decided(FALSE)]

OracleBegin(state) ==
    IF state.lifecycle # "connected" THEN [state EXCEPT !.result = Rejected("not-connected")]
    ELSE IF state.active # NoReference THEN [state EXCEPT !.result = Rejected("already-active")]
    ELSE [OracleInit EXCEPT !.remaining = config.budget, !.active = config.reference,
                            !.phase = "ready"]

OracleSend(state) ==
    IF state.lifecycle # "connected" \/ state.active = NoReference \/ state.phase # "ready"
    THEN [state EXCEPT !.result = Rejected("send-phase")]
    ELSE IF config.write /\ state.pending # <<>>
    THEN [state EXCEPT !.result = Rejected("write-progress")]
    ELSE [state EXCEPT !.pending = IF config.write THEN config.locations ELSE @,
                       !.sends = @ + 1, !.phase = "awaiting", !.result = Accepted]

OracleFailure(state, kind) ==
    IF /\ state.active # NoReference
       /\ state.phase \in {"awaiting", "reconnectCotp", "reconnectSetup"}
    THEN OracleFail(state, kind)
    ELSE [state EXCEPT !.result = Rejected("failure-phase")]

OracleReconnectSetup(state) ==
    IF state.active = NoReference \/ state.phase # "reconnectCotp"
    THEN [state EXCEPT !.result = Rejected("reconnect-phase")]
    ELSE [state EXCEPT !.phase = "reconnectSetup", !.result = Accepted]

OracleReconnected(state) ==
    IF \/ state.active = NoReference \/ state.phase # "reconnectSetup"
       \/ state.lifecycle # "disconnected"
    THEN [state EXCEPT !.result = Rejected("reconnect-phase")]
    ELSE [state EXCEPT !.lifecycle = "connected", !.phase = "ready", !.result = Accepted]

Outcomes(data) == [i \in DOMAIN data |-> ItemOutcome(data[i])]

OracleResponse(state, pdu) ==
    IF state.lifecycle # "connected" \/ state.active = NoReference \/ state.phase # "awaiting"
    THEN [state EXCEPT !.result = Rejected("response-phase")]
    ELSE IF OracleError(pdu) # "none"
    THEN [OracleFail(state, OracleError(pdu)) EXCEPT !.result = Rejected("response-codec")]
    ELSE [(IF config.write THEN OracleFinish(state, Outcomes(pdu.data)) ELSE state)
             EXCEPT !.active = NoReference, !.phase = "completed", !.result = Accepted]

Resurrecting(state) == [state EXCEPT !.active = NoReference, !.phase = "closed"]  \* faulty
OracleDisconnect(state) ==
    [state EXCEPT !.lifecycle = "closed", !.active = NoReference, !.phase = "closed",
                  !.result = Accepted]

OracleTrace(state, event) ==
    CASE event.operation = "begin"           -> OracleBegin(state)
      [] event.operation = "send"            -> OracleSend(state)
      [] event.operation = "failure"         -> OracleFailure(state, event.kind)
      [] event.operation = "reconnect-setup" -> OracleReconnectSetup(state)
      [] event.operation = "reconnected"     -> OracleReconnected(state)
      [] event.operation = "response"        -> OracleResponse(state, event.pdu)
      [] event.operation = "disconnect"      -> OracleDisconnect(state)

Attempts(state) ==
    state.history \o [i \in DOMAIN state.pending |->
                        [location |-> state.pending[i], outcome |-> "pending"]]

-----------------------------------------------------------------------------
(* The client's policies                                                   *)

ModelInit ==
    [lifecycle |-> "connected", phase |-> "idle", remaining |-> 0, sends |-> 0,
     active |-> NoReference, progress |-> NoProgress, result |-> Accepted]

Refused(state, category) == [state EXCEPT !.result = Rejected(category)]

(* A cursor over the data: what is left after one item, or Bad.         *)
Bad == <<-1>>
Dropped(cells, n) == IF n > Len(cells) THEN Bad ELSE SubSeq(cells, n + 1, Len(cells))

ReadItem(cells, item) ==
    IF cells = Bad \/ Len(cells) < 3 THEN Bad
    ELSE LET size == IF cells[2] = 9 THEN cells[3] ELSE cells[3] \div 8
             rest == Dropped(SubSeq(cells, 4, Len(cells)), size)
             next == IF item < Width /\ size % 2 = 1 /\ rest # Bad THEN Dropped(rest, 1) ELSE rest
         IN  IF \/ cells[2] # 9 /\ cells[3] % 8 # 0
                \/ cells[1] = Success /\ (cells[2] # 4 \/ size # config.locations[item])
             THEN Bad ELSE next

ReadItems(cells) ==
    LET left[item \in 0 .. Width] ==
          IF item = 0 THEN cells ELSE ReadItem(left[item - 1], item)
    IN  left[Width]

Decodes(pdu) ==
    IF config.write THEN Len(pdu.data) = Width ELSE ReadItems(pdu.data) = <<>>

(* decodeResponse, validateResponse and the decoders of the items.         *)
DecodeKind(pdu) ==
    CASE ~(pdu.header /\ pdu.protocol /\ pdu.kind \in {2, 3} /\ pdu.sized) -> "protocol"
      [] pdu.reference # config.reference -> "protocol"
      [] pdu.error /\ pdu.reference = config.reference /\ pdu.header /\ pdu.protocol
            /\ pdu.kind \in {2, 3} /\ pdu.sized -> "plcRejected"
      [] OTHER -> IF /\ pdu.parameters[1] = (IF config.write THEN 5 ELSE 4)
                     /\ pdu.parameters[2] = Width
                     /\ Decodes(pdu)
                  THEN "none" ELSE "protocol"

Safety == IF config.write THEN "potentiallyMutating" ELSE "readOnly"

ModelFailure(state, kind) ==
    LET budget == RetryBudgetAfter(state.remaining, state.lifecycle = "closed", kind, Safety,
                                   config.allow)
        inFlight == config.write /\ state.phase = "awaiting"
    IN  IF budget # NoRetry
        THEN [state EXCEPT !.remaining = budget, !.lifecycle = "disconnected",
                           !.phase = "reconnectCotp", !.result = Decided(TRUE),
                           !.progress = IF inFlight THEN Replay(@) ELSE @]
        ELSE [state EXCEPT !.lifecycle = Transition(@, "transportClosed"),
                           !.active = NoReference,
                           !.phase = IF state.lifecycle = "closed" THEN "closed" ELSE "failed",
                           !.result = Decided(FALSE),
                           !.progress = IF inFlight /\ kind = "plcRejected"
                                        THEN GlobalReject(@) ELSE @]

ModelResponse(state, pdu) ==
    IF DecodeKind(pdu) # "none"
    THEN Refused(ModelFailure(state, DecodeKind(pdu)), "response-codec")
    ELSE [state EXCEPT !.active = NoReference, !.phase = "completed", !.result = Accepted,
                       !.progress = IF config.write THEN Acknowledge(@, Outcomes(pdu.data)) ELSE @]

(* The phases in which an event is legal, and what it is refused with.     *)
ModelStep(state, event) ==
    LET operation == event.operation
        running == state.active # NoReference
    IN
    CASE operation = "begin" ->
            IF state.lifecycle # "connected" THEN Refused(state, "not-connected")
            ELSE IF running THEN Refused(state, "already-active")
            ELSE [ModelInit EXCEPT !.remaining = config.budget, !.active = config.reference,
                                   !.phase = "ready"]
      [] operation = "send" ->
            IF state.lifecycle # "connected" \/ ~running \/ state.phase # "ready"
            THEN Refused(state, "send-phase")
            ELSE IF config.write /\ ~MaySend(state.progress, config.locations)
            THEN Refused(state, "write-progress")
            ELSE [state EXCEPT !.sends = @ + 1, !.phase = "awaiting", !.result = Accepted,
                               !.progress = IF config.write THEN Sent(@, config.locations) ELSE @]
      [] operation = "failure" ->
            IF ~running \/ state.phase \notin {"awaiting", "reconnectCotp", "reconnectSetup"}
            THEN Refused(state, "failure-phase")
            ELSE ModelFailure(state, event.kind)
      [] operation = "reconnect-setup" ->
            IF ~running \/ state.phase # "reconnectCotp"
            THEN Refused(state, "reconnect-phase")
            ELSE [state EXCEPT !.phase = "reconnectSetup", !.result = Accepted]
      [] operation = "reconnected" ->
            IF \/ ~running \/ state.phase # "reconnectSetup"
               \/ Transition(state.lifecycle, "reconnected") = Illegal
            THEN Refused(state, "reconnect-phase")
            ELSE [state EXCEPT !.lifecycle = "connected", !.phase = "ready", !.result = Accepted]
      [] operation = "response" ->
            IF state.lifecycle # "connected" \/ ~running \/ state.phase # "awaiting"
            THEN Refused(state, "response-phase")
            ELSE ModelResponse(state, event.pdu)
      [] operation = "disconnect" ->
            [state EXCEPT !.lifecycle = Transition(@, "disconnect"), !.active = NoReference,
                          !.phase = "closed", !.result = Accepted]

-----------------------------------------------------------------------------
(* The fixed controls of the harness                                       *)

Timeout == Failure("timeout")
Reconnecting == <<Event("reconnect-setup"), Event("reconnected")>>
Started == <<Event("begin"), Event("send")>>
Answered == Response(Reply(FlattenSeq([item \in 1 .. Width |->
    IF config.write THEN <<Success>>
    ELSE ItemBytes(Success, 4, 8 * config.locations[item], config.locations[item], item = Width)])))

ControlNames == {"exhausted", "recovered", "conservative", "wrong-reference", "wrong-count",
                 "closed", "global-reject", "read", "wrong-size"}

Control(name) ==
    CASE name = "exhausted"       -> Started \o <<Timeout, Timeout, Event("reconnect-setup"), Timeout>>
                                      \o Started
      [] name = "recovered"       -> Started \o <<Timeout>> \o Reconnecting
                                      \o <<Event("send"), Answered>>
      [] name = "conservative"    -> Started \o <<Timeout>>
      [] name = "wrong-reference" -> Append(Started,
            [Answered EXCEPT !.pdu.reference = (@ + 1) % ReferenceModulus])
      [] name = "wrong-count"     -> Append(Started, [Answered EXCEPT !.pdu.parameters[2] = @ + 1])
      [] name = "closed"          -> <<Event("disconnect"), Event("begin"), Event("reconnected")>>
      [] name = "global-reject"   -> Append(Started, [Answered EXCEPT !.pdu.error = TRUE])
      [] name = "read"            -> Append(Started, Answered)
      [] name = "wrong-size"      -> Append(Started, [Answered EXCEPT !.pdu.data[3] = @ + 8])

ControlConfigurations(name) ==
    {c \in Configurations :
        /\ c.write = (name \notin {"read", "wrong-size"})
        /\ c.write => c.budget = 2 /\ c.allow = (name \in {"exhausted", "recovered"})
        /\ ~c.write => Len(c.locations) = 1}

OutcomesAre(state, outcomes) ==
    [i \in DOMAIN Attempts(state) |-> Attempts(state)[i].outcome] = outcomes

Expectation(name, state) ==
    CASE name = "exhausted" ->
            /\ state.remaining = 0 /\ state.sends = 1 /\ state.active = NoReference
            /\ state.phase = "failed" /\ state.lifecycle = "disconnected"
            /\ OutcomesAre(state, Everywhere("replayedUnknown"))
      [] name = "recovered" ->
            /\ state.remaining = 1 /\ state.sends = 2 /\ state.active = NoReference
            /\ state.phase = "completed"
            /\ OutcomesAre(state, Everywhere("replayedUnknown") \o Everywhere("success"))
      [] name = "conservative" ->
            /\ state.result = Decided(FALSE) /\ state.remaining = 2
            /\ OutcomesAre(state, Everywhere("pending"))
      [] name \in {"wrong-reference", "wrong-count"} ->
            /\ state.result = Rejected("response-codec") /\ state.phase = "failed"
            /\ state.sends = 1
      [] name = "closed" ->
            state.lifecycle = "closed" /\ state.result = Rejected("reconnect-phase")
      [] name = "global-reject" ->
            /\ state.result = Rejected("response-codec")
            /\ OutcomesAre(state, Everywhere("globalRejected"))
      [] name = "read" ->
            state.phase = "completed" /\ state.active = NoReference /\ Attempts(state) = <<>>
      [] name = "wrong-size" ->
            state.result = Rejected("response-codec") /\ state.phase = "failed"

-----------------------------------------------------------------------------

SessionInit ==
    /\ control \in ControlNames \union {"none"}
    /\ config \in IF control = "none" THEN Configurations ELSE ControlConfigurations(control)
    /\ done = 0
    /\ oracle = OracleInit /\ model = ModelInit

(* Free histories go on for ever; a control ends with its last event.      *)
Feed(event) ==
    /\ oracle' = OracleTrace(oracle, event)
    /\ model' = ModelStep(model, event)

Draw ==
    /\ control = "none"
    /\ \E event \in Generated(oracle.phase) : Feed(event)
    /\ UNCHANGED <<config, control, done>>

FollowControl ==
    /\ control # "none" /\ done < Len(Control(control))
    /\ Feed(Control(control)[done + 1])
    /\ done' = done + 1
    /\ UNCHANGED <<config, control>>

SessionNext == Draw \/ FollowControl

-----------------------------------------------------------------------------
(* Properties                                                              *)

Told(state, attempts) ==
    [lifecycle |-> state.lifecycle, remaining |-> state.remaining, active |-> state.active,
     phase |-> state.phase, sends |-> state.sends, attempts |-> attempts, result |-> state.result]

(* The oracle and the client's policies tell the same story of every       *)
(* history: the same answer to every event and the same snapshot after it, *)
(* the provenance of every write attempt included.                         *)
OracleAgrees == Told(oracle, Attempts(oracle)) = Told(model, Trace(model.progress))

(* Every control of the oracle's self-test ends as the test expects.       *)
ControlsHold ==
    control # "none" /\ done = Len(Control(control)) => Expectation(control, oracle)

(* A request is sent at most once more than the retries spent on it, and   *)
(* the report of a write has one attempt per item and send, in order: all  *)
(* but those of the last send are uncertain for ever.                      *)
EverySendAccounted ==
    /\ model.sends <= 1 + config.budget - model.remaining \/ model.phase = "idle"
    /\ config.write =>
          LET attempts == Trace(model.progress)
              Attempt(send, item) == attempts[(send - 1) * Width + item]
          IN  /\ Len(attempts) = model.sends * Width
              /\ \A send \in 1 .. model.sends, item \in 1 .. Width :
                    /\ Attempt(send, item).location = config.locations[item]
                    /\ send < model.sends => Attempt(send, item).outcome = "replayedUnknown"
=============================================================================
