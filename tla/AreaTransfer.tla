---------------------------- MODULE AreaTransfer ----------------------------
(***************************************************************************)
(* One read or write of areas inside the serialization gate: readArea and  *)
(* writeArea with one item, readMulti and writeMulti with several.  Items  *)
(* are validated, then moved in batches or cut into chunks, request after  *)
(* request; the first request may be repeated on a new session whose PDU   *)
(* length may have grown.  ClientSession models the exchange of each       *)
(* request; here its outcomes are the environment.                         *)
(***************************************************************************)
EXTENDS TransferPlan, WriteProgress

CONSTANTS
    Calls,              \* calls: [kind, items, pduLengths the PLC may negotiate]
    ReconnectRetries    \* ClientConfig.reconnectRetries, if the policy permits

CallKinds == {"readArea", "writeArea", "readMulti", "writeMulti"}

ASSUME TransferAssumption ==
    /\ \A c \in Calls : c.kind \in CallKinds /\ c.items \in
           Seq([area : Areas, start : Nat, count : Nat, payload : Nat])
    /\ \A c \in Calls : c.kind \in {"readArea", "writeArea"} => Len(c.items) = 1
    /\ \A c \in Calls : c.pduLengths \subseteq 240 .. MaxSection
    /\ ReconnectRetries \in Nat

VARIABLES
    call, pduLength, retries, pc,
    chunks,      \* element counts still to be requested of the current item
    offset,      \* bytes of the current item that were moved
    batch,       \* fragments of the outstanding request
    results,     \* one per item, in order
    progress,    \* WriteProgress, for writes
    error,
    closed,      \* whether the handler of the operation closed the session
    requests     \* the requests sent, with the PDU length of their time

vars == <<call, pduLength, retries, pc, chunks, offset, batch, results, progress,
          error, closed, requests>>

Items   == call.items
Multi   == call.kind \in {"readMulti", "writeMulti"}
Mutates == call.kind \in {"writeArea", "writeMulti"}
Current == Len(results) + 1

Init ==
    /\ call \in Calls /\ pduLength \in call.pduLengths
    /\ retries = ReconnectRetries
    /\ pc = "validate"
    /\ chunks = <<>> /\ offset = 0 /\ batch = <<>> /\ results = <<>>
    /\ progress = NoProgress
    /\ error = "none" /\ closed = FALSE /\ requests = <<>>

-----------------------------------------------------------------------------
(* Failure                                                                 *)

(* Which errors of the body cost the session.                              *)
Closes(kind) ==
    CASE ~Multi                    -> kind \notin {"invalidInput", "plcRejected"}
      [] call.kind = "writeMulti"  -> kind # "invalidInput"
      [] call.kind = "readMulti"   -> TRUE

Fail(kind) ==
    /\ pc' = "done" /\ error' = kind
    /\ closed' = Closes(kind)
    /\ progress' = IF Mutates /\ kind = "plcRejected" THEN GlobalReject(progress) ELSE progress
    /\ UNCHANGED <<call, pduLength, retries, chunks, offset, batch, results, requests>>

-----------------------------------------------------------------------------
(* Validation, before anything is sent                                     *)

PayloadMatches(item) == item.payload = Bytes(item)

ValidItem(item) ==
    /\ ValidRange(item) /\ FitsOneRequest(Mutates, pduLength, item)
    /\ Mutates => PayloadMatches(item) /\ Maximum(TRUE, pduLength, item.area) # 0

(* readMulti validates outside of its catch; a single write without a      *)
(* payload, a single read of nothing and a write of no items are complete. *)
Validate ==
    /\ pc = "validate"
    /\ LET nothing == \/ call.kind = "readArea" /\ Items[1].count = 0
                      \/ call.kind = "writeArea" /\ Items[1].payload = 0
                      \/ Items = <<>>
       IN  \/ /\ nothing
              /\ pc' = "done"
              /\ UNCHANGED <<error, closed, progress>>
           \/ /\ ~nothing /\ \A i \in DOMAIN Items : ValidItem(Items[i])
              /\ pc' = "plan"
              /\ UNCHANGED <<error, closed, progress>>
           \/ /\ ~nothing /\ \E i \in DOMAIN Items : ~ValidItem(Items[i])
              /\ pc' = "done" /\ error' = "invalidInput"
              /\ UNCHANGED <<closed, progress>>
    /\ UNCHANGED <<call, pduLength, retries, chunks, offset, batch, results, requests>>

-----------------------------------------------------------------------------
(* Planning and sending                                                    *)

(* Part of the i-th item: n elements, and the slice of a payload for them. *)
Fragment(i, at, n) ==
    [item |-> i, offset |-> at, area |-> Items[i].area, start |-> Items[i].start + at, count |-> n,
     payload |-> Least({Items[i].payload - at, n * ElementSize(Items[i].area)})]

(* Sizes on the wire: the data of the last item is not padded.             *)
DataSize(fragments) ==
    Total([i \in DOMAIN fragments |->
             IF i = Len(fragments) THEN ItemHeader + Bytes(fragments[i]) ELSE Padded(fragments[i])])
RequestSize(fragments) ==
    JobHeader + AddressSize * Len(fragments) + (IF Mutates THEN DataSize(fragments) ELSE 0)
ResponseSize(fragments) ==
    ResponseHeader + (IF Mutates THEN Len(fragments) ELSE DataSize(fragments))

(* The encoder wants the whole payload of a write; a single read also      *)
(* checks that its response will fit.                                      *)
Request(fragments) ==
    LET fits == /\ Mutates => \A f \in Range(fragments) : f.payload = Bytes(f)
                /\ RequestSize(fragments) <= pduLength
                /\ call.kind = "readArea" => ResponseSize(fragments) <= pduLength
    IN  \/ ~fits /\ Fail("invalidInput")
        \/ /\ fits
           /\ batch' = fragments
           /\ requests' = Append(requests, [fragments |-> fragments, pduLength |-> pduLength])
           /\ pc' = "send"
           /\ UNCHANGED <<call, pduLength, retries, chunks, offset, results, progress, error,
                          closed>>

Taken == IF Multi THEN BatchLength(Mutates, pduLength, SubSeq(Items, Current, Len(Items))) ELSE 0

SendBatch ==
    /\ pc = "plan" /\ Current <= Len(Items) /\ Taken > 0
    /\ Request([i \in 1 .. Taken |->
                  Fragment(Current + i - 1, 0, Items[Current + i - 1].count)])

FirstOffset == 0

(* An item that does not fit a batch on its own is cut into chunks.        *)
CutItem ==
    /\ pc = "plan" /\ Current <= Len(Items) /\ Taken = 0
    /\ LET item == Items[Current]
           maximum == Maximum(Mutates, pduLength, item.area)
       IN  \/ maximum = 0 /\ Fail("invalidInput")
           \/ /\ maximum # 0
              /\ chunks' = Counts(item.count, maximum)
              /\ offset' = FirstOffset
              /\ pc' = "chunk"
              /\ UNCHANGED <<call, pduLength, retries, batch, results, progress, error, closed,
                             requests>>

SendChunk ==
    /\ pc = "chunk" /\ chunks # <<>>
    /\ Request(<<Fragment(Current, offset, Head(chunks))>>)

CompleteFirst(status) == <<[item |-> Current, status |-> status]>> \o results  \* faulty
Complete(status) == Append(results, [item |-> Current, status |-> status])

ItemComplete ==
    /\ pc = "chunk" /\ chunks = <<>>
    /\ results' = Complete("success")
    /\ pc' = "plan"
    /\ UNCHANGED <<call, pduLength, retries, chunks, offset, batch, progress, error, closed,
                   requests>>

AllComplete ==
    /\ pc = "plan" /\ Current > Len(Items)
    /\ pc' = "done"
    /\ UNCHANGED <<call, pduLength, retries, chunks, offset, batch, results, progress, error,
                   closed, requests>>

-----------------------------------------------------------------------------
(* Outcomes of a request                                                   *)

(* An attempt reaches the wire, on the session there is or on a new one.   *)
Send ==
    /\ pc = "send"
    /\ progress' = IF Mutates THEN Sent(progress, batch) ELSE progress
    /\ pc' = "await"
    /\ UNCHANGED <<call, pduLength, retries, chunks, offset, batch, results, error, closed,
                   requests>>

(* The exchange of the first request, or the reconnection for it, failed   *)
(* and may be repeated, on a new session; one with a smaller PDU length is *)
(* never installed.                                                        *)
Retry ==
    /\ pc \in {"send", "await"} /\ retries > 0
    /\ retries' = retries - 1
    /\ pduLength' \in {n \in call.pduLengths : n >= pduLength}
    /\ progress' = IF Mutates THEN Replay(progress) ELSE progress
    /\ pc' = "send"
    /\ UNCHANGED <<call, chunks, offset, batch, results, error, closed, requests>>

(* The results of a batch belong to its items in order.                    *)
BatchAnswered(statuses) ==
    /\ results' = results \o [i \in DOMAIN batch |->
                                [item |-> batch[i].item, status |-> statuses[i]]]
    /\ pc' = "plan"
    /\ progress' = IF Mutates THEN Acknowledge(progress, statuses) ELSE progress
    /\ UNCHANGED <<chunks, offset, error, closed>>

GoesOn(status) == TRUE                                           \* faulty
ContinuesAfter(status) == status = "success"

(* The first chunk the PLC refuses ends its item.                          *)
ChunkAnswered(statuses) ==
    /\ progress' = IF Mutates THEN Acknowledge(progress, statuses) ELSE progress
    /\ \/ /\ ContinuesAfter(statuses[1])
          /\ chunks' = Tail(chunks)
          /\ offset' = offset + Bytes(batch[1])
          /\ pc' = "chunk"
          /\ UNCHANGED results
       \/ /\ ~ContinuesAfter(statuses[1])
          /\ results' = Complete(statuses[1])
          /\ chunks' = <<>>
          /\ pc' = "plan"
          /\ UNCHANGED offset
    /\ UNCHANGED <<error, closed>>

(* The PLC answers each item; at most one refusal per response is enough.  *)
Statuses ==
    {[i \in DOMAIN batch |-> IF i = refused THEN "itemRejected" ELSE "success"] :
        refused \in 0 .. Len(batch)}

Answered ==
    /\ pc = "await"
    /\ \E statuses \in Statuses :
        \/ /\ ~Multi /\ statuses[1] # "success"
           /\ Fail("plcRejected")
        \/ /\ Multi \/ statuses[1] = "success"
           /\ \/ chunks = <<>> /\ BatchAnswered(statuses)
              \/ chunks # <<>> /\ ChunkAnswered(statuses)
           /\ retries' = 0
           /\ UNCHANGED <<call, pduLength, batch, requests>>

(* Refused as a whole, undecodable, lost or late; before the request was   *)
(* sent, only the deadline or the session can have ended.                  *)
ExchangeFails ==
    \/ pc = "await" /\ Fail("plcRejected")
    \/ pc \in {"send", "await"} /\ \E kind \in {"protocol", "disconnected", "timeout"} : Fail(kind)

Next ==
    \/ Validate \/ SendBatch \/ CutItem \/ SendChunk \/ ItemComplete \/ AllComplete
    \/ Send \/ Retry \/ Answered \/ ExchangeFails

Spec == Init /\ [][Next]_vars

-----------------------------------------------------------------------------
(* Properties                                                              *)

TypeOK ==
    /\ pduLength \in call.pduLengths /\ retries \in 0 .. ReconnectRetries
    /\ pc \in {"validate", "plan", "chunk", "send", "await", "done"}
    /\ chunks \in Seq(1 .. MaxSection) /\ offset \in Nat
    /\ \A i \in DOMAIN results : results[i].status \in ItemResults
    /\ error \in {"none", "invalidInput", "plcRejected", "protocol", "disconnected", "timeout"}
    /\ closed \in BOOLEAN

(* Every request, and the response it asks for, fits the PDU of the session *)
(* it was planned for, and no field of it is truncated.                    *)
RequestsFit ==
    \A r \in Range(requests) :
        /\ Len(r.fragments) <= MaxItems
        /\ RequestSize(r.fragments) <= r.pduLength /\ ResponseSize(r.fragments) <= r.pduLength
        /\ \A f \in Range(r.fragments) :
            /\ f.count \in 1 .. MaxSection
            /\ (IF f.area = "elements" THEN Bytes(f) ELSE 8 * Bytes(f)) <= MaxSection
            /\ f.start >= 0 /\ LastWireAddress(f) <= MaxAddress

Fragments == FlattenSeq([i \in DOMAIN requests |-> requests[i].fragments])

PartsOf(i, fragments) ==
    FlattenSeq([k \in DOMAIN fragments |->
                  IF fragments[k].item = i THEN <<fragments[k]>> ELSE <<>>])

FragmentsOf(i) == PartsOf(i, Fragments)

Sizes(fragments) == [k \in DOMAIN fragments |-> Bytes(fragments[k])]

(* The bytes of the fragments before the k-th.                             *)
Before(fragments, k) == Total(SubSeq(Sizes(fragments), 1, k - 1))

AttemptsOf(i, attempts) ==
    FlattenSeq([k \in DOMAIN attempts |->
                  IF attempts[k].location.item = i THEN <<attempts[k]>> ELSE <<>>])

(* The fragments requested of an item lie end to end from its start, each  *)
(* at its own address, and reach its end when the item succeeded; counters *)
(* and timers, whose addresses S7 implementations advance differently, are *)
(* not split; and a call with an invalid item fails before its first       *)
(* request: a write is never abandoned half way for an argument.           *)
ItemsAreTiled ==
    /\ \A i \in DOMAIN Items :
        LET parts == FragmentsOf(i)
            before(k) == Before(parts, k)
        IN  /\ \A k \in DOMAIN parts :
                parts[k].offset = before(k) /\ parts[k].start = Items[i].start + before(k)
            /\ i <= Len(results) /\ results[i].status = "success" =>
                before(Len(parts) + 1) = Bytes(Items[i])
    /\ \A j \in DOMAIN Fragments : Fragments[j].area = "elements" =>
        Fragments[j].count = Items[Fragments[j].item].count
    /\ error = "invalidInput" => requests = <<>> /\ ~closed

(* The i-th result is the i-th item's, chunked items between batched ones  *)
(* included, and items are requested in order.                             *)
ResultsBelong ==
    /\ TypeOK
    /\ \A i \in DOMAIN results : results[i].item = i
    /\ \A j \in DOMAIN Fragments : j > 1 =>
        Fragments[j - 1].item \in {Fragments[j].item, Fragments[j].item - 1}

(* What the progress of a finished write says and what its results say     *)
(* agree: the parts of a settled item were all acknowledged, the last with *)
(* the status of the item and the others with success; only the request in *)
(* flight when the reply was lost is uncertain; and every other part that  *)
(* was requested is accounted for.                                         *)
ProgressExplainsResults ==
    Mutates /\ pc = "done" =>
        LET snapshot == Snapshot(progress)
            Parts(attempts) == {a.location : a \in Range(attempts)}
            lost == error \in {"protocol", "disconnected", "timeout"}
        IN  /\ \A i \in DOMAIN results :
                LET settled == AttemptsOf(i, snapshot.acknowledged)
                IN  /\ [k \in DOMAIN settled |-> settled[k].location] = FragmentsOf(i)
                    /\ [k \in DOMAIN settled |-> settled[k].outcome] =
                         [k \in DOMAIN settled |->
                            IF k = Len(settled) THEN results[i].status ELSE "success"]
            /\ snapshot.uncertain # <<>> =>
                lost /\ Parts(snapshot.uncertain) = Range(batch)
            /\ snapshot.rejected # <<>> <=> error = "plcRejected"
            /\ Range(Fragments) = Parts(snapshot.attempts)
                                   \union IF lost THEN Range(batch) ELSE {}
=============================================================================
