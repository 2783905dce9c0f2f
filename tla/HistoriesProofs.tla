-------------------------- MODULE HistoriesProofs --------------------------
(***************************************************************************)
(* Proofs, for histories of any length, that the oracles of the            *)
(* integration harness and the client's own policies tell the same story.  *)
(* Of conversations, over any ranges: the same lifecycle and the same      *)
(* attempts, and results that differ only in two exchanges that no PLC was *)
(* asked for.  Of an active request, for any retry budget and any number   *)
(* of items: the same answer to every event and the same account after it, *)
(* every attempt of a write included.  And of the fixed controls of both   *)
(* self-tests: that they end as the self-tests expect.                     *)
(***************************************************************************)
EXTENDS MCHistories, DataInduction

-----------------------------------------------------------------------------
(* Conversations                                                           *)

ConversationSpec == ConversationInit /\ [][ConversationNext]_conversationVars

AttemptOutcomes == {"replayedUnknown", "success", "itemRejected"}
ItemAttempts == [location : MemoryRanges, outcome : AttemptOutcomes]

Categories == {"lifecycle-transition", "not-connected", "request-codec", "write-progress",
               "response-codec", "write-pending"}

Results == {Ok} \union {Permitted(answer) : answer \in BOOLEAN}
           \union {Payload(size) : size \in 0 .. MaxBytes}
           \union {Reject(category) : category \in Categories}

ToldState == [lifecycle : LifecycleStates, history : Seq(ItemAttempts), pending : Seq(MemoryRanges),
              reference : References \union {NotAsked}, result : Results]

PolicyState == [lifecycle : LifecycleStates,
                progress : [history : Seq(ItemAttempts), pending : Seq(MemoryRanges)],
                reference : References \union {NotAsked}, result : Results]

(* Results may differ only of an exchange that no PLC was asked for.       *)
Excused(kind, said, answer) ==
    \/ /\ kind = "read" /\ answer = Reject("request-codec")
       /\ "payload" \in DOMAIN said \/ said = Reject("response-codec")
    \/ kind = "acknowledgement" /\ answer = Reject("response-codec") /\ said = Ok

ResultsMatch ==
    \/ told.result = policies.result
    \/ /\ Excused(unasked, told.result, policies.result)
       /\ unasked = "acknowledgement" => told.pending = <<>>

(* The two sides keep the same account; what is pending has a reference.   *)
SameAccount ==
    /\ told.lifecycle = policies.lifecycle
    /\ told.history = policies.progress.history
    /\ told.pending = policies.progress.pending
    /\ told.reference = policies.reference
    /\ Len(told.pending) <= MaxItems
    /\ told.pending = <<>> => told.reference = NotAsked

ConversationInv ==
    /\ told \in ToldState /\ policies \in PolicyState
    /\ SameAccount /\ ResultsMatch
    /\ fed \in Nat
    /\ script \in {NoScript} \union ScriptChoices

(* The events that the generators and the scripts may hold.                *)
IsStep(step) ==
    \/ \E event \in LifecycleEvents : step = LifecycleStep(event)
    \/ \E safety \in {"readOnly", "potentiallyMutating"}, allow \in BOOLEAN,
          kind \in ErrorKinds, remaining \in {0, 1} :
         step = RetryStep(safety, allow, kind, remaining)
    \/ \E reference \in References, locations \in Seq(MemoryRanges) :
         step = SendStep(reference, locations)
    \/ \E reference \in References, count \in Nat, codes \in Seq({Success, 5}) :
         step = AcknowledgeStep(reference, count, codes)
    \/ \E reference \in References, range \in MemoryRanges, size \in 0 .. MaxBytes :
         step = ReadStep(reference, range, size)

-----------------------------------------------------------------------------

(* What settling appends to a history.                                     *)
LEMMA SettlingAppends ==
  ASSUME NEW history \in Seq(ItemAttempts), NEW pending \in Seq(MemoryRanges), NEW outcomes,
         \A i \in DOMAIN pending : outcomes[i] \in AttemptOutcomes
  PROVE  /\ history \o [i \in DOMAIN pending |-> [location |-> pending[i], outcome |-> outcomes[i]]]
              \in Seq(ItemAttempts)
         /\ pending = <<>> =>
              history \o [i \in DOMAIN pending |-> [location |-> pending[i], outcome |-> outcomes[i]]]
                = history
<1> DEFINE more == [i \in DOMAIN pending |-> [location |-> pending[i], outcome |-> outcomes[i]]]
<1>1. Len(pending) \in Nat /\ DOMAIN pending = 1 .. Len(pending)
  OBVIOUS
<1>2. \A i \in DOMAIN pending : [location |-> pending[i], outcome |-> outcomes[i]] \in ItemAttempts
  BY <1>1 DEF ItemAttempts
<1>3. more \in [1 .. Len(pending) -> ItemAttempts]
  BY <1>1, <1>2
<1>4. more \in Seq(ItemAttempts)
  <2> HIDE DEF more
  <2> QED BY <1>1, <1>3
<1>5. pending = <<>> => more = <<>>
  BY <1>1
<1>6. \A h, s \in Seq(ItemAttempts) : h \o s \in Seq(ItemAttempts) /\ (s = <<>> => h \o s = h)
  OBVIOUS
<1> HIDE DEF more
<1> QED BY <1>4, <1>5, <1>6 DEF more

(* At the beginning neither side has an attempt.                           *)
LEMMA ConversationInvInit == ConversationInit => ConversationInv
<1> SUFFICES ASSUME ConversationInit PROVE ConversationInv
  OBVIOUS
<1>1. told \in ToldState /\ policies \in PolicyState
  BY DEF ConversationInit, ToldState, PolicyState, LifecycleStates, NoProgress, Results
<1> QED BY <1>1, ConversationHistoriesAssumption
     DEF ConversationInit, ConversationInv, SameAccount, ResultsMatch, NoProgress

(* The writes of a control can be put on the wire.                         *)
LEMMA PairsEncode ==
  ASSUME NEW pair \in Writable
  PROVE  /\ Encodes(pair, TRUE) /\ pair \in Seq(MemoryRanges) /\ pair # <<>>
         /\ Len(pair) = 2 /\ DOMAIN pair = 1 .. 2 /\ 2 <= MaxItems
<1>1. pair \in MemoryRanges \X MemoryRanges /\ Encodes(pair, TRUE)
  BY DEF Writable
<1>2. PICK first \in MemoryRanges, second \in MemoryRanges : pair = <<first, second>>
  BY <1>1
<1>3. /\ pair \in Seq(MemoryRanges) /\ pair # <<>> /\ Len(pair) = 2 /\ DOMAIN pair = 1 .. 2
  BY <1>2
<1>4. Len(pair) <= MaxItems
  BY <1>1 DEF Encodes
<1> QED BY <1>1, <1>3, <1>4

(* Every event that can be heard is of one of the five kinds.              *)
LEMMA HeardSteps ==
  ASSUME ConversationInv, ConversationNext
  PROVE  \E step : IsStep(step) /\ Hear(step)
<1>1. CASE HearAny
  <2>1. PICK step \in Steps : Hear(step)
    BY <1>1 DEF HearAny
  <2>2. /\ Sequences(MemoryRanges, MaxItems) \subseteq Seq(MemoryRanges)
        /\ Sequences({Success, 5}, MaxItems) \subseteq Seq({Success, 5})
        /\ 0 .. MaxItems \subseteq Nat
    BY ConversationHistoriesAssumption DEF Sequences
  <2>3. IsStep(step)
    <3>1. CASE \E event \in LifecycleEvents : step = LifecycleStep(event)
      BY <3>1 DEF IsStep
    <3>2. CASE \E safety \in {"readOnly", "potentiallyMutating"}, allow \in BOOLEAN,
                  kind \in ErrorKinds, remaining \in {0, 1} :
                 step = RetryStep(safety, allow, kind, remaining)
      BY <3>2 DEF IsStep
    <3>3. CASE \E reference \in References, locations \in Sequences(MemoryRanges, MaxItems) :
                 step = SendStep(reference, locations)
      BY <2>2, <3>3 DEF IsStep
    <3>4. CASE \E reference \in References, count \in 0 .. MaxItems,
                  codes \in Sequences({Success, 5}, MaxItems) :
                 step = AcknowledgeStep(reference, count, codes)
      BY <2>2, <3>4 DEF IsStep
    <3>5. CASE \E reference \in References, range \in MemoryRanges, size \in 0 .. MaxBytes :
                 step = ReadStep(reference, range, size)
      BY <3>5 DEF IsStep
    <3> QED BY <2>1, <3>1, <3>2, <3>3, <3>4, <3>5 DEF Steps
  <2> QED BY <2>1, <2>3
<1>2. CASE HearScript
  <2>1. PICK name \in Scripts, pair \in Writable : script.steps = ScriptSteps(name, pair)
    <3>1. script \in ScriptChoices
      BY <1>2 DEF HearScript, ConversationInv
    <3>2. PICK name \in Scripts, pair \in Writable :
             script = [name |-> name, steps |-> ScriptSteps(name, pair)]
      BY <3>1 DEF ScriptChoices
    <3> QED BY <3>2
  <2>2. fed < Len(script.steps) /\ Hear(script.steps[fed + 1]) /\ fed \in Nat
    BY <1>2 DEF HearScript, ConversationInv
  <2>3. /\ pair \in Seq(MemoryRanges)
        /\ 0 \in References /\ "timeout" \in ErrorKinds
    <3>1. 0 \in References /\ "timeout" \in ErrorKinds
      BY ReferenceModulusAssumption DEF References, ErrorKinds
    <3> QED BY <3>1, PairsEncode
  <2>4. /\ IsStep(SendStep(0, pair))
        /\ \A allow \in BOOLEAN : IsStep(RetryStep("potentiallyMutating", allow, "timeout", 1))
        /\ \A event \in LifecycleEvents : IsStep(LifecycleStep(event))
    BY <2>3 DEF IsStep
  <2> DEFINE A == SendStep(0, pair)
             B1 == RetryStep("potentiallyMutating", TRUE, "timeout", 1)
             B0 == RetryStep("potentiallyMutating", FALSE, "timeout", 1)
             C(event) == LifecycleStep(event)
  <2>5. /\ IsStep(A) /\ IsStep(B1) /\ IsStep(B0)
        /\ IsStep(C("transportClosed")) /\ IsStep(C("disconnect")) /\ IsStep(C("reconnected"))
    BY <2>4 DEF LifecycleEvents
  <2>6. script.steps \in {<<A, C("transportClosed"), B0>>, <<A, B1>>,
                          <<C("disconnect"), C("reconnected")>>}
    BY <2>1 DEF ScriptSteps, Scripts
  <2> HIDE DEF A, B0, B1, C
  <2>7. IsStep(script.steps[fed + 1])
    <3>1. CASE script.steps = <<A, C("transportClosed"), B0>>
      <4>1. fed \in {0, 1, 2}
        BY <2>2, <3>1
      <4>2. script.steps[fed + 1] \in {A, C("transportClosed"), B0}
        BY <3>1, <4>1
      <4> QED BY <2>5, <4>2
    <3>2. CASE script.steps = <<A, B1>>
      <4>1. fed \in {0, 1}
        BY <2>2, <3>2
      <4>2. script.steps[fed + 1] \in {A, B1}
        BY <3>2, <4>1
      <4> QED BY <2>5, <4>2
    <3>3. CASE script.steps = <<C("disconnect"), C("reconnected")>>
      <4>1. fed \in {0, 1}
        BY <2>2, <3>3
      <4> QED BY <2>5, <3>3, <4>1
    <3> QED BY <2>6, <3>1, <3>2, <3>3
  <2> QED BY <2>2, <2>7
<1> QED BY <1>1, <1>2 DEF ConversationNext

(* Two accounts of the same attempts with matching results.                *)
LEMMA AccountsKept ==
  ASSUME ConversationInv, UNCHANGED script, fed' = fed + 1,
         NEW lifecycle \in LifecycleStates, NEW history \in Seq(ItemAttempts),
         NEW pending \in Seq(MemoryRanges), NEW reference \in References \union {NotAsked},
         NEW said \in Results, NEW answer \in Results,
         told' = [lifecycle |-> lifecycle, history |-> history, pending |-> pending,
                  reference |-> reference, result |-> said],
         policies' = [lifecycle |-> lifecycle,
                      progress |-> [history |-> history, pending |-> pending],
                      reference |-> reference, result |-> answer],
         Len(pending) <= MaxItems, pending = <<>> => reference = NotAsked,
         \/ said = answer
         \/ Excused(unasked', said, answer) /\ (unasked' = "acknowledgement" => pending = <<>>)
  PROVE  ConversationInv'
<1>1. told' \in ToldState /\ policies' \in PolicyState
  BY DEF ToldState, PolicyState
<1>2. SameAccount'
  BY DEF SameAccount
<1>3. ResultsMatch'
  BY DEF ResultsMatch
<1>4. fed' \in Nat
  BY DEF ConversationInv
<1> QED BY <1>1, <1>2, <1>3, <1>4 DEF ConversationInv

(* The two states as one account.                                          *)
LEMMA OneAccount ==
  ASSUME ConversationInv
  PROVE  /\ told = [lifecycle |-> told.lifecycle, history |-> told.history,
                    pending |-> told.pending, reference |-> told.reference, result |-> told.result]
         /\ policies = [lifecycle |-> told.lifecycle,
                        progress |-> [history |-> told.history, pending |-> told.pending],
                        reference |-> told.reference, result |-> policies.result]
         /\ told.lifecycle \in LifecycleStates /\ told.history \in Seq(ItemAttempts)
         /\ told.pending \in Seq(MemoryRanges)
         /\ told.reference \in References \union {NotAsked}
         /\ Len(told.pending) <= MaxItems /\ Len(told.pending) \in Nat
         /\ told.pending = <<>> => told.reference = NotAsked
  BY DEF ConversationInv, SameAccount, ToldState, PolicyState

(* An event that both sides only answer.                                   *)
LEMMA AnswerKept ==
  ASSUME ConversationInv, UNCHANGED script, fed' = fed + 1,
         NEW said \in Results, NEW answer \in Results,
         told' = [told EXCEPT !.result = said], policies' = [policies EXCEPT !.result = answer],
         \/ said = answer
         \/ /\ Excused(unasked', said, answer)
            /\ unasked' = "acknowledgement" => told.pending = <<>>
  PROVE  ConversationInv'
<1>1. told' = [lifecycle |-> told.lifecycle, history |-> told.history, pending |-> told.pending,
               reference |-> told.reference, result |-> said]
  BY OneAccount
<1>2. policies' = [lifecycle |-> told.lifecycle,
                   progress |-> [history |-> told.history, pending |-> told.pending],
                   reference |-> told.reference, result |-> answer]
  BY OneAccount
<1> QED BY <1>1, <1>2, OneAccount, AccountsKept

LEMMA LifecycleKept ==
  ASSUME ConversationInv, NEW event \in LifecycleEvents, Hear(LifecycleStep(event))
  PROVE  ConversationInv'
<1>1. /\ told' = ToldLifecycle(event)
      /\ LET next == Transition(policies.lifecycle, event)
         IN  policies' = IF next = Illegal THEN Answer(Reject("lifecycle-transition"))
                         ELSE [Answer(Ok) EXCEPT !.lifecycle = next]
      /\ UNCHANGED script /\ fed' = fed + 1
  BY DEF Hear, ToldStep, PolicyStep, LifecycleStep
<1>2. policies.lifecycle = told.lifecycle /\ told.lifecycle \in LifecycleStates
  BY DEF ConversationInv, SameAccount, ToldState
<1>3. Ok \in Results /\ Reject("lifecycle-transition") \in Results
  BY DEF Results, Categories
<1>4. CASE event = "reconnected" /\ told.lifecycle # "disconnected"
  <2>1. /\ told' = [told EXCEPT !.result = Reject("lifecycle-transition")]
        /\ policies' = [policies EXCEPT !.result = Reject("lifecycle-transition")]
    BY <1>1, <1>2, <1>4 DEF ToldLifecycle, Transition, Illegal, Answer
  <2> QED BY <1>1, <1>3, <2>1, AnswerKept
<1>5. CASE ~(event = "reconnected" /\ told.lifecycle # "disconnected")
  <2>1. PICK next \in LifecycleStates :
           /\ told' = [told EXCEPT !.lifecycle = next, !.result = Ok]
           /\ policies' = [Answer(Ok) EXCEPT !.lifecycle = next]
    <3>1. CASE event = "disconnect"
      BY <1>1, <3>1 DEF ToldLifecycle, Transition, Illegal, LifecycleStates
    <3>2. CASE event = "transportClosed"
      BY <1>1, <1>2, <3>2 DEF ToldLifecycle, Transition, Illegal, LifecycleStates
    <3>3. CASE event = "reconnected"
      BY <1>1, <1>2, <1>5, <3>3 DEF ToldLifecycle, Transition, Illegal, LifecycleStates
    <3> QED BY <3>1, <3>2, <3>3 DEF LifecycleEvents
  <2>2. told' = [lifecycle |-> next, history |-> told.history, pending |-> told.pending,
                 reference |-> told.reference, result |-> Ok]
    BY <2>1, OneAccount
  <2>3. policies' = [lifecycle |-> next,
                     progress |-> [history |-> told.history, pending |-> told.pending],
                     reference |-> told.reference, result |-> Ok]
    BY <2>1 DEF Answer, ConversationInv, SameAccount, PolicyState
  <2> QED BY <1>1, <1>3, <2>2, <2>3, OneAccount, AccountsKept
<1> QED BY <1>4, <1>5

(* What settling and answering make of the oracle's account.               *)
LEMMA SettledAnswer ==
  ASSUME ConversationInv, NEW outcomes, NEW said
  PROVE  [Settling(outcomes) EXCEPT !.result = said] =
           [told EXCEPT
              !.pending = <<>>, !.reference = NotAsked, !.result = said,
              !.history = @ \o [i \in DOMAIN told.pending |->
                                   [location |-> told.pending[i], outcome |-> outcomes[i]]]]
<1> DEFINE longer == told.history \o [i \in DOMAIN told.pending |->
                                        [location |-> told.pending[i], outcome |-> outcomes[i]]]
<1>1. Settling(outcomes) = [told EXCEPT !.pending = <<>>, !.reference = NotAsked,
                                        !.history = longer]
  BY DEF Settling
<1>2. told \in ToldState
  BY DEF ConversationInv
<1> HIDE DEF longer
<1>3. [[told EXCEPT !.pending = <<>>, !.reference = NotAsked, !.history = longer]
         EXCEPT !.result = said]
        = [told EXCEPT !.pending = <<>>, !.reference = NotAsked, !.result = said,
                       !.history = longer]
  BY <1>2 DEF ToldState
<1> QED BY <1>1, <1>3 DEF longer

(* Both sides settle what is pending, and answer the same.                 *)
Settles(outcomes, said) ==
    /\ told' = [told EXCEPT
                   !.pending = <<>>, !.reference = NotAsked, !.result = said,
                   !.history = @ \o [i \in DOMAIN told.pending |->
                                        [location |-> told.pending[i], outcome |-> outcomes[i]]]]
    /\ policies' = [policies EXCEPT !.result = said, !.reference = NotAsked,
                                    !.progress = Settled(policies.progress, outcomes)]

LEMMA SettlingKept ==
  ASSUME ConversationInv, UNCHANGED script, fed' = fed + 1, NEW outcomes, NEW said \in Results,
         \A i \in DOMAIN told.pending : outcomes[i] \in AttemptOutcomes,
         Settles(outcomes, said)
  PROVE  ConversationInv'
<1> DEFINE more == [i \in DOMAIN told.pending |->
                      [location |-> told.pending[i], outcome |-> outcomes[i]]]
           longer == told.history \o more
<1>1. longer \in Seq(ItemAttempts)
  BY OneAccount, SettlingAppends
<1>2. policies.progress.pending = told.pending /\ policies.progress.history = told.history
  BY DEF ConversationInv, SameAccount
<1>3. Settled(policies.progress, outcomes) = [history |-> longer, pending |-> <<>>]
  BY <1>2 DEF Settled
<1> HIDE DEF longer, more
<1>5. told' = [lifecycle |-> told.lifecycle, history |-> longer, pending |-> <<>>,
               reference |-> NotAsked, result |-> said]
  BY OneAccount DEF Settles, longer, more
<1>6. policies' = [lifecycle |-> told.lifecycle,
                   progress |-> [history |-> longer, pending |-> <<>>],
                   reference |-> NotAsked, result |-> said]
  BY <1>2, <1>3 DEF Settles, ConversationInv, SameAccount, PolicyState
<1> DEFINE none == <<>>
<1>7. none \in Seq(MemoryRanges) /\ Len(none) <= MaxItems
  BY ConversationHistoriesAssumption
<1>8. /\ told' = [lifecycle |-> told.lifecycle, history |-> longer, pending |-> none,
                 reference |-> NotAsked, result |-> said]
      /\ policies' = [lifecycle |-> told.lifecycle,
                      progress |-> [history |-> longer, pending |-> none],
                      reference |-> NotAsked, result |-> said]
  BY <1>5, <1>6
<1>9. told' \in ToldState /\ policies' \in PolicyState
  <2> HIDE DEF none
  <2> QED BY <1>1, <1>7, <1>8, OneAccount DEF ToldState, PolicyState
<1>10. SameAccount'
  <2> HIDE DEF none
  <2>1. /\ told'.lifecycle = policies'.lifecycle
        /\ told'.history = policies'.progress.history
        /\ told'.pending = none /\ policies'.progress.pending = none
        /\ told'.reference = NotAsked /\ policies'.reference = NotAsked
    BY <1>8
  <2> QED BY <1>7, <2>1 DEF SameAccount
<1>11. ResultsMatch'
  BY <1>8 DEF ResultsMatch
<1> QED BY <1>9, <1>10, <1>11 DEF ConversationInv

LEMMA RetryKept ==
  ASSUME ConversationInv, NEW safety \in {"readOnly", "potentiallyMutating"},
         NEW allow \in BOOLEAN, NEW kind \in ErrorKinds, NEW remaining \in {0, 1},
         Hear(RetryStep(safety, allow, kind, remaining))
  PROVE  ConversationInv'
<1> DEFINE step == RetryStep(safety, allow, kind, remaining)
           permitted == RetryBudgetAfter(remaining, policies.lifecycle = "closed",
                                         kind, safety, allow) # NoRetry
           repeated == [i \in DOMAIN told.pending |-> "replayedUnknown"]
<1>1. /\ told' = ToldRetry(step)
      /\ policies' = IF permitted /\ safety = "potentiallyMutating"
                     THEN [Answer(Permitted(TRUE)) EXCEPT !.progress = Replay(@), !.reference = NotAsked]
                     ELSE Answer(Permitted(permitted))
      /\ UNCHANGED script /\ fed' = fed + 1
  BY DEF Hear, ToldStep, PolicyStep, RetryStep
<1>2. policies.lifecycle = told.lifecycle /\ policies.progress.pending = told.pending
  BY DEF ConversationInv, SameAccount
<1>3. permitted <=> /\ told.lifecycle # "closed" /\ step.remaining > 0
                    /\ step.kind \in {"timeout", "disconnected", "transport"}
                    /\ step.safety = "readOnly" \/ step.allow
  BY <1>2 DEF RetryBudgetAfter, NoRetry, IsRetryable, RetryPermitted, RetryStep
<1>4. told' = [(IF permitted /\ safety = "potentiallyMutating" THEN Settling(repeated) ELSE told)
                 EXCEPT !.result = Permitted(permitted)]
  BY <1>1, <1>3 DEF ToldRetry, RetryStep
<1>5. Permitted(permitted) \in Results /\ Permitted(TRUE) \in Results
  BY DEF Results
<1> HIDE DEF permitted
<1>6. CASE permitted /\ safety = "potentiallyMutating"
  <2>1. told' = [told EXCEPT
                    !.pending = <<>>, !.reference = NotAsked, !.result = Permitted(TRUE),
                    !.history = @ \o [i \in DOMAIN told.pending |->
                                         [location |-> told.pending[i], outcome |-> repeated[i]]]]
    <3> HIDE DEF repeated
    <3>1. told' = [Settling(repeated) EXCEPT !.result = Permitted(TRUE)]
      BY <1>4, <1>6
    <3> QED BY <3>1, SettledAnswer
  <2>2. policies' = [policies EXCEPT !.result = Permitted(TRUE), !.reference = NotAsked,
                                     !.progress = Settled(policies.progress, repeated)]
    <3>1. Replay(policies.progress) = Settled(policies.progress, repeated)
      BY <1>2 DEF Replay, Finish
    <3> HIDE DEF repeated
    <3>2. policies' = [Answer(Permitted(TRUE)) EXCEPT
                         !.progress = Replay(@), !.reference = NotAsked]
      BY <1>1, <1>6
    <3>3. policies \in PolicyState
      BY DEF ConversationInv
    <3> QED BY <3>1, <3>2, <3>3 DEF Answer, PolicyState
  <2>3. \A i \in DOMAIN told.pending : repeated[i] \in AttemptOutcomes
    BY DEF AttemptOutcomes
  <2> HIDE DEF repeated
  <2>4. Settles(repeated, Permitted(TRUE))
    BY <2>1, <2>2 DEF Settles
  <2> QED BY <1>1, <1>5, <2>3, <2>4, SettlingKept
<1>7. CASE ~(permitted /\ safety = "potentiallyMutating")
  <2>1. /\ told' = [told EXCEPT !.result = Permitted(permitted)]
        /\ policies' = [policies EXCEPT !.result = Permitted(permitted)]
    BY <1>1, <1>4, <1>7 DEF Answer
  <2> QED BY <1>1, <1>5, <2>1, AnswerKept
<1> QED BY <1>6, <1>7

LEMMA SendKept ==
  ASSUME ConversationInv, NEW reference \in References, NEW locations \in Seq(MemoryRanges),
         Hear(SendStep(reference, locations))
  PROVE  ConversationInv'
<1> DEFINE step == SendStep(reference, locations)
<1>1. /\ told' = ToldSend(step)
      /\ policies' = IF policies.lifecycle # "connected" THEN Answer(Reject("not-connected"))
                     ELSE IF ~Encodes(locations, TRUE) THEN Answer(Reject("request-codec"))
                     ELSE IF ~MaySend(policies.progress, locations)
                     THEN Answer(Reject("write-progress"))
                     ELSE [Answer(Ok) EXCEPT !.progress = Sent(@, locations),
                                             !.reference = reference]
      /\ UNCHANGED script /\ fed' = fed + 1
  BY DEF Hear, ToldStep, PolicyStep, SendStep, Offline
<1>2. policies.lifecycle = told.lifecycle /\ policies.progress.pending = told.pending
  BY DEF ConversationInv, SameAccount
<1>3. /\ Ok \in Results /\ Reject("not-connected") \in Results
      /\ Reject("request-codec") \in Results /\ Reject("write-progress") \in Results
  BY DEF Results, Categories
<1>4. CASE told.lifecycle = "connected" /\ Encodes(locations, TRUE) /\ told.pending = <<>>
  <2>1. locations # <<>> /\ Len(locations) <= MaxItems
    BY <1>4 DEF Encodes
  <2>2. told' = [told EXCEPT !.pending = locations, !.reference = reference, !.result = Ok]
    BY <1>1, <1>4 DEF ToldSend, SendStep
  <2>3. policies' = [Answer(Ok) EXCEPT !.progress = Sent(@, locations), !.reference = reference]
    BY <1>1, <1>2, <1>4, <2>1 DEF MaySend
  <2>4. told' = [lifecycle |-> told.lifecycle, history |-> told.history, pending |-> locations,
                 reference |-> reference, result |-> Ok]
    BY <2>2, OneAccount
  <2>5. policies' = [lifecycle |-> told.lifecycle,
                     progress |-> [history |-> told.history, pending |-> locations],
                     reference |-> reference, result |-> Ok]
    BY <1>2, <2>3 DEF Answer, Sent, ConversationInv, SameAccount, PolicyState
  <2> QED BY <1>1, <1>3, <2>1, <2>4, <2>5, OneAccount, AccountsKept
<1>5. CASE ~(told.lifecycle = "connected" /\ Encodes(locations, TRUE) /\ told.pending = <<>>)
  <2>1. PICK category \in {"not-connected", "request-codec", "write-progress"} :
           /\ told' = [told EXCEPT !.result = Reject(category)]
           /\ policies' = [policies EXCEPT !.result = Reject(category)]
    BY <1>1, <1>2, <1>5 DEF ToldSend, SendStep, MaySend, Answer
  <2> QED BY <1>1, <1>3, <2>1, AnswerKept
<1> QED BY <1>4, <1>5

LEMMA AcknowledgeKept ==
  ASSUME ConversationInv, NEW reference \in References, NEW count \in Nat,
         NEW codes \in Seq({Success, 5}), Hear(AcknowledgeStep(reference, count, codes))
  PROVE  ConversationInv'
<1> DEFINE step == AcknowledgeStep(reference, count, codes)
           outcomes == [i \in DOMAIN codes |-> ItemOutcome(codes[i])]
           matches == /\ told.reference = NotAsked \/ reference = told.reference
                      /\ count = Len(told.pending) /\ Len(codes) = Len(told.pending)
<1>1. /\ told' = ToldAcknowledge(step)
      /\ policies' = IF policies.lifecycle # "connected" THEN Answer(Reject("not-connected"))
                     ELSE PolicyAcknowledge(step)
      /\ UNCHANGED script /\ fed' = fed + 1
  BY DEF Hear, ToldStep, PolicyStep, AcknowledgeStep, Offline
<1>2. /\ policies.lifecycle = told.lifecycle /\ policies.progress.pending = told.pending
      /\ policies.reference = told.reference
  BY DEF ConversationInv, SameAccount
<1>3. /\ Ok \in Results /\ Reject("not-connected") \in Results
      /\ Reject("response-codec") \in Results
  BY DEF Results, Categories
<1>4. /\ Len(outcomes) = Len(codes) /\ Len(codes) \in Nat /\ DOMAIN codes = 1 .. Len(codes)
      /\ \A i \in DOMAIN codes : outcomes[i] \in AttemptOutcomes
  BY DEF ItemOutcome, AttemptOutcomes
<1>5. CASE told.lifecycle # "connected"
  <2>1. /\ told' = [told EXCEPT !.result = Reject("not-connected")]
        /\ policies' = [policies EXCEPT !.result = Reject("not-connected")]
    BY <1>1, <1>2, <1>5 DEF ToldAcknowledge, AcknowledgeStep, Answer
  <2> QED BY <1>1, <1>3, <2>1, AnswerKept
<1>6. CASE told.lifecycle = "connected" /\ ~matches
  <2>1. told' = [told EXCEPT !.result = Reject("response-codec")]
    BY <1>1, <1>6 DEF ToldAcknowledge, AcknowledgeStep
  <2>2. policies' = [policies EXCEPT !.result = Reject("response-codec")]
    BY <1>1, <1>2, <1>6 DEF PolicyAcknowledge, AcknowledgeStep, Answer
  <2> QED BY <1>1, <1>3, <2>1, <2>2, AnswerKept
<1>7. CASE told.lifecycle = "connected" /\ matches
  <2>1. told' = [told EXCEPT
                    !.pending = <<>>, !.reference = NotAsked, !.result = Ok,
                    !.history = @ \o [i \in DOMAIN told.pending |->
                                         [location |-> told.pending[i], outcome |-> outcomes[i]]]]
    <3>1. told' = [Settling(outcomes) EXCEPT !.result = Ok]
      BY <1>1, <1>7 DEF ToldAcknowledge, AcknowledgeStep
    <3> HIDE DEF outcomes
    <3> QED BY <3>1, SettledAnswer
  <2>2. Len(told.pending) \in Nat /\ Len(told.pending) <= MaxItems
        /\ DOMAIN told.pending = DOMAIN codes
    BY <1>4, <1>7, OneAccount
  <2>3. policies' = IF Len(told.pending) = 0 THEN Answer(Reject("response-codec"))
                    ELSE [Answer(Ok) EXCEPT !.progress = Acknowledge(@, outcomes),
                                            !.reference = NotAsked]
    <3> HIDE DEF outcomes
    <3>1. MayAcknowledge(policies.progress, outcomes)
      BY <1>2, <1>4, <1>7 DEF MayAcknowledge
    <3>2. policies' = PolicyAcknowledge(step)
      BY <1>1, <1>2, <1>7
    <3> QED BY <1>2, <1>7, <2>2, <3>1, <3>2 DEF PolicyAcknowledge, AcknowledgeStep, outcomes
  <2>4. CASE told.pending = <<>>
    <3>1. told.reference = NotAsked /\ Len(told.pending) = 0
      BY <2>4, OneAccount
    <3>2. policies' = [policies EXCEPT !.result = Reject("response-codec")]
      BY <2>3, <3>1 DEF Answer
    <3>3. told.history \o [i \in DOMAIN told.pending |->
                             [location |-> told.pending[i], outcome |-> outcomes[i]]] = told.history
      <4>1. \A i \in DOMAIN told.pending : outcomes[i] \in AttemptOutcomes
        BY <1>4, <2>2
      <4> HIDE DEF outcomes
      <4> QED BY <2>4, <4>1, OneAccount, SettlingAppends
    <3> HIDE DEF outcomes
    <3>5. told' = [told EXCEPT !.result = Ok]
      <4>1. told \in ToldState
        BY DEF ConversationInv
      <4> QED BY <2>1, <2>4, <3>1, <3>3, <4>1 DEF ToldState
    <3>6. Excused(unasked', Ok, Reject("response-codec"))
      BY <2>4 DEF Hear, Unasked, AcknowledgeStep, Excused
    <3> QED BY <1>1, <1>3, <2>4, <3>2, <3>5, <3>6, AnswerKept
  <2>5. CASE told.pending # <<>>
    <3>1. Len(told.pending) # 0
      BY <2>5, OneAccount
    <3>2. policies' = [policies EXCEPT !.result = Ok, !.reference = NotAsked,
                                       !.progress = Settled(policies.progress, outcomes)]
      <4>1. policies \in PolicyState
        BY DEF ConversationInv
      <4> HIDE DEF outcomes
      <4> QED BY <2>3, <3>1, <4>1 DEF Answer, Acknowledge, PolicyState
    <3>3. \A i \in DOMAIN told.pending : outcomes[i] \in AttemptOutcomes
      BY <1>4, <2>2
    <3> HIDE DEF outcomes
    <3>4. Settles(outcomes, Ok)
      BY <2>1, <3>2 DEF Settles
    <3> QED BY <1>1, <1>3, <3>3, <3>4, SettlingKept
  <2> QED BY <2>4, <2>5
<1> QED BY <1>5, <1>6, <1>7

LEMMA ReadKept ==
  ASSUME ConversationInv, NEW reference \in References, NEW range \in MemoryRanges,
         NEW size \in 0 .. MaxBytes, Hear(ReadStep(reference, range, size))
  PROVE  ConversationInv'
<1> DEFINE step == ReadStep(reference, range, size)
           said == IF told.lifecycle # "connected" THEN Reject("not-connected")
                   ELSE IF told.pending # <<>> THEN Reject("write-pending")
                   ELSE IF range.count = 0 THEN Reject("request-codec")
                   ELSE IF size # range.count THEN Reject("response-codec")
                   ELSE Payload(size)
           answer == IF told.lifecycle # "connected" THEN Reject("not-connected")
                     ELSE IF told.pending # <<>> THEN Reject("write-pending")
                     ELSE IF ~Encodes(<<range>>, FALSE) THEN Reject("request-codec")
                     ELSE IF size # range.count THEN Reject("response-codec")
                     ELSE Payload(size)
<1>1. /\ told' = ToldRead(step) /\ UNCHANGED script /\ fed' = fed + 1
      /\ policies' = IF policies.lifecycle # "connected" THEN Answer(Reject("not-connected"))
                     ELSE IF policies.progress.pending # <<>> THEN Answer(Reject("write-pending"))
                     ELSE IF ~Encodes(<<range>>, FALSE) THEN Answer(Reject("request-codec"))
                     ELSE IF size # range.count THEN Answer(Reject("response-codec"))
                     ELSE Answer(Payload(size))
  BY DEF Hear, ToldStep, PolicyStep, ReadStep, Offline
<1>2. policies.lifecycle = told.lifecycle /\ policies.progress.pending = told.pending
  BY DEF ConversationInv, SameAccount
<1>3. /\ \A category \in {"not-connected", "write-pending", "request-codec", "response-codec"} :
            Reject(category) \in Results
      /\ Payload(size) \in Results /\ "payload" \in DOMAIN Payload(size)
  BY DEF Results, Categories, Payload
<1>4. said \in Results /\ answer \in Results
  BY <1>3
<1>5. told' = [told EXCEPT !.result = said]
  BY <1>1 DEF ToldRead, ReadStep
<1>6. policies' = [policies EXCEPT !.result = answer]
  BY <1>1, <1>2 DEF Answer
<1>7. \/ said = answer
      \/ Excused(unasked', said, answer) /\ unasked' = "read"
  <2>1. range.count = 0 => ~Encodes(<<range>>, FALSE)
    BY DEF Encodes
  <2>2. range.count # 0 /\ range.start + range.count <= AreaEnd => Encodes(<<range>>, FALSE)
    BY ConversationHistoriesAssumption DEF Encodes
  <2>3. BeyondArea(range) => unasked' = "read"
    BY DEF Hear, Unasked, ReadStep
  <2>4. CASE said = answer
    BY <2>4
  <2>5. CASE said # answer
    <3>1. range.count # 0 /\ ~Encodes(<<range>>, FALSE) /\ answer = Reject("request-codec")
          /\ ("payload" \in DOMAIN said \/ said = Reject("response-codec"))
      BY <1>3, <2>1, <2>5
    <3>2. BeyondArea(range)
      <4>1. AreaEnd \in Nat /\ range.start \in Nat /\ range.count \in Nat
        <5>1. AreaEnd \in Nat /\ Starts \subseteq 0 .. AreaEnd - 1 /\ ByteCounts \subseteq Nat
          BY ConversationHistoriesAssumption
        <5>2. range.start \in Starts /\ range.count \in ByteCounts
          BY DEF MemoryRanges
        <5>3. range.start \in 0 .. AreaEnd - 1 /\ range.count \in Nat
          BY <5>1, <5>2, Zenon
        <5> QED BY <5>1, <5>3
      <4>2. range.count # 0 /\ ~(range.start + range.count <= AreaEnd)
        BY <2>2, <3>1
      <4> QED BY <4>1, <4>2 DEF BeyondArea
    <3> HIDE DEF said, answer
    <3> QED BY <2>3, <3>1, <3>2 DEF Excused
  <2> QED BY <2>4, <2>5
<1> HIDE DEF said, answer
<1> QED BY <1>1, <1>4, <1>5, <1>6, <1>7, AnswerKept

-----------------------------------------------------------------------------

LEMMA ConversationInvKept ==
    ConversationInv /\ [ConversationNext]_conversationVars => ConversationInv'
<1> SUFFICES ASSUME ConversationInv, [ConversationNext]_conversationVars
             PROVE  ConversationInv'
  OBVIOUS
<1>1. CASE ConversationNext
  <2>1. PICK step : IsStep(step) /\ Hear(step)
    BY <1>1, HeardSteps
  <2>2. CASE \E event \in LifecycleEvents : step = LifecycleStep(event)
    BY <2>1, <2>2, LifecycleKept
  <2>3. CASE \E safety \in {"readOnly", "potentiallyMutating"}, allow \in BOOLEAN,
                kind \in ErrorKinds, remaining \in {0, 1} :
               step = RetryStep(safety, allow, kind, remaining)
    BY <2>1, <2>3, RetryKept
  <2>4. CASE \E reference \in References, locations \in Seq(MemoryRanges) :
               step = SendStep(reference, locations)
    BY <2>1, <2>4, SendKept
  <2>5. CASE \E reference \in References, count \in Nat, codes \in Seq({Success, 5}) :
               step = AcknowledgeStep(reference, count, codes)
    BY <2>1, <2>5, AcknowledgeKept
  <2>6. CASE \E reference \in References, range \in MemoryRanges, size \in 0 .. MaxBytes :
               step = ReadStep(reference, range, size)
    BY <2>1, <2>6, ReadKept
  <2> QED BY <2>1, <2>2, <2>3, <2>4, <2>5, <2>6 DEF IsStep
<1>2. CASE UNCHANGED conversationVars
  BY <1>2 DEF conversationVars, ConversationInv, SameAccount, ResultsMatch
<1> QED BY <1>1, <1>2

(* The invariant of both accounts holds of every conversation, whatever    *)
(* the ranges, the references and the number of its events.                *)
THEOREM ConversationInvariant == ConversationSpec => []ConversationInv
BY ConversationInvInit, ConversationInvKept, PTL DEF ConversationSpec

(* In every conversation the oracle of the harness and the client's        *)
(* policies have the same lifecycle and report the same attempts, and they *)
(* give the same answer but for a read beyond its area, which the client   *)
(* refuses to encode, and for the acknowledgement of nothing.              *)
THEOREM OracleAgreesOnRequests == ConversationSpec => []ConversationAgreesOnRequests
<1>1. ConversationInv => ConversationAgreesOnRequests
  <2> SUFFICES ASSUME ConversationInv PROVE ConversationAgreesOnRequests
    OBVIOUS
  <2>1. /\ policies.progress.pending = told.pending /\ policies.progress.history = told.history
        /\ policies.lifecycle = told.lifecycle
    BY DEF ConversationInv, SameAccount
  <2>2. Trace(policies.progress) =
          told.history \o [i \in DOMAIN told.pending |->
             [location |-> told.pending[i], outcome |-> [k \in DOMAIN told.pending |-> "pending"][i]]]
    BY <2>1 DEF Trace, Finish, Settled
  <2>3. [i \in DOMAIN told.pending |->
             [location |-> told.pending[i], outcome |-> [k \in DOMAIN told.pending |-> "pending"][i]]]
          = [i \in DOMAIN told.pending |-> [location |-> told.pending[i], outcome |-> "pending"]]
    OBVIOUS
  <2>4. ToldAttempts = Trace(policies.progress)
    BY <2>2, <2>3 DEF ToldAttempts
  <2> QED BY <2>1, <2>4
        DEF ConversationInv, ResultsMatch, Excused, ConversationAgreesOnRequests
<1> QED BY <1>1, ConversationInvariant, PTL
-----------------------------------------------------------------------------
(* Active requests                                                         *)

SessionSpec == SessionInit /\ [][SessionNext]_sessionVars

Plain  == {"begin", "send", "reconnect-setup", "reconnected", "disconnect"}
Phases == {"idle", "ready", "awaiting", "reconnectCotp", "reconnectSetup", "failed", "completed",
           "closed"}
Idling == {"ready", "reconnectCotp", "reconnectSetup"}

Refusals == {"not-connected", "already-active", "send-phase", "write-progress", "failure-phase",
             "reconnect-phase", "response-phase", "response-codec"}
SessionResults == {Accepted, Decided(TRUE), Decided(FALSE)}
                     \union {Rejected(category) : category \in Refusals}

SessionAttempt == [location : Ranges,
                   outcome : ItemResults \union {"replayedUnknown", "globalRejected"}]

Account == [lifecycle : LifecycleStates, phase : Phases, remaining : Nat, sends : Nat,
            active : References \union {NoReference}, history : Seq(SessionAttempt),
            pending : Seq(Ranges), result : SessionResults]

(* The state of the policies that tell the same story as an oracle.        *)
ModelOf(account) ==
    [lifecycle |-> account.lifecycle, phase |-> account.phase, remaining |-> account.remaining,
     sends |-> account.sends, active |-> account.active,
     progress |-> [history |-> account.history, pending |-> account.pending],
     result |-> account.result]

AllReplayed(history) == \A i \in DOMAIN history : history[i].outcome = "replayedUnknown"

(* The attempts of a write are its locations, once for each time it was    *)
(* sent; as long as it may be sent again, those of before are uncertain.   *)
AttemptsHold(account) ==
    LET history == account.history
        at(send, item) == (send - 1) * Width + item
    IN  /\ Len(history) + Len(account.pending) = account.sends * Width
        /\ \A send \in Nat \ {0}, item \in 1 .. Width : at(send, item) <= Len(history) =>
              /\ history[at(send, item)].location = config.locations[item]
              /\ send < account.sends => history[at(send, item)].outcome = "replayedUnknown"
        /\ account.phase \in Idling => account.pending = <<>> /\ AllReplayed(history)
        /\ account.phase = "awaiting" =>
              account.pending = config.locations /\ AllReplayed(history)

Good(account) ==
    /\ account.pending \in {<<>>, config.locations}
    /\ account.phase \in Idling \union {"awaiting"} => account.lifecycle # "closed"
    /\ account.sends <= 1 + config.budget - account.remaining
    /\ account.phase \in Idling => account.sends <= config.budget - account.remaining
    /\ config.write => AttemptsHold(account)

SessionInv ==
    /\ config \in Configurations /\ control \in ControlNames \union {"none"} /\ done \in Nat
    /\ oracle \in Account /\ model = ModelOf(oracle) /\ Good(oracle)

(* Answers as far as a decoder looks at them.                              *)
Pdus == [header : BOOLEAN, protocol : BOOLEAN, kind : Nat, reference : Nat, sized : BOOLEAN,
         error : BOOLEAN, parameters : [1 .. 2 -> Int], data : Seq(Nat)]

SessionEvents ==
    {Event(operation) : operation \in Plain} \union {Failure(kind) : kind \in ErrorKinds}
    \union {Response(pdu) : pdu \in Pdus}

LEMMA ConfigTyped ==
    ASSUME config \in Configurations
    PROVE  /\ config.write \in BOOLEAN /\ config.allow \in BOOLEAN /\ config.budget \in Nat
           /\ config.reference \in References /\ config.reference # NoReference
           /\ config.locations \in Seq(Ranges) /\ Width \in Nat \ {0}
           /\ DOMAIN config.locations = 1 .. Width
<1>1. PICK width \in 1 .. MaxWidth : config.locations \in [1 .. width -> Ranges]
  BY DEF Configurations
<1>2. width \in Nat \ {0}
  BY SessionHistoriesAssumption
<1>3. config.locations \in Seq(Ranges) /\ Len(config.locations) = width
  BY <1>1, <1>2
<1>4. /\ config.write \in BOOLEAN /\ config.allow \in BOOLEAN /\ config.budget \in Nat
      /\ config.reference \in References /\ config.reference # NoReference
  BY SessionHistoriesAssumption, ReferenceModulusAssumption
  DEF Configurations, References, NoReference
<1> QED BY <1>1, <1>2, <1>3, <1>4 DEF Width

(* An account that results from another one by a change of some parts.     *)
Moved(x, o, lifecycle, phase, active, remaining, result) ==
    /\ x \in Account
    /\ x.lifecycle = lifecycle /\ x.phase = phase /\ x.active = active
    /\ x.remaining = remaining /\ x.result = result
    /\ x.sends = o.sends /\ x.history = o.history /\ x.pending = o.pending
Attempted(x, o, pending, sends, phase, result) ==
    /\ x \in Account
    /\ x.pending = pending /\ x.sends = sends /\ x.phase = phase /\ x.result = result
    /\ x.lifecycle = o.lifecycle /\ x.active = o.active /\ x.remaining = o.remaining
    /\ x.history = o.history
Recorded(x, o, pending, history) ==
    /\ x \in Account
    /\ x.pending = pending /\ x.history = history
    /\ x.lifecycle = o.lifecycle /\ x.phase = o.phase /\ x.active = o.active
    /\ x.remaining = o.remaining /\ x.sends = o.sends /\ x.result = o.result

LEMMA AccountMoves ==
    ASSUME NEW o \in Account, NEW lifecycle \in LifecycleStates, NEW phase \in Phases,
           NEW active \in References \union {NoReference}, NEW remaining \in Nat,
           NEW result \in SessionResults
    PROVE  Moved([o EXCEPT !.lifecycle = lifecycle, !.phase = phase, !.active = active,
                           !.remaining = remaining, !.result = result],
                 o, lifecycle, phase, active, remaining, result)
BY DEF Account, Moved

LEMMA AccountAttempts ==
    ASSUME NEW o \in Account, NEW pending \in Seq(Ranges), NEW sends \in Nat, NEW phase \in Phases,
           NEW result \in SessionResults
    PROVE  Attempted([o EXCEPT !.pending = pending, !.sends = sends, !.phase = phase,
                               !.result = result], o, pending, sends, phase, result)
BY DEF Account, Attempted

LEMMA AccountRecords ==
    ASSUME NEW o \in Account, NEW pending \in Seq(Ranges), NEW history \in Seq(SessionAttempt)
    PROVE  Recorded([o EXCEPT !.pending = pending, !.history = history], o, pending, history)
BY DEF Account, Recorded

(* The policies' state as a record of its parts.                           *)
Policies(lifecycle, phase, remaining, sends, active, progress, result) ==
    [lifecycle |-> lifecycle, phase |-> phase, remaining |-> remaining, sends |-> sends,
     active |-> active, progress |-> progress, result |-> result]

PolicyParts == {"lifecycle", "phase", "remaining", "sends", "active", "progress", "result"}

LEMMA PoliciesAre ==
    ASSUME NEW x, DOMAIN x = PolicyParts, x = [part \in PolicyParts |-> x[part]]
    PROVE  x = Policies(x.lifecycle, x.phase, x.remaining, x.sends, x.active, x.progress, x.result)
BY DEF Policies, PolicyParts

LEMMA PoliciesOf ==
    ASSUME NEW o
    PROVE  ModelOf(o) = Policies(o.lifecycle, o.phase, o.remaining, o.sends, o.active,
                                 [history |-> o.history, pending |-> o.pending], o.result)
BY DEF ModelOf, Policies

MovedPolicies(o, lifecycle, phase, active, result) ==
    [ModelOf(o) EXCEPT !.lifecycle = lifecycle, !.phase = phase, !.active = active,
       !.result = result]

LEMMA PoliciesMove ==
    ASSUME NEW o, NEW lifecycle, NEW phase, NEW active, NEW result
    PROVE  MovedPolicies(o, lifecycle, phase, active, result)
             = Policies(lifecycle, phase, o.remaining, o.sends, active, ModelOf(o).progress,
                        result)
<1> DEFINE x == MovedPolicies(o, lifecycle, phase, active, result)
<1>1. DOMAIN x = PolicyParts /\ x = [part \in PolicyParts |-> x[part]]
  BY DEF ModelOf, PolicyParts, MovedPolicies
<1>2. Policies(x.lifecycle, x.phase, x.remaining, x.sends, x.active, x.progress, x.result)
        = Policies(lifecycle, phase, o.remaining, o.sends, active, ModelOf(o).progress,
                        result)
  BY DEF ModelOf, MovedPolicies
<1> HIDE DEF x
<1>3. x = Policies(x.lifecycle, x.phase, x.remaining, x.sends, x.active, x.progress, x.result)
  BY <1>1, PoliciesAre
<1> QED BY <1>2, <1>3 DEF x

SettledPolicies(o, remaining, lifecycle, phase, active, result, progress) ==
    [ModelOf(o) EXCEPT !.remaining = remaining, !.lifecycle = lifecycle, !.phase = phase,
       !.active = active, !.result = result, !.progress = progress]

LEMMA PoliciesSettle ==
    ASSUME NEW o, NEW remaining, NEW lifecycle, NEW phase, NEW active, NEW result, NEW progress
    PROVE  SettledPolicies(o, remaining, lifecycle, phase, active, result, progress)
             = Policies(lifecycle, phase, remaining, o.sends, active, progress, result)
<1> DEFINE x == SettledPolicies(o, remaining, lifecycle, phase, active, result, progress)
<1>1. DOMAIN x = PolicyParts /\ x = [part \in PolicyParts |-> x[part]]
  BY DEF ModelOf, PolicyParts, SettledPolicies
<1>2. Policies(x.lifecycle, x.phase, x.remaining, x.sends, x.active, x.progress, x.result)
        = Policies(lifecycle, phase, remaining, o.sends, active, progress, result)
  BY DEF ModelOf, SettledPolicies
<1> HIDE DEF x
<1>3. x = Policies(x.lifecycle, x.phase, x.remaining, x.sends, x.active, x.progress, x.result)
  BY <1>1, PoliciesAre
<1> QED BY <1>2, <1>3 DEF x

RetriedPolicies(o, remaining, lifecycle, phase, result, progress) ==
    [ModelOf(o) EXCEPT !.remaining = remaining, !.lifecycle = lifecycle, !.phase = phase,
       !.result = result, !.progress = progress]

LEMMA PoliciesRetry ==
    ASSUME NEW o, NEW remaining, NEW lifecycle, NEW phase, NEW result, NEW progress
    PROVE  RetriedPolicies(o, remaining, lifecycle, phase, result, progress)
             = Policies(lifecycle, phase, remaining, o.sends, o.active, progress, result)
<1> DEFINE x == RetriedPolicies(o, remaining, lifecycle, phase, result, progress)
<1>1. DOMAIN x = PolicyParts /\ x = [part \in PolicyParts |-> x[part]]
  BY DEF ModelOf, PolicyParts, RetriedPolicies
<1>2. Policies(x.lifecycle, x.phase, x.remaining, x.sends, x.active, x.progress, x.result)
        = Policies(lifecycle, phase, remaining, o.sends, o.active, progress, result)
  BY DEF ModelOf, RetriedPolicies
<1> HIDE DEF x
<1>3. x = Policies(x.lifecycle, x.phase, x.remaining, x.sends, x.active, x.progress, x.result)
  BY <1>1, PoliciesAre
<1> QED BY <1>2, <1>3 DEF x

FailedPolicies(o, lifecycle, phase, active, result, progress) ==
    [ModelOf(o) EXCEPT !.lifecycle = lifecycle, !.active = active, !.phase = phase,
       !.result = result, !.progress = progress]

LEMMA PoliciesFail ==
    ASSUME NEW o, NEW lifecycle, NEW phase, NEW active, NEW result, NEW progress
    PROVE  FailedPolicies(o, lifecycle, phase, active, result, progress)
             = Policies(lifecycle, phase, o.remaining, o.sends, active, progress, result)
<1> DEFINE x == FailedPolicies(o, lifecycle, phase, active, result, progress)
<1>1. DOMAIN x = PolicyParts /\ x = [part \in PolicyParts |-> x[part]]
  BY DEF ModelOf, PolicyParts, FailedPolicies
<1>2. Policies(x.lifecycle, x.phase, x.remaining, x.sends, x.active, x.progress, x.result)
        = Policies(lifecycle, phase, o.remaining, o.sends, active, progress, result)
  BY DEF ModelOf, FailedPolicies
<1> HIDE DEF x
<1>3. x = Policies(x.lifecycle, x.phase, x.remaining, x.sends, x.active, x.progress, x.result)
  BY <1>1, PoliciesAre
<1> QED BY <1>2, <1>3 DEF x

AnsweredPolicies(o, active, phase, result, progress) ==
    [ModelOf(o) EXCEPT !.active = active, !.phase = phase, !.result = result, !.progress = progress]

LEMMA PoliciesAnswer ==
    ASSUME NEW o, NEW active, NEW phase, NEW result, NEW progress
    PROVE  AnsweredPolicies(o, active, phase, result, progress)
             = Policies(o.lifecycle, phase, o.remaining, o.sends, active, progress, result)
<1> DEFINE x == AnsweredPolicies(o, active, phase, result, progress)
<1>1. DOMAIN x = PolicyParts /\ x = [part \in PolicyParts |-> x[part]]
  BY DEF ModelOf, PolicyParts, AnsweredPolicies
<1>2. Policies(x.lifecycle, x.phase, x.remaining, x.sends, x.active, x.progress, x.result)
        = Policies(o.lifecycle, phase, o.remaining, o.sends, active, progress, result)
  BY DEF ModelOf, AnsweredPolicies
<1> HIDE DEF x
<1>3. x = Policies(x.lifecycle, x.phase, x.remaining, x.sends, x.active, x.progress, x.result)
  BY <1>1, PoliciesAre
<1> QED BY <1>2, <1>3 DEF x

(* Both sides settle what is pending alike.                                *)
SettledHistory(o, outcomes) ==
    o.history \o [i \in DOMAIN o.pending |-> [location |-> o.pending[i], outcome |-> outcomes[i]]]
Alike(x, o, progress) ==
    /\ x \in Account
    /\ x.lifecycle = o.lifecycle /\ x.phase = o.phase /\ x.active = o.active
    /\ x.remaining = o.remaining /\ x.sends = o.sends /\ x.result = o.result
    /\ progress = [history |-> x.history, pending |-> x.pending]
Settlement(x, o, progress, outcomes) ==
    Alike(x, o, progress) /\ x.pending = <<>> /\ x.history = SettledHistory(o, outcomes)

LEMMA SettlingAgrees ==
    ASSUME config \in Configurations, NEW o \in Account, NEW outcomes, NEW others,
           \A i \in DOMAIN o.pending : outcomes[i] = others[i]
                /\ outcomes[i] \in ItemResults \union {"replayedUnknown", "globalRejected"}
    PROVE  Settlement(OracleFinish(o, outcomes), o, Settled(ModelOf(o).progress, others), outcomes)
<1> DEFINE a == [i \in DOMAIN o.pending |-> [location |-> o.pending[i], outcome |-> outcomes[i]]]
           b == [i \in DOMAIN o.pending |-> [location |-> o.pending[i], outcome |-> others[i]]]
<1>1. o.pending \in Seq(Ranges) /\ o.history \in Seq(SessionAttempt)
      /\ DOMAIN o.pending = 1 .. Len(o.pending) /\ Len(o.pending) \in Nat
  BY DEF Account
<1>2. a = b
  OBVIOUS
<1>3. a \in Seq(SessionAttempt)
  <2>1. \A i \in DOMAIN o.pending : [location |-> o.pending[i], outcome |-> outcomes[i]] \in SessionAttempt
    BY <1>1 DEF SessionAttempt
  <2>2. a \in [1 .. Len(o.pending) -> SessionAttempt]
    BY <1>1, <2>1
  <2> HIDE DEF a
  <2> QED BY <1>1, <2>2
<1>4. OracleFinish(o, outcomes) = [o EXCEPT !.pending = <<>>, !.history = o.history \o a]
  BY DEF OracleFinish, Account
<1>5. Settled(ModelOf(o).progress, others) = [history |-> o.history \o b, pending |-> <<>>]
  BY DEF Settled, ModelOf
<1> HIDE DEF a, b
<1>6. o.history \o a \in Seq(SessionAttempt)
  BY <1>1, <1>3
<1> DEFINE h == o.history \o a
           none == <<>>
<1>7. h \in Seq(SessionAttempt) /\ none \in Seq(Ranges)
  BY <1>6
<1>8. OracleFinish(o, outcomes) = [o EXCEPT !.pending = none, !.history = h]
  BY <1>4
<1>9. Settled(ModelOf(o).progress, others) = [history |-> h, pending |-> none]
  BY <1>2, <1>5
<1>10. h = SettledHistory(o, outcomes)
  BY DEF SettledHistory, a
<1> HIDE DEF h, none
<1>11. Recorded([o EXCEPT !.pending = none, !.history = h], o, none, h)
  BY <1>7, AccountRecords
<1> DEFINE x == OracleFinish(o, outcomes)
<1> HIDE DEF x
<1>12. Recorded(x, o, none, h)
  BY <1>8, <1>11 DEF x
<1>13. Settled(ModelOf(o).progress, others) = [history |-> x.history, pending |-> x.pending]
  BY <1>9, <1>12, Zenon DEF Recorded
<1>14. Alike(x, o, Settled(ModelOf(o).progress, others))
  BY <1>12, <1>13, Zenon DEF Alike, Recorded
<1>15. x.pending = <<>> /\ x.history = SettledHistory(o, outcomes)
  BY <1>10, <1>12, Zenon DEF Recorded, none
<1> QED BY <1>14, <1>15, Zenon DEF Settlement, x

(* Where the attempts of one send are.                                     *)
IsPlaced(n, k, s, w, length) ==
    /\ n < s => (n - 1) * w + k \in 1 .. length
    /\ n = s => (n - 1) * w + k = length + k
    /\ (n - 1) * w + k <= length + w => n <= s

LEMMA PlaceOfAttempt ==
    ASSUME NEW w \in Nat \ {0}, NEW s \in Nat, NEW n \in Nat \ {0}, NEW k \in 1 .. w, 
           NEW length \in Nat, length + w = s * w
    PROVE  IsPlaced(n, k, s, w, length)
<1>1. \A d \in Nat : d * w \in Nat /\ (d # 0 => d * w >= w)
  OBVIOUS
<1>2. (n - 1) * w = n * w - w
  OBVIOUS
<1>3. n < s => (n - 1) * w + w <= length
  <2> SUFFICES ASSUME n < s PROVE (n - 1) * w + w <= length
    OBVIOUS
  <2>1. s - n \in Nat /\ s - n # 0
    OBVIOUS
  <2>2. (s - n) * w >= w
    BY <1>1, <2>1
  <2>3. (s - n) * w = s * w - n * w
    OBVIOUS
  <2> QED BY <1>2, <2>2, <2>3
<1>4. (n - 1) * w \in Nat
  <2>1. n - 1 \in Nat
    OBVIOUS
  <2> QED BY <1>1, <2>1
<1>5. n > s => (n - 1) * w >= s * w
  <2> SUFFICES ASSUME n > s PROVE (n - 1) * w >= s * w
    OBVIOUS
  <2>1. n - 1 - s \in Nat
    OBVIOUS
  <2>2. (n - 1 - s) * w \in Nat
    BY <1>1, <2>1
  <2>3. (n - 1 - s) * w = (n - 1) * w - s * w
    OBVIOUS
  <2>4. s * w \in Nat
    BY <1>1
  <2> QED BY <1>4, <2>2, <2>3, <2>4
<1> DEFINE before == (n - 1) * w
           all == s * w
<1>6. before \in Nat /\ all \in Nat /\ length + w = all
  BY <1>1, <1>4
<1>7. n < s => before + w <= length
  BY <1>3
<1>8. n = s => before = all - w
  BY <1>2
<1>9. n > s => before >= all
  BY <1>5
<1> HIDE DEF before, all
<1>10. /\ n < s => before + k \in 1 .. length
       /\ n = s => before + k = length + k
       /\ before + k <= length + w => n <= s
  BY <1>6, <1>7, <1>8, <1>9
<1> QED BY <1>10 DEF before, IsPlaced

LEMMA QuietAttempts ==
    ASSUME NEW o \in Account, NEW x \in Account, AttemptsHold(o),
           x.history = o.history, x.pending = o.pending, x.sends = o.sends,
           x.phase \in Idling => o.phase \in Idling,
           x.phase = "awaiting" => o.phase = "awaiting"
    PROVE  AttemptsHold(x)
BY DEF AttemptsHold

LEMMA NextAttempts ==
    ASSUME config \in Configurations, NEW o \in Account, NEW x \in Account, AttemptsHold(o),
           o.phase = "ready", x.history = o.history, x.pending = config.locations,
           x.sends = o.sends + 1, x.phase = "awaiting"
    PROVE  AttemptsHold(x)
<1> DEFINE h == o.history
           w == Width
<1>1. w \in Nat \ {0} /\ Len(config.locations) = w /\ o.sends \in Nat
      /\ Len(h) \in Nat /\ DOMAIN h = 1 .. Len(h)
  BY ConfigTyped DEF Account, Width
<1>2. o.pending = <<>> /\ AllReplayed(h) /\ Len(h) + 0 = o.sends * w
  BY DEF AttemptsHold, Idling
<1>3. Len(h) + w = (o.sends + 1) * w
  BY <1>1, <1>2
<1>4. ASSUME NEW n \in Nat \ {0}, NEW k \in 1 .. w, (n - 1) * w + k <= Len(h)
      PROVE  /\ h[(n - 1) * w + k].location = config.locations[k]
             /\ h[(n - 1) * w + k].outcome = "replayedUnknown"
  <2>1. h[(n - 1) * w + k].location = config.locations[k]
    BY <1>4 DEF AttemptsHold
  <2>2. (n - 1) * w + k \in 1 .. Len(h)
    <3>1. (n - 1) * w \in Nat
      <4>1. n - 1 \in Nat
        OBVIOUS
      <4>2. \A d \in Nat : d * w \in Nat
        BY <1>1
      <4> QED BY <4>1, <4>2
    <3> DEFINE before == (n - 1) * w
    <3>2. before \in Nat /\ before + k <= Len(h)
      BY <1>4, <3>1
    <3> HIDE DEF before
    <3>3. before + k \in 1 .. Len(h)
      BY <1>1, <3>2
    <3> QED BY <3>3 DEF before
  <2> QED BY <1>1, <1>2, <2>1, <2>2 DEF AllReplayed
<1> HIDE DEF w
<1>5. Len(x.history) + Len(x.pending) = x.sends * w
  BY <1>1, <1>3
<1> QED BY <1>2, <1>4, <1>5 DEF AttemptsHold, Idling, w

LEMMA SettledAttempts ==
    ASSUME config \in Configurations, NEW o \in Account, NEW x \in Account, AttemptsHold(o),
           o.phase = "awaiting", NEW outcomes, x.pending = <<>>, x.sends = o.sends,
           x.history = SettledHistory(o, outcomes),
           x.phase # "awaiting",
           x.phase \in Idling => \A i \in DOMAIN o.pending : outcomes[i] = "replayedUnknown"
    PROVE  AttemptsHold(x)
<1> DEFINE h == o.history
           w == Width
           a == [i \in DOMAIN o.pending |-> [location |-> o.pending[i], outcome |-> outcomes[i]]]
           both == x.history
<1>1. /\ w \in Nat \ {0} /\ o.sends \in Nat /\ Len(h) \in Nat /\ DOMAIN h = 1 .. Len(h)
      /\ h \in Seq(SessionAttempt) /\ both \in Seq(SessionAttempt)
      /\ DOMAIN config.locations = 1 .. w /\ Len(config.locations) = w
  <2>1. w \in Nat \ {0} /\ DOMAIN config.locations = 1 .. w /\ Len(config.locations) = w
    BY ConfigTyped DEF Width
  <2>2. o.sends \in Nat /\ h \in Seq(SessionAttempt) /\ both \in Seq(SessionAttempt)
    BY DEF Account
  <2> HIDE DEF h, both, w
  <2> QED BY <2>1, <2>2
<1>2. o.pending = config.locations /\ AllReplayed(h) /\ Len(h) + w = o.sends * w
  BY <1>1 DEF AttemptsHold
<1>3. DOMAIN a = 1 .. w /\ Len(a) = w
      /\ \A k \in 1 .. w : a[k].location = config.locations[k] /\ a[k].outcome = outcomes[k]
  BY <1>1, <1>2
<1> DEFINE T == {a[k] : k \in 1 .. w}
<1>4. a \in Seq(T)
  <2>1. a \in [1 .. w -> T] /\ w \in Nat
    BY <1>1, <1>3
  <2> HIDE DEF a, T
  <2> QED BY <2>1
<1>5. /\ Len(both) = Len(h) + w /\ DOMAIN both = 1 .. Len(h) + w
      /\ \A i \in 1 .. Len(h) : both[i] = h[i]
      /\ \A k \in 1 .. w : both[Len(h) + k] = a[k]
  <2> HIDE DEF a, h
  <2>1. both = h \o a
    BY DEF a, h, SettledHistory
  <2> DEFINE S == SessionAttempt \union T
  <2>2. SessionAttempt \subseteq S /\ T \subseteq S
    OBVIOUS
  <2> HIDE DEF S
  <2>3. h \in Seq(S) /\ a \in Seq(S)
    BY <1>1, <1>4, <2>2 DEF h
  <2>4. Len(h \o a) = Len(h) + Len(a)
        /\ \A i \in 1 .. Len(h) + Len(a) :
              (h \o a)[i] = IF i <= Len(h) THEN h[i] ELSE a[i - Len(h)]
    BY <2>3, ConcatProperties
  <2>5. DOMAIN both = 1 .. Len(both)
    BY <1>1
  <2>6. ASSUME NEW k \in 1 .. w PROVE both[Len(h) + k] = a[k]
    <3>1. Len(h) + k \in 1 .. Len(h) + w /\ ~(Len(h) + k <= Len(h)) /\ (Len(h) + k) - Len(h) = k
      BY <1>1
    <3> QED BY <1>3, <2>1, <2>4, <3>1
  <2>7. ASSUME NEW i \in 1 .. Len(h) PROVE both[i] = h[i]
    <3>1. i \in 1 .. Len(h) + w /\ i <= Len(h)
      BY <1>1
    <3> QED BY <1>3, <2>1, <2>4, <3>1
  <2> QED BY <1>3, <2>1, <2>4, <2>5, <2>6, <2>7
<1>6. Len(both) + Len(x.pending) = x.sends * w
  BY <1>1, <1>2, <1>5
<1>7. ASSUME NEW n \in Nat \ {0}, NEW k \in 1 .. w, (n - 1) * w + k <= Len(both)
      PROVE  /\ both[(n - 1) * w + k].location = config.locations[k]
             /\ n < x.sends => both[(n - 1) * w + k].outcome = "replayedUnknown"
  <2> DEFINE i == (n - 1) * w + k
  <2>1. /\ n < o.sends => i \in 1 .. Len(h)
        /\ n = o.sends => i = Len(h) + k
        /\ i <= Len(h) + w => n <= o.sends
    <3> DEFINE length == Len(h)
               s == o.sends
    <3>1. /\ w \in Nat \ {0} /\ s \in Nat /\ n \in Nat \ {0} /\ k \in 1 .. w
          /\ length \in Nat /\ length + w = s * w
      BY <1>1, <1>2
    <3> HIDE DEF length, s, w
    <3>2. IsPlaced(n, k, s, w, length)
      BY <3>1, PlaceOfAttempt
    <3> QED BY <3>2, Zenon DEF IsPlaced, length, s
  <2>2. i \in 1 .. Len(h) => h[i].location = config.locations[k]
    <3>1. i \in 1 .. Len(h) => i <= Len(h)
      BY <1>1
    <3>2. i <= Len(h) => h[i].location = config.locations[k]
      BY Zenon DEF AttemptsHold
    <3> QED BY <3>1, <3>2
  <2>3. i <= Len(h) + w
    BY <1>5, <1>7
  <2> HIDE DEF i, a, h, w, both
  <2>4. CASE n < o.sends
    <3>1. i \in 1 .. Len(h)
      BY <2>1, <2>4
    <3>2. both[i] = h[i] /\ h[i].outcome = "replayedUnknown"
      BY <1>1, <1>2, <1>5, <3>1 DEF AllReplayed
    <3> QED BY <2>2, <3>1, <3>2 DEF i
  <2>5. CASE n = o.sends
    <3>1. both[i] = a[k]
      BY <1>5, <2>1, <2>5
    <3> QED BY <1>3, <2>5, <3>1 DEF i
  <2> QED BY <1>1, <2>1, <2>3, <2>4, <2>5
<1>8. x.phase \in Idling => AllReplayed(both)
  <2> SUFFICES ASSUME x.phase \in Idling, NEW i \in DOMAIN both
               PROVE  both[i].outcome = "replayedUnknown"
    BY DEF AllReplayed
  <2>1. \A k \in 1 .. w : a[k].outcome = "replayedUnknown"
    BY <1>1, <1>2, <1>3
  <2> HIDE DEF a, h, w, both
  <2>2. CASE i \in 1 .. Len(h)
    BY <1>1, <1>2, <1>5, <2>2 DEF AllReplayed
  <2>3. CASE i \notin 1 .. Len(h)
    <3> DEFINE k == i - Len(h)
    <3>1. k \in 1 .. w /\ i = Len(h) + k
      BY <1>1, <1>5, <2>3
    <3> HIDE DEF k
    <3> QED BY <1>5, <2>1, <3>1
  <2> QED BY <2>2, <2>3
<1> HIDE DEF a, h, w, both
<1> QED BY <1>6, <1>7, <1>8 DEF AttemptsHold, w, both

-----------------------------------------------------------------------------
(* The two decoders                                                        *)

(* What is left of the data behind an offset.                              *)
From(s, k) == SubSeq(s, k + 1, Len(s))

LEMMA FromIs ==
    ASSUME NEW s \in Seq(Nat), NEW k \in 0 .. Len(s)
    PROVE  /\ From(s, k) \in Seq(Nat) /\ Len(From(s, k)) = Len(s) - k
           /\ \A i \in 1 .. Len(s) - k : From(s, k)[i] = s[k + i]
<1> DEFINE n == Len(s)
<1>1. n \in Nat /\ k \in Nat /\ k <= n /\ \A i \in k + 1 .. n : s[i] \in Nat
  OBVIOUS
<1> HIDE DEF n
<1>2. /\ SubSeq(s, k + 1, n) \in Seq(Nat)
      /\ Len(SubSeq(s, k + 1, n)) = IF k + 1 <= n THEN n - (k + 1) + 1 ELSE 0
      /\ \A i \in 1 .. n - (k + 1) + 1 : SubSeq(s, k + 1, n)[i] = s[(k + 1) + i - 1]
  <2>1. k + 1 \in Int /\ n \in Int
    BY <1>1
  <2> DEFINE m == k + 1
  <2>2. m \in Int /\ \A i \in m .. n : s[i] \in Nat
    BY <1>1, <2>1
  <2> HIDE DEF m
  <2>3. /\ SubSeq(s, m, n) \in Seq(Nat)
        /\ Len(SubSeq(s, m, n)) = IF m <= n THEN n - m + 1 ELSE 0
        /\ \A i \in 1 .. n - m + 1 : SubSeq(s, m, n)[i] = s[m + i - 1]
    BY <2>1, <2>2, SubSeqProperties
  <2> QED BY <2>3 DEF m
<1> DEFINE f == SubSeq(s, k + 1, n)
<1>3. f \in Seq(Nat) /\ Len(f) = n - k
  BY <1>1, <1>2
<1>4. ASSUME NEW i \in 1 .. n - k PROVE f[i] = s[k + i]
  <2>1. i \in 1 .. n - (k + 1) + 1 /\ (k + 1) + i - 1 = k + i
    BY <1>1
  <2>2. f[i] = s[(k + 1) + i - 1]
    BY <1>2, <2>1
  <2> QED BY <2>1, <2>2
<1> HIDE DEF f
<1>5. f = From(s, k)
  BY DEF From, f, n
<1> QED BY <1>3, <1>4, <1>5 DEF n

LEMMA FromFrom ==
    ASSUME NEW s \in Seq(Nat), NEW k \in 0 .. Len(s), NEW j \in 0 .. Len(s) - k
    PROVE  From(From(s, k), j) = From(s, k + j)
<1> DEFINE n == Len(s)
           a == From(s, k)
           b == From(a, j)
           c == From(s, k + j)
<1>1. n \in Nat /\ k \in Nat /\ j \in Nat /\ k + j \in 0 .. n
  OBVIOUS
<1>2. a \in Seq(Nat) /\ Len(a) = n - k /\ \A i \in 1 .. n - k : a[i] = s[k + i]
  BY FromIs
<1>3. c \in Seq(Nat) /\ Len(c) = n - (k + j) /\ \A i \in 1 .. n - (k + j) : c[i] = s[(k + j) + i]
  <2> DEFINE m == k + j
  <2>1. m \in 0 .. Len(s)
    BY <1>1
  <2> HIDE DEF m
  <2>2. From(s, m) \in Seq(Nat) /\ Len(From(s, m)) = Len(s) - m
        /\ \A i \in 1 .. Len(s) - m : From(s, m)[i] = s[m + i]
    BY <2>1, FromIs
  <2> QED BY <2>2 DEF m
<1> HIDE DEF a, c
<1>4. b \in Seq(Nat) /\ Len(b) = Len(a) - j /\ \A i \in 1 .. Len(a) - j : b[i] = a[j + i]
  <2>1. j \in 0 .. Len(a)
    BY <1>1, <1>2
  <2> QED BY <1>2, <2>1, FromIs
<1> HIDE DEF b, n
<1>5. Len(b) = Len(c)
  BY <1>1, <1>2, <1>3, <1>4
<1>6. ASSUME NEW i \in 1 .. Len(b) PROVE b[i] = c[i]
  <2>1. i \in 1 .. Len(a) - j /\ j + i \in 1 .. n - k /\ i \in 1 .. n - (k + j)
        /\ k + (j + i) = (k + j) + i
    BY <1>1, <1>2, <1>4
  <2>2. b[i] = a[j + i]
    BY <1>4, <2>1
  <2>3. a[j + i] = s[k + (j + i)]
    BY <1>2, <2>1
  <2>4. c[i] = s[(k + j) + i]
    BY <1>3, <2>1
  <2> QED BY <2>1, <2>2, <2>3, <2>4
<1>7. b = c
  BY <1>3, <1>4, <1>5, <1>6, SeqEqual
<1> QED BY <1>7 DEF a, b, c

LEMMA FromWhole ==
    ASSUME NEW s \in Seq(Nat)
    PROVE  /\ From(s, 0) = s /\ 0 \in 0 .. Len(s) /\ s # Bad
           /\ \A k \in 0 .. Len(s) : From(s, k) = <<>> <=> k = Len(s)
<1>1. From(s, 0) = s
  <2>1. 0 + 1 = 1
    OBVIOUS
  <2> QED BY <2>1, SubSeqFull DEF From
<1>2. s # Bad
  <2>1. SUFFICES ASSUME s = <<-1>> PROVE FALSE
    BY DEF Bad
  <2>2. Len(s) = 1 /\ s[1] = -1
    BY <2>1
  <2>3. s[1] \in Nat
    BY <2>2
  <2> QED BY <2>2, <2>3
<1>3. ASSUME NEW k \in 0 .. Len(s) PROVE From(s, k) = <<>> <=> k = Len(s)
  <2>1. From(s, k) \in Seq(Nat) /\ Len(From(s, k)) = Len(s) - k
    BY FromIs
  <2> DEFINE f == From(s, k)
  <2> HIDE DEF f
  <2>2. f = <<>> <=> Len(f) = 0
    BY <2>1 DEF f
  <2> QED BY <2>1, <2>2 DEF f
<1> QED BY <1>1, <1>2, <1>3

LEMMA DroppedIs ==
    ASSUME NEW s \in Seq(Nat), NEW k \in 0 .. Len(s), NEW n \in Nat
    PROVE  Dropped(From(s, k), n) = IF k + n > Len(s) THEN Bad ELSE From(s, k + n)
<1> DEFINE c == From(s, k)
<1>1. c \in Seq(Nat) /\ Len(c) = Len(s) - k
  BY FromIs
<1>2. Dropped(c, n) = IF n > Len(c) THEN Bad ELSE From(c, n)
  BY DEF Dropped, From
<1>3. n > Len(c) <=> k + n > Len(s)
  BY <1>1
<1>4. ~(n > Len(c)) => From(c, n) = From(s, k + n)
  <2> SUFFICES ASSUME ~(n > Len(c)) PROVE From(c, n) = From(s, k + n)
    OBVIOUS
  <2>1. n \in 0 .. Len(s) - k
    BY <1>1
  <2> QED BY <2>1, FromFrom
<1> HIDE DEF c
<1>5. Dropped(c, n) = IF k + n > Len(s) THEN Bad ELSE From(s, k + n)
  BY <1>2, <1>3, <1>4
<1> QED BY <1>5 DEF c

(* The client's cursor is where the oracle's offset is.                    *)
CursorAt(data, offset) == IF offset = Malformed THEN Bad ELSE From(data, offset)
Offsets(data) == {Malformed} \union 0 .. Len(data)

LEMMA ItemAgrees ==
    ASSUME config \in Configurations, NEW data \in Seq(Nat), NEW item \in 1 .. Width,
           NEW offset \in Offsets(data)
    PROVE  /\ OracleItem(data, item, offset) \in Offsets(data)
           /\ ReadItem(CursorAt(data, offset), item)
                = CursorAt(data, OracleItem(data, item, offset))
<1> DEFINE L == Len(data)
           cells == CursorAt(data, offset)
<1>1. L \in Nat /\ Malformed \notin 0 .. L /\ Width \in Nat /\ DOMAIN config.locations = 1 .. Width
  BY ConfigTyped DEF Malformed
<1>2. CASE offset = Malformed
  <2>1. OracleItem(data, item, offset) = Malformed /\ ReadItem(Bad, item) = Bad
    BY <1>2 DEF OracleItem, ReadItem
  <2> QED BY <1>2, <2>1 DEF CursorAt, Offsets
<1>3. CASE offset # Malformed
  <2>1. offset \in 0 .. L /\ cells = From(data, offset)
    BY <1>3 DEF Offsets, CursorAt
  <2>2. cells \in Seq(Nat) /\ Len(cells) = L - offset /\ cells # Bad
        /\ \A i \in 1 .. L - offset : cells[i] = data[offset + i]
    <3>1. From(data, offset) \in Seq(Nat) /\ Len(From(data, offset)) = L - offset
          /\ \A i \in 1 .. L - offset : From(data, offset)[i] = data[offset + i]
      BY <2>1, FromIs
    <3> HIDE DEF cells, L
    <3>2. cells # Bad
      BY <2>1, <3>1, FromWhole
    <3> QED BY <2>1, <3>1, <3>2
  <2>3. CASE offset + 3 > L
    <3>1. OracleItem(data, item, offset) = Malformed
      BY <2>3 DEF OracleItem
    <3>2. Len(cells) < 3
      BY <1>1, <2>1, <2>2, <2>3
    <3> HIDE DEF cells
    <3>3. ReadItem(cells, item) = Bad
      BY <3>2 DEF ReadItem
    <3> QED BY <3>1, <3>3 DEF CursorAt, Offsets, cells
  <2>4. CASE ~(offset + 3 > L)
    <3> DEFINE code == data[offset + 1]
               transport == data[offset + 2]
               length == data[offset + 3]
               size == IF transport = 9 THEN length ELSE length \div 8
               last == offset + 3 + size
               padded == item < Width /\ size % 2 = 1
               refused == \/ transport # 9 /\ length % 8 # 0
                          \/ code = Success /\ (transport # 4 \/ size # config.locations[item])
    <3>1. cells[1] = code /\ cells[2] = transport /\ cells[3] = length
      <4>1. 1 \in 1 .. L - offset /\ 2 \in 1 .. L - offset /\ 3 \in 1 .. L - offset
        BY <1>1, <2>1, <2>4
      <4> HIDE DEF cells
      <4> QED BY <2>2, <4>1
    <3>2. length \in Nat /\ size \in Nat /\ last \in Nat
      <4>1. length \in Nat
        BY <1>1, <2>1, <2>4
      <4> HIDE DEF length
      <4>2. size \in Nat
        BY <4>1
      <4> HIDE DEF size
      <4> QED BY <1>1, <2>1, <4>1, <4>2
    <3> DEFINE rest == Dropped(SubSeq(cells, 4, Len(cells)), size)
               next == IF item < Width /\ size % 2 = 1 /\ rest # Bad THEN Dropped(rest, 1) ELSE rest
               end == OracleItem(data, item, offset)
    <3>3. end = IF refused \/ last > L \/ (padded /\ last = L) THEN Malformed
                ELSE IF padded THEN last + 1 ELSE last
      BY <1>3, <2>4 DEF OracleItem
    <3>4. ReadItem(cells, item) = IF refused THEN Bad ELSE next
      <4> HIDE DEF cells
      <4>1. cells # Bad /\ ~(Len(cells) < 3)
        BY <1>1, <2>1, <2>2, <2>4
      <4> QED BY <3>1, <4>1 DEF ReadItem
    <3>5. rest = IF last > L THEN Bad ELSE From(data, last)
      <4>1. SubSeq(cells, 4, Len(cells)) = From(cells, 3)
        <5>1. 3 + 1 = 4
          OBVIOUS
        <5> HIDE DEF cells
        <5> QED BY <5>1 DEF From
      <4>2. From(cells, 3) = From(data, offset + 3)
        <5>1. 3 \in 0 .. Len(data) - offset
          BY <1>1, <2>1, <2>4
        <5> HIDE DEF cells
        <5> QED BY <2>1, <5>1, FromFrom
      <4> DEFINE k == offset + 3
      <4>3. k \in 0 .. Len(data)
        BY <1>1, <2>1, <2>4
      <4> HIDE DEF cells, size, k
      <4>4. Dropped(From(data, k), size) = IF k + size > Len(data) THEN Bad ELSE From(data, k + size)
        BY <3>2, <4>3, DroppedIs
      <4> QED BY <4>1, <4>2, <4>4 DEF k
    <3> HIDE DEF refused, size, last
    <3>6. last <= L => From(data, last) # Bad
             /\ Dropped(From(data, last), 1) = IF last + 1 > L THEN Bad ELSE From(data, last + 1)
      <4> SUFFICES ASSUME last <= L
                   PROVE  /\ From(data, last) # Bad
                          /\ Dropped(From(data, last), 1)
                               = IF last + 1 > L THEN Bad ELSE From(data, last + 1)
        OBVIOUS
      <4>1. last \in 0 .. Len(data) /\ 1 \in Nat
        BY <3>2
      <4>2. From(data, last) \in Seq(Nat)
        BY <4>1, FromIs
      <4> QED BY <4>1, <4>2, FromWhole, DroppedIs
    <3> HIDE DEF rest, L, cells, end
    <3>7. end \in Offsets(data)
      <4>1. end = Malformed \/ end \in 0 .. L
        BY <1>1, <3>2, <3>3
      <4> QED BY <4>1 DEF Offsets, L
    <3>8. (IF refused THEN Bad ELSE next) = CursorAt(data, end)
      <4>1. CASE refused \/ last > L
        <5>1. end = Malformed
          BY <3>3, <4>1
        <5>2. ~refused => rest = Bad /\ next = Bad
          BY <3>5, <4>1
        <5> QED BY <5>1, <5>2 DEF CursorAt
      <4>2. CASE ~refused /\ ~(last > L)
        <5>1. rest = From(data, last) /\ rest # Bad /\ last <= L
          BY <1>1, <3>2, <3>5, <3>6, <4>2
        <5>2. CASE padded
          <6>1. next = Dropped(From(data, last), 1)
            BY <5>1, <5>2
          <6>2. last + 1 > L <=> last = L
            BY <1>1, <3>2, <5>1
          <6>3. end = IF last = L THEN Malformed ELSE last + 1
            BY <3>3, <4>2, <5>2
          <6>4. last + 1 # Malformed
            BY <3>2 DEF Malformed
          <6> QED BY <3>6, <4>2, <5>1, <6>1, <6>2, <6>3, <6>4 DEF CursorAt
        <5>3. CASE ~padded
          <6>1. next = rest
            BY <5>3
          <6>2. end = last
            BY <3>3, <4>2, <5>3
          <6>3. last # Malformed
            BY <3>2 DEF Malformed
          <6> QED BY <4>2, <5>1, <6>1, <6>2, <6>3 DEF CursorAt
        <5> QED BY <5>2, <5>3
      <4> QED BY <4>1, <4>2
    <3> QED BY <3>4, <3>7, <3>8 DEF cells, end
  <2> QED BY <2>3, <2>4
<1> QED BY <1>2, <1>3

(* What either decoder makes of one item after the other.                  *)
OraclePath(data, path) ==
    path[0] = 0 /\ \A item \in 1 .. Width : path[item] = OracleItem(data, item, path[item - 1])
CursorPath(data, path) ==
    path[0] = data /\ \A item \in 1 .. Width : path[item] = ReadItem(path[item - 1], item)

LEMMA OraclePathExists ==
    ASSUME config \in Configurations, NEW data \in Seq(Nat)
    PROVE  \E path \in [0 .. Width -> Offsets(data)] : OraclePath(data, path)
<1> DEFINE S == Offsets(data)
           n == Width
           step == [p \in S \X (1 .. n) |-> OracleItem(data, p[2], p[1])]
<1>1. n \in Nat
  BY ConfigTyped
<1>2. 0 \in S
  BY FromWhole DEF Offsets
<1>3. \A x \in S, i \in 1 .. n : OracleItem(data, i, x) \in S
  BY ItemAgrees
<1> HIDE DEF S
<1>4. /\ step \in [S \X (1 .. n) -> S]
      /\ \A x \in S, i \in 1 .. n : step[<<x, i>>] = OracleItem(data, i, x)
  BY <1>3
<1> HIDE DEF step
<1>5. PICK f \in [0 .. n -> S] : StepByStep(f, n, 0, step)
  BY <1>1, <1>2, <1>4, Recursion
<1>6. ASSUME NEW i \in 1 .. n PROVE f[i] = OracleItem(data, i, f[i - 1])
  <2>1. f[i] = step[<<f[i - 1], i>>] /\ f[i - 1] \in S
    BY <1>1, <1>5 DEF StepByStep
  <2> QED BY <1>4, <2>1
<1>7. OraclePath(data, f)
  BY <1>5, <1>6 DEF OraclePath, StepByStep
<1> QED BY <1>5, <1>7 DEF S

LEMMA OracleItemsFollow ==
    ASSUME config \in Configurations, NEW data \in Seq(Nat),
           NEW path \in [0 .. Width -> Offsets(data)], OraclePath(data, path)
    PROVE  OracleItems(data) = path[Width]
<1> DEFINE n == Width
           Defines(e) == e = [item \in 0 .. n |-> IF item = 0 THEN 0
                                                  ELSE OracleItem(data, item, e[item - 1])]
           end == CHOOSE e : Defines(e)
<1>1. OracleItems(data) = end[n]
  BY DEF OracleItems
<1>2. Defines(path)
  <2>1. \A i \in 0 .. n : path[i] = IF i = 0 THEN 0 ELSE OracleItem(data, i, path[i - 1])
    BY ConfigTyped DEF OraclePath
  <2> QED BY <2>1
<1>3. Defines(end)
  BY <1>2
<1> HIDE DEF end
<1>4. n \in Nat
  BY ConfigTyped
<1> HIDE DEF n
<1>5. end[0] = 0 /\ \A i \in 1 .. n : end[i] = OracleItem(data, i, end[i - 1])
  <2>1. end = [i \in 0 .. n |-> IF i = 0 THEN 0 ELSE OracleItem(data, i, end[i - 1])]
    BY <1>3
  <2> QED BY <1>4, <2>1
<1>6. end[0] = path[0] /\ \A i \in 1 .. n : end[i - 1] = path[i - 1] => end[i] = path[i]
  BY <1>5 DEF OraclePath, n
<1>7. \A i \in 0 .. n : end[i] = path[i]
  BY <1>4, <1>6, SameSteps, ZenonT(30)
<1> QED BY <1>1, <1>4, <1>7 DEF n

LEMMA ReadItemsFollow ==
    ASSUME config \in Configurations, NEW data \in Seq(Nat),
           NEW path, path = [item \in 0 .. Width |-> path[item]], CursorPath(data, path)
    PROVE  ReadItems(data) = path[Width]
<1> DEFINE n == Width
           Defines(e) == e = [item \in 0 .. n |-> IF item = 0 THEN data
                                                  ELSE ReadItem(e[item - 1], item)]
           left == CHOOSE e : Defines(e)
<1>1. ReadItems(data) = left[n]
  BY DEF ReadItems
<1>2. Defines(path)
  <2>1. \A i \in 0 .. n : i # 0 => i \in 1 .. n
    BY ConfigTyped
  <2>2. \A i \in 0 .. n : path[i] = IF i = 0 THEN data ELSE ReadItem(path[i - 1], i)
    BY <2>1, Zenon DEF CursorPath
  <2> QED BY <2>2
<1>3. Defines(left)
  BY <1>2
<1> HIDE DEF left
<1>4. n \in Nat
  BY ConfigTyped
<1> HIDE DEF n
<1>5. left[0] = data /\ \A i \in 1 .. n : left[i] = ReadItem(left[i - 1], i)
  <2>1. left = [i \in 0 .. n |-> IF i = 0 THEN data ELSE ReadItem(left[i - 1], i)]
    BY <1>3
  <2>2. 0 \in 0 .. n /\ \A i \in 1 .. n : i \in 0 .. n /\ i # 0
    BY <1>4
  <2> QED BY <2>1, <2>2, Zenon
<1>6. left[0] = path[0] /\ \A i \in 1 .. n : left[i - 1] = path[i - 1] => left[i] = path[i]
  BY <1>5 DEF CursorPath, n
<1>7. \A i \in 0 .. n : left[i] = path[i]
  BY <1>4, <1>6, SameSteps, ZenonT(30)
<1> QED BY <1>1, <1>4, <1>7 DEF n

(* Both decoders accept the same items, up to the last cell of the data.   *)
LEMMA ItemsAgree ==
    ASSUME config \in Configurations, NEW data \in Seq(Nat)
    PROVE  OracleItems(data) = Len(data) <=> ReadItems(data) = <<>>
<1>1. PICK path \in [0 .. Width -> Offsets(data)] : OraclePath(data, path)
  BY OraclePathExists
<1>2. Width \in Nat
  BY ConfigTyped
<1> DEFINE cursor == [item \in 0 .. Width |-> CursorAt(data, path[item])]
<1>3. \A item \in 0 .. Width : cursor[item] = CursorAt(data, path[item])
  OBVIOUS
<1>4. cursor = [item \in 0 .. Width |-> cursor[item]]
  OBVIOUS
<1> HIDE DEF cursor
<1>5. CursorPath(data, cursor)
  <2>1. cursor[0] = data
    <3>1. path[0] = 0 /\ 0 # Malformed /\ 0 \in 0 .. Width
      BY <1>1, <1>2 DEF OraclePath, Malformed
    <3> QED BY <1>3, <3>1, FromWhole DEF CursorAt
  <2>2. ASSUME NEW item \in 1 .. Width PROVE cursor[item] = ReadItem(cursor[item - 1], item)
    <3>1. item - 1 \in 0 .. Width /\ item \in 0 .. Width
      BY <1>2
    <3>2. path[item - 1] \in Offsets(data)
      BY <1>1, <3>1
    <3>3. ReadItem(CursorAt(data, path[item - 1]), item)
            = CursorAt(data, OracleItem(data, item, path[item - 1]))
      BY <3>2, ItemAgrees
    <3> QED BY <1>1, <1>3, <3>1, <3>3 DEF OraclePath
  <2> QED BY <2>1, <2>2 DEF CursorPath
<1> DEFINE last == path[Width]
<1>6. last \in Offsets(data) /\ OracleItems(data) = last /\ ReadItems(data) = CursorAt(data, last)
  <2>1. Width \in 0 .. Width
    BY <1>2
  <2>2. OracleItems(data) = path[Width]
    BY <1>1, OracleItemsFollow
  <2>3. ReadItems(data) = cursor[Width]
    BY <1>4, <1>5, ReadItemsFollow
  <2> QED BY <1>1, <1>3, <2>1, <2>2, <2>3
<1> HIDE DEF last
<1>7. CASE last = Malformed
  <2>1. Bad # <<>> /\ Len(data) # Malformed
    <3>1. Len(<<-1>>) = 1 /\ Len(<<>>) = 0
      OBVIOUS
    <3> QED BY <3>1 DEF Bad, Malformed
  <2> QED BY <1>6, <1>7, <2>1 DEF CursorAt
<1>8. CASE last # Malformed
  <2>1. last \in 0 .. Len(data) /\ CursorAt(data, last) = From(data, last)
    BY <1>6, <1>8 DEF Offsets, CursorAt
  <2> QED BY <1>6, <2>1, FromWhole
<1> QED BY <1>7, <1>8

-----------------------------------------------------------------------------
(* Both sides take every event alike                                       *)

Keeps(account, other) == account \in Account /\ Good(account) /\ other = ModelOf(account)

LEMMA QuietGood ==
    ASSUME NEW o \in Account, NEW x \in Account, Good(o),
           x.history = o.history, x.pending = o.pending, x.sends = o.sends,
           x.remaining = o.remaining, x.phase \in Idling => o.phase \in Idling,
           x.phase = "awaiting" => o.phase = "awaiting",
           x.phase \in Idling \union {"awaiting"} => x.lifecycle # "closed"
    PROVE  Good(x)
<1>1. config.write => AttemptsHold(x)
  BY QuietAttempts, Zenon DEF Good
<1>2. /\ x.pending \in {<<>>, config.locations}
      /\ x.sends <= 1 + config.budget - x.remaining
      /\ x.phase \in Idling => x.sends <= config.budget - x.remaining
  BY DEF Good
<1> QED BY <1>1, <1>2, Zenon DEF Good

LEMMA RefusalAgrees ==
    ASSUME NEW o \in Account, Good(o), NEW category \in Refusals
    PROVE  Keeps([o EXCEPT !.result = Rejected(category)], Refused(ModelOf(o), category))
<1> DEFINE r == Rejected(category)
           x == [o EXCEPT !.result = r]
<1>1. r \in SessionResults
  BY Zenon DEF SessionResults
<1> HIDE DEF r
<1>2. x \in Account
  BY <1>1 DEF Account
<1>3. Refused(ModelOf(o), category) = ModelOf(x)
  BY DEF Refused, ModelOf, Account, r
<1>4. /\ x.history = o.history /\ x.pending = o.pending /\ x.sends = o.sends
      /\ x.remaining = o.remaining /\ x.phase = o.phase /\ x.lifecycle = o.lifecycle
  BY DEF Account
<1> HIDE DEF x
<1>5. Good(x)
  <2>1. x.phase \in Idling \union {"awaiting"} => x.lifecycle # "closed"
    BY <1>4, Zenon DEF Good
  <2> QED BY <1>2, <1>4, <2>1, QuietGood
<1> QED BY <1>2, <1>3, <1>5 DEF Keeps, x, r

(* An account that only moves on to another phase.                         *)
LEMMA MoveAgrees ==
    ASSUME NEW o \in Account, Good(o), NEW lifecycle \in LifecycleStates, NEW phase \in Phases,
           NEW active \in {o.active, NoReference}, NEW result \in SessionResults,
           phase \in Idling => o.phase \in Idling, phase # "awaiting",
           phase \in Idling => lifecycle # "closed"
    PROVE  Keeps([o EXCEPT !.lifecycle = lifecycle, !.phase = phase, !.active = active,
                           !.result = result],
                 [ModelOf(o) EXCEPT !.lifecycle = lifecycle, !.phase = phase, !.active = active,
                                    !.result = result])
<1> DEFINE x == [o EXCEPT !.lifecycle = lifecycle, !.phase = phase, !.active = active,
                          !.result = result]
<1>1. x = [o EXCEPT !.lifecycle = lifecycle, !.phase = phase, !.active = active,
                    !.remaining = o.remaining, !.result = result]
  BY DEF Account
<1>2. o.remaining \in Nat /\ active \in References \union {NoReference}
  BY DEF Account
<1> HIDE DEF x
<1>6. Moved(x, o, lifecycle, phase, active, o.remaining, result)
  BY <1>1, <1>2, AccountMoves
<1>3. /\ x \in Account
      /\ x.lifecycle = lifecycle /\ x.phase = phase /\ x.active = active
      /\ x.remaining = o.remaining /\ x.result = result
      /\ x.sends = o.sends /\ x.history = o.history /\ x.pending = o.pending
  BY <1>6 DEF Moved
<1>5. [ModelOf(o) EXCEPT !.lifecycle = lifecycle, !.phase = phase, !.active = active,
                         !.result = result] = ModelOf(x)
  <2>1. ModelOf(x) = Policies(lifecycle, phase, o.remaining, o.sends, active,
                              [history |-> o.history, pending |-> o.pending], result)
    BY <1>3, PoliciesOf, Zenon
  <2>2. ModelOf(o).progress = [history |-> o.history, pending |-> o.pending]
    BY DEF ModelOf
  <2>3. MovedPolicies(o, lifecycle, phase, active, result)
          = Policies(lifecycle, phase, o.remaining, o.sends, active, ModelOf(o).progress, result)
    BY PoliciesMove
  <2>4. MovedPolicies(o, lifecycle, phase, active, result) = ModelOf(x)
    BY <2>1, <2>2, <2>3, Zenon
  <2> QED BY <2>4 DEF MovedPolicies
<1>4. Good(x)
  BY <1>3, QuietGood
<1> QED BY <1>3, <1>4, <1>5 DEF Keeps, x

LEMMA BeginAgrees ==
    ASSUME config \in Configurations, NEW o \in Account, Good(o)
    PROVE  Keeps(OracleTrace(o, Event("begin")), ModelStep(ModelOf(o), Event("begin")))
<1> DEFINE e == Event("begin")
           m == ModelOf(o)
<1>1. /\ OracleTrace(o, e) = OracleBegin(o)
      /\ m.lifecycle = o.lifecycle /\ m.active = o.active
  BY DEF OracleTrace, Event, ModelOf
<1>2. ModelStep(m, e) =
        IF m.lifecycle # "connected" THEN Refused(m, "not-connected")
        ELSE IF m.active # NoReference THEN Refused(m, "already-active")
        ELSE [ModelInit EXCEPT !.remaining = config.budget, !.active = config.reference,
                               !.phase = "ready"]
  BY DEF ModelStep, Event
<1>3. "not-connected" \in Refusals /\ "already-active" \in Refusals
  BY DEF Refusals
<1>4. CASE o.lifecycle # "connected"
  <2>1. OracleTrace(o, e) = [o EXCEPT !.result = Rejected("not-connected")]
        /\ ModelStep(m, e) = Refused(m, "not-connected")
    BY <1>1, <1>2, <1>4 DEF OracleBegin
  <2> QED BY <1>3, <2>1, RefusalAgrees
<1>5. CASE o.lifecycle = "connected" /\ o.active # NoReference
  <2>1. OracleTrace(o, e) = [o EXCEPT !.result = Rejected("already-active")]
        /\ ModelStep(m, e) = Refused(m, "already-active")
    BY <1>1, <1>2, <1>5 DEF OracleBegin
  <2> QED BY <1>3, <2>1, RefusalAgrees
<1>6. CASE o.lifecycle = "connected" /\ o.active = NoReference
  <2> DEFINE x == [OracleInit EXCEPT !.remaining = config.budget, !.active = config.reference,
                                     !.phase = "ready"]
  <2>1. OracleTrace(o, e) = x
    BY <1>1, <1>6 DEF OracleBegin
  <2>2. ModelStep(m, e) = [ModelInit EXCEPT !.remaining = config.budget,
                                            !.active = config.reference, !.phase = "ready"]
    BY <1>1, <1>2, <1>6
  <2>3. /\ x.history = <<>> /\ x.pending = <<>> /\ x.sends = 0 /\ x.lifecycle = "connected"
        /\ x.remaining = config.budget /\ x.phase = "ready" /\ x.active = config.reference
        /\ x.result = Accepted
    BY DEF OracleInit
  <2>4. OracleInit \in Account
    <3>1. <<>> \in Seq(SessionAttempt) /\ <<>> \in Seq(Ranges)
      OBVIOUS
    <3> QED BY <3>1 DEF OracleInit, Account, LifecycleStates, Phases, SessionResults
  <2>5. config.budget \in Nat /\ config.reference \in References
    BY ConfigTyped
  <2>6. ModelStep(m, e) = ModelOf(x)
    BY <2>2, <2>3, ZenonT(30) DEF ModelInit, ModelOf, NoProgress
  <2>7. x \in Account
    <3>1. "ready" \in Phases
      BY DEF Phases
    <3> QED BY <2>4, <2>5, <3>1 DEF Account
  <2> HIDE DEF x
  <2>8. Good(x)
    <3>1. AttemptsHold(x)
      BY <2>3, <2>5, ConfigTyped DEF AttemptsHold, AllReplayed
    <3> QED BY <2>3, <2>5, <3>1 DEF Good
  <2> QED BY <2>1, <2>6, <2>7, <2>8 DEF Keeps
<1> QED BY <1>4, <1>5, <1>6

LEMMA SendAgrees ==
    ASSUME config \in Configurations, NEW o \in Account, Good(o)
    PROVE  Keeps(OracleTrace(o, Event("send")), ModelStep(ModelOf(o), Event("send")))
<1> DEFINE e == Event("send")
           m == ModelOf(o)
           early == o.lifecycle # "connected" \/ o.active = NoReference \/ o.phase # "ready"
<1>1. /\ OracleTrace(o, e) = OracleSend(o)
      /\ m.lifecycle = o.lifecycle /\ m.active = o.active /\ m.phase = o.phase
      /\ m.progress = [history |-> o.history, pending |-> o.pending]
  BY DEF OracleTrace, Event, ModelOf
<1>2. MaySend(m.progress, config.locations) <=> o.pending = <<>>
  <2>1. config.locations # <<>>
    BY ConfigTyped DEF Width
  <2> QED BY <1>1, <2>1 DEF MaySend
<1>3. ModelStep(m, e) =
        IF early THEN Refused(m, "send-phase")
        ELSE IF config.write /\ o.pending # <<>> THEN Refused(m, "write-progress")
        ELSE [m EXCEPT !.sends = @ + 1, !.phase = "awaiting", !.result = Accepted,
                       !.progress = IF config.write THEN Sent(@, config.locations) ELSE @]
  BY <1>1, <1>2 DEF ModelStep, Event
<1>4. "send-phase" \in Refusals /\ "write-progress" \in Refusals
  BY DEF Refusals
<1>5. CASE early
  <2>1. OracleTrace(o, e) = [o EXCEPT !.result = Rejected("send-phase")]
        /\ ModelStep(m, e) = Refused(m, "send-phase")
    BY <1>1, <1>3, <1>5 DEF OracleSend
  <2> QED BY <1>4, <2>1, RefusalAgrees
<1>6. CASE ~early /\ config.write /\ o.pending # <<>>
  <2>1. OracleTrace(o, e) = [o EXCEPT !.result = Rejected("write-progress")]
        /\ ModelStep(m, e) = Refused(m, "write-progress")
    BY <1>1, <1>3, <1>6 DEF OracleSend
  <2> QED BY <1>4, <2>1, RefusalAgrees
<1>7. CASE ~early /\ ~(config.write /\ o.pending # <<>>)
  <2> DEFINE p == IF config.write THEN config.locations ELSE o.pending
             x == [o EXCEPT !.pending = p, !.sends = o.sends + 1, !.phase = "awaiting",
                            !.result = Accepted]
  <2>1. p \in Seq(Ranges) /\ p \in {<<>>, config.locations}
    BY ConfigTyped DEF Account, Good
  <2>2. OracleTrace(o, e) = x
    BY <1>1, <1>7 DEF OracleSend, Account
  <2>3. ModelStep(m, e) =
          [m EXCEPT !.sends = m.sends + 1, !.phase = "awaiting", !.result = Accepted,
                    !.progress = IF config.write THEN Sent(m.progress, config.locations)
                                 ELSE m.progress]
    BY <1>3, <1>7 DEF ModelOf
  <2>4. (IF config.write THEN Sent(m.progress, config.locations) ELSE m.progress)
          = [history |-> o.history, pending |-> p]
    BY <1>1 DEF Sent
  <2> HIDE DEF p
  <2>5. x \in Account
    <3> DEFINE sends == o.sends + 1
    <3>1. sends \in Nat /\ "awaiting" \in Phases /\ Accepted \in SessionResults
      BY DEF Account, Phases, SessionResults
    <3> HIDE DEF sends
    <3>2. x = [o EXCEPT !.pending = p, !.sends = sends, !.phase = "awaiting", !.result = Accepted]
      BY DEF sends
    <3>3. Attempted(x, o, p, sends, "awaiting", Accepted)
      BY <2>1, <3>1, <3>2, AccountAttempts
    <3> QED BY <3>3 DEF Attempted
  <2>6. ModelStep(m, e) = ModelOf(x)
    BY <2>3, <2>4 DEF ModelOf, Account
  <2>7. /\ x.history = o.history /\ x.pending = p /\ x.sends = o.sends + 1
        /\ x.phase = "awaiting" /\ x.remaining = o.remaining /\ x.lifecycle = o.lifecycle
        /\ o.phase = "ready" /\ o.lifecycle = "connected"
    BY <1>7 DEF Account
  <2> HIDE DEF x
  <2>8. config.write => AttemptsHold(x)
    <3> SUFFICES ASSUME config.write PROVE AttemptsHold(x)
      OBVIOUS
    <3>1. AttemptsHold(o) /\ x.pending = config.locations
      BY <2>7 DEF Good, p
    <3> QED BY <2>5, <2>7, <3>1, NextAttempts
  <2>9. x.sends <= 1 + config.budget - x.remaining
    <3>1. o.sends <= config.budget - o.remaining
      BY <2>7 DEF Good, Idling
    <3>2. o.sends \in Nat /\ config.budget \in Nat /\ o.remaining \in Nat
      BY ConfigTyped DEF Account
    <3> QED BY <2>7, <3>1, <3>2
  <2>10. Good(x)
    BY <2>1, <2>7, <2>8, <2>9 DEF Good, Idling
  <2> QED BY <2>2, <2>5, <2>6, <2>10 DEF Keeps
<1> QED BY <1>5, <1>6, <1>7

LEMMA ReconnectSetupAgrees ==
    ASSUME config \in Configurations, NEW o \in Account, Good(o)
    PROVE  Keeps(OracleTrace(o, Event("reconnect-setup")),
                 ModelStep(ModelOf(o), Event("reconnect-setup")))
<1> DEFINE e == Event("reconnect-setup")
           m == ModelOf(o)
           early == o.active = NoReference \/ o.phase # "reconnectCotp"
<1>1. /\ OracleTrace(o, e) = OracleReconnectSetup(o)
      /\ m.lifecycle = o.lifecycle /\ m.active = o.active /\ m.phase = o.phase
  BY DEF OracleTrace, Event, ModelOf
<1>2. ModelStep(m, e) = IF early THEN Refused(m, "reconnect-phase")
                        ELSE [m EXCEPT !.phase = "reconnectSetup", !.result = Accepted]
  BY <1>1 DEF ModelStep, Event
<1>3. CASE early
  <2>1. OracleTrace(o, e) = [o EXCEPT !.result = Rejected("reconnect-phase")]
        /\ ModelStep(m, e) = Refused(m, "reconnect-phase")
    BY <1>1, <1>2, <1>3 DEF OracleReconnectSetup
  <2>2. "reconnect-phase" \in Refusals
    BY DEF Refusals
  <2> QED BY <2>1, <2>2, RefusalAgrees
<1>4. CASE ~early
  <2> DEFINE l == o.lifecycle
             a == o.active
  <2>1. OracleTrace(o, e) = [o EXCEPT !.lifecycle = l, !.phase = "reconnectSetup", !.active = a,
                                      !.result = Accepted]
    BY <1>1, <1>4 DEF OracleReconnectSetup, Account
  <2>2. ModelStep(m, e) = [m EXCEPT !.lifecycle = l, !.phase = "reconnectSetup", !.active = a,
                                    !.result = Accepted]
    BY <1>2, <1>4, ZenonT(30) DEF ModelOf
  <2>3. /\ l \in LifecycleStates /\ "reconnectSetup" \in Phases /\ a \in {o.active, NoReference}
        /\ Accepted \in SessionResults /\ o.phase \in Idling /\ l # "closed"
    BY <1>4 DEF Account, Phases, SessionResults, Idling, Good
  <2> HIDE DEF l, a
  <2>4. Keeps([o EXCEPT !.lifecycle = l, !.phase = "reconnectSetup", !.active = a,
                        !.result = Accepted],
              [m EXCEPT !.lifecycle = l, !.phase = "reconnectSetup", !.active = a,
                        !.result = Accepted])
    BY <2>3, MoveAgrees
  <2> QED BY <2>1, <2>2, <2>4, Zenon
<1> QED BY <1>3, <1>4

LEMMA ReconnectedAgrees ==
    ASSUME config \in Configurations, NEW o \in Account, Good(o)
    PROVE  Keeps(OracleTrace(o, Event("reconnected")),
                 ModelStep(ModelOf(o), Event("reconnected")))
<1> DEFINE e == Event("reconnected")
           m == ModelOf(o)
           early == \/ o.active = NoReference \/ o.phase # "reconnectSetup"
                    \/ o.lifecycle # "disconnected"
<1>1. /\ OracleTrace(o, e) = OracleReconnected(o)
      /\ m.lifecycle = o.lifecycle /\ m.active = o.active /\ m.phase = o.phase
  BY DEF OracleTrace, Event, ModelOf
<1>2. Transition(m.lifecycle, "reconnected") = Illegal <=> o.lifecycle # "disconnected"
  BY <1>1 DEF Transition, Illegal
<1>3. ModelStep(m, e) = IF early THEN Refused(m, "reconnect-phase")
                        ELSE [m EXCEPT !.lifecycle = "connected", !.phase = "ready",
                                       !.result = Accepted]
  BY <1>1, <1>2 DEF ModelStep, Event
<1>4. CASE early
  <2>1. OracleTrace(o, e) = [o EXCEPT !.result = Rejected("reconnect-phase")]
        /\ ModelStep(m, e) = Refused(m, "reconnect-phase")
    BY <1>1, <1>3, <1>4 DEF OracleReconnected
  <2>2. "reconnect-phase" \in Refusals
    BY DEF Refusals
  <2> QED BY <2>1, <2>2, RefusalAgrees
<1>5. CASE ~early
  <2> DEFINE a == o.active
  <2>1. OracleTrace(o, e) = [o EXCEPT !.lifecycle = "connected", !.phase = "ready", !.active = a,
                                      !.result = Accepted]
    BY <1>1, <1>5 DEF OracleReconnected, Account
  <2>2. ModelStep(m, e) = [m EXCEPT !.lifecycle = "connected", !.phase = "ready", !.active = a,
                                    !.result = Accepted]
    BY <1>3, <1>5 DEF ModelOf
  <2>3. /\ "connected" \in LifecycleStates /\ "ready" \in Phases
        /\ a \in {o.active, NoReference} /\ Accepted \in SessionResults /\ o.phase \in Idling
    BY <1>5, SMTT(30) DEF LifecycleStates, Phases, SessionResults, Idling
  <2> HIDE DEF a
  <2>4. Keeps([o EXCEPT !.lifecycle = "connected", !.phase = "ready", !.active = a,
                        !.result = Accepted],
              [m EXCEPT !.lifecycle = "connected", !.phase = "ready", !.active = a,
                        !.result = Accepted])
    BY <2>3, MoveAgrees
  <2> QED BY <2>1, <2>2, <2>4, Zenon
<1> QED BY <1>4, <1>5

LEMMA DisconnectAgrees ==
    ASSUME config \in Configurations, NEW o \in Account, Good(o)
    PROVE  Keeps(OracleTrace(o, Event("disconnect")), ModelStep(ModelOf(o), Event("disconnect")))
<1> DEFINE e == Event("disconnect")
           m == ModelOf(o)
<1>1. OracleTrace(o, e) = [o EXCEPT !.lifecycle = "closed", !.phase = "closed",
                                    !.active = NoReference, !.result = Accepted]
  BY DEF OracleTrace, OracleDisconnect, Event, Account
<1>2. ModelStep(m, e) = [m EXCEPT !.lifecycle = "closed", !.phase = "closed",
                                  !.active = NoReference, !.result = Accepted]
  BY DEF ModelStep, Event, ModelOf, Transition
<1>3. /\ "closed" \in LifecycleStates /\ "closed" \in Phases /\ "closed" \notin Idling
      /\ Accepted \in SessionResults
  BY DEF LifecycleStates, Phases, SessionResults, Idling
<1>4. Keeps([o EXCEPT !.lifecycle = "closed", !.phase = "closed", !.active = NoReference,
                      !.result = Accepted],
            [m EXCEPT !.lifecycle = "closed", !.phase = "closed", !.active = NoReference,
                      !.result = Accepted])
  BY <1>3, MoveAgrees
<1> QED BY <1>1, <1>2, <1>4, Zenon

-----------------------------------------------------------------------------
(* Failures and answers                                                    *)

(* Whether a failure settles the attempt, and what that makes of either.   *)
SettledIf(settles, o, outcome) ==
    IF settles THEN OracleFinish(o, Everywhere(outcome)) ELSE o
FinishedIf(settles, progress, outcome) == IF settles THEN Finish(progress, outcome) ELSE progress

LEMMA SettledIfAgrees ==
    ASSUME config \in Configurations, NEW o \in Account, Good(o), NEW settles \in BOOLEAN,
           NEW outcome \in {"replayedUnknown", "globalRejected"}
    PROVE  IF settles
           THEN Settlement(SettledIf(settles, o, outcome), o,
                           FinishedIf(settles, ModelOf(o).progress, outcome), Everywhere(outcome))
           ELSE /\ SettledIf(settles, o, outcome) = o
                /\ FinishedIf(settles, ModelOf(o).progress, outcome)
                     = [history |-> o.history, pending |-> o.pending]
<1>1. CASE settles
  <2> DEFINE outcomes == Everywhere(outcome)
             others == [i \in DOMAIN o.pending |-> outcome]
             x == OracleFinish(o, outcomes)
             f == Settled(ModelOf(o).progress, others)
  <2>1. \A i \in DOMAIN o.pending : outcomes[i] = others[i]
          /\ outcomes[i] \in ItemResults \union {"replayedUnknown", "globalRejected"}
    <3>1. DOMAIN o.pending \subseteq 1 .. Width
      <4>1. DOMAIN <<>> \subseteq 1 .. Width
        OBVIOUS
      <4> QED BY <4>1, ConfigTyped DEF Good
    <3> QED BY <3>1 DEF Everywhere
  <2>2. Finish(ModelOf(o).progress, outcome) = f
    BY DEF Finish, ModelOf
  <2> HIDE DEF outcomes, others
  <2>3. Settlement(x, o, f, outcomes)
    BY <2>1, SettlingAgrees
  <2>4. SettledIf(settles, o, outcome) = x /\ FinishedIf(settles, ModelOf(o).progress, outcome) = f
    <3> HIDE DEF f
    <3> QED BY <1>1, <2>2, Zenon DEF SettledIf, FinishedIf, outcomes
  <2> HIDE DEF x, f
  <2> QED BY <1>1, <2>3, <2>4, Zenon DEF outcomes
<1>2. CASE ~settles
  <2>1. SettledIf(settles, o, outcome) = o
        /\ FinishedIf(settles, ModelOf(o).progress, outcome)
             = [history |-> o.history, pending |-> o.pending]
    BY <1>2 DEF SettledIf, FinishedIf, ModelOf
  <2> QED BY <1>2, <2>1, Zenon
<1> QED BY <1>1, <1>2, Zenon

LEMMA SettledIfAlike ==
    ASSUME config \in Configurations, NEW o \in Account, Good(o), NEW settles \in BOOLEAN,
           NEW outcome \in {"replayedUnknown", "globalRejected"}
    PROVE  Alike(SettledIf(settles, o, outcome), o,
                 FinishedIf(settles, ModelOf(o).progress, outcome))
<1>1. CASE settles
  BY <1>1, SettledIfAgrees, Zenon DEF Settlement
<1>2. CASE ~settles
  BY <1>2, SettledIfAgrees, Zenon DEF Alike
<1> QED BY <1>1, <1>2

(* What follows a failure that may settle the attempt awaiting an answer.  *)
LEMMA FailureKeeps ==
    ASSUME config \in Configurations, NEW o \in Account, Good(o),
           o.phase \in {"awaiting", "reconnectCotp", "reconnectSetup"},
           NEW outcome \in {"replayedUnknown", "globalRejected"}, NEW settles \in BOOLEAN,
           settles => config.write /\ o.phase = "awaiting",
           NEW phase \in {"reconnectCotp", "failed"}, NEW remaining \in Nat,
           NEW active \in {o.active, NoReference}, NEW result \in SessionResults,
           phase = "failed" => remaining = o.remaining,
           phase = "reconnectCotp" =>
              /\ remaining = o.remaining - 1 /\ outcome = "replayedUnknown"
              /\ config.write /\ o.phase = "awaiting" => settles
    PROVE  Keeps([SettledIf(settles, o, outcome) EXCEPT
                    !.remaining = remaining, !.lifecycle = "disconnected", !.phase = phase,
                    !.active = active, !.result = result],
                 [ModelOf(o) EXCEPT
                    !.remaining = remaining, !.lifecycle = "disconnected", !.phase = phase,
                    !.active = active, !.result = result,
                    !.progress = FinishedIf(settles, ModelOf(o).progress, outcome)])
<1> DEFINE b == SettledIf(settles, o, outcome)
           f == FinishedIf(settles, ModelOf(o).progress, outcome)
           x == [b EXCEPT !.remaining = remaining, !.lifecycle = "disconnected", !.phase = phase,
                          !.active = active, !.result = result]
           m == [ModelOf(o) EXCEPT
                    !.remaining = remaining, !.lifecycle = "disconnected", !.phase = phase,
                    !.active = active, !.result = result, !.progress = f]
<1> DEFINE history == b.history
           pending == b.pending
<1>1. /\ f = [history |-> history, pending |-> pending]
      /\ IF settles THEN pending = <<>> /\ history = SettledHistory(o, Everywhere(outcome))
         ELSE pending = o.pending /\ history = o.history
  <2>1. f = [history |-> history, pending |-> pending]
    BY SettledIfAlike, Zenon DEF Alike
  <2>2. CASE settles
    BY <2>1, <2>2, SettledIfAgrees, Zenon DEF Settlement
  <2>3. CASE ~settles
    BY <2>1, <2>3, SettledIfAgrees, Zenon
  <2> QED BY <2>1, <2>2, <2>3, Zenon
<1>2. /\ b \in Account /\ b.pending = pending /\ b.history = history /\ b.sends = o.sends
      /\ b.active = o.active
  BY SettledIfAlike, Zenon DEF Alike
<1> HIDE DEF history, pending
<1> DEFINE y == x
<1>3. /\ y \in Account /\ y.lifecycle = "disconnected" /\ y.phase = phase /\ y.active = active
      /\ y.remaining = remaining /\ y.result = result
      /\ y.sends = b.sends /\ y.history = b.history /\ y.pending = b.pending
  <2>1. x = [b EXCEPT !.lifecycle = "disconnected", !.phase = phase, !.active = active,
                      !.remaining = remaining, !.result = result]
    <3> HIDE DEF b
    <3> QED BY <1>2 DEF Account
  <2>2. "disconnected" \in LifecycleStates /\ phase \in Phases
        /\ active \in References \union {NoReference}
    BY DEF LifecycleStates, Phases, Account
  <2> HIDE DEF b, x
  <2>3. Moved(x, b, "disconnected", phase, active, remaining, result)
    BY <1>2, <2>1, <2>2, AccountMoves
  <2> QED BY <2>3 DEF Moved
<1> HIDE DEF b, f, x
<1>4. m = ModelOf(y)
  <2>1. ModelOf(y) = Policies("disconnected", phase, remaining, o.sends, active, f, result)
    <3>1. f = [history |-> y.history, pending |-> y.pending]
      BY <1>1, <1>2, <1>3, Zenon
    <3> QED BY <1>2, <1>3, <3>1, PoliciesOf, Zenon
  <2>2. SettledPolicies(o, remaining, "disconnected", phase, active, result, f) = ModelOf(y)
    BY <2>1, PoliciesSettle, Zenon
  <2> QED BY <2>2 DEF SettledPolicies, m
<1>5. /\ y.sends = o.sends /\ y.phase = phase /\ y.remaining = remaining /\ y.pending = pending
      /\ y.history = history /\ y.lifecycle = "disconnected"
  BY <1>2, <1>3
<1> HIDE DEF m, y
<1>6. y.sends <= 1 + config.budget - y.remaining
      /\ (y.phase \in Idling => y.sends <= config.budget - y.remaining)
  <2>1. o.sends <= 1 + config.budget - o.remaining
        /\ (o.phase \in Idling => o.sends <= config.budget - o.remaining)
    BY DEF Good
  <2>2. o.sends \in Nat /\ config.budget \in Nat /\ o.remaining \in Nat
    BY ConfigTyped DEF Account
  <2> QED BY <1>5, <2>1, <2>2 DEF Idling
<1>7. y.pending \in {<<>>, config.locations}
  BY <1>1, <1>5 DEF Good
<1>8. config.write => AttemptsHold(y)
  <2> SUFFICES ASSUME config.write PROVE AttemptsHold(y)
    OBVIOUS
  <2>1. AttemptsHold(o)
    BY Zenon DEF Good
  <2>2. CASE settles
    <3> DEFINE outcomes == Everywhere(outcome)
    <3>1. y.phase \in Idling => \A i \in DOMAIN o.pending : outcomes[i] = "replayedUnknown"
      <4>1. y.phase \in Idling => outcome = "replayedUnknown"
        BY <1>5 DEF Idling
      <4>2. DOMAIN o.pending \subseteq 1 .. Width
        <5>1. DOMAIN <<>> \subseteq 1 .. Width
          OBVIOUS
        <5> QED BY <5>1, ConfigTyped DEF Good
      <4> QED BY <4>1, <4>2 DEF Everywhere
    <3> HIDE DEF outcomes
    <3>2. y.history = SettledHistory(o, outcomes)
      BY <1>1, <1>5, <2>2, Zenon DEF outcomes
    <3>3. y.pending = <<>> /\ y.phase # "awaiting" /\ o.phase = "awaiting"
      BY <1>1, <1>5, <2>2
    <3> QED BY <1>3, <1>5, <2>1, <3>1, <3>2, <3>3, SettledAttempts
  <2>3. CASE ~settles
    <3>1. y.history = o.history /\ y.pending = o.pending /\ y.phase # "awaiting"
          /\ (y.phase \in Idling => o.phase \in Idling)
      BY <1>1, <1>5, <2>3 DEF Idling
    <3> QED BY <1>3, <1>5, <2>1, <3>1, QuietAttempts
  <2> QED BY <2>2, <2>3
<1>9. Good(y)
  BY <1>5, <1>6, <1>7, <1>8, Zenon DEF Good
<1> QED BY <1>3, <1>4, <1>9 DEF Keeps, x, y, m, b, f

LEMMA FailAgrees ==
    ASSUME config \in Configurations, NEW o \in Account, Good(o), NEW kind \in ErrorKinds,
           o.phase \in {"awaiting", "reconnectCotp", "reconnectSetup"}
    PROVE  Keeps(OracleFail(o, kind), ModelFailure(ModelOf(o), kind))
<1> DEFINE m == ModelOf(o)
           again == /\ o.remaining > 0 /\ kind \in {"timeout", "disconnected", "transport"}
                    /\ ~config.write \/ config.allow
           inFlight == config.write /\ o.phase = "awaiting"
           rejects == inFlight /\ kind = "plcRejected"
           r == o.remaining
           budget == RetryBudgetAfter(r, FALSE, kind, Safety, config.allow)
<1>1. /\ m.lifecycle = o.lifecycle /\ m.phase = o.phase /\ m.remaining = r
      /\ m.active = o.active /\ o.lifecycle # "closed" /\ r \in Nat
  BY DEF ModelOf, Good, Idling, Account
<1>2. Transition(m.lifecycle, "transportClosed") = "disconnected"
  BY <1>1 DEF Transition
<1>3. /\ again => budget = r - 1 /\ budget # NoRetry
      /\ ~again => budget = NoRetry
  <2>1. RetryPermitted(Safety, config.allow) <=> ~config.write \/ config.allow
    BY Zenon DEF RetryPermitted, Safety
  <2>2. IsRetryable(kind) <=> kind \in {"timeout", "disconnected", "transport"}
    BY DEF IsRetryable
  <2>3. budget = IF again THEN r - 1 ELSE NoRetry
    <3>1. r = 0 <=> ~(r > 0)
      BY <1>1
    <3> QED BY <2>1, <2>2, <3>1, Zenon DEF RetryBudgetAfter
  <2>4. r - 1 # NoRetry \/ r = 0
    BY <1>1 DEF NoRetry
  <2> HIDE DEF budget
  <2>5. again => r # 0
    BY <1>1
  <2> HIDE DEF again
  <2> QED BY <2>3, <2>4, <2>5
<1>4. inFlight \in BOOLEAN /\ rejects \in BOOLEAN
  BY Zenon DEF rejects
<1>5. RetryBudgetAfter(m.remaining, m.lifecycle = "closed", kind, Safety, config.allow) = budget
  <2>1. RetryBudgetAfter(r, o.lifecycle = "closed", kind, Safety, config.allow) = budget
    BY <1>1, Zenon DEF RetryBudgetAfter
  <2> HIDE DEF budget
  <2> QED BY <1>1, <2>1, Zenon
<1>6. CASE again
  <2> DEFINE x == [SettledIf(inFlight, o, "replayedUnknown") EXCEPT
                     !.remaining = r - 1, !.lifecycle = "disconnected",
                     !.phase = "reconnectCotp", !.active = o.active, !.result = Decided(TRUE)]
             n == [m EXCEPT !.remaining = r - 1, !.lifecycle = "disconnected",
                            !.phase = "reconnectCotp", !.active = o.active,
                            !.result = Decided(TRUE),
                            !.progress = FinishedIf(inFlight, m.progress, "replayedUnknown")]
             b == SettledIf(inFlight, o, "replayedUnknown")
  <2>1. OracleFail(o, kind) = [b EXCEPT !.remaining = @ - 1, !.lifecycle = "disconnected",
                                        !.phase = "reconnectCotp", !.result = Decided(TRUE)]
    BY <1>1, <1>6, Zenon DEF OracleFail, SettledIf
  <2>2. b \in Account /\ b.active = o.active /\ b.remaining = r
    BY <1>4, SettledIfAlike DEF Alike
  <2> HIDE DEF b
  <2>3. OracleFail(o, kind) = [b EXCEPT !.remaining = r - 1, !.lifecycle = "disconnected",
                                        !.phase = "reconnectCotp", !.active = o.active,
                                        !.result = Decided(TRUE)]
    BY <2>1, <2>2 DEF Account
  <2>4. ModelFailure(m, kind) =
          [m EXCEPT !.remaining = budget, !.lifecycle = "disconnected",
                    !.phase = "reconnectCotp", !.result = Decided(TRUE),
                    !.progress = FinishedIf(inFlight, @, "replayedUnknown")]
    <3> HIDE DEF budget
    <3> QED BY <1>1, <1>3, <1>5, <1>6, Zenon DEF ModelFailure, FinishedIf, Replay
  <2>5. budget = r - 1 /\ r - 1 \in Nat
    <3> HIDE DEF budget
    <3> QED BY <1>1, <1>3, <1>6
  <2>6. ModelFailure(m, kind) = n
    <3> DEFINE f == FinishedIf(inFlight, m.progress, "replayedUnknown")
               z == Decided(TRUE)
    <3>1. ModelFailure(m, kind) =
            [m EXCEPT !.remaining = budget, !.lifecycle = "disconnected",
                      !.phase = "reconnectCotp", !.result = z, !.progress = f]
      <4> HIDE DEF budget
      <4> QED BY <2>4 DEF ModelOf
    <3> HIDE DEF budget, f, z
    <3>2. ModelFailure(m, kind)
            = RetriedPolicies(o, budget, "disconnected", "reconnectCotp", z, f)
      BY <3>1 DEF RetriedPolicies
    <3>3. n = SettledPolicies(o, r - 1, "disconnected", "reconnectCotp", o.active, z, f)
      BY DEF f, z, SettledPolicies
    <3> HIDE DEF n
    <3> QED BY <2>5, <3>2, <3>3, PoliciesRetry, PoliciesSettle, Zenon
  <2>7. Decided(TRUE) \in SessionResults
    BY Zenon DEF SessionResults
  <2>8. inFlight => config.write /\ o.phase = "awaiting"
    BY Zenon
  <2>9. config.write /\ o.phase = "awaiting" => inFlight
    BY Zenon
  <2> DEFINE result == Decided(TRUE)
  <2> HIDE DEF inFlight, result
  <2>10. Keeps(x, n)
    BY <1>4, <2>5, <2>7, <2>8, <2>9, FailureKeeps DEF result
  <2> QED BY <2>3, <2>6, <2>10 DEF b
<1>7. CASE ~again
  <2> DEFINE x == [SettledIf(rejects, o, "globalRejected") EXCEPT
                     !.remaining = r, !.lifecycle = "disconnected",
                     !.phase = "failed", !.active = NoReference, !.result = Decided(FALSE)]
             n == [m EXCEPT !.remaining = r, !.lifecycle = "disconnected",
                            !.phase = "failed", !.active = NoReference,
                            !.result = Decided(FALSE),
                            !.progress = FinishedIf(rejects, m.progress, "globalRejected")]
             b == SettledIf(rejects, o, "globalRejected")
  <2>1. OracleFail(o, kind) = [b EXCEPT !.lifecycle = "disconnected", !.phase = "failed",
                                        !.active = NoReference, !.result = Decided(FALSE)]
    BY <1>1, <1>7, Zenon DEF OracleFail, SettledIf
  <2>2. b \in Account /\ b.remaining = r
    BY <1>4, SettledIfAlike DEF Alike
  <2> HIDE DEF b
  <2>3. OracleFail(o, kind) = [b EXCEPT !.remaining = r, !.lifecycle = "disconnected",
                                        !.phase = "failed", !.active = NoReference,
                                        !.result = Decided(FALSE)]
    BY <2>1, <2>2 DEF Account
  <2>4. ModelFailure(m, kind) =
          [m EXCEPT !.lifecycle = Transition(@, "transportClosed"), !.active = NoReference,
                    !.phase = IF m.lifecycle = "closed" THEN "closed" ELSE "failed",
                    !.result = Decided(FALSE),
                    !.progress = FinishedIf(rejects, @, "globalRejected")]
    <3> HIDE DEF budget
    <3> QED BY <1>1, <1>3, <1>5, <1>7, Zenon DEF ModelFailure, FinishedIf, GlobalReject
  <2>5. ModelFailure(m, kind) = n
    <3> DEFINE f == FinishedIf(rejects, m.progress, "globalRejected")
               z == Decided(FALSE)
    <3>1. ModelFailure(m, kind) =
            [m EXCEPT !.lifecycle = "disconnected", !.active = NoReference, !.phase = "failed",
                      !.result = z, !.progress = f]
      BY <1>1, <1>2, <2>4 DEF ModelOf
    <3> HIDE DEF f, z
    <3>2. ModelFailure(m, kind) = FailedPolicies(o, "disconnected", "failed", NoReference, z, f)
      BY <3>1 DEF FailedPolicies
    <3>3. n = SettledPolicies(o, r, "disconnected", "failed", NoReference, z, f)
      BY DEF f, z, SettledPolicies
    <3> HIDE DEF n
    <3> QED BY <3>2, <3>3, PoliciesFail, PoliciesSettle, Zenon
  <2>6. Decided(FALSE) \in SessionResults
    BY Zenon DEF SessionResults
  <2>7. rejects => config.write /\ o.phase = "awaiting"
    BY Zenon
  <2> DEFINE result == Decided(FALSE)
  <2> HIDE DEF rejects, result
  <2>8. Keeps(x, n)
    BY <1>1, <1>4, <2>6, <2>7, FailureKeeps DEF result
  <2> QED BY <2>3, <2>5, <2>8 DEF b
<1> QED BY <1>6, <1>7

LEMMA FailureAgrees ==
    ASSUME config \in Configurations, NEW o \in Account, Good(o), NEW kind \in ErrorKinds
    PROVE  Keeps(OracleTrace(o, Failure(kind)), ModelStep(ModelOf(o), Failure(kind)))
<1> DEFINE e == Failure(kind)
           m == ModelOf(o)
           early == \/ o.active = NoReference
                    \/ o.phase \notin {"awaiting", "reconnectCotp", "reconnectSetup"}
<1>1. /\ OracleTrace(o, e) = OracleFailure(o, kind)
      /\ m.active = o.active /\ m.phase = o.phase
  BY DEF OracleTrace, Failure, ModelOf
<1>2. ModelStep(m, e) = IF early THEN Refused(m, "failure-phase") ELSE ModelFailure(m, kind)
  BY <1>1 DEF ModelStep, Failure
<1>3. CASE early
  <2>1. OracleTrace(o, e) = [o EXCEPT !.result = Rejected("failure-phase")]
        /\ ModelStep(m, e) = Refused(m, "failure-phase")
    BY <1>1, <1>2, <1>3 DEF OracleFailure
  <2>2. "failure-phase" \in Refusals
    BY DEF Refusals
  <2> QED BY <2>1, <2>2, RefusalAgrees
<1>4. CASE ~early
  <2>1. OracleTrace(o, e) = OracleFail(o, kind) /\ ModelStep(m, e) = ModelFailure(m, kind)
    BY <1>1, <1>2, <1>4 DEF OracleFailure
  <2> QED BY <1>4, <2>1, FailAgrees
<1> QED BY <1>3, <1>4

(* Both sides make the same error of an answer, or none.                   *)
LEMMA ErrorAgrees ==
    ASSUME config \in Configurations, NEW pdu \in Pdus
    PROVE  /\ DecodeKind(pdu) = OracleError(pdu)
           /\ OracleError(pdu) \in {"none", "protocol", "plcRejected"}
           /\ OracleError(pdu) = "none" /\ config.write => Len(pdu.data) = Width
<1> DEFINE shaped == pdu.header /\ pdu.protocol /\ pdu.kind \in {2, 3} /\ pdu.sized
           own == pdu.reference = config.reference
           code == IF config.write THEN 5 ELSE 4
           counted == pdu.parameters = <<code, Width>>
           decoded == IF config.write THEN Len(pdu.data) = Width
                      ELSE OracleItems(pdu.data) = Len(pdu.data)
<1>1. counted <=> pdu.parameters[1] = code /\ pdu.parameters[2] = Width
  <2>1. pdu.parameters \in [1 .. 2 -> Int]
    BY DEF Pdus
  <2>2. <<code, Width>> \in [1 .. 2 -> Int] /\ <<code, Width>>[1] = code
        /\ <<code, Width>>[2] = Width
    BY ConfigTyped
  <2> DEFINE p == pdu.parameters
             q == <<code, Width>>
  <2> HIDE DEF p, q, code
  <2>3. p = q <=> p[1] = q[1] /\ p[2] = q[2]
    BY <2>1, <2>2 DEF p, q
  <2> QED BY <2>2, <2>3 DEF p, q
<1>2. decoded <=> Decodes(pdu)
  <2>1. pdu.data \in Seq(Nat)
    BY DEF Pdus
  <2>2. OracleItems(pdu.data) = Len(pdu.data) <=> ReadItems(pdu.data) = <<>>
    BY <2>1, ItemsAgree
  <2> QED BY <2>2, Zenon DEF Decodes
<1> HIDE DEF counted, decoded, code
<1>3. OracleError(pdu) = IF ~shaped THEN "protocol" ELSE IF ~own THEN "protocol"
                         ELSE IF pdu.error THEN "plcRejected"
                         ELSE IF counted /\ decoded THEN "none" ELSE "protocol"
  BY Zenon DEF OracleError, counted, decoded, code
<1>4. DecodeKind(pdu) = IF ~shaped THEN "protocol" ELSE IF ~own THEN "protocol"
                        ELSE IF pdu.error THEN "plcRejected"
                        ELSE IF counted /\ decoded THEN "none" ELSE "protocol"
  BY <1>1, <1>2, Zenon DEF DecodeKind, code
<1> HIDE DEF shaped, own
<1>5. OracleError(pdu) \in {"none", "protocol", "plcRejected"}
  BY <1>3
<1>6. OracleError(pdu) = "none" => decoded
  BY <1>3
<1> QED BY <1>3, <1>4, <1>5, <1>6, Zenon DEF decoded

(* An answer that is accepted ends the request.                            *)
LEMMA AcceptedAgrees ==
    ASSUME config \in Configurations, NEW o \in Account, Good(o), o.phase = "awaiting",
           NEW data \in Seq(Nat), config.write => Len(data) = Width
    PROVE  Keeps([(IF config.write THEN OracleFinish(o, Outcomes(data)) ELSE o)
                    EXCEPT !.active = NoReference, !.phase = "completed", !.result = Accepted],
                 [ModelOf(o) EXCEPT
                    !.active = NoReference, !.phase = "completed", !.result = Accepted,
                    !.progress = IF config.write THEN Acknowledge(@, Outcomes(data)) ELSE @])
<1>1. /\ "completed" \in Phases /\ "completed" \notin Idling \union {"awaiting"}
      /\ Accepted \in SessionResults
      /\ o.lifecycle \in LifecycleStates
  BY DEF Phases, Idling, SessionResults, Account
<1>2. CASE config.write
  <2> DEFINE outcomes == Outcomes(data)
             b == OracleFinish(o, outcomes)
             f == Settled(ModelOf(o).progress, outcomes)
             x == [b EXCEPT !.active = NoReference, !.phase = "completed", !.result = Accepted]
             m == [ModelOf(o) EXCEPT !.active = NoReference, !.phase = "completed",
                                     !.result = Accepted, !.progress = f]
  <2>1. AttemptsHold(o) /\ o.pending = config.locations
    BY <1>2, Zenon DEF Good, AttemptsHold
  <2>2. \A i \in DOMAIN o.pending : outcomes[i] = outcomes[i]
          /\ outcomes[i] \in ItemResults \union {"replayedUnknown", "globalRejected"}
    <3>1. DOMAIN o.pending = 1 .. Width /\ DOMAIN data = 1 .. Width
      BY <1>2, <2>1, ConfigTyped
    <3> QED BY <3>1 DEF Outcomes, ItemOutcome, ItemResults
  <2> HIDE DEF outcomes
  <2>3. Settlement(b, o, f, outcomes)
    BY <2>2, SettlingAgrees
  <2>4. Alike(b, o, f) /\ b.pending = <<>> /\ b.history = SettledHistory(o, outcomes)
    BY <2>3, Zenon DEF Settlement
  <2> HIDE DEF b, f
  <2>5. /\ b \in Account /\ b.sends = o.sends /\ b.lifecycle = o.lifecycle
        /\ b.remaining = o.remaining /\ f = [history |-> b.history, pending |-> b.pending]
    BY <2>4, Zenon DEF Alike
  <2>6. x = [b EXCEPT !.lifecycle = o.lifecycle, !.phase = "completed", !.active = NoReference,
                      !.remaining = o.remaining, !.result = Accepted]
    BY <2>5 DEF Account
  <2> DEFINE l == o.lifecycle
             r == o.remaining
  <2>7. l \in LifecycleStates /\ r \in Nat /\ NoReference \in References \union {NoReference}
    BY DEF Account
  <2> HIDE DEF x, l, r
  <2>8. Moved(x, b, l, "completed", NoReference, r, Accepted)
    BY <1>1, <2>5, <2>6, <2>7, AccountMoves DEF l, r
  <2>9. /\ x \in Account /\ x.lifecycle = o.lifecycle /\ x.phase = "completed"
        /\ x.active = NoReference /\ x.remaining = o.remaining /\ x.result = Accepted
        /\ x.sends = o.sends /\ x.history = SettledHistory(o, outcomes) /\ x.pending = <<>>
        /\ f = [history |-> x.history, pending |-> x.pending]
    BY <2>4, <2>5, <2>8, Zenon DEF Moved, l, r
  <2>10. m = ModelOf(x)
    <3>1. ModelOf(x) = Policies(o.lifecycle, "completed", o.remaining, o.sends, NoReference, f,
                                Accepted)
      BY <2>9, PoliciesOf, Zenon
    <3>2. m = AnsweredPolicies(o, NoReference, "completed", Accepted, f)
      BY DEF AnsweredPolicies
    <3> HIDE DEF m
    <3> QED BY <3>1, <3>2, PoliciesAnswer, Zenon
  <2>11. AttemptsHold(x)
    BY <1>1, <2>1, <2>9, SettledAttempts
  <2>12. Good(x)
    <3>1. x.sends <= 1 + config.budget - x.remaining
      BY <2>9 DEF Good
    <3> QED BY <1>1, <2>9, <2>11, <3>1, Zenon DEF Good
  <2> HIDE DEF m
  <2>13. Keeps(x, m)
    BY <2>9, <2>10, <2>12 DEF Keeps
  <2> QED BY <1>2, <2>13 DEF x, m, b, f, outcomes, Acknowledge, ModelOf
<1>3. CASE ~config.write
  <2> DEFINE l == o.lifecycle
             m == ModelOf(o)
             a == Accepted
             none == NoReference
  <2>1. l \in LifecycleStates /\ none \in {o.active, NoReference} /\ a \in SessionResults
    BY <1>1
  <2>2. [o EXCEPT !.active = none, !.phase = "completed", !.result = a]
          = [o EXCEPT !.lifecycle = l, !.phase = "completed", !.active = none, !.result = a]
    BY DEF Account
  <2> DEFINE p == m.progress
             n == [m EXCEPT !.active = none, !.phase = "completed", !.result = a, !.progress = p]
             q == [ModelOf(o) EXCEPT !.lifecycle = l, !.phase = "completed", !.active = none,
                                     !.result = a]
  <2>3. n = q
    <3>1. n = AnsweredPolicies(o, none, "completed", a, p)
      BY DEF AnsweredPolicies
    <3>2. q = MovedPolicies(o, l, "completed", none, a)
      BY DEF MovedPolicies
    <3> HIDE DEF n, q, none, a
    <3> QED BY <3>1, <3>2, PoliciesAnswer, PoliciesMove, Zenon
  <2>4. [m EXCEPT !.active = none, !.phase = "completed", !.result = a,
                  !.progress = IF config.write THEN Acknowledge(@, Outcomes(data)) ELSE @] = n
    BY <1>3, Zenon DEF ModelOf
  <2> HIDE DEF l, m, a, none, n
  <2>5. Keeps([o EXCEPT !.lifecycle = l, !.phase = "completed", !.active = none, !.result = a], q)
    BY <1>1, <2>1, MoveAgrees
  <2> HIDE DEF q
  <2>6. Keeps([o EXCEPT !.active = none, !.phase = "completed", !.result = a], n)
    BY <2>2, <2>3, <2>5
  <2> QED BY <1>3, <2>4, <2>6, Zenon DEF m, a, none
<1> QED BY <1>2, <1>3

LEMMA ResponseAgrees ==
    ASSUME config \in Configurations, NEW o \in Account, Good(o), NEW pdu \in Pdus
    PROVE  Keeps(OracleTrace(o, Response(pdu)), ModelStep(ModelOf(o), Response(pdu)))
<1> DEFINE e == Response(pdu)
           m == ModelOf(o)
           early == o.lifecycle # "connected" \/ o.active = NoReference \/ o.phase # "awaiting"
           k == OracleError(pdu)
<1>1. /\ OracleTrace(o, e) = OracleResponse(o, pdu)
      /\ m.lifecycle = o.lifecycle /\ m.active = o.active /\ m.phase = o.phase
  BY DEF OracleTrace, Response, ModelOf
<1>2. ModelStep(m, e) = IF early THEN Refused(m, "response-phase") ELSE ModelResponse(m, pdu)
  BY <1>1 DEF ModelStep, Response
<1>3. DecodeKind(pdu) = k /\ k \in {"none", "protocol", "plcRejected"}
      /\ (k = "none" /\ config.write => Len(pdu.data) = Width)
  BY ErrorAgrees
<1>4. "response-phase" \in Refusals /\ "response-codec" \in Refusals
  BY DEF Refusals
<1> HIDE DEF k
<1>5. CASE early
  <2>1. OracleTrace(o, e) = [o EXCEPT !.result = Rejected("response-phase")]
        /\ ModelStep(m, e) = Refused(m, "response-phase")
    BY <1>1, <1>2, <1>5 DEF OracleResponse
  <2> QED BY <1>4, <2>1, RefusalAgrees
<1>6. CASE ~early /\ k # "none"
  <2> DEFINE x == OracleFail(o, k)
             c == "response-codec"
  <2>1. k \in ErrorKinds
    BY <1>3, <1>6 DEF ErrorKinds
  <2>2. o.phase \in {"awaiting", "reconnectCotp", "reconnectSetup"}
    BY <1>6
  <2>3. Keeps(x, ModelFailure(m, k))
    BY <2>1, <2>2, FailAgrees
  <2>4. OracleTrace(o, e) = [x EXCEPT !.result = Rejected(c)]
        /\ ModelStep(m, e) = Refused(ModelFailure(m, k), c)
    BY <1>1, <1>2, <1>3, <1>6, Zenon DEF OracleResponse, ModelResponse, k
  <2> HIDE DEF x, c, m, e
  <2>5. x \in Account /\ Good(x) /\ ModelFailure(m, k) = ModelOf(x)
    BY <2>3, Zenon DEF Keeps
  <2>6. c \in Refusals
    BY <1>4 DEF c
  <2>7. Keeps([x EXCEPT !.result = Rejected(c)], Refused(ModelOf(x), c))
    BY <2>5, <2>6, RefusalAgrees
  <2> QED BY <2>4, <2>5, <2>7, Zenon DEF e, m
<1>7. CASE ~early /\ k = "none"
  <2> DEFINE data == pdu.data
             x == [(IF config.write THEN OracleFinish(o, Outcomes(data)) ELSE o)
                     EXCEPT !.active = NoReference, !.phase = "completed", !.result = Accepted]
             n == [ModelOf(o) EXCEPT
                     !.active = NoReference, !.phase = "completed", !.result = Accepted,
                     !.progress = IF config.write THEN Acknowledge(@, Outcomes(data)) ELSE @]
  <2>1. OracleTrace(o, e) = x /\ ModelStep(m, e) = n
    BY <1>1, <1>2, <1>3, <1>7, Zenon DEF OracleResponse, ModelResponse, k
  <2>2. data \in Seq(Nat) /\ o.phase = "awaiting" /\ (config.write => Len(data) = Width)
    BY <1>3, <1>7 DEF Pdus
  <2> HIDE DEF data
  <2>3. Keeps(x, n)
    BY <2>2, AcceptedAgrees
  <2> QED BY <2>1, <2>3, Zenon DEF data
<1> QED BY <1>5, <1>6, <1>7

LEMMA EventAgrees ==
    ASSUME config \in Configurations, NEW o \in Account, Good(o), NEW e \in SessionEvents
    PROVE  Keeps(OracleTrace(o, e), ModelStep(ModelOf(o), e))
<1>1. CASE \E operation \in Plain : e = Event(operation)
  <2>1. \/ e = Event("begin") \/ e = Event("send") \/ e = Event("reconnect-setup")
        \/ e = Event("reconnected") \/ e = Event("disconnect")
    BY <1>1 DEF Plain
  <2> QED BY <2>1, BeginAgrees, SendAgrees, ReconnectSetupAgrees, ReconnectedAgrees,
             DisconnectAgrees
<1>2. CASE \E kind \in ErrorKinds : e = Failure(kind)
  BY <1>2, FailureAgrees
<1>3. CASE \E pdu \in Pdus : e = Response(pdu)
  BY <1>3, ResponseAgrees
<1> QED BY <1>1, <1>2, <1>3, Zenon DEF SessionEvents

-----------------------------------------------------------------------------
(* What is drawn, and what the controls hold, are events                   *)

LEMMA ChangedCell ==
    ASSUME NEW data \in Seq(Nat), NEW i, NEW cell, i \in DOMAIN data => cell \in Nat
    PROVE  [data EXCEPT ![i] = cell] \in Seq(Nat)
<1> DEFINE n == Len(data)
           x == [data EXCEPT ![i] = cell]
<1>1. n \in Nat /\ DOMAIN data = 1 .. n /\ data \in [1 .. n -> Nat]
  OBVIOUS
<1> HIDE DEF n
<1>2. x \in [1 .. n -> Nat]
  BY <1>1
<1> HIDE DEF x
<1> QED BY <1>1, <1>2 DEF x

LEMMA ReplyTyped ==
    ASSUME config \in Configurations, NEW data \in Seq(Nat)
    PROVE  Reply(data) \in Pdus
<1> DEFINE p == <<IF config.write THEN 5 ELSE 4, Width>>
           r == config.reference
<1>1. p \in [1 .. 2 -> Int]
  BY ConfigTyped
<1>2. r \in Nat /\ 3 \in Nat
  BY ConfigTyped, ReferenceModulusAssumption DEF References
<1>3. Reply(data) = [header |-> TRUE, protocol |-> TRUE, kind |-> 3, reference |-> r,
                     sized |-> TRUE, error |-> FALSE, parameters |-> p, data |-> data]
  BY DEF Reply
<1> HIDE DEF p, r
<1>4. [header |-> TRUE, protocol |-> TRUE, kind |-> 3, reference |-> r,
                     sized |-> TRUE, error |-> FALSE, parameters |-> p, data |-> data] \in Pdus
  BY <1>1, <1>2 DEF Pdus
<1> QED BY <1>3, <1>4

LEMMA MutatedTyped ==
    ASSUME NEW pdu \in Pdus
    PROVE  /\ [pdu EXCEPT !.reference = (@ + 1) % ReferenceModulus] \in Pdus
           /\ [pdu EXCEPT !.parameters[2] = @ + 1] \in Pdus
           /\ [pdu EXCEPT !.error = TRUE] \in Pdus
           /\ [pdu EXCEPT !.data[3] = @ + 8] \in Pdus
<1>1. [pdu EXCEPT !.reference = (@ + 1) % ReferenceModulus] \in Pdus
  <2>1. (pdu.reference + 1) % ReferenceModulus \in Nat
    BY ReferenceModulusAssumption DEF Pdus
  <2> QED BY <2>1 DEF Pdus
<1>2. [pdu EXCEPT !.parameters[2] = @ + 1] \in Pdus
  <2> DEFINE parameters == [pdu.parameters EXCEPT ![2] = @ + 1]
  <2>1. parameters \in [1 .. 2 -> Int]
    BY DEF Pdus
  <2> HIDE DEF parameters
  <2>2. [pdu EXCEPT !.parameters = parameters] \in Pdus
    BY <2>1 DEF Pdus
  <2> QED BY <2>2 DEF parameters
<1>3. [pdu EXCEPT !.error = TRUE] \in Pdus
  BY DEF Pdus
<1>4. [pdu EXCEPT !.data[3] = @ + 8] \in Pdus
  <2> DEFINE cell == pdu.data[3] + 8
             data == [pdu.data EXCEPT ![3] = cell]
  <2>1. pdu.data \in Seq(Nat)
    BY DEF Pdus
  <2>2. 3 \in DOMAIN pdu.data => cell \in Nat
    BY <2>1
  <2> HIDE DEF cell
  <2>3. data \in Seq(Nat)
    BY <2>1, <2>2, ChangedCell
  <2> HIDE DEF data
  <2>4. [pdu EXCEPT !.data = data] \in Pdus
    BY <2>3 DEF Pdus
  <2> QED BY <2>4 DEF data, cell
<1> QED BY <1>1, <1>2, <1>3, <1>4

LEMMA MutationsTyped ==
    ASSUME NEW reply \in Pdus
    PROVE  Mutations(reply) \subseteq Pdus
<1>1. [reply EXCEPT !.protocol = FALSE] \in Pdus
  BY DEF Pdus
<1>2. [reply EXCEPT !.kind = 7] \in Pdus /\ [reply EXCEPT !.kind = 2] \in Pdus
  BY DEF Pdus
<1>3. [reply EXCEPT !.reference = (@ + 1) % ReferenceModulus] \in Pdus
  <2>1. (reply.reference + 1) % ReferenceModulus \in Nat
    BY ReferenceModulusAssumption DEF Pdus
  <2> QED BY <2>1 DEF Pdus
<1>4. [reply EXCEPT !.parameters[1] = 9 - @] \in Pdus
  <2> DEFINE parameters == [reply.parameters EXCEPT ![1] = 9 - @]
  <2>1. parameters \in [1 .. 2 -> Int]
    BY DEF Pdus
  <2> HIDE DEF parameters
  <2>2. [reply EXCEPT !.parameters = parameters] \in Pdus
    BY <2>1 DEF Pdus
  <2> QED BY <2>2 DEF parameters
<1>9. [reply EXCEPT !.parameters[2] = @ + 1] \in Pdus
  BY MutatedTyped
<1>5. [reply EXCEPT !.header = FALSE] \in Pdus /\ [reply EXCEPT !.sized = FALSE] \in Pdus
      /\ [reply EXCEPT !.error = TRUE] \in Pdus
  BY DEF Pdus
<1>6. [reply EXCEPT !.data = <<>>] \in Pdus
  <2> DEFINE none == <<>>
  <2>1. none \in Seq(Nat)
    OBVIOUS
  <2> HIDE DEF none
  <2>2. [reply EXCEPT !.data = none] \in Pdus
    BY <2>1 DEF Pdus
  <2> QED BY <2>2 DEF none
<1>7. [reply EXCEPT !.data[2] = 7] \in Pdus
  <2>1. [reply.data EXCEPT ![2] = 7] \in Seq(Nat)
    BY ChangedCell DEF Pdus
  <2> QED BY <2>1 DEF Pdus
<1>8. [reply EXCEPT !.data[3] = IF @ % 2 = 0 THEN @ + 1 ELSE @] \in Pdus
  <2> DEFINE c == IF reply.data[3] % 2 = 0 THEN reply.data[3] + 1 ELSE reply.data[3]
             d == [reply.data EXCEPT ![3] = c]
  <2>1. reply.data \in Seq(Nat)
    BY DEF Pdus
  <2>2. 3 \in DOMAIN reply.data => c \in Nat
    BY <2>1
  <2> HIDE DEF c
  <2>3. d \in Seq(Nat)
    BY <2>1, <2>2, ChangedCell
  <2> HIDE DEF d
  <2>4. [reply EXCEPT !.data = d] \in Pdus
    BY <2>3 DEF Pdus
  <2> QED BY <2>4 DEF d, c
<1> QED BY <1>1, <1>2, <1>3, <1>4, <1>5, <1>6, <1>7, <1>8, <1>9, Zenon DEF Mutations

LEMMA ItemBytesTyped ==
    ASSUME NEW code \in Nat, NEW transport \in Nat, NEW bits \in Nat, NEW size \in Nat,
           NEW last \in BOOLEAN
    PROVE  ItemBytes(code, transport, bits, size, last) \in Seq(Nat)
<1> DEFINE head == <<code, transport, bits>>
           body == [i \in 1 .. size |-> 0]
           pad  == IF ~last /\ size % 2 = 1 THEN <<0>> ELSE <<>>
<1>1. head \in Seq(Nat) /\ body \in Seq(Nat)
  OBVIOUS
<1>2. pad \in Seq(Nat)
  <2>1. <<0>> \in Seq(Nat) /\ <<>> \in Seq(Nat)
    OBVIOUS
  <2> QED BY <2>1, Zenon
<1>3. ItemBytes(code, transport, bits, size, last) = head \o body \o pad
  BY Zenon DEF ItemBytes
<1> HIDE DEF head, body, pad
<1> QED BY <1>1, <1>2, <1>3

LEMMA ItemsTyped ==
    ASSUME config \in Configurations, NEW item \in 1 .. Width
    PROVE  Items(item) \subseteq Seq(Nat)
<1> DEFINE size == config.locations[item]
           last == item = Width
           own  == ItemBytes(Success, 4, 8 * size, size, last)
           bits(transport, n) == IF transport = 9 THEN n ELSE 8 * n
           other(transport, n) == ItemBytes(5, transport, bits(transport, n), n, last)
<1>1. size \in Nat /\ 8 * size \in Nat /\ last \in BOOLEAN /\ Success \in Nat
  <2>1. size \in Ranges
    BY ConfigTyped
  <2> QED BY <2>1 DEF Ranges, Success
<1>2. own \in Seq(Nat)
  <2> DEFINE wide == 8 * size
  <2>1. wide \in Nat
    BY <1>1
  <2> HIDE DEF wide, size, last
  <2> QED BY <1>1, <2>1, ItemBytesTyped DEF wide
<1>3. ASSUME NEW transport \in {4, 9}, NEW n \in {0, 1} PROVE other(transport, n) \in Seq(Nat)
  <2> DEFINE b == bits(transport, n)
  <2>1. b \in Nat /\ transport \in Nat /\ n \in Nat /\ 5 \in Nat
    OBVIOUS
  <2> HIDE DEF b, last
  <2> QED BY <1>1, <2>1, ItemBytesTyped DEF b
<1>4. <<Success>> \in Seq(Nat) /\ <<5>> \in Seq(Nat)
  BY <1>1
<1>5. Items(item) = IF config.write THEN {<<Success>>, <<5>>}
                    ELSE {own} \union {other(transport, n) : transport \in {4, 9}, n \in {0, 1}}
  BY DEF Items
<1> HIDE DEF own
<1>6. CASE config.write
  BY <1>4, <1>5, <1>6
<1>7. CASE ~config.write
  <2> SUFFICES ASSUME NEW cells \in Items(item), cells # own PROVE cells \in Seq(Nat)
    BY <1>2
  <2>1. \E transport \in {4, 9}, n \in {0, 1} : cells = other(transport, n)
    <3> HIDE DEF other
    <3> QED BY <1>5, <1>7
  <2> HIDE DEF other
  <2> QED BY <1>3, <2>1
<1> QED BY <1>6, <1>7

LEMMA JoinedItemsTyped ==
    ASSUME config \in Configurations, NEW items,
           items \in [1 .. Width -> Seq(Nat)]
    PROVE  Reply(FlattenSeq(items)) \in Pdus
<1>1. Width \in Nat
  BY ConfigTyped
<1> DEFINE n == Width
           data == FlattenSeq(items)
<1>2. n \in Nat /\ items \in [1 .. n -> Seq(Nat)]
  BY <1>1
<1> HIDE DEF n
<1>3. data \in Seq(Nat)
  BY <1>2, FlattenTyped
<1> HIDE DEF data
<1>4. Reply(data) \in Pdus
  BY <1>3, ReplyTyped
<1> QED BY <1>4 DEF data

LEMMA ResponsesTyped == ASSUME config \in Configurations PROVE Responses \subseteq Pdus
<1>1. ASSUME NEW reply \in Replies PROVE reply \in Pdus
  <2>1. PICK items \in [1 .. Width -> UNION {Items(item) : item \in 1 .. Width}] :
           /\ \A item \in 1 .. Width : items[item] \in Items(item)
           /\ reply = Reply(FlattenSeq(items))
    BY <1>1, Zenon DEF Replies
  <2>2. items \in [1 .. Width -> Seq(Nat)]
    <3>1. \A item \in 1 .. Width : items[item] \in Seq(Nat)
      BY <2>1, ItemsTyped
    <3> QED BY <2>1, <3>1, Zenon
  <2> QED BY <2>1, <2>2, JoinedItemsTyped, Zenon
<1> QED BY <1>1, MutationsTyped, Zenon DEF Responses

LEMMA GeneratedTyped ==
    ASSUME config \in Configurations, NEW phase
    PROVE  Generated(phase) \subseteq SessionEvents
<1> DEFINE kinds == CASE phase = "awaiting" -> {"timeout", "transport", "disconnected", "protocol",
                                                "plcRejected"}
                      [] phase \in {"reconnectCotp", "reconnectSetup"} ->
                            {"timeout", "transport", "disconnected"}
                      [] OTHER -> {"timeout"}
<1>1. kinds \subseteq ErrorKinds
  BY DEF ErrorKinds
<1>2. Generated(phase) = {Event(operation) : operation \in Plain}
                           \union {Failure(kind) : kind \in kinds}
                           \union {Response(pdu) : pdu \in Responses}
  BY DEF Generated, Plain
<1> HIDE DEF kinds
<1>3. Responses \subseteq Pdus
  BY ResponsesTyped
<1> QED BY <1>1, <1>2, <1>3, Zenon DEF SessionEvents

(* The events of the controls.                                             *)
LEMMA AnsweredTyped ==
    ASSUME config \in Configurations
    PROVE  \E pdu \in Pdus : Answered = Response(pdu)
<1> DEFINE own(item) == IF config.write THEN <<Success>>
                        ELSE ItemBytes(Success, 4, 8 * config.locations[item],
                                       config.locations[item], item = Width)
           items == [item \in 1 .. Width |-> own(item)]
<1>1. ASSUME NEW item \in 1 .. Width PROVE own(item) \in Seq(Nat)
  <2>1. own(item) \in Items(item)
    <3>1. CASE config.write
      BY <3>1 DEF Items
    <3>2. CASE ~config.write
      <4> DEFINE g == ItemBytes(Success, 4, 8 * config.locations[item],
                                config.locations[item], item = Width)
      <4>1. own(item) = g
        BY <3>2, Zenon
      <4> DEFINE others == {ItemBytes(5, transport, IF transport = 9 THEN size ELSE 8 * size,
                                      size, item = Width) : transport \in {4, 9}, size \in {0, 1}}
      <4>2. Items(item) = {g} \union others
        BY <3>2 DEF Items
      <4> HIDE DEF g, others, own
      <4> QED BY <4>1, <4>2
    <3> QED BY <3>1, <3>2
  <2> QED BY <2>1, ItemsTyped, Zenon
<1> HIDE DEF own
<1>2. items \in [1 .. Width -> Seq(Nat)]
  BY <1>1, Zenon
<1>3. Answered = Response(Reply(FlattenSeq(items)))
  BY Zenon DEF Answered, own
<1> HIDE DEF items
<1> QED BY <1>2, <1>3, JoinedItemsTyped, Zenon

LEMMA MutatedAnswersTyped ==
    ASSUME config \in Configurations
    PROVE  /\ Answered \in SessionEvents
           /\ [Answered EXCEPT !.pdu.reference = (@ + 1) % ReferenceModulus] \in SessionEvents
           /\ [Answered EXCEPT !.pdu.parameters[2] = @ + 1] \in SessionEvents
           /\ [Answered EXCEPT !.pdu.error = TRUE] \in SessionEvents
           /\ [Answered EXCEPT !.pdu.data[3] = @ + 8] \in SessionEvents
<1>1. PICK pdu \in Pdus : Answered = Response(pdu)
  BY AnsweredTyped
<1>2. \A other \in Pdus : Response(other) \in SessionEvents
  BY Zenon DEF SessionEvents
<1> DEFINE a == [pdu EXCEPT !.reference = (@ + 1) % ReferenceModulus]
           b == [pdu EXCEPT !.parameters[2] = @ + 1]
           c == [pdu EXCEPT !.error = TRUE]
           d == [pdu EXCEPT !.data[3] = @ + 8]
           A == [Answered EXCEPT !.pdu.reference = (@ + 1) % ReferenceModulus]
           B == [Answered EXCEPT !.pdu.parameters[2] = @ + 1]
           C == [Answered EXCEPT !.pdu.error = TRUE]
           D == [Answered EXCEPT !.pdu.data[3] = @ + 8]
<1>3. A = Response(a) /\ B = Response(b) /\ D = Response(d)
  BY <1>1 DEF Response
<1>4. C = Response(c)
  <2> DEFINE yes == TRUE
  <2> HIDE DEF yes
  <2>1. [Answered EXCEPT !.pdu.error = yes] = Response([pdu EXCEPT !.error = yes])
    BY <1>1 DEF Response
  <2> QED BY <2>1 DEF yes
<1>5. a \in Pdus /\ b \in Pdus /\ c \in Pdus /\ d \in Pdus
  BY MutatedTyped
<1> HIDE DEF a, b, c, d, A, B, C, D
<1>6. /\ Answered \in SessionEvents /\ A \in SessionEvents /\ B \in SessionEvents
      /\ C \in SessionEvents /\ D \in SessionEvents
  BY <1>1, <1>2, <1>3, <1>4, <1>5, Zenon
<1> QED BY <1>6 DEF A, B, C, D

LEMMA ControlTyped ==
    ASSUME config \in Configurations, NEW name \in ControlNames
    PROVE  Control(name) \in Seq(SessionEvents)
<1> DEFINE begin == Event("begin")
           send == Event("send")
           setup == Event("reconnect-setup")
           again == Event("reconnected")
           close == Event("disconnect")
           a == [Answered EXCEPT !.pdu.reference = (@ + 1) % ReferenceModulus]
           b == [Answered EXCEPT !.pdu.parameters[2] = @ + 1]
           c == [Answered EXCEPT !.pdu.error = TRUE]
           d == [Answered EXCEPT !.pdu.data[3] = @ + 8]
<1>1. /\ begin \in SessionEvents /\ send \in SessionEvents /\ setup \in SessionEvents
      /\ again \in SessionEvents /\ close \in SessionEvents
  <2>1. {"begin", "send", "reconnect-setup", "reconnected", "disconnect"} \subseteq Plain
    BY DEF Plain
  <2> QED BY <2>1, Zenon DEF SessionEvents
<1>2. Timeout \in SessionEvents
  <2>1. "timeout" \in ErrorKinds
    BY DEF ErrorKinds
  <2> QED BY <2>1, Zenon DEF SessionEvents, Timeout
<1>3. /\ Answered \in SessionEvents /\ a \in SessionEvents /\ b \in SessionEvents
      /\ c \in SessionEvents /\ d \in SessionEvents
  BY MutatedAnswersTyped, Zenon
<1>4. Started = <<begin, send>> /\ Reconnecting = <<setup, again>>
  BY DEF Started, Reconnecting
<1> DEFINE S == SessionEvents
           x == Answered
           t == Timeout
<1>5. Control(name) \in {Started \o <<t, t, setup, t>> \o Started,
                         Started \o <<t>> \o Reconnecting \o <<send, x>>, Started \o <<t>>,
                         Append(Started, a), Append(Started, b), <<close, begin, again>>,
                         Append(Started, c), Append(Started, x), Append(Started, d)}
  BY Zenon DEF Control, ControlNames
<1> HIDE DEF begin, send, setup, again, close, a, b, c, d, S, x, t
<1>6. Started \in Seq(S) /\ Reconnecting \in Seq(S)
  BY <1>1, <1>4 DEF S
<1>7. /\ <<t, t, setup, t>> \in Seq(S) /\ <<t>> \in Seq(S) /\ <<send, x>> \in Seq(S)
      /\ <<close, begin, again>> \in Seq(S)
  BY <1>1, <1>2, <1>3 DEF S, t, x
<1>8. /\ Append(Started, a) \in Seq(S) /\ Append(Started, b) \in Seq(S)
      /\ Append(Started, c) \in Seq(S) /\ Append(Started, d) \in Seq(S)
      /\ Append(Started, x) \in Seq(S)
  BY <1>3, <1>6 DEF S, x
<1>9. Started \o <<t, t, setup, t>> \o Started \in Seq(S) /\ Started \o <<t>> \in Seq(S)
      /\ Started \o <<t>> \o Reconnecting \o <<send, x>> \in Seq(S)
  <2> DEFINE p == <<t, t, setup, t>>
             q == <<t>>
             r == <<send, x>>
  <2>1. p \in Seq(S) /\ q \in Seq(S) /\ r \in Seq(S)
    BY <1>7
  <2> HIDE DEF p, q, r
  <2>2. Started \o p \o Started \in Seq(S) /\ Started \o q \in Seq(S)
        /\ Started \o q \o Reconnecting \o r \in Seq(S)
    BY <1>6, <2>1
  <2> QED BY <2>2 DEF p, q, r
<1> QED BY <1>5, <1>7, <1>8, <1>9, Zenon DEF S

-----------------------------------------------------------------------------
(* The invariant, and what it says of the properties                       *)

LEMMA SessionInvInit == SessionInit => SessionInv
<1> SUFFICES ASSUME SessionInit PROVE SessionInv
  OBVIOUS
<1>1. /\ config \in Configurations /\ control \in ControlNames \union {"none"} /\ done \in Nat
      /\ oracle = OracleInit /\ model = ModelInit
  BY DEF SessionInit, ControlConfigurations
<1>2. oracle \in Account
  <2>1. <<>> \in Seq(SessionAttempt) /\ <<>> \in Seq(Ranges)
    OBVIOUS
  <2> QED BY <1>1, <2>1 DEF OracleInit, Account, LifecycleStates, Phases, SessionResults
<1>3. model = ModelOf(oracle)
  BY <1>1 DEF ModelInit, ModelOf, OracleInit, NoProgress
<1>4. /\ oracle.phase = "idle" /\ oracle.history = <<>> /\ oracle.pending = <<>>
      /\ oracle.sends = 0 /\ oracle.remaining = 0
  BY <1>1 DEF OracleInit
<1>5. Good(oracle)
  <2>1. config.budget \in Nat /\ Width \in Nat
    BY <1>1, ConfigTyped
  <2>2. AttemptsHold(oracle)
    BY <1>4, <2>1 DEF AttemptsHold, AllReplayed, Idling
  <2> QED BY <1>4, <2>1, <2>2 DEF Good, Idling
<1> QED BY <1>1, <1>2, <1>3, <1>5 DEF SessionInv

LEMMA FedKept ==
    ASSUME SessionInv, NEW e \in SessionEvents, Feed(e), UNCHANGED <<config, control>>,
           done' \in Nat
    PROVE  SessionInv'
<1> DEFINE x == OracleTrace(oracle, e)
           m == ModelStep(model, e)
<1>1. config \in Configurations /\ oracle \in Account /\ model = ModelOf(oracle) /\ Good(oracle)
  BY DEF SessionInv
<1>2. Keeps(x, m)
  BY <1>1, EventAgrees
<1>3. oracle' = x /\ model' = m
  BY DEF Feed
<1>4. x \in Account /\ Good(x) /\ m = ModelOf(x)
  BY <1>2 DEF Keeps
<1> HIDE DEF x, m
<1>5. oracle' \in Account /\ model' = ModelOf(oracle')
  BY <1>3, <1>4
<1>6. Account' = Account /\ Configurations' = Configurations
  BY DEF Account, Configurations
<1>7. Good(oracle)'
  <2>1. config' = config /\ oracle' = x
    BY <1>3
  <2>2. config.write => AttemptsHold(x)
    BY <1>4, Zenon DEF Good
  <2>3. AttemptsHold(x) => AttemptsHold(oracle)'
    BY <2>1 DEF AttemptsHold, AllReplayed, Width, Idling
  <2>4. /\ x.pending \in {<<>>, config.locations}
        /\ x.phase \in Idling \union {"awaiting"} => x.lifecycle # "closed"
        /\ x.sends <= 1 + config.budget - x.remaining
        /\ x.phase \in Idling => x.sends <= config.budget - x.remaining
    BY <1>4, Zenon DEF Good
  <2> QED BY <2>1, <2>2, <2>3, <2>4, Zenon DEF Good, Idling
<1>8. ModelOf(oracle)' = ModelOf(oracle')
  BY DEF ModelOf
<1> QED BY <1>1, <1>5, <1>6, <1>7, <1>8 DEF SessionInv

(* After every event the oracle of the harness has kept a well-formed      *)
(* account of the active request, the client's policies are what that      *)
(* account says, and the attempts of a write are its items, once for each  *)
(* send, all uncertain as long as the request may be sent again.           *)
THEOREM RequestInvariant == SessionSpec => []SessionInv
<1>1. SessionInv /\ [SessionNext]_sessionVars => SessionInv'
  <2> SUFFICES ASSUME SessionInv, [SessionNext]_sessionVars PROVE SessionInv'
    OBVIOUS
  <2>1. CASE Draw
    <3>1. PICK e \in Generated(oracle.phase) : Feed(e)
      BY <2>1 DEF Draw
    <3>2. e \in SessionEvents
      BY GeneratedTyped DEF SessionInv
    <3>3. UNCHANGED <<config, control>> /\ done' \in Nat
      BY <2>1 DEF Draw, SessionInv
    <3> QED BY <3>1, <3>2, <3>3, FedKept
  <2>2. CASE FollowControl
    <3> DEFINE e == Control(control)[done + 1]
    <3>1. /\ control \in ControlNames /\ done \in Nat /\ config \in Configurations
          /\ done < Len(Control(control)) /\ Feed(e)
      BY <2>2 DEF FollowControl, SessionInv
    <3>2. e \in SessionEvents
      <4> DEFINE c == Control(control)
      <4>1. c \in Seq(SessionEvents)
        BY <3>1, ControlTyped
      <4> HIDE DEF c
      <4>2. done + 1 \in 1 .. Len(c)
        BY <3>1, <4>1 DEF c
      <4> QED BY <4>1, <4>2 DEF c
    <3>3. UNCHANGED <<config, control>> /\ done' \in Nat
      BY <2>2, <3>1 DEF FollowControl
    <3> HIDE DEF e
    <3> QED BY <3>1, <3>2, <3>3, FedKept
  <2>3. CASE UNCHANGED sessionVars
    BY <2>3 DEF sessionVars, SessionInv, Account, Configurations, Good, AttemptsHold, AllReplayed,
                Width, Idling, ModelOf
  <2> QED BY <2>1, <2>2, <2>3 DEF SessionNext
<1> QED BY <1>1, SessionInvInit, PTL DEF SessionSpec

LEMMA SameReport == ASSUME NEW o \in Account PROVE Attempts(o) = Trace(ModelOf(o).progress)
BY DEF Attempts, Trace, Finish, Settled, ModelOf

(* Whatever the events, however many, and whatever the budget and the      *)
(* items of the request: session_conformance.trace and the client's own    *)
(* decoders, retry policy and write progress give the same answers and the *)
(* same snapshots.                                                         *)
THEOREM RequestsAreToldAlike == SessionSpec => []OracleAgrees
<1>1. SessionInv => OracleAgrees
  <2> SUFFICES ASSUME SessionInv PROVE OracleAgrees
    OBVIOUS
  <2>1. oracle \in Account /\ model = ModelOf(oracle)
    BY DEF SessionInv
  <2>2. Attempts(oracle) = Trace(model.progress)
    BY <2>1, SameReport
  <2> QED BY <2>1, <2>2 DEF OracleAgrees, Told, ModelOf
<1> QED BY <1>1, RequestInvariant, PTL

LEMMA ReportedParts ==
    ASSUME NEW o \in Account, NEW p,
           p = [i \in DOMAIN o.pending |-> [location |-> o.pending[i], outcome |-> "pending"]]
    PROVE  /\ Attempts(o) = o.history \o p
           /\ Len(p) = Len(o.pending) /\ Len(o.history) \in Nat
           /\ Len(Attempts(o)) = Len(o.history) + Len(p)
           /\ \A k \in 1 .. Len(o.history) : Attempts(o)[k] = o.history[k]
           /\ \A k \in 1 .. Len(p) : Attempts(o)[Len(o.history) + k] = p[k]
<1> DEFINE h == o.history
           all == h \o p
           T == {p[k] : k \in DOMAIN o.pending}
           S == SessionAttempt \union T
<1>1. Attempts(o) = all
  BY DEF Attempts
<1>2. h \in Seq(S)
  <2>1. h \in Seq(SessionAttempt)
    BY DEF Account
  <2> HIDE DEF h, T
  <2> QED BY <2>1
<1>3. p \in Seq(S) /\ Len(p) = Len(o.pending)
  <2>1. DOMAIN o.pending = 1 .. Len(o.pending) /\ Len(o.pending) \in Nat
    BY DEF Account
  <2>2. p \in [1 .. Len(o.pending) -> S]
    BY <2>1
  <2> HIDE DEF S
  <2> QED BY <2>1, <2>2
<1> HIDE DEF h, S
<1>4. /\ Len(all) = Len(h) + Len(p) /\ Len(h) \in Nat
      /\ \A k \in 1 .. Len(h) : all[k] = h[k]
      /\ \A k \in 1 .. Len(p) : all[Len(h) + k] = p[k]
  BY <1>2, <1>3
<1> HIDE DEF all
<1> QED BY <1>1, <1>3, <1>4 DEF h, all

LEMMA ReportedLength ==
    ASSUME NEW o \in Account, AttemptsHold(o)
    PROVE  Len(Attempts(o)) = o.sends * Width
<1> DEFINE p == [i \in DOMAIN o.pending |-> [location |-> o.pending[i], outcome |-> "pending"]]
<1>1. Len(p) = Len(o.pending) /\ Len(Attempts(o)) = Len(o.history) + Len(p)
  <2> DEFINE q == p
  <2> HIDE DEF q
  <2>1. q = [i \in DOMAIN o.pending |-> [location |-> o.pending[i], outcome |-> "pending"]]
    BY DEF q
  <2>2. Len(q) = Len(o.pending) /\ Len(Attempts(o)) = Len(o.history) + Len(q)
    BY <2>1, ReportedParts
  <2> QED BY <2>2 DEF q
<1> HIDE DEF p
<1>2. Len(o.history) + Len(o.pending) = o.sends * Width
  BY Zenon DEF AttemptsHold
<1> QED BY <1>1, <1>2

LEMMA ReportedAttempts ==
    ASSUME config \in Configurations, config.write, NEW o \in Account, Good(o),
           NEW send \in 1 .. o.sends, NEW item \in 1 .. Width
    PROVE  /\ Attempts(o)[(send - 1) * Width + item].location = config.locations[item]
           /\ send < o.sends =>
                Attempts(o)[(send - 1) * Width + item].outcome = "replayedUnknown"
<1> DEFINE h == o.history
           w == Width
           s == o.sends
           p == [i \in DOMAIN o.pending |->
                   [location |-> o.pending[i], outcome |-> "pending"]]
           all == h \o p
           i == (send - 1) * w + item
           length == Len(h)
<1>1. /\ w \in Nat \ {0} /\ s \in Nat /\ length \in Nat /\ send \in Nat \ {0} /\ send <= s
      /\ item \in 1 .. w /\ Len(config.locations) = w
      /\ o.pending \in Seq(Ranges) /\ o.pending \in {<<>>, config.locations}
      /\ AttemptsHold(o)
  BY ConfigTyped DEF Account, Good, Width
<1>2. Attempts(o) = all
  BY DEF Attempts
<1>3. Len(h) + Len(o.pending) = s * w
  BY <1>1, Zenon DEF AttemptsHold
<1>4. /\ Len(p) = Len(o.pending) /\ Len(h) \in Nat
      /\ \A k \in 1 .. Len(h) : all[k] = h[k]
      /\ \A k \in 1 .. Len(p) : all[Len(h) + k] = p[k]
  <2> DEFINE q == p
  <2> HIDE DEF q
  <2>1. q = [k \in DOMAIN o.pending |-> [location |-> o.pending[k], outcome |-> "pending"]]
    BY DEF q
  <2>2. /\ Len(q) = Len(o.pending) /\ Len(o.history) \in Nat
        /\ \A k \in 1 .. Len(o.history) : Attempts(o)[k] = o.history[k]
        /\ \A k \in 1 .. Len(q) : Attempts(o)[Len(o.history) + k] = q[k]
    BY <2>1, ReportedParts
  <2> HIDE DEF p, all
  <2>3. q = p
    BY DEF q
  <2> QED BY <1>2, <2>2, <2>3
<1> HIDE DEF h, p, all, w, s
<1>5. i <= Len(h) => h[i].location = config.locations[item]
      /\ (send < s => h[i].outcome = "replayedUnknown")
  BY <1>1, Zenon DEF AttemptsHold, h, w, s
<1>6. i \in 1 .. s * w
  <2>1. \A d \in Nat : d * w \in Nat
    BY <1>1
  <2>2. (send - 1) * w \in Nat /\ (s - send) * w \in Nat
    BY <1>1, <2>1
  <2>3. s * w = (send - 1) * w + w + (s - send) * w
    BY <1>1
  <2> DEFINE a == (send - 1) * w
             b == (s - send) * w
             c == s * w
  <2> HIDE DEF a, b, c
  <2>4. a + item \in 1 .. c
    BY <1>1, <2>2, <2>3 DEF a, b, c
  <2> QED BY <2>4 DEF a, c
<1> HIDE DEF i
<1>7. CASE i \in 1 .. Len(h)
  <2>1. all[i] = h[i] /\ i <= Len(h)
    BY <1>1, <1>4, <1>7 DEF length
  <2> QED BY <1>2, <1>5, <2>1 DEF i, s, w
<1>8. CASE i \notin 1 .. Len(h)
  <2>1. o.pending = config.locations
    <3>1. Len(<<>>) = 0
      OBVIOUS
    <3> QED BY <1>1, <1>3, <1>6, <1>8, <3>1 DEF length
  <2>2. Len(h) + w = s * w
    BY <1>1, <1>3, <2>1
  <2>3. IsPlaced(send, item, s, w, Len(h))
    BY <1>1, <2>2, PlaceOfAttempt DEF length
  <2>4. ~(send < s) /\ i = Len(h) + item
    BY <1>1, <1>8, <2>3 DEF IsPlaced, i
  <2>5. all[i] = p[item] /\ p[item].location = config.locations[item]
    <3>1. item \in 1 .. Len(p) /\ item \in DOMAIN o.pending
      BY <1>1, <1>4, <2>1
    <3>2. p[item].location = o.pending[item]
      BY <3>1 DEF p
    <3> QED BY <1>4, <2>1, <2>4, <3>1, <3>2
  <2> QED BY <1>2, <2>4, <2>5 DEF i, s, w
<1> QED BY <1>7, <1>8

(* A request is never sent more often than the retry budget allows, and    *)
(* the report of a write names every item of every send, all but those of  *)
(* the last send as uncertain.                                             *)
THEOREM SendsAreAccounted == SessionSpec => []EverySendAccounted
<1>1. SessionInv => EverySendAccounted
  <2> SUFFICES ASSUME SessionInv PROVE EverySendAccounted
    OBVIOUS
  <2>1. oracle \in Account /\ model = ModelOf(oracle) /\ Good(oracle) /\ config \in Configurations
    BY DEF SessionInv
  <2>2. Attempts(oracle) = Trace(model.progress)
    BY <2>1, SameReport
  <2>3. model.sends = oracle.sends /\ model.remaining = oracle.remaining
    BY <2>1 DEF ModelOf
  <2>4. model.sends <= 1 + config.budget - model.remaining
    BY <2>1, <2>3 DEF Good
  <2>5. config.write => Len(Attempts(oracle)) = model.sends * Width
    <3> SUFFICES ASSUME config.write PROVE Len(Attempts(oracle)) = oracle.sends * Width
      BY <2>3
    <3>1. AttemptsHold(oracle)
      BY <2>1, Zenon DEF Good
    <3> QED BY <2>1, <3>1, ReportedLength
  <2>6. ASSUME config.write, NEW send \in 1 .. model.sends, NEW item \in 1 .. Width
        PROVE  /\ Attempts(oracle)[(send - 1) * Width + item].location = config.locations[item]
               /\ send < model.sends =>
                    Attempts(oracle)[(send - 1) * Width + item].outcome = "replayedUnknown"
    BY <2>1, <2>3, <2>6, ReportedAttempts
  <2> QED BY <2>2, <2>4, <2>5, <2>6, Zenon DEF EverySendAccounted
<1> QED BY <1>1, RequestInvariant, PTL

-----------------------------------------------------------------------------
(* The controls of conversations                                           *)

(* The two items of a control, with one outcome.                           *)
TwoAttempts(write, outcome) == [i \in 1 .. 2 |-> [location |-> write[i], outcome |-> outcome]]

(* Where a conversation stands after the first so many steps of a control. *)
ScriptStands(name, pair) ==
    LET At(lifecycle, history, pending) ==
            told.lifecycle = lifecycle /\ told.history = history /\ told.pending = pending
    IN  /\ fed \in 0 .. Len(script.steps)
        /\ fed = 0 => At("connected", <<>>, <<>>)
        /\ name # "resurrection" /\ fed = 1 => At("connected", <<>>, pair)
        /\ name = "conservative" /\ fed \in {2, 3} => At("disconnected", <<>>, pair)
        /\ name = "conservative" /\ fed = 3 => told.result = Permitted(FALSE)
        /\ name = "opt-in" /\ fed = 2 => At("connected", TwoAttempts(pair, "replayedUnknown"), <<>>)
        /\ name = "resurrection" /\ fed \in {1, 2} => At("closed", <<>>, <<>>)
        /\ name = "resurrection" /\ fed = 2 => told.result = Reject("lifecycle-transition")

(* A drawn history is as long as its bound allows, and its report no       *)
(* longer than that; a control stands where its steps so far lead to.      *)
ScriptInv ==
    /\ script = NoScript =>
          fed <= MaxEvents /\ Len(told.history) + Len(told.pending) <= MaxItems * fed
    /\ \A name \in Scripts, pair \in Writable :
          script = [name |-> name, steps |-> ScriptSteps(name, pair)] =>
             ScriptStands(name, pair)

LEMMA ToldParts ==
    ASSUME ConversationInv
    PROVE  /\ told \in ToldState /\ told.history \in Seq(ItemAttempts) /\ told.pending \in Seq(MemoryRanges)
           /\ Len(told.history) \in Nat /\ Len(told.pending) \in Nat /\ fed \in Nat
           /\ DOMAIN told.pending = 1 .. Len(told.pending)
  BY DEF ConversationInv, ToldState

LEMMA SettlingLength ==
    ASSUME NEW S, NEW history \in Seq(S), NEW n \in Nat, NEW more \in [1 .. n -> S]
    PROVE  Len(history \o more) = Len(history) + n
<1>1. more \in Seq(S) /\ Len(more) = n
  OBVIOUS
<1> QED BY <1>1

(* What settling does to the two parts of an account.                      *)
LEMMA SettledCounts ==
    ASSUME ConversationInv, NEW outcomes, \A i \in DOMAIN told.pending : outcomes[i] \in AttemptOutcomes
    PROVE  /\ Settling(outcomes).pending = <<>>
           /\ Len(Settling(outcomes).history) = Len(told.history) + Len(told.pending)
           /\ Settling(outcomes).history
                = told.history \o [i \in DOMAIN told.pending |->
                                     [location |-> told.pending[i], outcome |-> outcomes[i]]]
           /\ Settling(outcomes).lifecycle = told.lifecycle
<1> DEFINE more == [i \in DOMAIN told.pending |-> [location |-> told.pending[i], outcome |-> outcomes[i]]]
           none == <<>>
           asked == NotAsked
<1>1. ToldState # {} /\ told \in ToldState
  BY ToldParts
<1>2. more \in [1 .. Len(told.pending) -> ItemAttempts]
  <2>1. \A i \in DOMAIN told.pending :
           [location |-> told.pending[i], outcome |-> outcomes[i]] \in ItemAttempts
    BY ToldParts DEF ItemAttempts
  <2> QED BY <2>1, ToldParts
<1> DEFINE whole == told.history \o more
<1>3. Settling(outcomes) = [told EXCEPT !.pending = none, !.reference = asked, !.history = whole]
  BY DEF Settling
<1>4. Len(whole) = Len(told.history) + Len(told.pending)
  <2> HIDE DEF more
  <2> QED BY <1>2, ToldParts, SettlingLength, ZenonT(30)
<1> HIDE DEF none, whole, asked
<1>5. /\ Settling(outcomes).pending = none /\ Settling(outcomes).history = whole
      /\ Settling(outcomes).lifecycle = told.lifecycle
  BY <1>1, <1>3 DEF ToldState
<1> QED BY <1>4, <1>5 DEF none, whole

LEMMA NoLonger ==
    ASSUME NEW h \in Nat, NEW p \in Nat, NEW m \in Nat, NEW x, NEW y, x = h + p, y = 0
    PROVE  x + y <= h + p + m
  OBVIOUS

(* An event adds at most the items of one request to an account.           *)
LEMMA HeardCounts ==
    ASSUME ConversationInv, NEW step, IsStep(step), Hear(step)
    PROVE  Len(told'.history) + Len(told'.pending)
             <= Len(told.history) + Len(told.pending) + MaxItems
<1> DEFINE same(s) == s.history = told.history /\ s.pending = told.pending
           h == Len(told.history)
           p == Len(told.pending)
<1>1. h \in Nat /\ p \in Nat /\ told \in ToldState /\ MaxItems \in Nat /\ told' = ToldStep(step)
  BY ToldParts, ConversationHistoriesAssumption DEF Hear
<1>2. ASSUME same(told') PROVE Len(told'.history) + Len(told'.pending) <= h + p + MaxItems
  <2>1. Len(told'.history) = h /\ Len(told'.pending) = p
    BY <1>2
  <2> HIDE DEF h, p, same
  <2> QED BY <1>1, <2>1
<1>3. ASSUME NEW outcomes, NEW said, \A i \in DOMAIN told.pending : outcomes[i] \in AttemptOutcomes,
             told' = [Settling(outcomes) EXCEPT !.result = said]
      PROVE  Len(told'.history) + Len(told'.pending) <= h + p + MaxItems
  <2> DEFINE s == Settling(outcomes)
  <2>1. told'.history = s.history /\ told'.pending = s.pending
    BY <1>1, <1>3 DEF Settling, ToldState
  <2>2. s.pending = <<>> /\ Len(s.history) = h + p
    BY <1>3, SettledCounts
  <2> HIDE DEF s
  <2>3. Len(told'.pending) = 0
    BY <2>1, <2>2
  <2>4. Len(told'.history) = h + p
    BY <2>1, <2>2, Zenon
  <2>5. h \in Nat /\ p \in Nat /\ MaxItems \in Nat
    BY <1>1
  <2> HIDE DEF h, p, same
  <2> QED BY <2>3, <2>4, <2>5, NoLonger, Zenon
<1>4. CASE \E event \in LifecycleEvents : step = LifecycleStep(event)
  <2>1. PICK event \in LifecycleEvents : step = LifecycleStep(event)
    BY <1>4
  <2>2. told' = ToldLifecycle(event)
    BY <1>1, <2>1 DEF ToldStep, LifecycleStep
  <2>3. same(told')
    BY <1>1, <2>2 DEF ToldLifecycle, ToldState, LifecycleEvents
  <2> QED BY <1>2, <2>3
<1>5. CASE \E safety \in {"readOnly", "potentiallyMutating"}, allow \in BOOLEAN,
              kind \in ErrorKinds, remaining \in {0, 1} :
             step = RetryStep(safety, allow, kind, remaining)
  <2>1. told' = ToldRetry(step)
    BY <1>1, <1>5 DEF ToldStep, RetryStep
  <2> DEFINE repeated == [i \in DOMAIN told.pending |-> "replayedUnknown"]
             permitted == /\ told.lifecycle # "closed" /\ step.remaining > 0
                          /\ step.kind \in {"timeout", "disconnected", "transport"}
                          /\ step.safety = "readOnly" \/ step.allow
  <2>2. told' = [(IF permitted /\ step.safety = "potentiallyMutating" THEN Settling(repeated) ELSE told)
                   EXCEPT !.result = Permitted(permitted)]
    BY <2>1 DEF ToldRetry
  <2>3. \A i \in DOMAIN told.pending : repeated[i] \in AttemptOutcomes
    BY DEF AttemptOutcomes
  <2> DEFINE said == Permitted(permitted)
  <2> HIDE DEF repeated, said
  <2>4. CASE permitted /\ step.safety = "potentiallyMutating"
    <3>1. told' = [Settling(repeated) EXCEPT !.result = said]
      BY <2>2, <2>4 DEF said
    <3> QED BY <1>3, <2>3, <3>1
  <2>5. CASE ~(permitted /\ step.safety = "potentiallyMutating")
    <3>1. told' = [told EXCEPT !.result = said]
      BY <2>2, <2>5 DEF said
    <3>2. same(told')
      BY <1>1, <3>1 DEF ToldState
    <3> QED BY <1>2, <3>2
  <2> QED BY <2>4, <2>5
<1>6. CASE \E reference \in References, locations \in Seq(MemoryRanges) :
             step = SendStep(reference, locations)
  <2>1. PICK reference \in References, locations \in Seq(MemoryRanges) :
           step = SendStep(reference, locations)
    BY <1>6
  <2>2. told' = ToldSend(step) /\ step.locations = locations /\ step.reference = reference
    BY <1>1, <2>1 DEF ToldStep, SendStep
  <2>3. CASE same(told')
    BY <1>2, <2>3
  <2>4. CASE ~same(told')
    <3>1. /\ Encodes(locations, TRUE) /\ told.pending = <<>>
          /\ told' = [told EXCEPT !.pending = locations, !.reference = reference, !.result = Ok]
      BY <1>1, <2>2, <2>4 DEF ToldSend, ToldState
    <3>2. Len(locations) <= MaxItems /\ Len(locations) \in Nat
      BY <3>1 DEF Encodes
    <3>3. told'.history = told.history /\ told'.pending = locations
      BY <1>1, <3>1 DEF ToldState
    <3>4. Len(told'.history) = h /\ Len(told'.pending) = Len(locations)
      BY <3>3
    <3>5. Len(told'.history) + Len(told'.pending) <= h + p + MaxItems
      <4> HIDE DEF h, p, same
      <4> QED BY <1>1, <3>2, <3>4
    <3> QED BY <3>5
  <2> QED BY <2>3, <2>4
<1>7. CASE \E reference \in References, count \in Nat, codes \in Seq({Success, 5}) :
             step = AcknowledgeStep(reference, count, codes)
  <2>1. PICK reference \in References, count \in Nat, codes \in Seq({Success, 5}) :
           step = AcknowledgeStep(reference, count, codes)
    BY <1>7
  <2>2. told' = ToldAcknowledge(step) /\ step.codes = codes
    BY <1>1, <2>1 DEF ToldStep, AcknowledgeStep
  <2> DEFINE outcomes == [i \in DOMAIN codes |-> ItemOutcome(codes[i])]
  <2>3. CASE told.lifecycle # "connected" \/ Len(codes) # Len(told.pending)
    <3>1. \/ told' = [told EXCEPT !.result = Reject("not-connected")]
          \/ told' = [told EXCEPT !.result = Reject("response-codec")]
      BY <2>2, <2>3 DEF ToldAcknowledge
    <3>2. same(told')
      BY <1>1, <3>1 DEF ToldState
    <3> QED BY <1>2, <3>2
  <2>4. CASE ~(told.lifecycle # "connected" \/ Len(codes) # Len(told.pending))
    <3>1. \/ told' = [told EXCEPT !.result = Reject("response-codec")]
          \/ told' = [Settling(outcomes) EXCEPT !.result = Ok]
      BY <2>2, <2>4, Zenon DEF ToldAcknowledge
    <3>2. CASE told' = [told EXCEPT !.result = Reject("response-codec")]
      <4>1. same(told')
        BY <1>1, <3>2 DEF ToldState
      <4> QED BY <1>2, <4>1
    <3>3. CASE told' = [Settling(outcomes) EXCEPT !.result = Ok]
      <4>1. \A i \in DOMAIN told.pending : outcomes[i] \in AttemptOutcomes
        <5>1. DOMAIN codes = DOMAIN told.pending
          BY <2>4, ToldParts
        <5> QED BY <5>1 DEF ItemOutcome, AttemptOutcomes
      <4> HIDE DEF outcomes
      <4> QED BY <1>3, <3>3, <4>1
    <3> QED BY <3>1, <3>2, <3>3
  <2> QED BY <2>3, <2>4
<1>8. CASE \E reference \in References, range \in MemoryRanges, size \in 0 .. MaxBytes :
             step = ReadStep(reference, range, size)
  <2>1. told' = ToldRead(step)
    BY <1>1, <1>8 DEF ToldStep, ReadStep
  <2>2. same(told')
    BY <1>1, <2>1 DEF ToldRead, ToldState
  <2> QED BY <1>2, <2>2
<1> HIDE DEF same
<1> QED BY <1>4, <1>5, <1>6, <1>7, <1>8 DEF IsStep

(* What each event of the scripts does.                                    *)
LEMMA ScriptSends ==
    ASSUME ConversationInv, NEW pair \in Writable,
           told.lifecycle = "connected", told.pending = <<>>,
           Hear(SendStep(0, pair))
    PROVE  /\ told'.lifecycle = "connected" /\ told'.history = told.history
           /\ told'.pending = pair
<1> DEFINE step == SendStep(0, pair)
<1>1. Encodes(pair, TRUE)
  BY PairsEncode
<1>2. told' = ToldSend(step) /\ step.locations = pair /\ step.reference = 0
  BY DEF Hear, ToldStep, SendStep
<1> HIDE DEF step
<1>3. told' = [told EXCEPT !.pending = pair, !.reference = 0, !.result = Ok]
  BY <1>1, <1>2 DEF ToldSend
<1>4. told \in ToldState
  BY ToldParts
<1> QED BY <1>3, <1>4 DEF ToldState

LEMMA ScriptLifecycle ==
    ASSUME ConversationInv, NEW event \in LifecycleEvents, Hear(LifecycleStep(event))
    PROVE  /\ told'.history = told.history /\ told'.pending = told.pending
           /\ event = "disconnect" => told'.lifecycle = "closed"
           /\ event = "transportClosed" /\ told.lifecycle = "connected" =>
                 told'.lifecycle = "disconnected"
           /\ event = "reconnected" /\ told.lifecycle = "closed" =>
                 told'.lifecycle = "closed" /\ told'.result = Reject("lifecycle-transition")
<1>1. told' = ToldLifecycle(event) /\ told \in ToldState
  BY ToldParts DEF Hear, ToldStep, LifecycleStep
<1> QED BY <1>1 DEF ToldLifecycle, ToldState, LifecycleEvents

LEMMA ScriptRefusesRetry ==
    ASSUME ConversationInv, Hear(RetryStep("potentiallyMutating", FALSE, "timeout", 1))
    PROVE  /\ told'.lifecycle = told.lifecycle /\ told'.history = told.history
           /\ told'.pending = told.pending /\ told'.result = Permitted(FALSE)
<1> DEFINE step == RetryStep("potentiallyMutating", FALSE, "timeout", 1)
           permitted == /\ told.lifecycle # "closed" /\ step.remaining > 0
                        /\ step.kind \in {"timeout", "disconnected", "transport"}
                        /\ step.safety = "readOnly" \/ step.allow
<1>1. told' = ToldRetry(step) /\ told \in ToldState
  BY ToldParts DEF Hear, ToldStep, RetryStep
<1>2. permitted = FALSE
  BY DEF RetryStep
<1>3. told' = [told EXCEPT !.result = Permitted(permitted)]
  BY <1>1, <1>2, Zenon DEF ToldRetry
<1> DEFINE said == Permitted(permitted)
<1>4. said = Permitted(FALSE)
  BY <1>2, Zenon
<1>5. told' = [told EXCEPT !.result = said]
  BY <1>3
<1> HIDE DEF said, permitted
<1>6. /\ told'.lifecycle = told.lifecycle /\ told'.history = told.history
      /\ told'.pending = told.pending /\ told'.result = said
  BY <1>1, <1>5 DEF ToldState
<1> QED BY <1>4, <1>6, Zenon

LEMMA ScriptRetries ==
    ASSUME ConversationInv, NEW pair \in Writable,
           told.lifecycle = "connected", told.history = <<>>, told.pending = pair,
           Hear(RetryStep("potentiallyMutating", TRUE, "timeout", 1))
    PROVE  /\ told'.lifecycle = "connected" /\ told'.pending = <<>>
           /\ told'.history = TwoAttempts(pair, "replayedUnknown")
<1> DEFINE step == RetryStep("potentiallyMutating", TRUE, "timeout", 1)
           permitted == /\ told.lifecycle # "closed" /\ step.remaining > 0
                        /\ step.kind \in {"timeout", "disconnected", "transport"}
                        /\ step.safety = "readOnly" \/ step.allow
           repeated == [i \in DOMAIN told.pending |-> "replayedUnknown"]
<1>1. told' = ToldRetry(step) /\ told \in ToldState
  BY ToldParts DEF Hear, ToldStep, RetryStep
<1>2. permitted /\ step.safety = "potentiallyMutating"
  BY DEF RetryStep
<1> DEFINE said == Permitted(permitted)
<1>3. told' = [Settling(repeated) EXCEPT !.result = said]
  BY <1>1, <1>2, Zenon DEF ToldRetry
<1>4. \A i \in DOMAIN told.pending : repeated[i] \in AttemptOutcomes
  BY DEF AttemptOutcomes
<1>5. DOMAIN pair = 1 .. 2 /\ told.pending = pair
  BY PairsEncode
<1>6. [i \in DOMAIN told.pending |-> [location |-> told.pending[i], outcome |-> repeated[i]]]
        = TwoAttempts(pair, "replayedUnknown")
  <2> QED BY <1>5 DEF TwoAttempts
<1> HIDE DEF said, permitted, repeated, step
<1> DEFINE s == Settling(repeated)
           more == TwoAttempts(pair, "replayedUnknown")
<1>7. /\ s.pending = <<>> /\ s.lifecycle = "connected" /\ s.history = told.history \o more
  BY <1>4, <1>6, SettledCounts
<1>8. told'.pending = s.pending /\ told'.lifecycle = s.lifecycle /\ told'.history = s.history
  BY <1>1, <1>3 DEF Settling, ToldState
<1>9. told.history \o more = more
  <2> DEFINE T == {more[i] : i \in 1 .. 2}
             two == 2
  <2>1. two \in Nat /\ \A i \in 1 .. two : more[i] \in T
    OBVIOUS
  <2>2. more = [i \in 1 .. two |-> more[i]]
    BY DEF TwoAttempts
  <2> HIDE DEF T, two, more
  <2>3. more \in [1 .. two -> T]
    BY <2>1, <2>2
  <2>4. more \in Seq(T)
    BY <2>1, <2>3
  <2> QED BY <2>4
<1> HIDE DEF s, more
<1> QED BY <1>7, <1>8, <1>9 DEF more

(* The scripts have two or three steps.                                    *)
WriteOf(pair) == SendStep(0, pair)
Closing           == LifecycleStep("transportClosed")
Leaving           == LifecycleStep("disconnect")
Returning         == LifecycleStep("reconnected")
ConservativeRetry == RetryStep("potentiallyMutating", FALSE, "timeout", 1)
PermittedRetry    == RetryStep("potentiallyMutating", TRUE, "timeout", 1)

StepAfter(name, pair, n, length, step) ==
    /\ name = "conservative" =>
          /\ length = 3 /\ n \in {0, 1, 2}
          /\ n = 0 => step = WriteOf(pair)
          /\ n = 1 => step = Closing
          /\ n = 2 => step = ConservativeRetry
    /\ name = "opt-in" =>
          /\ length = 2 /\ n \in {0, 1}
          /\ n = 0 => step = WriteOf(pair)
          /\ n = 1 => step = PermittedRetry
    /\ name = "resurrection" =>
          /\ length = 2 /\ n \in {0, 1}
          /\ n = 0 => step = Leaving
          /\ n = 1 => step = Returning

LEMMA StepsAre ==
    ASSUME NEW name \in Scripts, NEW pair
    PROVE  /\ name = "conservative" =>
                 ScriptSteps(name, pair)
                   = <<WriteOf(pair), Closing, ConservativeRetry>>
           /\ name = "opt-in" =>
                 ScriptSteps(name, pair) = <<WriteOf(pair), PermittedRetry>>
           /\ name = "resurrection" =>
                 ScriptSteps(name, pair) = <<Leaving, Returning>>
<1> DEFINE r == ScriptSteps(name, pair)
<1>1. name = "conservative" => r = <<WriteOf(pair), Closing, ConservativeRetry>>
  BY Zenon DEF ScriptSteps, WriteOf, Closing, ConservativeRetry
<1>2. name = "opt-in" => r = <<WriteOf(pair), PermittedRetry>>
  BY Zenon DEF ScriptSteps, WriteOf, PermittedRetry
<1>3. name = "resurrection" => r = <<Leaving, Returning>>
  BY Zenon DEF ScriptSteps, Leaving, Returning
<1> QED BY <1>1, <1>2, <1>3

LEMMA StepsOfScripts ==
    ASSUME NEW name \in Scripts, NEW pair, NEW n \in Nat,
           NEW steps, steps = ScriptSteps(name, pair), n < Len(steps)
    PROVE  StepAfter(name, pair, n, Len(steps), steps[n + 1])
<1>1. CASE name = "conservative"
  <2>1. steps = <<WriteOf(pair), Closing, ConservativeRetry>>
    BY <1>1, StepsAre
  <2>2. /\ Len(steps) = 3 /\ steps[1] = WriteOf(pair)
        /\ steps[2] = Closing /\ steps[3] = ConservativeRetry
    BY <2>1
  <2>3. n = 0 \/ n = 1 \/ n = 2
    BY <2>2
  <2>4. /\ n = 0 => steps[n + 1] = WriteOf(pair)
        /\ n = 1 => steps[n + 1] = Closing
        /\ n = 2 => steps[n + 1] = ConservativeRetry
    BY <2>2
  <2> QED BY <1>1, <2>2, <2>3, <2>4, Zenon DEF StepAfter
<1>2. CASE name = "opt-in"
  <2>1. steps = <<WriteOf(pair), PermittedRetry>>
    BY <1>2, StepsAre
  <2>2. /\ Len(steps) = 2 /\ steps[1] = WriteOf(pair) /\ steps[2] = PermittedRetry
    BY <2>1
  <2>3. n = 0 \/ n = 1
    BY <2>2
  <2>4. /\ n = 0 => steps[n + 1] = WriteOf(pair)
        /\ n = 1 => steps[n + 1] = PermittedRetry
    BY <2>2
  <2> QED BY <1>2, <2>2, <2>3, <2>4, Zenon DEF StepAfter
<1>3. CASE name = "resurrection"
  <2>1. steps = <<Leaving, Returning>>
    BY <1>3, StepsAre
  <2>2. Len(steps) = 2 /\ steps[1] = Leaving /\ steps[2] = Returning
    BY <2>1
  <2>3. n = 0 \/ n = 1
    BY <2>2
  <2>4. (n = 0 => steps[n + 1] = Leaving) /\ (n = 1 => steps[n + 1] = Returning)
    BY <2>2
  <2> QED BY <1>3, <2>2, <2>3, <2>4, Zenon DEF StepAfter
<1> QED BY <1>1, <1>2, <1>3 DEF Scripts

LEMMA ScriptInvInit == ConversationInit => ScriptInv
<1> SUFFICES ASSUME ConversationInit PROVE ScriptInv
  OBVIOUS
<1>1. /\ told.lifecycle = "connected" /\ told.history = <<>> /\ told.pending = <<>> /\ fed = 0
      /\ MaxEvents \in Nat /\ MaxItems \in Nat
  BY ConversationHistoriesAssumption DEF ConversationInit
<1>2. fed <= MaxEvents /\ Len(told.history) + Len(told.pending) <= MaxItems * fed
  <2>1. Len(<<>>) = 0 /\ MaxItems * 0 = 0
    BY <1>1
  <2> QED BY <1>1, <2>1
<1>3. ASSUME NEW name \in Scripts, NEW pair \in Writable,
             script = [name |-> name, steps |-> ScriptSteps(name, pair)]
      PROVE  ScriptStands(name, pair)
  <2>1. fed \in 0 .. Len(script.steps)
    <3> DEFINE a == SendStep(0, pair)
               b == LifecycleStep("transportClosed")
               c == RetryStep("potentiallyMutating", FALSE, "timeout", 1)
               d == RetryStep("potentiallyMutating", TRUE, "timeout", 1)
               e == LifecycleStep("disconnect")
               f == LifecycleStep("reconnected")
    <3>1. script.steps \in {<<a, b, c>>, <<a, d>>, <<e, f>>}
      BY <1>3 DEF ScriptSteps, Scripts
    <3> HIDE DEF a, b, c, d, e, f
    <3>2. Len(script.steps) \in {2, 3}
      BY <3>1
    <3> QED BY <1>1, <3>2
  <2> QED BY <1>1, <2>1 DEF ScriptStands
<1> QED BY <1>2, <1>3, Zenon DEF ScriptInv

LEMMA ScriptKept ==
    ASSUME ConversationInv, ScriptInv, HearScript,
           NEW name \in Scripts, NEW pair \in Writable,
           script = [name |-> name, steps |-> ScriptSteps(name, pair)]
    PROVE  ScriptStands(name, pair)'
<1> DEFINE steps == script.steps
<1>1. /\ fed \in Nat /\ fed < Len(steps) /\ Hear(steps[fed + 1])
      /\ steps = ScriptSteps(name, pair)
      /\ script' = script /\ fed' = fed + 1 /\ ScriptStands(name, pair)
  BY DEF HearScript, ConversationInv, ScriptInv, Hear
<1> HIDE DEF steps
<1>2. StepAfter(name, pair, fed, Len(steps), steps[fed + 1])
  BY <1>1, StepsOfScripts
<1>3. CASE name = "conservative"
  <2>1. /\ Len(steps) = 3 /\ fed \in {0, 1, 2}
        /\ fed = 0 => steps[fed + 1] = WriteOf(pair)
        /\ fed = 1 => steps[fed + 1] = Closing
        /\ fed = 2 => steps[fed + 1] = ConservativeRetry
    BY <1>1, <1>3, <1>2 DEF StepAfter
  <2>2. /\ fed = 0 => told.lifecycle = "connected" /\ told.history = <<>> /\ told.pending = <<>>
        /\ fed = 1 => told.lifecycle = "connected" /\ told.history = <<>> /\ told.pending = pair
        /\ fed = 2 => told.lifecycle = "disconnected" /\ told.history = <<>> /\ told.pending = pair
    BY <1>1, <1>3 DEF ScriptStands
  <2>3. /\ fed = 0 => told'.lifecycle = "connected" /\ told'.history = <<>> /\ told'.pending = pair
        /\ fed = 1 => told'.lifecycle = "disconnected" /\ told'.history = <<>> /\ told'.pending = pair
        /\ fed = 2 => /\ told'.lifecycle = "disconnected" /\ told'.history = <<>>
                      /\ told'.pending = pair /\ told'.result = Permitted(FALSE)
    <3>1. CASE fed = 0
      <4>1. Hear(SendStep(0, pair))
        BY <1>1, <2>1, <3>1, Zenon DEF WriteOf
      <4> QED BY <2>2, <3>1, <4>1, ScriptSends
    <3>2. CASE fed = 1
      <4>1. Hear(LifecycleStep("transportClosed")) /\ "transportClosed" \in LifecycleEvents
        BY <1>1, <2>1, <3>2 DEF LifecycleEvents, Closing, Returning
      <4> QED BY <2>2, <3>2, <4>1, ScriptLifecycle
    <3>3. CASE fed = 2
      <4>1. Hear(RetryStep("potentiallyMutating", FALSE, "timeout", 1))
        BY <1>1, <2>1, <3>3, Zenon DEF ConservativeRetry
      <4> QED BY <2>2, <3>3, <4>1, ScriptRefusesRetry, Zenon
    <3> QED BY <2>1, <3>1, <3>2, <3>3, Zenon
  <2>4. /\ fed' \in 0 .. Len(script'.steps) /\ fed' # 0 /\ (fed = 0 \/ fed = 1 \/ fed = 2)
        /\ fed' = 1 => fed = 0
        /\ fed' \in {2, 3} => fed' = 2 \/ fed' = 3
        /\ fed' = 2 => fed = 1
        /\ fed' = 3 => fed = 2
    BY <1>1, <2>1 DEF steps
  <2>5. /\ fed' = 1 => told'.lifecycle = "connected" /\ told'.history = <<>> /\ told'.pending = pair
        /\ fed' = 2 => told'.lifecycle = "disconnected" /\ told'.history = <<>> /\ told'.pending = pair
        /\ fed' = 3 => /\ told'.lifecycle = "disconnected" /\ told'.history = <<>>
                       /\ told'.pending = pair /\ told'.result = Permitted(FALSE)
    BY <2>3, <2>4, Zenon
  <2> QED BY <1>3, <2>4, <2>5, Zenon DEF ScriptStands
<1>4. CASE name = "opt-in"
  <2>1. /\ Len(steps) = 2 /\ fed \in {0, 1}
        /\ fed = 0 => steps[fed + 1] = WriteOf(pair)
        /\ fed = 1 => steps[fed + 1] = PermittedRetry
    BY <1>1, <1>4, <1>2 DEF StepAfter
  <2>2. /\ fed = 0 => told.lifecycle = "connected" /\ told.history = <<>> /\ told.pending = <<>>
        /\ fed = 1 => told.lifecycle = "connected" /\ told.history = <<>> /\ told.pending = pair
    BY <1>1, <1>4 DEF ScriptStands
  <2>3. /\ fed = 0 => told'.lifecycle = "connected" /\ told'.history = <<>> /\ told'.pending = pair
        /\ fed = 1 => /\ told'.lifecycle = "connected" /\ told'.pending = <<>>
                      /\ told'.history = TwoAttempts(pair, "replayedUnknown")
    <3>1. CASE fed = 0
      <4>1. Hear(SendStep(0, pair))
        BY <1>1, <2>1, <3>1, Zenon DEF WriteOf
      <4> QED BY <2>2, <3>1, <4>1, ScriptSends
    <3>2. CASE fed = 1
      <4>1. Hear(RetryStep("potentiallyMutating", TRUE, "timeout", 1))
        BY <1>1, <2>1, <3>2, Zenon DEF PermittedRetry
      <4>2. told.lifecycle = "connected" /\ told.history = <<>> /\ told.pending = pair
        BY <2>2, <3>2
      <4>3. /\ told'.lifecycle = "connected" /\ told'.pending = <<>>
            /\ told'.history = TwoAttempts(pair, "replayedUnknown")
        BY <4>1, <4>2, ScriptRetries, Zenon
      <4> QED BY <3>2, <4>3
    <3> QED BY <2>1, <3>1, <3>2, Zenon
  <2>4. fed' \in {1, 2} /\ Len(script'.steps) = 2 /\ fed' = fed + 1
    BY <1>1, <2>1 DEF steps
  <2>5. \A outcome : TwoAttempts(pair, outcome)' = TwoAttempts(pair, outcome)
    BY DEF TwoAttempts
  <2> QED BY <1>4, <2>1, <2>3, <2>4, <2>5 DEF ScriptStands
<1>5. CASE name = "resurrection"
  <2>1. /\ Len(steps) = 2 /\ fed \in {0, 1}
        /\ fed = 0 => steps[fed + 1] = Leaving
        /\ fed = 1 => steps[fed + 1] = Returning
    BY <1>1, <1>5, <1>2 DEF StepAfter
  <2>2. /\ told.history = <<>> /\ told.pending = <<>>
        /\ fed = 1 => told.lifecycle = "closed"
    BY <1>1, <1>5, <2>1 DEF ScriptStands
  <2>3. /\ told'.lifecycle = "closed" /\ told'.history = <<>> /\ told'.pending = <<>>
        /\ fed = 1 => told'.result = Reject("lifecycle-transition")
    <3>1. CASE fed = 0
      <4>1. Hear(LifecycleStep("disconnect")) /\ "disconnect" \in LifecycleEvents
        BY <1>1, <2>1, <3>1 DEF LifecycleEvents, Leaving
      <4> QED BY <2>2, <3>1, <4>1, ScriptLifecycle
    <3>2. CASE fed = 1
      <4>1. Hear(LifecycleStep("reconnected")) /\ "reconnected" \in LifecycleEvents
        BY <1>1, <2>1, <3>2 DEF LifecycleEvents, Closing, Returning
      <4> QED BY <2>2, <3>2, <4>1, ScriptLifecycle
    <3> QED BY <2>1, <3>1, <3>2
  <2>4. fed' \in {1, 2} /\ Len(script'.steps) = 2 /\ fed' = fed + 1
    BY <1>1, <2>1 DEF steps
  <2> QED BY <1>5, <2>1, <2>3, <2>4 DEF ScriptStands
<1> QED BY <1>3, <1>4, <1>5 DEF Scripts

LEMMA ScriptInvKept ==
    ASSUME ConversationInv, ScriptInv, [ConversationNext]_conversationVars
    PROVE  ScriptInv'
<1>1. CASE UNCHANGED conversationVars
  <2>1. told' = told /\ fed' = fed /\ script' = script
    BY <1>1 DEF conversationVars
  <2>2. ASSUME NEW name, NEW pair
        PROVE  ScriptStands(name, pair)' = ScriptStands(name, pair)
    BY <2>1, Zenon DEF ScriptStands, TwoAttempts
  <2>3. Writable' = Writable
    BY DEF Writable, MemoryRanges
  <2> QED BY <2>1, <2>2, <2>3 DEF ScriptInv
<1>2. ASSUME NEW name \in Scripts, NEW pair
      PROVE  NoScript # [name |-> name, steps |-> ScriptSteps(name, pair)]
  <2>1. NoScript.name = "none" /\ name # "none"
    BY DEF NoScript, Scripts
  <2> QED BY <2>1
<1>3. Writable' = Writable
  BY DEF Writable, MemoryRanges
<1>4. CASE HearAny
  <2>1. script = NoScript /\ fed < MaxEvents /\ \E step : Hear(step)
    BY <1>4 DEF HearAny
  <2>2. PICK step : IsStep(step) /\ Hear(step)
    BY <1>4, HeardSteps DEF ConversationNext
  <2>3. script' = NoScript /\ fed' = fed + 1
    BY <2>1, <2>2 DEF Hear
  <2> DEFINE a == Len(told.history) + Len(told.pending)
             b == Len(told'.history) + Len(told'.pending)
  <2>4. a \in Nat /\ fed \in Nat /\ MaxItems \in Nat /\ MaxEvents \in Nat /\ a <= MaxItems * fed
    <3>1. a \in Nat /\ fed \in Nat
      <4> DEFINE h == Len(told.history)
                 p == Len(told.pending)
      <4>1. h \in Nat /\ p \in Nat /\ fed \in Nat
        BY ToldParts, Zenon
      <4> HIDE DEF h, p
      <4>2. h + p \in Nat
        BY <4>1
      <4> QED BY <4>1, <4>2 DEF h, p
    <3>2. MaxItems \in Nat /\ MaxEvents \in Nat
      BY ConversationHistoriesAssumption
    <3>3. a <= MaxItems * fed
      BY <2>1, Zenon DEF ScriptInv
    <3> QED BY <3>1, <3>2, <3>3
  <2>5. b <= a + MaxItems
    BY <2>2, HeardCounts
  <2>6. b \in Nat
    <3>1. ConversationInv'
      BY <1>4, ConversationInvKept DEF ConversationNext
    <3>2. told' \in ToldState
      BY <3>1 DEF ConversationInv
    <3> QED BY <3>2 DEF ToldState
  <2> HIDE DEF a, b
  <2>7. fed' <= MaxEvents /\ b <= MaxItems * fed'
    <3>1. MaxItems * (fed + 1) = MaxItems * fed + MaxItems /\ MaxItems * fed \in Nat
      BY <2>4
    <3> DEFINE c == MaxItems * fed
               d == MaxItems * (fed + 1)
    <3> HIDE DEF c, d
    <3>2. b <= d
      BY <2>4, <2>5, <2>6, <3>1 DEF c, d
    <3>3. fed + 1 <= MaxEvents
      BY <2>1, <2>4
    <3> QED BY <2>3, <3>2, <3>3 DEF d
  <2> QED BY <1>2, <2>3, <2>7, Zenon DEF ScriptInv, b
<1>5. CASE HearScript
  <2>1. script' = script /\ script # NoScript
    BY <1>5 DEF HearScript, Hear
  <2>2. ASSUME NEW name \in Scripts, NEW pair \in Writable,
               script' = [name |-> name, steps |-> ScriptSteps(name, pair)]
        PROVE  ScriptStands(name, pair)'
    BY <1>5, <2>1, <2>2, ScriptKept
  <2> QED BY <1>3, <2>1, <2>2 DEF ScriptInv
<1> QED BY <1>1, <1>4, <1>5 DEF ConversationNext

-----------------------------------------------------------------------------
(* What a report may hold.                                                 *)
Reports == [location : MemoryRanges,
            outcome : {"pending", "replayedUnknown", "globalRejected", "success", "itemRejected"}]

LEMMA JoinedReports ==
    ASSUME NEW S, NEW a \in Seq(S), NEW b \in Seq(S)
    PROVE  /\ a \o b \in Seq(S) /\ Len(a \o b) = Len(a) + Len(b)
           /\ Len(a) \in Nat /\ Len(b) \in Nat
           /\ a = <<>> => a \o b = b
           /\ b = <<>> => a \o b = a
<1>1. a \o b \in Seq(S) /\ Len(a \o b) = Len(a) + Len(b) /\ Len(a) \in Nat /\ Len(b) \in Nat
  OBVIOUS
<1>2. (a = <<>> => a \o b = b) /\ (b = <<>> => a \o b = a)
  BY EmptySeq, ConcatProperties
<1> QED BY <1>1, <1>2

StillPending(pending) ==
    [i \in DOMAIN pending |-> [location |-> pending[i], outcome |-> "pending"]]

LEMMA PendingReports ==
    ASSUME NEW pending \in Seq(MemoryRanges)
    PROVE  StillPending(pending) \in Seq(Reports) /\ Len(StillPending(pending)) = Len(pending)
<1> DEFINE n == Len(pending)
<1>1. n \in Nat /\ DOMAIN pending = 1 .. n
  OBVIOUS
<1>2. StillPending(pending) \in [1 .. n -> Reports]
  <2>1. \A i \in 1 .. n : [location |-> pending[i], outcome |-> "pending"] \in Reports
    BY DEF Reports
  <2> QED BY <1>1, <2>1 DEF StillPending
<1> HIDE DEF n
<1>3. StillPending(pending) \in Seq(Reports) /\ Len(StillPending(pending)) = n
  BY <1>1, <1>2
<1> QED BY <1>3 DEF n

LEMMA ToldReports ==
    ASSUME ConversationInv
    PROVE  /\ ToldAttempts \in Seq(Reports)
           /\ Len(ToldAttempts) = Len(told.history) + Len(told.pending)
           /\ ToldAttempts = told.history \o StillPending(told.pending)
           /\ told.history = <<>> => ToldAttempts = StillPending(told.pending)
           /\ told.pending = <<>> => ToldAttempts = told.history
<1> DEFINE p == StillPending(told.pending)
           h == told.history
<1>1. p \in Seq(Reports) /\ Len(p) = Len(told.pending)
  BY ToldParts, PendingReports
<1>2. h \in Seq(Reports)
  <2>1. ItemAttempts \subseteq Reports
    BY DEF ItemAttempts, Reports, AttemptOutcomes
  <2>2. \A n \in Nat : [1 .. n -> ItemAttempts] \subseteq [1 .. n -> Reports]
    BY <2>1
  <2>3. h \in [1 .. Len(h) -> ItemAttempts] /\ Len(h) \in Nat
    BY ToldParts
  <2>4. h \in [1 .. Len(h) -> Reports]
    BY <2>2, <2>3
  <2> QED BY <2>3, <2>4
<1>3. ToldAttempts = h \o p
  BY DEF ToldAttempts, StillPending
<1>4. told.pending = <<>> => p = <<>>
  <2>1. Len(<<>>) = 0
    OBVIOUS
  <2>2. \A s \in Seq(Reports) : Len(s) = 0 => s = <<>>
    OBVIOUS
  <2> QED BY <1>1, <2>1, <2>2
<1> HIDE DEF h, p
<1>5. /\ h \o p \in Seq(Reports) /\ Len(h \o p) = Len(h) + Len(p)
      /\ h = <<>> => h \o p = p
      /\ p = <<>> => h \o p = h
  BY <1>1, <1>2, JoinedReports
<1> QED BY <1>1, <1>3, <1>4, <1>5 DEF h, p

LEMMA ResultsExpectable ==
    ASSUME NEW result \in Results
    PROVE  \/ result.status = "reject" /\ DOMAIN result = {"status", "category"}
           \/ /\ result.status = "accept"
              /\ \/ DOMAIN result = {"status", "permitted"} /\ result.permitted \in BOOLEAN
                 \/ DOMAIN result = {"status", "payload"} /\ result.payload \in 0 .. MaxBytes
                 \/ DOMAIN result = {"status"}
<1>1. CASE result = Ok
  BY <1>1 DEF Ok
<1>2. CASE \E answer \in BOOLEAN : result = Permitted(answer)
  <2>1. PICK answer \in BOOLEAN : result = Permitted(answer)
    BY <1>2
  <2>2. result = [status |-> "accept", permitted |-> answer]
    BY <2>1, Zenon DEF Permitted
  <2>3. /\ DOMAIN result = {"status", "permitted"} /\ result.status = "accept"
        /\ result.permitted = answer
    BY <2>2
  <2> QED BY <2>1, <2>3, Zenon
<1>3. CASE \E size \in 0 .. MaxBytes : result = Payload(size)
  BY <1>3 DEF Payload
<1>4. CASE \E category \in Categories : result = Reject(category)
  BY <1>4 DEF Reject
<1> QED BY <1>1, <1>2, <1>3, <1>4 DEF Results

LEMMA ScriptCounts ==
    ASSUME ConversationInv, ScriptInv
    PROVE  Len(told.history) + Len(told.pending) <= MaxItems * MaxEvents
<1> DEFINE h == Len(told.history)
           p == Len(told.pending)
<1>1. h \in Nat /\ p \in Nat /\ fed \in Nat
  BY ToldParts, Zenon
<1>2. MaxItems \in Nat \ {0} /\ MaxEvents \in Nat \ {0}
  BY ConversationHistoriesAssumption
<1>3. CASE script = NoScript
  <2>1. fed <= MaxEvents /\ h + p <= MaxItems * fed
    BY <1>3, Zenon DEF ScriptInv
  <2>2. MaxItems * fed <= MaxItems * MaxEvents /\ MaxItems * fed \in Nat /\ MaxItems * MaxEvents \in Nat
    <3>1. \A a, b, c \in Nat : b <= c => a * b <= a * c /\ a * b \in Nat /\ a * c \in Nat
      OBVIOUS
    <3> QED BY <1>1, <1>2, <2>1, <3>1
  <2> DEFINE c == MaxItems * fed
             d == MaxItems * MaxEvents
  <2> HIDE DEF h, p, c, d
  <2>3. h + p <= d
    BY <1>1, <2>1, <2>2 DEF c, d
  <2> QED BY <2>3 DEF h, p, d
<1>4. ASSUME NEW name \in Scripts, NEW pair \in Writable,
             script = [name |-> name, steps |-> ScriptSteps(name, pair)]
      PROVE  h + p <= MaxItems * MaxEvents
  <2>1. ScriptStands(name, pair)
    BY <1>4, Zenon DEF ScriptInv
  <2>2. h + p <= 2
    <3> DEFINE steps == script.steps
               two == TwoAttempts(pair, "replayedUnknown")
    <3>1. Len(pair) = 2 /\ Len(<<>>) = 0 /\ Len(two) = 2
      <4>1. Len(<<>>) = 0 /\ Len(two) = 2
        BY DEF TwoAttempts
      <4> QED BY <4>1, PairsEncode
    <3>2. /\ name = "conservative" => Len(steps) = 3
          /\ name = "opt-in" => Len(steps) = 2
          /\ name = "resurrection" => Len(steps) = 2
      <4>1. steps = ScriptSteps(name, pair)
        BY <1>4
      <4> HIDE DEF steps
      <4>2. CASE name = "conservative"
        BY <4>1, <4>2, StepsAre
      <4>3. CASE name = "opt-in"
        BY <4>1, <4>3, StepsAre
      <4>4. CASE name = "resurrection"
        BY <4>1, <4>4, StepsAre
      <4> QED BY <4>2, <4>3, <4>4, Zenon DEF Scripts
    <3>3. fed \in 0 .. Len(steps)
      BY <2>1, Zenon DEF ScriptStands
    <3> HIDE DEF steps
    <3>4. /\ name = "conservative" => fed = 0 \/ fed = 1 \/ fed \in {2, 3}
          /\ name = "opt-in" => fed = 0 \/ fed = 1 \/ fed = 2
          /\ name = "resurrection" => fed = 0 \/ fed \in {1, 2}
      <4>1. CASE name = "conservative"
        <5>1. fed \in 0 .. 3
          BY <3>2, <3>3, <4>1
        <5> QED BY <4>1, <5>1
      <4>2. CASE name = "opt-in"
        <5>1. fed \in 0 .. 2
          BY <3>2, <3>3, <4>2
        <5> QED BY <4>2, <5>1
      <4>3. CASE name = "resurrection"
        <5>1. fed \in 0 .. 2
          BY <3>2, <3>3, <4>3
        <5> QED BY <4>3, <5>1
      <4> QED BY <4>1, <4>2, <4>3, Zenon DEF Scripts
    <3>5. \/ told.history = <<>> /\ told.pending = <<>>
          \/ told.history = <<>> /\ told.pending = pair
          \/ told.history = two /\ told.pending = <<>>
      BY <2>1, <3>4, Zenon DEF ScriptStands, Scripts
    <3> HIDE DEF two
    <3>6. (h = 0 /\ p = 0) \/ (h = 0 /\ p = 2) \/ (h = 2 /\ p = 0)
      BY <3>1, <3>5, Zenon
    <3> HIDE DEF h, p
    <3> QED BY <3>6
  <2>3. 2 <= MaxItems * MaxEvents /\ MaxItems * MaxEvents \in Nat
    <3>1. \A a, b \in Nat \ {0} : 2 <= a => 2 <= a * b /\ a * b \in Nat
      <4>1. \A a, b \in Nat \ {0} : a <= a * b
        OBVIOUS
      <4> QED BY <4>1
    <3> QED BY <1>2, <3>1, PairsEncode
  <2> DEFINE d == MaxItems * MaxEvents
  <2> HIDE DEF h, p, d
  <2>4. h + p <= d
    BY <1>1, <2>2, <2>3 DEF d
  <2> QED BY <2>4 DEF d
<1>5. \/ script = NoScript
      \/ \E name \in Scripts, pair \in Writable :
            script = [name |-> name, steps |-> ScriptSteps(name, pair)]
  BY DEF ConversationInv, ScriptChoices
<1> HIDE DEF h, p
<1>6. h + p <= MaxItems * MaxEvents
  BY <1>3, <1>4, <1>5, Zenon DEF h, p
<1> QED BY <1>6 DEF h, p

LEMMA ScriptsEnd ==
    ASSUME ConversationInv, ScriptInv,
           NEW name \in Scripts, NEW pair \in Writable,
           script = [name |-> name, steps |-> ScriptSteps(name, pair)],
           fed = Len(script.steps)
    PROVE  ScriptEnds(script.name)
<1> DEFINE steps == script.steps
           unknown == TwoAttempts(pair, "replayedUnknown")
<1>1. ScriptStands(name, pair) /\ script.name = name
  BY Zenon DEF ScriptInv
<1>2. steps = ScriptSteps(name, pair)
  OBVIOUS
<1>3. DOMAIN pair = 1 .. 2 /\ DOMAIN unknown = 1 .. 2
  BY PairsEncode DEF TwoAttempts
<1>4. CASE name = "conservative"
  <2>1. Len(steps) = 3
    <3> HIDE DEF steps
    <3> QED BY <1>2, <1>4, StepsAre
  <2>2. told.history = <<>> /\ told.pending = pair /\ told.result = Permitted(FALSE)
    <3>1. fed = 3
      BY <2>1
    <3> QED BY <1>1, <1>4, <3>1, Zenon DEF ScriptStands
  <2>3. ToldAttempts = StillPending(pair)
    BY <2>2, ToldReports
  <2>4. [i \in DOMAIN ToldAttempts |-> ToldAttempts[i].outcome] = <<"pending", "pending">>
    <3>1. [i \in DOMAIN StillPending(pair) |-> StillPending(pair)[i].outcome]
            = [i \in 1 .. 2 |-> "pending"]
      BY <1>3, Zenon DEF StillPending
    <3>2. [i \in 1 .. 2 |-> "pending"] = <<"pending", "pending">>
      OBVIOUS
    <3> QED BY <2>3, <3>1, <3>2, Zenon
  <2> QED BY <1>1, <1>4, <2>2, <2>4, Zenon DEF ScriptEnds
<1>5. CASE name = "opt-in"
  <2>1. Len(steps) = 2
    <3> HIDE DEF steps
    <3> QED BY <1>2, <1>5, StepsAre
  <2>2. told.history = unknown /\ told.pending = <<>>
    <3>1. fed = 2
      BY <2>1
    <3> QED BY <1>1, <1>5, <3>1, Zenon DEF ScriptStands
  <2>3. ToldAttempts = unknown
    BY <2>2, ToldReports
  <2>4. [i \in DOMAIN ToldAttempts |-> ToldAttempts[i].outcome]
          = <<"replayedUnknown", "replayedUnknown">>
    <3>1. [i \in DOMAIN unknown |-> unknown[i].outcome] = [i \in 1 .. 2 |-> "replayedUnknown"]
      BY <1>3, Zenon DEF TwoAttempts
    <3>2. [i \in 1 .. 2 |-> "replayedUnknown"] = <<"replayedUnknown", "replayedUnknown">>
      OBVIOUS
    <3> QED BY <2>3, <3>1, <3>2, Zenon
  <2> QED BY <1>1, <1>5, <2>4, Zenon DEF ScriptEnds
<1>6. CASE name = "resurrection"
  <2>1. Len(steps) = 2
    <3> HIDE DEF steps
    <3> QED BY <1>2, <1>6, StepsAre
  <2>2. told.lifecycle = "closed" /\ told.result = Reject("lifecycle-transition")
    <3>1. fed = 2 /\ fed \in {1, 2}
      BY <2>1
    <3> QED BY <1>1, <1>6, <3>1, Zenon DEF ScriptStands
  <2> QED BY <1>1, <1>6, <2>2, Zenon DEF ScriptEnds
<1> QED BY <1>4, <1>5, <1>6, Zenon DEF Scripts

LEMMA ScriptInvSuffices ==
    ASSUME ConversationInv, ScriptInv
    PROVE  ConversationControls
<1>1. Expectable(told.lifecycle, ToldAttempts, told.result)
  <2>1. told.lifecycle \in {"connected", "disconnected", "closed"} /\ told.result \in Results
    BY ToldParts DEF ToldState, LifecycleStates
  <2>2. Len(ToldAttempts) <= MaxItems * MaxEvents
    <3>1. Len(ToldAttempts) = Len(told.history) + Len(told.pending)
      BY ToldReports
    <3>2. Len(told.history) + Len(told.pending) <= MaxItems * MaxEvents
      BY ScriptCounts
    <3> QED BY <3>1, <3>2, Zenon
  <2>3. ASSUME NEW i \in DOMAIN ToldAttempts
        PROVE  /\ ToldAttempts[i].location \in MemoryRanges
               /\ ToldAttempts[i].outcome \in
                    {"pending", "replayedUnknown", "globalRejected", "success", "itemRejected"}
    <3> DEFINE told1 == ToldAttempts
    <3>1. told1 \in Seq(Reports)
      BY ToldReports
    <3> HIDE DEF told1
    <3>2. \A k \in DOMAIN told1 : told1[k] \in Reports
      BY <3>1
    <3> QED BY <3>2 DEF told1, Reports
  <2> QED BY <2>1, <2>2, <2>3, ResultsExpectable, Zenon DEF Expectable
<1>2. ASSUME script # NoScript, fed = Len(script.steps)
      PROVE  ScriptEnds(script.name)
  <2>1. PICK name \in Scripts, pair \in Writable :
           script = [name |-> name, steps |-> ScriptSteps(name, pair)]
    BY <1>2 DEF ConversationInv, ScriptChoices
  <2> QED BY <1>2, <2>1, ScriptsEnd
<1> QED BY <1>1, <1>2, Zenon DEF ConversationControls

(* The controls of the self-test end as it expects, and validate() accepts *)
(* every step that the oracle tells of.                                    *)
THEOREM ConversationsEndAsExpected == ConversationSpec => []ConversationControls
<1>1. ConversationInit => ConversationInv /\ ScriptInv
  BY ConversationInvInit, ScriptInvInit
<1>2. ConversationInv /\ ScriptInv /\ [ConversationNext]_conversationVars
        => ConversationInv' /\ ScriptInv'
  BY ConversationInvKept, ScriptInvKept
<1>3. ConversationInv /\ ScriptInv => ConversationControls
  BY ScriptInvSuffices
<1> QED BY <1>1, <1>2, <1>3, PTL DEF ConversationSpec

-----------------------------------------------------------------------------
(* The controls of requests                                                *)

(* All there is to an account but its last answer.                         *)
Stands(o, lifecycle, phase, active, remaining, sends, history, pending) ==
    /\ o.lifecycle = lifecycle /\ o.phase = phase /\ o.active = active
    /\ o.remaining = remaining /\ o.sends = sends
    /\ o.history = history /\ o.pending = pending

(* What a send leaves unanswered, and the attempts of a write with one and *)
(* the same outcome.                                                       *)
Asked == IF config.write THEN config.locations ELSE <<>>
AllAttempted(outcome) ==
    [i \in 1 .. Width |-> [location |-> config.locations[i], outcome |-> outcome]]
Uncertain == AllAttempted("replayedUnknown")

(* The places that the controls come through.                              *)
Fresh(o) == Stands(o, "connected", "idle", NoReference, 0, 0, <<>>, <<>>)
Begun(o) == Stands(o, "connected", "ready", config.reference, config.budget, 0, <<>>, <<>>)
Awaiting(o) ==
    Stands(o, "connected", "awaiting", config.reference, config.budget, 1, <<>>, Asked)
GivenUp(o) == Stands(o, "disconnected", "failed", NoReference, config.budget, 1, <<>>, Asked)
Replaying(o, phase, remaining) ==
    Stands(o, "disconnected", phase, config.reference, remaining, 1, Uncertain, <<>>)

Retrying(o, remaining)  == Replaying(o, "reconnectCotp", remaining)
SettingUp(o, remaining) == Replaying(o, "reconnectSetup", remaining)
Exhausted(o) == Stands(o, "disconnected", "failed", NoReference, 0, 1, Uncertain, <<>>)
Resumed(o)   == Stands(o, "connected", "ready", config.reference, 1, 1, Uncertain, <<>>)
Resent(o) ==
    Stands(o, "connected", "awaiting", config.reference, 1, 2, Uncertain, config.locations)
Recovered(o) ==
    Stands(o, "connected", "completed", NoReference, 1, 2, Uncertain \o AllAttempted("success"), <<>>)
WasRead(o) ==
    Stands(o, "connected", "completed", NoReference, config.budget, 1, <<>>, <<>>)
ShutDown(o) == Stands(o, "closed", "closed", NoReference, 0, 0, <<>>, <<>>)

NotRetried(o)  == GivenUp(o) /\ o.result = Decided(FALSE)
NotAccepted(o) == GivenUp(o) /\ o.result = Rejected("response-codec")
NotRevived(o)  == ShutDown(o) /\ o.result = Rejected("reconnect-phase")
RejectedByPlc(o) ==
    /\ Stands(o, "disconnected", "failed", NoReference, config.budget, 1,
              AllAttempted("globalRejected"), <<>>)
    /\ o.result = Rejected("response-codec")

(* Where n events of a control lead to.                                    *)
Reached(name, n, o) ==
    /\ n = 0 => Fresh(o)
    /\ name # "closed" => (n = 1 => Begun(o)) /\ (n = 2 => Awaiting(o))
    /\ name = "exhausted" =>
          /\ n = 3 => Retrying(o, 1)
          /\ n = 4 => Retrying(o, 0)
          /\ n = 5 => SettingUp(o, 0)
          /\ n \in {6, 7, 8} => Exhausted(o)
    /\ name = "recovered" =>
          /\ n = 3 => Retrying(o, 1)
          /\ n = 4 => SettingUp(o, 1)
          /\ n = 5 => Resumed(o)
          /\ n = 6 => Resent(o)
          /\ n = 7 => Recovered(o)
    /\ name = "closed" => (n \in {1, 2} => ShutDown(o)) /\ (n = 3 => NotRevived(o))
    /\ n = 3 =>
          /\ name = "conservative" => NotRetried(o)
          /\ name \in {"wrong-reference", "wrong-count", "wrong-size"} => NotAccepted(o)
          /\ name = "global-reject" => RejectedByPlc(o)
          /\ name = "read" => WasRead(o)

(* A control has a configuration of its own, and stands where the events   *)
(* fed so far lead to.                                                     *)
ControlInv ==
    control # "none" =>
        /\ config \in ControlConfigurations(control)
        /\ done \in 0 .. Len(Control(control)) /\ Reached(control, done, oracle)

-----------------------------------------------------------------------------
(* One event of a control                                                  *)

LEMMA MovesTo ==
    ASSUME NEW o \in Account, NEW lifecycle \in LifecycleStates, NEW phase \in Phases,
           NEW active \in References \union {NoReference}, NEW remaining \in Nat,
           NEW result \in SessionResults, NEW x,
           x = [o EXCEPT !.lifecycle = lifecycle, !.phase = phase, !.active = active,
                         !.remaining = remaining, !.result = result]
    PROVE  /\ Stands(x, lifecycle, phase, active, remaining, o.sends, o.history, o.pending)
           /\ x.result = result
<1>1. Moved(x, o, lifecycle, phase, active, remaining, result)
  BY AccountMoves
<1> QED BY <1>1, Zenon DEF Moved, Stands

LEMMA RefusedStands ==
    ASSUME NEW o \in Account, NEW category \in Refusals,
           NEW lifecycle, NEW phase, NEW active, NEW remaining, NEW sends, NEW history, NEW pending,
           Stands(o, lifecycle, phase, active, remaining, sends, history, pending),
           NEW x, x = [o EXCEPT !.result = Rejected(category)]
    PROVE  Stands(x, lifecycle, phase, active, remaining, sends, history, pending)
<1> DEFINE r == Rejected(category)
<1>2. x = [o EXCEPT !.result = r]
  OBVIOUS
<1> HIDE DEF r
<1>1. /\ x.lifecycle = o.lifecycle /\ x.phase = o.phase /\ x.active = o.active
      /\ x.remaining = o.remaining /\ x.sends = o.sends /\ x.history = o.history
      /\ x.pending = o.pending
  BY <1>2 DEF Account
<1> QED BY <1>1, Zenon DEF Stands

LEMMA RefusedResult ==
    ASSUME NEW o \in Account, NEW category, NEW x, x = [o EXCEPT !.result = Rejected(category)]
    PROVE  x.result = Rejected(category)
<1> DEFINE r == Rejected(category)
<1>1. x = [o EXCEPT !.result = r]
  OBVIOUS
<1> HIDE DEF r
<1>2. x.result = r
  BY <1>1 DEF Account
<1> QED BY <1>2 DEF r

LEMMA BeginStands ==
    ASSUME config \in Configurations, NEW o \in Account, Fresh(o)
    PROVE  Begun(OracleTrace(o, Event("begin")))
<1> DEFINE none == <<>>
           accepted == Accepted
           a == config.reference
           r == config.budget
<1>1. o.lifecycle = "connected" /\ o.active = NoReference
  BY DEF Fresh, Stands
<1>2. OracleTrace(o, Event("begin"))
        = [OracleInit EXCEPT !.remaining = r, !.active = a, !.phase = "ready"]
  BY <1>1 DEF OracleTrace, OracleBegin, Event
<1> HIDE DEF a, r
<1>3. OracleTrace(o, Event("begin"))
        = [lifecycle |-> "connected", phase |-> "ready", remaining |-> r, sends |-> 0,
           active |-> a, history |-> none, pending |-> none, result |-> accepted]
  BY <1>2 DEF OracleInit
<1> DEFINE x == OracleTrace(o, Event("begin"))
<1> HIDE DEF x, none, accepted
<1>4. /\ x.lifecycle = "connected" /\ x.phase = "ready" /\ x.active = a /\ x.remaining = r
      /\ x.sends = 0 /\ x.history = none /\ x.pending = none
  BY <1>3 DEF x
<1> QED BY <1>4, Zenon DEF Begun, Stands, x, none, a, r

LEMMA BeginRefused ==
    ASSUME NEW o \in Account,
           NEW lifecycle, NEW phase, NEW active, NEW remaining, NEW sends, NEW history, NEW pending,
           Stands(o, lifecycle, phase, active, remaining, sends, history, pending),
           lifecycle # "connected"
    PROVE  Stands(OracleTrace(o, Event("begin")),
                  lifecycle, phase, active, remaining, sends, history, pending)
<1>1. OracleTrace(o, Event("begin")) = [o EXCEPT !.result = Rejected("not-connected")]
  BY DEF OracleTrace, OracleBegin, Event, Stands
<1>2. "not-connected" \in Refusals
  BY DEF Refusals
<1> QED BY <1>1, <1>2, RefusedStands, Zenon

LEMMA SendRefused ==
    ASSUME NEW o \in Account,
           NEW lifecycle, NEW phase, NEW active, NEW remaining, NEW sends, NEW history, NEW pending,
           Stands(o, lifecycle, phase, active, remaining, sends, history, pending),
           lifecycle # "connected"
    PROVE  Stands(OracleTrace(o, Event("send")),
                  lifecycle, phase, active, remaining, sends, history, pending)
<1>1. OracleTrace(o, Event("send")) = [o EXCEPT !.result = Rejected("send-phase")]
  BY DEF OracleTrace, OracleSend, Event, Stands
<1>2. "send-phase" \in Refusals
  BY DEF Refusals
<1> QED BY <1>1, <1>2, RefusedStands, Zenon

LEMMA ReconnectedRefused ==
    ASSUME NEW o \in Account,
           NEW lifecycle, NEW phase, NEW active, NEW remaining, NEW sends, NEW history, NEW pending,
           Stands(o, lifecycle, phase, active, remaining, sends, history, pending),
           active = NoReference
    PROVE  /\ Stands(OracleTrace(o, Event("reconnected")),
                     lifecycle, phase, active, remaining, sends, history, pending)
           /\ OracleTrace(o, Event("reconnected")).result = Rejected("reconnect-phase")
<1>1. OracleTrace(o, Event("reconnected")) = [o EXCEPT !.result = Rejected("reconnect-phase")]
  BY DEF OracleTrace, OracleReconnected, Event, Stands
<1>2. "reconnect-phase" \in Refusals
  BY DEF Refusals
<1> DEFINE x == OracleTrace(o, Event("reconnected"))
<1>3. Stands(x, lifecycle, phase, active, remaining, sends, history, pending)
  BY <1>1, <1>2, RefusedStands, Zenon
<1>4. x.result = Rejected("reconnect-phase")
  BY <1>1, RefusedResult, Zenon
<1> QED BY <1>3, <1>4, Zenon

LEMMA SendStands ==
    ASSUME config \in Configurations, NEW o \in Account, NEW remaining, NEW sends, NEW history,
           Stands(o, "connected", "ready", config.reference, remaining, sends, history, <<>>)
    PROVE  Stands(OracleTrace(o, Event("send")), "connected", "awaiting", config.reference,
                  remaining, sends + 1, history, Asked)
<1> DEFINE p == Asked
           n == sends + 1
           accepted == Accepted
           x == OracleTrace(o, Event("send"))
<1>1. /\ o.lifecycle = "connected" /\ o.active = config.reference /\ o.phase = "ready"
      /\ o.pending = <<>> /\ o.sends = sends /\ o.history = history /\ o.remaining = remaining
      /\ config.reference # NoReference
  BY ConfigTyped, Zenon DEF Stands
<1>2. x = [o EXCEPT !.pending = IF config.write THEN config.locations ELSE @,
                    !.sends = @ + 1, !.phase = "awaiting", !.result = Accepted]
  BY <1>1, Zenon DEF OracleTrace, OracleSend, Event
<1>3. p = IF config.write THEN config.locations ELSE o.pending
  BY <1>1, Zenon DEF Asked
<1>4. /\ p \in Seq(Ranges) /\ n \in Nat /\ "awaiting" \in Phases /\ accepted \in SessionResults
      /\ o.pending \in Seq(Ranges)
  BY <1>1, <1>3, ConfigTyped DEF Account, Phases, SessionResults
<1> HIDE DEF p
<1>5. x = [o EXCEPT !.pending = p, !.sends = n, !.phase = "awaiting", !.result = accepted]
  <2> DEFINE q == IF config.write THEN config.locations ELSE o.pending
  <2>1. x = [o EXCEPT !.pending = q, !.sends = n, !.phase = "awaiting", !.result = accepted]
    BY <1>1, <1>2 DEF Account
  <2>2. p = q
    BY <1>3
  <2> HIDE DEF q, n, accepted, x
  <2> QED BY <2>1, <2>2
<1> HIDE DEF n, accepted, x
<1>6. Attempted(x, o, p, n, "awaiting", accepted)
  BY <1>4, <1>5, AccountAttempts
<1> QED BY <1>1, <1>6, Zenon DEF Attempted, Stands, x, p, n

LEMMA SetupStands ==
    ASSUME config \in Configurations, NEW o \in Account, NEW remaining,
           Replaying(o, "reconnectCotp", remaining)
    PROVE  Replaying(OracleTrace(o, Event("reconnect-setup")), "reconnectSetup", remaining)
<1> DEFINE l == o.lifecycle
           a == o.active
           r == o.remaining
           x == OracleTrace(o, Event("reconnect-setup"))
<1>1. /\ o.active = config.reference /\ o.phase = "reconnectCotp"
      /\ config.reference # NoReference /\ l = "disconnected" /\ r = remaining
      /\ o.sends = 1 /\ o.history = Uncertain /\ o.pending = <<>>
  BY ConfigTyped, Zenon DEF Stands, Replaying
<1>2. x = [o EXCEPT !.phase = "reconnectSetup", !.result = Accepted]
  BY <1>1, Zenon DEF OracleTrace, OracleReconnectSetup, Event
<1>3. x = [o EXCEPT !.lifecycle = l, !.phase = "reconnectSetup", !.active = a,
                    !.remaining = r, !.result = Accepted]
  BY <1>2 DEF Account
<1>4. /\ l \in LifecycleStates /\ "reconnectSetup" \in Phases
      /\ a \in References \union {NoReference} /\ r \in Nat /\ Accepted \in SessionResults
  BY DEF Account, Phases, SessionResults
<1> HIDE DEF l, a, r, x
<1>5. Stands(x, l, "reconnectSetup", a, r, o.sends, o.history, o.pending)
  BY <1>3, <1>4, MovesTo
<1> QED BY <1>1, <1>5, Zenon DEF Replaying, Stands, l, a, r, x

LEMMA ReconnectedStands ==
    ASSUME config \in Configurations, NEW o \in Account, NEW remaining,
           Replaying(o, "reconnectSetup", remaining)
    PROVE  Stands(OracleTrace(o, Event("reconnected")), "connected", "ready", config.reference,
                  remaining, 1, Uncertain, <<>>)
<1> DEFINE a == o.active
           r == o.remaining
           x == OracleTrace(o, Event("reconnected"))
<1>1. /\ o.active = config.reference /\ o.phase = "reconnectSetup"
      /\ config.reference # NoReference /\ o.lifecycle = "disconnected" /\ r = remaining
      /\ o.sends = 1 /\ o.history = Uncertain /\ o.pending = <<>>
  BY ConfigTyped, Zenon DEF Stands, Replaying
<1>2. x = [o EXCEPT !.lifecycle = "connected", !.phase = "ready", !.result = Accepted]
  BY <1>1, Zenon DEF OracleTrace, OracleReconnected, Event
<1>3. x = [o EXCEPT !.lifecycle = "connected", !.phase = "ready", !.active = a,
                    !.remaining = r, !.result = Accepted]
  BY <1>2 DEF Account
<1>4. /\ "connected" \in LifecycleStates /\ "ready" \in Phases
      /\ a \in References \union {NoReference} /\ r \in Nat /\ Accepted \in SessionResults
  BY DEF Account, LifecycleStates, Phases, SessionResults
<1> HIDE DEF a, r, x
<1>5. Stands(x, "connected", "ready", a, r, o.sends, o.history, o.pending)
  BY <1>3, <1>4, MovesTo
<1> QED BY <1>1, <1>5, Zenon DEF Stands, a, r, x

LEMMA DisconnectStands ==
    ASSUME NEW o \in Account, Fresh(o)
    PROVE  Stands(OracleTrace(o, Event("disconnect")), "closed", "closed", NoReference,
                  0, 0, <<>>, <<>>)
<1> DEFINE none == NoReference
           r == o.remaining
           x == OracleTrace(o, Event("disconnect"))
<1>1. o.sends = 0 /\ o.history = <<>> /\ o.pending = <<>> /\ r = 0
  BY Zenon DEF Fresh, Stands
<1>2. x = [o EXCEPT !.lifecycle = "closed", !.phase = "closed", !.active = none,
                    !.remaining = r, !.result = Accepted]
  BY DEF OracleTrace, OracleDisconnect, Event, Account
<1>3. /\ "closed" \in LifecycleStates /\ "closed" \in Phases /\ r \in Nat
      /\ none \in References \union {NoReference} /\ Accepted \in SessionResults
  BY DEF Account, LifecycleStates, Phases, SessionResults
<1> HIDE DEF none, r, x
<1>4. Stands(x, "closed", "closed", none, r, o.sends, o.history, o.pending)
  BY <1>2, <1>3, MovesTo
<1> QED BY <1>1, <1>4, Zenon DEF Stands, none, r, x

-----------------------------------------------------------------------------
(* Failures and answers of a control                                       *)

LEMMA AllAttemptedAre ==
    ASSUME config \in Configurations, NEW outcomes, NEW outcome,
           \A i \in 1 .. Width : outcomes[i] = outcome
    PROVE  [i \in DOMAIN config.locations |->
              [location |-> config.locations[i], outcome |-> outcomes[i]]] = AllAttempted(outcome)
BY ConfigTyped DEF AllAttempted

(* What settling makes of the attempts of a write that awaits its answer.  *)
LEMMA SettledStands ==
    ASSUME config \in Configurations, NEW o \in Account, o.pending = config.locations,
           NEW outcome \in ItemResults \union {"replayedUnknown", "globalRejected"},
           NEW outcomes, \A i \in 1 .. Width : outcomes[i] = outcome
    PROVE  LET b == OracleFinish(o, outcomes)
           IN  /\ b \in Account
               /\ b.lifecycle = o.lifecycle /\ b.phase = o.phase /\ b.active = o.active
               /\ b.remaining = o.remaining /\ b.sends = o.sends /\ b.pending = <<>>
               /\ b.history = o.history \o AllAttempted(outcome)
               /\ o.history = <<>> => b.history = AllAttempted(outcome)
<1> DEFINE b == OracleFinish(o, outcomes)
           f == Settled(ModelOf(o).progress, outcomes)
<1>1. \A i \in DOMAIN o.pending : outcomes[i] = outcomes[i]
          /\ outcomes[i] \in ItemResults \union {"replayedUnknown", "globalRejected"}
  BY ConfigTyped
<1>2. Settlement(b, o, f, outcomes)
  BY <1>1, SettlingAgrees
<1> HIDE DEF b, f
<1>3. /\ b \in Account
      /\ b.lifecycle = o.lifecycle /\ b.phase = o.phase /\ b.active = o.active
      /\ b.remaining = o.remaining /\ b.sends = o.sends /\ b.pending = <<>>
      /\ b.history = SettledHistory(o, outcomes)
  BY <1>2, Zenon DEF Settlement, Alike
<1> DEFINE h == o.history
           all == AllAttempted(outcome)
<1>4. b.history = h \o all
  <2>1. SettledHistory(o, outcomes)
          = o.history \o [i \in DOMAIN config.locations |->
                            [location |-> config.locations[i], outcome |-> outcomes[i]]]
    BY DEF SettledHistory
  <2>2. [i \in DOMAIN config.locations |->
           [location |-> config.locations[i], outcome |-> outcomes[i]]] = all
    BY AllAttemptedAre
  <2> QED BY <1>3, <2>1, <2>2
<1>5. h = <<>> => h \o all = all
  <2>1. all \in Seq(SessionAttempt)
    <3> DEFINE n == Width
    <3>1. n \in Nat /\ all \in [1 .. n -> SessionAttempt]
      BY ConfigTyped DEF AllAttempted, SessionAttempt
    <3> HIDE DEF all, n
    <3> QED BY <3>1
  <2> HIDE DEF h, all
  <2> QED BY <2>1, ConcatEmptySeq
<1> HIDE DEF h, all
<1>6. b.history = h \o all /\ (h = <<>> => b.history = all)
  BY <1>4, <1>5
<1> QED BY <1>3, <1>6, Zenon DEF b, h, all

(* A failure that is followed by a retry.                                  *)
LEMMA RetriedAfter ==
    ASSUME NEW o \in Account, NEW kind \in {"timeout", "disconnected", "transport"},
           o.lifecycle # "closed", o.remaining > 0, config.write, config.allow,
           NEW b \in Account,
           b = IF o.phase = "awaiting" THEN OracleFinish(o, Everywhere("replayedUnknown")) ELSE o,
           b.active = o.active, b.remaining = o.remaining
    PROVE  Stands(OracleFail(o, kind), "disconnected", "reconnectCotp", o.active,
                  o.remaining - 1, b.sends, b.history, b.pending)
<1> DEFINE r == o.remaining - 1
           a == o.active
           yes == Decided(TRUE)
           x == OracleFail(o, kind)
<1>1. x = [b EXCEPT !.remaining = @ - 1, !.lifecycle = "disconnected",
                    !.phase = "reconnectCotp", !.result = yes]
  <2>1. x = [(IF config.write /\ o.phase = "awaiting"
              THEN OracleFinish(o, Everywhere("replayedUnknown")) ELSE o)
                EXCEPT !.remaining = @ - 1, !.lifecycle = "disconnected",
                       !.phase = "reconnectCotp", !.result = yes]
    BY Zenon DEF OracleFail
  <2>2. (IF config.write /\ o.phase = "awaiting"
         THEN OracleFinish(o, Everywhere("replayedUnknown")) ELSE o) = b
    BY Zenon
  <2> QED BY <2>1, <2>2, Zenon
<1>2. /\ "disconnected" \in LifecycleStates /\ "reconnectCotp" \in Phases /\ r \in Nat
      /\ a \in References \union {NoReference}
  BY DEF Account, LifecycleStates, Phases
<1>3. yes \in SessionResults
  BY Zenon DEF SessionResults
<1> HIDE DEF yes, x
<1>4. x = [b EXCEPT !.lifecycle = "disconnected", !.phase = "reconnectCotp", !.active = a,
                    !.remaining = r, !.result = yes]
  BY <1>1 DEF Account
<1> HIDE DEF r, a
<1>5. Stands(x, "disconnected", "reconnectCotp", a, r, b.sends, b.history, b.pending)
  BY <1>2, <1>3, <1>4, MovesTo
<1> QED BY <1>5 DEF x, r, a

(* A failure that ends the request.                                        *)
LEMMA EndedBy ==
    ASSUME NEW o \in Account, NEW kind \in ErrorKinds,
           ~(/\ o.lifecycle # "closed" /\ o.remaining > 0
             /\ kind \in {"timeout", "disconnected", "transport"}
             /\ ~config.write \/ config.allow),
           NEW b \in Account,
           b = IF config.write /\ kind = "plcRejected" /\ o.phase = "awaiting"
               THEN OracleFinish(o, Everywhere("globalRejected")) ELSE o
    PROVE  /\ Stands(OracleFail(o, kind), "disconnected", "failed", NoReference,
                     b.remaining, b.sends, b.history, b.pending)
           /\ OracleFail(o, kind).result = Decided(FALSE)
<1> DEFINE r == b.remaining
           none == NoReference
           no == Decided(FALSE)
           x == OracleFail(o, kind)
<1>1. x = [b EXCEPT !.lifecycle = "disconnected", !.phase = "failed",
                    !.active = none, !.result = no]
  BY Zenon DEF OracleFail
<1>2. /\ "disconnected" \in LifecycleStates /\ "failed" \in Phases /\ r \in Nat
      /\ none \in References \union {NoReference}
  BY DEF Account, LifecycleStates, Phases
<1>3. no \in SessionResults
  BY Zenon DEF SessionResults
<1> HIDE DEF no, x, none
<1>4. x = [b EXCEPT !.lifecycle = "disconnected", !.phase = "failed", !.active = none,
                    !.remaining = r, !.result = no]
  BY <1>1 DEF Account
<1> HIDE DEF r
<1>5. Stands(x, "disconnected", "failed", none, r, b.sends, b.history, b.pending)
  BY <1>2, <1>3, <1>4, MovesTo
<1>6. x.result = no
  BY <1>1 DEF Account
<1> QED BY <1>5, <1>6, Zenon DEF x, r, none, no

LEMMA FirstRetry ==
    ASSUME config \in Configurations, config.write, config.allow, NEW o \in Account,
           Awaiting(o), config.budget = 2
    PROVE  Replaying(OracleTrace(o, Timeout), "reconnectCotp", 1)
<1> DEFINE all == Everywhere("replayedUnknown")
           b == OracleFinish(o, all)
<1>1. /\ o.lifecycle = "connected" /\ o.phase = "awaiting" /\ o.active = config.reference
      /\ o.remaining = 2 /\ o.sends = 1 /\ o.history = <<>> /\ o.pending = config.locations
      /\ config.reference # NoReference
  BY ConfigTyped, Zenon DEF Awaiting, Stands, Asked
<1>2. \A i \in 1 .. Width : all[i] = "replayedUnknown"
  BY DEF Everywhere
<1> HIDE DEF all
<1>3. /\ b \in Account /\ b.active = o.active /\ b.remaining = o.remaining
      /\ b.sends = 1 /\ b.pending = <<>> /\ b.history = Uncertain
  <2>1. "replayedUnknown" \in ItemResults \union {"replayedUnknown", "globalRejected"}
    OBVIOUS
  <2>2. o.pending = config.locations /\ o.history = <<>>
    BY <1>1
  <2>3. /\ b \in Account /\ b.active = o.active /\ b.remaining = o.remaining
        /\ b.sends = o.sends /\ b.pending = <<>> /\ b.history = AllAttempted("replayedUnknown")
    BY <1>2, <2>1, <2>2, SettledStands, Zenon
  <2> HIDE DEF b
  <2> QED BY <1>1, <2>3, Zenon DEF Uncertain
<1>4. o.lifecycle # "closed" /\ o.remaining > 0 /\ o.remaining - 1 = 1
  BY <1>1
<1>5. OracleTrace(o, Timeout) = OracleFail(o, "timeout")
  BY <1>1, Zenon DEF OracleTrace, OracleFailure, Timeout, Failure
<1> DEFINE y == OracleFail(o, "timeout")
<1> HIDE DEF b
<1>6. b = IF o.phase = "awaiting" THEN OracleFinish(o, Everywhere("replayedUnknown")) ELSE o
  BY <1>1, Zenon DEF b, all
<1>7. "timeout" \in {"timeout", "disconnected", "transport"}
  OBVIOUS
<1>8. Stands(y, "disconnected", "reconnectCotp", o.active, o.remaining - 1, b.sends, b.history,
             b.pending)
  BY <1>3, <1>4, <1>6, <1>7, RetriedAfter, Zenon
<1>9. Stands(y, "disconnected", "reconnectCotp", config.reference, 1, 1, Uncertain, <<>>)
  BY <1>1, <1>3, <1>4, <1>8, Zenon
<1> QED BY <1>5, <1>9, Zenon DEF Replaying

LEMMA NextRetry ==
    ASSUME config \in Configurations, config.write, config.allow, NEW o \in Account,
           NEW phase \in {"reconnectCotp", "reconnectSetup"}, NEW remaining \in Nat \ {0},
           Replaying(o, phase, remaining)
    PROVE  Replaying(OracleTrace(o, Timeout), "reconnectCotp", remaining - 1)
<1>1. /\ o.lifecycle = "disconnected" /\ o.phase = phase /\ o.active = config.reference
      /\ o.remaining = remaining /\ o.sends = 1 /\ o.history = Uncertain /\ o.pending = <<>>
      /\ config.reference # NoReference /\ o.phase # "awaiting"
  BY ConfigTyped, Zenon DEF Replaying, Stands
<1>2. o.lifecycle # "closed" /\ o.remaining > 0
  BY <1>1
<1>3. OracleTrace(o, Timeout) = OracleFail(o, "timeout")
  BY <1>1, Zenon DEF OracleTrace, OracleFailure, Timeout, Failure
<1> DEFINE y == OracleFail(o, "timeout")
<1>4. o = IF o.phase = "awaiting" THEN OracleFinish(o, Everywhere("replayedUnknown")) ELSE o
  BY <1>1, Zenon
<1>5. "timeout" \in {"timeout", "disconnected", "transport"}
  OBVIOUS
<1>6. Stands(y, "disconnected", "reconnectCotp", o.active, o.remaining - 1, o.sends, o.history,
             o.pending)
  BY <1>2, <1>4, <1>5, RetriedAfter, Zenon
<1> QED BY <1>1, <1>3, <1>6, Zenon DEF Replaying

LEMMA LastRetry ==
    ASSUME config \in Configurations, NEW o \in Account, Replaying(o, "reconnectSetup", 0)
    PROVE  Stands(OracleTrace(o, Timeout), "disconnected", "failed", NoReference, 0, 1,
                  Uncertain, <<>>)
<1>1. /\ o.phase = "reconnectSetup" /\ o.active = config.reference
      /\ o.remaining = 0 /\ o.sends = 1 /\ o.history = Uncertain /\ o.pending = <<>>
      /\ config.reference # NoReference /\ o.phase # "awaiting"
  BY ConfigTyped, Zenon DEF Replaying, Stands
<1>2. ~(o.remaining > 0) /\ "timeout" \in ErrorKinds
  BY <1>1 DEF ErrorKinds
<1>3. OracleTrace(o, Timeout) = OracleFail(o, "timeout")
  BY <1>1, Zenon DEF OracleTrace, OracleFailure, Timeout, Failure
<1> DEFINE y == OracleFail(o, "timeout")
<1>4. o = IF config.write /\ "timeout" = "plcRejected" /\ o.phase = "awaiting"
          THEN OracleFinish(o, Everywhere("globalRejected")) ELSE o
  BY <1>1, Zenon
<1>5. Stands(y, "disconnected", "failed", NoReference, o.remaining, o.sends, o.history, o.pending)
  BY <1>2, <1>4, EndedBy, Zenon
<1> QED BY <1>1, <1>3, <1>5, Zenon

LEMMA ConservativeEnds ==
    ASSUME config \in Configurations, config.write, ~config.allow, NEW o \in Account, Awaiting(o)
    PROVE  /\ GivenUp(OracleTrace(o, Timeout))
           /\ OracleTrace(o, Timeout).result = Decided(FALSE)
<1>1. /\ o.phase = "awaiting" /\ o.active = config.reference /\ o.remaining = config.budget
      /\ o.sends = 1 /\ o.history = <<>> /\ o.pending = Asked
      /\ config.reference # NoReference
  BY ConfigTyped, Zenon DEF Awaiting, Stands
<1>2. "timeout" \in ErrorKinds /\ "timeout" # "plcRejected"
  BY DEF ErrorKinds
<1>3. OracleTrace(o, Timeout) = OracleFail(o, "timeout")
  BY <1>1, Zenon DEF OracleTrace, OracleFailure, Timeout, Failure
<1> DEFINE y == OracleFail(o, "timeout")
<1>4. o = IF config.write /\ "timeout" = "plcRejected" /\ o.phase = "awaiting"
          THEN OracleFinish(o, Everywhere("globalRejected")) ELSE o
  BY <1>2, Zenon
<1>5. /\ Stands(y, "disconnected", "failed", NoReference, o.remaining, o.sends, o.history, o.pending)
      /\ y.result = Decided(FALSE)
  BY <1>2, <1>4, EndedBy, Zenon
<1> QED BY <1>1, <1>3, <1>5, Zenon DEF GivenUp

(* An answer that is not one to the request, and one that refuses it.      *)
LEMMA AnswerRefused ==
    ASSUME config \in Configurations, NEW o \in Account, Awaiting(o), NEW pdu,
           OracleError(pdu) # "none", NEW y \in Account, y = OracleFail(o, OracleError(pdu))
    PROVE  /\ OracleTrace(o, Response(pdu)) = [y EXCEPT !.result = Rejected("response-codec")]
           /\ "response-codec" \in Refusals
<1>1. /\ o.lifecycle = "connected" /\ o.phase = "awaiting" /\ o.active # NoReference
  BY ConfigTyped, Zenon DEF Awaiting, Stands
<1>2. OracleTrace(o, Response(pdu)) = OracleResponse(o, pdu)
  BY Zenon DEF OracleTrace, Response
<1>3. OracleResponse(o, pdu) = [y EXCEPT !.result = Rejected("response-codec")]
  BY <1>1, Zenon DEF OracleResponse
<1>4. "response-codec" \in Refusals
  BY DEF Refusals
<1> QED BY <1>2, <1>3, <1>4, Zenon

LEMMA WrongAnswerEnds ==
    ASSUME config \in Configurations, NEW o \in Account, Good(o), Awaiting(o), NEW pdu,
           OracleError(pdu) = "protocol"
    PROVE  /\ GivenUp(OracleTrace(o, Response(pdu)))
           /\ OracleTrace(o, Response(pdu)).result = Rejected("response-codec")
<1>1. /\ o.phase = "awaiting" /\ o.remaining = config.budget
      /\ o.sends = 1 /\ o.history = <<>> /\ o.pending = Asked
  BY ConfigTyped, Zenon DEF Awaiting, Stands
<1>2. /\ "protocol" \in ErrorKinds /\ "protocol" # "plcRejected"
      /\ "protocol" \notin {"timeout", "disconnected", "transport"}
  BY DEF ErrorKinds
<1> DEFINE y == OracleFail(o, "protocol")
           e == Response(pdu)
<1>3. o = IF config.write /\ "protocol" = "plcRejected" /\ o.phase = "awaiting"
          THEN OracleFinish(o, Everywhere("globalRejected")) ELSE o
  BY <1>2, Zenon
<1>4. Stands(y, "disconnected", "failed", NoReference, o.remaining, o.sends, o.history, o.pending)
  BY <1>2, <1>3, EndedBy, Zenon
<1>5. y \in Account
  <2>1. o.phase \in {"awaiting", "reconnectCotp", "reconnectSetup"}
    BY <1>1
  <2> QED BY <1>2, <2>1, FailAgrees, Zenon DEF Keeps
<1>6. /\ OracleTrace(o, e) = [y EXCEPT !.result = Rejected("response-codec")]
      /\ "response-codec" \in Refusals
  <2>1. OracleError(pdu) # "none"
    OBVIOUS
  <2> QED BY <1>5, <2>1, AnswerRefused, Zenon
<1> HIDE DEF y, e
<1>7. /\ Stands(OracleTrace(o, e), "disconnected", "failed", NoReference, o.remaining, o.sends,
                o.history, o.pending)
      /\ OracleTrace(o, e).result = Rejected("response-codec")
  BY <1>4, <1>5, <1>6, RefusedStands, RefusedResult, Zenon
<1> QED BY <1>1, <1>7, Zenon DEF GivenUp, e

LEMMA RejectedAnswerEnds ==
    ASSUME config \in Configurations, config.write, NEW o \in Account, Good(o), Awaiting(o),
           NEW pdu, OracleError(pdu) = "plcRejected"
    PROVE  LET x == OracleTrace(o, Response(pdu))
           IN  /\ Stands(x, "disconnected", "failed", NoReference, config.budget, 1,
                         AllAttempted("globalRejected"), <<>>)
               /\ x.result = Rejected("response-codec")
<1>1. /\ o.phase = "awaiting" /\ o.remaining = config.budget
      /\ o.sends = 1 /\ o.history = <<>> /\ o.pending = config.locations
  BY ConfigTyped, Zenon DEF Awaiting, Stands, Asked
<1>2. /\ "plcRejected" \in ErrorKinds
      /\ "plcRejected" \notin {"timeout", "disconnected", "transport"}
  BY DEF ErrorKinds
<1> DEFINE y == OracleFail(o, "plcRejected")
           e == Response(pdu)
           all == Everywhere("globalRejected")
           b == OracleFinish(o, all)
<1>3. \A i \in 1 .. Width : all[i] = "globalRejected"
  BY DEF Everywhere
<1> HIDE DEF all
<1>4. /\ b \in Account /\ b.remaining = config.budget
      /\ b.sends = 1 /\ b.pending = <<>> /\ b.history = AllAttempted("globalRejected")
  <2>1. "globalRejected" \in ItemResults \union {"replayedUnknown", "globalRejected"}
    OBVIOUS
  <2> QED BY <1>1, <1>3, <2>1, SettledStands, Zenon
<1>5. b = IF config.write /\ "plcRejected" = "plcRejected" /\ o.phase = "awaiting"
          THEN OracleFinish(o, Everywhere("globalRejected")) ELSE o
  BY <1>1, Zenon DEF all
<1> HIDE DEF b
<1>6. Stands(y, "disconnected", "failed", NoReference, b.remaining, b.sends, b.history, b.pending)
  BY <1>2, <1>4, <1>5, EndedBy, Zenon
<1>7. y \in Account
  <2>1. o.phase \in {"awaiting", "reconnectCotp", "reconnectSetup"}
    BY <1>1
  <2> QED BY <1>2, <2>1, FailAgrees, Zenon DEF Keeps
<1>8. /\ OracleTrace(o, e) = [y EXCEPT !.result = Rejected("response-codec")]
      /\ "response-codec" \in Refusals
  <2>1. OracleError(pdu) # "none"
    OBVIOUS
  <2> QED BY <1>7, <2>1, AnswerRefused, Zenon
<1> HIDE DEF y, e
<1>9. /\ Stands(OracleTrace(o, e), "disconnected", "failed", NoReference, b.remaining, b.sends,
                b.history, b.pending)
      /\ OracleTrace(o, e).result = Rejected("response-codec")
  BY <1>6, <1>7, <1>8, RefusedStands, RefusedResult, Zenon
<1> QED BY <1>4, <1>9, Zenon DEF e

(* An answer that is accepted.                                             *)
LEMMA Completes ==
    ASSUME NEW o \in Account, NEW x,
           x = [o EXCEPT !.active = NoReference, !.phase = "completed", !.result = Accepted]
    PROVE  Stands(x, o.lifecycle, "completed", NoReference, o.remaining, o.sends, o.history,
                  o.pending)
<1> DEFINE none == NoReference
           accepted == Accepted
           l == o.lifecycle
           r == o.remaining
<1>1. x = [o EXCEPT !.lifecycle = l, !.phase = "completed", !.active = none,
                    !.remaining = r, !.result = accepted]
  <2>1. x = [o EXCEPT !.active = none, !.phase = "completed", !.result = accepted]
    OBVIOUS
  <2> HIDE DEF none, accepted
  <2> QED BY <2>1 DEF Account
<1>2. /\ l \in LifecycleStates /\ "completed" \in Phases /\ r \in Nat
      /\ none \in References \union {NoReference} /\ accepted \in SessionResults
  BY DEF Account, Phases, SessionResults
<1> HIDE DEF l, r, none, accepted
<1>3. Stands(x, l, "completed", none, r, o.sends, o.history, o.pending)
  BY <1>1, <1>2, MovesTo
<1> QED BY <1>3 DEF l, r, none

LEMMA WriteAnswered ==
    ASSUME config \in Configurations, config.write, NEW o \in Account,
           NEW remaining, NEW sends, NEW history,
           Stands(o, "connected", "awaiting", config.reference, remaining, sends, history,
                  config.locations),
           NEW pdu, OracleError(pdu) = "none",
           \A i \in 1 .. Width : Outcomes(pdu.data)[i] = "success"
    PROVE  Stands(OracleTrace(o, Response(pdu)), "connected", "completed", NoReference,
                  remaining, sends, history \o AllAttempted("success"), <<>>)
<1> DEFINE outcomes == Outcomes(pdu.data)
           b == OracleFinish(o, outcomes)
           x == OracleTrace(o, Response(pdu))
<1>1. /\ o.lifecycle = "connected" /\ o.phase = "awaiting" /\ o.active # NoReference
      /\ o.remaining = remaining /\ o.sends = sends /\ o.history = history
      /\ o.pending = config.locations
  BY ConfigTyped, Zenon DEF Stands
<1>2. x = [b EXCEPT !.active = NoReference, !.phase = "completed", !.result = Accepted]
  <2>1. x = OracleResponse(o, pdu)
    BY Zenon DEF OracleTrace, Response
  <2> QED BY <1>1, <2>1, Zenon DEF OracleResponse
<1> HIDE DEF outcomes
<1>3. /\ b \in Account
      /\ b.lifecycle = o.lifecycle /\ b.remaining = o.remaining /\ b.sends = o.sends
      /\ b.pending = <<>> /\ b.history = o.history \o AllAttempted("success")
  <2>1. "success" \in ItemResults \union {"replayedUnknown", "globalRejected"}
    BY DEF ItemResults
  <2>2. o.pending = config.locations /\ \A i \in 1 .. Width : outcomes[i] = "success"
    BY <1>1 DEF outcomes
  <2> QED BY <2>1, <2>2, SettledStands, Zenon
<1> HIDE DEF b, x
<1>4. Stands(x, b.lifecycle, "completed", NoReference, b.remaining, b.sends, b.history, b.pending)
  BY <1>2, <1>3, Completes, Zenon
<1> QED BY <1>1, <1>3, <1>4, Zenon DEF x

LEMMA ReadAnswered ==
    ASSUME config \in Configurations, ~config.write, NEW o \in Account, Awaiting(o),
           NEW pdu, OracleError(pdu) = "none"
    PROVE  Stands(OracleTrace(o, Response(pdu)), "connected", "completed", NoReference,
                  config.budget, 1, <<>>, <<>>)
<1> DEFINE x == OracleTrace(o, Response(pdu))
<1>1. /\ o.lifecycle = "connected" /\ o.phase = "awaiting" /\ o.active # NoReference
      /\ o.remaining = config.budget /\ o.sends = 1 /\ o.history = <<>>
      /\ o.pending = <<>>
  BY ConfigTyped, Zenon DEF Awaiting, Stands, Asked
<1>2. x = [o EXCEPT !.active = NoReference, !.phase = "completed", !.result = Accepted]
  <2>1. x = OracleResponse(o, pdu)
    BY Zenon DEF OracleTrace, Response
  <2> QED BY <1>1, <2>1, Zenon DEF OracleResponse
<1> HIDE DEF x
<1>3. Stands(x, o.lifecycle, "completed", NoReference, o.remaining, o.sends, o.history, o.pending)
  BY <1>2, Completes, Zenon
<1> QED BY <1>1, <1>3, Zenon DEF x

-----------------------------------------------------------------------------
(* The answers of the controls                                             *)

(* The data of the answer to a control, a write or the read of one item.   *)
AnsweredData == Answered.pdu.data

LEMMA AnsweredIs ==
    ASSUME config \in Configurations
    PROVE  /\ Answered = Response(Answered.pdu) /\ Answered.pdu = Reply(AnsweredData)
           /\ Answered.pdu \in Pdus /\ AnsweredData \in Seq(Nat)
<1> DEFINE data == FlattenSeq([item \in 1 .. Width |->
                      IF config.write THEN <<Success>>
                      ELSE ItemBytes(Success, 4, 8 * config.locations[item],
                                     config.locations[item], item = Width)])
<1>1. Answered = Response(Reply(data))
  BY DEF Answered
<1>2. PICK pdu \in Pdus : Answered = Response(pdu)
  BY AnsweredTyped
<1> HIDE DEF data
<1>3. Answered.pdu = Reply(data) /\ Answered.pdu = pdu
  BY <1>1, <1>2 DEF Response
<1>4. Reply(data).data = data
  BY DEF Reply
<1>5. pdu.data \in Seq(Nat)
  BY DEF Pdus
<1> QED BY <1>1, <1>2, <1>3, <1>4, <1>5, Zenon DEF AnsweredData

LEMMA WrittenData ==
    ASSUME config \in Configurations, config.write
    PROVE  /\ Len(AnsweredData) = Width /\ DOMAIN AnsweredData = 1 .. Width
           /\ \A i \in 1 .. Width : AnsweredData[i] = Success
<1> DEFINE n == Width
           s == [i \in 1 .. n |-> Success]
           parts == [item \in 1 .. n |-> <<Success>>]
<1>1. n \in Nat /\ s \in Seq(Nat) /\ Len(s) = n
  <2>1. n \in Nat /\ Success \in Nat
    BY ConfigTyped DEF Success
  <2>2. s \in [1 .. n -> Nat]
    BY <2>1
  <2> HIDE DEF n, s
  <2> QED BY <2>1, <2>2
<1>2. parts = [i \in 1 .. Len(s) |-> <<s[i]>>]
  BY <1>1
<1>3. FlattenSeq(parts) = s
  <2> HIDE DEF s, parts
  <2> QED BY <1>1, <1>2, FlattenSingles
<1>4. AnsweredData = FlattenSeq(parts)
  <2> DEFINE data == FlattenSeq([item \in 1 .. Width |->
                        IF config.write THEN <<Success>>
                        ELSE ItemBytes(Success, 4, 8 * config.locations[item],
                                       config.locations[item], item = Width)])
  <2>1. AnsweredData = data
    <3> HIDE DEF data
    <3>1. Reply(data).data = data /\ Response(Reply(data)).pdu = Reply(data)
      BY DEF Reply, Response
    <3> QED BY <3>1, Zenon DEF AnsweredData, Answered, data
  <2>2. data = FlattenSeq(parts)
    BY Zenon
  <2> QED BY <2>1, <2>2, Zenon
<1> QED BY <1>1, <1>3, <1>4

LEMMA ReadData ==
    ASSUME config \in Configurations, ~config.write, Width = 1
    PROVE  LET size == config.locations[1]
           IN  /\ Len(AnsweredData) = 3 + size /\ size \in {1, 2}
               /\ AnsweredData[1] = Success /\ AnsweredData[2] = 4 /\ AnsweredData[3] = 8 * size
<1> DEFINE size == config.locations[1]
           last == 1 = Width
           own == ItemBytes(Success, 4, 8 * size, size, last)
           item(i) == ItemBytes(Success, 4, 8 * config.locations[i], config.locations[i], i = Width)
           parts == [i \in 1 .. Width |-> item(i)]
<1>1. size \in {1, 2}
  BY ConfigTyped DEF Ranges
<1>2. own = <<Success, 4, 8 * size>> \o [i \in 1 .. size |-> 0]
  <2> DEFINE head == <<Success, 4, 8 * size>>
             body == [i \in 1 .. size |-> 0]
  <2>1. own = head \o body \o <<>>
    BY Zenon DEF ItemBytes
  <2>2. head \o body \in Seq(Nat)
    <3>1. head \in Seq(Nat) /\ body \in Seq(Nat)
      BY <1>1 DEF Success
    <3> HIDE DEF head, body
    <3> QED BY <3>1
  <2> HIDE DEF head, body
  <2> QED BY <2>1, <2>2, ConcatEmptySeq DEF head, body
<1>3. /\ own \in Seq(Nat) /\ Len(own) = 3 + size
      /\ own[1] = Success /\ own[2] = 4 /\ own[3] = 8 * size
  <2> DEFINE head == <<Success, 4, 8 * size>>
             body == [i \in 1 .. size |-> 0]
  <2>1. head \in Seq(Nat) /\ Len(head) = 3 /\ head[1] = Success /\ head[2] = 4 /\ head[3] = 8 * size
    BY <1>1 DEF Success
  <2>2. body \in Seq(Nat) /\ Len(body) = size
    BY <1>1
  <2>3. size \in Nat
    BY <1>1
  <2> HIDE DEF own, head, body, size
  <2>4. own = head \o body
    BY <1>2 DEF head, body
  <2>5. /\ own \in Seq(Nat) /\ Len(own) = 3 + size
        /\ own[1] = head[1] /\ own[2] = head[2] /\ own[3] = head[3]
    <3>1. /\ own \in Seq(Nat) /\ Len(own) = Len(head) + Len(body)
          /\ \A i \in 1 .. Len(head) + Len(body) :
                own[i] = IF i <= Len(head) THEN head[i] ELSE body[i - Len(head)]
      BY <2>1, <2>2, <2>4, ConcatProperties
    <3>2. {1, 2, 3} \subseteq 1 .. Len(head) + Len(body)
      BY <2>1, <2>2, <2>3
    <3> QED BY <2>1, <2>2, <3>1, <3>2
  <2> QED BY <2>1, <2>5
<1>4. parts \in [1 .. 1 -> Seq(Nat)] /\ parts[1] = own
  <2>1. parts = [i \in 1 .. 1 |-> item(i)] /\ item(1) = own
    OBVIOUS
  <2> HIDE DEF own, item, parts
  <2> QED BY <1>3, <2>1
<1>5. FlattenSeq(parts) = own
  <2> HIDE DEF parts, own
  <2>1. 1 \in Nat /\ 1 \in 1 .. 1 /\ \A i \in 1 .. 1 : i # 1 => parts[i] = <<>>
    OBVIOUS
  <2> QED BY <1>4, <2>1, FlattenOnly
<1>6. AnsweredData = FlattenSeq(parts)
  <2> DEFINE data == FlattenSeq([i \in 1 .. Width |-> IF config.write THEN <<Success>> ELSE item(i)])
  <2>1. AnsweredData = data
    <3> HIDE DEF data
    <3>1. Reply(data).data = data /\ Response(Reply(data)).pdu = Reply(data)
      BY DEF Reply, Response
    <3> QED BY <3>1, Zenon DEF AnsweredData, Answered, data
  <2>2. data = FlattenSeq(parts)
    BY Zenon
  <2> QED BY <2>1, <2>2, Zenon
<1> HIDE DEF own, parts
<1> QED BY <1>1, <1>3, <1>5, <1>6

(* What the oracle says of an answer.                                      *)
LEMMA OraclesError ==
    ASSUME NEW pdu, pdu.header, pdu.protocol, pdu.kind \in {2, 3}, pdu.sized
    PROVE  /\ pdu.reference # config.reference => OracleError(pdu) = "protocol"
           /\ pdu.reference = config.reference /\ pdu.error => OracleError(pdu) = "plcRejected"
           /\ (/\ pdu.reference = config.reference /\ ~pdu.error
               /\ pdu.parameters # <<IF config.write THEN 5 ELSE 4, Width>>) =>
                 OracleError(pdu) = "protocol"
           /\ pdu.reference = config.reference /\ ~pdu.error =>
                 IF /\ pdu.parameters = <<IF config.write THEN 5 ELSE 4, Width>>
                    /\ IF config.write THEN Len(pdu.data) = Width
                                       ELSE OracleItems(pdu.data) = Len(pdu.data)
                 THEN OracleError(pdu) = "none" ELSE OracleError(pdu) = "protocol"
<1> DEFINE counted == pdu.parameters = <<IF config.write THEN 5 ELSE 4, Width>>
           decoded == IF config.write THEN Len(pdu.data) = Width
                                      ELSE OracleItems(pdu.data) = Len(pdu.data)
           own == pdu.reference = config.reference
<1>1. ASSUME ~own PROVE OracleError(pdu) = "protocol"
  BY <1>1, Zenon DEF OracleError
<1>2. ASSUME own, pdu.error PROVE OracleError(pdu) = "plcRejected"
  BY <1>2, Zenon DEF OracleError
<1>3. ASSUME own, ~pdu.error, counted, decoded PROVE OracleError(pdu) = "none"
  BY <1>3, Zenon DEF OracleError
<1>4. ASSUME own, ~pdu.error, ~(counted /\ decoded) PROVE OracleError(pdu) = "protocol"
  BY <1>4, Zenon DEF OracleError
<1> HIDE DEF own, counted, decoded
<1>5. /\ ~own => OracleError(pdu) = "protocol"
      /\ own /\ pdu.error => OracleError(pdu) = "plcRejected"
      /\ own /\ ~pdu.error /\ ~counted => OracleError(pdu) = "protocol"
      /\ own /\ ~pdu.error =>
            IF counted /\ decoded THEN OracleError(pdu) = "none" ELSE OracleError(pdu) = "protocol"
  BY <1>1, <1>2, <1>3, <1>4, Zenon
<1> QED BY <1>5, Zenon DEF own, counted, decoded

LEMMA ReplyParts ==
    ASSUME NEW data
    PROVE  LET pdu == Reply(data)
           IN  /\ pdu.header /\ pdu.protocol /\ pdu.kind \in {2, 3} /\ pdu.sized /\ ~pdu.error
               /\ pdu.reference = config.reference /\ pdu.data = data
               /\ pdu.parameters = <<IF config.write THEN 5 ELSE 4, Width>>
<1> DEFINE yes == TRUE
           no == FALSE
           p == <<IF config.write THEN 5 ELSE 4, Width>>
           pdu == Reply(data)
<1>1. pdu = [header |-> yes, protocol |-> yes, kind |-> 3, reference |-> config.reference,
             sized |-> yes, error |-> no, parameters |-> p, data |-> data]
  BY DEF Reply
<1> HIDE DEF yes, no, p, pdu
<1>2. /\ pdu.header = yes /\ pdu.protocol = yes /\ pdu.kind = 3 /\ pdu.sized = yes
      /\ pdu.error = no /\ pdu.reference = config.reference /\ pdu.data = data
      /\ pdu.parameters = p
  BY <1>1
<1>3. pdu.kind \in {2, 3}
  BY <1>2
<1> QED BY <1>2, <1>3, Zenon DEF yes, no, p, pdu

LEMMA WriteAccepted ==
    ASSUME config \in Configurations, config.write
    PROVE  /\ OracleError(Answered.pdu) = "none"
           /\ \A i \in 1 .. Width : Outcomes(Answered.pdu.data)[i] = "success"
<1>1. Answered.pdu = Reply(AnsweredData)
  BY AnsweredIs
<1>2. OracleError(Reply(AnsweredData)) = "none"
  <2> DEFINE pdu == Reply(AnsweredData)
  <2>1. /\ pdu.header /\ pdu.protocol /\ pdu.kind \in {2, 3} /\ pdu.sized /\ ~pdu.error
        /\ pdu.reference = config.reference /\ pdu.data = AnsweredData
        /\ pdu.parameters = <<IF config.write THEN 5 ELSE 4, Width>>
    BY ReplyParts, Zenon
  <2> HIDE DEF pdu
  <2>2. Len(pdu.data) = Width
    BY <2>1, WrittenData
  <2> QED BY <2>1, <2>2, OraclesError, Zenon DEF pdu
<1>3. \A i \in 1 .. Width : Outcomes(AnsweredData)[i] = "success"
  BY WrittenData DEF Outcomes, ItemOutcome
<1> QED BY <1>1, <1>2, <1>3, Zenon DEF AnsweredData

(* The end of the one item of a read.                                      *)
LEMMA OneItem ==
    ASSUME config \in Configurations, Width = 1, NEW data \in Seq(Nat)
    PROVE  OracleItems(data) = OracleItem(data, 1, 0)
<1>1. PICK path \in [0 .. Width -> Offsets(data)] : OraclePath(data, path)
  BY OraclePathExists
<1>2. OracleItems(data) = path[Width]
  BY <1>1, OracleItemsFollow
<1>3. path[0] = 0 /\ path[1] = OracleItem(data, 1, path[1 - 1])
  BY <1>1 DEF OraclePath
<1> QED BY <1>2, <1>3

LEMMA ReadAccepted ==
    ASSUME config \in Configurations, ~config.write, Width = 1
    PROVE  OracleError(Answered.pdu) = "none"
<1> DEFINE pdu == Reply(AnsweredData)
           size == config.locations[1]
           data == AnsweredData
<1>1. Answered.pdu = pdu /\ data \in Seq(Nat)
  BY AnsweredIs
<1>2. /\ Len(data) = 3 + size /\ size \in {1, 2}
      /\ data[1] = Success /\ data[2] = 4 /\ data[3] = 8 * size
  BY ReadData, Zenon
<1> HIDE DEF data
<1>3. OracleItem(data, 1, 0) = Len(data)
  <2> DEFINE code == data[0 + 1]
             transport == data[0 + 2]
             length == data[0 + 3]
             bytes == IF transport = 9 THEN length ELSE length \div 8
             end == 0 + 3 + bytes
             padded == 1 < Width /\ bytes % 2 = 1
  <2>1. 0 # Malformed /\ ~(0 + 3 > Len(data))
    BY <1>2 DEF Malformed
  <2>2. code = Success /\ transport = 4 /\ length = 8 * size
    BY <1>2
  <2>3. bytes = size /\ length % 8 = 0
    BY <1>2, <2>2
  <2> HIDE DEF bytes
  <2>4. end = Len(data) /\ ~padded /\ ~(end > Len(data))
    BY <1>2, <2>3
  <2>5. ~(\/ transport # 9 /\ length % 8 # 0
          \/ end > Len(data)
          \/ padded /\ end = Len(data)
          \/ code = Success /\ (transport # 4 \/ bytes # config.locations[1]))
    BY <2>2, <2>3, <2>4
  <2>6. OracleItem(data, 1, 0)
          = IF \/ transport # 9 /\ length % 8 # 0
               \/ end > Len(data)
               \/ padded /\ end = Len(data)
               \/ code = Success /\ (transport # 4 \/ bytes # config.locations[1])
            THEN Malformed ELSE IF padded THEN end + 1 ELSE end
    BY <2>1, Zenon DEF OracleItem, bytes
  <2> QED BY <2>4, <2>5, <2>6, Zenon
<1>4. OracleItems(data) = Len(data)
  BY <1>1, <1>3, OneItem
<1>5. /\ pdu.header /\ pdu.protocol /\ pdu.kind \in {2, 3} /\ pdu.sized /\ ~pdu.error
      /\ pdu.reference = config.reference /\ pdu.data = AnsweredData
      /\ pdu.parameters = <<IF config.write THEN 5 ELSE 4, Width>>
  BY ReplyParts, Zenon
<1> HIDE DEF pdu
<1>6. OracleError(pdu) = "none"
  BY <1>4, <1>5, OraclesError, Zenon DEF data
<1> QED BY <1>1, <1>6

LEMMA AnsweredParts ==
    ASSUME config \in Configurations
    PROVE  /\ Answered.pdu.header /\ Answered.pdu.protocol /\ Answered.pdu.kind \in {2, 3}
           /\ Answered.pdu.sized /\ ~Answered.pdu.error
           /\ Answered.pdu.reference = config.reference /\ Answered.pdu.data = AnsweredData
           /\ Answered.pdu.parameters = <<IF config.write THEN 5 ELSE 4, Width>>
<1> DEFINE data == AnsweredData
           pdu == Reply(data)
<1>1. Answered.pdu = pdu
  BY AnsweredIs
<1>2. /\ pdu.header /\ pdu.protocol /\ pdu.kind \in {2, 3} /\ pdu.sized /\ ~pdu.error
      /\ pdu.reference = config.reference /\ pdu.data = data
      /\ pdu.parameters = <<IF config.write THEN 5 ELSE 4, Width>>
  BY ReplyParts, Zenon
<1> HIDE DEF pdu, data
<1> QED BY <1>1, <1>2, Zenon DEF data

(* The answers that are not what was asked for.                            *)
LEMMA WrongReference ==
    ASSUME config \in Configurations, ReferenceModulus # 1,
           NEW e, e = [Answered EXCEPT !.pdu.reference = (@ + 1) % ReferenceModulus]
    PROVE  e = Response(e.pdu) /\ OracleError(e.pdu) = "protocol"
<1> DEFINE pdu == Answered.pdu
           other == (pdu.reference + 1) % ReferenceModulus
           x == [pdu EXCEPT !.reference = other]
<1>1. Answered = Response(pdu) /\ pdu = Reply(AnsweredData) /\ pdu \in Pdus
  BY AnsweredIs
<1>2. e = Response(x) /\ e.pdu = x
  <2>1. e = [Response(pdu) EXCEPT !.pdu.reference = other]
    BY <1>1 DEF Response
  <2> HIDE DEF other, pdu
  <2> QED BY <2>1 DEF Response
<1>3. /\ pdu.header /\ pdu.protocol /\ pdu.kind \in {2, 3} /\ pdu.sized
      /\ pdu.reference = config.reference
  BY AnsweredParts, Zenon
<1>4. other # config.reference
  <2>1. /\ ReferenceModulus \in Nat \ {0, 1} /\ config.reference \in 0 .. ReferenceModulus - 1
    BY ConfigTyped, ReferenceModulusAssumption DEF References
  <2>2. \A m \in Nat \ {0, 1}, r \in Nat : r < m => (r + 1) % m # r
    <3> TAKE m \in Nat \ {0, 1}, r \in Nat
    <3> HAVE r < m
    <3>1. CASE r + 1 = m
      <4>1. (r + 1) % m = 0 /\ r # 0
        BY <3>1
      <4> QED BY <4>1
    <3>2. CASE r + 1 < m
      <4>1. (r + 1) % m = r + 1
        BY <3>2
      <4> QED BY <4>1
    <3> QED BY <3>1, <3>2
  <2> DEFINE r == config.reference
  <2>3. r \in Nat /\ r < ReferenceModulus /\ other = (r + 1) % ReferenceModulus
    BY <1>3, <2>1
  <2> HIDE DEF other, r
  <2>4. other # r
    BY <2>1, <2>2, <2>3
  <2> QED BY <2>4 DEF r
<1> HIDE DEF other, pdu
<1>5. x.header /\ x.protocol /\ x.kind \in {2, 3} /\ x.sized /\ x.reference = other
  <2>1. /\ x.header = pdu.header /\ x.protocol = pdu.protocol /\ x.kind = pdu.kind
        /\ x.sized = pdu.sized /\ x.reference = other
    BY <1>1 DEF Pdus
  <2> HIDE DEF x
  <2> QED BY <1>3, <2>1, Zenon
<1> HIDE DEF x
<1>6. OracleError(x) = "protocol"
  BY <1>4, <1>5, OraclesError, Zenon
<1> QED BY <1>2, <1>6

LEMMA WrongCount ==
    ASSUME config \in Configurations,
           NEW e, e = [Answered EXCEPT !.pdu.parameters[2] = @ + 1]
    PROVE  e = Response(e.pdu) /\ OracleError(e.pdu) = "protocol"
<1> DEFINE pdu == Answered.pdu
           count == pdu.parameters[2] + 1
           x == [pdu EXCEPT !.parameters[2] = count]
           asked == <<IF config.write THEN 5 ELSE 4, Width>>
<1>1. Answered = Response(pdu) /\ pdu = Reply(AnsweredData) /\ pdu \in Pdus
  BY AnsweredIs
<1>2. e = Response(x) /\ e.pdu = x
  <2>1. e = [Response(pdu) EXCEPT !.pdu.parameters[2] = count]
    BY <1>1 DEF Response
  <2> HIDE DEF count, pdu
  <2> QED BY <2>1 DEF Response
<1>3. /\ pdu.header /\ pdu.protocol /\ pdu.kind \in {2, 3} /\ pdu.sized /\ ~pdu.error
      /\ pdu.reference = config.reference /\ pdu.parameters = asked
  BY AnsweredParts, Zenon
<1>4. asked[2] = Width /\ DOMAIN asked = 1 .. 2 /\ Width \in Nat
  BY ConfigTyped
<1>5. /\ x.header = pdu.header /\ x.protocol = pdu.protocol /\ x.kind = pdu.kind
      /\ x.sized = pdu.sized /\ x.error = pdu.error /\ x.reference = pdu.reference
      /\ x.parameters[2] = count
  <2> HIDE DEF pdu, count, asked
  <2>1. pdu.parameters \in [1 .. 2 -> Int]
    BY <1>1 DEF Pdus
  <2> QED BY <1>1, <2>1 DEF Pdus
<1>6. x.parameters # asked
  <2>1. count = Width + 1
    BY <1>3, <1>4
  <2> HIDE DEF x, count, pdu, asked
  <2>2. x.parameters[2] # asked[2]
    BY <1>4, <1>5, <2>1
  <2> QED BY <2>2
<1> HIDE DEF x, pdu
<1>7. OracleError(x) = "protocol"
  BY <1>3, <1>5, <1>6, OraclesError, Zenon
<1> QED BY <1>2, <1>7

LEMMA GlobalRejection ==
    ASSUME config \in Configurations, NEW e, e = [Answered EXCEPT !.pdu.error = TRUE]
    PROVE  e = Response(e.pdu) /\ OracleError(e.pdu) = "plcRejected"
<1> DEFINE pdu == Answered.pdu
           yes == TRUE
           x == [pdu EXCEPT !.error = yes]
<1>1. Answered = Response(pdu) /\ pdu = Reply(AnsweredData) /\ pdu \in Pdus
  BY AnsweredIs
<1>2. e = [Answered EXCEPT !.pdu.error = yes]
  OBVIOUS
<1> HIDE DEF yes
<1>3. e = Response(x) /\ e.pdu = x
  <2> HIDE DEF pdu
  <2> QED BY <1>1, <1>2 DEF Response
<1>4. /\ pdu.header /\ pdu.protocol /\ pdu.kind \in {2, 3} /\ pdu.sized
      /\ pdu.reference = config.reference
  BY AnsweredParts, Zenon
<1> HIDE DEF pdu
<1>5. /\ x.header = pdu.header /\ x.protocol = pdu.protocol /\ x.kind = pdu.kind
      /\ x.sized = pdu.sized /\ x.error = yes /\ x.reference = pdu.reference
  BY <1>1 DEF Pdus
<1> HIDE DEF x
<1>6. OracleError(x) = "plcRejected"
  BY <1>4, <1>5, OraclesError, Zenon DEF yes
<1> QED BY <1>3, <1>6

LEMMA WiderItem ==
    ASSUME NEW size \in {1, 2}, NEW old \in Seq(Nat), Len(old) = 3 + size,
           old[1] = Success, old[2] = 4, NEW cell, cell = 8 * size + 8,
           NEW data, data = [old EXCEPT ![3] = cell]
    PROVE  /\ data \in Seq(Nat) /\ Len(data) = 3 + size
           /\ data[1] = Success /\ data[2] = 4 /\ data[3] = cell
<1> DEFINE n == 3 + size
<1>1. cell \in Nat
  OBVIOUS
<1>2. n \in Nat /\ {1, 2, 3} \subseteq 1 .. n /\ old \in [1 .. n -> Nat]
  OBVIOUS
<1> HIDE DEF n
<1>3. data \in [1 .. n -> Nat] /\ data[1] = Success /\ data[2] = 4 /\ data[3] = cell
  BY <1>1, <1>2
<1>4. data \in Seq(Nat) /\ Len(data) = n
  BY <1>2, <1>3
<1> QED BY <1>3, <1>4 DEF n

LEMMA WiderItemFails ==
    ASSUME config \in Configurations, Width = 1, config.locations[1] \in {1, 2},
           NEW data \in Seq(Nat), Len(data) = 3 + config.locations[1],
           data[1] = Success, data[2] = 4, data[3] = 8 * config.locations[1] + 8
    PROVE  OracleItems(data) # Len(data)
<1> DEFINE size == config.locations[1]
           code == data[0 + 1]
           transport == data[0 + 2]
           length == data[0 + 3]
           bytes == IF transport = 9 THEN length ELSE length \div 8
           end == 0 + 3 + bytes
           padded == 1 < Width /\ bytes % 2 = 1
<1>1. 0 # Malformed /\ ~(0 + 3 > Len(data))
  BY DEF Malformed
<1>2. code = Success /\ transport = 4 /\ length = 8 * size + 8
  OBVIOUS
<1>3. bytes = size + 1
  BY <1>2
<1> HIDE DEF bytes
<1>4. code = Success /\ (transport # 4 \/ bytes # config.locations[1])
  BY <1>2, <1>3
<1>5. OracleItem(data, 1, 0)
        = IF \/ transport # 9 /\ length % 8 # 0
             \/ end > Len(data)
             \/ padded /\ end = Len(data)
             \/ code = Success /\ (transport # 4 \/ bytes # config.locations[1])
          THEN Malformed ELSE IF padded THEN end + 1 ELSE end
  BY <1>1, Zenon DEF OracleItem, bytes
<1>6. OracleItem(data, 1, 0) = Malformed
  BY <1>4, <1>5, Zenon
<1>7. OracleItems(data) = Malformed
  BY <1>6, OneItem
<1> QED BY <1>7 DEF Malformed

LEMMA WrongSize ==
    ASSUME config \in Configurations, ~config.write, Width = 1,
           NEW e, e = [Answered EXCEPT !.pdu.data[3] = @ + 8]
    PROVE  e = Response(e.pdu) /\ OracleError(e.pdu) = "protocol"
<1> DEFINE pdu == Answered.pdu
           cell == pdu.data[3] + 8
           x == [pdu EXCEPT !.data[3] = cell]
           size == config.locations[1]
           data == [AnsweredData EXCEPT ![3] = cell]
<1>1. Answered = Response(pdu) /\ pdu = Reply(AnsweredData) /\ pdu \in Pdus
      /\ AnsweredData \in Seq(Nat)
  BY AnsweredIs
<1>2. e = Response(x) /\ e.pdu = x
  <2>1. e = [Response(pdu) EXCEPT !.pdu.data[3] = cell]
    BY <1>1 DEF Response
  <2> HIDE DEF cell, pdu
  <2> QED BY <2>1 DEF Response
<1>3. /\ pdu.header /\ pdu.protocol /\ pdu.kind \in {2, 3} /\ pdu.sized /\ ~pdu.error
      /\ pdu.reference = config.reference /\ pdu.data = AnsweredData
  BY AnsweredParts, Zenon
<1>4. /\ Len(AnsweredData) = 3 + size /\ size \in {1, 2}
      /\ AnsweredData[1] = Success /\ AnsweredData[2] = 4 /\ AnsweredData[3] = 8 * size
  BY ReadData, Zenon
<1>5. cell = 8 * size + 8
  BY <1>3, <1>4
<1>6. /\ data \in Seq(Nat) /\ Len(data) = 3 + size
      /\ data[1] = Success /\ data[2] = 4 /\ data[3] = cell
  <2> DEFINE old == AnsweredData
  <2>1. old \in Seq(Nat) /\ data = [old EXCEPT ![3] = cell]
    BY <1>1
  <2>2. size \in {1, 2} /\ Len(old) = 3 + size /\ old[1] = Success /\ old[2] = 4
    BY <1>4
  <2> HIDE DEF old, cell, data, size
  <2> QED BY <1>5, <2>1, <2>2, WiderItem
<1>7. /\ x.header = pdu.header /\ x.protocol = pdu.protocol /\ x.kind = pdu.kind
      /\ x.sized = pdu.sized /\ x.error = pdu.error /\ x.reference = pdu.reference
      /\ x.data = data
  <2>1. x.data = [pdu.data EXCEPT ![3] = cell]
    <3> HIDE DEF pdu, cell
    <3> QED BY <1>1 DEF Pdus
  <2>2. /\ x.header = pdu.header /\ x.protocol = pdu.protocol /\ x.kind = pdu.kind
        /\ x.sized = pdu.sized /\ x.error = pdu.error /\ x.reference = pdu.reference
    <3> HIDE DEF pdu, cell
    <3> QED BY <1>1 DEF Pdus
  <2> QED BY <1>3, <2>1, <2>2
<1> HIDE DEF data
<1>9. OracleItems(data) # Len(data)
  <2> HIDE DEF cell
  <2> QED BY <1>4, <1>5, <1>6, WiderItemFails, Zenon
<1> HIDE DEF x, pdu
<1>10. OracleError(x) = "protocol"
  BY <1>3, <1>7, <1>9, OraclesError, Zenon
<1> QED BY <1>2, <1>10

-----------------------------------------------------------------------------
(* The controls, event by event                                            *)

LEMMA JoinTwo ==
    ASSUME NEW S, NEW x \in Seq(S), NEW y \in Seq(S), NEW c, c = x \o y
    PROVE  /\ c \in Seq(S) /\ Len(c) = Len(x) + Len(y)
           /\ \A i \in 1 .. Len(x) : c[i] = x[i]
           /\ \A i \in 1 .. Len(y) : c[Len(x) + i] = y[i]
  OBVIOUS

LEMMA JoinThree ==
    ASSUME NEW S, NEW x \in Seq(S), NEW y \in Seq(S), NEW z \in Seq(S),
           NEW c, c = x \o y \o z
    PROVE  /\ c \in Seq(S) /\ Len(c) = Len(x) + Len(y) + Len(z)
           /\ \A i \in 1 .. Len(x) : c[i] = x[i]
           /\ \A i \in 1 .. Len(y) : c[Len(x) + i] = y[i]
           /\ \A i \in 1 .. Len(z) : c[Len(x) + Len(y) + i] = z[i]
<1> DEFINE u == x \o y
<1>1. /\ u \in Seq(S) /\ Len(u) = Len(x) + Len(y)
      /\ \A i \in 1 .. Len(x) : u[i] = x[i]
      /\ \A i \in 1 .. Len(y) : u[Len(x) + i] = y[i]
  OBVIOUS
<1>2. c = u \o z
  OBVIOUS
<1> HIDE DEF u
<1>3. /\ c \in Seq(S) /\ Len(c) = Len(u) + Len(z)
      /\ \A i \in 1 .. Len(u) : c[i] = u[i]
      /\ \A i \in 1 .. Len(z) : c[Len(u) + i] = z[i]
  <2>1. u \in Seq(S)
    BY <1>1
  <2> QED BY <1>2, <2>1, JoinTwo
<1>4. ASSUME NEW i \in 1 .. Len(x) PROVE c[i] = x[i]
  <2>1. i \in 1 .. Len(u) /\ u[i] = x[i]
    BY <1>1
  <2> QED BY <1>3, <2>1, Zenon
<1>5. ASSUME NEW i \in 1 .. Len(y) PROVE c[Len(x) + i] = y[i]
  <2>1. Len(x) + i \in 1 .. Len(u) /\ u[Len(x) + i] = y[i]
    BY <1>1
  <2> QED BY <1>3, <2>1, Zenon
<1>6. ASSUME NEW i \in 1 .. Len(z) PROVE c[Len(x) + Len(y) + i] = z[i]
  BY <1>1, <1>3, Zenon
<1> QED BY <1>1, <1>3, <1>4, <1>5, <1>6

LEMMA JoinFour ==
    ASSUME NEW S, NEW x \in Seq(S), NEW y \in Seq(S), NEW z \in Seq(S), NEW w \in Seq(S),
           NEW c, c = x \o y \o z \o w
    PROVE  /\ c \in Seq(S) /\ Len(c) = Len(x) + Len(y) + Len(z) + Len(w)
           /\ \A i \in 1 .. Len(x) : c[i] = x[i]
           /\ \A i \in 1 .. Len(y) : c[Len(x) + i] = y[i]
           /\ \A i \in 1 .. Len(z) : c[Len(x) + Len(y) + i] = z[i]
           /\ \A i \in 1 .. Len(w) : c[Len(x) + Len(y) + Len(z) + i] = w[i]
<1> DEFINE u == x \o y \o z
<1>1. /\ u \in Seq(S) /\ Len(u) = Len(x) + Len(y) + Len(z)
      /\ \A i \in 1 .. Len(x) : u[i] = x[i]
      /\ \A i \in 1 .. Len(y) : u[Len(x) + i] = y[i]
      /\ \A i \in 1 .. Len(z) : u[Len(x) + Len(y) + i] = z[i]
  BY JoinThree
<1>2. c = u \o w
  OBVIOUS
<1> HIDE DEF u
<1>3. /\ c \in Seq(S) /\ Len(c) = Len(u) + Len(w)
      /\ \A i \in 1 .. Len(u) : c[i] = u[i]
      /\ \A i \in 1 .. Len(w) : c[Len(u) + i] = w[i]
  <2>1. u \in Seq(S)
    BY <1>1
  <2> QED BY <1>2, <2>1, JoinTwo
<1>4. ASSUME NEW i \in 1 .. Len(x) PROVE c[i] = x[i]
  <2>1. i \in 1 .. Len(u) /\ u[i] = x[i]
    BY <1>1
  <2> QED BY <1>3, <2>1, Zenon
<1>5. ASSUME NEW i \in 1 .. Len(y) PROVE c[Len(x) + i] = y[i]
  <2>1. Len(x) + i \in 1 .. Len(u) /\ u[Len(x) + i] = y[i]
    BY <1>1
  <2> QED BY <1>3, <2>1, Zenon
<1>6. ASSUME NEW i \in 1 .. Len(z) PROVE c[Len(x) + Len(y) + i] = z[i]
  <2>1. Len(x) + Len(y) + i \in 1 .. Len(u) /\ u[Len(x) + Len(y) + i] = z[i]
    BY <1>1
  <2> QED BY <1>3, <2>1, Zenon
<1>7. ASSUME NEW i \in 1 .. Len(w) PROVE c[Len(x) + Len(y) + Len(z) + i] = w[i]
  BY <1>1, <1>3, Zenon
<1> QED BY <1>1, <1>3, <1>4, <1>5, <1>6, <1>7

LEMMA EightCells ==
    ASSUME NEW x, NEW y, NEW c, Len(x) = 2, Len(y) = 4,
           Len(c) = Len(x) + Len(y) + Len(x),
           \A i \in 1 .. Len(x) : c[i] = x[i],
           \A i \in 1 .. Len(y) : c[Len(x) + i] = y[i],
           \A i \in 1 .. Len(x) : c[Len(x) + Len(y) + i] = x[i]
    PROVE  /\ Len(c) = 8 /\ c[1] = x[1] /\ c[2] = x[2] /\ c[3] = y[1] /\ c[4] = y[2]
           /\ c[5] = y[3] /\ c[6] = y[4] /\ c[7] = x[1] /\ c[8] = x[2]
  OBVIOUS

LEMMA SevenCells ==
    ASSUME NEW x, NEW y, NEW z, NEW w, NEW c, Len(x) = 2, Len(y) = 1, Len(z) = 2, Len(w) = 2,
           Len(c) = Len(x) + Len(y) + Len(z) + Len(w),
           \A i \in 1 .. Len(x) : c[i] = x[i],
           \A i \in 1 .. Len(y) : c[Len(x) + i] = y[i],
           \A i \in 1 .. Len(z) : c[Len(x) + Len(y) + i] = z[i],
           \A i \in 1 .. Len(w) : c[Len(x) + Len(y) + Len(z) + i] = w[i]
    PROVE  /\ Len(c) = 7 /\ c[1] = x[1] /\ c[2] = x[2] /\ c[3] = y[1] /\ c[4] = z[1]
           /\ c[5] = z[2] /\ c[6] = w[1] /\ c[7] = w[2]
  OBVIOUS

EightFrom(c, x, y) ==
    Len(x) = 2 /\ Len(y) = 4 =>
        /\ Len(c) = 8 /\ c[1] = x[1] /\ c[2] = x[2] /\ c[3] = y[1] /\ c[4] = y[2]
        /\ c[5] = y[3] /\ c[6] = y[4] /\ c[7] = x[1] /\ c[8] = x[2]

LEMMA EightJoined ==
    ASSUME NEW S, NEW x \in Seq(S), NEW y \in Seq(S), NEW c, c = x \o y \o x
    PROVE  EightFrom(c, x, y)
<1>1. /\ Len(c) = Len(x) + Len(y) + Len(x)
      /\ \A i \in 1 .. Len(x) : c[i] = x[i]
      /\ \A i \in 1 .. Len(y) : c[Len(x) + i] = y[i]
      /\ \A i \in 1 .. Len(x) : c[Len(x) + Len(y) + i] = x[i]
  BY JoinThree
<1> QED BY <1>1, EightCells, SMTT(30) DEF EightFrom

SevenFrom(c, x, y, z, w) ==
    Len(x) = 2 /\ Len(y) = 1 /\ Len(z) = 2 /\ Len(w) = 2 =>
        /\ Len(c) = 7 /\ c[1] = x[1] /\ c[2] = x[2] /\ c[3] = y[1] /\ c[4] = z[1]
        /\ c[5] = z[2] /\ c[6] = w[1] /\ c[7] = w[2]

LEMMA SevenJoined ==
    ASSUME NEW S, NEW x \in Seq(S), NEW y \in Seq(S), NEW z \in Seq(S), NEW w \in Seq(S),
           NEW c, c = x \o y \o z \o w
    PROVE  SevenFrom(c, x, y, z, w)
<1>1. /\ Len(c) = Len(x) + Len(y) + Len(z) + Len(w)
      /\ \A i \in 1 .. Len(x) : c[i] = x[i]
      /\ \A i \in 1 .. Len(y) : c[Len(x) + i] = y[i]
      /\ \A i \in 1 .. Len(z) : c[Len(x) + Len(y) + i] = z[i]
      /\ \A i \in 1 .. Len(w) : c[Len(x) + Len(y) + Len(z) + i] = w[i]
  BY JoinFour
<1> QED BY <1>1, SevenCells, SMTT(30) DEF SevenFrom

LEMMA TwoAndOne ==
    ASSUME NEW b, NEW d, NEW a, NEW c, c = <<b, d>> \o <<a>> \/ c = Append(<<b, d>>, a)
    PROVE  Len(c) = 3 /\ c[1] = b /\ c[2] = d /\ c[3] = a
  OBVIOUS

LEMMA ExhaustedEvents ==
    LET c == Control("exhausted")
    IN  /\ Len(c) = 8 /\ c[1] = Event("begin") /\ c[2] = Event("send") /\ c[3] = Timeout
        /\ c[4] = Timeout /\ c[5] = Event("reconnect-setup") /\ c[6] = Timeout
        /\ c[7] = Event("begin") /\ c[8] = Event("send")
<1> DEFINE c == Control("exhausted")
           b == Event("begin")
           d == Event("send")
           t == Timeout
           s == Event("reconnect-setup")
           x == <<b, d>>
           y == <<t, t, s, t>>
           S == {b, d, t, s}
<1>1. c = x \o y \o x
  BY Zenon DEF Control, Started
<1> HIDE DEF c, b, d, t, s
<1>2. x \in Seq(S) /\ y \in Seq(S)
  OBVIOUS
<1>3. Len(x) = 2 /\ x[1] = b /\ x[2] = d
  OBVIOUS
<1>4. Len(y) = 4 /\ y[1] = t /\ y[2] = t /\ y[3] = s /\ y[4] = t
  OBVIOUS
<1> HIDE DEF x, y, S
<1>5. EightFrom(c, x, y)
  BY <1>1, <1>2, EightJoined, Zenon
<1> QED BY <1>3, <1>4, <1>5, Zenon DEF EightFrom, c, b, d, t, s

LEMMA RecoveredEvents ==
    LET c == Control("recovered")
    IN  /\ Len(c) = 7 /\ c[1] = Event("begin") /\ c[2] = Event("send") /\ c[3] = Timeout
        /\ c[4] = Event("reconnect-setup") /\ c[5] = Event("reconnected")
        /\ c[6] = Event("send") /\ c[7] = Answered
<1> DEFINE c == Control("recovered")
           b == Event("begin")
           d == Event("send")
           t == Timeout
           s == Event("reconnect-setup")
           r == Event("reconnected")
           a == Answered
           x == <<b, d>>
           y == <<t>>
           z == <<s, r>>
           w == <<d, a>>
           S == {b, d, t, s, r, a}
<1>1. c = x \o y \o z \o w
  BY Zenon DEF Control, Started, Reconnecting
<1> HIDE DEF c, b, d, t, s, r, a
<1>2. x \in Seq(S) /\ y \in Seq(S) /\ z \in Seq(S) /\ w \in Seq(S)
  OBVIOUS
<1>3. Len(x) = 2 /\ x[1] = b /\ x[2] = d /\ Len(y) = 1 /\ y[1] = t
  OBVIOUS
<1>4. Len(z) = 2 /\ z[1] = s /\ z[2] = r /\ Len(w) = 2 /\ w[1] = d /\ w[2] = a
  OBVIOUS
<1> HIDE DEF x, y, z, w, S
<1>5. SevenFrom(c, x, y, z, w)
  BY <1>1, <1>2, SevenJoined, Zenon
<1> QED BY <1>3, <1>4, <1>5, Zenon DEF SevenFrom, c, b, d, t, s, r, a

LEMMA ClosedEvents ==
    LET c == Control("closed")
    IN  /\ Len(c) = 3 /\ c[1] = Event("disconnect") /\ c[2] = Event("begin")
        /\ c[3] = Event("reconnected")
<1> DEFINE c == Control("closed")
           d == Event("disconnect")
           b == Event("begin")
           r == Event("reconnected")
<1>1. c = <<d, b, r>>
  BY Zenon DEF Control
<1> HIDE DEF c, b, d, r
<1>2. Len(c) = 3 /\ c[1] = d /\ c[2] = b /\ c[3] = r
  BY <1>1
<1> QED BY <1>2, Zenon DEF c, b, d, r

(* The last event of the other six, and that it is their third.            *)
LastEvent(name) ==
    CASE name = "conservative"    -> Timeout
      [] name = "wrong-reference" ->
            [Answered EXCEPT !.pdu.reference = (@ + 1) % ReferenceModulus]
      [] name = "wrong-count"     -> [Answered EXCEPT !.pdu.parameters[2] = @ + 1]
      [] name = "global-reject"   -> [Answered EXCEPT !.pdu.error = TRUE]
      [] name = "read"            -> Answered
      [] name = "wrong-size"      -> [Answered EXCEPT !.pdu.data[3] = @ + 8]

ShortControls ==
    {"conservative", "wrong-reference", "wrong-count", "global-reject", "read", "wrong-size"}

LEMMA ShortEvents ==
    ASSUME NEW name \in ShortControls
    PROVE  LET c == Control(name)
           IN  /\ Len(c) = 3 /\ c[1] = Event("begin") /\ c[2] = Event("send")
               /\ c[3] = LastEvent(name)
<1> DEFINE c == Control(name)
           b == Event("begin")
           d == Event("send")
           x == LastEvent(name)
<1>1. c = <<b, d>> \o <<x>> \/ c = Append(<<b, d>>, x)
  <2>1. CASE name = "conservative"
    BY <2>1, Zenon DEF Control, Started, LastEvent
  <2>2. CASE name = "wrong-reference"
    BY <2>2, Zenon DEF Control, Started, LastEvent
  <2>3. CASE name = "wrong-count"
    BY <2>3, Zenon DEF Control, Started, LastEvent
  <2>4. CASE name = "global-reject"
    BY <2>4, Zenon DEF Control, Started, LastEvent
  <2>5. CASE name = "read"
    BY <2>5, Zenon DEF Control, Started, LastEvent
  <2>6. CASE name = "wrong-size"
    BY <2>6, Zenon DEF Control, Started, LastEvent
  <2> QED BY <2>1, <2>2, <2>3, <2>4, <2>5, <2>6, Zenon DEF ShortControls
<1> HIDE DEF c, b, d, x
<1>2. Len(c) = 3 /\ c[1] = b /\ c[2] = d /\ c[3] = x
  BY <1>1, TwoAndOne
<1> QED BY <1>2, Zenon DEF c, b, d, x

LEMMA FirstSend ==
    ASSUME config \in Configurations, NEW o \in Account, Begun(o)
    PROVE  Awaiting(OracleTrace(o, Event("send")))
<1> DEFINE b == config.budget
           none == <<>>
           x == OracleTrace(o, Event("send"))
<1>1. Stands(o, "connected", "ready", config.reference, b, 0, none, <<>>)
  BY DEF Begun
<1> HIDE DEF b, none
<1>2. Stands(x, "connected", "awaiting", config.reference, b, 0 + 1, none, Asked)
  BY <1>1, SendStands, Zenon
<1>3. 0 + 1 = 1
  OBVIOUS
<1> QED BY <1>2, <1>3, Zenon DEF Awaiting, b, none

LEMMA NextSend ==
    ASSUME config \in Configurations, config.write, NEW o \in Account, Resumed(o)
    PROVE  Resent(OracleTrace(o, Event("send")))
<1> DEFINE x == OracleTrace(o, Event("send"))
<1>1. Stands(o, "connected", "ready", config.reference, 1, 1, Uncertain, <<>>)
  BY DEF Resumed
<1>2. Stands(x, "connected", "awaiting", config.reference, 1, 1 + 1, Uncertain, Asked)
  BY <1>1, SendStands, Zenon
<1>3. 1 + 1 = 2
  OBVIOUS
<1>4. Asked = config.locations
  BY DEF Asked
<1> QED BY <1>2, <1>3, <1>4, Zenon DEF Resent

LEMMA NothingMore ==
    ASSUME NEW o \in Account, Exhausted(o)
    PROVE  Exhausted(OracleTrace(o, Event("begin"))) /\ Exhausted(OracleTrace(o, Event("send")))
<1> DEFINE none == <<>>
           d == "disconnected"
           f == "failed"
<1>1. Stands(o, d, f, NoReference, 0, 1, Uncertain, none) /\ d # "connected"
  BY DEF Exhausted
<1> HIDE DEF none, d, f
<1>2. Stands(OracleTrace(o, Event("begin")), d, f, NoReference, 0, 1, Uncertain, none)
  BY <1>1, BeginRefused, Zenon
<1>3. Stands(OracleTrace(o, Event("send")), d, f, NoReference, 0, 1, Uncertain, none)
  BY <1>1, SendRefused, Zenon
<1> QED BY <1>2, <1>3, Zenon DEF Exhausted, none, d, f

LEMMA StaysShut ==
    ASSUME NEW o \in Account, ShutDown(o)
    PROVE  /\ ShutDown(OracleTrace(o, Event("begin")))
           /\ NotRevived(OracleTrace(o, Event("reconnected")))
<1> DEFINE none == <<>>
           c == "closed"
<1>1. Stands(o, c, c, NoReference, 0, 0, none, none) /\ c # "connected"
  BY DEF ShutDown
<1> HIDE DEF none, c
<1>2. Stands(OracleTrace(o, Event("begin")), c, c, NoReference, 0, 0, none, none)
  BY <1>1, BeginRefused, Zenon
<1>3. Stands(OracleTrace(o, Event("reconnected")), c, c, NoReference, 0, 0, none, none)
  BY <1>1, ReconnectedRefused, Zenon
<1>4. OracleTrace(o, Event("reconnected")).result = Rejected("reconnect-phase")
  BY <1>1, ReconnectedRefused, Zenon
<1> QED BY <1>2, <1>3, <1>4, Zenon DEF ShutDown, NotRevived, none, c

LEMMA ReplayAnswered ==
    ASSUME config \in Configurations, config.write, NEW o \in Account, Resent(o)
    PROVE  Recovered(OracleTrace(o, Answered))
<1> DEFINE x == OracleTrace(o, Answered)
<1>1. Stands(o, "connected", "awaiting", config.reference, 1, 2, Uncertain, config.locations)
  BY DEF Resent
<1>2. Answered = Response(Answered.pdu) /\ OracleError(Answered.pdu) = "none"
  BY AnsweredIs, WriteAccepted, Zenon
<1>3. \A i \in 1 .. Width : Outcomes(Answered.pdu.data)[i] = "success"
  BY WriteAccepted, Zenon
<1>4. Stands(x, "connected", "completed", NoReference, 1, 2, Uncertain \o AllAttempted("success"),
             <<>>)
  BY <1>1, <1>2, <1>3, WriteAnswered, Zenon
<1> QED BY <1>4, Zenon DEF Recovered

LEMMA Reconnects ==
    ASSUME config \in Configurations, NEW o \in Account
    PROVE  /\ Retrying(o, 0) => SettingUp(OracleTrace(o, Event("reconnect-setup")), 0)
           /\ Retrying(o, 1) => SettingUp(OracleTrace(o, Event("reconnect-setup")), 1)
           /\ SettingUp(o, 1) => Resumed(OracleTrace(o, Event("reconnected")))
<1>1. Retrying(o, 0) => SettingUp(OracleTrace(o, Event("reconnect-setup")), 0)
  BY SetupStands, Zenon DEF Retrying, SettingUp
<1>2. Retrying(o, 1) => SettingUp(OracleTrace(o, Event("reconnect-setup")), 1)
  BY SetupStands, Zenon DEF Retrying, SettingUp
<1>3. SettingUp(o, 1) => Resumed(OracleTrace(o, Event("reconnected")))
  BY ReconnectedStands, Zenon DEF SettingUp, Resumed
<1> QED BY <1>1, <1>2, <1>3, Zenon

LEMMA TimesOut ==
    ASSUME config \in Configurations, config.write, config.allow, config.budget = 2,
           NEW o \in Account
    PROVE  /\ Awaiting(o) => Retrying(OracleTrace(o, Timeout), 1)
           /\ Retrying(o, 1) => Retrying(OracleTrace(o, Timeout), 0)
           /\ SettingUp(o, 0) => Exhausted(OracleTrace(o, Timeout))
<1>1. Awaiting(o) => Retrying(OracleTrace(o, Timeout), 1)
  BY FirstRetry, Zenon DEF Retrying
<1>2. ASSUME Retrying(o, 1) PROVE Retrying(OracleTrace(o, Timeout), 0)
  <2>1. "reconnectCotp" \in {"reconnectCotp", "reconnectSetup"} /\ 1 \in Nat \ {0} /\ 1 - 1 = 0
    OBVIOUS
  <2>2. Replaying(o, "reconnectCotp", 1)
    BY <1>2, Zenon DEF Retrying
  <2>3. Replaying(OracleTrace(o, Timeout), "reconnectCotp", 1 - 1)
    BY <2>1, <2>2, NextRetry, Zenon
  <2> QED BY <2>1, <2>3, Zenon DEF Retrying
<1>3. SettingUp(o, 0) => Exhausted(OracleTrace(o, Timeout))
  BY LastRetry, Zenon DEF SettingUp, Exhausted
<1> QED BY <1>1, <1>2, <1>3, Zenon

LEMMA ControlOfWrite ==
    ASSUME NEW name, config \in ControlConfigurations(name), name \notin {"read", "wrong-size"}
    PROVE  /\ config \in Configurations /\ config.write /\ config.budget = 2
           /\ config.allow = (name \in {"exhausted", "recovered"})
  BY Zenon DEF ControlConfigurations

LEMMA ControlOfRead ==
    ASSUME NEW name, config \in ControlConfigurations(name), name \in {"read", "wrong-size"}
    PROVE  config \in Configurations /\ ~config.write /\ Width = 1
  BY Zenon DEF ControlConfigurations, Width

(* What the last event of a short control leads to.                        *)
Ended(name, o) ==
    /\ name = "conservative" => NotRetried(o)
    /\ name \in {"wrong-reference", "wrong-count", "wrong-size"} => NotAccepted(o)
    /\ name = "global-reject" => RejectedByPlc(o)
    /\ name = "read" => WasRead(o)

LEMMA ShortEnds ==
    ASSUME ReferenceModulus # 1, NEW name \in ShortControls, config \in ControlConfigurations(name),
           NEW o \in Account, Good(o), Awaiting(o)
    PROVE  Ended(name, OracleTrace(o, LastEvent(name)))
<1> DEFINE e == LastEvent(name)
           x == OracleTrace(o, e)
<1> SUFFICES Ended(name, x)
  OBVIOUS
<1>1. config \in Configurations
  BY DEF ControlConfigurations
<1>2. CASE name = "conservative"
  <2>1. /\ name \notin {"read", "wrong-size"} /\ name \notin {"exhausted", "recovered"}
        /\ e = Timeout
    BY <1>2, Zenon DEF LastEvent
  <2>3. config.write /\ ~config.allow
    BY <2>1, ControlOfWrite, Zenon
  <2>2. GivenUp(x) /\ x.result = Decided(FALSE)
    BY <1>1, <2>1, <2>3, ConservativeEnds, Zenon
  <2> QED BY <1>2, <2>2, Zenon DEF Ended, NotRetried
<1>3. CASE name \in {"wrong-reference", "wrong-count", "wrong-size"}
  <2>1. e = Response(e.pdu) /\ OracleError(e.pdu) = "protocol"
    <3>1. CASE name = "wrong-reference"
      <4>1. e = [Answered EXCEPT !.pdu.reference = (@ + 1) % ReferenceModulus]
        BY <3>1, Zenon DEF LastEvent
      <4> HIDE DEF e
      <4> QED BY <1>1, <4>1, WrongReference
    <3>2. CASE name = "wrong-count"
      <4>1. e = [Answered EXCEPT !.pdu.parameters[2] = @ + 1]
        BY <3>2, Zenon DEF LastEvent
      <4> HIDE DEF e
      <4> QED BY <1>1, <4>1, WrongCount
    <3>3. CASE name = "wrong-size"
      <4>1. e = [Answered EXCEPT !.pdu.data[3] = @ + 8]
        BY <3>3, Zenon DEF LastEvent
      <4>2. ~config.write /\ Width = 1
        BY <3>3, ControlOfRead, Zenon
      <4> HIDE DEF e
      <4> QED BY <1>1, <4>1, <4>2, WrongSize
    <3> QED BY <1>3, <3>1, <3>2, <3>3, Zenon
  <2>2. PICK pdu : e = Response(pdu) /\ OracleError(pdu) = "protocol"
    BY <2>1, Zenon
  <2> HIDE DEF e
  <2>3. GivenUp(x) /\ x.result = Rejected("response-codec")
    BY <1>1, <2>2, WrongAnswerEnds, Zenon
  <2> QED BY <1>3, <2>3, Zenon DEF Ended, NotAccepted
<1>4. CASE name = "global-reject"
  <2>1. e = [Answered EXCEPT !.pdu.error = TRUE]
    BY <1>4, Zenon DEF LastEvent
  <2>2. name \notin {"read", "wrong-size"}
    BY <1>4, Zenon
  <2>3. config.write
    BY <2>2, ControlOfWrite, Zenon
  <2> HIDE DEF e
  <2>4. PICK pdu : e = Response(pdu) /\ OracleError(pdu) = "plcRejected"
    BY <1>1, <2>1, GlobalRejection, Zenon
  <2>5. /\ Stands(x, "disconnected", "failed", NoReference, config.budget, 1,
                  AllAttempted("globalRejected"), <<>>)
        /\ x.result = Rejected("response-codec")
    BY <1>1, <2>3, <2>4, RejectedAnswerEnds, Zenon
  <2> QED BY <1>4, <2>5, Zenon DEF Ended, RejectedByPlc
<1>5. CASE name = "read"
  <2>1. e = Answered
    BY <1>5, Zenon DEF LastEvent
  <2>2. ~config.write /\ Width = 1
    BY <1>5, ControlOfRead, Zenon
  <2> HIDE DEF e
  <2>3. PICK pdu : e = Response(pdu) /\ OracleError(pdu) = "none"
    BY <1>1, <2>1, <2>2, ReadAccepted, AnsweredIs, Zenon
  <2>4. WasRead(x)
    BY <1>1, <2>2, <2>3, ReadAnswered, Zenon DEF WasRead
  <2> QED BY <1>5, <2>4, Zenon DEF Ended
<1> QED BY <1>2, <1>3, <1>4, <1>5, Zenon DEF ShortControls

LEMMA ShortReached ==
    ASSUME NEW name \in ShortControls, NEW o, Ended(name, o)
    PROVE  Reached(name, 3, o)
  BY DEF Ended, Reached, ShortControls

LEMMA ShortStep ==
    ASSUME ReferenceModulus # 1, NEW name \in ShortControls, config \in ControlConfigurations(name),
           NEW o \in Account, Good(o), NEW n \in 0 .. 2, Reached(name, n, o)
    PROVE  Reached(name, n + 1, OracleTrace(o, Control(name)[n + 1]))
<1> DEFINE x == OracleTrace(o, Control(name)[n + 1])
<1> SUFFICES Reached(name, n + 1, x)
  OBVIOUS
<1>1. config \in Configurations /\ name # "closed"
  BY DEF ControlConfigurations, ShortControls
<1>2. CASE n = 0
  <2>1. Fresh(o) /\ Control(name)[n + 1] = Event("begin")
    BY <1>2, ShortEvents DEF Reached
  <2>2. Begun(x)
    BY <1>1, <2>1, BeginStands, Zenon
  <2> HIDE DEF x
  <2> QED BY <1>2, <2>2 DEF Reached, ShortControls
<1>3. CASE n = 1
  <2>1. Begun(o)
    BY <1>1, <1>3 DEF Reached
  <2>2. Control(name)[n + 1] = Event("send")
    BY <1>3, ShortEvents
  <2>3. Awaiting(x)
    BY <1>1, <2>1, <2>2, FirstSend, Zenon
  <2> HIDE DEF x
  <2> QED BY <1>3, <2>3 DEF Reached, ShortControls
<1>4. CASE n = 2
  <2>1. Awaiting(o)
    BY <1>1, <1>4 DEF Reached
  <2>2. Control(name)[n + 1] = LastEvent(name)
    BY <1>4, ShortEvents
  <2>3. Ended(name, x)
    BY <2>1, <2>2, ShortEnds, Zenon
  <2>4. n + 1 = 3
    BY <1>4
  <2> HIDE DEF x
  <2> QED BY <2>3, <2>4, ShortReached, Zenon DEF x
<1> QED BY <1>2, <1>3, <1>4

LEMMA ExhaustedStep ==
    ASSUME config \in ControlConfigurations("exhausted"), NEW o \in Account,
           NEW n \in 0 .. 7, Reached("exhausted", n, o)
    PROVE  Reached("exhausted", n + 1, OracleTrace(o, Control("exhausted")[n + 1]))
<1> DEFINE x == OracleTrace(o, Control("exhausted")[n + 1])
<1> SUFFICES Reached("exhausted", n + 1, x)
  OBVIOUS
<1>1. config \in Configurations /\ config.write /\ config.allow /\ config.budget = 2
  <2>1. "exhausted" \notin {"read", "wrong-size"} /\ "exhausted" \in {"exhausted", "recovered"}
    OBVIOUS
  <2> QED BY <2>1, ControlOfWrite, Zenon
<1>2. CASE n = 0
  <2>1. Fresh(o)
    BY <1>2 DEF Reached
  <2>2. Control("exhausted")[n + 1] = Event("begin")
    BY <1>2, ExhaustedEvents
  <2>3. Begun(x)
    BY <1>1, <2>1, <2>2, BeginStands, Zenon
  <2> HIDE DEF x
  <2> QED BY <1>2, <2>3 DEF Reached
<1>3. CASE n = 1
  <2>1. Begun(o)
    BY <1>3 DEF Reached
  <2>2. Control("exhausted")[n + 1] = Event("send")
    BY <1>3, ExhaustedEvents
  <2>3. Awaiting(x)
    BY <1>1, <2>1, <2>2, FirstSend, Zenon
  <2> HIDE DEF x
  <2> QED BY <1>3, <2>3 DEF Reached
<1>4. CASE n = 2
  <2>1. Awaiting(o)
    BY <1>4 DEF Reached
  <2>2. Control("exhausted")[n + 1] = Timeout
    BY <1>4, ExhaustedEvents
  <2>3. Retrying(x, 1)
    BY <1>1, <2>1, <2>2, TimesOut, Zenon
  <2> HIDE DEF x
  <2> QED BY <1>4, <2>3 DEF Reached
<1>5. CASE n = 3
  <2>1. Retrying(o, 1)
    BY <1>5 DEF Reached
  <2>2. Control("exhausted")[n + 1] = Timeout
    BY <1>5, ExhaustedEvents
  <2>3. Retrying(x, 0)
    BY <1>1, <2>1, <2>2, TimesOut, Zenon
  <2> HIDE DEF x
  <2> QED BY <1>5, <2>3 DEF Reached
<1>6. CASE n = 4
  <2>1. Retrying(o, 0)
    BY <1>6 DEF Reached
  <2>2. Control("exhausted")[n + 1] = Event("reconnect-setup")
    BY <1>6, ExhaustedEvents
  <2>3. SettingUp(x, 0)
    BY <1>1, <2>1, <2>2, Reconnects, Zenon
  <2> HIDE DEF x
  <2> QED BY <1>6, <2>3 DEF Reached
<1>7. CASE n = 5
  <2>1. SettingUp(o, 0)
    BY <1>7 DEF Reached
  <2>2. Control("exhausted")[n + 1] = Timeout
    BY <1>7, ExhaustedEvents
  <2>3. Exhausted(x)
    BY <1>1, <2>1, <2>2, TimesOut, Zenon
  <2> HIDE DEF x
  <2> QED BY <1>7, <2>3 DEF Reached
<1>8. CASE n = 6
  <2>1. Exhausted(o)
    BY <1>8 DEF Reached
  <2>2. Control("exhausted")[n + 1] = Event("begin")
    BY <1>8, ExhaustedEvents
  <2>3. Exhausted(x)
    BY <1>1, <2>1, <2>2, NothingMore, Zenon
  <2> HIDE DEF x
  <2> QED BY <1>8, <2>3 DEF Reached
<1>9. CASE n = 7
  <2>1. Exhausted(o)
    BY <1>9 DEF Reached
  <2>2. Control("exhausted")[n + 1] = Event("send")
    BY <1>9, ExhaustedEvents
  <2>3. Exhausted(x)
    BY <1>1, <2>1, <2>2, NothingMore, Zenon
  <2> HIDE DEF x
  <2> QED BY <1>9, <2>3 DEF Reached
<1> QED BY <1>2, <1>3, <1>4, <1>5, <1>6, <1>7, <1>8, <1>9

LEMMA RecoveredStep ==
    ASSUME config \in ControlConfigurations("recovered"), NEW o \in Account,
           NEW n \in 0 .. 6, Reached("recovered", n, o)
    PROVE  Reached("recovered", n + 1, OracleTrace(o, Control("recovered")[n + 1]))
<1> DEFINE x == OracleTrace(o, Control("recovered")[n + 1])
<1> SUFFICES Reached("recovered", n + 1, x)
  OBVIOUS
<1>1. config \in Configurations /\ config.write /\ config.allow /\ config.budget = 2
  <2>1. "recovered" \notin {"read", "wrong-size"} /\ "recovered" \in {"exhausted", "recovered"}
    OBVIOUS
  <2> QED BY <2>1, ControlOfWrite, Zenon
<1>2. CASE n = 0
  <2>1. Fresh(o)
    BY <1>2 DEF Reached
  <2>2. Control("recovered")[n + 1] = Event("begin")
    BY <1>2, RecoveredEvents
  <2>3. Begun(x)
    BY <1>1, <2>1, <2>2, BeginStands, Zenon
  <2> HIDE DEF x
  <2> QED BY <1>2, <2>3 DEF Reached
<1>3. CASE n = 1
  <2>1. Begun(o)
    BY <1>3 DEF Reached
  <2>2. Control("recovered")[n + 1] = Event("send")
    BY <1>3, RecoveredEvents
  <2>3. Awaiting(x)
    BY <1>1, <2>1, <2>2, FirstSend, Zenon
  <2> HIDE DEF x
  <2> QED BY <1>3, <2>3 DEF Reached
<1>4. CASE n = 2
  <2>1. Awaiting(o)
    BY <1>4 DEF Reached
  <2>2. Control("recovered")[n + 1] = Timeout
    BY <1>4, RecoveredEvents
  <2>3. Retrying(x, 1)
    BY <1>1, <2>1, <2>2, TimesOut, Zenon
  <2> HIDE DEF x
  <2> QED BY <1>4, <2>3 DEF Reached
<1>5. CASE n = 3
  <2>1. Retrying(o, 1)
    BY <1>5 DEF Reached
  <2>2. Control("recovered")[n + 1] = Event("reconnect-setup")
    BY <1>5, RecoveredEvents
  <2>3. SettingUp(x, 1)
    BY <1>1, <2>1, <2>2, Reconnects, Zenon
  <2> HIDE DEF x
  <2> QED BY <1>5, <2>3 DEF Reached
<1>6. CASE n = 4
  <2>1. SettingUp(o, 1)
    BY <1>6 DEF Reached
  <2>2. Control("recovered")[n + 1] = Event("reconnected")
    BY <1>6, RecoveredEvents
  <2>3. Resumed(x)
    BY <1>1, <2>1, <2>2, Reconnects, Zenon
  <2> HIDE DEF x
  <2> QED BY <1>6, <2>3 DEF Reached
<1>7. CASE n = 5
  <2>1. Resumed(o)
    BY <1>7 DEF Reached
  <2>2. Control("recovered")[n + 1] = Event("send")
    BY <1>7, RecoveredEvents
  <2>3. Resent(x)
    BY <1>1, <2>1, <2>2, NextSend, Zenon
  <2> HIDE DEF x
  <2> QED BY <1>7, <2>3 DEF Reached
<1>8. CASE n = 6
  <2>1. Resent(o)
    BY <1>8 DEF Reached
  <2>2. Control("recovered")[n + 1] = Answered
    BY <1>8, RecoveredEvents
  <2>3. Recovered(x)
    BY <1>1, <2>1, <2>2, ReplayAnswered, Zenon
  <2> HIDE DEF x
  <2> QED BY <1>8, <2>3 DEF Reached
<1> QED BY <1>2, <1>3, <1>4, <1>5, <1>6, <1>7, <1>8

LEMMA ClosedStep ==
    ASSUME config \in ControlConfigurations("closed"), NEW o \in Account,
           NEW n \in 0 .. 2, Reached("closed", n, o)
    PROVE  Reached("closed", n + 1, OracleTrace(o, Control("closed")[n + 1]))
<1> DEFINE x == OracleTrace(o, Control("closed")[n + 1])
<1> SUFFICES Reached("closed", n + 1, x)
  OBVIOUS
<1>1. config \in Configurations /\ config.write /\ config.budget = 2
  <2>1. "closed" \notin {"read", "wrong-size"}
    OBVIOUS
  <2> QED BY <2>1, ControlOfWrite, Zenon
<1>2. CASE n = 0
  <2>1. Fresh(o)
    BY <1>2 DEF Reached
  <2>2. Control("closed")[n + 1] = Event("disconnect")
    BY <1>2, ClosedEvents
  <2>3. ShutDown(x)
    BY <2>1, <2>2, DisconnectStands, Zenon DEF ShutDown
  <2> HIDE DEF x
  <2> QED BY <1>2, <2>3 DEF Reached
<1>3. CASE n = 1
  <2>1. ShutDown(o)
    BY <1>3 DEF Reached
  <2>2. Control("closed")[n + 1] = Event("begin")
    BY <1>3, ClosedEvents
  <2>3. ShutDown(x)
    BY <1>1, <2>1, <2>2, StaysShut, Zenon
  <2> HIDE DEF x
  <2> QED BY <1>3, <2>3 DEF Reached
<1>4. CASE n = 2
  <2>1. ShutDown(o)
    BY <1>4 DEF Reached
  <2>2. Control("closed")[n + 1] = Event("reconnected")
    BY <1>4, ClosedEvents
  <2>3. NotRevived(x)
    BY <1>1, <2>1, <2>2, StaysShut, Zenon
  <2> HIDE DEF x
  <2> QED BY <1>4, <2>3 DEF Reached
<1> QED BY <1>2, <1>3, <1>4

-----------------------------------------------------------------------------
(* Along a control                                                         *)

LEMMA ControlStep ==
    ASSUME ReferenceModulus # 1, NEW name \in ControlNames, config \in ControlConfigurations(name),
           NEW o \in Account, Good(o), NEW n \in Nat, n < Len(Control(name)), Reached(name, n, o)
    PROVE  /\ n + 1 \in 0 .. Len(Control(name))
           /\ Reached(name, n + 1, OracleTrace(o, Control(name)[n + 1]))
<1>1. CASE name = "exhausted"
  <2>1. Len(Control(name)) = 8
    BY <1>1, ExhaustedEvents, Zenon
  <2>2. n \in 0 .. 7 /\ n + 1 \in 0 .. Len(Control(name))
    BY <2>1
  <2> QED BY <1>1, <2>2, ExhaustedStep, Zenon
<1>2. CASE name = "recovered"
  <2>1. Len(Control(name)) = 7
    BY <1>2, RecoveredEvents, Zenon
  <2>2. n \in 0 .. 6 /\ n + 1 \in 0 .. Len(Control(name))
    BY <2>1
  <2> QED BY <1>2, <2>2, RecoveredStep, Zenon
<1>3. CASE name = "closed"
  <2>1. Len(Control(name)) = 3
    BY <1>3, ClosedEvents, Zenon
  <2>2. n \in 0 .. 2 /\ n + 1 \in 0 .. Len(Control(name))
    BY <2>1
  <2> QED BY <1>3, <2>2, ClosedStep, Zenon
<1>4. CASE name \in ShortControls
  <2>1. Len(Control(name)) = 3
    BY <1>4, ShortEvents, Zenon
  <2>2. n \in 0 .. 2 /\ n + 1 \in 0 .. Len(Control(name))
    BY <2>1
  <2> QED BY <1>4, <2>2, ShortStep, Zenon
<1> QED BY <1>1, <1>2, <1>3, <1>4, Zenon DEF ControlNames, ShortControls

(* What a control reaches depends on its configuration, which stays.       *)
LEMMA SameAttempts ==
    ASSUME config' = config, NEW outcome
    PROVE  AllAttempted(outcome)' = AllAttempted(outcome)
  BY DEF AllAttempted, Width

LEMMA ReachedStays ==
    ASSUME config' = config, NEW name, NEW n, NEW o, Reached(name, n, o)
    PROVE  Reached(name, n, o)'
<1>1. Uncertain' = Uncertain /\ Asked' = Asked
  <2>1. Uncertain' = Uncertain
    BY SameAttempts, Zenon DEF Uncertain
  <2> QED BY <2>1, Zenon DEF Asked
<1>2. /\ Fresh(o) => Fresh(o)'
      /\ Begun(o) => Begun(o)'
      /\ Awaiting(o) => Awaiting(o)'
  BY <1>1, Zenon DEF Fresh, Begun, Awaiting
<1>3. \A r : (Retrying(o, r) => Retrying(o, r)') /\ (SettingUp(o, r) => SettingUp(o, r)')
  BY <1>1, Zenon DEF Retrying, SettingUp, Replaying
<1>4. /\ Exhausted(o) => Exhausted(o)'
      /\ Resumed(o) => Resumed(o)'
      /\ Resent(o) => Resent(o)'
      /\ Recovered(o) => Recovered(o)'
  <2>1. AllAttempted("success")' = AllAttempted("success")
    BY SameAttempts, Zenon
  <2> QED BY <1>1, <2>1, Zenon DEF Exhausted, Resumed, Resent, Recovered
<1>5. /\ NotRetried(o) => NotRetried(o)'
      /\ NotAccepted(o) => NotAccepted(o)'
  BY <1>1, Zenon DEF NotRetried, NotAccepted, GivenUp
<1>6. /\ NotRevived(o) => NotRevived(o)'
      /\ ShutDown(o) => ShutDown(o)'
      /\ WasRead(o) => WasRead(o)'
  BY <1>1, Zenon DEF NotRevived, ShutDown, WasRead
<1>7. RejectedByPlc(o) => RejectedByPlc(o)'
  <2>1. AllAttempted("globalRejected")' = AllAttempted("globalRejected")
    BY SameAttempts, Zenon
  <2> QED BY <2>1, Zenon DEF RejectedByPlc
<1> QED BY <1>2, <1>3, <1>4, <1>5, <1>6, <1>7, SMTT(30) DEF Reached

LEMMA ControlLength == ASSUME NEW name \in ControlNames PROVE Len(Control(name)) \in Nat
<1>1. CASE name = "exhausted"
  <2>1. Len(Control(name)) = 8
    BY <1>1, ExhaustedEvents, Zenon
  <2> QED BY <2>1
<1>2. CASE name = "recovered"
  <2>1. Len(Control(name)) = 7
    BY <1>2, RecoveredEvents, Zenon
  <2> QED BY <2>1
<1>3. CASE name = "closed"
  <2>1. Len(Control(name)) = 3
    BY <1>3, ClosedEvents, Zenon
  <2> QED BY <2>1
<1>4. CASE name \in ShortControls
  <2>1. Len(Control(name)) = 3
    BY <1>4, ShortEvents, Zenon
  <2> QED BY <2>1
<1> QED BY <1>1, <1>2, <1>3, <1>4, Zenon DEF ControlNames, ShortControls

LEMMA ControlInvInit == SessionInit => ControlInv
<1> SUFFICES ASSUME SessionInit, control # "none" PROVE ControlInv
  BY Zenon DEF ControlInv
<1>1. /\ control \in ControlNames /\ config \in ControlConfigurations(control) /\ done = 0
      /\ oracle = OracleInit
  BY Zenon DEF SessionInit
<1>2. Fresh(oracle)
  BY <1>1, Zenon DEF Fresh, Stands, OracleInit
<1>3. 0 \in 0 .. Len(Control(control))
  <2> DEFINE l == Len(Control(control))
  <2>1. l \in Nat
    BY <1>1, ControlLength
  <2> HIDE DEF l
  <2>2. 0 \in 0 .. l
    BY <2>1
  <2> QED BY <2>2 DEF l
<1>4. Reached(control, 0, oracle)
  BY <1>2 DEF Reached
<1> QED BY <1>1, <1>3, <1>4, Zenon DEF ControlInv

LEMMA SameControl ==
    ASSUME config' = config, NEW name
    PROVE  /\ Control(name)' = Control(name)
           /\ ControlConfigurations(name)' = ControlConfigurations(name)
<1>1. Answered' = Answered
  BY Zenon DEF Answered, Response, Reply, ItemBytes, Width
<1>2. Control(name)' = Control(name)
  BY <1>1, Zenon DEF Control, Started, Reconnecting, Timeout, Failure, Event
<1>3. ControlConfigurations(name)' = ControlConfigurations(name)
  BY Zenon DEF ControlConfigurations, Configurations
<1> QED BY <1>2, <1>3

LEMMA ControlInvKept ==
    ReferenceModulus # 1 /\ SessionInv /\ ControlInv /\ [SessionNext]_sessionVars => ControlInv'
<1> SUFFICES ASSUME ReferenceModulus # 1, SessionInv, ControlInv, [SessionNext]_sessionVars,
                    control' # "none"
             PROVE  ControlInv'
  BY Zenon DEF ControlInv
<1>1. config' = config /\ control' = control
  BY Zenon DEF SessionNext, Draw, FollowControl, sessionVars
<1>2. /\ config \in ControlConfigurations(control) /\ done \in 0 .. Len(Control(control))
      /\ Reached(control, done, oracle) /\ control \in ControlNames
  BY <1>1, Zenon DEF ControlInv, SessionInv
<1>3. CASE FollowControl
  <2> DEFINE x == OracleTrace(oracle, Control(control)[done + 1])
             m == done + 1
             c == control
  <2>1. /\ done < Len(Control(control)) /\ oracle' = x /\ done' = m /\ c = control'
    BY <1>1, <1>3, Zenon DEF FollowControl, Feed
  <2>2. done \in Nat /\ oracle \in Account /\ Good(oracle)
    BY Zenon DEF SessionInv
  <2>3. /\ m \in 0 .. Len(Control(c)) /\ Reached(c, m, x)
    BY <1>2, <2>1, <2>2, ControlStep, Zenon
  <2> HIDE DEF x, m
  <2>4. PICK name, n, o : name = c /\ n = m /\ o = x
    OBVIOUS
  <2>5. Reached(name, n, o)'
    BY <1>1, <2>3, <2>4, ReachedStays, Zenon
  <2>6. /\ Control(name)' = Control(name)
        /\ ControlConfigurations(name)' = ControlConfigurations(name)
    BY <1>1, SameControl, Zenon
  <2> QED BY <1>1, <1>2, <2>1, <2>3, <2>4, <2>5, <2>6, Zenon DEF ControlInv
<1>4. CASE Draw \/ UNCHANGED sessionVars
  <2>1. oracle' = oracle /\ done' = done
    BY <1>1, <1>4, Zenon DEF Draw, sessionVars
  <2>4. PICK name, n, o : name = control /\ n = done /\ o = oracle
    OBVIOUS
  <2>5. Reached(name, n, o)'
    BY <1>1, <1>2, <2>4, ReachedStays, Zenon
  <2>6. /\ Control(name)' = Control(name)
        /\ ControlConfigurations(name)' = ControlConfigurations(name)
    BY <1>1, SameControl, Zenon
  <2> QED BY <1>1, <1>2, <2>1, <2>4, <2>5, <2>6, Zenon DEF ControlInv
<1> QED BY <1>3, <1>4 DEF SessionNext

-----------------------------------------------------------------------------
(* What is expected at the end of a control                                *)

LEMMA AttemptedParts ==
    ASSUME config \in Configurations, NEW T, NEW outcome \in T
    PROVE  LET a == AllAttempted(outcome)
               e == Everywhere(outcome)
           IN  /\ a \in Seq([location : Ranges, outcome : T]) /\ Len(a) = Width
               /\ DOMAIN a = 1 .. Width
               /\ e \in Seq(T) /\ Len(e) = Width /\ DOMAIN e = 1 .. Width
               /\ \A i \in 1 .. Width : a[i].outcome = e[i]
               /\ [i \in DOMAIN a |-> a[i].outcome] = e
<1> DEFINE a == AllAttempted(outcome)
           e == Everywhere(outcome)
           w == Width
           S == [location : Ranges, outcome : T]
           l == config.locations
<1>1. w \in Nat /\ l \in [1 .. w -> Ranges]
  BY ConfigTyped DEF Width
<1>2. a = [i \in 1 .. w |-> [location |-> l[i], outcome |-> outcome]]
  BY DEF AllAttempted
<1>3. e = [i \in 1 .. w |-> outcome]
  BY DEF Everywhere
<1> HIDE DEF w, l, a, e
<1>4. a \in [1 .. w -> S] /\ e \in [1 .. w -> T]
  BY <1>1, <1>2, <1>3
<1>5. \A i \in 1 .. w : a[i].outcome = e[i]
  BY <1>1, <1>2, <1>3
<1>6. DOMAIN a = 1 .. w /\ DOMAIN e = 1 .. w /\ e = [i \in 1 .. w |-> e[i]]
  BY <1>4
<1>7. [i \in DOMAIN a |-> a[i].outcome] = e
  BY <1>5, <1>6
<1> HIDE DEF S
<1>8. a \in Seq(S) /\ e \in Seq(T) /\ Len(a) = w /\ Len(e) = w
  BY <1>1, <1>4
<1> QED BY <1>5, <1>6, <1>7, <1>8 DEF a, e, w, S

LEMMA ReportsHistory ==
    ASSUME NEW o \in Account, o.pending = <<>>
    PROVE  Attempts(o) = o.history
<1> DEFINE p == [i \in DOMAIN o.pending |-> [location |-> o.pending[i], outcome |-> "pending"]]
           h == o.history
<1>1. p = <<>>
  OBVIOUS
<1>2. Attempts(o) = h \o p
  BY DEF Attempts
<1>3. h \in Seq(SessionAttempt)
  BY DEF Account
<1> HIDE DEF h, p
<1> QED BY <1>1, <1>2, <1>3 DEF h

LEMMA ReportsPending ==
    ASSUME config \in Configurations, NEW o \in Account, o.history = <<>>,
           o.pending = config.locations
    PROVE  Attempts(o) = AllAttempted("pending")
<1> DEFINE p == [i \in DOMAIN o.pending |-> [location |-> o.pending[i], outcome |-> "pending"]]
           none == <<>>
           S == [location : Ranges, outcome : {"pending"}]
<1>1. p = AllAttempted("pending")
  BY ConfigTyped DEF AllAttempted
<1>2. Attempts(o) = none \o p
  BY DEF Attempts
<1>3. p \in Seq(S)
  <2>1. "pending" \in {"pending"}
    OBVIOUS
  <2> HIDE DEF p
  <2> QED BY <1>1, <2>1, AttemptedParts
<1>4. none = <<>>
  OBVIOUS
<1> HIDE DEF p, none, S
<1>5. none \o p = p
  BY <1>3, <1>4
<1> QED BY <1>1, <1>2, <1>5, Zenon

(* Attempts a and b with outcomes u and v, and the outcomes d of both.     *)
Outcome(a, b, u, v, n, m) ==
    /\ \A i \in 1 .. n : a[i].outcome = u[i]
    /\ \A i \in 1 .. m : b[i].outcome = v[i]
Follow(c, a, b, n, m) ==
    /\ \A i \in 1 .. n : c[i] = a[i]
    /\ \A i \in 1 .. m : c[n + i] = b[i]
Spans(c, d, length) == DOMAIN c = 1 .. length /\ d = [i \in 1 .. length |-> d[i]]

LEMMA OutcomesPlaced ==
    ASSUME NEW a, NEW b, NEW c, NEW u, NEW v, NEW d, NEW n \in Nat, NEW m \in Nat,
           Spans(c, d, n + m), Follow(c, a, b, n, m), Follow(d, u, v, n, m),
           Outcome(a, b, u, v, n, m)
    PROVE  [i \in DOMAIN c |-> c[i].outcome] = d
<1>1. ASSUME NEW i \in 1 .. n + m PROVE c[i].outcome = d[i]
  <2>1. CASE i \in 1 .. n
    BY <2>1, Zenon DEF Follow, Outcome
  <2>2. CASE i \notin 1 .. n
    <3> DEFINE k == i - n
    <3>1. k \in 1 .. m /\ i = n + k
      BY <2>2
    <3> HIDE DEF k
    <3>2. c[n + k].outcome = d[n + k]
      BY <3>1, Zenon DEF Follow, Outcome
    <3> QED BY <3>1, <3>2, Zenon
  <2> QED BY <2>1, <2>2, Zenon
<1>2. DOMAIN c = 1 .. n + m /\ d = [i \in 1 .. n + m |-> d[i]]
  BY Zenon DEF Spans
<1>3. [i \in DOMAIN c |-> c[i].outcome] = [i \in 1 .. n + m |-> d[i]]
  BY <1>1, <1>2
<1> QED BY <1>2, <1>3, Zenon

LEMMA SequenceShape ==
    ASSUME NEW S, NEW s \in Seq(S)
    PROVE  /\ Len(s) \in Nat /\ DOMAIN s = 1 .. Len(s)
           /\ s = [i \in 1 .. Len(s) |-> s[i]]
  OBVIOUS

Joined(a, b, c, u, v, d) ==
    Len(a) = Len(u) /\ Len(b) = Len(v) /\ Outcome(a, b, u, v, Len(a), Len(b)) =>
        [i \in DOMAIN c |-> c[i].outcome] = d

LEMMA OutcomesJoined ==
    ASSUME NEW S, NEW T, NEW a \in Seq(S), NEW b \in Seq(S), NEW u \in Seq(T), NEW v \in Seq(T),
           NEW c, c = a \o b, NEW d, d = u \o v
    PROVE  Joined(a, b, c, u, v, d)
<1>1. /\ c \in Seq(S) /\ Len(c) = Len(a) + Len(b)
      /\ \A i \in 1 .. Len(a) : c[i] = a[i]
      /\ \A i \in 1 .. Len(b) : c[Len(a) + i] = b[i]
  BY JoinTwo
<1>2. /\ d \in Seq(T) /\ Len(d) = Len(u) + Len(v)
      /\ \A i \in 1 .. Len(u) : d[i] = u[i]
      /\ \A i \in 1 .. Len(v) : d[Len(u) + i] = v[i]
  BY JoinTwo
<1>3. SUFFICES ASSUME Len(a) = Len(u), Len(b) = Len(v), Outcome(a, b, u, v, Len(a), Len(b))
               PROVE  [i \in DOMAIN c |-> c[i].outcome] = d
  BY DEF Joined
<1> DEFINE n == Len(a)
           m == Len(b)
           z == n + m
<1>4. n \in Nat /\ m \in Nat
  BY SequenceShape, Zenon
<1>5. Spans(c, d, z)
  <2>1. Len(c) = z /\ Len(d) = z
    BY <1>1, <1>2, <1>3, Zenon
  <2>2. DOMAIN c = 1 .. Len(c) /\ d = [i \in 1 .. Len(d) |-> d[i]]
    BY <1>1, <1>2, SequenceShape, Zenon
  <2> QED BY <2>1, <2>2, Zenon DEF Spans
<1>6. Follow(c, a, b, n, m)
  BY <1>1, Zenon DEF Follow
<1>7. Follow(d, u, v, n, m)
  BY <1>2, <1>3, Zenon DEF Follow
<1>8. Outcome(a, b, u, v, n, m)
  BY <1>3
<1> HIDE DEF n, m
<1> QED BY <1>4, <1>5, <1>6, <1>7, <1>8, OutcomesPlaced, Zenon

LEMMA OutcomesAttempted ==
    ASSUME config \in Configurations, NEW o, NEW outcome, Attempts(o) = AllAttempted(outcome)
    PROVE  OutcomesAre(o, Everywhere(outcome))
<1>1. outcome \in {outcome}
  OBVIOUS
<1>2. [i \in DOMAIN AllAttempted(outcome) |-> AllAttempted(outcome)[i].outcome]
        = Everywhere(outcome)
  BY <1>1, AttemptedParts, Zenon
<1> QED BY <1>2, Zenon DEF OutcomesAre

LEMMA OutcomesRecovered ==
    ASSUME config \in Configurations, NEW o,
           Attempts(o) = Uncertain \o AllAttempted("success")
    PROVE  OutcomesAre(o, Everywhere("replayedUnknown") \o Everywhere("success"))
<1> DEFINE r == "replayedUnknown"
           s == "success"
           T == {r, s}
           S == [location : Ranges, outcome : T]
           a == AllAttempted(r)
           b == AllAttempted(s)
           u == Everywhere(r)
           v == Everywhere(s)
<1>1. r \in T /\ s \in T
  OBVIOUS
<1> HIDE DEF r, s, T
<1>2. a \in Seq(S) /\ u \in Seq(T) /\ Len(a) = Width /\ Len(u) = Width
  BY <1>1, AttemptedParts, Zenon
<1>3. b \in Seq(S) /\ v \in Seq(T) /\ Len(b) = Width /\ Len(v) = Width
  BY <1>1, AttemptedParts, Zenon
<1>4. (\A i \in 1 .. Width : a[i].outcome = u[i]) /\ (\A i \in 1 .. Width : b[i].outcome = v[i])
  BY <1>1, AttemptedParts, Zenon
<1> HIDE DEF S, a, b, u, v
<1>5. [i \in DOMAIN (a \o b) |-> (a \o b)[i].outcome] = u \o v
  <2>1. PICK c, d : c = a \o b /\ d = u \o v
    OBVIOUS
  <2>2. /\ Len(a) = Len(u) /\ Len(b) = Len(v)
        /\ Outcome(a, b, u, v, Len(a), Len(b))
    BY <1>2, <1>3, <1>4, Zenon DEF Outcome
  <2>3. /\ a \in Seq(S) /\ b \in Seq(S) /\ u \in Seq(T) /\ v \in Seq(T)
    BY <1>2, <1>3
  <2>4. Joined(a, b, c, u, v, d)
    BY <2>1, <2>3, OutcomesJoined, Zenon
  <2>5. [i \in DOMAIN c |-> c[i].outcome] = d
    BY <2>2, <2>4, Zenon DEF Joined
  <2> QED BY <2>1, <2>5, Zenon
<1>6. Attempts(o) = a \o b
  BY Zenon DEF Uncertain, a, b, r, s
<1> QED BY <1>5, <1>6, Zenon DEF OutcomesAre, u, v, r, s

LEMMA ControlEnds ==
    ASSUME NEW name \in ControlNames, config \in ControlConfigurations(name), NEW o \in Account,
           NEW n, n = Len(Control(name)), Reached(name, n, o)
    PROVE  Expectation(name, o)
<1>1. config \in Configurations
  BY DEF ControlConfigurations
<1>2. CASE name = "exhausted"
  <2>1. n = 8
    BY <1>2, ExhaustedEvents, Zenon
  <2>2. Exhausted(o)
    BY <1>2, <2>1 DEF Reached
  <2>3. /\ o.lifecycle = "disconnected" /\ o.phase = "failed" /\ o.active = NoReference
        /\ o.remaining = 0 /\ o.sends = 1 /\ o.history = AllAttempted("replayedUnknown")
        /\ o.pending = <<>>
    BY <2>2, Zenon DEF Exhausted, Stands, Uncertain
  <2>4. OutcomesAre(o, Everywhere("replayedUnknown"))
    BY <1>1, <2>3, ReportsHistory, OutcomesAttempted, Zenon
  <2> QED BY <1>2, <2>3, <2>4, Zenon DEF Expectation
<1>3. CASE name = "recovered"
  <2>1. n = 7
    BY <1>3, RecoveredEvents, Zenon
  <2>2. Recovered(o)
    BY <1>3, <2>1 DEF Reached
  <2>3. /\ o.phase = "completed" /\ o.active = NoReference /\ o.remaining = 1 /\ o.sends = 2
        /\ o.history = Uncertain \o AllAttempted("success") /\ o.pending = <<>>
    BY <2>2, Zenon DEF Recovered, Stands
  <2>4. OutcomesAre(o, Everywhere("replayedUnknown") \o Everywhere("success"))
    BY <1>1, <2>3, ReportsHistory, OutcomesRecovered, Zenon
  <2> QED BY <1>3, <2>3, <2>4, Zenon DEF Expectation
<1>4. CASE name = "closed"
  <2>1. n = 3
    BY <1>4, ClosedEvents, Zenon
  <2>2. NotRevived(o)
    BY <1>4, <2>1 DEF Reached
  <2> QED BY <1>4, <2>2, Zenon DEF Expectation, NotRevived, ShutDown, Stands
<1>5. CASE name \in ShortControls
  <2>1. n = 3
    BY <1>5, ShortEvents, Zenon
  <2>2. CASE name = "conservative"
    <3>1. NotRetried(o)
      BY <2>1, <2>2 DEF Reached
    <3>2. name \notin {"read", "wrong-size"}
      BY <2>2, Zenon
    <3>3. config.write /\ config.budget = 2
      BY <3>2, ControlOfWrite, Zenon
    <3>4. /\ o.result = Decided(FALSE) /\ o.remaining = 2 /\ o.history = <<>>
          /\ o.pending = config.locations
      BY <3>1, <3>3, Zenon DEF NotRetried, GivenUp, Stands, Asked
    <3>5. OutcomesAre(o, Everywhere("pending"))
      BY <1>1, <3>4, ReportsPending, OutcomesAttempted, Zenon
    <3> QED BY <2>2, <3>4, <3>5, Zenon DEF Expectation
  <2>3. CASE name \in {"wrong-reference", "wrong-count", "wrong-size"}
    <3>1. NotAccepted(o)
      BY <2>1, <2>3 DEF Reached
    <3>2. o.result = Rejected("response-codec") /\ o.phase = "failed" /\ o.sends = 1
      BY <3>1, Zenon DEF NotAccepted, GivenUp, Stands
    <3> QED BY <2>3, <3>2, Zenon DEF Expectation
  <2>4. CASE name = "global-reject"
    <3>1. RejectedByPlc(o)
      BY <2>1, <2>4 DEF Reached
    <3>2. /\ o.result = Rejected("response-codec") /\ o.pending = <<>>
          /\ o.history = AllAttempted("globalRejected")
      BY <3>1, Zenon DEF RejectedByPlc, Stands
    <3>3. OutcomesAre(o, Everywhere("globalRejected"))
      BY <1>1, <3>2, ReportsHistory, OutcomesAttempted, Zenon
    <3> QED BY <2>4, <3>2, <3>3, Zenon DEF Expectation
  <2>5. CASE name = "read"
    <3>1. WasRead(o)
      BY <2>1, <2>5 DEF Reached
    <3>2. /\ o.phase = "completed" /\ o.active = NoReference /\ o.history = <<>>
          /\ o.pending = <<>>
      BY <3>1, Zenon DEF WasRead, Stands
    <3>3. Attempts(o) = <<>>
      BY <3>2, ReportsHistory, Zenon
    <3> QED BY <2>5, <3>2, <3>3, Zenon DEF Expectation
  <2> QED BY <1>5, <2>2, <2>3, <2>4, <2>5, Zenon DEF ShortControls
<1> QED BY <1>2, <1>3, <1>4, <1>5, Zenon DEF ControlNames, ShortControls

(* The nine fixed controls of the session oracle, fed to it with whatever  *)
(* budget, reference and items their configuration allows, end as the      *)
(* self-test of session_conformance expects; if references wrap around at  *)
(* all, for a PLC that answers with the next one to be told apart.         *)
THEOREM RequestsEndAsExpected == ReferenceModulus # 1 => (SessionSpec => []ControlsHold)
<1>1. SessionInv /\ ControlInv => ControlsHold
  <2> SUFFICES ASSUME SessionInv, ControlInv, control # "none", done = Len(Control(control))
               PROVE  Expectation(control, oracle)
    BY Zenon DEF ControlsHold
  <2>1. /\ control \in ControlNames /\ config \in ControlConfigurations(control)
        /\ oracle \in Account /\ Reached(control, done, oracle)
    BY Zenon DEF SessionInv, ControlInv
  <2> QED BY <2>1, ControlEnds, Zenon
<1>2. SessionSpec => []SessionInv
  BY RequestInvariant
<1>3. ASSUME ReferenceModulus # 1 PROVE SessionSpec => []ControlInv
  <2>1. SessionInv /\ ControlInv /\ [SessionNext]_sessionVars => ControlInv'
    BY <1>3, ControlInvKept
  <2>2. SessionInit => ControlInv
    BY ControlInvInit
  <2> QED BY <1>2, <2>1, <2>2, PTL DEF SessionSpec
<1>4. ASSUME ReferenceModulus # 1 PROVE SessionSpec => []ControlsHold
  <2>1. SessionSpec => []ControlInv
    BY <1>3, <1>4
  <2> QED BY <1>1, <1>2, <2>1, PTL
<1> QED BY <1>4

-----------------------------------------------------------------------------
(* Both corpora                                                            *)

LEMMA BothAreTold == Spec => SessionSpec /\ ConversationSpec
<1>1. Init => SessionInit /\ ConversationInit
  BY DEF Init
<1>2. [Next]_historyVars => [SessionNext]_sessionVars /\ [ConversationNext]_conversationVars
  BY Zenon DEF Next, Session, Conversation, historyVars
<1> QED BY <1>1, <1>2, PTL DEF Spec, SessionSpec, ConversationSpec

(* Whatever history a fixed control of either self-test is followed        *)
(* through, it ends as its self-test expects, and what the conversation    *)
(* oracle tells of any history passes its own validate().                  *)
THEOREM ControlsEndAsExpected ==
    ReferenceModulus # 1 => (Spec => []ControlsEnd)
<1>1. ReferenceModulus # 1 => (Spec => []ControlsHold)
  BY BothAreTold, RequestsEndAsExpected, PTL
<1>2. Spec => []ConversationControls
  BY BothAreTold, ConversationsEndAsExpected, PTL
<1>3. ControlsHold /\ ConversationControls => ControlsEnd
  BY DEF ControlsEnd
<1> QED BY <1>1, <1>2, <1>3, PTL
=============================================================================
