------------------------ MODULE BlockTransferProofs ------------------------
(***************************************************************************)
(* Transfers of a block, for every block, fault of the PLC, timeout and    *)
(* speed of the clock: one budget for the whole transfer; an upload that   *)
(* is given up is ended; and a transfer is all or nothing.  The property   *)
(* about the budget speaks of the deadline of the transfer, the code of    *)
(* that of one wait: BudgetInv relates the two, and says no more of the    *)
(* messages than that they are sequences, so that their number can be      *)
(* compared before and after.  ContentInv follows the bytes of the block   *)
(* from one side, through the one message that carries them, to the other. *)
(* FaultInv follows the fault of a scripted PLC in the same way: it is     *)
(* still to come, in the one message on its way, or the error that the     *)
(* client keeps; and what is on its way to the PLC is what it expects.     *)
(***************************************************************************)
EXTENDS BlockTransfer, SequenceTheorems, TLAPS

IsSequence(s) == \E S : s \in Seq(S)

WithinBudget(wait, budget) ==
    budget # NoDeadline => wait # NoDeadline /\ wait <= budget

BudgetInv ==
    /\ now \in Nat /\ deadline \in Deadline /\ receiveBy \in Deadline
    /\ IsSequence(toPlc) /\ IsSequence(toClient)
    /\ pc \in Waits => WithinBudget(receiveBy, deadline)

(* What one step may do to the budget of a transfer.                       *)
InTime == (Sends \/ Accepts) /\ pc # "begin" => ~Expired(deadline, now)

-----------------------------------------------------------------------------
(* Sequences of messages                                                   *)

LEMMA NothingSent == IsSequence(<<>>) /\ Len(<<>>) = 0
<1>1. <<>> \in Seq({})
  OBVIOUS
<1> QED BY <1>1 DEF IsSequence

LEMMA OneMessage == ASSUME NEW m PROVE IsSequence(<<m>>)
<1>1. <<m>> \in Seq({m})
  OBVIOUS
<1> QED BY <1>1 DEF IsSequence

LEMMA LengthIsNatural == ASSUME NEW s, IsSequence(s) PROVE Len(s) \in Nat
BY DEF IsSequence

LEMMA Appended ==
    ASSUME NEW s, NEW m, IsSequence(s)
    PROVE  IsSequence(Append(s, m)) /\ Len(Append(s, m)) > Len(s)
<1>1. PICK S : s \in Seq(S)
  BY DEF IsSequence
<1>2. s \in Seq(S \union {m}) /\ m \in S \union {m}
  BY <1>1
<1>3. Append(s, m) \in Seq(S \union {m}) /\ Len(Append(s, m)) = Len(s) + 1
  BY <1>2
<1>4. Len(s) \in Nat
  BY <1>1
<1> QED BY <1>3, <1>4 DEF IsSequence

LEMMA Consumed ==
    ASSUME NEW s, IsSequence(s), s # <<>>
    PROVE  IsSequence(Tail(s)) /\ Len(Tail(s)) < Len(s)
<1>1. PICK S : s \in Seq(S)
  BY DEF IsSequence
<1>2. Tail(s) \in Seq(S) /\ Len(Tail(s)) = Len(s) - 1 /\ Len(s) \in Nat
  BY <1>1
<1> QED BY <1>2 DEF IsSequence

LEMMA Joined ==
    ASSUME NEW s, NEW t, IsSequence(s), IsSequence(t)
    PROVE  IsSequence(s \o t) /\ Len(s \o t) >= Len(s)
<1>1. PICK S : s \in Seq(S)
  BY DEF IsSequence
<1>2. PICK T : t \in Seq(T)
  BY DEF IsSequence
<1>3. s \in Seq(S \union T) /\ t \in Seq(S \union T)
  BY <1>1, <1>2
<1>4. s \o t \in Seq(S \union T) /\ Len(s \o t) = Len(s) + Len(t)
  BY <1>3
<1>5. Len(s) \in Nat /\ Len(t) \in Nat
  BY <1>1, <1>2
<1> QED BY <1>4, <1>5 DEF IsSequence

(* A request has at most one answer.                                       *)
LEMMA RepliesAreMessages ==
    ASSUME NEW mode, NEW chunk, NEW request
    PROVE  IsSequence(PlcReplies(mode, chunk, request))
BY NothingSent, OneMessage, ZenonT(30) DEF PlcReplies

-----------------------------------------------------------------------------
(* Deadlines                                                               *)

LEMMA TimeoutsTyped == OperationTimeout \in Deadline /\ TransferDeadline \in Deadline
BY BlockTransferAssumption

(* A wait is cut to what is left of the transfer.                          *)
LEMMA WaitsAreCut ==
    ASSUME now \in Nat, deadline \in Deadline
    PROVE  WaitUntil \in Deadline /\ WithinBudget(WaitUntil, deadline)
BY TimeoutsTyped DEF WaitUntil, WithinBudget, EarlierDeadline, DeadlineAfter, Deadline, NoDeadline

LEMMA BudgetTyped == ASSUME now \in Nat PROVE DeadlineAfter(now, TransferDeadline) \in Deadline
BY TimeoutsTyped DEF DeadlineAfter, Deadline, NoDeadline

(* What is taken within a wait is taken within the transfer.               *)
LEMMA WaitEndsFirst ==
    ASSUME BudgetInv, pc \in Waits, ~Expired(receiveBy, now)
    PROVE  ~Expired(deadline, now)
BY DEF BudgetInv, WithinBudget, Expired, Deadline, NoDeadline

-----------------------------------------------------------------------------
(* Steps that end a wait or the transfer                                   *)

(* Closing the session drops what is on it and sends at most a disconnect. *)
LEMMA CloseIsQuiet ==
    ASSUME BudgetInv, Close
    PROVE  ~up' /\ IsSequence(toPlc') /\ IsSequence(toClient')
BY Appended, NothingSent DEF BudgetInv, Close

LEMMA FinishIsQuiet ==
    ASSUME BudgetInv, NEW kind, NEW says, Finish(kind, says)
    PROVE  pc' \notin Waits /\ ~up' /\ IsSequence(toPlc') /\ IsSequence(toClient')
BY CloseIsQuiet DEF Finish, Waits

LEMMA FailedStartIsQuiet ==
    ASSUME BudgetInv, NEW kind, StartFails(kind)
    PROVE  pc' \notin Waits /\ ~up' /\ IsSequence(toPlc') /\ IsSequence(toClient')
<1> DEFINE budget == RetryBudgetAfter(retries, FALSE, kind, "potentiallyMutating", TRUE)
<1>1. CASE budget = NoRetry
  BY <1>1, FinishIsQuiet DEF StartFails
<1>2. CASE budget # NoRetry
  BY <1>2, CloseIsQuiet DEF StartFails, Waits
<1> QED BY <1>1, <1>2

(* An answer is taken off the connection, or the connection is closed.     *)
Takes ==
    /\ pc' \notin Waits /\ IsSequence(toPlc') /\ IsSequence(toClient')
    /\ toPlc' = toPlc \/ ~up'

LEMMA AnsweredTakes ==
    ASSUME BudgetInv, toClient # <<>>, NEW next, next \notin Waits, Answered(next)
    PROVE  Takes
BY Consumed DEF BudgetInv, Answered, Takes

LEMMA AbandonTakes ==
    ASSUME BudgetInv, toClient # <<>>, NEW fault, Abandon(fault)
    PROVE  Takes
BY Consumed DEF BudgetInv, Abandon, Takes, Waits

LEMMA FinishTakes ==
    ASSUME BudgetInv, NEW kind, NEW says, Finish(kind, says)
    PROVE  Takes
BY FinishIsQuiet DEF Takes

-----------------------------------------------------------------------------
(* One step                                                                *)

(* A step that closes the session neither sends nor accepts.               *)
LEMMA ClosedIsInTime == ASSUME ~up' PROVE InTime
BY DEF InTime, Sends, Accepts

LEMMA IdleIsInTime ==
    ASSUME BudgetInv, toPlc' = toPlc, toClient' = toClient
    PROVE  InTime
BY LengthIsNatural DEF BudgetInv, InTime, Sends, Accepts

LEMMA BeginStep == ASSUME BudgetInv, Begin PROVE BudgetInv' /\ InTime
<1>1. InTime
  BY DEF Begin, InTime
<1>2. now' = now /\ receiveBy' = receiveBy
  BY DEF Begin
<1>3. \/ Finish("invalidInput", "block") /\ deadline' = deadline
      \/ /\ deadline' = DeadlineAfter(now, TransferDeadline)
         /\ pc' = "start" /\ toPlc' = toPlc /\ toClient' = toClient
  BY Zenon DEF Begin
<1>4. CASE Finish("invalidInput", "block") /\ deadline' = deadline
  BY <1>1, <1>2, <1>4, FinishIsQuiet DEF BudgetInv
<1>5. CASE pc' = "start" /\ toPlc' = toPlc /\ toClient' = toClient
           /\ deadline' = DeadlineAfter(now, TransferDeadline)
  BY <1>1, <1>2, <1>5, BudgetTyped DEF BudgetInv, Waits
<1> QED BY <1>3, <1>4, <1>5

LEMMA PostStep ==
    ASSUME BudgetInv, NEW message, NEW wait, Post(message, wait), ~Expired(deadline, now),
           toClient' = toClient, now' = now, deadline' = deadline
    PROVE  BudgetInv' /\ InTime
<1>1. IsSequence(toPlc') /\ receiveBy' \in Deadline /\ WithinBudget(receiveBy', deadline')
  BY Appended, WaitsAreCut DEF BudgetInv, Post
<1>2. InTime
  BY DEF InTime
<1> QED BY <1>1, <1>2 DEF BudgetInv

LEMMA ReconnectStep == ASSUME BudgetInv, Reconnect PROVE BudgetInv' /\ InTime
BY NothingSent DEF BudgetInv, Reconnect, InTime, Waits

LEMMA ReconnectFailsStep == ASSUME BudgetInv, ReconnectFails PROVE BudgetInv' /\ InTime
<1>1. PICK kind : StartFails(kind)
  BY DEF ReconnectFails
<1> QED BY <1>1, FailedStartIsQuiet, ClosedIsInTime DEF BudgetInv, ReconnectFails

LEMMA TooManyStep == ASSUME BudgetInv, TooManyFragments PROVE BudgetInv' /\ InTime
<1>1. CASE InUploadLoop
  BY <1>1, IdleIsInTime DEF BudgetInv, TooManyFragments, Refuse, Waits
<1>2. CASE ~InUploadLoop
  BY <1>2, FinishIsQuiet, ClosedIsInTime DEF BudgetInv, TooManyFragments, Refuse
<1> QED BY <1>1, <1>2

LEMMA SkipCleanupStep == ASSUME BudgetInv, SkipCleanup PROVE BudgetInv' /\ InTime
BY FinishIsQuiet, ClosedIsInTime DEF BudgetInv, SkipCleanup

LEMMA AwaitJobStep == ASSUME BudgetInv, AwaitJob PROVE BudgetInv' /\ InTime
BY WaitsAreCut, IdleIsInTime DEF BudgetInv, AwaitJob

LEMMA SliceStep == ASSUME BudgetInv, SendSlice PROVE BudgetInv' /\ InTime
<1>1. \E message : toPlc' = Append(toPlc, message)
  BY DEF SendSlice
<1>2. IsSequence(toPlc')
  BY <1>1, Appended DEF BudgetInv
<1>3. toClient' = toClient /\ pc' = "job" /\ ~Expired(deadline, now)
      /\ now' = now /\ deadline' = deadline /\ receiveBy' = receiveBy
  BY DEF SendSlice
<1> QED BY <1>2, <1>3 DEF BudgetInv, InTime, Waits

LEMMA EndedStep == ASSUME BudgetInv, SendEnded PROVE BudgetInv' /\ InTime
<1>1. \E message : toPlc' = Append(toPlc, message)
  BY DEF SendEnded
<1>2. IsSequence(toPlc')
  BY <1>1, Appended DEF BudgetInv
<1>3. toClient' = toClient /\ pc' = "insert" /\ ~Expired(deadline, now)
      /\ now' = now /\ deadline' = deadline /\ receiveBy' = receiveBy
  BY DEF SendEnded
<1> QED BY <1>2, <1>3 DEF BudgetInv, InTime, Waits

(* Whatever the answer is, one message is taken or the session closed.     *)
LEMMA ReceiveStep == ASSUME BudgetInv, Receive PROVE BudgetInv' /\ InTime
<1> DEFINE reply == Head(toClient)
<1> HIDE DEF reply
<1>1. toClient # <<>> /\ pc \in Waits
  BY DEF Receive
<1>2. ASSUME ReceiveStart(reply) PROVE Takes
  BY <1>1, <1>2, FinishTakes, AbandonTakes, AnsweredTakes DEF ReceiveStart, Waits
<1>3. ASSUME ReceiveFragment(reply) PROVE Takes
  BY <1>1, <1>3, AbandonTakes, AnsweredTakes DEF ReceiveFragment, Waits
<1>4. ASSUME ReceiveEnd(reply) PROVE Takes
  BY <1>1, <1>4, FinishTakes, AnsweredTakes DEF ReceiveEnd, Waits
<1>5. ASSUME ReceiveJob(reply) PROVE Takes
  BY <1>1, <1>5, FinishTakes, AnsweredTakes DEF ReceiveJob, Waits
<1>6. ASSUME ReceiveInsert(reply) PROVE Takes
  BY <1>1, <1>6, FinishTakes, AnsweredTakes DEF ReceiveInsert, Waits
<1>7. Takes
  BY <1>2, <1>3, <1>4, <1>5, <1>6 DEF Receive, reply
<1>8. ~Expired(deadline, now)
  BY WaitEndsFirst DEF Receive
<1> QED BY <1>7, <1>8 DEF BudgetInv, Takes, InTime, Receive

LEMMA ExchangeFailsStep ==
    ASSUME BudgetInv, NEW kind, ExchangeFails(kind)
    PROVE  BudgetInv' /\ InTime
<1>1. pc' \notin Waits /\ ~up' /\ IsSequence(toPlc') /\ IsSequence(toClient')
  <2>1. ASSUME NEW other, StartFails(other) PROVE pc' \notin Waits /\ ~up' /\ IsSequence(toPlc') /\ IsSequence(toClient')
    BY <2>1, FailedStartIsQuiet
  <2>2. ASSUME NEW other, NEW says, Finish(other, says) PROVE pc' \notin Waits /\ ~up' /\ IsSequence(toPlc') /\ IsSequence(toClient')
    BY <2>2, FinishIsQuiet
  <2>3. ASSUME Close, pc' = "cleanup" PROVE pc' \notin Waits /\ ~up' /\ IsSequence(toPlc') /\ IsSequence(toClient')
    BY <2>3, CloseIsQuiet DEF Waits
  <2> QED BY <2>1, <2>2, <2>3 DEF ExchangeFails
<1> QED BY <1>1, ClosedIsInTime DEF BudgetInv, ExchangeFails

-----------------------------------------------------------------------------
(* Steps of the PLC and of the clock                                       *)

LEMMA ServesStep == ASSUME BudgetInv, PlcServes PROVE BudgetInv' /\ InTime
<1> DEFINE replies == PlcReplies(scenario.mode, scenario.chunk, Head(toPlc))
<1>1. IsSequence(replies)
  BY RepliesAreMessages
<1> HIDE DEF replies
<1>2. /\ IsSequence(toPlc') /\ Len(toPlc') < Len(toPlc)
      /\ Len(toPlc) \in Nat /\ Len(toPlc') \in Nat
  BY Consumed, LengthIsNatural DEF BudgetInv, PlcServes
<1>3. up' = up /\ pc' = pc /\ now' = now /\ deadline' = deadline /\ receiveBy' = receiveBy
  BY DEF PlcServes
<1>4. CASE up
  <2>1. toClient' = toClient \o replies
    BY <1>4 DEF PlcServes, replies
  <2>2. /\ IsSequence(toClient') /\ Len(toClient') >= Len(toClient)
        /\ Len(toClient) \in Nat /\ Len(toClient') \in Nat
    BY <1>1, <2>1, Joined, LengthIsNatural DEF BudgetInv
  <2> QED BY <1>2, <1>3, <2>2 DEF BudgetInv, InTime, Sends, Accepts
<1>5. CASE ~up
  <2>1. toClient' = <<>>
    BY <1>5 DEF PlcServes
  <2> QED BY <1>2, <1>3, <1>5, <2>1, NothingSent, ClosedIsInTime DEF BudgetInv
<1> QED BY <1>4, <1>5

LEMMA AsksStep == ASSUME BudgetInv, PlcAsks PROVE BudgetInv' /\ InTime
<1>1. toClient' = Append(toClient, PlcJob(scenario.mode)) /\ toPlc' = toPlc
      /\ pc' = pc /\ now' = now /\ deadline' = deadline /\ receiveBy' = receiveBy
  BY DEF PlcAsks
<1>2. IsSequence(toClient') /\ Len(toClient') > Len(toClient)
  BY <1>1, Appended DEF BudgetInv
<1>3. {Len(toClient), Len(toClient'), Len(toPlc)} \subseteq Nat
  BY <1>2, LengthIsNatural DEF BudgetInv
<1> QED BY <1>1, <1>2, <1>3 DEF BudgetInv, InTime, Sends, Accepts

LEMMA QuietStep ==
    ASSUME BudgetInv, PlcCloses \/ Tick \/ UNCHANGED vars
    PROVE  BudgetInv' /\ InTime
<1>1. toPlc' = toPlc /\ toClient' = toClient /\ pc' = pc
      /\ now' \in {now, now + 1} /\ deadline' = deadline /\ receiveBy' = receiveBy
  BY DEF PlcCloses, Tick, vars
<1> QED BY <1>1, IdleIsInTime DEF BudgetInv

-----------------------------------------------------------------------------
(* Theorems                                                                *)

LEMMA BudgetStep == ASSUME BudgetInv, [Next]_vars PROVE BudgetInv' /\ InTime
<1>1. ASSUME SendStart PROVE BudgetInv' /\ InTime
  BY <1>1, PostStep DEF SendStart
<1>2. ASSUME RequestFragment PROVE BudgetInv' /\ InTime
  BY <1>2, PostStep DEF RequestFragment
<1>3. ASSUME EndUpload PROVE BudgetInv' /\ InTime
  BY <1>3, PostStep DEF EndUpload
<1>4. ASSUME SendInsert PROVE BudgetInv' /\ InTime
  BY <1>4, PostStep DEF SendInsert
<1>5. ASSUME ReceiveTimesOut \/ BudgetSpent \/ PeerClosed PROVE BudgetInv' /\ InTime
  BY <1>5, ExchangeFailsStep DEF ReceiveTimesOut, BudgetSpent, PeerClosed
<1>6. ASSUME ClientStep PROVE BudgetInv' /\ InTime
  BY <1>1, <1>2, <1>3, <1>4, <1>5, <1>6, BeginStep, ReconnectStep, ReconnectFailsStep,
     TooManyStep, SkipCleanupStep, AwaitJobStep, SliceStep, EndedStep, ReceiveStep
     DEF ClientStep
<1> QED BY <1>6, ServesStep, AsksStep, QuietStep DEF Next

LEMMA BudgetInit == Init => BudgetInv
<1> SUFFICES ASSUME Init PROVE BudgetInv
  OBVIOUS
<1>1. toPlc = <<>> /\ toClient = <<>> /\ pc = "begin" /\ now = 0
      /\ deadline = NoDeadline /\ receiveBy = NoDeadline
  BY DEF Init
<1> QED BY <1>1, NothingSent DEF BudgetInv, Waits, Deadline, NoDeadline

(* A wait of the client for the PLC never reaches beyond the transfer it   *)
(* belongs to, in every state of every transfer.                           *)
THEOREM BudgetInvariant == Spec => []BudgetInv
<1>1. BudgetInv /\ [Next]_vars => BudgetInv'
  BY BudgetStep
<1> QED BY <1>1, BudgetInit, PTL DEF Spec

(* A transfer of a block has one budget, however many fragments it takes:  *)
(* once it is spent, withTransferDeadline has the client neither send a    *)
(* request nor accept an answer, the cleanup of a failure included.        *)
THEOREM TransferHasOneBudget == Spec => OneBudget
<1>1. BudgetInv /\ [Next]_vars => [(Sends \/ Accepts) /\ pc # "begin" => ~Expired(deadline, now)]_vars
  BY BudgetStep DEF InTime
<1> QED BY <1>1, BudgetInvariant, PTL DEF Spec, OneBudget

-----------------------------------------------------------------------------
(* What an upload that is given up leaves behind                           *)

UploadStages == {"begin", "start", "starting", "reconnect", "next", "fragment", "end", "ending",
                 "cleanup", "cleaning", "done", "failed"}

UploadRequests == {"startUpload", "upload", "endUpload", "disconnect"}

Only(messages, functions) == \A i \in 1 .. Len(messages) : messages[i].fn \in functions

StartReplies(messages) ==
    \A i \in 1 .. Len(messages) :
        messages[i].fn = "startUpload" /\ messages[i].shape \in {"exact", "refused"}

(* An END_UPLOAD is on its way, and only a disconnect may follow it.       *)
EndsUpload(messages) ==
    \E i \in 1 .. Len(messages) :
        /\ messages[i].fn = "endUpload"
        /\ \A j \in 1 .. Len(messages) : j > i => messages[j].fn = "disconnect"

EndSent ==
    \/ plc.closed
    \/ EndsUpload(toPlc)
    \/ plc.stage = "ended" /\ Only(toPlc, {"disconnect"})

Excused == failure.says \in {"start", "exchange", "refused"} \/ Expired(deadline, now)

PlcFields == {"stage", "closed", "bytes", "reference", "failed"}

IsPlc(state) == \E S : state \in [PlcFields -> S]

(* What the PLC and the client know of an upload.  GivenUpIsEnded is about *)
(* its end; that the end is announced is decided where END_UPLOAD is sent, *)
(* and that the start was refused, from the replies to it.                 *)
UploadHolds ==
    /\ scenario.mode # "invalid"
    /\ pc \in UploadStages
    /\ IsPlc(plc) /\ plc.stage # "asking"
    /\ Only(toPlc, UploadRequests)
    /\ pc \in {"begin", "start"} => toPlc = <<>> /\ toClient = <<>>
    /\ pc = "starting" => Only(toPlc, {"startUpload"}) /\ StartReplies(toClient)
    /\ pc = "cleanup" /\ ~up => failure.says = "exchange"
    /\ pc \in {"ending", "cleaning"} => EndSent
    /\ pc = "failed" => Excused \/ EndSent

EndInv == BudgetInv /\ (Uploading => UploadHolds)

LEMMA OnlyAppended ==
    ASSUME NEW s, IsSequence(s), NEW m, NEW F, Only(s, F), m.fn \in F
    PROVE  Only(Append(s, m), F)
<1>1. PICK S : s \in Seq(S)
  BY DEF IsSequence
<1>2. ASSUME NEW i \in 1 .. Len(Append(s, m)) PROVE Append(s, m)[i].fn \in F
  <2>1. CASE i <= Len(s)
    BY <1>1, <2>1 DEF Only
  <2>2. CASE i = Len(s) + 1
    BY <1>1, <2>2
  <2> QED BY <1>1, <2>1, <2>2
<1> QED BY <1>2 DEF Only

LEMMA OnlyConsumed ==
    ASSUME NEW s, IsSequence(s), s # <<>>, NEW F, Only(s, F)
    PROVE  Head(s).fn \in F /\ Only(Tail(s), F)
<1>1. PICK S : s \in Seq(S)
  BY DEF IsSequence
<1>2. Head(s) = s[1] /\ 1 \in 1 .. Len(s)
  BY <1>1
<1>3. ASSUME NEW i \in 1 .. Len(Tail(s)) PROVE Tail(s)[i].fn \in F
  <2>1. Tail(s)[i] = s[i + 1] /\ i + 1 \in 1 .. Len(s)
    BY <1>1
  <2> QED BY <2>1 DEF Only
<1> QED BY <1>2, <1>3 DEF Only

LEMMA OnlyNothing == ASSUME NEW F PROVE Only(<<>>, F)
BY NothingSent DEF Only

LEMMA EndAppended ==
    ASSUME NEW s, IsSequence(s), NEW m, m.fn = "endUpload"
    PROVE  EndsUpload(Append(s, m))
<1>1. PICK S : s \in Seq(S)
  BY DEF IsSequence
<1>2. /\ Len(Append(s, m)) = Len(s) + 1 /\ Len(s) \in Nat
      /\ Append(s, m)[Len(s) + 1] = m
  BY <1>1
<1> QED BY <1>2 DEF EndsUpload

LEMMA EndKept ==
    ASSUME NEW s, IsSequence(s), NEW m, m.fn = "disconnect", EndsUpload(s)
    PROVE  EndsUpload(Append(s, m))
<1>1. PICK S : s \in Seq(S)
  BY DEF IsSequence
<1>2. PICK i \in 1 .. Len(s) :
          /\ s[i].fn = "endUpload"
          /\ \A j \in 1 .. Len(s) : j > i => s[j].fn = "disconnect"
  BY DEF EndsUpload
<1>3. /\ Len(Append(s, m)) = Len(s) + 1 /\ Len(s) \in Nat
      /\ Append(s, m)[Len(s) + 1] = m
      /\ \A k \in 1 .. Len(s) : Append(s, m)[k] = s[k]
  BY <1>1
<1>4. i \in 1 .. Len(Append(s, m)) /\ Append(s, m)[i].fn = "endUpload"
  BY <1>2, <1>3
<1>5. ASSUME NEW j \in 1 .. Len(Append(s, m)), j > i
      PROVE  Append(s, m)[j].fn = "disconnect"
  BY <1>2, <1>3, <1>5
<1> QED BY <1>4, <1>5 DEF EndsUpload

(* The PLC serves the END_UPLOAD, or what was before it.                   *)
LEMMA EndServed ==
    ASSUME NEW s, IsSequence(s), s # <<>>, EndsUpload(s)
    PROVE  \/ Head(s).fn = "endUpload" /\ Only(Tail(s), {"disconnect"})
           \/ EndsUpload(Tail(s))
<1>1. PICK S : s \in Seq(S)
  BY DEF IsSequence
<1>2. PICK i \in 1 .. Len(s) :
          /\ s[i].fn = "endUpload"
          /\ \A j \in 1 .. Len(s) : j > i => s[j].fn = "disconnect"
  BY DEF EndsUpload
<1>3. /\ Len(Tail(s)) = Len(s) - 1 /\ Len(s) \in Nat /\ Head(s) = s[1]
      /\ \A k \in 1 .. Len(Tail(s)) : Tail(s)[k] = s[k + 1]
  BY <1>1
<1>4. CASE i = 1
  BY <1>2, <1>3, <1>4 DEF Only
<1>5. CASE i > 1
  <2>1. i - 1 \in 1 .. Len(Tail(s)) /\ Tail(s)[i - 1].fn = "endUpload"
    BY <1>2, <1>3, <1>5
  <2>2. ASSUME NEW j \in 1 .. Len(Tail(s)), j > i - 1
        PROVE  Tail(s)[j].fn = "disconnect"
    BY <1>2, <1>3, <2>2
  <2> QED BY <2>1, <2>2 DEF EndsUpload
<1> QED BY <1>4, <1>5

-----------------------------------------------------------------------------
(* The PLC during an upload                                                *)

LEMMA FieldChanged ==
    ASSUME NEW state, IsPlc(state), NEW field \in PlcFields, NEW value
    PROVE  /\ IsPlc([state EXCEPT ![field] = value])
           /\ [state EXCEPT ![field] = value][field] = value
           /\ \A other \in PlcFields \ {field} : [state EXCEPT ![field] = value][other] = state[other]
<1>1. PICK S : state \in [PlcFields -> S]
  BY DEF IsPlc
<1>2. [state EXCEPT ![field] = value] \in [PlcFields -> S \union {value}]
  BY <1>1
<1> QED BY <1>1, <1>2 DEF IsPlc

LEMMA FreshPlc == IsPlc(NewPlc) /\ NewPlc.stage = "idle"
<1>1. ASSUME NEW a, NEW b, NEW c, NEW d, NEW e
      PROVE  [stage |-> a, closed |-> b, bytes |-> c, reference |-> d, failed |-> e]
                 \in [PlcFields -> {a, b, c, d, e}]
  BY DEF PlcFields
<1> QED BY <1>1, Zenon DEF IsPlc, NewPlc

(* A request of an upload never makes the PLC ask.                         *)
LEMMA PlcServesUpload ==
    ASSUME IsPlc(plc), plc.stage # "asking", NEW mode, NEW chunk,
           NEW request, request.fn \in UploadRequests
    PROVE  LET after == PlcAfter(mode, chunk, request)
           IN  /\ IsPlc(after) /\ after.stage # "asking"
               /\ request.fn = "endUpload" => after.stage = "ended"
               /\ request.fn = "disconnect" => after = plc
<1>1. CASE request.fn = "startUpload"
  <2> DEFINE value == IF mode = "missing-block" THEN plc.stage ELSE "open"
  <2>1. PlcAfter(mode, chunk, request) = [plc EXCEPT !.stage = value]
    BY <1>1 DEF PlcAfter
  <2>2. value # "asking"
    OBVIOUS
  <2> HIDE DEF value
  <2> QED BY <1>1, <2>1, <2>2, FieldChanged DEF PlcFields
<1>2. CASE request.fn = "endUpload"
  <2>1. PlcAfter(mode, chunk, request) = [plc EXCEPT !.stage = "ended"]
    BY <1>2 DEF PlcAfter
  <2> QED BY <1>2, <2>1, FieldChanged DEF PlcFields
<1>3. CASE request.fn = "disconnect"
  BY <1>3 DEF PlcAfter
<1>4. CASE request.fn = "upload"
  <2> DEFINE stage  == IF Spoils(mode, Len(plc.bytes)) THEN "spoiled" ELSE plc.stage
             bytes  == plc.bytes \o UploadScript(mode, Len(plc.bytes), chunk).data
             failed == plc.failed \/ plc.stage # "open"
  <2>1. PlcAfter(mode, chunk, request) =
            [plc EXCEPT !.stage = stage, !.bytes = bytes, !.failed = failed]
    BY <1>4 DEF PlcAfter
  <2>2. stage # "asking"
    OBVIOUS
  <2> HIDE DEF stage, bytes, failed
  <2> DEFINE one == [plc EXCEPT !.stage = stage]
             two == [one EXCEPT !.bytes = bytes]
             all == [two EXCEPT !.failed = failed]
  <2>3. PlcAfter(mode, chunk, request) = all
    BY <2>1
  <2>4. IsPlc(one) /\ one.stage = stage
    BY FieldChanged DEF PlcFields
  <2> HIDE DEF one
  <2>5. IsPlc(two) /\ two.stage = stage
    BY <2>4, FieldChanged DEF PlcFields
  <2> HIDE DEF two
  <2>6. IsPlc(all) /\ all.stage = stage
    BY <2>5, FieldChanged DEF PlcFields
  <2> HIDE DEF all
  <2> QED BY <1>4, <2>2, <2>3, <2>6
<1> QED BY <1>1, <1>2, <1>3, <1>4 DEF UploadRequests

(* The only replies to a start are its acknowledgement and its refusal.    *)
LEMMA RepliesToStart ==
    ASSUME NEW mode, NEW chunk, NEW request, request.fn = "startUpload"
    PROVE  \E reply : /\ PlcReplies(mode, chunk, request) = <<reply>>
                      /\ reply.fn = "startUpload" /\ reply.shape \in {"exact", "refused"}
<1> DEFINE size  == DeclaredSize(mode)
           shape == IF mode = "missing-block" THEN "refused" ELSE "exact"
           reply == [Message("startUpload") EXCEPT !.size = size, !.shape = shape]
<1>1. Message("startUpload").shape = "exact"
  BY DEF Message
<1>2. PlcReplies(mode, chunk, request) = <<reply>>
  BY <1>1 DEF PlcReplies
<1>3. reply.fn = "startUpload" /\ reply.shape = shape
  <2> HIDE DEF size, shape
  <2> QED BY DEF Message
<1>4. shape \in {"exact", "refused"}
  OBVIOUS
<1> HIDE DEF reply, shape
<1> QED BY <1>2, <1>3, <1>4

-----------------------------------------------------------------------------
(* One step of an upload                                                   *)

LEMMA DisconnectIsRequest ==
    Message("disconnect").fn = "disconnect" /\ Message("endUpload").fn = "endUpload"
    /\ Message("upload").fn = "upload" /\ Message("startUpload").fn = "startUpload"
BY DEF Message

(* A disconnect is the last request, and an END_UPLOAD before it stays.    *)
LEMMA CloseKeepsEnd ==
    ASSUME BudgetInv, UploadHolds, Close, plc' = plc
    PROVE  /\ Only(toPlc', UploadRequests) /\ toClient' = <<>> /\ ~up'
           /\ EndSent => EndSent'
<1>1. ~up' /\ toClient' = <<>>
  BY DEF Close
<1>2. CASE up
  <2>1. toPlc' = Append(toPlc, Message("disconnect"))
    BY <1>2 DEF Close
  <2>2. Only(toPlc', UploadRequests)
    BY <2>1, OnlyAppended, DisconnectIsRequest DEF BudgetInv, UploadHolds, UploadRequests
  <2>3. EndsUpload(toPlc) => EndsUpload(toPlc')
    BY <2>1, EndKept, DisconnectIsRequest DEF BudgetInv
  <2>4. Only(toPlc, {"disconnect"}) => Only(toPlc', {"disconnect"})
    BY <2>1, OnlyAppended, DisconnectIsRequest DEF BudgetInv
  <2> QED BY <1>1, <2>2, <2>3, <2>4 DEF EndSent
<1>3. CASE ~up
  <2>1. toPlc' = toPlc
    BY <1>3 DEF Close
  <2> QED BY <1>1, <2>1 DEF UploadHolds, EndSent
<1> QED BY <1>2, <1>3

LEMMA FinishKeepsUpload ==
    ASSUME BudgetInv, UploadHolds, NEW kind, NEW says, Finish(kind, says),
           scenario' = scenario, plc' = plc, now' = now, deadline' = deadline,
           says \in {"start", "exchange", "refused"} \/ Expired(deadline, now) \/ EndSent
    PROVE  UploadHolds'
<1>1. Close /\ pc' = "failed" /\ failure'.says = says
  BY DEF Finish
<1>2. Only(toPlc', UploadRequests) /\ (EndSent => EndSent')
  BY <1>1, CloseKeepsEnd
<1> QED BY <1>1, <1>2 DEF UploadHolds, UploadStages, Excused

LEMMA FailedStartKeepsUpload ==
    ASSUME BudgetInv, UploadHolds, NEW kind, StartFails(kind),
           scenario' = scenario, plc' = plc, now' = now, deadline' = deadline
    PROVE  UploadHolds'
<1> DEFINE budget == RetryBudgetAfter(retries, FALSE, kind, "potentiallyMutating", TRUE)
<1>1. CASE budget = NoRetry
  BY <1>1, FinishKeepsUpload DEF StartFails
<1>2. CASE budget # NoRetry
  <2>1. Close /\ pc' = "reconnect"
    BY <1>2 DEF StartFails
  <2> QED BY <2>1, CloseKeepsEnd DEF UploadHolds, UploadStages
<1> QED BY <1>1, <1>2

LEMMA AbandonKeepsUpload ==
    ASSUME BudgetInv, UploadHolds, up, NEW fault, Abandon(fault),
           scenario' = scenario, plc' = plc
    PROVE  UploadHolds'
<1>1. pc' = "cleanup" /\ up' = up /\ toPlc' = toPlc
  BY DEF Abandon
<1> QED BY <1>1 DEF UploadHolds, UploadStages

LEMMA AnsweredKeepsUpload ==
    ASSUME BudgetInv, UploadHolds, NEW next \in {"next", "end", "done"}, Answered(next),
           scenario' = scenario, plc' = plc
    PROVE  UploadHolds'
BY DEF UploadHolds, UploadStages, Answered

LEMMA UploadBegins ==
    ASSUME BudgetInv, UploadHolds, Begin PROVE UploadHolds'
<1>1. scenario' = scenario /\ plc' = plc /\ pc = "begin"
  BY DEF Begin
<1>2. pc' = "start" /\ toPlc' = toPlc /\ toClient' = toClient
  BY Zenon DEF Begin, UploadHolds
<1> QED BY <1>1, <1>2 DEF UploadHolds, UploadStages

LEMMA UploadStarts ==
    ASSUME BudgetInv, Uploading, UploadHolds, SendStart PROVE UploadHolds'
<1>1. /\ toPlc' = Append(toPlc, Message("startUpload")) /\ pc' = "starting" /\ pc = "start"
      /\ toClient' = toClient /\ scenario' = scenario /\ plc' = plc
  BY DEF SendStart, Post, Step
<1>2. toPlc = <<>> /\ toClient = <<>>
  BY <1>1 DEF UploadHolds
<1>3. Only(toPlc', UploadRequests) /\ Only(toPlc', {"startUpload"})
  <2>1. ASSUME NEW F, "startUpload" \in F PROVE Only(toPlc', F)
    <3>1. Only(toPlc, F) /\ IsSequence(toPlc)
      BY <1>2, OnlyNothing, NothingSent
    <3> QED BY <1>1, <2>1, <3>1, OnlyAppended, DisconnectIsRequest
  <2> QED BY <2>1 DEF UploadRequests
<1>4. StartReplies(toClient')
  BY <1>1, <1>2, NothingSent DEF StartReplies
<1> QED BY <1>1, <1>3, <1>4 DEF UploadHolds, UploadStages

LEMMA UploadRestarts ==
    ASSUME BudgetInv, UploadHolds, Reconnect PROVE UploadHolds'
<1>1. /\ toPlc' = <<>> /\ toClient' = <<>> /\ pc' = "start"
      /\ plc' = NewPlc /\ scenario' = scenario
  BY DEF Reconnect
<1> QED BY <1>1, FreshPlc, OnlyNothing DEF UploadHolds, UploadStages

LEMMA UploadAsks ==
    ASSUME BudgetInv, UploadHolds, RequestFragment PROVE UploadHolds'
<1>1. /\ toPlc' = Append(toPlc, Message("upload")) /\ pc' = "fragment"
      /\ scenario' = scenario /\ plc' = plc
  BY DEF RequestFragment, Post
<1>2. Only(toPlc', UploadRequests)
  BY <1>1, OnlyAppended, DisconnectIsRequest DEF BudgetInv, UploadHolds, UploadRequests
<1> QED BY <1>1, <1>2 DEF UploadHolds, UploadStages

LEMMA UploadEnds ==
    ASSUME BudgetInv, UploadHolds, EndUpload PROVE UploadHolds'
<1>1. /\ toPlc' = Append(toPlc, Message("endUpload")) /\ pc' \in {"ending", "cleaning"}
      /\ scenario' = scenario /\ plc' = plc
  BY DEF EndUpload, Post
<1>2. Only(toPlc', UploadRequests)
  BY <1>1, OnlyAppended, DisconnectIsRequest DEF BudgetInv, UploadHolds, UploadRequests
<1>3. EndSent'
  BY <1>1, EndAppended, DisconnectIsRequest DEF BudgetInv, EndSent
<1> QED BY <1>1, <1>2, <1>3 DEF UploadHolds, UploadStages

LEMMA UploadIsTooLong ==
    ASSUME BudgetInv, Uploading, UploadHolds, TooManyFragments PROVE UploadHolds'
<1>1. up /\ pc = "next" /\ scenario' = scenario /\ plc' = plc
  BY DEF TooManyFragments, UploadHolds, UploadStages
<1>2. InUploadLoop
  BY <1>1 DEF InUploadLoop
<1>3. pc' = "cleanup" /\ up' = up /\ toPlc' = toPlc
  BY <1>2 DEF TooManyFragments, Refuse
<1> QED BY <1>1, <1>3 DEF UploadHolds, UploadStages

LEMMA CleanupIsSkipped ==
    ASSUME BudgetInv, UploadHolds, SkipCleanup PROVE UploadHolds'
<1>1. /\ pc = "cleanup" /\ (~up \/ Expired(deadline, now))
      /\ Finish(failure.kind, failure.says)
      /\ scenario' = scenario /\ plc' = plc /\ now' = now /\ deadline' = deadline
  BY DEF SkipCleanup
<1>2. failure.says \in {"start", "exchange", "refused"} \/ Expired(deadline, now)
  BY <1>1 DEF UploadHolds
<1> QED BY <1>1, <1>2, FinishKeepsUpload

LEMMA UploadReceives ==
    ASSUME BudgetInv, Uploading, UploadHolds, Receive PROVE UploadHolds'
<1> DEFINE reply == Head(toClient)
<1> HIDE DEF reply
<1>1. /\ toClient # <<>> /\ up
      /\ scenario' = scenario /\ plc' = plc /\ now' = now /\ deadline' = deadline
  BY DEF Receive
<1>2. ASSUME pc = "starting", ReceiveStart(reply) PROVE UploadHolds'
  <2>1. reply.fn = "startUpload" /\ reply.shape \in {"exact", "refused"}
    <3>1. PICK S : toClient \in Seq(S)
      BY DEF BudgetInv, IsSequence
    <3>2. reply = toClient[1] /\ 1 \in 1 .. Len(toClient)
      BY <1>1, <3>1 DEF reply
    <3> QED BY <1>2, <3>2 DEF UploadHolds, StartReplies
  <2>2. DecodeFault(reply, "startUpload") \in {"exact", "refused"}
    BY <2>1 DEF DecodeFault
  <2>3. CASE DecodeFault(reply, "startUpload") = "refused"
    <3>1. Finish(FaultKind("refused"), "refused")
      BY <1>2, <2>3 DEF ReceiveStart
    <3> QED BY <1>1, <3>1, FinishKeepsUpload
  <2>4. CASE DecodeFault(reply, "startUpload") = "exact"
    <3>1. Abandon("tooLarge") \/ Answered("next")
      BY <1>2, <2>4 DEF ReceiveStart
    <3> QED BY <1>1, <3>1, AbandonKeepsUpload, AnsweredKeepsUpload
  <2> QED BY <2>2, <2>3, <2>4
<1>3. ASSUME ReceiveFragment(reply) PROVE UploadHolds'
  BY <1>1, <1>3, AbandonKeepsUpload, AnsweredKeepsUpload DEF ReceiveFragment
<1>4. ASSUME pc \in {"ending", "cleaning"}, ReceiveEnd(reply) PROVE UploadHolds'
  <2>1. EndSent
    BY <1>4 DEF UploadHolds
  <2> QED BY <1>1, <1>4, <2>1, FinishKeepsUpload, AnsweredKeepsUpload DEF ReceiveEnd
<1>5. pc \notin {"fragmentJob", "endJob", "inserting"}
  BY DEF UploadHolds, UploadStages
<1> QED BY <1>2, <1>3, <1>4, <1>5 DEF Receive, reply

LEMMA UploadExchangeFails ==
    ASSUME BudgetInv, UploadHolds, NEW kind, ExchangeFails(kind)
    PROVE  UploadHolds'
<1>1. scenario' = scenario /\ plc' = plc /\ now' = now /\ deadline' = deadline
  BY DEF ExchangeFails
<1>2. ASSUME StartFails(kind) PROVE UploadHolds'
  BY <1>1, <1>2, FailedStartKeepsUpload
<1>3. ASSUME Close, failure' = [kind |-> kind, says |-> "exchange"], pc' = "cleanup"
      PROVE  UploadHolds'
  BY <1>1, <1>3, CloseKeepsEnd DEF UploadHolds, UploadStages
<1>4. ASSUME pc = "cleaning", Finish(failure.kind, failure.says) PROVE UploadHolds'
  <2>1. EndSent
    BY <1>4 DEF UploadHolds
  <2> QED BY <1>1, <1>4, <2>1, FinishKeepsUpload
<1>5. ASSUME Finish(kind, "exchange") PROVE UploadHolds'
  BY <1>1, <1>5, FinishKeepsUpload
<1> QED BY <1>2, <1>3, <1>4, <1>5 DEF ExchangeFails

LEMMA UploadServed ==
    ASSUME BudgetInv, Uploading, UploadHolds, PlcServes PROVE UploadHolds'
<1> DEFINE request == Head(toPlc)
           after   == PlcAfter(scenario.mode, scenario.chunk, request)
           replies == PlcReplies(scenario.mode, scenario.chunk, request)
<1>1. /\ toPlc # <<>> /\ toPlc' = Tail(toPlc) /\ plc' = after /\ ~plc.closed
      /\ up' = up /\ pc' = pc /\ scenario' = scenario /\ failure' = failure
      /\ now' = now /\ deadline' = deadline
  BY DEF PlcServes
<1>2. request.fn \in UploadRequests /\ Only(toPlc', UploadRequests)
  BY <1>1, OnlyConsumed DEF BudgetInv, UploadHolds
<1>3. /\ IsPlc(after) /\ after.stage # "asking"
      /\ request.fn = "endUpload" => after.stage = "ended"
      /\ request.fn = "disconnect" => after = plc
  BY <1>2, PlcServesUpload DEF UploadHolds
<1>4. toClient' = toClient \o replies \/ toClient' = <<>>
  BY DEF PlcServes
<1> HIDE DEF after
<1>5. ASSUME EndSent PROVE EndSent'
  <2>1. CASE EndsUpload(toPlc)
    BY <1>1, <1>3, <2>1, EndServed DEF BudgetInv, EndSent
  <2>2. CASE plc.stage = "ended" /\ Only(toPlc, {"disconnect"})
    <3>1. request.fn = "disconnect" /\ Only(toPlc', {"disconnect"})
      BY <1>1, <2>2, OnlyConsumed DEF BudgetInv
    <3> QED BY <1>1, <1>3, <2>2, <3>1 DEF EndSent
  <2> QED BY <1>1, <1>5, <2>1, <2>2 DEF EndSent
<1>6. ASSUME pc = "starting"
      PROVE  Only(toPlc', {"startUpload"}) /\ StartReplies(toClient')
  <2>1. request.fn = "startUpload" /\ Only(toPlc', {"startUpload"})
    BY <1>1, <1>6, OnlyConsumed DEF BudgetInv, UploadHolds
  <2>2. PICK reply : /\ replies = <<reply>>
                     /\ reply.fn = "startUpload" /\ reply.shape \in {"exact", "refused"}
    BY <2>1, RepliesToStart
  <2>3. PICK S : toClient \in Seq(S)
    BY DEF BudgetInv, IsSequence
  <2>4. StartReplies(toClient)
    BY <1>6 DEF UploadHolds
  <2> HIDE DEF replies, request
  <2>5. CASE toClient' = toClient \o replies
    <3>1. ASSUME NEW i \in 1 .. Len(toClient \o <<reply>>)
          PROVE  \/ i \in 1 .. Len(toClient) /\ (toClient \o <<reply>>)[i] = toClient[i]
                 \/ (toClient \o <<reply>>)[i] = reply
      BY <2>3
    <3> QED BY <2>1, <2>2, <2>4, <2>5, <3>1 DEF StartReplies
  <2>6. CASE toClient' = <<>>
    BY <2>1, <2>6, NothingSent DEF StartReplies
  <2> QED BY <1>4, <2>5, <2>6
<1> HIDE DEF request, replies
<1> QED BY <1>1, <1>2, <1>3, <1>5, <1>6 DEF UploadHolds, Excused

LEMMA UploadPlcCloses ==
    ASSUME BudgetInv, UploadHolds, PlcCloses PROVE UploadHolds'
<1>1. /\ plc' = [plc EXCEPT !.closed = TRUE] /\ toPlc' = toPlc /\ toClient' = toClient
      /\ up' = up /\ pc' = pc /\ scenario' = scenario /\ failure' = failure
      /\ now' = now /\ deadline' = deadline
  BY DEF PlcCloses
<1>2. /\ IsPlc([plc EXCEPT !.closed = TRUE])
      /\ [plc EXCEPT !.closed = TRUE].stage = plc.stage
      /\ [plc EXCEPT !.closed = TRUE].closed = TRUE
  <2>1. IsPlc(plc) /\ "closed" \in PlcFields /\ "stage" \in PlcFields \ {"closed"}
    BY DEF UploadHolds, PlcFields
  <2> QED BY <2>1, FieldChanged
<1>3. IsPlc(plc') /\ plc'.stage = plc.stage /\ plc'.closed
  BY <1>1, <1>2
<1> QED BY <1>1, <1>3 DEF UploadHolds, Excused, EndSent

(* The clock only adds to what excuses a failure.                          *)
LEMMA UploadWaits ==
    ASSUME BudgetInv, UploadHolds, Tick \/ UNCHANGED vars PROVE UploadHolds'
<1>1. /\ plc' = plc /\ toPlc' = toPlc /\ toClient' = toClient
      /\ up' = up /\ pc' = pc /\ scenario' = scenario /\ failure' = failure
      /\ now' \in {now, now + 1} /\ deadline' = deadline
  BY DEF Tick, vars
<1>2. Excused => Excused'
  BY <1>1 DEF BudgetInv, Excused, Expired, Deadline, NoDeadline
<1>3. EndSent => EndSent'
  BY <1>1 DEF EndSent
<1> QED BY <1>1, <1>2, <1>3 DEF UploadHolds

LEMMA EndStep == ASSUME EndInv, [Next]_vars PROVE EndInv'
<1>1. BudgetInv /\ BudgetInv'
  BY BudgetStep DEF EndInv
<1>2. ASSUME [Next]_vars PROVE scenario' = scenario
  BY <1>2 DEF Next, ClientStep, Begin, SendStart, Reconnect, ReconnectFails, RequestFragment,
     TooManyFragments, EndUpload, SkipCleanup, AwaitJob, SendSlice, SendEnded, SendInsert,
     Receive, ReceiveTimesOut, BudgetSpent, PeerClosed, ExchangeFails, PlcServes, PlcAsks,
     PlcCloses, Tick, vars
<1>3. SUFFICES ASSUME Uploading PROVE UploadHolds'
  BY <1>1, <1>2 DEF EndInv, Uploading
<1>4. UploadHolds
  BY <1>3 DEF EndInv
<1>5. pc \notin {"job", "slice", "ended", "insert"} /\ plc.stage # "asking"
  BY <1>4 DEF UploadHolds, UploadStages
<1>6. ~AwaitJob /\ ~SendSlice /\ ~SendEnded /\ ~SendInsert /\ ~PlcAsks
  BY <1>5 DEF AwaitJob, SendSlice, SendEnded, SendInsert, PlcAsks, Step
<1>7. ASSUME ReconnectFails PROVE UploadHolds'
  <2>1. PICK kind : StartFails(kind)
    BY <1>7 DEF ReconnectFails
  <2>2. scenario' = scenario /\ plc' = plc /\ now' = now /\ deadline' = deadline
    BY <1>7 DEF ReconnectFails
  <2> QED BY <1>1, <1>4, <2>1, <2>2, FailedStartKeepsUpload
<1>8. ASSUME ReceiveTimesOut \/ BudgetSpent \/ PeerClosed PROVE UploadHolds'
  <2>1. PICK kind : ExchangeFails(kind)
    BY <1>8 DEF ReceiveTimesOut, BudgetSpent, PeerClosed
  <2> QED BY <1>1, <1>4, <2>1, UploadExchangeFails
<1>9. ASSUME ClientStep PROVE UploadHolds'
  BY <1>1, <1>3, <1>4, <1>6, <1>7, <1>8, <1>9, UploadBegins, UploadStarts, UploadRestarts,
     UploadAsks, UploadIsTooLong, UploadEnds, CleanupIsSkipped, UploadReceives DEF ClientStep
<1> QED BY <1>1, <1>3, <1>4, <1>6, <1>9, UploadServed, UploadPlcCloses, UploadWaits DEF Next

LEMMA EndInit == Init => EndInv
<1> SUFFICES ASSUME Init PROVE EndInv
  OBVIOUS
<1>1. /\ toPlc = <<>> /\ toClient = <<>> /\ pc = "begin" /\ plc = NewPlc
      /\ scenario \in Scenarios
  BY DEF Init
<1>2. Uploading => scenario.mode \in UploadModes
  BY <1>1 DEF Scenarios, Uploading
<1>3. "invalid" \notin UploadModes
  BY DEF UploadModes, LegacyModes
<1> QED BY <1>1, <1>2, <1>3, BudgetInit, FreshPlc, OnlyNothing
        DEF EndInv, UploadHolds, UploadStages

(* An upload that is given up is ended: uploadBlockValue leaves no upload  *)
(* open on a live session, whatever went wrong with its fragments and      *)
(* however the PLC answers the cleanup.  What it cannot end are uploads    *)
(* that were never acknowledged, whose session is lost, or whose time is   *)
(* up.                                                                     *)
THEOREM UploadsAreEnded == Spec => []GivenUpIsEnded
<1>1. EndInv => GivenUpIsEnded
  <2> SUFFICES ASSUME EndInv, Uploading, pc = "failed", ~Excused
               PROVE  \/ plc.stage = "ended" \/ plc.closed
                      \/ \E i \in DOMAIN toPlc : toPlc[i].fn = "endUpload"
    BY DEF GivenUpIsEnded, Excused
  <2>1. EndSent
    BY DEF EndInv, UploadHolds
  <2>2. DOMAIN toPlc = 1 .. Len(toPlc)
    BY DEF EndInv, BudgetInv, IsSequence
  <2> QED BY <2>1, <2>2 DEF EndSent, EndsUpload
<1>2. EndInv /\ [Next]_vars => EndInv'
  BY EndStep
<1> QED BY <1>1, <1>2, EndInit, PTL DEF Spec

-----------------------------------------------------------------------------
(* What is sent and what is kept                                           *)

Requests == {"startUpload", "upload", "endUpload", "disconnect",
             "requestDownload", "fragment", "ended", "insert"}
Replies  == {"startUpload", "upload", "endUpload", "requestDownload", "start",
             "download", "downloadEnded"}
Shapes   == {"exact", "refused", "marker", "length", "flag", "extra", "address", "payload"}

Messages(functions) ==
    [fn : functions, shape : Shapes, reference : Nat, last : BOOLEAN, data : Seq(Nat), size : Int]

TransferState ==
    [expected : Int, data : Seq(Nat), offset : 0 .. BlockSize, count : 0 .. MaxFragments, job : Nat]

PlcState ==
    [stage : Stages, closed : BOOLEAN, bytes : Seq(Nat), reference : Nat, failed : BOOLEAN]

(* The types of all that a transfer consists of; the recursion over the    *)
(* fragments is entered only below its limit.                              *)
LinkTyped ==
    /\ up \in BOOLEAN /\ failure.kind \in ErrorKinds \union {"none"}
    /\ toPlc \in Seq(Messages(Requests)) /\ toClient \in Seq(Messages(Replies))

TypedInv ==
    /\ scenario \in Scenarios /\ pdu \in PduLengths /\ retries \in 0 .. StartRetries
    /\ now \in 0 .. MaxTime /\ deadline \in Deadline /\ receiveBy \in Deadline
    /\ LinkTyped
    /\ transfer \in TransferState /\ Len(transfer.data) <= UploadSafetyLimit
    /\ plc \in PlcState
    /\ pc \in {"fragment", "fragmentJob", "slice"} => transfer.count < MaxFragments
    /\ pc = "endJob" => transfer.offset = BlockSize

Alone(messages, fn) == Len(messages) = 1 /\ messages[1].fn = fn

Quiet == toPlc = <<>> /\ toClient = <<>>

Asked(fn) == Alone(toPlc, fn) /\ toClient = <<>>

Replied == toPlc = <<>> /\ Len(toClient) = 1

Good == scenario.mode \in {"good", "undeclared"}

Positions(bytes) == bytes = Bytes(1, Len(bytes)) /\ Len(bytes) <= BlockSize

(* A fragment is where the upload is, or in the one reply that is on its   *)
(* way.                                                                    *)
UploadContent ==
    /\ pc = "done" => up
    /\ pc = "reconnect" => transfer.data = <<>>
    /\ up =>
       /\ pc \in {"begin", "start"} => Quiet /\ plc.bytes = <<>> /\ transfer.data = <<>>
       /\ pc = "starting" => /\ Asked("startUpload") \/ Replied
                             /\ plc.bytes = <<>> /\ transfer.data = <<>>
       /\ pc \in {"next", "end", "done"} => Quiet /\ plc.bytes = transfer.data
       /\ pc = "fragment" =>
             \/ Asked("upload") /\ plc.bytes = transfer.data
             \/ /\ Replied /\ plc.bytes = transfer.data \o toClient[1].data
                /\ Good /\ toClient[1].last => plc.bytes = Block
       /\ pc = "ending" => /\ Asked("endUpload") \/ (Replied /\ plc.stage = "ended")
                           /\ plc.bytes = transfer.data
       /\ pc \in {"starting", "next", "fragment"} /\ Good => Positions(plc.bytes)
       /\ pc \in {"end", "ending", "done"} /\ Good => plc.bytes = Block
       /\ pc = "done" => plc.stage = "ended" /\ transfer.expected \in {NoSize, Len(transfer.data)}

(* The end of a fragment on its way to the PLC.                            *)
Carries(message, last) == message.data = Bytes(Len(plc.bytes) + 1, last)

DownloadStages == {"begin", "start", "starting", "reconnect", "job", "fragmentJob", "endJob",
                   "slice", "ended", "insert", "inserting", "done", "failed"}

DownloadRequests == {"requestDownload", "fragment", "ended", "insert", "disconnect"}

(* On its way to the PLC, on a connection that may be closed already.      *)
InOrder ==
    \A i \in 1 .. Len(toPlc) :
        /\ toPlc[i].fn \in DownloadRequests
        /\ toPlc[i].fn = "fragment" =>
              i = 1 /\ \E last \in Len(plc.bytes) .. BlockSize : Carries(toPlc[i], last)
        /\ toPlc[i].fn \in {"ended", "insert"} => plc.bytes = Block

Sent(last) == toPlc = <<>> /\ plc.bytes = Bytes(1, last)

(* The PLC asks for what comes next only when it has what came before.     *)
DownloadContent ==
    /\ pc \in DownloadStages
    /\ Positions(plc.bytes)
    /\ plc.stage = "inserted" => plc.bytes = Block
    /\ InOrder
    /\ pc = "done" => up
    /\ pc = "reconnect" => transfer.offset = 0
    /\ pc \in {"reconnect", "failed"} => ~up
    /\ up =>
       /\ plc.stage = "asking" =>
             Sent(transfer.offset) /\ pc \in {"starting", "job", "fragmentJob", "endJob"}
       /\ pc \in {"begin", "start"} =>
             Quiet /\ plc.stage = "idle" /\ plc.bytes = <<>> /\ transfer.offset = 0
       /\ pc = "starting" =>
             /\ plc.bytes = <<>> /\ transfer.offset = 0
             /\ toClient # <<>> => toClient[1].size = NoSize
             /\ \/ Asked("requestDownload") /\ plc.stage = "idle"
                \/ Replied
                \/ toPlc = <<>> /\ Len(toClient) = 2 /\ plc.stage # "asking"
       /\ pc \in {"job", "fragmentJob", "endJob"} =>
             \/ toPlc = <<>> /\ toClient = <<>>
             \/ /\ Asked("fragment") /\ plc.stage # "asking"
                /\ Carries(toPlc[1], transfer.offset) /\ Len(plc.bytes) <= transfer.offset
             \/ Replied /\ plc.stage # "asking" /\ plc.bytes = Bytes(1, transfer.offset)
       /\ pc \in {"slice", "ended"} =>
             Quiet /\ plc.stage # "asking" /\ plc.bytes = Bytes(1, transfer.offset)
       /\ pc = "ended" => transfer.offset = BlockSize
       /\ pc = "insert" => /\ toClient = <<>> /\ plc.stage # "asking" /\ plc.bytes = Block
                           /\ toPlc = <<>> \/ Alone(toPlc, "ended")
       /\ pc = "inserting" =>
             /\ plc.stage # "asking" /\ plc.bytes = Block
             /\ \/ Asked("insert")
                \/ Len(toPlc) = 2 /\ toPlc[1].fn = "ended" /\ toPlc[2].fn = "insert" /\ toClient = <<>>
                \/ Replied /\ (toClient[1].shape = "exact" => plc.stage = "inserted")
       /\ pc = "done" => toPlc = <<>> /\ plc.stage = "inserted"

ContentInv ==
    /\ EndInv /\ TypedInv
    /\ Uploading  => UploadContent
    /\ ~Uploading => DownloadContent

-----------------------------------------------------------------------------
(* Bytes and messages                                                      *)

LEMMA BytesTyped ==
    ASSUME NEW first \in Nat, NEW last \in Nat
    PROVE  /\ Bytes(first, last) \in Seq(Nat)
           /\ last >= first => Len(Bytes(first, last)) = last - first + 1
           /\ last < first => Bytes(first, last) = <<>>
<1>1. CASE last >= first
  <2>1. last - first + 1 \in Nat
    BY <1>1
  <2>2. \A i \in 1 .. last - first + 1 : first + i - 1 \in Nat
    OBVIOUS
  <2> QED BY <1>1, <2>1, <2>2 DEF Bytes
<1>2. CASE last < first
  <2>1. 1 .. last - first + 1 = 1 .. 0
    BY <1>2
  <2>2. Bytes(first, last) = <<>>
    BY <2>1 DEF Bytes
  <2> QED BY <1>2, <2>2
<1> QED BY <1>1, <1>2

LEMMA FirstBytes ==
    ASSUME NEW n \in Nat
    PROVE  Bytes(1, n) \in Seq(Nat) /\ Len(Bytes(1, n)) = n /\ \A i \in 1 .. n : Bytes(1, n)[i] = i
<1>1. n - 1 + 1 = n
  OBVIOUS
<1> QED BY <1>1 DEF Bytes

(* What is served next continues what was served before.                   *)
LEMMA BytesJoin ==
    ASSUME NEW here \in Nat, NEW there \in Nat, here <= there
    PROVE  Bytes(1, here) \o Bytes(here + 1, there) = Bytes(1, there)
<1> DEFINE a == Bytes(1, here)
           b == Bytes(here + 1, there)
           c == Bytes(1, there)
<1>1. a \in Seq(Nat) /\ Len(a) = here /\ \A i \in 1 .. here : a[i] = i
  BY FirstBytes
<1>2. c \in Seq(Nat) /\ Len(c) = there /\ \A i \in 1 .. there : c[i] = i
  BY FirstBytes
<1>3. b \in Seq(Nat) /\ Len(b) = there - here /\ \A i \in 1 .. there - here : b[i] = here + i
  <2>1. there - (here + 1) + 1 = there - here /\ there - here \in Nat
    OBVIOUS
  <2>2. b = [i \in 1 .. there - here |-> here + 1 + i - 1]
    BY <2>1 DEF Bytes
  <2> HIDE DEF b
  <2>3. \A i \in 1 .. there - here : here + 1 + i - 1 \in Nat /\ here + 1 + i - 1 = here + i
    OBVIOUS
  <2> QED BY <2>1, <2>2, <2>3
<1> HIDE DEF a, b, c
<1>4. a \o b \in Seq(Nat) /\ Len(a \o b) = there
  <2>1. \A s, t \in Seq(Nat) : s \o t \in Seq(Nat) /\ Len(s \o t) = Len(s) + Len(t)
    OBVIOUS
  <2>2. here + (there - here) = there
    OBVIOUS
  <2> QED BY <1>1, <1>3, <2>1, <2>2
<1>5. ASSUME NEW i \in 1 .. there PROVE (a \o b)[i] = c[i]
  <2>1. CASE i <= here
    BY <1>1, <1>2, <1>3, <2>1
  <2>2. CASE i > here
    <3>1. (a \o b)[i] = b[i - here] /\ i - here \in 1 .. there - here
      BY <1>1, <1>3, <2>2
    <3> QED BY <1>2, <1>3, <3>1
  <2>3. i <= here \/ i > here
    OBVIOUS
  <2> QED BY <2>1, <2>2, <2>3, Zenon
<1>6. a \o b = c
  BY <1>2, <1>4, <1>5
<1> QED BY <1>6 DEF a, b, c

LEMMA BlockTyped == Block \in Seq(Nat) /\ Len(Block) = BlockSize /\ Block = Bytes(1, BlockSize)
BY BlockTransferAssumption, FirstBytes DEF Block

LEMMA MessageTyped ==
    ASSUME NEW F, NEW fn \in F
    PROVE  /\ Message(fn) \in Messages(F) /\ Message(fn).fn = fn /\ Message(fn).shape = "exact"
           /\ Message(fn).data = <<>> /\ Message(fn).size = NoSize
BY DEF Message, Messages, Shapes, NoSize

LEMMA FragmentTyped ==
    ASSUME NEW last \in BOOLEAN, NEW data \in Seq(Nat)
    PROVE  /\ Fragment(last, data) \in Messages(Replies)
           /\ Fragment(last, data).last = last /\ Fragment(last, data).data = data
<1> DEFINE plain == Message("upload")
           ended == [plain EXCEPT !.last = last]
           all   == [ended EXCEPT !.data = data]
<1>1. Fragment(last, data) = all
  BY DEF Fragment
<1>2. plain \in Messages(Replies)
  BY MessageTyped DEF Replies
<1> HIDE DEF plain
<1>3. ended \in Messages(Replies) /\ ended.last = last
  BY <1>2 DEF Messages
<1> HIDE DEF ended
<1>4. all \in Messages(Replies) /\ all.last = last /\ all.data = data
  BY <1>3 DEF Messages
<1> QED BY <1>1, <1>4

LEMMA MalformedTyped ==
    ASSUME NEW F, NEW message \in Messages(F), NEW shape \in Shapes
    PROVE  /\ Malformed(message, shape) \in Messages(F)
           /\ Malformed(message, shape).fn = message.fn /\ Malformed(message, shape).shape = shape
           /\ Malformed(message, shape).size = message.size
BY DEF Malformed, Messages

LEMMA ScriptTyped ==
    ASSUME NEW mode, NEW position \in Nat, NEW chunk \in Nat \ {0}
    PROVE  UploadScript(mode, position, chunk) \in Messages(Replies)
<1> DEFINE M == Messages(Replies)
           two == <<1, 2>>
           one == <<3>>
           next == <<position + 1>>
           last == position + chunk >= BlockSize
           end  == IF last THEN BlockSize ELSE position + chunk
<1>1. /\ <<>> \in Seq(Nat) /\ two \in Seq(Nat) /\ one \in Seq(Nat) /\ next \in Seq(Nat)
      /\ TRUE \in BOOLEAN /\ FALSE \in BOOLEAN /\ last \in BOOLEAN
  OBVIOUS
<1>2. BlockSize \in Nat /\ BlockSize + 1 \in Nat /\ end \in Nat /\ position + 1 \in Nat
  BY BlockTransferAssumption
<1>3. Bytes(1, BlockSize + 1) \in Seq(Nat) /\ Bytes(3, BlockSize + 1) \in Seq(Nat)
      /\ Bytes(position + 1, end) \in Seq(Nat) /\ Block \in Seq(Nat)
  <2> HIDE DEF end
  <2> QED BY <1>2, BytesTyped, BlockTyped
<1> HIDE DEF M, two, one, next, last, end
<1>4. /\ Fragment(TRUE, two) \in M /\ Fragment(FALSE, <<>>) \in M /\ Fragment(FALSE, two) \in M
      /\ Fragment(TRUE, Bytes(1, BlockSize + 1)) \in M /\ Fragment(FALSE, Block) \in M
      /\ Fragment(TRUE, one) \in M /\ Fragment(TRUE, Bytes(3, BlockSize + 1)) \in M
      /\ Fragment(FALSE, next) \in M /\ Fragment(last, Bytes(position + 1, end)) \in M
  BY <1>1, <1>3, FragmentTyped DEF M
<1>5. \A shape \in Shapes : Malformed(Fragment(TRUE, two), shape) \in M
  BY <1>4, MalformedTyped DEF M
<1>6. [Fragment(TRUE, two) EXCEPT !.fn = "startUpload"] \in M
  BY <1>4 DEF M, Messages, Replies
<1>7. /\ Malformed(Fragment(TRUE, two), "marker") \in M
      /\ Malformed(Fragment(TRUE, two), "length") \in M
      /\ Malformed(Fragment(TRUE, two), "flag") \in M
  BY <1>5 DEF Shapes
<1> DEFINE script == UploadScript(mode, position, chunk)
<1>8. \/ script = Malformed(Fragment(TRUE, two), "marker")
      \/ script = Malformed(Fragment(TRUE, two), "length")
      \/ script = Malformed(Fragment(TRUE, two), "flag")
      \/ script = [Fragment(TRUE, two) EXCEPT !.fn = "startUpload"]
      \/ script = Fragment(FALSE, <<>>) \/ script = Fragment(TRUE, two)
      \/ script = Fragment(TRUE, Bytes(1, BlockSize + 1)) \/ script = Fragment(FALSE, Block)
      \/ script = Fragment(FALSE, two) \/ script = Fragment(TRUE, one)
      \/ script = Fragment(TRUE, Bytes(3, BlockSize + 1))
      \/ script = Fragment(FALSE, next)
      \/ script = Fragment(last, Bytes(position + 1, end))
  BY DEF UploadScript, two, one, next, last, end
<1> HIDE DEF script
<1>9. script \in M
  BY <1>4, <1>6, <1>7, <1>8, Zenon
<1> QED BY <1>9 DEF script, M

(* A well-behaved PLC serves the next bytes of its block.                  *)
LEMMA GoodScript ==
    ASSUME NEW mode \in {"good", "undeclared"}, NEW position \in Nat, NEW chunk \in Nat \ {0}
    PROVE  LET last == position + chunk >= BlockSize
               end  == IF last THEN BlockSize ELSE position + chunk
           IN  UploadScript(mode, position, chunk) = Fragment(last, Bytes(position + 1, end))
BY DEF UploadScript, LegacyModes

LEMMA RepliesTyped ==
    ASSUME plc \in PlcState, NEW mode, NEW chunk \in Nat \ {0}, NEW request \in Messages(Requests),
           NEW replies, replies = PlcReplies(mode, chunk, request)
    PROVE  /\ replies \in Seq(Messages(Replies))
           /\ request.fn \in {"fragment", "ended", "disconnect"} => replies = <<>>
           /\ request.fn \notin {"fragment", "ended", "disconnect"} => Len(replies) = 1
           /\ request.fn = "upload" => replies[1] = UploadScript(mode, Len(plc.bytes), chunk)
           /\ request.fn = "requestDownload" => replies[1].size = NoSize
           /\ request.fn = "insert" /\ replies[1].shape = "exact" => mode # "insert-refused"
<1> DEFINE M == Messages(Replies)
           start == Message("startUpload")
           sized == [start EXCEPT !.size = DeclaredSize(mode)]
           shape == IF mode = "missing-block" THEN "refused" ELSE start.shape
           shaped == [sized EXCEPT !.shape = shape]
           script == UploadScript(mode, Len(plc.bytes), chunk)
<1>1. /\ \A fn \in Replies : /\ Message(fn) \in M /\ Message(fn).size = NoSize
                             /\ Message(fn).shape = "exact"
      /\ \A fn \in Replies, wrong \in Shapes :
            /\ Malformed(Message(fn), wrong) \in M /\ Malformed(Message(fn), wrong).size = NoSize
            /\ Malformed(Message(fn), wrong).shape = wrong
  <2>1. ASSUME NEW fn \in Replies
        PROVE  Message(fn) \in M /\ Message(fn).size = NoSize /\ Message(fn).shape = "exact"
    BY MessageTyped
  <2>2. ASSUME NEW fn \in Replies, NEW wrong \in Shapes
        PROVE  /\ Malformed(Message(fn), wrong) \in M /\ Malformed(Message(fn), wrong).size = NoSize
               /\ Malformed(Message(fn), wrong).shape = wrong
    BY <2>1, MalformedTyped
  <2> QED BY <2>1, <2>2
<1>2. script \in M
  <2>1. Len(plc.bytes) \in Nat
    BY DEF PlcState
  <2> QED BY <2>1, ScriptTyped
<1>3. shaped \in M
  <2>1. DeclaredSize(mode) \in Int
    BY BlockTransferAssumption DEF DeclaredSize, NoSize
  <2>2. start \in M /\ start.shape = "exact"
    BY <1>1 DEF Replies
  <2>3. shape \in Shapes
    BY <2>2 DEF Shapes
  <2> HIDE DEF start, shape
  <2>4. sized \in M
    BY <2>1, <2>2 DEF Messages
  <2> HIDE DEF sized
  <2> QED BY <2>3, <2>4 DEF Messages
<1>4. request.fn \in Requests
  BY DEF Messages
<1>5. \A m \in M : <<m>> \in Seq(M) /\ Len(<<m>>) = 1 /\ <<m>>[1] = m
  OBVIOUS
<1>6. <<>> \in Seq(M)
  OBVIOUS
<1> HIDE DEF M
<1>7. CASE request.fn = "startUpload"
  <2>1. replies = <<shaped>>
    BY <1>7 DEF PlcReplies
  <2> HIDE DEF shaped
  <2> QED BY <1>3, <1>5, <1>7, <2>1 DEF M
<1>8. CASE request.fn = "upload"
  <2>1. replies = <<script>>
    BY <1>8 DEF PlcReplies
  <2> HIDE DEF script
  <2>2. replies \in Seq(M) /\ Len(replies) = 1 /\ replies[1] = script
    BY <1>2, <1>5, <2>1
  <2> QED BY <1>8, <2>2 DEF M, script
<1>9. CASE request.fn = "endUpload"
  <2>1. \/ replies = <<Malformed(Message("endUpload"), "extra")>>
        \/ replies = <<Message("endUpload")>>
    BY <1>9 DEF PlcReplies
  <2>2. \E m \in M : replies = <<m>>
    BY <1>1, <2>1 DEF Replies, Shapes
  <2> QED BY <1>5, <1>9, <2>2 DEF M
<1>10. CASE request.fn = "requestDownload"
  <2>1. \/ replies = <<Malformed(Message("requestDownload"), "extra")>>
        \/ replies = <<Message("requestDownload")>>
    BY <1>10 DEF PlcReplies
  <2>2. \E m \in M : replies = <<m>> /\ m.size = NoSize
    BY <1>1, <2>1 DEF Replies, Shapes
  <2> QED BY <1>5, <1>10, <2>2 DEF M
<1>11. CASE request.fn = "insert"
  <2>1. \/ replies = <<Malformed(Message("start"), "refused")>>
        \/ replies = <<Message("start")>> /\ mode # "insert-refused"
    BY <1>11 DEF PlcReplies
  <2>2. \E m \in M : replies = <<m>> /\ (m.shape = "exact" => mode # "insert-refused")
    BY <1>1, <2>1 DEF Replies, Shapes
  <2> QED BY <1>5, <1>11, <2>2 DEF M
<1>12. CASE request.fn \in {"fragment", "ended", "disconnect"}
  <2>1. replies = <<>>
    BY <1>12 DEF PlcReplies
  <2> QED BY <1>6, <1>12, <2>1 DEF M
<1> QED BY <1>4, <1>7, <1>8, <1>9, <1>10, <1>11, <1>12 DEF Requests

(* What the PLC knows after a request.                                     *)
Effect(mode, chunk, request, after) ==
    /\ after \in PlcState
    /\ request.fn = "upload" =>
          after.bytes = plc.bytes \o UploadScript(mode, Len(plc.bytes), chunk).data
    /\ request.fn = "fragment" => after.bytes = plc.bytes \o request.data /\ after.stage = "asking"
    /\ request.fn \notin {"upload", "fragment"} => after.bytes = plc.bytes
    /\ request.fn \in {"endUpload", "ended"} => after.stage = "ended"
    /\ request.fn = "insert" =>
          after.stage = IF mode = "insert-refused" THEN plc.stage ELSE "inserted"
    /\ request.fn \in {"startUpload", "upload", "requestDownload"} =>
          after.stage = plc.stage \/ after.stage \in {"open", "spoiled", "asking"}
    /\ request.fn = "disconnect" => after = plc

LEMMA AfterTyped ==
    ASSUME plc \in PlcState, NEW mode, NEW chunk \in Nat \ {0}, NEW request \in Messages(Requests)
    PROVE  Effect(mode, chunk, request, PlcAfter(mode, chunk, request))
<1> DEFINE after == PlcAfter(mode, chunk, request)
<1>0. after = PlcAfter(mode, chunk, request)
  OBVIOUS
<1> HIDE DEF after
<1> USE <1>0 DEF Effect
<1>1. request.fn \in Requests /\ request.data \in Seq(Nat)
  BY DEF Messages
<1>2. /\ plc.stage \in Stages /\ plc.bytes \in Seq(Nat) /\ plc.failed \in BOOLEAN
      /\ plc.reference \in Nat /\ plc.reference + 1 \in Nat
  BY DEF PlcState
<1>3. CASE request.fn = "startUpload"
  <2> DEFINE stage == IF mode = "missing-block" THEN plc.stage ELSE "open"
  <2>1. after = [plc EXCEPT !.stage = stage]
    BY <1>3 DEF PlcAfter
  <2>2. stage \in Stages /\ (stage = plc.stage \/ stage = "open")
    BY <1>2 DEF Stages
  <2> HIDE DEF stage
  <2> QED BY <1>3, <2>1, <2>2 DEF PlcState
<1>4. CASE request.fn = "upload"
  <2> DEFINE stage  == IF Spoils(mode, Len(plc.bytes)) THEN "spoiled" ELSE plc.stage
             bytes  == plc.bytes \o UploadScript(mode, Len(plc.bytes), chunk).data
             failed == plc.failed \/ plc.stage # "open"
             one    == [plc EXCEPT !.stage = stage]
             two    == [one EXCEPT !.bytes = bytes]
             all    == [two EXCEPT !.failed = failed]
  <2>1. after = all
    BY <1>4 DEF PlcAfter
  <2>2. stage \in Stages /\ (stage = plc.stage \/ stage = "spoiled")
    BY <1>2 DEF Stages
  <2>3. bytes \in Seq(Nat)
    <3>1. UploadScript(mode, Len(plc.bytes), chunk) \in Messages(Replies)
      BY <1>2, ScriptTyped
    <3>2. UploadScript(mode, Len(plc.bytes), chunk).data \in Seq(Nat)
      BY <3>1 DEF Messages
    <3>3. \A s, t \in Seq(Nat) : s \o t \in Seq(Nat)
      OBVIOUS
    <3> QED BY <1>2, <3>2, <3>3
  <2>4. failed \in BOOLEAN
    OBVIOUS
  <2>5. bytes = plc.bytes \o UploadScript(mode, Len(plc.bytes), chunk).data
    OBVIOUS
  <2> HIDE DEF stage, bytes, failed
  <2>6. one \in PlcState /\ one.stage = stage
    BY <2>2 DEF PlcState
  <2> HIDE DEF one
  <2>7. two \in PlcState /\ two.stage = stage /\ two.bytes = bytes
    BY <2>3, <2>6 DEF PlcState
  <2> HIDE DEF two
  <2>8. all \in PlcState /\ all.stage = stage /\ all.bytes = bytes
    BY <2>4, <2>7 DEF PlcState
  <2> HIDE DEF all
  <2> QED BY <1>4, <2>1, <2>2, <2>5, <2>8
<1>5. CASE request.fn = "endUpload"
  <2>1. after = [plc EXCEPT !.stage = "ended"]
    BY <1>5 DEF PlcAfter
  <2> QED BY <1>5, <2>1 DEF PlcState, Stages
<1>6. CASE request.fn = "requestDownload"
  <2> DEFINE stage == IF mode \in {"ack-extra", "ack-data"} THEN "spoiled" ELSE "asking"
  <2>1. after = [plc EXCEPT !.stage = stage]
    BY <1>6 DEF PlcAfter
  <2>2. stage \in Stages /\ stage \in {"spoiled", "asking"}
    BY DEF Stages
  <2> HIDE DEF stage
  <2> QED BY <1>6, <2>1, <2>2 DEF PlcState
<1>7. CASE request.fn = "fragment"
  <2> DEFINE bytes  == plc.bytes \o request.data
             closed == mode = "interrupted"
             failed == plc.failed \/ request.reference # plc.reference \/ plc.stage # "asked"
                       \/ Len(request.data) + Overhead > pdu
             one    == [plc EXCEPT !.bytes = bytes]
             two    == [one EXCEPT !.reference = plc.reference + 1]
             three  == [two EXCEPT !.stage = "asking"]
             four   == [three EXCEPT !.closed = closed]
             all    == [four EXCEPT !.failed = failed]
  <2>1. after = all
    BY <1>7 DEF PlcAfter
  <2>2. bytes \in Seq(Nat)
    <3>1. \A s, t \in Seq(Nat) : s \o t \in Seq(Nat)
      OBVIOUS
    <3> QED BY <1>1, <1>2, <3>1
  <2>3. failed \in BOOLEAN /\ closed \in BOOLEAN
    OBVIOUS
  <2>4. bytes = plc.bytes \o request.data
    OBVIOUS
  <2> HIDE DEF bytes, closed, failed
  <2>5. one \in PlcState /\ one.bytes = bytes
    BY <2>2 DEF PlcState
  <2> HIDE DEF one
  <2>6. two \in PlcState /\ two.bytes = bytes
    BY <1>2, <2>5 DEF PlcState
  <2> HIDE DEF two
  <2>7. three \in PlcState /\ three.bytes = bytes /\ three.stage = "asking"
    BY <2>6 DEF PlcState, Stages
  <2> HIDE DEF three
  <2>8. four \in PlcState /\ four.bytes = bytes /\ four.stage = "asking"
    BY <2>3, <2>7 DEF PlcState
  <2> HIDE DEF four
  <2>9. all \in PlcState /\ all.bytes = bytes /\ all.stage = "asking"
    BY <2>3, <2>8 DEF PlcState
  <2> HIDE DEF all
  <2> QED BY <1>7, <2>1, <2>4, <2>9
<1>8. CASE request.fn = "ended"
  <2> DEFINE failed == plc.failed \/ plc.stage # "asked" \/ request.reference # plc.reference
             one    == [plc EXCEPT !.stage = "ended"]
             all    == [one EXCEPT !.failed = failed]
  <2>1. after = all
    BY <1>8 DEF PlcAfter
  <2>2. failed \in BOOLEAN
    OBVIOUS
  <2> HIDE DEF failed
  <2>3. one \in PlcState /\ one.stage = "ended" /\ one.bytes = plc.bytes
    BY DEF PlcState, Stages
  <2> HIDE DEF one
  <2>4. all \in PlcState /\ all.stage = "ended" /\ all.bytes = plc.bytes
    BY <2>2, <2>3 DEF PlcState
  <2> HIDE DEF all
  <2> QED BY <1>8, <2>1, <2>4
<1>9. CASE request.fn = "insert"
  <2> DEFINE stage  == IF mode = "insert-refused" THEN plc.stage ELSE "inserted"
             failed == plc.failed \/ plc.stage # "ended"
             one    == [plc EXCEPT !.stage = stage]
             all    == [one EXCEPT !.failed = failed]
  <2>1. after = all
    BY <1>9 DEF PlcAfter
  <2>2. failed \in BOOLEAN
    OBVIOUS
  <2>3. stage \in Stages /\ stage = IF mode = "insert-refused" THEN plc.stage ELSE "inserted"
    BY <1>2 DEF Stages
  <2> HIDE DEF failed, stage
  <2>4. one \in PlcState /\ one.stage = stage /\ one.bytes = plc.bytes
    BY <2>3 DEF PlcState
  <2> HIDE DEF one
  <2>5. all \in PlcState /\ all.stage = stage /\ all.bytes = plc.bytes
    BY <2>2, <2>4 DEF PlcState
  <2> HIDE DEF all
  <2> QED BY <1>9, <2>1, <2>3, <2>5
<1>10. CASE request.fn = "disconnect"
  BY <1>10 DEF PlcAfter
<1>11. Effect(mode, chunk, request, after)
  BY <1>1, <1>3, <1>4, <1>5, <1>6, <1>7, <1>8, <1>9, <1>10 DEF Requests
<1> QED BY <1>11 DEF after

-----------------------------------------------------------------------------
(* Every step keeps the types                                              *)

LEMMA TypedMeansTypeOK == TypedInv => TypeOK
<1> SUFFICES ASSUME TypedInv PROVE TypeOK
  OBVIOUS
<1>1. /\ transfer.offset \in 0 .. BlockSize /\ transfer.count <= MaxFragments
      /\ plc.stage \in Stages /\ plc.closed \in BOOLEAN /\ plc.failed \in BOOLEAN
  BY BlockTransferAssumption DEF TypedInv, TransferState, PlcState
<1>2. {plc.closed, plc.failed} \subseteq BOOLEAN /\ {deadline, receiveBy} \subseteq Deadline
  BY <1>1, Zenon DEF TypedInv
<1> QED BY <1>1, <1>2 DEF TypedInv, LinkTyped, TypeOK

LEMMA SentTyped ==
    ASSUME NEW queue \in Seq(Messages(Requests)), NEW message \in Messages(Requests)
    PROVE  Append(queue, message) \in Seq(Messages(Requests))
<1> DEFINE M == Messages(Requests)
<1> HIDE DEF M
<1> QED BY DEF M

LEMMA TakenTyped ==
    ASSUME NEW queue \in Seq(Messages(Replies)), queue # <<>>
    PROVE  /\ Tail(queue) \in Seq(Messages(Replies)) /\ Head(queue) \in Messages(Replies)
           /\ Head(queue) = queue[1] /\ Len(queue) \in Nat \ {0}
           /\ Len(Tail(queue)) = Len(queue) - 1
           /\ \A i \in 1 .. Len(queue) - 1 : Tail(queue)[i] = queue[i + 1]
<1> DEFINE M == Messages(Replies)
<1> HIDE DEF M
<1> QED BY DEF M

LEMMA ServedTyped ==
    ASSUME NEW queue \in Seq(Messages(Requests)), queue # <<>>
    PROVE  /\ Tail(queue) \in Seq(Messages(Requests)) /\ Head(queue) \in Messages(Requests)
           /\ Head(queue) = queue[1] /\ Len(queue) \in Nat \ {0}
           /\ Len(Tail(queue)) = Len(queue) - 1
           /\ \A i \in 1 .. Len(queue) - 1 : Tail(queue)[i] = queue[i + 1]
<1> DEFINE M == Messages(Requests)
<1> HIDE DEF M
<1> QED BY DEF M

LEMMA NothingTyped == ASSUME NEW F PROVE <<>> \in Seq(Messages(F))
OBVIOUS

LEMMA CloseTyped ==
    ASSUME TypedInv, Close
    PROVE  /\ toPlc' \in Seq(Messages(Requests)) /\ toClient' \in Seq(Messages(Replies)) /\ up' = FALSE
<1>1. Message("disconnect") \in Messages(Requests)
  BY MessageTyped DEF Requests
<1> QED BY <1>1, SentTyped, NothingTyped DEF Close, TypedInv, LinkTyped

LEMMA FinishTyped ==
    ASSUME TypedInv, NEW kind \in ErrorKinds \union {"none"}, NEW says, Finish(kind, says)
    PROVE  LinkTyped' /\ pc' = "failed"
<1>1. failure'.kind = kind
  BY DEF Finish
<1> QED BY <1>1, CloseTyped DEF Finish, LinkTyped

LEMMA FailedStartTyped ==
    ASSUME TypedInv, NEW kind \in ErrorKinds, StartFails(kind)
    PROVE  LinkTyped' /\ pc' \in {"failed", "reconnect"} /\ retries' \in 0 .. StartRetries
<1> DEFINE budget == RetryBudgetAfter(retries, FALSE, kind, "potentiallyMutating", TRUE)
<1>1. CASE budget = NoRetry
  BY <1>1, FinishTyped DEF StartFails, TypedInv
<1>2. CASE budget # NoRetry
  <2>1. budget \in 0 .. StartRetries
    <3>1. retries # 0 /\ budget = retries - 1
      BY <1>2, Zenon DEF RetryBudgetAfter
    <3> HIDE DEF budget
    <3>2. retries \in 0 .. StartRetries /\ StartRetries \in Nat
      BY BlockTransferAssumption DEF TypedInv
    <3> QED BY <3>1, <3>2
  <2>2. Close /\ retries' = budget /\ pc' = "reconnect" /\ failure' = failure
    BY <1>2 DEF StartFails
  <2> QED BY <2>1, <2>2, CloseTyped DEF LinkTyped, TypedInv
<1> QED BY <1>1, <1>2

LEMMA AbandonTyped ==
    ASSUME TypedInv, toClient # <<>>, NEW fault, Abandon(fault)
    PROVE  LinkTyped' /\ pc' = "cleanup"
<1>1. failure'.kind = "protocol"
  BY DEF Abandon
<1> QED BY <1>1, TakenTyped DEF Abandon, LinkTyped, TypedInv, ErrorKinds

LEMMA AnsweredTyped ==
    ASSUME TypedInv, toClient # <<>>, NEW next, Answered(next)
    PROVE  LinkTyped' /\ pc' = next
BY TakenTyped DEF Answered, LinkTyped, TypedInv

LEMMA PostTyped ==
    ASSUME TypedInv, NEW message \in Messages(Requests), NEW wait, Post(message, wait),
           UNCHANGED <<up, failure, toClient>>
    PROVE  LinkTyped' /\ pc' = wait /\ receiveBy' \in Deadline
<1>1. now \in Nat /\ deadline \in Deadline
  BY BlockTransferAssumption DEF TypedInv
<1> QED BY <1>1, SentTyped, WaitsAreCut DEF Post, LinkTyped, TypedInv

(* Upload.accept keeps within the limit.                                   *)
LEMMA AcceptedFits ==
    ASSUME transfer.data \in Seq(Nat), NEW reply, reply.data \in Seq(Nat)
    PROVE  /\ Assembled(reply) \in Seq(Nat)
           /\ AcceptFault(reply) = "exact" => Len(Assembled(reply)) <= UploadSafetyLimit
<1> DEFINE old == transfer.data
           new == reply.data
<1>1. old \in Seq(Nat) /\ new \in Seq(Nat) /\ Assembled(reply) = old \o new
  BY DEF Assembled
<1>2. Len(old) + Len(new) > UploadSafetyLimit => AcceptFault(reply) # "exact"
  BY DEF AcceptFault
<1> HIDE DEF old, new
<1>3. old \o new \in Seq(Nat) /\ Len(old \o new) = Len(old) + Len(new)
  BY <1>1
<1>4. Len(old) \in Nat /\ Len(new) \in Nat /\ UploadSafetyLimit \in Nat
  BY <1>1, BlockTransferAssumption
<1>5. ~(Len(old) + Len(new) > UploadSafetyLimit) => Len(old) + Len(new) <= UploadSafetyLimit
  BY <1>4
<1> QED BY <1>1, <1>2, <1>3, <1>5, Zenon

LEMMA ReceiveTyped ==
    ASSUME TypedInv, Receive
    PROVE  LinkTyped' /\ transfer' \in TransferState /\ Len(transfer'.data) <= UploadSafetyLimit
           /\ pc' \in {"failed", "cleanup", "next", "end", "job", "slice", "ended", "done"}
           /\ (pc' = "slice" => transfer'.count < MaxFragments)
<1> DEFINE reply == Head(toClient)
<1>1. toClient # <<>> /\ UNCHANGED plc
  BY DEF Receive
<1>2. reply \in Messages(Replies)
  BY <1>1, TakenTyped DEF TypedInv, LinkTyped
<1>3. /\ reply.fn \in Replies /\ reply.shape \in Shapes /\ reply.reference \in Nat
      /\ reply.data \in Seq(Nat) /\ reply.size \in Int /\ reply.last \in BOOLEAN
  BY <1>2 DEF Messages
<1>4. /\ transfer \in TransferState /\ Len(transfer.data) <= UploadSafetyLimit
      /\ transfer.count \in 0 .. MaxFragments /\ MaxFragments \in Nat /\ transfer.data \in Seq(Nat)
      /\ Len(transfer.data) \in Nat
  BY BlockTransferAssumption DEF TypedInv, TransferState
<1> DEFINE Fine == /\ LinkTyped' /\ transfer' \in TransferState /\ Len(transfer'.data) <= UploadSafetyLimit
                   /\ pc' \in {"failed", "cleanup", "next", "end", "job", "slice", "ended", "done"}
                   /\ (pc' = "slice" => transfer'.count < MaxFragments)
<1> HIDE DEF reply
<1>5. ASSUME NEW kind \in ErrorKinds \union {"none"}, NEW says, Finish(kind, says), transfer' = transfer PROVE Fine
  BY <1>4, <1>5, FinishTyped
<1>6. ASSUME NEW fault, Abandon(fault), transfer' = transfer PROVE Fine
  BY <1>1, <1>4, <1>6, AbandonTyped
<1>7. ASSUME NEW next \in {"next", "end", "job", "ended", "done"}, Answered(next), transfer' = transfer
      PROVE Fine
  BY <1>1, <1>4, <1>7, AnsweredTyped
<1>8. "protocol" \in ErrorKinds /\ \A fault : FaultKind(fault) \in ErrorKinds
  BY DEF FaultKind, ErrorKinds
<1>9. failure.kind \in ErrorKinds \union {"none"}
  BY DEF TypedInv, LinkTyped
<1>10. ASSUME ReceiveStart(reply) PROVE Fine
  <2> DEFINE known == [transfer EXCEPT !.expected = reply.size]
             fault == DecodeFault(reply, IF Uploading THEN "startUpload" ELSE "requestDownload")
  <2>1. \/ Finish(FaultKind(fault), fault) /\ transfer' = transfer
        \/ /\ transfer' = known
           /\ \/ Abandon("tooLarge") \/ Answered("next") \/ Answered("job")
    BY <1>10, Zenon DEF ReceiveStart
  <2>2. known \in TransferState /\ known.data = transfer.data
    BY <1>3, <1>4 DEF TransferState
  <2> HIDE DEF known, fault
  <2>3. CASE transfer' = known /\ (Abandon("tooLarge") \/ Answered("next") \/ Answered("job"))
    BY <1>1, <1>4, <2>2, <2>3, AbandonTyped, AnsweredTyped
  <2> QED BY <1>5, <1>8, <2>1, <2>3
<1>11. ASSUME ReceiveFragment(reply), pc = "fragment" PROVE Fine
  <2> DEFINE fault == IF DecodeFault(reply, "upload") # "exact"
                      THEN DecodeFault(reply, "upload") ELSE AcceptFault(reply)
             more  == [transfer EXCEPT !.data = Assembled(reply)]
             taken == [more EXCEPT !.count = transfer.count + 1]
  <2>1. \/ Abandon(fault) /\ transfer' = transfer
        \/ /\ fault = "exact" /\ transfer' = taken
           /\ Answered("next") \/ Answered("end")
    BY <1>11 DEF ReceiveFragment
  <2>2. /\ Assembled(reply) \in Seq(Nat)
        /\ AcceptFault(reply) = "exact" => Len(Assembled(reply)) <= UploadSafetyLimit
    BY <1>3, <1>4, AcceptedFits
  <2>3. fault = "exact" => AcceptFault(reply) = "exact"
    OBVIOUS
  <2>4. transfer.count < MaxFragments
    BY <1>11 DEF TypedInv
  <2>5. more \in TransferState /\ more.data = Assembled(reply) /\ more.count = transfer.count
    BY <1>4, <2>2 DEF TransferState
  <2> HIDE DEF more
  <2>6. taken \in TransferState /\ taken.data = Assembled(reply)
    <3>1. transfer.count + 1 \in 0 .. MaxFragments
      BY <1>4, <2>4
    <3> QED BY <2>5, <3>1 DEF TransferState
  <2> HIDE DEF taken, fault
  <2>7. CASE fault = "exact" /\ transfer' = taken /\ (Answered("next") \/ Answered("end"))
    BY <1>1, <2>2, <2>3, <2>6, <2>7, AnsweredTyped
  <2> QED BY <1>6, <2>1, <2>7
<1>12. ASSUME ReceiveEnd(reply), transfer' = transfer PROVE Fine
  BY <1>5, <1>7, <1>8, <1>9, <1>12 DEF ReceiveEnd
<1>13. ASSUME ReceiveJob(reply), pc \in {"fragmentJob", "endJob"} PROVE Fine
  <2> DEFINE asked == [transfer EXCEPT !.job = reply.reference]
             fault == DecodeFault(reply, IF pc = "fragmentJob" THEN "download" ELSE "downloadEnded")
  <2>1. \/ Finish("protocol", fault) /\ transfer' = transfer
        \/ /\ transfer' = asked
           /\ Answered(IF pc = "fragmentJob" THEN "slice" ELSE "ended")
    BY <1>13, Zenon DEF ReceiveJob
  <2>2. asked \in TransferState /\ asked.data = transfer.data /\ asked.count = transfer.count
    BY <1>3, <1>4 DEF TransferState
  <2>3. pc = "fragmentJob" => transfer.count < MaxFragments
    BY DEF TypedInv
  <2> HIDE DEF asked, fault
  <2>4. CASE transfer' = asked /\ Answered(IF pc = "fragmentJob" THEN "slice" ELSE "ended")
    BY <1>1, <1>4, <1>13, <2>2, <2>3, <2>4, AnsweredTyped
  <2> QED BY <1>5, <1>8, <2>1, <2>4
<1>14. ASSUME ReceiveInsert(reply), transfer' = transfer PROVE Fine
  BY <1>5, <1>7, <1>8, <1>14 DEF ReceiveInsert
<1>15. Fine
  BY <1>10, <1>11, <1>12, <1>13, <1>14 DEF Receive, reply
<1> QED BY <1>15

LEMMA NextOffsetTyped ==
    ASSUME pdu \in PduLengths, transfer.offset \in 0 .. BlockSize
    PROVE  NextOffset \in transfer.offset .. BlockSize
<1>1. pdu \in Nat /\ pdu > Overhead /\ BlockSize \in Nat
  BY BlockTransferAssumption
<1> QED BY <1>1 DEF NextOffset, Smaller, Overhead

LEMMA ScenarioTyped ==
    ASSUME scenario \in Scenarios
    PROVE  scenario.chunk \in Nat \ {0} /\ (~Uploading => scenario.kind = "download")
<1>1. CASE scenario \in [kind : {"upload"}, mode : UploadModes, chunk : UploadChunks]
  <2>1. scenario.kind = "upload" /\ scenario.chunk \in UploadChunks
    BY <1>1
  <2> QED BY <2>1, BlockTransferAssumption DEF Uploading
<1>2. CASE scenario \in [kind : {"download"}, mode : DownloadModes, chunk : {1}]
  BY <1>2 DEF Uploading
<1> QED BY <1>1, <1>2 DEF Scenarios

LEMMA SliceTyped ==
    ASSUME TypedInv, SendSlice
    PROVE  /\ LinkTyped' /\ transfer' \in TransferState /\ transfer'.data = transfer.data
           /\ transfer'.offset = NextOffset
           /\ \E message \in Messages(Requests) :
                 /\ message.fn = "fragment" /\ message.data = Bytes(transfer.offset + 1, NextOffset)
                 /\ message.reference = transfer.job
                 /\ toPlc' = Append(toPlc, message)
<1> DEFINE data  == Bytes(transfer.offset + 1, NextOffset)
           last  == NextOffset = BlockSize
           plain == Message("fragment")
           one   == [plain EXCEPT !.reference = transfer.job]
           two   == [one EXCEPT !.last = last]
           all   == [two EXCEPT !.data = data]
           moved == [transfer EXCEPT !.offset = NextOffset]
           after == [moved EXCEPT !.count = transfer.count + 1]
<1>1. toPlc' = Append(toPlc, all) /\ transfer' = after /\ UNCHANGED <<up, failure, toClient>>
      /\ pc = "slice"
  BY DEF SendSlice, Step
<1>2. /\ transfer \in TransferState /\ transfer.offset \in 0 .. BlockSize /\ transfer.job \in Nat
      /\ transfer.count \in 0 .. MaxFragments /\ MaxFragments \in Nat /\ BlockSize \in Nat
      /\ transfer.count < MaxFragments
  BY <1>1, BlockTransferAssumption DEF TypedInv, TransferState
<1>3. NextOffset \in transfer.offset .. BlockSize
  BY <1>2, NextOffsetTyped DEF TypedInv
<1>4. data \in Seq(Nat)
  <2>1. transfer.offset + 1 \in Nat /\ NextOffset \in Nat
    BY <1>2, <1>3
  <2> QED BY <2>1, BytesTyped
<1>5. last \in BOOLEAN
  OBVIOUS
<1> HIDE DEF data, last
<1>6. plain \in Messages(Requests) /\ plain.fn = "fragment"
  BY MessageTyped DEF Requests
<1> HIDE DEF plain
<1>7. one \in Messages(Requests) /\ one.fn = "fragment" /\ one.reference = transfer.job
  BY <1>2, <1>6 DEF Messages
<1> HIDE DEF one
<1>8. two \in Messages(Requests) /\ two.fn = "fragment" /\ two.reference = transfer.job
  BY <1>5, <1>7 DEF Messages
<1> HIDE DEF two
<1>9. /\ all \in Messages(Requests) /\ all.fn = "fragment" /\ all.data = data
      /\ all.reference = transfer.job
  BY <1>4, <1>8 DEF Messages
<1> HIDE DEF all
<1>10. moved \in TransferState /\ moved.offset = NextOffset /\ moved.data = transfer.data
  BY <1>2, <1>3 DEF TransferState
<1> HIDE DEF moved
<1>11. after \in TransferState /\ after.offset = NextOffset /\ after.data = transfer.data
  <2>1. transfer.count + 1 \in 0 .. MaxFragments
    BY <1>2
  <2> QED BY <1>10, <2>1 DEF TransferState
<1> HIDE DEF after
<1>12. LinkTyped'
  BY <1>1, <1>9, SentTyped DEF LinkTyped, TypedInv
<1> QED BY <1>1, <1>9, <1>11, <1>12 DEF data

LEMMA ServesTyped ==
    ASSUME TypedInv, PlcServes
    PROVE  LinkTyped' /\ plc' \in PlcState
<1> DEFINE request == Head(toPlc)
           replies == PlcReplies(scenario.mode, scenario.chunk, request)
           after   == PlcAfter(scenario.mode, scenario.chunk, request)
           S       == Seq(Messages(Replies))
<1>1. /\ toPlc # <<>> /\ toPlc' = Tail(toPlc) /\ plc' = after /\ up' = up /\ failure' = failure
      /\ toClient' = IF up THEN toClient \o replies ELSE <<>>
  BY DEF PlcServes
<1>2. request \in Messages(Requests) /\ Tail(toPlc) \in Seq(Messages(Requests))
  BY <1>1, ServedTyped DEF TypedInv, LinkTyped
<1>3. plc \in PlcState /\ scenario.chunk \in Nat \ {0}
  BY ScenarioTyped DEF TypedInv
<1>4. replies \in S
  BY <1>2, <1>3, RepliesTyped
<1>5. after \in PlcState
  <2>1. after = PlcAfter(scenario.mode, scenario.chunk, request)
    OBVIOUS
  <2> HIDE DEF after, request
  <2>2. Effect(scenario.mode, scenario.chunk, request, after)
    BY <1>2, <1>3, <2>1, AfterTyped, Zenon
  <2> QED BY <2>2 DEF Effect
<1> HIDE DEF replies, after
<1>6. toClient \in S /\ <<>> \in S
  BY NothingTyped DEF TypedInv, LinkTyped
<1>7. \A s, t \in S : s \o t \in S
  OBVIOUS
<1> HIDE DEF S
<1>8. toClient' \in S
  BY <1>1, <1>4, <1>6, <1>7
<1> QED BY <1>1, <1>2, <1>5, <1>8 DEF LinkTyped, TypedInv, S

LEMMA JobTyped ==
    ASSUME plc \in PlcState, NEW mode
    PROVE  PlcJob(mode) \in Messages(Replies)
<1> DEFINE fn == IF mode = "early-ended" \/ (Complete /\ mode # "extra-fragment")
                 THEN "downloadEnded" ELSE "download"
           plain == Message(fn)
           job   == [plain EXCEPT !.reference = plc.reference]
<1>1. fn \in Replies
  BY DEF Replies
<1>2. plc.reference \in Nat
  BY DEF PlcState
<1>3. Job(fn, plc.reference) = job
  BY DEF Job
<1>4. \/ PlcJob(mode) = Malformed(Job(fn, plc.reference), "address")
      \/ PlcJob(mode) = Malformed(Job(fn, plc.reference), "payload")
      \/ PlcJob(mode) = Job(fn, plc.reference)
  BY DEF PlcJob
<1> HIDE DEF fn
<1>5. plain \in Messages(Replies)
  BY <1>1, MessageTyped
<1> HIDE DEF plain
<1>6. job \in Messages(Replies)
  BY <1>2, <1>5 DEF Messages
<1> HIDE DEF job
<1>7. Malformed(job, "address") \in Messages(Replies) /\ Malformed(job, "payload") \in Messages(Replies)
  BY <1>6, MalformedTyped DEF Shapes
<1> QED BY <1>3, <1>4, <1>6, <1>7

LEMMA AsksTyped ==
    ASSUME TypedInv, PlcAsks
    PROVE  /\ LinkTyped' /\ plc' \in PlcState /\ plc'.bytes = plc.bytes
           /\ plc'.stage \in {"spoiled", "asked"}
           /\ toClient' = Append(toClient, PlcJob(scenario.mode))
<1> DEFINE stage == IF SpoiledJob(scenario.mode) THEN "spoiled" ELSE "asked"
           after == [plc EXCEPT !.stage = stage]
           S     == Seq(Messages(Replies))
           M     == Messages(Replies)
<1>1. /\ toClient' = Append(toClient, PlcJob(scenario.mode)) /\ plc' = after
      /\ UNCHANGED <<toPlc, up, failure>>
  BY DEF PlcAsks
<1>2. stage \in {"spoiled", "asked"} /\ stage \in Stages
  BY DEF Stages
<1> HIDE DEF stage
<1>3. after \in PlcState /\ after.bytes = plc.bytes /\ after.stage = stage
  BY <1>2 DEF TypedInv, PlcState
<1>4. PlcJob(scenario.mode) \in M
  BY JobTyped DEF TypedInv
<1>5. toClient \in Seq(M)
  BY DEF TypedInv, LinkTyped
<1> HIDE DEF M, after
<1>6. Append(toClient, PlcJob(scenario.mode)) \in Seq(M)
  BY <1>4, <1>5
<1> QED BY <1>1, <1>2, <1>3, <1>6 DEF LinkTyped, TypedInv, M

LEMMA ExchangeFailsTyped ==
    ASSUME TypedInv, NEW kind \in ErrorKinds, ExchangeFails(kind)
    PROVE  LinkTyped' /\ pc' \in {"failed", "reconnect", "cleanup"} /\ retries' \in 0 .. StartRetries
<1>1. retries \in 0 .. StartRetries /\ failure.kind \in ErrorKinds \union {"none"}
  BY DEF TypedInv, LinkTyped
<1>2. ASSUME StartFails(kind)
      PROVE  LinkTyped' /\ pc' \in {"failed", "reconnect", "cleanup"} /\ retries' \in 0 .. StartRetries
  BY <1>2, FailedStartTyped
<1>3. ASSUME NEW other \in ErrorKinds \union {"none"}, NEW says, Finish(other, says), UNCHANGED retries
      PROVE  LinkTyped' /\ pc' \in {"failed", "reconnect", "cleanup"} /\ retries' \in 0 .. StartRetries
  BY <1>1, <1>3, FinishTyped
<1>4. ASSUME Close, failure' = [kind |-> kind, says |-> "exchange"], pc' = "cleanup", UNCHANGED retries
      PROVE  LinkTyped' /\ pc' \in {"failed", "reconnect", "cleanup"} /\ retries' \in 0 .. StartRetries
  BY <1>1, <1>4, CloseTyped DEF LinkTyped
<1> QED BY <1>1, <1>2, <1>3, <1>4 DEF ExchangeFails

LEMMA TypedStep == ASSUME TypedInv, [Next]_vars PROVE TypedInv'
<1> USE DEF TypedInv
<1>1. now \in Nat /\ deadline \in Deadline
  BY BlockTransferAssumption
<1>2. ASSUME Begin PROVE TypedInv'
  <2>1. /\ UNCHANGED <<scenario, pdu, retries, transfer, plc, now, receiveBy>>
        /\ \/ Finish("invalidInput", "block") /\ deadline' = deadline
           \/ /\ deadline' = DeadlineAfter(now, TransferDeadline)
              /\ pc' = "start" /\ UNCHANGED <<up, toPlc, toClient, failure>>
    BY <1>2, Zenon DEF Begin
  <2>2. DeadlineAfter(now, TransferDeadline) \in Deadline
    BY <1>1, BudgetTyped
  <2>3. ASSUME Finish("invalidInput", "block") PROVE LinkTyped' /\ pc' = "failed"
    BY <2>3, FinishTyped DEF ErrorKinds
  <2> QED BY <2>1, <2>2, <2>3 DEF LinkTyped
<1>3. ASSUME NEW fn \in Requests, NEW wait, Post(Message(fn), wait), wait # "endJob",
             wait \in {"fragment", "fragmentJob", "slice"} => transfer.count < MaxFragments,
             UNCHANGED <<scenario, up, toClient, pdu, retries, transfer, failure, plc, now, deadline>>
      PROVE  TypedInv'
  <2>1. Message(fn) \in Messages(Requests)
    BY MessageTyped
  <2> QED BY <1>3, <2>1, PostTyped
<1>4. ASSUME SendStart PROVE TypedInv'
  BY <1>3, <1>4 DEF SendStart, Requests
<1>5. ASSUME RequestFragment PROVE TypedInv'
  BY <1>3, <1>5 DEF RequestFragment, Requests
<1>6. ASSUME EndUpload PROVE TypedInv'
  BY <1>3, <1>6 DEF EndUpload, Requests
<1>7. ASSUME SendInsert PROVE TypedInv'
  BY <1>3, <1>7 DEF SendInsert, Requests
<1>8. ASSUME Reconnect PROVE TypedInv'
  <2>1. NewPlc \in PlcState
    BY DEF NewPlc, PlcState, Stages
  <2> QED BY <1>8, <2>1, NothingTyped DEF Reconnect, LinkTyped
<1>9. ASSUME ReconnectFails PROVE TypedInv'
  <2>1. PICK kind \in ErrorKinds : StartFails(kind)
    BY <1>9 DEF ReconnectFails, ErrorKinds
  <2> QED BY <1>9, <2>1, FailedStartTyped DEF ReconnectFails
<1>10. ASSUME TooManyFragments PROVE TypedInv'
  <2>1. CASE InUploadLoop
    <3>1. /\ failure' = [kind |-> "protocol", says |-> "tooManyFragments"] /\ pc' = "cleanup"
          /\ UNCHANGED <<up, toPlc, toClient>>
      BY <1>10, <2>1 DEF TooManyFragments, Refuse
    <3> QED BY <1>10, <3>1 DEF TooManyFragments, LinkTyped, ErrorKinds
  <2>2. CASE ~InUploadLoop
    <3>1. Finish("protocol", "tooManyFragments")
      BY <1>10, <2>2 DEF TooManyFragments, Refuse
    <3>2. LinkTyped' /\ pc' = "failed"
      BY <3>1, FinishTyped DEF ErrorKinds
    <3> QED BY <1>10, <3>2 DEF TooManyFragments
  <2> QED BY <2>1, <2>2
<1>11. ASSUME SkipCleanup PROVE TypedInv'
  <2>1. LinkTyped' /\ pc' = "failed"
    BY <1>11, FinishTyped DEF SkipCleanup, LinkTyped
  <2> QED BY <1>11, <2>1 DEF SkipCleanup
<1>12. ASSUME AwaitJob PROVE TypedInv'
  <2>1. /\ pc' \in {"fragmentJob", "endJob"} /\ receiveBy' = WaitUntil
        /\ pc' = "fragmentJob" => transfer.offset < BlockSize
        /\ pc' = "endJob" => ~(transfer.offset < BlockSize)
        /\ ~(transfer.count >= MaxFragments /\ transfer.offset < BlockSize)
    BY <1>12 DEF AwaitJob, TooMany
  <2>2. transfer.offset \in 0 .. BlockSize /\ transfer.count \in 0 .. MaxFragments
        /\ BlockSize \in Nat /\ MaxFragments \in Nat
    BY BlockTransferAssumption DEF TransferState
  <2>3. /\ pc' = "fragmentJob" => transfer.count < MaxFragments
        /\ pc' = "endJob" => transfer.offset = BlockSize
    BY <2>1, <2>2
  <2>4. WaitUntil \in Deadline
    BY <1>1, WaitsAreCut
  <2> QED BY <1>12, <2>1, <2>3, <2>4 DEF AwaitJob, LinkTyped
<1>13. ASSUME SendSlice PROVE TypedInv'
  <2>1. LinkTyped' /\ transfer' \in TransferState /\ transfer'.data = transfer.data
    BY <1>13, SliceTyped
  <2> QED BY <1>13, <2>1 DEF SendSlice
<1>14. ASSUME SendEnded PROVE TypedInv'
  <2> DEFINE plain   == Message("ended")
             message == [plain EXCEPT !.reference = transfer.job]
  <2>1. plain \in Messages(Requests) /\ transfer.job \in Nat
    BY MessageTyped DEF Requests, TransferState
  <2>2. toPlc' = Append(toPlc, message)
    BY <1>14 DEF SendEnded
  <2> HIDE DEF plain
  <2>3. message \in Messages(Requests)
    BY <2>1 DEF Messages
  <2> HIDE DEF message
  <2>4. LinkTyped'
    BY <1>14, <2>2, <2>3, SentTyped DEF SendEnded, LinkTyped
  <2> QED BY <1>14, <2>4 DEF SendEnded
<1>15. ASSUME Receive PROVE TypedInv'
  <2>1. LinkTyped' /\ transfer' \in TransferState /\ Len(transfer'.data) <= UploadSafetyLimit
           /\ pc' \in {"failed", "cleanup", "next", "end", "job", "slice", "ended", "done"}
           /\ (pc' = "slice" => transfer'.count < MaxFragments)
    BY <1>15, ReceiveTyped
  <2>2. UNCHANGED <<scenario, pdu, retries, plc, now, deadline, receiveBy>>
    BY <1>15 DEF Receive
  <2> QED BY <2>1, <2>2
<1>16. ASSUME ReceiveTimesOut \/ BudgetSpent \/ PeerClosed PROVE TypedInv'
  <2>1. PICK kind \in ErrorKinds : ExchangeFails(kind)
    BY <1>16 DEF ReceiveTimesOut, BudgetSpent, PeerClosed, ErrorKinds
  <2>2. LinkTyped' /\ pc' \in {"failed", "reconnect", "cleanup"} /\ retries' \in 0 .. StartRetries
    BY <2>1, ExchangeFailsTyped
  <2>3. UNCHANGED <<scenario, pdu, transfer, plc, now, deadline, receiveBy>>
    BY <2>1 DEF ExchangeFails
  <2> QED BY <2>2, <2>3
<1>17. ASSUME PlcServes PROVE TypedInv'
  BY <1>17, ServesTyped DEF PlcServes
<1>18. ASSUME PlcAsks PROVE TypedInv'
  BY <1>18, AsksTyped DEF PlcAsks
<1>19. ASSUME PlcCloses PROVE TypedInv'
  <2>1. [plc EXCEPT !.closed = TRUE] \in PlcState
    BY DEF PlcState
  <2> QED BY <1>19, <2>1 DEF PlcCloses, LinkTyped
<1>20. ASSUME Tick \/ UNCHANGED vars PROVE TypedInv'
  <2>1. now' \in 0 .. MaxTime
    BY <1>20, BlockTransferAssumption DEF Tick, vars
  <2> QED BY <1>20, <2>1 DEF Tick, vars, LinkTyped
<1> HIDE DEF TypedInv
<1>21. ASSUME ClientStep PROVE TypedInv'
  BY <1>2, <1>4, <1>5, <1>6, <1>7, <1>8, <1>9, <1>10, <1>11, <1>12, <1>13, <1>14, <1>15, <1>16, <1>21
     DEF ClientStep
<1> QED BY <1>17, <1>18, <1>19, <1>20, <1>21 DEF Next

-----------------------------------------------------------------------------
(* What one step does to the messages                                      *)

LEMMA FirstSent ==
    ASSUME toPlc = <<>>, NEW message
    PROVE  Append(toPlc, message) = <<message>> /\ Len(<<message>>) = 1 /\ <<message>>[1] = message
OBVIOUS

LEMMA RequestPosted ==
    ASSUME Quiet, NEW fn, NEW wait, Post(Message(fn), wait), UNCHANGED toClient
    PROVE  Asked(fn)' /\ pc' = wait
<1>1. toPlc' = <<Message(fn)>> /\ toClient' = <<>>
  BY FirstSent DEF Post, Quiet
<1>2. Len(toPlc') = 1 /\ toPlc'[1].fn = fn
  BY <1>1 DEF Message
<1> QED BY <1>1, <1>2 DEF Asked, Alone, Post

LEMMA OnlyOne ==
    ASSUME NEW M, NEW s \in Seq(M), Len(s) = 1
    PROVE  s # <<>> /\ Tail(s) = <<>> /\ Head(s) = s[1]
<1>1. s # <<>>
  <2>1. Len(<<>>) = 0 /\ 0 # 1
    BY EmptySeq
  <2> QED BY <2>1, Zenon
<1>2. Tail(s) \in Seq(M) /\ Len(Tail(s)) = 0
  <2>1. Tail(s) \in Seq(M) /\ Len(Tail(s)) = Len(s) - 1
    BY <1>1
  <2> QED BY <2>1
<1>3. \A t \in Seq(M) : Len(t) = 0 => t = <<>>
  BY EmptySeq
<1>4. Head(s) = s[1]
  BY <1>1
<1> QED BY <1>1, <1>2, <1>3, <1>4

LEMMA NothingLeft ==
    ASSUME TypedInv
    PROVE  /\ Len(toClient) = 1 => toClient # <<>> /\ Tail(toClient) = <<>> /\ Head(toClient) = toClient[1]
           /\ Len(toPlc) = 1 => toPlc # <<>> /\ Tail(toPlc) = <<>>
           /\ toPlc = <<>> => Len(toPlc) = 0
           /\ toClient = <<>> => Len(toClient) = 0
<1>1. toPlc \in Seq(Messages(Requests)) /\ toClient \in Seq(Messages(Replies))
  BY DEF TypedInv, LinkTyped
<1>2. \A M : \A s \in Seq(M) : Len(s) = 1 => s # <<>> /\ Tail(s) = <<>> /\ Head(s) = s[1]
  BY OnlyOne
<1>3. Len(<<>>) = 0
  OBVIOUS
<1> QED BY <1>1, <1>2, <1>3, Zenon

LEMMA AnswerTaken ==
    ASSUME TypedInv, Replied, NEW next, Answered(next)
    PROVE  Quiet' /\ up' = up /\ pc' = next /\ Head(toClient) = toClient[1]
BY NothingLeft DEF Replied, Answered, Quiet

LEMMA RequestServed ==
    ASSUME TypedInv, PlcServes, NEW request, request = toPlc[1]
    PROVE  /\ request \in Messages(Requests) /\ request.fn \in Requests
           /\ toPlc' = Tail(toPlc) /\ toPlc # <<>>
           /\ UNCHANGED <<scenario, pc, up, transfer>>
           /\ Effect(scenario.mode, scenario.chunk, request, plc')
<1>1. request \in Messages(Requests) /\ request = Head(toPlc)
  BY ServedTyped DEF PlcServes, TypedInv, LinkTyped
<1>2. /\ toPlc # <<>> /\ toPlc' = Tail(toPlc)
      /\ plc' = PlcAfter(scenario.mode, scenario.chunk, request)
      /\ UNCHANGED <<scenario, pc, up, transfer>>
  BY <1>1 DEF PlcServes
<1>3. plc \in PlcState /\ scenario.chunk \in Nat \ {0}
  BY ScenarioTyped DEF TypedInv
<1>4. Effect(scenario.mode, scenario.chunk, request, PlcAfter(scenario.mode, scenario.chunk, request))
  BY <1>1, <1>3, AfterTyped, Zenon
<1>5. request.fn \in Requests
  BY <1>1 DEF Messages
<1>6. Effect(scenario.mode, scenario.chunk, request, plc')
  BY <1>2, <1>4, Zenon
<1> QED BY <1>1, <1>2, <1>5, <1>6

LEMMA ReplyServed ==
    ASSUME TypedInv, PlcServes, toClient = <<>>, up, NEW request, request = toPlc[1]
    PROVE  /\ request.fn \in {"fragment", "ended", "disconnect"} => toClient' = <<>>
           /\ request.fn \notin {"fragment", "ended", "disconnect"} => Len(toClient') = 1
           /\ request.fn = "upload" =>
                 toClient'[1] = UploadScript(scenario.mode, Len(plc.bytes), scenario.chunk)
           /\ request.fn = "requestDownload" => toClient'[1].size = NoSize
           /\ request.fn = "insert" /\ toClient'[1].shape = "exact" => scenario.mode # "insert-refused"
<1> DEFINE mode    == scenario.mode
           chunk   == scenario.chunk
           replies == PlcReplies(mode, chunk, request)
<1>2. request \in Messages(Requests) /\ request = Head(toPlc)
  BY ServedTyped DEF PlcServes, TypedInv, LinkTyped
<1>1. toPlc # <<>> /\ toClient' = toClient \o replies
  BY <1>2 DEF PlcServes
<1>3. plc \in PlcState /\ chunk \in Nat \ {0}
  BY ScenarioTyped DEF TypedInv
<1>4. \A a : \A b \in Nat \ {0} : \A m \in Messages(Requests) :
           /\ PlcReplies(a, b, m) \in Seq(Messages(Replies))
           /\ m.fn \in {"fragment", "ended", "disconnect"} => PlcReplies(a, b, m) = <<>>
           /\ m.fn \notin {"fragment", "ended", "disconnect"} => Len(PlcReplies(a, b, m)) = 1
           /\ m.fn = "upload" => PlcReplies(a, b, m)[1] = UploadScript(a, Len(plc.bytes), b)
           /\ m.fn = "requestDownload" => PlcReplies(a, b, m)[1].size = NoSize
           /\ m.fn = "insert" /\ PlcReplies(a, b, m)[1].shape = "exact" => a # "insert-refused"
  BY <1>3, RepliesTyped
<1>5. replies = PlcReplies(mode, chunk, request)
  OBVIOUS
<1> HIDE DEF mode, chunk, replies
<1>6. replies \in Seq(Messages(Replies))
  BY <1>2, <1>3, <1>4, <1>5
<1>7. toClient' = replies
  <2> DEFINE S == Messages(Replies)
  <2>1. replies \in Seq(S)
    BY <1>6
  <2> HIDE DEF S
  <2>2. <<>> \o replies = replies
    BY <2>1
  <2> QED BY <1>1, <2>2
<1>8. /\ request.fn \in {"fragment", "ended", "disconnect"} => replies = <<>>
      /\ request.fn \notin {"fragment", "ended", "disconnect"} => Len(replies) = 1
      /\ request.fn = "upload" => replies[1] = UploadScript(mode, Len(plc.bytes), chunk)
      /\ request.fn = "requestDownload" => replies[1].size = NoSize
      /\ request.fn = "insert" /\ replies[1].shape = "exact" => mode # "insert-refused"
  BY <1>2, <1>3, <1>4, <1>5
<1> QED BY <1>7, <1>8, Zenon DEF mode, chunk

-----------------------------------------------------------------------------
(* An upload                                                               *)

LEMMA UploadContentGone ==
    ASSUME up' = FALSE, pc' # "done", pc' = "reconnect" => transfer'.data = <<>>
    PROVE  UploadContent'
BY DEF UploadContent

LEMMA StartGone ==
    ASSUME NEW kind, StartFails(kind)
    PROVE  up' = FALSE /\ pc' \in {"failed", "reconnect"}
<1> DEFINE budget == RetryBudgetAfter(retries, FALSE, kind, "potentiallyMutating", TRUE)
<1>1. \/ Finish(kind, "start") \/ (Close /\ pc' = "reconnect")
  BY Zenon DEF StartFails
<1> QED BY <1>1 DEF Finish, Close

LEMMA FinishGone ==
    ASSUME NEW kind, NEW says, Finish(kind, says)
    PROVE  up' = FALSE /\ pc' = "failed"
BY DEF Finish, Close

(* A connection is only given up before the first fragment, to start again. *)
LEMMA ExchangeGone ==
    ASSUME NEW kind, ExchangeFails(kind)
    PROVE  /\ up' = FALSE /\ pc' \in {"failed", "reconnect", "cleanup"}
           /\ UNCHANGED <<scenario, transfer, plc>>
           /\ pc' = "reconnect" => pc \in {"start", "starting"}
<1>1. UNCHANGED <<scenario, transfer, plc>>
  BY DEF ExchangeFails
<1>2. \/ pc \in {"start", "starting"} /\ StartFails(kind)
      \/ Close /\ pc' = "cleanup"
      \/ Finish(failure.kind, failure.says)
      \/ Finish(kind, "exchange")
  BY DEF ExchangeFails
<1>3. CASE pc \in {"start", "starting"} /\ StartFails(kind)
  BY <1>1, <1>3, StartGone
<1>4. CASE Close /\ pc' = "cleanup"
  BY <1>1, <1>4 DEF Close
<1>5. CASE Finish(failure.kind, failure.says) \/ Finish(kind, "exchange")
  BY <1>1, <1>5, FinishGone
<1> QED BY <1>2, <1>3, <1>4, <1>5

LEMMA NoBytes == Bytes(1, 0) = <<>>
BY BytesTyped

LEMMA NothingPositioned == Positions(<<>>)
<1>1. Len(<<>>) = 0 /\ BlockSize \in Nat
  BY BlockTransferAssumption
<1> QED BY <1>1, NoBytes DEF Positions

LEMMA UploadContentRequested ==
    ASSUME UploadContent, TypedInv,
           (SendStart /\ Uploading) \/ RequestFragment \/ EndUpload
    PROVE  UploadContent'
<1>1. CASE SendStart /\ Uploading
  <2>1. /\ pc = "start" /\ up /\ Post(Message("startUpload"), "starting")
        /\ UNCHANGED <<scenario, up, toClient, transfer, plc>>
    BY <1>1 DEF SendStart, Step
  <2>2. Quiet /\ plc.bytes = <<>> /\ transfer.data = <<>>
    BY <2>1 DEF UploadContent
  <2>3. Asked("startUpload")' /\ pc' = "starting"
    BY <2>1, <2>2, RequestPosted
  <2> QED BY <2>1, <2>2, <2>3, NothingPositioned DEF UploadContent, Good
<1>2. CASE RequestFragment
  <2>1. /\ pc = "next" /\ up /\ Post(Message("upload"), "fragment")
        /\ UNCHANGED <<scenario, up, toClient, transfer, plc>>
    BY <1>2 DEF RequestFragment, Step
  <2>2. Quiet /\ plc.bytes = transfer.data /\ (Good => Positions(plc.bytes))
    BY <2>1 DEF UploadContent
  <2>3. Asked("upload")' /\ pc' = "fragment"
    BY <2>1, <2>2, RequestPosted
  <2>4. Good' = Good /\ Positions(plc.bytes)' = Positions(plc.bytes)
    BY <2>1 DEF Good, Positions
  <2> QED BY <2>1, <2>2, <2>3, <2>4 DEF UploadContent
<1>3. CASE EndUpload
  <2>1. /\ pc \in {"end", "cleanup"} /\ up
        /\ Post(Message("endUpload"), IF pc = "end" THEN "ending" ELSE "cleaning")
        /\ UNCHANGED <<scenario, up, toClient, transfer, plc>>
    BY <1>3 DEF EndUpload
  <2>2. CASE pc = "end"
    <3>1. Quiet /\ plc.bytes = transfer.data /\ (Good => plc.bytes = Block)
      BY <2>1, <2>2 DEF UploadContent
    <3>2. Asked("endUpload")' /\ pc' = "ending"
      BY <2>1, <2>2, <3>1, RequestPosted
    <3>3. Good' = Good
      BY <2>1 DEF Good
    <3> QED BY <2>1, <3>1, <3>2, <3>3 DEF UploadContent, Block
  <2>3. CASE pc = "cleanup"
    <3>1. pc' = "cleaning" /\ up'
      BY <2>1, <2>3 DEF Post
    <3> QED BY <3>1 DEF UploadContent
  <2> QED BY <2>1, <2>2, <2>3
<1> QED BY <1>1, <1>2, <1>3

LEMMA UploadContentReceived ==
    ASSUME UploadContent, TypedInv, Receive, Uploading, pc \in UploadStages
    PROVE  UploadContent'
<1> DEFINE reply == Head(toClient)
<1>1. /\ toClient # <<>> /\ up /\ UNCHANGED <<scenario, plc>>
      /\ pc \in {"starting", "fragment", "ending", "cleaning"}
  BY DEF Receive, UploadStages, Waits
<1>2. Good' = Good /\ Positions(plc.bytes)' = Positions(plc.bytes) /\ Block' = Block
  BY <1>1 DEF Good, Positions, Block, Bytes
<1>3. ASSUME NEW kind, NEW says, Finish(kind, says) PROVE UploadContent'
  BY <1>3, FinishGone, UploadContentGone
<1>4. ASSUME NEW fault, Abandon(fault) PROVE UploadContent'
  <2>1. pc' = "cleanup"
    BY <1>4 DEF Abandon
  <2> QED BY <2>1 DEF UploadContent
<1>5. CASE pc = "starting"
  <2>1. Replied /\ plc.bytes = <<>> /\ transfer.data = <<>> /\ (Good => Positions(plc.bytes))
    BY <1>1, <1>5 DEF UploadContent, Asked
  <2>2. ReceiveStart(reply)
    BY <1>5 DEF Receive
  <2> DEFINE known == [transfer EXCEPT !.expected = reply.size]
             fault == DecodeFault(reply, IF Uploading THEN "startUpload" ELSE "requestDownload")
  <2>3. \/ Finish(FaultKind(fault), fault)
        \/ Abandon("tooLarge")
        \/ transfer' = known /\ Answered("next")
    BY <2>2, Zenon DEF ReceiveStart
  <2>4. CASE transfer' = known /\ Answered("next")
    <3>1. transfer'.data = transfer.data
      BY <2>4 DEF TypedInv, TransferState
    <3>2. Quiet' /\ up' = up /\ pc' = "next"
      BY <2>1, <2>4, AnswerTaken
    <3> QED BY <1>1, <1>2, <2>1, <3>1, <3>2 DEF UploadContent
  <2> QED BY <1>3, <1>4, <2>3, <2>4
<1>6. CASE pc = "fragment"
  <2>1. Replied /\ plc.bytes = transfer.data \o toClient[1].data
        /\ (Good /\ toClient[1].last => plc.bytes = Block) /\ (Good => Positions(plc.bytes))
    BY <1>1, <1>6 DEF UploadContent, Asked
  <2>2. ReceiveFragment(reply)
    BY <1>6 DEF Receive
  <2> DEFINE fault == IF DecodeFault(reply, "upload") # "exact"
                      THEN DecodeFault(reply, "upload") ELSE AcceptFault(reply)
             taken == [transfer EXCEPT !.data = Assembled(reply), !.count = @ + 1]
             next  == IF reply.last THEN "end" ELSE "next"
  <2>3. \/ Abandon(fault)
        \/ transfer' = taken /\ Answered(next)
    BY <2>2, Zenon DEF ReceiveFragment
  <2>4. CASE transfer' = taken /\ Answered(next)
    <3>1. transfer'.data = transfer.data \o reply.data
      BY <2>4 DEF TypedInv, TransferState, Assembled
    <3> HIDE DEF next
    <3>2. Quiet' /\ up' = up /\ pc' = next /\ reply = toClient[1]
      BY <2>1, <2>4, AnswerTaken
    <3> HIDE DEF reply
    <3>3. transfer'.data = plc.bytes /\ plc'.bytes = plc.bytes
      BY <1>1, <2>1, <3>1, <3>2
    <3>4. CASE reply.last
      <4>1. pc' = "end" /\ (Good => plc.bytes = Block)
        BY <2>1, <3>2, <3>4 DEF next
      <4> QED BY <1>1, <1>2, <3>2, <3>3, <4>1 DEF UploadContent
    <3>5. CASE ~reply.last
      <4>1. pc' = "next"
        BY <3>2, <3>5 DEF next
      <4> QED BY <1>1, <1>2, <2>1, <3>2, <3>3, <4>1 DEF UploadContent
    <3> QED BY <3>4, <3>5
  <2> QED BY <1>4, <2>3, <2>4
<1>7. CASE pc = "ending"
  <2>1. Replied /\ plc.stage = "ended" /\ plc.bytes = transfer.data /\ (Good => plc.bytes = Block)
    BY <1>1, <1>7 DEF UploadContent, Asked
  <2>2. ReceiveEnd(reply) /\ UNCHANGED transfer
    BY <1>7 DEF Receive
  <2>3. \/ Finish("protocol", DecodeFault(reply, "endUpload"))
        \/ Finish("protocol", "notDeclaredLength")
        \/ transfer.expected \in {NoSize, Len(transfer.data)} /\ Answered("done")
    BY <1>7, <2>2 DEF ReceiveEnd
  <2>4. CASE transfer.expected \in {NoSize, Len(transfer.data)} /\ Answered("done")
    <3>1. Quiet' /\ up' = up /\ pc' = "done"
      BY <2>1, <2>4, AnswerTaken
    <3> QED BY <1>1, <1>2, <2>1, <2>2, <2>4, <3>1 DEF UploadContent
  <2> QED BY <1>3, <2>3, <2>4
<1>8. CASE pc = "cleaning"
  <2>1. Finish(failure.kind, OriginalFault(reply))
    BY <1>8 DEF Receive, ReceiveEnd
  <2> QED BY <1>3, <2>1
<1> QED BY <1>1, <1>5, <1>6, <1>7, <1>8

(* Served fragments follow one another.                                    *)
LEMMA GoodFragment ==
    ASSUME TypedInv, Good, Positions(plc.bytes), NEW reply, NEW bytes,
           reply = UploadScript(scenario.mode, Len(plc.bytes), scenario.chunk),
           bytes = plc.bytes \o reply.data
    PROVE  Positions(bytes) /\ (reply.last => bytes = Block)
<1> DEFINE here  == Len(plc.bytes)
           chunk == scenario.chunk
           last  == here + chunk >= BlockSize
           end   == IF last THEN BlockSize ELSE here + chunk
<1>1. here \in Nat /\ chunk \in Nat \ {0} /\ BlockSize \in Nat /\ here <= BlockSize
      /\ plc.bytes = Bytes(1, here)
  BY ScenarioTyped, BlockTransferAssumption DEF TypedInv, PlcState, Positions
<1>2. end \in Nat /\ here <= end /\ end <= BlockSize /\ (last => end = BlockSize) /\ last \in BOOLEAN
  <2> HIDE DEF here, chunk
  <2> QED BY <1>1
<1>3. reply = Fragment(last, Bytes(here + 1, end))
  <2> HIDE DEF here, chunk
  <2>1. reply = UploadScript(scenario.mode, here, chunk) /\ scenario.mode \in {"good", "undeclared"}
    BY DEF here, chunk, Good
  <2> QED BY <1>1, <2>1, GoodScript
<1> HIDE DEF here, chunk, last, end
<1>4. here + 1 \in Nat
  BY <1>1
<1>5. Bytes(here + 1, end) \in Seq(Nat)
  BY <1>2, <1>4, BytesTyped
<1>6. reply.last = last /\ reply.data = Bytes(here + 1, end)
  BY <1>2, <1>3, <1>5, FragmentTyped
<1>7. bytes = Bytes(1, end)
  <2>1. Bytes(1, here) \o Bytes(here + 1, end) = Bytes(1, end)
    BY <1>1, <1>2, BytesJoin
  <2> QED BY <1>1, <1>6, <2>1
<1>8. Len(bytes) = end
  BY <1>2, <1>7, FirstBytes
<1> QED BY <1>2, <1>6, <1>7, <1>8, BlockTyped DEF Positions

LEMMA UploadContentServed ==
    ASSUME UploadContent, TypedInv, PlcServes, Uploading, pc \in UploadStages
    PROVE  UploadContent'
<1> DEFINE request == toPlc[1]
<1>1. /\ request \in Messages(Requests) /\ request.fn \in Requests
      /\ toPlc' = Tail(toPlc) /\ toPlc # <<>>
      /\ UNCHANGED <<scenario, pc, up, transfer>>
      /\ Effect(scenario.mode, scenario.chunk, request, plc')
  BY RequestServed
<1>2. Good' = Good /\ Block' = Block
  BY <1>1 DEF Good, Block, Bytes
<1>3. CASE ~up
  <2>1. up \in BOOLEAN
    BY DEF TypedInv, LinkTyped
  <2> QED BY <1>1, <1>3, <2>1 DEF UploadContent
<1>4. CASE up /\ pc \notin {"starting", "fragment", "ending"}
  <2>1. pc \in {"cleanup", "cleaning", "failed", "reconnect"}
    BY <1>1, <1>4 DEF UploadContent, Quiet, UploadStages
  <2> QED BY <1>1, <1>4, <2>1 DEF UploadContent
<1>5. ASSUME NEW fn \in {"startUpload", "upload", "endUpload"}, Asked(fn), up
      PROVE  Replied' /\ request.fn = fn
             /\ (fn = "upload" =>
                   toClient'[1] = UploadScript(scenario.mode, Len(plc.bytes), scenario.chunk))
  <2>1. toClient = <<>> /\ Len(toPlc) = 1 /\ request.fn = fn
    BY <1>5 DEF Asked, Alone
  <2>2. toPlc' = <<>>
    BY <1>1, <2>1, NothingLeft
  <2> HIDE DEF request
  <2>3. /\ request.fn \notin {"fragment", "ended", "disconnect"} => Len(toClient') = 1
        /\ request.fn = "upload" =>
                 toClient'[1] = UploadScript(scenario.mode, Len(plc.bytes), scenario.chunk)
    BY <1>5, <2>1, ReplyServed DEF request
  <2> QED BY <2>1, <2>2, <2>3 DEF Replied
<1>6. CASE up /\ pc = "starting"
  <2>1. Asked("startUpload") /\ plc.bytes = <<>> /\ transfer.data = <<>> /\ (Good => Positions(plc.bytes))
    BY <1>1, <1>6 DEF UploadContent, Replied
  <2>2. Replied' /\ request.fn = "startUpload"
    BY <1>5, <1>6, <2>1
  <2>3. plc'.bytes = plc.bytes
    BY <1>1, <2>2 DEF Effect
  <2>4. Good' => Positions(plc.bytes)'
    BY <1>2, <2>1, <2>3 DEF Positions
  <2> QED BY <1>1, <1>6, <2>1, <2>2, <2>3, <2>4 DEF UploadContent
<1>7. CASE up /\ pc = "ending"
  <2>1. Asked("endUpload") /\ plc.bytes = transfer.data /\ (Good => plc.bytes = Block)
    BY <1>1, <1>7 DEF UploadContent, Replied
  <2>2. Replied' /\ request.fn = "endUpload"
    BY <1>5, <1>7, <2>1
  <2>3. plc'.bytes = plc.bytes /\ plc'.stage = "ended"
    BY <1>1, <2>2 DEF Effect
  <2> QED BY <1>1, <1>2, <1>7, <2>1, <2>2, <2>3 DEF UploadContent
<1>8. CASE up /\ pc = "fragment"
  <2>1. Asked("upload") /\ plc.bytes = transfer.data /\ (Good => Positions(plc.bytes))
    BY <1>1, <1>8 DEF UploadContent, Replied
  <2> DEFINE reply == UploadScript(scenario.mode, Len(plc.bytes), scenario.chunk)
  <2>2. Replied' /\ request.fn = "upload" /\ toClient'[1] = reply
    BY <1>5, <1>8, <2>1
  <2>3. plc'.bytes = plc.bytes \o reply.data
    BY <1>1, <2>2 DEF Effect
  <2>4. Good => Positions(plc'.bytes) /\ (reply.last => plc'.bytes = Block)
    BY <2>1, <2>3, GoodFragment
  <2>5. Positions(plc.bytes)' = Positions(plc'.bytes)
    BY DEF Positions
  <2> HIDE DEF reply
  <2>6. plc'.bytes = transfer'.data \o toClient'[1].data /\ (Good' /\ toClient'[1].last => plc'.bytes = Block)
    BY <1>1, <1>2, <2>1, <2>2, <2>3, <2>4
  <2> QED BY <1>1, <1>2, <1>8, <2>2, <2>4, <2>5, <2>6 DEF UploadContent
<1> QED BY <1>3, <1>4, <1>6, <1>7, <1>8

LEMMA UploadContentStep ==
    ASSUME UploadContent, TypedInv, Uploading, UploadHolds, [Next]_vars
    PROVE  UploadContent'
<1>1. pc \in UploadStages /\ plc.stage # "asking"
  BY DEF UploadHolds
<1>2. CASE Begin
  <2>1. \/ Finish("invalidInput", "block")
        \/ /\ pc = "begin" /\ pc' = "start"
           /\ UNCHANGED <<up, toPlc, toClient, transfer, plc>>
    BY <1>2, Zenon DEF Begin
  <2>2. CASE Finish("invalidInput", "block")
    BY <2>2, FinishGone, UploadContentGone
  <2>3. CASE pc = "begin" /\ pc' = "start" /\ UNCHANGED <<up, toPlc, toClient, transfer, plc>>
    BY <2>3 DEF UploadContent, Quiet
  <2> QED BY <2>1, <2>2, <2>3
<1>3. CASE SendStart \/ RequestFragment \/ EndUpload
  BY <1>3, UploadContentRequested
<1>4. CASE Reconnect
  <2>1. /\ pc = "reconnect" /\ pc' = "start" /\ up' /\ toPlc' = <<>> /\ toClient' = <<>>
        /\ plc' = NewPlc /\ transfer' = transfer
    BY <1>4 DEF Reconnect
  <2>2. transfer.data = <<>>
    BY <2>1 DEF UploadContent
  <2> QED BY <2>1, <2>2 DEF UploadContent, Quiet, NewPlc
<1>5. CASE ReconnectFails
  <2>1. PICK kind : StartFails(kind)
    BY <1>5 DEF ReconnectFails
  <2>2. up' = FALSE /\ pc' \in {"failed", "reconnect"}
    BY <2>1, StartGone
  <2>3. transfer' = transfer /\ transfer.data = <<>>
    BY <1>5 DEF ReconnectFails, UploadContent
  <2> QED BY <2>2, <2>3, UploadContentGone
<1>6. CASE TooManyFragments
  <2>1. \/ pc' = "cleanup" \/ Finish("protocol", "tooManyFragments")
    BY <1>6 DEF TooManyFragments, Refuse
  <2>2. CASE pc' = "cleanup"
    BY <2>2 DEF UploadContent
  <2> QED BY <2>1, <2>2, FinishGone, UploadContentGone
<1>7. CASE SkipCleanup
  <2>1. Finish(failure.kind, failure.says)
    BY <1>7 DEF SkipCleanup
  <2> QED BY <2>1, FinishGone, UploadContentGone
<1>8. CASE AwaitJob \/ SendSlice \/ SendEnded \/ SendInsert
  BY <1>1, <1>8 DEF AwaitJob, SendSlice, SendEnded, SendInsert, Step, UploadStages
<1>9. CASE Receive
  BY <1>1, <1>9, UploadContentReceived
<1>10. CASE ReceiveTimesOut \/ BudgetSpent \/ PeerClosed
  <2>1. /\ up /\ \E kind : ExchangeFails(kind)
    BY <1>10 DEF ReceiveTimesOut, BudgetSpent, PeerClosed
  <2>2. /\ up' = FALSE /\ pc' \in {"failed", "reconnect", "cleanup"}
        /\ UNCHANGED <<scenario, transfer, plc>>
        /\ pc' = "reconnect" => pc \in {"start", "starting"}
    BY <2>1, ExchangeGone
  <2>3. pc \in {"start", "starting"} => transfer.data = <<>>
    BY <2>1 DEF UploadContent
  <2> QED BY <2>2, <2>3, UploadContentGone
<1>11. CASE PlcServes
  BY <1>1, <1>11, UploadContentServed
<1>12. CASE PlcAsks
  BY <1>1, <1>12 DEF PlcAsks
<1>13. CASE PlcCloses
  <2>1. plc' = [plc EXCEPT !.closed = TRUE] /\ UNCHANGED <<scenario, pc, up, toPlc, toClient, transfer>>
    BY <1>13 DEF PlcCloses
  <2>2. plc'.bytes = plc.bytes /\ plc'.stage = plc.stage
    BY <2>1 DEF TypedInv, PlcState
  <2> QED BY <2>1, <2>2 DEF UploadContent, Quiet, Asked, Alone, Replied, Good, Positions, Block, Bytes
<1>14. CASE Tick \/ UNCHANGED vars
  <2>1. UNCHANGED <<scenario, pc, up, toPlc, toClient, transfer, plc>>
    BY <1>14 DEF Tick, vars
  <2> QED BY <2>1 DEF UploadContent, Quiet, Asked, Alone, Replied, Good, Positions, Block, Bytes
<1>15. CASE ClientStep
  BY <1>2, <1>3, <1>4, <1>5, <1>6, <1>7, <1>8, <1>9, <1>10, <1>15 DEF ClientStep
<1> QED BY <1>11, <1>12, <1>13, <1>14, <1>15 DEF Next

-----------------------------------------------------------------------------
(* A download                                                              *)

LEMMA OrderKept ==
    ASSUME InOrder, toPlc' = toPlc, plc'.bytes = plc.bytes
    PROVE  InOrder'
BY DEF InOrder, Carries, Block

LEMMA OrderEmpty ==
    ASSUME toPlc' = <<>>
    PROVE  InOrder'
<1>1. Len(<<>>) = 0
  OBVIOUS
<1>2. \A i \in 1 .. 0 : FALSE
  OBVIOUS
<1> QED BY <1>1, <1>2 DEF InOrder

LEMMA OrderSent ==
    ASSUME InOrder, TypedInv, NEW message \in Messages(Requests), toPlc' = Append(toPlc, message),
           plc'.bytes = plc.bytes, message.fn \in DownloadRequests,
           message.fn = "fragment" =>
              toPlc = <<>> /\ \E last \in Len(plc.bytes) .. BlockSize : Carries(message, last),
           message.fn \in {"ended", "insert"} => plc.bytes = Block
    PROVE  InOrder'
<1> DEFINE M == Messages(Requests)
<1>1. toPlc \in Seq(M) /\ message \in M
  BY DEF TypedInv, LinkTyped
<1> HIDE DEF M
<1>2. /\ Len(toPlc') = Len(toPlc) + 1 /\ Len(toPlc) \in Nat /\ toPlc'[Len(toPlc) + 1] = message
      /\ \A i \in 1 .. Len(toPlc) : toPlc'[i] = toPlc[i]
      /\ toPlc = <<>> => Len(toPlc) = 0
  BY <1>1
<1>3. ASSUME NEW i \in 1 .. Len(toPlc')
      PROVE  /\ toPlc'[i].fn \in DownloadRequests
             /\ toPlc'[i].fn = "fragment" =>
                  i = 1 /\ \E last \in Len(plc.bytes) .. BlockSize : Carries(toPlc'[i], last)
             /\ toPlc'[i].fn \in {"ended", "insert"} => plc.bytes = Block
  <2>1. i \in 1 .. Len(toPlc) \/ i = Len(toPlc) + 1
    BY <1>2
  <2>2. CASE i \in 1 .. Len(toPlc)
    BY <1>2, <2>2 DEF InOrder
  <2>3. CASE i = Len(toPlc) + 1
    <3>1. toPlc'[i] = message /\ (toPlc = <<>> => i = 1)
      BY <1>2, <2>3
    <3> QED BY <3>1
  <2> QED BY <2>1, <2>2, <2>3
<1> QED BY <1>3 DEF InOrder, Carries, Block

(* The one fragment on its way is the first that is served.                *)
LEMMA OrderServed ==
    ASSUME InOrder, TypedInv, Positions(plc.bytes), PlcServes, NEW request, request = toPlc[1]
    PROVE  /\ InOrder' /\ Positions(plc.bytes)' /\ request.fn \in DownloadRequests
           /\ request.fn # "fragment" => plc'.bytes = plc.bytes
           /\ \A last \in Nat : request.fn = "fragment" /\ Carries(request, last)
                    /\ Len(plc.bytes) <= last => plc'.bytes = Bytes(1, last)
<1>1. /\ request \in Messages(Requests) /\ request.fn \in Requests
      /\ toPlc' = Tail(toPlc) /\ toPlc # <<>>
      /\ Effect(scenario.mode, scenario.chunk, request, plc')
  BY RequestServed
<1>2. /\ Len(toPlc) \in Nat \ {0} /\ Len(toPlc') = Len(toPlc) - 1
      /\ \A i \in 1 .. Len(toPlc) - 1 : toPlc'[i] = toPlc[i + 1]
  BY <1>1, ServedTyped DEF TypedInv, LinkTyped
<1>3. /\ Len(plc.bytes) \in Nat /\ BlockSize \in Nat /\ plc.bytes = Bytes(1, Len(plc.bytes))
      /\ Len(plc.bytes) <= BlockSize
  BY BlockTransferAssumption DEF TypedInv, PlcState, Positions
<1>4. request.fn \in DownloadRequests
  <2>1. 1 \in 1 .. Len(toPlc)
    BY <1>2
  <2> QED BY <2>1 DEF InOrder
<1>5. request.fn # "fragment" => plc'.bytes = plc.bytes
  BY <1>1, <1>4 DEF Effect, DownloadRequests
<1>6. ASSUME NEW last \in Nat, request.fn = "fragment", Carries(request, last), Len(plc.bytes) <= last
      PROVE  plc'.bytes = Bytes(1, last) /\ Len(plc'.bytes) = last
  <2> DEFINE here == Len(plc.bytes)
  <2>1. plc'.bytes = plc.bytes \o request.data
    BY <1>1, <1>6 DEF Effect
  <2>2. request.data = Bytes(here + 1, last)
    BY <1>6 DEF Carries
  <2>3. here \in Nat /\ here <= last /\ plc.bytes = Bytes(1, here)
    BY <1>3, <1>6
  <2> HIDE DEF here
  <2>4. Bytes(1, here) \o Bytes(here + 1, last) = Bytes(1, last)
    BY <2>3, BytesJoin
  <2>5. Len(Bytes(1, last)) = last
    BY FirstBytes
  <2> QED BY <2>1, <2>2, <2>3, <2>4, <2>5
<1>7. request.fn = "fragment" =>
         \E last \in Nat : /\ plc'.bytes = Bytes(1, last) /\ Len(plc'.bytes) = last
                           /\ last <= BlockSize /\ Len(plc.bytes) <= last
  <2>1. SUFFICES ASSUME request.fn = "fragment"
        PROVE \E last \in Nat : /\ plc'.bytes = Bytes(1, last) /\ Len(plc'.bytes) = last
                                /\ last <= BlockSize /\ Len(plc.bytes) <= last
    OBVIOUS
  <2>2. 1 \in 1 .. Len(toPlc)
    BY <1>2
  <2>3. PICK last \in Len(plc.bytes) .. BlockSize : Carries(request, last)
    BY <2>1, <2>2 DEF InOrder
  <2>4. last \in Nat /\ Len(plc.bytes) <= last /\ last <= BlockSize
    BY <1>3
  <2> QED BY <1>6, <2>1, <2>3, <2>4
<1>8. Positions(plc.bytes)'
  BY <1>3, <1>5, <1>7 DEF Positions, Bytes
<1>9. plc.bytes = Block => plc'.bytes = Block
  <2>1. SUFFICES ASSUME plc.bytes = Block, request.fn = "fragment" PROVE plc'.bytes = Block
    BY <1>5
  <2>2. PICK last \in Nat : /\ plc'.bytes = Bytes(1, last)
                            /\ last <= BlockSize /\ Len(plc.bytes) <= last
    BY <1>7, <2>1
  <2>3. Len(plc.bytes) = BlockSize
    BY <2>1, BlockTyped
  <2>4. last = BlockSize
    BY <1>3, <2>2, <2>3
  <2> QED BY <2>2, <2>4 DEF Block
<1>10. ASSUME NEW i \in 1 .. Len(toPlc')
       PROVE  /\ toPlc'[i].fn \in DownloadRequests /\ toPlc'[i].fn # "fragment"
              /\ toPlc'[i].fn \in {"ended", "insert"} => plc'.bytes = Block
  <2>1. i + 1 \in 1 .. Len(toPlc) /\ i + 1 # 1 /\ toPlc'[i] = toPlc[i + 1]
    BY <1>2
  <2> QED BY <1>9, <2>1 DEF InOrder
<1>11. InOrder'
  BY <1>10 DEF InOrder, Block, Bytes
<1> QED BY <1>4, <1>5, <1>6, <1>8, <1>11

LEMMA DownloadContentGone ==
    ASSUME DownloadContent, TypedInv, Close, plc' = plc, pc' \in {"failed", "reconnect"},
           pc' = "reconnect" => transfer'.offset = 0
    PROVE  DownloadContent'
<1>1. up' = FALSE /\ (toPlc' = toPlc \/ toPlc' = Append(toPlc, Message("disconnect")))
  BY DEF Close
<1>2. Message("disconnect") \in Messages(Requests) /\ Message("disconnect").fn = "disconnect"
  BY MessageTyped DEF Requests
<1>3. InOrder
  BY DEF DownloadContent
<1>4. InOrder'
  <2>1. CASE toPlc' = toPlc
    BY <1>3, <2>1, OrderKept
  <2>2. CASE toPlc' = Append(toPlc, Message("disconnect"))
    BY <1>2, <1>3, <2>2, OrderSent DEF DownloadRequests
  <2> QED BY <1>1, <2>1, <2>2
<1> QED BY <1>1, <1>4 DEF DownloadContent, DownloadStages, Positions, Block, Bytes

LEMMA DownloadFinishes ==
    ASSUME DownloadContent, TypedInv, NEW kind, NEW says, Finish(kind, says), plc' = plc
    PROVE  DownloadContent'
BY DownloadContentGone DEF Finish

LEMMA DownloadStartFails ==
    ASSUME DownloadContent, TypedInv, NEW kind, StartFails(kind), plc' = plc,
           transfer' = transfer, transfer.offset = 0
    PROVE  DownloadContent'
<1>1. \/ Finish(kind, "start") \/ (Close /\ pc' = "reconnect")
  BY Zenon DEF StartFails
<1>2. CASE Finish(kind, "start")
  BY <1>2, DownloadFinishes
<1>3. CASE Close /\ pc' = "reconnect"
  BY <1>3, DownloadContentGone
<1> QED BY <1>1, <1>2, <1>3

-----------------------------------------------------------------------------

LEMMA DownloadRequested ==
    ASSUME DownloadContent, TypedInv, ~Uploading, SendStart \/ SendInsert
    PROVE  DownloadContent'
<1>1. /\ up /\ UNCHANGED <<scenario, up, toClient, transfer, plc>>
      /\ \/ pc = "start" /\ Post(Message("requestDownload"), "starting")
         \/ pc = "insert" /\ Post(Message("insert"), "inserting")
  BY DEF SendStart, SendInsert, Step
<1>2. InOrder /\ Positions(plc.bytes)' = Positions(plc.bytes) /\ Block' = Block
  BY <1>1 DEF DownloadContent, Positions, Block, Bytes
<1>3. ASSUME NEW fn \in {"requestDownload", "insert"}, fn = "insert" => plc.bytes = Block,
             toPlc' = Append(toPlc, Message(fn))
      PROVE  InOrder'
  <2>1. Message(fn) \in Messages(Requests) /\ Message(fn).fn = fn
    BY MessageTyped DEF Requests
  <2> QED BY <1>1, <1>2, <1>3, <2>1, OrderSent DEF DownloadRequests
<1>4. CASE pc = "start" /\ Post(Message("requestDownload"), "starting")
  <2>1. Quiet /\ plc.bytes = <<>> /\ transfer.offset = 0 /\ plc.stage = "idle"
    BY <1>1, <1>4 DEF DownloadContent
  <2>2. Asked("requestDownload")' /\ pc' = "starting" /\ toClient' = <<>>
    BY <1>1, <1>4, <2>1, RequestPosted DEF Quiet
  <2>3. InOrder'
    BY <1>3, <1>4 DEF Post
  <2> QED BY <1>1, <1>2, <2>1, <2>2, <2>3 DEF DownloadContent, DownloadStages
<1>5. CASE pc = "insert" /\ Post(Message("insert"), "inserting")
  <2>1. toClient = <<>> /\ plc.stage # "asking" /\ plc.bytes = Block /\ (toPlc = <<>> \/ Alone(toPlc, "ended"))
    BY <1>1, <1>5 DEF DownloadContent
  <2>2. toPlc' = Append(toPlc, Message("insert")) /\ pc' = "inserting" /\ toClient' = <<>>
    BY <1>1, <1>5, <2>1 DEF Post
  <2>3. \/ Asked("insert")'
        \/ Len(toPlc') = 2 /\ toPlc'[1].fn = "ended" /\ toPlc'[2].fn = "insert" /\ toClient' = <<>>
    <3>1. CASE toPlc = <<>>
      BY <1>1, <1>5, <2>1, <3>1, RequestPosted DEF Quiet
    <3>2. CASE Alone(toPlc, "ended")
      <4> DEFINE M == Messages(Requests)
                 insert == Message("insert")
      <4>1. toPlc \in Seq(M) /\ insert \in M /\ insert.fn = "insert"
        BY MessageTyped DEF TypedInv, LinkTyped, Requests
      <4>2. Len(toPlc) = 1 /\ toPlc[1].fn = "ended" /\ toPlc' = Append(toPlc, insert)
        BY <2>2, <3>2 DEF Alone
      <4> HIDE DEF M, insert
      <4>3. \A s \in Seq(M) : /\ Len(Append(s, insert)) = Len(s) + 1
                              /\ Append(s, insert)[Len(s) + 1] = insert
                              /\ \A i \in 1 .. Len(s) : Append(s, insert)[i] = s[i]
        BY <4>1
      <4>4. Len(toPlc') = 1 + 1 /\ toPlc'[1 + 1] = insert
        BY <4>1, <4>2, <4>3, Zenon
      <4>5. toPlc'[1] = toPlc[1]
        BY <4>1, <4>2, <4>3
      <4>6. 1 + 1 = 2
        OBVIOUS
      <4> QED BY <2>2, <4>1, <4>2, <4>4, <4>5, <4>6
    <3> QED BY <2>1, <3>1, <3>2
  <2>4. InOrder'
    BY <1>3, <2>1, <2>2
  <2> QED BY <1>1, <1>2, <2>1, <2>2, <2>3, <2>4 DEF DownloadContent, DownloadStages
<1> QED BY <1>1, <1>4, <1>5

LEMMA JobAwaited ==
    ASSUME DownloadContent, TypedInv, AwaitJob
    PROVE  DownloadContent'
<1>1. /\ up /\ pc = "job" /\ UNCHANGED <<scenario, up, toPlc, toClient, transfer, plc>>
      /\ pc' \in {"fragmentJob", "endJob"}
  BY DEF AwaitJob, Step
<1>2. InOrder'
  BY <1>1, OrderKept DEF DownloadContent
<1> QED BY <1>1, <1>2 DEF DownloadContent, DownloadStages, Positions, Block, Bytes, Asked, Alone,
                          Replied, Sent, Carries

LEMMA EndAnswered ==
    ASSUME DownloadContent, TypedInv, SendEnded
    PROVE  DownloadContent'
<1> DEFINE plain   == Message("ended")
           message == [plain EXCEPT !.reference = transfer.job]
<1>1. /\ up /\ pc = "ended" /\ UNCHANGED <<scenario, up, toClient, transfer, plc>>
      /\ pc' = "insert" /\ toPlc' = Append(toPlc, message)
  BY DEF SendEnded, Step
<1>2. Quiet /\ plc.stage # "asking" /\ plc.bytes = Bytes(1, transfer.offset) /\ transfer.offset = BlockSize
  BY <1>1 DEF DownloadContent
<1>3. plc.bytes = Block
  BY <1>2 DEF Block
<1>4. plain \in Messages(Requests) /\ plain.fn = "ended" /\ transfer.job \in Nat
  BY MessageTyped DEF Requests, TypedInv, TransferState
<1> HIDE DEF plain
<1>5. message \in Messages(Requests) /\ message.fn = "ended"
  BY <1>4 DEF Messages
<1> HIDE DEF message
<1>6. Len(toPlc') = 1 /\ toPlc'[1] = message
  BY <1>1, <1>2, FirstSent DEF Quiet
<1>7. Alone(toPlc, "ended")' /\ toClient' = <<>>
  BY <1>1, <1>2, <1>5, <1>6 DEF Alone, Quiet
<1>8. InOrder'
  BY <1>1, <1>3, <1>5, OrderSent DEF DownloadContent, DownloadRequests
<1> QED BY <1>1, <1>2, <1>3, <1>7, <1>8 DEF DownloadContent, DownloadStages, Positions, Block, Bytes

LEMMA SliceSent ==
    ASSUME DownloadContent, TypedInv, SendSlice
    PROVE  DownloadContent'
<1>1. /\ up /\ pc = "slice" /\ pc' = "job" /\ UNCHANGED <<scenario, up, toClient, plc>>
  BY DEF SendSlice, Step
<1>2. Quiet /\ plc.stage # "asking" /\ plc.bytes = Bytes(1, transfer.offset)
  BY <1>1 DEF DownloadContent
<1>3. transfer.offset \in 0 .. BlockSize /\ BlockSize \in Nat
  BY BlockTransferAssumption DEF TypedInv, TransferState
<1>4. Len(plc.bytes) = transfer.offset
  <2>1. transfer.offset \in Nat
    BY <1>3
  <2> QED BY <1>2, <2>1, FirstBytes
<1>5. /\ transfer'.offset = NextOffset
      /\ \E message \in Messages(Requests) :
            /\ message.fn = "fragment" /\ message.data = Bytes(transfer.offset + 1, NextOffset)
            /\ toPlc' = Append(toPlc, message)
  BY SliceTyped
<1>6. PICK message \in Messages(Requests) :
            /\ message.fn = "fragment" /\ message.data = Bytes(transfer.offset + 1, NextOffset)
            /\ toPlc' = Append(toPlc, message)
  BY <1>5
<1>7. NextOffset \in Len(plc.bytes) .. BlockSize
  BY <1>3, <1>4, NextOffsetTyped DEF TypedInv
<1>8. /\ Carries(message, transfer'.offset) /\ transfer'.offset \in Len(plc.bytes) .. BlockSize
      /\ Len(plc.bytes) <= transfer'.offset
  BY <1>3, <1>4, <1>5, <1>6, <1>7 DEF Carries
<1>9. InOrder'
  BY <1>1, <1>2, <1>6, <1>8, OrderSent DEF DownloadContent, DownloadRequests, Quiet
<1>10. Len(toPlc') = 1 /\ toPlc'[1] = message
  BY <1>2, <1>6, FirstSent DEF Quiet
<1>11. Asked("fragment")' /\ Carries(toPlc[1], transfer.offset)'
  BY <1>1, <1>2, <1>6, <1>8, <1>10 DEF Asked, Alone, Quiet, Carries
<1> QED BY <1>1, <1>2, <1>8, <1>9, <1>11 DEF DownloadContent, DownloadStages, Positions, Block, Bytes

LEMMA DownloadReceived ==
    ASSUME DownloadContent, TypedInv, Receive, ~Uploading
    PROVE  DownloadContent'
<1> DEFINE reply == Head(toClient)
<1>1. /\ toClient # <<>> /\ up /\ UNCHANGED <<scenario, plc>>
      /\ pc \in {"starting", "fragmentJob", "endJob", "inserting"}
  BY DEF Receive, DownloadContent, DownloadStages, Waits
<1>2. /\ InOrder /\ Positions(plc.bytes)' = Positions(plc.bytes) /\ Positions(plc.bytes) /\ Block' = Block
      /\ (plc.stage = "inserted" => plc.bytes = Block)
  BY <1>1 DEF DownloadContent, Positions, Block, Bytes
<1>3. ASSUME NEW kind, NEW says, Finish(kind, says) PROVE DownloadContent'
  BY <1>1, <1>3, DownloadFinishes
<1>4. ASSUME NEW next, Answered(next)
      PROVE  toPlc' = toPlc /\ up' = up /\ pc' = next /\ toClient' = Tail(toClient) /\ InOrder'
  <2>1. toPlc' = toPlc /\ up' = up /\ pc' = next /\ toClient' = Tail(toClient)
    BY <1>4 DEF Answered
  <2> QED BY <1>1, <1>2, <2>1, OrderKept
<1>5. CASE pc = "starting"
  <2>1. /\ plc.bytes = <<>> /\ transfer.offset = 0 /\ toClient[1].size = NoSize
        /\ Replied \/ (toPlc = <<>> /\ Len(toClient) = 2 /\ plc.stage # "asking")
    BY <1>1, <1>5 DEF DownloadContent, Asked
  <2>2. ReceiveStart(reply)
    BY <1>5 DEF Receive
  <2> DEFINE known == [transfer EXCEPT !.expected = reply.size]
             fault == DecodeFault(reply, IF Uploading THEN "startUpload" ELSE "requestDownload")
  <2>3. ~(reply.size > UploadSafetyLimit)
    <3>1. reply = toClient[1]
      BY <1>1, TakenTyped DEF TypedInv, LinkTyped
    <3>2. reply.size = -1 /\ UploadSafetyLimit \in Nat
      BY <2>1, <3>1, BlockTransferAssumption DEF NoSize
    <3> QED BY <3>2
  <2>4. \/ Finish(FaultKind(fault), fault)
        \/ transfer' = known /\ Answered("job")
    BY <2>2, <2>3, Zenon DEF ReceiveStart
  <2>5. CASE transfer' = known /\ Answered("job")
    <3>1. transfer'.offset = 0
      BY <2>1, <2>5 DEF TypedInv, TransferState
    <3>2. toPlc' = <<>> /\ up' = up /\ pc' = "job" /\ toClient' = Tail(toClient) /\ InOrder'
      BY <1>4, <2>1, <2>5 DEF Replied
    <3>3. plc.bytes = Bytes(1, transfer'.offset)
      BY <2>1, <3>1, NoBytes
    <3>4. CASE Replied
      <4>1. toClient' = <<>>
        BY <3>2, <3>4, NothingLeft DEF Replied
      <4> QED BY <1>1, <1>2, <3>1, <3>2, <3>3, <4>1 DEF DownloadContent, DownloadStages, Sent
    <3>5. CASE toPlc = <<>> /\ Len(toClient) = 2 /\ plc.stage # "asking"
      <4>1. Len(toClient') = 1
        <5>1. Len(Tail(toClient)) = Len(toClient) - 1
          BY <1>1, TakenTyped DEF TypedInv, LinkTyped
        <5> QED BY <3>2, <3>5, <5>1
      <4>2. Replied'
        BY <3>2, <4>1 DEF Replied
      <4> QED BY <1>1, <1>2, <3>1, <3>2, <3>3, <3>5, <4>2 DEF DownloadContent, DownloadStages
    <3> QED BY <2>1, <3>4, <3>5
  <2> QED BY <1>3, <2>4, <2>5
<1>6. CASE pc \in {"fragmentJob", "endJob"}
  <2>1. Replied /\ plc.stage # "asking" /\ plc.bytes = Bytes(1, transfer.offset)
    BY <1>1, <1>6 DEF DownloadContent, Asked
  <2>2. ReceiveJob(reply)
    BY <1>6 DEF Receive
  <2> DEFINE asked == [transfer EXCEPT !.job = reply.reference]
             fault == DecodeFault(reply, IF pc = "fragmentJob" THEN "download" ELSE "downloadEnded")
             next  == IF pc = "fragmentJob" THEN "slice" ELSE "ended"
  <2>3. \/ Finish("protocol", fault)
        \/ transfer' = asked /\ Answered(next)
    BY <2>2, Zenon DEF ReceiveJob
  <2>4. CASE transfer' = asked /\ Answered(next)
    <3>1. transfer'.offset = transfer.offset /\ (pc = "endJob" => transfer.offset = BlockSize)
      BY <2>4 DEF TypedInv, TransferState
    <3>2. next \in {"slice", "ended"} /\ (next = "ended" => pc = "endJob")
      BY <1>6
    <3> HIDE DEF next, asked, reply
    <3>3. Quiet' /\ up' = up /\ pc' = next /\ InOrder'
      BY <1>4, <2>1, <2>4, AnswerTaken
    <3> QED BY <1>1, <1>2, <2>1, <3>1, <3>2, <3>3 DEF DownloadContent, DownloadStages
  <2> QED BY <1>3, <2>3, <2>4
<1>7. CASE pc = "inserting"
  <2>1. /\ Replied /\ plc.stage # "asking" /\ plc.bytes = Block
        /\ (toClient[1].shape = "exact" => plc.stage = "inserted")
    BY <1>1, <1>7 DEF DownloadContent, Asked
  <2>2. ReceiveInsert(reply) /\ UNCHANGED transfer
    BY <1>7 DEF Receive
  <2>3. \/ Finish(FaultKind(DecodeFault(reply, "start")), DecodeFault(reply, "start"))
        \/ reply.shape = "exact" /\ Answered("done")
    BY <2>2 DEF ReceiveInsert, DecodeFault
  <2>4. CASE reply.shape = "exact" /\ Answered("done")
    <3>1. Quiet' /\ up' = up /\ pc' = "done" /\ InOrder' /\ reply = toClient[1]
      BY <1>4, <2>1, <2>4, AnswerTaken
    <3>2. toPlc' = <<>>
      BY <3>1 DEF Quiet
    <3> QED BY <1>1, <1>2, <2>1, <2>4, <3>1, <3>2 DEF DownloadContent, DownloadStages
  <2> QED BY <1>3, <2>3, <2>4
<1> QED BY <1>1, <1>5, <1>6, <1>7

LEMMA DownloadServed ==
    ASSUME DownloadContent, TypedInv, PlcServes
    PROVE  DownloadContent'
<1> DEFINE request == toPlc[1]
<1>1. /\ request \in Messages(Requests) /\ request.fn \in Requests
      /\ toPlc' = Tail(toPlc) /\ toPlc # <<>>
      /\ UNCHANGED <<scenario, pc, up, transfer>>
      /\ Effect(scenario.mode, scenario.chunk, request, plc')
  BY RequestServed
<1>2. /\ InOrder /\ Positions(plc.bytes) /\ (plc.stage = "inserted" => plc.bytes = Block)
      /\ up \in BOOLEAN /\ pc \in DownloadStages /\ Block' = Block
  BY DEF DownloadContent, TypedInv, LinkTyped, Block, Bytes
<1>3. /\ InOrder' /\ Positions(plc.bytes)' /\ request.fn \in DownloadRequests
      /\ request.fn # "fragment" => plc'.bytes = plc.bytes
      /\ \A last \in Nat : request.fn = "fragment" /\ Carries(request, last)
               /\ Len(plc.bytes) <= last => plc'.bytes = Bytes(1, last)
  BY <1>2, OrderServed
<1>4. plc'.stage = "inserted" => plc'.bytes = Block
  <2>1. request.fn = "insert" => plc.bytes = Block
    <3>1. Len(toPlc) \in Nat \ {0}
      BY <1>1, ServedTyped DEF TypedInv, LinkTyped
    <3>2. 1 \in 1 .. Len(toPlc)
      BY <3>1
    <3> QED BY <1>2, <3>2 DEF InOrder
  <2>2. request.fn = "fragment" => plc'.stage = "asking"
    BY <1>1 DEF Effect
  <2>3. request.fn \in {"requestDownload", "ended", "insert", "disconnect"} =>
          plc'.stage = plc.stage \/ plc'.stage \in {"open", "spoiled", "asking", "ended"}
          \/ request.fn = "insert"
    BY <1>1 DEF Effect
  <2> QED BY <1>2, <1>3, <2>1, <2>2, <2>3 DEF DownloadRequests
<1>5. CASE ~up
  BY <1>1, <1>2, <1>3, <1>4, <1>5 DEF DownloadContent
<1>6. CASE up /\ pc = "starting"
  <2>1. /\ Asked("requestDownload") /\ plc.bytes = <<>> /\ transfer.offset = 0 /\ plc.stage = "idle"
    BY <1>1, <1>6 DEF DownloadContent, Replied
  <2>2. toClient = <<>> /\ Len(toPlc) = 1 /\ request.fn = "requestDownload"
    BY <2>1 DEF Asked, Alone
  <2>3. toPlc' = <<>>
    BY <1>1, <2>2, NothingLeft
  <2>4. Len(toClient') = 1 /\ toClient'[1].size = NoSize
    BY <1>6, <2>2, ReplyServed
  <2>5. Replied' /\ plc'.bytes = <<>> /\ plc'.bytes = Bytes(1, transfer'.offset)
    BY <1>1, <1>3, <2>1, <2>2, <2>3, <2>4, NoBytes DEF Replied
  <2> HIDE DEF request
  <2> QED BY <1>1, <1>2, <1>3, <1>4, <1>6, <2>1, <2>3, <2>4, <2>5 DEF DownloadContent, Sent
<1>7. CASE up /\ pc \in {"job", "fragmentJob", "endJob"}
  <2>1. Asked("fragment") /\ Carries(request, transfer.offset) /\ Len(plc.bytes) <= transfer.offset
    BY <1>1, <1>7 DEF DownloadContent, Replied
  <2>2. toClient = <<>> /\ Len(toPlc) = 1 /\ request.fn = "fragment"
    BY <2>1 DEF Asked, Alone
  <2>3. toPlc' = <<>>
    BY <1>1, <2>2, NothingLeft
  <2>4. toClient' = <<>>
    BY <1>7, <2>2, ReplyServed
  <2>5. plc'.bytes = Bytes(1, transfer'.offset)
    <3>1. transfer.offset \in Nat /\ BlockSize \in Nat
      BY BlockTransferAssumption DEF TypedInv, TransferState
    <3> QED BY <1>1, <1>3, <2>1, <2>2, <3>1
  <2> HIDE DEF request
  <2> QED BY <1>1, <1>2, <1>3, <1>4, <1>7, <2>3, <2>4, <2>5 DEF DownloadContent, Sent
<1>8. CASE up /\ pc = "insert"
  <2>1. /\ toClient = <<>> /\ plc.stage # "asking" /\ plc.bytes = Block /\ Alone(toPlc, "ended")
    BY <1>1, <1>8 DEF DownloadContent
  <2>2. Len(toPlc) = 1 /\ request.fn = "ended"
    BY <2>1 DEF Alone
  <2>3. toPlc' = <<>>
    BY <1>1, <2>2, NothingLeft
  <2>4. toClient' = <<>>
    BY <1>8, <2>1, <2>2, ReplyServed
  <2>5. plc'.bytes = Block /\ plc'.stage = "ended"
    BY <1>1, <1>3, <2>1, <2>2 DEF Effect
  <2> HIDE DEF request
  <2> QED BY <1>1, <1>2, <1>3, <1>4, <1>8, <2>3, <2>4, <2>5 DEF DownloadContent
<1>9. CASE up /\ pc = "inserting"
  <2>1. /\ plc.stage # "asking" /\ plc.bytes = Block /\ toClient = <<>>
        /\ \/ Len(toPlc) = 1 /\ request.fn = "insert"
           \/ Len(toPlc) = 2 /\ request.fn = "ended" /\ toPlc[2].fn = "insert"
    BY <1>1, <1>9 DEF DownloadContent, Replied, Asked, Alone
  <2>2. plc'.bytes = Block
    BY <1>3, <2>1
  <2>3. CASE Len(toPlc) = 1 /\ request.fn = "insert"
    <3>1. toPlc' = <<>>
      BY <1>1, <2>3, NothingLeft
    <3>2. Len(toClient') = 1 /\ (toClient'[1].shape = "exact" => scenario.mode # "insert-refused")
      BY <1>9, <2>1, <2>3, ReplyServed
    <3>3. plc'.stage = IF scenario.mode = "insert-refused" THEN plc.stage ELSE "inserted"
      BY <1>1, <2>3 DEF Effect
    <3>4. Replied' /\ (toClient'[1].shape = "exact" => plc'.stage = "inserted") /\ plc'.stage # "asking"
      BY <2>1, <3>1, <3>2, <3>3 DEF Replied
    <3> HIDE DEF request
    <3> QED BY <1>1, <1>2, <1>3, <1>4, <1>9, <2>2, <3>4 DEF DownloadContent
  <2>4. CASE Len(toPlc) = 2 /\ request.fn = "ended" /\ toPlc[2].fn = "insert"
    <3>1. toClient' = <<>>
      BY <1>9, <2>1, <2>4, ReplyServed
    <3>2. plc'.stage = "ended"
      BY <1>1, <2>4 DEF Effect
    <3>3. Asked("insert")'
      <4>1. /\ Len(toPlc') = Len(toPlc) - 1
            /\ \A i \in 1 .. Len(toPlc) - 1 : toPlc'[i] = toPlc[i + 1]
        BY <1>1, ServedTyped DEF TypedInv, LinkTyped
      <4>2. Len(toPlc') = 1 /\ toPlc'[1] = toPlc[2]
        BY <2>4, <4>1
      <4> QED BY <2>4, <3>1, <4>2 DEF Asked, Alone
    <3> HIDE DEF request
    <3> QED BY <1>1, <1>2, <1>3, <1>4, <1>9, <2>2, <3>2, <3>3 DEF DownloadContent
  <2> QED BY <2>1, <2>3, <2>4
<1>10. CASE up /\ pc \notin {"starting", "job", "fragmentJob", "endJob", "insert", "inserting"}
  BY <1>1, <1>2, <1>10 DEF DownloadContent, DownloadStages, Quiet
<1> QED BY <1>5, <1>6, <1>7, <1>8, <1>9, <1>10

LEMMA DownloadAsked ==
    ASSUME DownloadContent, TypedInv, PlcAsks
    PROVE  DownloadContent'
<1>1. /\ up /\ plc.stage = "asking" /\ UNCHANGED <<scenario, pc, up, toPlc, transfer>>
  BY DEF PlcAsks
<1>2. /\ plc'.bytes = plc.bytes /\ plc'.stage \in {"spoiled", "asked"}
      /\ toClient' = Append(toClient, PlcJob(scenario.mode))
  BY AsksTyped
<1>3. toPlc = <<>> /\ plc.bytes = Bytes(1, transfer.offset)
      /\ pc \in {"starting", "job", "fragmentJob", "endJob"}
  BY <1>1 DEF DownloadContent, Sent
<1>4. /\ InOrder' /\ Positions(plc.bytes)' = Positions(plc.bytes) /\ Block' = Block
  BY <1>1, <1>2, OrderKept DEF DownloadContent, Positions, Block, Bytes
<1>5. /\ Len(toClient') = Len(toClient) + 1
      /\ Len(toClient) = 1 => toClient'[1] = toClient[1]
  <2> DEFINE M == Messages(Replies)
             job == PlcJob(scenario.mode)
  <2>1. toClient \in Seq(M) /\ job \in M
    BY JobTyped DEF TypedInv, LinkTyped
  <2>2. toClient' = Append(toClient, job)
    BY <1>2
  <2> HIDE DEF M, job
  <2> QED BY <2>1, <2>2
<1>6. CASE pc = "starting"
  <2>1. Replied /\ plc.bytes = <<>> /\ transfer.offset = 0 /\ toClient[1].size = NoSize
    BY <1>1, <1>3, <1>6, NothingLeft DEF DownloadContent, Asked, Alone, Replied
  <2>2. Len(toClient') = 2 /\ toClient'[1].size = NoSize
    BY <1>5, <2>1 DEF Replied
  <2> QED BY <1>1, <1>2, <1>3, <1>4, <1>6, <2>1, <2>2 DEF DownloadContent
<1>7. CASE pc \in {"job", "fragmentJob", "endJob"}
  <2>1. toClient = <<>>
    BY <1>1, <1>3, <1>7 DEF DownloadContent
  <2>2. Len(toClient') = 1
    BY <1>5, <2>1, NothingLeft
  <2>3. Replied'
    BY <1>1, <1>3, <2>2 DEF Replied
  <2> QED BY <1>1, <1>2, <1>3, <1>4, <1>7, <2>3 DEF DownloadContent
<1> QED BY <1>3, <1>6, <1>7

LEMMA DownloadContentStep ==
    ASSUME DownloadContent, TypedInv, ~Uploading, [Next]_vars
    PROVE  DownloadContent'
<1>1. pc \in DownloadStages
  BY DEF DownloadContent
<1>2. CASE Begin
  <2>1. \/ Finish("invalidInput", "block") /\ plc' = plc
        \/ /\ pc = "begin" /\ pc' = "start"
           /\ UNCHANGED <<up, toPlc, toClient, transfer, plc>>
    BY <1>2, Zenon DEF Begin
  <2>2. CASE pc = "begin" /\ pc' = "start" /\ UNCHANGED <<up, toPlc, toClient, transfer, plc>>
    <3>1. InOrder'
      BY <2>2, OrderKept DEF DownloadContent
    <3> QED BY <2>2, <3>1 DEF DownloadContent, DownloadStages, Quiet, Positions, Block, Bytes, Sent
  <2> QED BY <2>1, <2>2, DownloadFinishes
<1>3. CASE SendStart \/ SendInsert
  BY <1>3, DownloadRequested
<1>4. CASE Reconnect
  <2>1. /\ pc = "reconnect" /\ pc' = "start" /\ up' = TRUE /\ toPlc' = <<>> /\ toClient' = <<>>
        /\ plc' = NewPlc /\ transfer' = transfer
    BY <1>4 DEF Reconnect
  <2>2. transfer.offset = 0
    BY <2>1 DEF DownloadContent
  <2>3. InOrder'
    BY <2>1, OrderEmpty
  <2>4. plc'.bytes = <<>> /\ plc'.stage = "idle"
    BY <2>1 DEF NewPlc
  <2>5. Positions(plc.bytes)'
    BY <2>4, NothingPositioned DEF Positions, Bytes
  <2> QED BY <2>1, <2>2, <2>3, <2>4, <2>5 DEF DownloadContent, DownloadStages, Quiet
<1>5. CASE ReconnectFails
  <2>1. PICK kind : StartFails(kind)
    BY <1>5 DEF ReconnectFails
  <2>2. pc = "reconnect" /\ transfer' = transfer /\ plc' = plc
    BY <1>5 DEF ReconnectFails
  <2> QED BY <2>1, <2>2, DownloadStartFails DEF DownloadContent
<1>6. CASE TooManyFragments
  <2>1. Finish("protocol", "tooManyFragments") /\ plc' = plc
    BY <1>6 DEF TooManyFragments, Refuse, InUploadLoop
  <2> QED BY <2>1, DownloadFinishes
<1>7. CASE SkipCleanup \/ RequestFragment \/ EndUpload
  BY <1>1, <1>7 DEF SkipCleanup, RequestFragment, EndUpload, Step, DownloadStages
<1>8. CASE AwaitJob
  BY <1>8, JobAwaited
<1>9. CASE SendSlice
  BY <1>9, SliceSent
<1>10. CASE SendEnded
  BY <1>10, EndAnswered
<1>11. CASE Receive
  BY <1>11, DownloadReceived
<1>12. CASE ReceiveTimesOut \/ BudgetSpent \/ PeerClosed
  <2>1. PICK kind : up /\ ExchangeFails(kind)
    BY <1>12 DEF ReceiveTimesOut, BudgetSpent, PeerClosed
  <2>2. transfer' = transfer /\ plc' = plc
    BY <2>1 DEF ExchangeFails
  <2>3. \/ pc \in {"start", "starting"} /\ StartFails(kind)
        \/ Finish(kind, "exchange")
    BY <1>1, <2>1 DEF ExchangeFails, DownloadStages
  <2>4. pc \in {"start", "starting"} => transfer.offset = 0
    BY <2>1 DEF DownloadContent
  <2> QED BY <2>2, <2>3, <2>4, DownloadStartFails, DownloadFinishes
<1>13. CASE PlcServes
  BY <1>13, DownloadServed
<1>14. CASE PlcAsks
  BY <1>14, DownloadAsked
<1>15. CASE PlcCloses \/ Tick \/ UNCHANGED vars
  <2>1. /\ UNCHANGED <<scenario, pc, up, toPlc, toClient, transfer>>
        /\ plc' = plc \/ plc' = [plc EXCEPT !.closed = TRUE]
    BY <1>15 DEF PlcCloses, Tick, vars
  <2>2. plc'.bytes = plc.bytes /\ plc'.stage = plc.stage
    BY <2>1 DEF TypedInv, PlcState
  <2>3. InOrder'
    BY <2>1, <2>2, OrderKept DEF DownloadContent
  <2> QED BY <2>1, <2>2, <2>3 DEF DownloadContent, Quiet, Asked, Alone, Replied, Positions, Block,
                                Bytes, Sent, Carries
<1>16. CASE ClientStep
  BY <1>2, <1>3, <1>4, <1>5, <1>6, <1>7, <1>8, <1>9, <1>10, <1>11, <1>12, <1>16 DEF ClientStep
<1> QED BY <1>13, <1>14, <1>15, <1>16 DEF Next

-----------------------------------------------------------------------------
(* All or nothing                                                          *)

LEMMA TypedInit == Init => TypedInv
<1> SUFFICES ASSUME Init PROVE TypedInv
  OBVIOUS
<1>1. StartRetries \in Nat /\ MaxTime \in Nat /\ BlockSize \in Nat /\ MaxFragments \in Nat
      /\ UploadSafetyLimit \in Nat
  BY BlockTransferAssumption
<1>2. retries \in 0 .. StartRetries /\ now \in 0 .. MaxTime /\ NoDeadline \in Deadline
  BY <1>1 DEF Init, Deadline
<1>3. <<>> \in Seq(Nat) /\ Len(<<>>) = 0
  OBVIOUS
<1>4. transfer \in TransferState /\ Len(transfer.data) <= UploadSafetyLimit
  BY <1>1, <1>3 DEF Init, TransferState, NoSize
<1>5. plc \in PlcState
  BY <1>3 DEF Init, NewPlc, PlcState, Stages
<1>6. LinkTyped
  BY NothingTyped DEF Init, LinkTyped, NoFailure
<1> QED BY <1>2, <1>4, <1>5, <1>6 DEF Init, TypedInv

LEMMA ContentInit == Init => ContentInv
<1> SUFFICES ASSUME Init PROVE ContentInv
  OBVIOUS
<1>1. EndInv /\ TypedInv
  BY EndInit, TypedInit
<1>2. plc.bytes = <<>> /\ plc.stage = "idle" /\ transfer.data = <<>> /\ transfer.offset = 0
      /\ Quiet /\ pc = "begin" /\ up = TRUE
  BY DEF Init, NewPlc, Quiet
<1>3. UploadContent
  BY <1>2 DEF UploadContent
<1>4. \A i \in 1 .. 0 : FALSE
  OBVIOUS
<1>5. InOrder
  BY <1>2, <1>4, EmptySeq DEF InOrder, Quiet
<1>6. DownloadContent
  BY <1>2, <1>5, NothingPositioned DEF DownloadContent, DownloadStages
<1> QED BY <1>1, <1>3, <1>6 DEF ContentInv

LEMMA ContentStep == ASSUME ContentInv, [Next]_vars PROVE ContentInv'
<1>1. EndInv' /\ TypedInv'
  BY EndStep, TypedStep DEF ContentInv
<1>2. scenario' = scenario
  BY DEF Next, ClientStep, Begin, SendStart, Reconnect, ReconnectFails, RequestFragment,
         TooManyFragments, EndUpload, SkipCleanup, AwaitJob, SendSlice, SendEnded, SendInsert, Receive,
         ReceiveTimesOut, BudgetSpent, PeerClosed, ExchangeFails, PlcServes, PlcAsks, PlcCloses, Tick, vars
<1>3. Uploading' = Uploading
  BY <1>2 DEF Uploading
<1>4. ASSUME Uploading PROVE UploadContent'
  BY <1>4, UploadContentStep DEF ContentInv, EndInv
<1>5. ASSUME ~Uploading PROVE DownloadContent'
  BY <1>5, DownloadContentStep DEF ContentInv
<1> QED BY <1>1, <1>3, <1>4, <1>5 DEF ContentInv

(* What has been transferred, on both sides of the connection and on it,   *)
(* at every stage of uploadBlockValue and downloadBlockValue.              *)
THEOREM ContentInvariant == Spec => []ContentInv
<1>1. ContentInv /\ [Next]_vars => ContentInv'
  BY ContentStep
<1> QED BY <1>1, ContentInit, PTL DEF Spec

LEMMA ContentIsWhole == ContentInv => WholeBlock
<1> SUFFICES ASSUME ContentInv PROVE WholeBlock
  OBVIOUS
<1>1. TypedInv /\ TypeOK
  BY TypedMeansTypeOK DEF ContentInv
<1>2. ASSUME Uploading, pc = "done"
      PROVE  /\ plc.stage = "ended" /\ transfer.data = plc.bytes
             /\ transfer.expected \in {NoSize, Len(transfer.data)}
             /\ scenario.mode \in {"good", "undeclared"} => transfer.data = Block
  BY <1>2 DEF ContentInv, UploadContent, Good
<1>3. ASSUME ~Uploading
      PROVE  /\ IsPrefix(plc.bytes, Block)
             /\ plc.stage = "inserted" => plc.bytes = Block
             /\ pc = "done" => plc.stage = "inserted"
  <2> DEFINE bytes == plc.bytes
             here  == Len(bytes)
  <2>1. /\ Positions(bytes)
        /\ plc.stage = "inserted" => bytes = Block
        /\ pc = "done" => plc.stage = "inserted"
    BY <1>3 DEF ContentInv, DownloadContent
  <2>2. bytes \in Seq(Nat) /\ here \in Nat /\ here <= BlockSize /\ bytes = Bytes(1, here)
    BY <1>1, <2>1 DEF TypedInv, PlcState, Positions
  <2> HIDE DEF bytes, here
  <2>3. \A i \in 1 .. here : bytes[i] = i
    BY <2>2, FirstBytes
  <2>4. Block \in Seq(Nat) /\ Len(Block) = BlockSize /\ \A i \in 1 .. BlockSize : Block[i] = i
    BY BlockTransferAssumption, FirstBytes DEF Block
  <2>5. \A s \in Seq(Nat) : \A n \in 0 .. Len(s) :
           /\ SubSeq(s, 1, n) \in Seq(Nat) /\ Len(SubSeq(s, 1, n)) = n
           /\ \A i \in 1 .. n : SubSeq(s, 1, n)[i] = s[i]
    OBVIOUS
  <2>6. Len(bytes) = here
    BY DEF here
  <2>7. SubSeq(bytes, 1, here) = SubSeq(Block, 1, here)
    <3> DEFINE a == SubSeq(bytes, 1, here)
               b == SubSeq(Block, 1, here)
    <3>1. here \in 0 .. Len(bytes) /\ here \in 0 .. Len(Block) /\ BlockSize \in Nat
      BY <2>2, <2>4, <2>6, BlockTransferAssumption
    <3>2. a \in Seq(Nat) /\ Len(a) = here /\ \A i \in 1 .. here : a[i] = bytes[i]
      BY <2>2, <2>5, <3>1
    <3>3. b \in Seq(Nat) /\ Len(b) = here /\ \A i \in 1 .. here : b[i] = Block[i]
      BY <2>4, <2>5, <3>1
    <3>4. \A i \in 1 .. here : i \in 1 .. BlockSize
      BY <2>2, <3>1
    <3> HIDE DEF a, b
    <3>5. \A i \in 1 .. here : a[i] = b[i]
      BY <2>3, <2>4, <3>2, <3>3, <3>4
    <3>6. a = b
      BY <3>2, <3>3, <3>5
    <3> QED BY <3>6 DEF a, b
  <2>8. IsPrefix(bytes, Block)
    BY <2>2, <2>4, <2>6, <2>7 DEF IsPrefix
  <2> QED BY <2>1, <2>8 DEF bytes
<1> QED BY <1>1, <1>2, <1>3 DEF WholeBlock

(* Transfers are all or nothing, for every block and every PDU length: an  *)
(* upload returns what the PLC served, in order and as declared, and only  *)
(* once it has been ended; the PLC never has other bytes of a download     *)
(* than the first ones of the block, and inserts only the complete block.  *)
THEOREM BlocksArriveWhole == Spec => []WholeBlock
BY ContentInvariant, ContentIsWhole, PTL

-----------------------------------------------------------------------------
(* Faults: where the fault of a scripted PLC is                            *)

(* What the properties of faults need of the block: room for a fragment    *)
(* that ends too early, twice, and the safety limit beyond it.             *)
FaultsShow == BlockSize >= 4 /\ BlockSize <= UploadSafetyLimit

Lost == failure.kind = "timeout" \/ failure.says \in {"start", "tooManyFragments"}

Midstream == {"upload-midstream-short", "upload-midstream-overflow"}

(* How far an upload gets without a fault.                                 *)
Underway ==
    /\ transfer.expected = DeclaredSize(scenario.mode) /\ scenario.mode # "missing-block"
    /\ ~(transfer.expected > UploadSafetyLimit)
    /\ Scripted(scenario.mode) =>
          transfer.data = <<>> \/ (scenario.mode \in Midstream /\ Len(transfer.data) = 2)

(* The reply to an UPLOAD, and what the PLC expects after it.              *)
FragmentServed(reply) ==
    /\ reply = UploadScript(scenario.mode, Len(transfer.data), scenario.chunk)
    /\ plc.stage = IF Spoils(scenario.mode, Len(transfer.data)) THEN "spoiled" ELSE "open"

(* An UPLOAD is requested of a PLC that expects it, before anything else.   *)
UploadsInTurn ==
    \A i \in 1 .. Len(toPlc) : toPlc[i].fn = "upload" => i = 1 /\ plc.stage = "open"

Reported == Lost \/ failure = [kind |-> "protocol", says |-> ExpectedUploadReport(scenario.mode)]

(* The client takes nothing after the fragment that spoils an upload, and  *)
(* keeps the error that it made of it.                                     *)
FaultKept ==
    Scripted(scenario.mode) =>
        /\ pc # "done"
        /\ pc \in {"end", "ending"} => scenario.mode = "upload-end-bad-ack"
        /\ pc \in {"cleanup", "cleaning", "failed"} => Reported

(* The one reply that is on its way.                                       *)
FaultOnLink ==
    up =>
       /\ pc = "starting" /\ toClient # <<>> =>
             /\ toClient[1].fn = "startUpload" /\ toClient[1].size = DeclaredSize(scenario.mode)
             /\ IF scenario.mode = "missing-block" THEN toClient[1].shape = "refused"
                ELSE toClient[1].shape = "exact" /\ plc.stage = "open"
       /\ pc \in {"next", "fragment"} => Underway
       /\ pc = "next" => plc.stage = "open"
       /\ pc = "fragment" /\ toClient # <<>> => FragmentServed(toClient[1])
       /\ pc = "ending" /\ toClient # <<>> /\ scenario.mode = "upload-end-bad-ack" =>
             toClient[1].fn = "endUpload" /\ toClient[1].shape = "extra"

UploadFaults ==
    /\ ~plc.failed
    /\ plc.closed => scenario.mode = "fragile"
    /\ UploadsInTurn /\ FaultKept /\ FaultOnLink

SpoiledAtOnce == {"wrong-block", "reserved", "truncated", "data", "early-ended"}
Unacknowledged == {"ack-extra", "ack-data"}

(* What is on its way to the PLC is what it expects next.                  *)
InPhase ==
    \A i \in 1 .. Len(toPlc) :
        /\ toPlc[i].fn \in {"fragment", "ended"} =>
              i = 1 /\ plc.stage = "asked" /\ toPlc[i].reference = plc.reference
        /\ toPlc[i].fn = "fragment" => Len(toPlc[i].data) + Overhead <= pdu
        /\ toPlc[i].fn = "insert" =>
              \/ i = 1 /\ plc.stage = "ended"
              \/ i = 2 /\ toPlc[1].fn = "ended"

JobServed(job) ==
    /\ job = PlcJob(scenario.mode)
    /\ plc.stage = IF SpoiledJob(scenario.mode) THEN "spoiled" ELSE "asked"

DownloadReported ==
    \/ Lost \/ scenario.mode \in {"fragile", "invalid", "insert-refused"}
    \/ failure.kind = ExpectedDownloadKind(scenario.mode)

(* The acknowledgement, a job or the lost connection at which a faulty     *)
(* download stops, and the error that is made of it.                       *)
StoppedDownload ==
    /\ scenario.mode \in SpoiledAtOnce => transfer.offset = 0
    /\ pc = "fragmentJob" => transfer.offset < BlockSize
    /\ pc \in {"job", "fragmentJob", "endJob", "slice", "ended", "insert", "inserting", "done"} =>
          scenario.mode \notin Unacknowledged
    /\ pc \in {"slice", "ended", "insert", "inserting", "done"} => scenario.mode \notin SpoiledAtOnce
    /\ pc \in {"ended", "insert", "inserting", "done"} => scenario.mode # "extra-fragment"
    /\ pc # "failed" => failure.kind = "none"
    /\ pc = "failed" => DownloadReported

(* The messages from the PLC, and what it expects after them.              *)
JobOnLink ==
    up =>
       /\ pc = "starting" /\ toClient # <<>> =>
             /\ toClient[1].fn = "requestDownload"
             /\ toClient[1].shape = IF scenario.mode \in Unacknowledged THEN "extra" ELSE "exact"
       /\ pc = "starting" /\ Len(toClient) = 2 => JobServed(toClient[2])
       /\ pc \in {"job", "fragmentJob", "endJob"} /\ toClient # <<>> => JobServed(toClient[1])
       /\ pc \in {"slice", "ended"} => plc.stage = "asked" /\ transfer.job = plc.reference
       /\ pc = "insert" /\ toPlc = <<>> => plc.stage = "ended"
       /\ pc = "inserting" /\ toClient # <<>> =>
             /\ toClient[1].fn = "start"
             /\ toClient[1].shape = "exact" \/ scenario.mode = "insert-refused"

(* An interrupted download has no end: the PLC is gone with its first      *)
(* fragment.                                                               *)
Interrupted ==
    scenario.mode = "interrupted" /\ plc.bytes # <<>> => plc.closed /\ plc.stage = "asking"

DownloadFaults ==
    /\ ~plc.failed
    /\ plc.closed => scenario.mode \in {"fragile", "interrupted"}
    /\ Interrupted /\ InPhase /\ StoppedDownload /\ JobOnLink

FaultInv == (Uploading => UploadFaults) /\ (~Uploading => DownloadFaults)

-----------------------------------------------------------------------------
(* Faults: what a fragment makes of an upload                              *)

LEMMA FragmentIs ==
    ASSUME NEW last \in BOOLEAN, NEW data \in Seq(Nat)
    PROVE  /\ Fragment(last, data).fn = "upload" /\ Fragment(last, data).shape = "exact"
           /\ Fragment(last, data).last = last /\ Fragment(last, data).data = data
<1> DEFINE plain == Message("upload")
           ended == [plain EXCEPT !.last = last]
           all   == [ended EXCEPT !.data = data]
<1>1. Fragment(last, data) = all
  BY DEF Fragment
<1>2. plain \in Messages(Replies) /\ plain.fn = "upload" /\ plain.shape = "exact"
  BY MessageTyped DEF Replies
<1> HIDE DEF plain
<1>3. ended \in Messages(Replies) /\ ended.fn = "upload" /\ ended.shape = "exact" /\ ended.last = last
  BY <1>2 DEF Messages
<1> HIDE DEF ended
<1>4. all.fn = "upload" /\ all.shape = "exact" /\ all.last = last /\ all.data = data
  BY <1>3 DEF Messages
<1> QED BY <1>1, <1>4

LEMMA Final ==
    ASSUME NEW data \in Seq(Nat)
    PROVE  LET reply == Fragment(TRUE, data)
           IN  reply.fn = "upload" /\ reply.shape = "exact" /\ reply.last /\ reply.data = data
BY FragmentIs, Zenon

LEMMA Continued ==
    ASSUME NEW data \in Seq(Nat)
    PROVE  LET reply == Fragment(FALSE, data)
           IN  reply.fn = "upload" /\ reply.shape = "exact" /\ ~reply.last /\ reply.data = data
BY FragmentIs, Zenon

(* Upload.accept, by the bytes there would be.                             *)
LEMMA Accepting ==
    ASSUME transfer.expected # NoSize, NEW reply, NEW size, size = Len(transfer.data) + Len(reply.data),
           NEW expected, expected = transfer.expected
    PROVE  /\ ~reply.last /\ reply.data = <<>> => AcceptFault(reply) = "noProgress"
           /\ (reply.last \/ reply.data # <<>>) /\ size > expected =>
                 AcceptFault(reply) = "exceedsDeclared"
           /\ reply.last /\ ~(size > expected) /\ size # expected =>
                 AcceptFault(reply) = "notDeclaredLength"
           /\ ~reply.last /\ reply.data # <<>> /\ ~(size > expected) /\ size = expected =>
                 AcceptFault(reply) = "reachedDeclared"
           /\ reply.last /\ ~(size > expected) /\ size = expected /\ ~(size > UploadSafetyLimit) =>
                 AcceptFault(reply) = "exact"
           /\ ~reply.last /\ reply.data # <<>> /\ ~(size > expected) /\ size # expected
                 /\ ~(size > UploadSafetyLimit) => AcceptFault(reply) = "exact"
BY Zenon DEF AcceptFault

FragmentFault(reply) ==
    IF DecodeFault(reply, "upload") # "exact" THEN DecodeFault(reply, "upload") ELSE AcceptFault(reply)

LEMMA PairTyped == <<1, 2>> \in Seq(Nat) /\ Len(<<1, 2>>) = 2 /\ <<1, 2>> # <<>>
OBVIOUS

(* A malformed fragment is one whatever the state of the upload.           *)
LEMMA MalformedFault ==
    ASSUME NEW data \in Seq(Nat), NEW shape \in Shapes \ {"exact"}
    PROVE  FragmentFault(Malformed(Fragment(TRUE, data), shape)) = shape
<1> DEFINE plain == Fragment(TRUE, data)
           reply == Malformed(plain, shape)
<1>1. plain \in Messages(Replies) /\ plain.fn = "upload"
  BY Final, FragmentTyped, Zenon
<1> HIDE DEF plain
<1>2. reply.fn = "upload" /\ reply.shape = shape
  BY <1>1, MalformedTyped
<1> HIDE DEF reply
<1>3. FragmentFault(reply) = shape
  BY <1>2 DEF FragmentFault, DecodeFault
<1> QED BY <1>3 DEF reply, plain

LEMMA ExactFault ==
    ASSUME NEW reply, reply.fn = "upload", reply.shape = "exact"
    PROVE  FragmentFault(reply) = AcceptFault(reply)
BY DEF FragmentFault, DecodeFault

(* What the scripted PLC sends next is refused as expected, or is the last *)
(* fragment before the faulty end, or the first of two.                    *)
Outcome(reply) ==
    \/ /\ FragmentFault(reply) # "exact" /\ FragmentFault(reply) = ExpectedUploadReport(scenario.mode)
    \/ /\ FragmentFault(reply) = "exact" /\ reply.last /\ scenario.mode = "upload-end-bad-ack"
    \/ /\ FragmentFault(reply) = "exact" /\ ~reply.last /\ scenario.mode \in Midstream
       /\ Len(transfer.data) = 0 /\ Len(reply.data) = 2

Served(reply) == reply = UploadScript(scenario.mode, Len(transfer.data), scenario.chunk)

LEMMA MalformedOutcome ==
    ASSUME NEW reply, Served(reply),
           scenario.mode \in {"upload-invalid-marker", "upload-length-mismatch", "upload-wrong-function",
                              "upload-invalid-flag", "upload-cleanup-bad-ack"}
    PROVE  Outcome(reply)
<1> DEFINE two == <<1, 2>>
           mode == scenario.mode
<1>1. two \in Seq(Nat)
  BY PairTyped
<1>2. \/ mode = "upload-invalid-marker" /\ reply = Malformed(Fragment(TRUE, two), "marker")
      \/ mode = "upload-length-mismatch" /\ reply = Malformed(Fragment(TRUE, two), "length")
      \/ mode = "upload-wrong-function" /\ reply = [Fragment(TRUE, two) EXCEPT !.fn = "startUpload"]
      \/ /\ mode \in {"upload-invalid-flag", "upload-cleanup-bad-ack"}
         /\ reply = Malformed(Fragment(TRUE, two), "flag")
  BY Zenon DEF Served, UploadScript
<1> HIDE DEF two
<1>3. \A shape \in {"marker", "length", "flag"} :
          FragmentFault(Malformed(Fragment(TRUE, two), shape)) = shape
  BY <1>1, MalformedFault DEF Shapes
<1>4. ASSUME reply = [Fragment(TRUE, two) EXCEPT !.fn = "startUpload"]
      PROVE  FragmentFault(reply) = "function"
  <2> DEFINE plain == Fragment(TRUE, two)
  <2>1. plain \in Messages(Replies)
    BY <1>1, FragmentTyped, Zenon
  <2>2. reply = [plain EXCEPT !.fn = "startUpload"]
    BY <1>4
  <2> HIDE DEF plain
  <2>3. reply.fn = "startUpload"
    BY <2>1, <2>2 DEF Messages
  <2> QED BY <2>3 DEF FragmentFault, DecodeFault
<1>5. FragmentFault(reply) # "exact" /\ FragmentFault(reply) = ExpectedUploadReport(mode)
  BY <1>2, <1>3, <1>4 DEF ExpectedUploadReport
<1> QED BY <1>5 DEF Outcome

LEMMA SizedOutcome ==
    ASSUME FaultsShow, NEW reply, Served(reply), transfer \in TransferState,
           transfer.expected = DeclaredSize(scenario.mode), Len(transfer.data) = 0,
           scenario.mode \in {"upload-empty-continuation", "upload-short-final", "upload-long-final",
                              "upload-more-at-declared-length", "upload-end-bad-ack"}
    PROVE  Outcome(reply)
<1> DEFINE two == <<1, 2>>
           mode == scenario.mode
           more == Bytes(1, BlockSize + 1)
           none == <<>>
           size == Len(transfer.data) + Len(reply.data)
           expected == transfer.expected
<1>1. BlockSize \in Nat /\ UploadSafetyLimit \in Nat /\ BlockSize >= 4 /\ BlockSize <= UploadSafetyLimit
      /\ BlockSize + 1 \in Nat
  BY BlockTransferAssumption DEF FaultsShow
<1>2. /\ two \in Seq(Nat) /\ Len(two) = 2 /\ two # <<>>
      /\ more \in Seq(Nat) /\ Len(more) = BlockSize + 1
      /\ Block \in Seq(Nat) /\ Len(Block) = BlockSize /\ none \in Seq(Nat)
  BY <1>1, PairTyped, FirstBytes, BlockTyped
<1>3. Block # <<>>
  BY <1>1, <1>2, EmptySeq
<1>4. \/ mode = "upload-empty-continuation" /\ reply = Fragment(FALSE, none)
      \/ mode \in {"upload-short-final", "upload-end-bad-ack"} /\ reply = Fragment(TRUE, two)
      \/ mode = "upload-long-final" /\ reply = Fragment(TRUE, more)
      \/ mode = "upload-more-at-declared-length" /\ reply = Fragment(FALSE, Block)
  BY Zenon DEF Served, UploadScript, LegacyModes
<1>5. expected = IF mode = "upload-end-bad-ack" THEN 2 ELSE BlockSize
  BY DEF DeclaredSize, LegacyModes
<1>6. transfer.expected # NoSize
  BY <1>1, <1>5 DEF NoSize
<1> DEFINE Cases(fault) ==
        /\ ~reply.last /\ reply.data = <<>> => fault = "noProgress"
        /\ (reply.last \/ reply.data # <<>>) /\ size > expected => fault = "exceedsDeclared"
        /\ reply.last /\ ~(size > expected) /\ size # expected => fault = "notDeclaredLength"
        /\ ~reply.last /\ reply.data # <<>> /\ ~(size > expected) /\ size = expected =>
                 fault = "reachedDeclared"
        /\ reply.last /\ ~(size > expected) /\ size = expected /\ ~(size > UploadSafetyLimit) =>
                 fault = "exact"
<1>7. Cases(AcceptFault(reply))
  BY <1>6, Accepting
<1> HIDE DEF two, more, none
<1>8. reply.fn = "upload" /\ reply.shape = "exact"
  <2>1. ASSUME NEW data \in Seq(Nat), reply = Fragment(TRUE, data) \/ reply = Fragment(FALSE, data)
        PROVE  reply.fn = "upload" /\ reply.shape = "exact"
    <3>1. CASE reply = Fragment(TRUE, data)
      BY <3>1, Final, Zenon
    <3>2. CASE reply = Fragment(FALSE, data)
      BY <3>2, Continued, Zenon
    <3> QED BY <2>1, <3>1, <3>2
  <2> QED BY <1>2, <1>4, <2>1
<1>9. Cases(FragmentFault(reply))
  BY <1>7, <1>8, ExactFault
<1> HIDE DEF Cases
<1>10. CASE mode = "upload-empty-continuation"
  <2>1. reply = Fragment(FALSE, none)
    BY <1>4, <1>10
  <2>2. ~reply.last /\ reply.data = none
    BY <1>2, <2>1, Continued, Zenon
  <2>3. FragmentFault(reply) = "noProgress"
    BY <1>9, <2>2 DEF Cases, none
  <2> QED BY <1>10, <2>3 DEF Outcome, ExpectedUploadReport
<1>11. CASE mode \in {"upload-short-final", "upload-end-bad-ack"}
  <2>1. reply = Fragment(TRUE, two)
    BY <1>4, <1>11
  <2>2. reply.last /\ reply.data = two
    BY <1>2, <2>1, Final, Zenon
  <2>3. size = 2
    BY <1>2, <2>2
  <2>4. CASE mode = "upload-short-final"
    <3>1. ~(size > expected) /\ size # expected
      <4>1. expected = BlockSize
        BY <1>5, <2>4
      <4> HIDE DEF size, expected
      <4> QED BY <1>1, <2>3, <4>1
    <3>2. FragmentFault(reply) = "notDeclaredLength"
      BY <1>9, <2>2, <3>1, Zenon DEF Cases
    <3> QED BY <2>4, <3>2 DEF Outcome, ExpectedUploadReport
  <2>5. CASE mode = "upload-end-bad-ack"
    <3>1. ~(size > expected) /\ size = expected /\ ~(size > UploadSafetyLimit)
      <4>1. expected = 2
        BY <1>5, <2>5
      <4> HIDE DEF size, expected
      <4> QED BY <1>1, <2>3, <4>1
    <3>2. FragmentFault(reply) = "exact"
      BY <1>9, <2>2, <3>1, Zenon DEF Cases
    <3> QED BY <2>2, <2>5, <3>2 DEF Outcome
  <2> QED BY <1>11, <2>4, <2>5
<1>12. CASE mode = "upload-long-final"
  <2>1. reply = Fragment(TRUE, more)
    BY <1>4, <1>12
  <2>2. reply.last /\ reply.data = more
    BY <1>2, <2>1, Final, Zenon
  <2>3. size > expected
    BY <1>1, <1>2, <1>5, <1>12, <2>2
  <2>4. FragmentFault(reply) = "exceedsDeclared"
    BY <1>9, <2>2, <2>3, Zenon DEF Cases
  <2> QED BY <1>12, <2>4 DEF Outcome, ExpectedUploadReport
<1>13. CASE mode = "upload-more-at-declared-length"
  <2>1. reply = Fragment(FALSE, Block)
    BY <1>4, <1>13
  <2>2. ~reply.last /\ reply.data = Block
    BY <1>2, <2>1, Continued, Zenon
  <2>3. ~(size > expected) /\ size = expected /\ reply.data # <<>>
    BY <1>1, <1>2, <1>3, <1>5, <1>13, <2>2
  <2>4. FragmentFault(reply) = "reachedDeclared"
    BY <1>9, <2>2, <2>3, Zenon DEF Cases
  <2> QED BY <1>13, <2>4 DEF Outcome, ExpectedUploadReport
<1> QED BY <1>10, <1>11, <1>12, <1>13

LEMMA MidstreamOutcome ==
    ASSUME FaultsShow, NEW reply, Served(reply), transfer \in TransferState,
           transfer.expected = DeclaredSize(scenario.mode), Len(transfer.data) \in {0, 2},
           scenario.mode \in Midstream
    PROVE  Outcome(reply)
<1> DEFINE two == <<1, 2>>
           one == <<3>>
           mode == scenario.mode
           here == Len(transfer.data)
           rest == Bytes(3, BlockSize + 1)
           size == here + Len(reply.data)
           expected == transfer.expected
<1>1. BlockSize \in Nat /\ UploadSafetyLimit \in Nat /\ BlockSize >= 4 /\ BlockSize <= UploadSafetyLimit
      /\ BlockSize + 1 \in Nat /\ here \in {0, 2} /\ 3 \in Nat
  BY BlockTransferAssumption DEF FaultsShow
<1>2. /\ two \in Seq(Nat) /\ Len(two) = 2 /\ two # <<>> /\ one \in Seq(Nat) /\ Len(one) = 1
      /\ rest \in Seq(Nat) /\ Len(rest) = BlockSize - 1
  <2> DEFINE last == BlockSize + 1
  <2>1. last >= 3 /\ last \in Nat /\ last - 3 + 1 = BlockSize - 1 /\ 3 \in Nat
    BY <1>1
  <2> HIDE DEF last
  <2>2. Bytes(3, last) \in Seq(Nat) /\ Len(Bytes(3, last)) = last - 3 + 1
    BY <2>1, BytesTyped
  <2>3. rest = Bytes(3, last)
    BY DEF last
  <2>4. one \in Seq(Nat) /\ Len(one) = 1
    OBVIOUS
  <2> HIDE DEF rest
  <2> QED BY <2>1, <2>2, <2>3, <2>4, PairTyped
<1>3. \/ here = 0 /\ reply = Fragment(FALSE, two)
      \/ here = 2 /\ mode = "upload-midstream-short" /\ reply = Fragment(TRUE, one)
      \/ here = 2 /\ mode = "upload-midstream-overflow" /\ reply = Fragment(TRUE, rest)
  <2> HIDE DEF two, one, rest
  <2>1. here = 0 \/ (here = 2 /\ here # 0)
    BY <1>1
  <2>2. reply = UploadScript(mode, here, scenario.chunk) /\ mode \in {"upload-midstream-short", "upload-midstream-overflow"}
    BY DEF Served, Midstream
  <2> HIDE DEF here, mode
  <2>3. UploadScript(mode, here, scenario.chunk) =
           IF mode = "upload-midstream-short"
           THEN IF here = 0 THEN Fragment(FALSE, two) ELSE Fragment(TRUE, one)
           ELSE IF here = 0 THEN Fragment(FALSE, two) ELSE Fragment(TRUE, rest)
    BY <2>2 DEF UploadScript, LegacyModes, two, one, rest
  <2> QED BY <2>1, <2>2, <2>3
<1>5. expected = BlockSize
  BY DEF DeclaredSize, LegacyModes, Midstream
<1>6. transfer.expected # NoSize
  BY <1>1, <1>5 DEF NoSize
<1> DEFINE Cases(fault) ==
        /\ (reply.last \/ reply.data # <<>>) /\ size > expected => fault = "exceedsDeclared"
        /\ reply.last /\ ~(size > expected) /\ size # expected => fault = "notDeclaredLength"
        /\ ~reply.last /\ reply.data # <<>> /\ ~(size > expected) /\ size # expected
                 /\ ~(size > UploadSafetyLimit) => fault = "exact"
<1>7. Cases(AcceptFault(reply))
  BY <1>6, Accepting
<1> HIDE DEF two, one, rest
<1>8. reply.fn = "upload" /\ reply.shape = "exact"
  <2>1. ASSUME NEW data \in Seq(Nat), reply = Fragment(TRUE, data) \/ reply = Fragment(FALSE, data)
        PROVE  reply.fn = "upload" /\ reply.shape = "exact"
    <3>1. CASE reply = Fragment(TRUE, data)
      BY <3>1, Final, Zenon
    <3>2. CASE reply = Fragment(FALSE, data)
      BY <3>2, Continued, Zenon
    <3> QED BY <2>1, <3>1, <3>2
  <2> QED BY <1>2, <1>3, <2>1
<1>9. Cases(FragmentFault(reply))
  BY <1>7, <1>8, ExactFault
<1> HIDE DEF Cases
<1>10. CASE here = 0 /\ reply = Fragment(FALSE, two)
  <2>2. ~reply.last /\ reply.data = two
    BY <1>2, <1>10, Continued, Zenon
  <2>3. ~(size > expected) /\ size # expected /\ ~(size > UploadSafetyLimit) /\ reply.data # <<>>
        /\ Len(reply.data) = 2
    <3>1. reply.data # <<>> /\ Len(reply.data) = 2
      BY <1>2, <2>2
    <3>2. size = 0 + 2
      BY <1>10, <3>1, Zenon
    <3> HIDE DEF size, expected
    <3> QED BY <1>1, <1>5, <3>1, <3>2
  <2>4. FragmentFault(reply) = "exact"
    BY <1>9, <2>2, <2>3, Zenon DEF Cases
  <2> QED BY <1>10, <2>2, <2>3, <2>4 DEF Outcome
<1>11. CASE here = 2 /\ mode = "upload-midstream-short" /\ reply = Fragment(TRUE, one)
  <2>2. reply.last /\ reply.data = one
    BY <1>2, <1>11, Final, Zenon
  <2>3. ~(size > expected) /\ size # expected
    <3>1. reply.data = one /\ Len(one) = 1
      BY <1>2, <2>2
    <3>2. size = 2 + 1
      BY <1>11, <3>1, Zenon
    <3> HIDE DEF size, expected
    <3> QED BY <1>1, <1>5, <3>2
  <2>4. FragmentFault(reply) = "notDeclaredLength"
    BY <1>9, <2>2, <2>3, Zenon DEF Cases
  <2> QED BY <1>11, <2>4 DEF Outcome, ExpectedUploadReport
<1>12. CASE here = 2 /\ mode = "upload-midstream-overflow" /\ reply = Fragment(TRUE, rest)
  <2>2. reply.last /\ reply.data = rest
    BY <1>2, <1>12, Final, Zenon
  <2>3. size > expected
    <3>1. reply.data = rest /\ Len(rest) = BlockSize - 1
      BY <1>2, <2>2
    <3>2. size = 2 + (BlockSize - 1)
      BY <1>12, <3>1, Zenon
    <3> HIDE DEF size, expected
    <3> QED BY <1>1, <1>5, <3>2
  <2>4. FragmentFault(reply) = "exceedsDeclared"
    BY <1>9, <2>2, <2>3, Zenon DEF Cases
  <2> QED BY <1>12, <2>4 DEF Outcome, ExpectedUploadReport
<1> QED BY <1>3, <1>10, <1>11, <1>12

LEMMA ScriptedOutcome ==
    ASSUME FaultsShow, NEW reply, Served(reply), TypedInv, Uploading, Underway, Scripted(scenario.mode)
    PROVE  Outcome(reply)
<1> DEFINE mode == scenario.mode
<1>1. mode \in UploadModes
  BY DEF TypedInv, Scenarios, Uploading
<1>2. transfer \in TransferState /\ transfer.expected = DeclaredSize(mode)
  BY DEF TypedInv, Underway
<1>3. Len(transfer.data) = 0 \/ (mode \in Midstream /\ Len(transfer.data) = 2)
  BY EmptySeq DEF Underway
<1>4. CASE mode \in Midstream
  <2>1. Len(transfer.data) \in {0, 2}
    BY <1>3
  <2> QED BY <1>2, <1>4, <2>1, MidstreamOutcome
<1>5. CASE mode \notin Midstream
  <2>1. \/ mode \in {"upload-invalid-marker", "upload-length-mismatch", "upload-wrong-function",
                     "upload-invalid-flag", "upload-cleanup-bad-ack"}
        \/ mode \in {"upload-empty-continuation", "upload-short-final", "upload-long-final",
                     "upload-more-at-declared-length", "upload-end-bad-ack"}
    BY <1>1, <1>5, Zenon DEF UploadModes, LegacyModes, Scripted, Midstream
  <2> QED BY <1>2, <1>3, <1>5, <2>1, MalformedOutcome, SizedOutcome
<1> QED BY <1>4, <1>5

-----------------------------------------------------------------------------
(* The scripted PLC during an upload                                       *)

LEMMA UploadEffect ==
    ASSUME IsPlc(plc), NEW mode, NEW chunk, NEW request, request.fn \in UploadRequests,
           ~plc.failed, request.fn = "upload" => plc.stage = "open",
           NEW after, after = PlcAfter(mode, chunk, request)
    PROVE  /\ ~after.failed /\ after.closed = plc.closed
           /\ request.fn = "startUpload" /\ mode # "missing-block" => after.stage = "open"
           /\ request.fn = "upload" =>
                 after.stage = IF Spoils(mode, Len(plc.bytes)) THEN "spoiled" ELSE "open"
<1>1. ASSUME NEW stage, after = [plc EXCEPT !.stage = stage]
      PROVE  ~after.failed /\ after.closed = plc.closed /\ after.stage = stage
  BY <1>1, FieldChanged DEF PlcFields
<1>2. CASE request.fn = "startUpload"
  <2> DEFINE stage == IF mode = "missing-block" THEN plc.stage ELSE "open"
  <2>1. after = [plc EXCEPT !.stage = stage]
    BY <1>2 DEF PlcAfter
  <2>2. mode # "missing-block" => stage = "open"
    OBVIOUS
  <2> HIDE DEF stage
  <2> QED BY <1>1, <1>2, <2>1, <2>2
<1>3. CASE request.fn = "endUpload"
  <2>1. after = [plc EXCEPT !.stage = "ended"]
    BY <1>3 DEF PlcAfter
  <2> QED BY <1>1, <1>3, <2>1
<1>4. CASE request.fn = "disconnect"
  BY <1>4 DEF PlcAfter
<1>5. CASE request.fn = "upload"
  <2> DEFINE stage  == IF Spoils(mode, Len(plc.bytes)) THEN "spoiled" ELSE plc.stage
             bytes  == plc.bytes \o UploadScript(mode, Len(plc.bytes), chunk).data
             failed == plc.failed \/ plc.stage # "open"
             one == [plc EXCEPT !.stage = stage]
             two == [one EXCEPT !.bytes = bytes]
             all == [two EXCEPT !.failed = failed]
  <2>1. after = all
    BY <1>5 DEF PlcAfter
  <2>2. ~failed /\ stage = IF Spoils(mode, Len(plc.bytes)) THEN "spoiled" ELSE "open"
    BY <1>5
  <2> HIDE DEF stage, bytes, failed
  <2>3. IsPlc(one) /\ one.stage = stage /\ one.closed = plc.closed
    BY FieldChanged DEF PlcFields
  <2> HIDE DEF one
  <2>4. IsPlc(two) /\ two.stage = stage /\ two.closed = plc.closed
    BY <2>3, FieldChanged DEF PlcFields
  <2> HIDE DEF two
  <2>5. all.failed = failed /\ all.stage = stage /\ all.closed = plc.closed
    BY <2>4, FieldChanged DEF PlcFields
  <2> HIDE DEF all
  <2> QED BY <1>5, <2>1, <2>2, <2>5
<1> QED BY <1>2, <1>3, <1>4, <1>5 DEF UploadRequests

(* The only reply to a request becomes the only message on its way.        *)
LEMMA OneReply ==
    ASSUME PlcServes, up, toClient = <<>>, NEW request, request = Head(toPlc), NEW reply,
           PlcReplies(scenario.mode, scenario.chunk, request) = <<reply>>
    PROVE  toClient' = <<reply>> /\ toClient'[1] = reply
<1>1. toClient' = toClient \o <<reply>>
  BY DEF PlcServes
<1>2. <<>> \o <<reply>> = <<reply>> /\ <<reply>>[1] = reply
  OBVIOUS
<1> QED BY <1>1, <1>2

LEMMA StartReply ==
    ASSUME NEW mode, NEW chunk, NEW request, request.fn = "startUpload"
    PROVE  \E reply : /\ PlcReplies(mode, chunk, request) = <<reply>>
                      /\ reply.fn = "startUpload" /\ reply.size = DeclaredSize(mode)
                      /\ reply.shape = IF mode = "missing-block" THEN "refused" ELSE "exact"
<1> DEFINE size  == DeclaredSize(mode)
           shape == IF mode = "missing-block" THEN "refused" ELSE "exact"
           reply == [Message("startUpload") EXCEPT !.size = size, !.shape = shape]
<1>1. Message("startUpload").shape = "exact"
  BY DEF Message
<1>2. PlcReplies(mode, chunk, request) = <<reply>>
  BY <1>1 DEF PlcReplies
<1>3. reply.fn = "startUpload" /\ reply.shape = shape /\ reply.size = size
  <2> HIDE DEF size, shape
  <2> QED BY DEF Message
<1> HIDE DEF reply
<1> QED BY <1>2, <1>3

LEMMA EndReply ==
    ASSUME NEW mode, NEW chunk, NEW request, request.fn = "endUpload",
           mode \in {"upload-end-bad-ack", "upload-cleanup-bad-ack"}
    PROVE  \E reply : /\ PlcReplies(mode, chunk, request) = <<reply>>
                      /\ reply.fn = "endUpload" /\ reply.shape = "extra"
<1> DEFINE plain == Message("endUpload")
           reply == Malformed(plain, "extra")
<1>1. PlcReplies(mode, chunk, request) = <<reply>>
  BY DEF PlcReplies
<1>2. plain \in Messages(Replies) /\ plain.fn = "endUpload" /\ "extra" \in Shapes
  BY MessageTyped DEF Replies, Shapes
<1> HIDE DEF plain
<1>3. reply.fn = "endUpload" /\ reply.shape = "extra"
  BY <1>2, MalformedTyped
<1> HIDE DEF reply
<1> QED BY <1>1, <1>3

-----------------------------------------------------------------------------
(* Faults: one step of an upload                                           *)

LEMMA TurnKept ==
    ASSUME UploadsInTurn, toPlc' = toPlc, plc'.stage = plc.stage
    PROVE  UploadsInTurn'
BY DEF UploadsInTurn

LEMMA TurnEmpty == ASSUME toPlc' = <<>> PROVE UploadsInTurn'
<1>1. Len(<<>>) = 0 /\ \A i \in 1 .. 0 : FALSE
  OBVIOUS
<1> QED BY <1>1 DEF UploadsInTurn

LEMMA TurnAppended ==
    ASSUME UploadsInTurn, TypedInv, NEW message \in Messages(Requests), toPlc' = Append(toPlc, message),
           plc'.stage = plc.stage, message.fn # "upload" \/ (toPlc = <<>> /\ plc.stage = "open")
    PROVE  UploadsInTurn'
<1> DEFINE M == Messages(Requests)
<1>1. toPlc \in Seq(M) /\ message \in M
  BY DEF TypedInv, LinkTyped
<1> HIDE DEF M
<1>2. /\ Len(toPlc') = Len(toPlc) + 1 /\ Len(toPlc) \in Nat /\ toPlc'[Len(toPlc) + 1] = message
      /\ \A i \in 1 .. Len(toPlc) : toPlc'[i] = toPlc[i]
      /\ toPlc = <<>> => Len(toPlc) = 0
  BY <1>1
<1>3. ASSUME NEW i \in 1 .. Len(toPlc'), toPlc'[i].fn = "upload"
      PROVE  i = 1 /\ plc.stage = "open"
  <2>1. i \in 1 .. Len(toPlc) \/ i = Len(toPlc) + 1
    BY <1>2
  <2>2. CASE i \in 1 .. Len(toPlc)
    BY <1>2, <1>3, <2>2 DEF UploadsInTurn
  <2>3. CASE i = Len(toPlc) + 1
    <3>1. toPlc'[i] = message /\ (toPlc = <<>> => i = 1)
      BY <1>2, <2>3
    <3> QED BY <1>3, <3>1
  <2> QED BY <2>1, <2>2, <2>3
<1> QED BY <1>3 DEF UploadsInTurn

LEMMA TurnClosed ==
    ASSUME UploadsInTurn, TypedInv, Close, plc' = plc
    PROVE  UploadsInTurn' /\ up' = FALSE
<1>1. Message("disconnect") \in Messages(Requests) /\ Message("disconnect").fn = "disconnect"
  BY MessageTyped DEF Requests
<1>2. toPlc' = toPlc \/ toPlc' = Append(toPlc, Message("disconnect"))
  BY DEF Close
<1>3. UploadsInTurn'
  BY <1>1, <1>2, TurnKept, TurnAppended
<1> QED BY <1>3 DEF Close

LEMMA TurnServed ==
    ASSUME UploadsInTurn, TypedInv, PlcServes
    PROVE  UploadsInTurn' /\ (toPlc[1].fn = "upload" => plc.stage = "open")
<1>1. toPlc' = Tail(toPlc) /\ toPlc # <<>>
  BY DEF PlcServes
<1>2. /\ Len(toPlc) \in Nat \ {0} /\ Len(toPlc') = Len(toPlc) - 1
      /\ \A i \in 1 .. Len(toPlc) - 1 : toPlc'[i] = toPlc[i + 1]
  BY <1>1, ServedTyped DEF TypedInv, LinkTyped
<1>3. ASSUME NEW i \in 1 .. Len(toPlc') PROVE toPlc'[i].fn # "upload"
  <2>1. i + 1 \in 1 .. Len(toPlc) /\ i + 1 # 1 /\ toPlc'[i] = toPlc[i + 1]
    BY <1>2
  <2> QED BY <2>1 DEF UploadsInTurn
<1>4. 1 \in 1 .. Len(toPlc)
  BY <1>2
<1> QED BY <1>3, <1>4 DEF UploadsInTurn

LEMMA ReportedAs ==
    ASSUME UNCHANGED scenario, NEW kind, NEW says, failure' = [kind |-> kind, says |-> says],
           kind = "timeout" \/ says \in {"start", "tooManyFragments"}
           \/ (kind = "protocol" /\ says = ExpectedUploadReport(scenario.mode))
    PROVE  Reported'
BY DEF Reported, Lost

LEMMA ReportedStill ==
    ASSUME UNCHANGED scenario, Reported, failure' = [kind |-> failure.kind, says |-> failure.says]
    PROVE  Reported'
BY DEF Reported, Lost

LEMMA FaultsGone ==
    ASSUME UploadFaults, TypedInv, Close, UNCHANGED <<scenario, plc>>,
           pc' \in {"reconnect", "cleanup", "failed"},
           Scripted(scenario.mode) /\ pc' # "reconnect" => Reported'
    PROVE  UploadFaults'
<1>1. UploadsInTurn' /\ up' = FALSE
  BY TurnClosed DEF UploadFaults
<1> QED BY <1>1 DEF UploadFaults, FaultKept, FaultOnLink

LEMMA FaultsFinish ==
    ASSUME UploadFaults, TypedInv, UNCHANGED <<scenario, plc>>, NEW kind, NEW says, Finish(kind, says),
           Scripted(scenario.mode) =>
              \/ kind = "timeout" \/ says \in {"start", "tooManyFragments"}
              \/ kind = "protocol" /\ says = ExpectedUploadReport(scenario.mode)
    PROVE  UploadFaults'
<1>1. Close /\ pc' = "failed" /\ failure' = [kind |-> kind, says |-> says]
  BY DEF Finish
<1>2. Scripted(scenario.mode) => Reported'
  BY <1>1, ReportedAs
<1> QED BY <1>1, <1>2, FaultsGone

(* The cleanup keeps the error that it follows.                            *)
LEMMA FaultsFinished ==
    ASSUME UploadFaults, TypedInv, UNCHANGED <<scenario, plc>>, pc \in {"cleanup", "cleaning"},
           Finish(failure.kind, failure.says)
    PROVE  UploadFaults'
<1>1. Close /\ pc' = "failed" /\ failure' = [kind |-> failure.kind, says |-> failure.says]
  BY DEF Finish
<1>2. Scripted(scenario.mode) => Reported'
  BY <1>1, ReportedStill DEF UploadFaults, FaultKept
<1> QED BY <1>1, <1>2, FaultsGone

LEMMA FaultsStartFails ==
    ASSUME UploadFaults, TypedInv, UNCHANGED <<scenario, plc>>, NEW kind, StartFails(kind)
    PROVE  UploadFaults'
<1>1. \/ Finish(kind, "start") \/ (Close /\ pc' = "reconnect")
  BY Zenon DEF StartFails
<1>2. CASE Finish(kind, "start")
  BY <1>2, FaultsFinish
<1>3. CASE Close /\ pc' = "reconnect"
  BY <1>3, FaultsGone
<1> QED BY <1>1, <1>2, <1>3

LEMMA FaultsAbandon ==
    ASSUME UploadFaults, TypedInv, UNCHANGED <<scenario, plc>>, NEW fault, Abandon(fault),
           Scripted(scenario.mode) => fault = ExpectedUploadReport(scenario.mode)
    PROVE  UploadFaults'
<1>1. /\ failure' = [kind |-> "protocol", says |-> fault] /\ pc' = "cleanup" /\ toPlc' = toPlc
  BY DEF Abandon
<1>2. Scripted(scenario.mode) => Reported'
  BY <1>1, ReportedAs
<1>3. UploadsInTurn'
  BY <1>1, TurnKept DEF UploadFaults
<1> QED BY <1>1, <1>2, <1>3 DEF UploadFaults, FaultKept, FaultOnLink

LEMMA FaultsRequested ==
    ASSUME UploadFaults, UploadContent, TypedInv,
           (SendStart /\ Uploading) \/ RequestFragment \/ EndUpload
    PROVE  UploadFaults'
<1>1. \A fn \in Requests : Message(fn) \in Messages(Requests) /\ Message(fn).fn = fn
  BY MessageTyped
<1>2. CASE SendStart /\ Uploading
  <2>1. /\ pc = "start" /\ up /\ Post(Message("startUpload"), "starting")
        /\ UNCHANGED <<scenario, up, toClient, transfer, plc, failure>>
    BY <1>2 DEF SendStart, Step
  <2>2. toPlc' = Append(toPlc, Message("startUpload")) /\ pc' = "starting" /\ toClient' = <<>>
    BY <2>1 DEF Post, UploadContent, Quiet
  <2>3. UploadsInTurn'
    BY <1>1, <2>1, <2>2, TurnAppended DEF UploadFaults, Requests
  <2> QED BY <2>1, <2>2, <2>3 DEF UploadFaults, FaultKept, FaultOnLink
<1>3. CASE RequestFragment
  <2>1. /\ pc = "next" /\ up /\ Post(Message("upload"), "fragment")
        /\ UNCHANGED <<scenario, up, toClient, transfer, plc, failure>>
    BY <1>3 DEF RequestFragment, Step
  <2>2. toPlc' = Append(toPlc, Message("upload")) /\ pc' = "fragment" /\ toClient' = <<>> /\ toPlc = <<>>
    BY <2>1 DEF Post, UploadContent, Quiet
  <2>3. Underway /\ plc.stage = "open"
    BY <2>1 DEF UploadFaults, FaultOnLink
  <2>4. UploadsInTurn'
    BY <1>1, <2>1, <2>2, <2>3, TurnAppended DEF UploadFaults, Requests
  <2>5. Underway'
    BY <2>1, <2>3 DEF Underway, DeclaredSize, Scripted
  <2> QED BY <2>1, <2>2, <2>4, <2>5 DEF UploadFaults, FaultKept, FaultOnLink
<1>4. CASE EndUpload
  <2>1. /\ pc \in {"end", "cleanup"} /\ up
        /\ Post(Message("endUpload"), IF pc = "end" THEN "ending" ELSE "cleaning")
        /\ UNCHANGED <<scenario, up, toClient, transfer, plc, failure>>
    BY <1>4 DEF EndUpload
  <2>2. toPlc' = Append(toPlc, Message("endUpload")) /\ pc' = IF pc = "end" THEN "ending" ELSE "cleaning"
    BY <2>1 DEF Post
  <2>3. UploadsInTurn'
    BY <1>1, <2>1, <2>2, TurnAppended DEF UploadFaults, Requests
  <2>4. pc = "end" => toClient = <<>>
    BY <2>1 DEF UploadContent, Quiet
  <2>5. Reported' = Reported
    BY <2>1 DEF Reported, Lost
  <2> QED BY <2>1, <2>2, <2>3, <2>4, <2>5 DEF UploadFaults, FaultKept, FaultOnLink
<1> QED BY <1>2, <1>3, <1>4

-----------------------------------------------------------------------------

LEMMA FaultsStarted ==
    ASSUME FaultsShow, UploadFaults, UploadContent, TypedInv, Uploading, Receive, pc = "starting"
    PROVE  UploadFaults'
<1> DEFINE reply == Head(toClient)
           mode  == scenario.mode
           fault == DecodeFault(reply, "startUpload")
<1>1. toClient # <<>> /\ up /\ UNCHANGED <<scenario, plc>> /\ ReceiveStart(reply)
  BY DEF Receive
<1>2. reply = toClient[1]
  BY <1>1, TakenTyped DEF TypedInv, LinkTyped
<1>3. /\ reply.fn = "startUpload" /\ reply.size = DeclaredSize(mode)
      /\ IF mode = "missing-block" THEN reply.shape = "refused"
         ELSE reply.shape = "exact" /\ plc.stage = "open"
  BY <1>1, <1>2 DEF UploadFaults, FaultOnLink
<1>4. transfer.data = <<>> /\ toPlc = toPlc
  BY <1>1 DEF UploadContent
<1>5. fault = reply.shape
  BY <1>3 DEF DecodeFault
<1>6. CASE mode = "missing-block"
  <2>1. fault = "refused" /\ ~Scripted(mode)
    BY <1>3, <1>5, <1>6 DEF Scripted
  <2>2. Finish(FaultKind(fault), fault)
    BY <1>1, <2>1 DEF ReceiveStart
  <2> QED BY <1>1, <2>1, <2>2, FaultsFinish
<1>7. CASE mode # "missing-block"
  <2>1. fault = "exact" /\ plc.stage = "open"
    BY <1>3, <1>5, <1>7
  <2>2. /\ transfer' = [transfer EXCEPT !.expected = reply.size]
        /\ IF reply.size > UploadSafetyLimit THEN Abandon("tooLarge") ELSE Answered("next")
    BY <1>1, <2>1, Zenon DEF ReceiveStart
  <2>3. CASE reply.size > UploadSafetyLimit
    <3>1. ~Scripted(mode)
      <4>1. SUFFICES ASSUME Scripted(mode) PROVE ~(DeclaredSize(mode) > UploadSafetyLimit)
        BY <1>3, <2>3
      <4>2. DeclaredSize(mode) \in {-1, 2, BlockSize}
        BY <4>1 DEF DeclaredSize, NoSize, Scripted
      <4> HIDE DEF mode
      <4> QED BY <4>2, BlockTransferAssumption DEF FaultsShow
    <3> QED BY <1>1, <2>2, <2>3, <3>1, FaultsAbandon
  <2>4. CASE ~(reply.size > UploadSafetyLimit)
    <3>1. /\ transfer'.expected = DeclaredSize(mode) /\ transfer'.data = <<>>
          /\ pc' = "next" /\ up' = up /\ toPlc' = toPlc
      BY <1>3, <1>4, <2>2, <2>4 DEF Answered, TypedInv, TransferState
    <3>2. ~(transfer'.expected > UploadSafetyLimit)
      BY <1>3, <2>4, <3>1
    <3> HIDE DEF reply, fault
    <3>3. Underway'
      BY <1>1, <1>7, <3>1, <3>2 DEF Underway, DeclaredSize, Scripted
    <3>4. UploadsInTurn'
      BY <1>1, <3>1, TurnKept DEF UploadFaults
    <3> QED BY <1>1, <2>1, <3>1, <3>3, <3>4 DEF UploadFaults, FaultKept, FaultOnLink
  <2> QED BY <2>3, <2>4
<1> QED BY <1>6, <1>7

LEMMA FaultsFragment ==
    ASSUME FaultsShow, UploadFaults, UploadContent, TypedInv, Uploading, Receive, pc = "fragment"
    PROVE  UploadFaults'
<1> DEFINE reply == Head(toClient)
           mode  == scenario.mode
           fault == FragmentFault(reply)
           more  == [transfer EXCEPT !.data = Assembled(reply)]
           taken == [more EXCEPT !.count = transfer.count + 1]
           next  == IF reply.last THEN "end" ELSE "next"
<1>1. toClient # <<>> /\ up /\ UNCHANGED <<scenario, plc>> /\ ReceiveFragment(reply)
  BY DEF Receive
<1>2. reply = toClient[1] /\ reply \in Messages(Replies)
  BY <1>1, TakenTyped DEF TypedInv, LinkTyped
<1>3. Underway /\ FragmentServed(reply)
  BY <1>1, <1>2 DEF UploadFaults, FaultOnLink
<1>4. \/ fault # "exact" /\ Abandon(fault)
      \/ fault = "exact" /\ transfer' = taken /\ Answered(next)
  BY <1>1, Zenon DEF ReceiveFragment, FragmentFault
<1>5. Scripted(mode) => Outcome(reply)
  <2> HIDE DEF reply
  <2>1. Served(reply)
    BY <1>3 DEF FragmentServed, Served
  <2> QED BY <1>3, <2>1, ScriptedOutcome
<1>6. CASE fault # "exact" /\ Abandon(fault)
  <2>1. Scripted(mode) => fault = ExpectedUploadReport(mode)
    BY <1>5, <1>6 DEF Outcome
  <2> QED BY <1>1, <1>6, <2>1, FaultsAbandon
<1>7. CASE fault = "exact" /\ transfer' = taken /\ Answered(next)
  <2>1. /\ transfer.data \in Seq(Nat) /\ reply.data \in Seq(Nat)
    BY <1>2 DEF TypedInv, TransferState, Messages
  <2>2. transfer'.data = transfer.data \o reply.data /\ transfer'.expected = transfer.expected
    BY <1>7 DEF TypedInv, TransferState, Assembled
  <2>3. pc' = next /\ up' = up /\ toPlc' = toPlc
    BY <1>7 DEF Answered
  <2>4. Scripted(mode) => \/ reply.last /\ mode = "upload-end-bad-ack"
                          \/ /\ ~reply.last /\ mode \in Midstream
                             /\ Len(transfer.data) = 0 /\ Len(reply.data) = 2
    BY <1>5, <1>7 DEF Outcome
  <2>5. UploadsInTurn'
    BY <1>1, <2>3, TurnKept DEF UploadFaults
  <2>6. Len(transfer.data \o reply.data) = Len(transfer.data) + Len(reply.data)
    <3> DEFINE a == transfer.data
               b == reply.data
    <3>1. a \in Seq(Nat) /\ b \in Seq(Nat)
      BY <2>1
    <3> HIDE DEF a, b
    <3>2. Len(a \o b) = Len(a) + Len(b)
      BY <3>1
    <3> QED BY <3>2 DEF a, b
  <2>7. CASE reply.last
    <3>1. pc' = "end"
      BY <2>3, <2>7
    <3> QED BY <1>1, <2>3, <2>4, <2>5, <2>7, <3>1 DEF UploadFaults, FaultKept, FaultOnLink
  <2>8. CASE ~reply.last
    <3>1. pc' = "next"
      BY <2>3, <2>8
    <3>2. plc.stage = "open"
      <4>1. ~Spoils(mode, Len(transfer.data))
        <5>1. Scripted(mode) => mode \in Midstream /\ Len(transfer.data) = 0
          <6> HIDE DEF mode, reply
          <6> QED BY <2>4, <2>8
        <5> HIDE DEF mode
        <5> QED BY <5>1 DEF Spoils, Midstream
      <4> QED BY <1>3, <4>1 DEF FragmentServed
    <3>3. Scripted(mode) => mode \in Midstream /\ Len(transfer'.data) = 2
      <4> DEFINE here  == Len(transfer.data)
                 added == Len(reply.data)
                 after == Len(transfer'.data)
      <4>1. after = here + added
        BY <2>2, <2>6, Zenon
      <4>2. Scripted(mode) => mode \in Midstream /\ here = 0 /\ added = 2
        <5> HIDE DEF mode, reply
        <5> QED BY <2>4, <2>8
      <4> HIDE DEF here, added, after, mode
      <4>3. Scripted(mode) => mode \in Midstream /\ after = 2
        BY <4>1, <4>2
      <4> QED BY <4>3 DEF after
    <3> HIDE DEF reply, fault
    <3>4. Underway'
      BY <1>1, <1>3, <2>2, <3>3 DEF Underway, DeclaredSize, Scripted
    <3> QED BY <1>1, <2>3, <2>5, <3>1, <3>2, <3>4 DEF UploadFaults, FaultKept, FaultOnLink
  <2> QED BY <2>7, <2>8
<1> QED BY <1>4, <1>6, <1>7

LEMMA FaultsReceived ==
    ASSUME FaultsShow, UploadFaults, UploadContent, TypedInv, Uploading, pc \in UploadStages, Receive
    PROVE  UploadFaults'
<1> DEFINE reply == Head(toClient)
           mode  == scenario.mode
<1>1. /\ toClient # <<>> /\ up /\ UNCHANGED <<scenario, plc>>
      /\ pc \in {"starting", "fragment", "ending", "cleaning"}
  BY DEF Receive, UploadStages, Waits
<1>2. CASE pc = "starting"
  BY <1>2, FaultsStarted
<1>3. CASE pc = "fragment"
  BY <1>3, FaultsFragment
<1>4. CASE pc = "cleaning"
  <2>1. Finish(failure.kind, failure.says)
    BY <1>4 DEF Receive, ReceiveEnd, OriginalFault
  <2> QED BY <1>1, <1>4, <2>1, FaultsFinished
<1>5. CASE pc = "ending"
  <2>1. ReceiveEnd(reply) /\ reply = toClient[1]
    BY <1>1, <1>5, TakenTyped DEF Receive, TypedInv, LinkTyped
  <2>2. CASE Scripted(mode)
    <3>1. mode = "upload-end-bad-ack" /\ reply.fn = "endUpload" /\ reply.shape = "extra"
      BY <1>1, <1>5, <2>1, <2>2 DEF UploadFaults, FaultKept, FaultOnLink
    <3>2. DecodeFault(reply, "endUpload") = "extra" /\ ExpectedUploadReport(mode) = "extra"
      BY <3>1 DEF DecodeFault, ExpectedUploadReport
    <3>3. Finish("protocol", "extra")
      BY <1>5, <2>1, <3>2 DEF ReceiveEnd
    <3> QED BY <1>1, <3>2, <3>3, FaultsFinish
  <2>3. CASE ~Scripted(mode)
    <3>1. \/ Finish("protocol", DecodeFault(reply, "endUpload"))
          \/ Finish("protocol", "notDeclaredLength")
          \/ Answered("done")
      BY <1>5, <2>1 DEF ReceiveEnd
    <3>2. CASE Answered("done")
      <4>1. pc' = "done" /\ toPlc' = toPlc
        BY <3>2 DEF Answered
      <4>2. UploadsInTurn'
        BY <1>1, <4>1, TurnKept DEF UploadFaults
      <4> QED BY <1>1, <2>3, <4>1, <4>2 DEF UploadFaults, FaultKept, FaultOnLink
    <3> QED BY <1>1, <2>3, <3>1, <3>2, FaultsFinish
  <2> QED BY <2>2, <2>3
<1> QED BY <1>1, <1>2, <1>3, <1>4, <1>5

LEMMA FaultsServed ==
    ASSUME UploadFaults, UploadContent, TypedInv, UploadHolds, BudgetInv, PlcServes
    PROVE  UploadFaults'
<1> DEFINE request == Head(toPlc)
           mode    == scenario.mode
           chunk   == scenario.chunk
           after   == PlcAfter(mode, chunk, request)
<1>1. /\ toPlc # <<>> /\ UNCHANGED <<scenario, pc, up, transfer, failure>> /\ plc' = after
  BY DEF PlcServes
<1>2. request.fn \in UploadRequests /\ IsPlc(plc) /\ request = toPlc[1]
  BY <1>1, OnlyConsumed, ServedTyped DEF UploadHolds, BudgetInv, TypedInv, LinkTyped
<1>3. UploadsInTurn' /\ (request.fn = "upload" => plc.stage = "open")
  BY <1>2, TurnServed DEF UploadFaults
<1> HIDE DEF request, after
<1>4. /\ ~plc'.failed /\ plc'.closed = plc.closed
      /\ request.fn = "startUpload" /\ mode # "missing-block" => plc'.stage = "open"
      /\ request.fn = "upload" =>
            plc'.stage = IF Spoils(mode, Len(plc.bytes)) THEN "spoiled" ELSE "open"
  <2>1. ~plc.failed
    BY DEF UploadFaults
  <2>2. plc' = PlcAfter(mode, chunk, request)
    BY <1>1 DEF after
  <2> HIDE DEF mode, chunk
  <2> QED BY <1>2, <1>3, <2>1, <2>2, UploadEffect
<1>5. FaultKept'
  <2>1. Reported' = Reported
    BY <1>1 DEF Reported, Lost
  <2> QED BY <1>1, <2>1 DEF UploadFaults, FaultKept
<1>6. ASSUME FaultOnLink' PROVE UploadFaults'
  BY <1>1, <1>3, <1>4, <1>5, <1>6 DEF UploadFaults
<1>7. CASE ~up
  <2>1. ~up'
    BY <1>1, <1>7
  <2> QED BY <1>6, <2>1 DEF FaultOnLink
<1>8. CASE up /\ pc \notin {"starting", "fragment", "ending"}
  <2>1. pc \in {"cleanup", "cleaning", "failed", "reconnect"}
    BY <1>1, <1>8 DEF UploadContent, Quiet, UploadHolds, UploadStages
  <2>2. FaultOnLink'
    BY <1>1, <2>1 DEF FaultOnLink
  <2> QED BY <1>6, <2>2
<1>9. CASE up /\ pc = "starting"
  <2>1. toClient = <<>> /\ request.fn = "startUpload"
    BY <1>1, <1>2, <1>9 DEF UploadContent, Replied, Asked, Alone
  <2>2. PICK reply : /\ PlcReplies(mode, chunk, request) = <<reply>>
                     /\ reply.fn = "startUpload" /\ reply.size = DeclaredSize(mode)
                     /\ reply.shape = IF mode = "missing-block" THEN "refused" ELSE "exact"
    BY <2>1, StartReply
  <2>3. toClient'[1] = reply
    BY <1>9, <2>1, <2>2, OneReply DEF request
  <2>4. FaultOnLink'
    BY <1>1, <1>4, <1>9, <2>1, <2>2, <2>3 DEF FaultOnLink, DeclaredSize
  <2> QED BY <1>6, <2>4
<1>10. CASE up /\ pc = "ending"
  <2>1. toClient = <<>> /\ request.fn = "endUpload"
    BY <1>1, <1>2, <1>10 DEF UploadContent, Replied, Asked, Alone
  <2>2. ASSUME mode = "upload-end-bad-ack"
        PROVE  toClient'[1].fn = "endUpload" /\ toClient'[1].shape = "extra"
    <3>1. PICK reply : /\ PlcReplies(mode, chunk, request) = <<reply>>
                       /\ reply.fn = "endUpload" /\ reply.shape = "extra"
      BY <2>1, <2>2, EndReply
    <3> QED BY <1>10, <2>1, <3>1, OneReply DEF request
  <2>3. FaultOnLink'
    BY <1>1, <1>10, <2>2 DEF FaultOnLink
  <2> QED BY <1>6, <2>3
<1>11. CASE up /\ pc = "fragment"
  <2>1. toClient = <<>> /\ request.fn = "upload" /\ plc.bytes = transfer.data
    BY <1>1, <1>2, <1>11 DEF UploadContent, Replied, Asked, Alone
  <2>2. PlcReplies(mode, chunk, request) = <<UploadScript(mode, Len(transfer.data), chunk)>>
    BY <2>1 DEF PlcReplies
  <2>3. toClient'[1] = UploadScript(mode, Len(transfer.data), chunk)
    <3> DEFINE reply == UploadScript(mode, Len(transfer.data), chunk)
    <3>1. PlcReplies(mode, chunk, request) = <<reply>>
      BY <2>2
    <3> HIDE DEF reply
    <3> QED BY <1>11, <2>1, <3>1, OneReply DEF request, reply
  <2>4. FragmentServed(toClient[1])'
    BY <1>1, <1>4, <2>1, <2>3 DEF FragmentServed, UploadScript, Spoils, Scripted
  <2>5. Underway /\ Underway' = Underway
    BY <1>1, <1>11 DEF UploadFaults, FaultOnLink, Underway, DeclaredSize, Scripted
  <2>6. FaultOnLink'
    BY <1>1, <1>11, <2>4, <2>5 DEF FaultOnLink
  <2> QED BY <1>6, <2>6
<1> QED BY <1>7, <1>8, <1>9, <1>10, <1>11

LEMMA FaultsExchangeFails ==
    ASSUME UploadFaults, TypedInv, Uploading, pc \in UploadStages, NEW kind, ExchangeFails(kind),
           kind = "timeout" \/ (kind = "disconnected" /\ plc.closed)
    PROVE  UploadFaults'
<1>1. UNCHANGED <<scenario, plc>>
  BY DEF ExchangeFails
<1>2. kind = "timeout" \/ ~Scripted(scenario.mode)
  BY DEF UploadFaults, Scripted
<1>3. \/ StartFails(kind)
      \/ Close /\ failure' = [kind |-> kind, says |-> "exchange"] /\ pc' = "cleanup"
      \/ pc = "cleaning" /\ Finish(failure.kind, failure.says)
      \/ Finish(kind, "exchange")
  BY DEF ExchangeFails
<1>4. CASE Close /\ failure' = [kind |-> kind, says |-> "exchange"] /\ pc' = "cleanup"
  <2>1. Scripted(scenario.mode) => Reported'
    BY <1>1, <1>2, <1>4, ReportedAs
  <2> QED BY <1>1, <1>4, <2>1, FaultsGone
<1> QED BY <1>1, <1>2, <1>3, <1>4, FaultsStartFails, FaultsFinished, FaultsFinish

LEMMA UploadFaultsStep ==
    ASSUME FaultsShow, UploadFaults, UploadContent, TypedInv, BudgetInv, UploadHolds, Uploading, [Next]_vars
    PROVE  UploadFaults'
<1>1. pc \in UploadStages /\ plc.stage # "asking" /\ scenario.mode # "invalid" /\ IsPlc(plc)
  BY DEF UploadHolds
<1>2. CASE Begin
  <2>1. pc' = "start" /\ UNCHANGED <<scenario, up, toPlc, plc>>
    BY <1>1, <1>2 DEF Begin
  <2>2. UploadsInTurn'
    BY <2>1, TurnKept DEF UploadFaults
  <2> QED BY <2>1, <2>2 DEF UploadFaults, FaultKept, FaultOnLink
<1>3. CASE SendStart \/ RequestFragment \/ EndUpload
  BY <1>3, FaultsRequested
<1>4. CASE Reconnect
  <2>1. pc' = "start" /\ toPlc' = <<>> /\ plc' = NewPlc /\ scenario' = scenario
    BY <1>4 DEF Reconnect
  <2>2. ~NewPlc.failed /\ ~NewPlc.closed
    BY Zenon DEF NewPlc
  <2>3. UploadsInTurn'
    BY <2>1, TurnEmpty
  <2> QED BY <2>1, <2>2, <2>3 DEF UploadFaults, FaultKept, FaultOnLink
<1>5. CASE ReconnectFails
  <2>1. PICK kind : StartFails(kind)
    BY <1>5 DEF ReconnectFails
  <2>2. UNCHANGED <<scenario, plc>>
    BY <1>5 DEF ReconnectFails
  <2> QED BY <2>1, <2>2, FaultsStartFails
<1>6. CASE TooManyFragments
  <2>1. UNCHANGED <<scenario, plc>> /\ pc = "next"
    BY <1>1, <1>6 DEF TooManyFragments, UploadStages
  <2>2. /\ failure' = [kind |-> "protocol", says |-> "tooManyFragments"] /\ pc' = "cleanup"
        /\ toPlc' = toPlc
    BY <1>6, <2>1 DEF TooManyFragments, Refuse, InUploadLoop
  <2>3. Reported'
    BY <2>1, <2>2, ReportedAs
  <2>4. UploadsInTurn'
    BY <2>1, <2>2, TurnKept DEF UploadFaults
  <2> QED BY <2>1, <2>2, <2>3, <2>4 DEF UploadFaults, FaultKept, FaultOnLink
<1>7. CASE SkipCleanup
  <2>1. pc = "cleanup" /\ Finish(failure.kind, failure.says) /\ UNCHANGED <<scenario, plc>>
    BY <1>7 DEF SkipCleanup
  <2> QED BY <2>1, FaultsFinished
<1>8. CASE AwaitJob \/ SendSlice \/ SendEnded \/ SendInsert
  BY <1>1, <1>8 DEF AwaitJob, SendSlice, SendEnded, SendInsert, Step, UploadStages
<1>9. CASE Receive
  BY <1>1, <1>9, FaultsReceived
<1>10. CASE ReceiveTimesOut \/ BudgetSpent \/ PeerClosed
  <2>1. ExchangeFails("timeout") \/ (ExchangeFails("disconnected") /\ plc.closed)
    BY <1>10 DEF ReceiveTimesOut, BudgetSpent, PeerClosed
  <2> QED BY <1>1, <2>1, FaultsExchangeFails
<1>11. CASE PlcServes
  BY <1>11, FaultsServed
<1>12. CASE PlcAsks
  BY <1>1, <1>12 DEF PlcAsks
<1>13. CASE PlcCloses
  <2>1. /\ plc' = [plc EXCEPT !.closed = TRUE] /\ scenario.mode = "fragile"
        /\ UNCHANGED <<scenario, pc, up, toPlc, toClient, transfer, failure>>
    BY <1>13 DEF PlcCloses
  <2> DEFINE yes == TRUE
  <2>2. plc' = [plc EXCEPT !.closed = yes]
    BY <2>1
  <2> HIDE DEF yes
  <2>3. plc'.stage = plc.stage /\ plc'.failed = plc.failed
    BY <1>1, <2>2, FieldChanged DEF PlcFields
  <2>4. UploadsInTurn'
    BY <2>1, <2>3, TurnKept DEF UploadFaults
  <2>5. ~Scripted(scenario.mode) /\ ~Scripted(scenario'.mode)
    BY <2>1 DEF Scripted
  <2>6. Underway' = Underway /\ (FragmentServed(toClient[1]) => FragmentServed(toClient[1])')
    BY <2>1, <2>3 DEF Underway, FragmentServed, DeclaredSize, UploadScript, Scripted, Spoils
  <2>7. FaultOnLink'
    BY <2>1, <2>3, <2>6 DEF UploadFaults, FaultOnLink, DeclaredSize
  <2>8. FaultKept'
    BY <2>1, <2>5 DEF FaultKept, Scripted
  <2> QED BY <2>1, <2>3, <2>4, <2>7, <2>8 DEF UploadFaults
<1>14. CASE Tick \/ UNCHANGED vars
  <2>1. UNCHANGED <<scenario, pc, up, toPlc, toClient, transfer, plc, failure>>
    BY <1>14 DEF Tick, vars
  <2>2. UploadsInTurn'
    BY <2>1, TurnKept DEF UploadFaults
  <2>3. Underway' = Underway /\ (FragmentServed(toClient[1]) => FragmentServed(toClient[1])')
    BY <2>1 DEF Underway, FragmentServed, DeclaredSize, UploadScript, Scripted, Spoils
  <2>4. FaultOnLink'
    BY <2>1, <2>3 DEF UploadFaults, FaultOnLink, DeclaredSize
  <2>5. Reported' = Reported /\ Scripted(scenario.mode)' = Scripted(scenario.mode)
    BY <2>1 DEF Reported, Lost, Scripted, ExpectedUploadReport
  <2>6. FaultKept'
    BY <2>1, <2>5 DEF UploadFaults, FaultKept
  <2> QED BY <2>1, <2>2, <2>4, <2>6 DEF UploadFaults
<1>15. CASE ClientStep
  BY <1>2, <1>3, <1>4, <1>5, <1>6, <1>7, <1>8, <1>9, <1>10, <1>15 DEF ClientStep
<1> QED BY <1>11, <1>12, <1>13, <1>14, <1>15 DEF Next

-----------------------------------------------------------------------------
(* The scripted PLC during a download                                      *)

LEMMA StateIsPlc == ASSUME plc \in PlcState PROVE IsPlc(plc)
<1> DEFINE S == {plc[field] : field \in PlcFields}
<1>1. plc = [field \in PlcFields |-> plc[field]]
  BY DEF PlcState, PlcFields
<1>2. plc \in [PlcFields -> S]
  <2> HIDE DEF S
  <2>1. \A field \in PlcFields : plc[field] \in S
    BY DEF S
  <2> QED BY <1>1, <2>1
<1> QED BY <1>2 DEF IsPlc

(* What a request that comes in its turn makes of the PLC.                 *)
InTurn(request) ==
    /\ request.fn \in {"fragment", "ended"} => plc.stage = "asked" /\ request.reference = plc.reference
    /\ request.fn = "fragment" => ~(Len(request.data) + Overhead > pdu)
    /\ request.fn = "insert" => plc.stage = "ended"

LEMMA DownloadEffect ==
    ASSUME IsPlc(plc), NEW mode, NEW chunk, NEW request, request.fn \in DownloadRequests,
           ~plc.failed, InTurn(request), NEW after, after = PlcAfter(mode, chunk, request)
    PROVE  /\ ~after.failed
           /\ request.fn # "fragment" => after.closed = plc.closed
           /\ request.fn = "fragment" =>
                 after.stage = "asking" /\ (after.closed => mode = "interrupted")
                 /\ (mode = "interrupted" => after.closed)
           /\ request.fn = "ended" => after.stage = "ended"
           /\ request.fn = "disconnect" => after = plc
<1>1. ASSUME NEW stage, after = [plc EXCEPT !.stage = stage]
      PROVE  ~after.failed /\ after.closed = plc.closed /\ after.stage = stage
  BY <1>1, FieldChanged DEF PlcFields
<1>2. CASE request.fn = "requestDownload"
  <2> DEFINE stage == IF mode \in {"ack-extra", "ack-data"} THEN "spoiled" ELSE "asking"
  <2>1. after = [plc EXCEPT !.stage = stage]
    BY <1>2 DEF PlcAfter
  <2> HIDE DEF stage
  <2> QED BY <1>1, <1>2, <2>1
<1>3. CASE request.fn = "disconnect"
  BY <1>3 DEF PlcAfter
<1>4. CASE request.fn = "fragment"
  <2> DEFINE bytes  == plc.bytes \o request.data
             closed == mode = "interrupted"
             failed == plc.failed \/ request.reference # plc.reference \/ plc.stage # "asked"
                       \/ Len(request.data) + Overhead > pdu
             one    == [plc EXCEPT !.bytes = bytes]
             two    == [one EXCEPT !.reference = plc.reference + 1]
             three  == [two EXCEPT !.stage = "asking"]
             four   == [three EXCEPT !.closed = closed]
             all    == [four EXCEPT !.failed = failed]
  <2>1. after = all
    BY <1>4 DEF PlcAfter
  <2>2. ~failed /\ (closed => mode = "interrupted") /\ (mode = "interrupted" => closed)
    BY <1>4, Zenon DEF InTurn
  <2> HIDE DEF bytes, closed, failed
  <2>3. IsPlc(one)
    BY FieldChanged DEF PlcFields
  <2> HIDE DEF one
  <2>4. IsPlc(two)
    BY <2>3, FieldChanged DEF PlcFields
  <2> HIDE DEF two
  <2>5. IsPlc(three) /\ three.stage = "asking"
    BY <2>4, FieldChanged DEF PlcFields
  <2> HIDE DEF three
  <2>6. IsPlc(four) /\ four.stage = "asking" /\ four.closed = closed
    BY <2>5, FieldChanged DEF PlcFields
  <2> HIDE DEF four
  <2>7. all.failed = failed /\ all.stage = "asking" /\ all.closed = closed
    BY <2>6, FieldChanged DEF PlcFields
  <2> HIDE DEF all
  <2> QED BY <1>4, <2>1, <2>2, <2>7
<1>5. CASE request.fn = "ended"
  <2> DEFINE failed == plc.failed \/ plc.stage # "asked" \/ request.reference # plc.reference
             one    == [plc EXCEPT !.stage = "ended"]
             all    == [one EXCEPT !.failed = failed]
  <2>1. after = all
    BY <1>5 DEF PlcAfter
  <2>2. ~failed
    BY <1>5 DEF InTurn
  <2> HIDE DEF failed
  <2>3. IsPlc(one) /\ one.stage = "ended" /\ one.closed = plc.closed
    BY FieldChanged DEF PlcFields
  <2> HIDE DEF one
  <2>4. all.failed = failed /\ all.stage = "ended" /\ all.closed = plc.closed
    BY <2>3, FieldChanged DEF PlcFields
  <2> HIDE DEF all
  <2> QED BY <1>5, <2>1, <2>2, <2>4
<1>6. CASE request.fn = "insert"
  <2> DEFINE stage  == IF mode = "insert-refused" THEN plc.stage ELSE "inserted"
             failed == plc.failed \/ plc.stage # "ended"
             one    == [plc EXCEPT !.stage = stage]
             all    == [one EXCEPT !.failed = failed]
  <2>1. after = all
    BY <1>6 DEF PlcAfter
  <2>2. ~failed
    BY <1>6 DEF InTurn
  <2> HIDE DEF failed, stage
  <2>3. IsPlc(one) /\ one.closed = plc.closed
    BY FieldChanged DEF PlcFields
  <2> HIDE DEF one
  <2>4. all.failed = failed /\ all.closed = plc.closed
    BY <2>3, FieldChanged DEF PlcFields
  <2> HIDE DEF all
  <2> QED BY <1>6, <2>1, <2>2, <2>4
<1> QED BY <1>2, <1>3, <1>4, <1>5, <1>6 DEF DownloadRequests

LEMMA AcknowledgementReply ==
    ASSUME NEW mode, NEW chunk, NEW request, request.fn = "requestDownload"
    PROVE  \E reply : /\ PlcReplies(mode, chunk, request) = <<reply>>
                      /\ reply.fn = "requestDownload"
                      /\ reply.shape = IF mode \in Unacknowledged THEN "extra" ELSE "exact"
<1> DEFINE plain == Message("requestDownload")
           reply == IF mode \in Unacknowledged THEN Malformed(plain, "extra") ELSE plain
<1>1. PlcReplies(mode, chunk, request) = <<reply>>
  BY DEF PlcReplies, Unacknowledged
<1>2. plain \in Messages(Replies) /\ plain.fn = "requestDownload" /\ plain.shape = "exact" /\ "extra" \in Shapes
  BY MessageTyped DEF Replies, Shapes
<1> HIDE DEF plain
<1>3. Malformed(plain, "extra").fn = plain.fn /\ Malformed(plain, "extra").shape = "extra"
  BY <1>2, MalformedTyped
<1>4. reply.fn = "requestDownload" /\ reply.shape = IF mode \in Unacknowledged THEN "extra" ELSE "exact"
  BY <1>2, <1>3
<1> HIDE DEF reply
<1> QED BY <1>1, <1>4

LEMMA InsertReply ==
    ASSUME NEW mode, NEW chunk, NEW request, request.fn = "insert"
    PROVE  \E reply : /\ PlcReplies(mode, chunk, request) = <<reply>>
                      /\ reply.fn = "start" /\ (reply.shape = "exact" \/ mode = "insert-refused")
<1> DEFINE plain == Message("start")
           reply == IF mode = "insert-refused" THEN Malformed(plain, "refused") ELSE plain
<1>1. PlcReplies(mode, chunk, request) = <<reply>>
  BY DEF PlcReplies
<1>2. plain \in Messages(Replies) /\ plain.fn = "start" /\ plain.shape = "exact" /\ "refused" \in Shapes
  BY MessageTyped DEF Replies, Shapes
<1> HIDE DEF plain
<1>3. Malformed(plain, "refused").fn = plain.fn
  BY <1>2, MalformedTyped
<1>4. reply.fn = "start" /\ (reply.shape = "exact" \/ mode = "insert-refused")
  BY <1>2, <1>3
<1> HIDE DEF reply
<1> QED BY <1>1, <1>4

(* The job is what the state of the PLC calls for.                         *)
LEMMA JobIs ==
    ASSUME plc \in PlcState, NEW mode, NEW job, job = PlcJob(mode)
    PROVE  /\ job.reference = plc.reference
           /\ job.shape = CASE mode \in {"wrong-block", "reserved", "truncated"} -> "address"
                            [] mode = "data" -> "payload"
                            [] OTHER -> "exact"
           /\ job.fn = IF mode = "early-ended" \/ (Complete /\ mode # "extra-fragment")
                       THEN "downloadEnded" ELSE "download"
<1> DEFINE fn == IF mode = "early-ended" \/ (Complete /\ mode # "extra-fragment")
                 THEN "downloadEnded" ELSE "download"
           plain == Message(fn)
           asked == [plain EXCEPT !.reference = plc.reference]
<1>1. fn \in Replies
  BY DEF Replies
<1>2. plc.reference \in Nat
  BY DEF PlcState
<1>3. job = CASE mode \in {"wrong-block", "reserved", "truncated"} -> Malformed(asked, "address")
              [] mode = "data" -> Malformed(asked, "payload")
              [] OTHER -> asked
  BY DEF PlcJob, Job
<1>4. fn = IF mode = "early-ended" \/ (Complete /\ mode # "extra-fragment")
           THEN "downloadEnded" ELSE "download"
  OBVIOUS
<1> HIDE DEF fn
<1>5. plain \in Messages(Replies) /\ plain.fn = fn /\ plain.shape = "exact"
  BY <1>1, MessageTyped
<1> HIDE DEF plain
<1>6. /\ asked \in Messages(Replies) /\ asked.fn = fn /\ asked.shape = "exact"
      /\ asked.reference = plc.reference
  BY <1>2, <1>5 DEF Messages
<1> HIDE DEF asked
<1>7. \A shape \in {"address", "payload"} :
          /\ Malformed(asked, shape).fn = fn /\ Malformed(asked, shape).shape = shape
          /\ Malformed(asked, shape).reference = plc.reference
  <2>1. ASSUME NEW shape \in {"address", "payload"}
        PROVE  /\ Malformed(asked, shape).fn = fn /\ Malformed(asked, shape).shape = shape
               /\ Malformed(asked, shape).reference = plc.reference
    BY <1>6 DEF Malformed, Messages
  <2> QED BY <2>1
<1> QED BY <1>3, <1>4, <1>6, <1>7

(* What the client makes of it: the first that is spoiled is refused.      *)
LEMMA JobAnswer ==
    ASSUME FaultsShow, TypedInv, StoppedDownload, NEW job, JobServed(job),
           pc \in {"fragmentJob", "endJob"}, plc.bytes = Bytes(1, transfer.offset),
           NEW fault, fault = DecodeFault(job, IF pc = "fragmentJob" THEN "download" ELSE "downloadEnded")
    PROVE  /\ fault # "exact" => ExpectedDownloadKind(scenario.mode) = "protocol"
           /\ fault = "exact" =>
                 /\ scenario.mode \notin SpoiledAtOnce /\ plc.stage = "asked"
                 /\ job.reference = plc.reference
                 /\ pc = "endJob" => scenario.mode # "extra-fragment"
<1> DEFINE mode == scenario.mode
           offset == transfer.offset
<1>1. /\ job.reference = plc.reference
      /\ job.shape = CASE mode \in {"wrong-block", "reserved", "truncated"} -> "address"
                       [] mode = "data" -> "payload"
                       [] OTHER -> "exact"
      /\ job.fn = IF mode = "early-ended" \/ (Complete /\ mode # "extra-fragment")
                  THEN "downloadEnded" ELSE "download"
  BY JobIs DEF JobServed, TypedInv
<1>2. offset \in 0 .. BlockSize /\ BlockSize \in Nat /\ BlockSize >= 4
  BY BlockTransferAssumption DEF TypedInv, TransferState, FaultsShow
<1>3. Len(plc.bytes) = offset
  <2>1. offset \in Nat
    BY <1>2
  <2> QED BY <2>1, FirstBytes
<1>4. pc = "fragmentJob" => ~Complete
  BY <1>2, <1>3 DEF StoppedDownload, Complete
<1>5. pc = "endJob" => Complete /\ offset = BlockSize
  BY <1>2, <1>3 DEF TypedInv, Complete
<1>6. mode = "early-ended" => pc = "fragmentJob"
  <2>1. mode = "early-ended" => offset = 0
    BY DEF StoppedDownload, SpoiledAtOnce
  <2> HIDE DEF mode, offset
  <2> QED BY <1>2, <1>5, <2>1
<1>7. plc.stage = IF SpoiledJob(mode) THEN "spoiled" ELSE "asked"
  BY DEF JobServed
<1>8. fault = IF job.fn # (IF pc = "fragmentJob" THEN "download" ELSE "downloadEnded")
              THEN "function" ELSE job.shape
  BY DEF DecodeFault
<1>9. SpoiledJob(mode) <=> mode \in SpoiledAtOnce \/ (mode = "extra-fragment" /\ Complete)
  BY DEF SpoiledJob, SpoiledAtOnce
<1> HIDE DEF mode, offset
<1>10. CASE mode \in SpoiledAtOnce
  <2>1. fault # "exact"
    BY <1>1, <1>6, <1>8, <1>10 DEF SpoiledAtOnce
  <2>2. ExpectedDownloadKind(mode) = "protocol"
    BY <1>10 DEF SpoiledAtOnce, ExpectedDownloadKind
  <2> QED BY <2>1, <2>2 DEF mode
<1>11. CASE mode = "extra-fragment" /\ pc = "endJob"
  <2>1. fault # "exact"
    BY <1>1, <1>8, <1>11
  <2>2. ExpectedDownloadKind(mode) = "protocol"
    BY <1>11 DEF ExpectedDownloadKind
  <2> QED BY <2>1, <2>2 DEF mode
<1>12. CASE mode \notin SpoiledAtOnce /\ ~(mode = "extra-fragment" /\ pc = "endJob")
  <2>1. job.shape = "exact" /\ mode # "early-ended"
    BY <1>1, <1>12 DEF SpoiledAtOnce
  <2>2. fault = "exact"
    BY <1>1, <1>4, <1>5, <1>8, <1>12, <2>1
  <2>3. plc.stage = "asked"
    BY <1>4, <1>7, <1>9, <1>12
  <2> QED BY <1>1, <1>12, <2>2, <2>3 DEF mode
<1> QED BY <1>10, <1>11, <1>12

-----------------------------------------------------------------------------
(* Faults: what a download sends                                           *)

LEMMA PhaseKept ==
    ASSUME InPhase, toPlc' = toPlc, plc'.stage = plc.stage, plc'.reference = plc.reference, pdu' = pdu
    PROVE  InPhase'
BY DEF InPhase

LEMMA PhaseEmpty == ASSUME toPlc' = <<>> PROVE InPhase'
<1>1. Len(<<>>) = 0 /\ \A i \in 1 .. 0 : FALSE
  OBVIOUS
<1> QED BY <1>1 DEF InPhase

LEMMA PhaseAppended ==
    ASSUME InPhase, TypedInv, NEW message \in Messages(Requests), toPlc' = Append(toPlc, message),
           UNCHANGED <<plc, pdu>>,
           message.fn \in {"fragment", "ended"} =>
              toPlc = <<>> /\ plc.stage = "asked" /\ message.reference = plc.reference,
           message.fn = "fragment" => Len(message.data) + Overhead <= pdu,
           message.fn = "insert" =>
              \/ toPlc = <<>> /\ plc.stage = "ended"
              \/ Alone(toPlc, "ended")
    PROVE  InPhase'
<1> DEFINE M == Messages(Requests)
<1>1. toPlc \in Seq(M) /\ message \in M
  BY DEF TypedInv, LinkTyped
<1> HIDE DEF M
<1>2. /\ Len(toPlc') = Len(toPlc) + 1 /\ Len(toPlc) \in Nat /\ toPlc'[Len(toPlc) + 1] = message
      /\ \A i \in 1 .. Len(toPlc) : toPlc'[i] = toPlc[i]
      /\ toPlc = <<>> => Len(toPlc) = 0
  BY <1>1
<1> DEFINE Fits(i) ==
        /\ toPlc'[i].fn \in {"fragment", "ended"} =>
              i = 1 /\ plc.stage = "asked" /\ toPlc'[i].reference = plc.reference
        /\ toPlc'[i].fn = "fragment" => Len(toPlc'[i].data) + Overhead <= pdu
        /\ toPlc'[i].fn = "insert" =>
              \/ i = 1 /\ plc.stage = "ended"
              \/ i = 2 /\ toPlc'[1].fn = "ended"
<1>3. ASSUME NEW i \in 1 .. Len(toPlc) PROVE Fits(i)
  <2>1. toPlc'[i] = toPlc[i] /\ toPlc'[1] = toPlc[1]
    <3>1. 1 \in 1 .. Len(toPlc)
      BY <1>2
    <3> QED BY <1>2, <3>1
  <2> QED BY <2>1 DEF InPhase
<1>4. Fits(Len(toPlc) + 1)
  <2>1. toPlc = <<>> => Len(toPlc) + 1 = 1
    BY <1>2
  <2>2. Alone(toPlc, "ended") => Len(toPlc) + 1 = 2 /\ toPlc'[1].fn = "ended"
    <3>1. Alone(toPlc, "ended") => Len(toPlc) = 1 /\ toPlc[1].fn = "ended"
      BY DEF Alone
    <3>2. Len(toPlc) = 1 => toPlc'[1] = toPlc[1]
      BY <1>2
    <3>3. Len(toPlc) = 1 => Len(toPlc) + 1 = 2
      OBVIOUS
    <3> QED BY <3>1, <3>2, <3>3
  <2> QED BY <1>2, <2>1, <2>2
<1> HIDE DEF Fits
<1>5. \A i \in 1 .. Len(toPlc') : Fits(i)
  <2>1. \A i \in 1 .. Len(toPlc') : i \in 1 .. Len(toPlc) \/ i = Len(toPlc) + 1
    BY <1>2
  <2> QED BY <1>3, <1>4, <2>1
<1> QED BY <1>5 DEF Fits, InPhase

LEMMA PhaseClosed ==
    ASSUME InPhase, TypedInv, Close, UNCHANGED <<plc, pdu>>
    PROVE  InPhase' /\ up' = FALSE
<1>1. Message("disconnect") \in Messages(Requests) /\ Message("disconnect").fn = "disconnect"
  BY MessageTyped DEF Requests
<1>2. toPlc' = toPlc \/ toPlc' = Append(toPlc, Message("disconnect"))
  BY DEF Close
<1>3. InPhase'
  BY <1>1, <1>2, PhaseKept, PhaseAppended
<1> QED BY <1>3 DEF Close

LEMMA PhaseServed ==
    ASSUME InPhase, TypedInv, PlcServes, NEW request, request = toPlc[1],
           request.fn = "ended" => plc'.stage = "ended"
    PROVE  InPhase'
<1>1. toPlc' = Tail(toPlc) /\ toPlc # <<>>
  BY DEF PlcServes
<1>2. /\ Len(toPlc) \in Nat \ {0} /\ Len(toPlc') = Len(toPlc) - 1
      /\ \A i \in 1 .. Len(toPlc) - 1 : toPlc'[i] = toPlc[i + 1]
  BY <1>1, ServedTyped DEF TypedInv, LinkTyped
<1>3. ASSUME NEW i \in 1 .. Len(toPlc')
      PROVE  /\ toPlc'[i].fn \notin {"fragment", "ended"}
             /\ toPlc'[i].fn = "insert" => i = 1 /\ plc'.stage = "ended"
  <2>1. i + 1 \in 1 .. Len(toPlc) /\ i + 1 # 1 /\ toPlc'[i] = toPlc[i + 1] /\ (i + 1 = 2 => i = 1)
    BY <1>2
  <2> QED BY <2>1 DEF InPhase
<1> QED BY <1>3 DEF InPhase

LEMMA ServedInTurn ==
    ASSUME InPhase, TypedInv, PlcServes, NEW request, request = toPlc[1]
    PROVE  InTurn(request)
<1>1. toPlc # <<>>
  BY DEF PlcServes
<1>2. 1 \in 1 .. Len(toPlc)
  BY <1>1, ServedTyped DEF TypedInv, LinkTyped
<1>3. /\ request.fn \in {"fragment", "ended"} => plc.stage = "asked" /\ request.reference = plc.reference
      /\ request.fn = "fragment" => Len(request.data) + Overhead <= pdu
      /\ request.fn = "insert" => plc.stage = "ended"
  BY <1>2 DEF InPhase
<1>4. request \in Messages(Requests)
  BY RequestServed
<1>5. Len(request.data) + Overhead \in Nat /\ pdu \in Nat
  <2>1. request.data \in Seq(Nat)
    BY <1>4 DEF Messages
  <2> QED BY <2>1, BlockTransferAssumption DEF TypedInv, Overhead
<1> DEFINE size == Len(request.data) + Overhead
<1>6. size \in Nat /\ pdu \in Nat /\ (request.fn = "fragment" => size <= pdu)
  BY <1>3, <1>5
<1> HIDE DEF size
<1>7. request.fn = "fragment" => ~(size > pdu)
  BY <1>6
<1> QED BY <1>3, <1>7 DEF InTurn, size

-----------------------------------------------------------------------------
(* Faults: steps of a download                                             *)

LEMMA DownloadGoesOn ==
    ASSUME DownloadFaults, UNCHANGED <<scenario, plc>>, InPhase', StoppedDownload', JobOnLink'
    PROVE  DownloadFaults'
BY DEF DownloadFaults, Interrupted

LEMMA DownloadGone ==
    ASSUME DownloadFaults, TypedInv, Close, UNCHANGED <<scenario, plc, transfer, pdu>>,
           \/ pc' = "reconnect" /\ pc # "failed" /\ failure' = failure
           \/ pc' = "failed" /\ DownloadReported'
    PROVE  DownloadFaults'
<1>1. InPhase' /\ up' = FALSE
  BY PhaseClosed DEF DownloadFaults
<1>2. StoppedDownload'
  BY DEF DownloadFaults, StoppedDownload
<1>3. JobOnLink'
  BY <1>1 DEF JobOnLink
<1> QED BY <1>1, <1>2, <1>3, DownloadGoesOn

LEMMA DownloadStops ==
    ASSUME DownloadFaults, TypedInv, NEW kind, NEW says, Finish(kind, says),
           UNCHANGED <<scenario, plc, transfer, pdu>>,
           \/ kind = "timeout" \/ says \in {"start", "tooManyFragments"}
           \/ scenario.mode \in {"fragile", "invalid", "insert-refused"}
           \/ kind = ExpectedDownloadKind(scenario.mode)
    PROVE  DownloadFaults'
<1>1. failure' = [kind |-> kind, says |-> says] /\ pc' = "failed" /\ Close
  BY DEF Finish
<1>2. failure'.kind = kind /\ failure'.says = says
  BY <1>1
<1>3. DownloadReported'
  BY <1>2 DEF DownloadReported, Lost, ExpectedDownloadKind
<1> QED BY <1>1, <1>3, DownloadGone

LEMMA DownloadStopsAtStart ==
    ASSUME DownloadFaults, TypedInv, NEW kind, StartFails(kind), pc # "failed",
           UNCHANGED <<scenario, plc, transfer, pdu>>
    PROVE  DownloadFaults'
<1>1. \/ Finish(kind, "start")
      \/ Close /\ pc' = "reconnect" /\ failure' = failure
  BY Zenon DEF StartFails
<1>2. CASE Finish(kind, "start")
  <2> DEFINE says == "start"
  <2>1. Finish(kind, says) /\ says \in {"start", "tooManyFragments"}
    BY <1>2
  <2> HIDE DEF says
  <2> QED BY <2>1, DownloadStops
<1>3. CASE Close /\ pc' = "reconnect" /\ failure' = failure
  BY <1>3, DownloadGone
<1> QED BY <1>1, <1>2, <1>3

LEMMA DownloadAsksOnce ==
    ASSUME DownloadFaults, DownloadContent, TypedInv, ~Uploading, SendStart
    PROVE  DownloadFaults'
<1> DEFINE message == Message("requestDownload")
<1>1. /\ pc = "start" /\ up /\ pc' = "starting" /\ toPlc' = Append(toPlc, message)
      /\ UNCHANGED <<scenario, up, toClient, pdu, transfer, failure, plc>>
  BY DEF SendStart, Step, Post
<1>2. message \in Messages(Requests) /\ message.fn = "requestDownload"
  BY MessageTyped DEF Requests
<1>3. toClient' = <<>> /\ Len(toClient') # 2
  <2>1. toClient = <<>>
    BY <1>1 DEF DownloadContent, Quiet
  <2>2. Len(<<>>) = 0 /\ 0 # 2
    BY EmptySeq
  <2>3. toClient' = <<>>
    BY <1>1, <2>1
  <2> QED BY <2>2, <2>3
<1> HIDE DEF message
<1>4. InPhase'
  BY <1>1, <1>2, PhaseAppended DEF DownloadFaults
<1>5. StoppedDownload'
  BY <1>1 DEF DownloadFaults, StoppedDownload
<1>6. JobOnLink'
  BY <1>1, <1>3 DEF JobOnLink
<1> QED BY <1>1, <1>4, <1>5, <1>6, DownloadGoesOn

LEMMA DownloadInserts ==
    ASSUME DownloadFaults, DownloadContent, TypedInv, SendInsert
    PROVE  DownloadFaults'
<1> DEFINE message == Message("insert")
<1>1. /\ pc = "insert" /\ up /\ pc' = "inserting" /\ toPlc' = Append(toPlc, message)
      /\ UNCHANGED <<scenario, up, toClient, pdu, transfer, failure, plc>>
  BY DEF SendInsert, Step, Post
<1>2. message \in Messages(Requests) /\ message.fn = "insert"
  BY MessageTyped DEF Requests
<1>3. toClient' = <<>> /\ (toPlc = <<>> \/ Alone(toPlc, "ended"))
  BY <1>1 DEF DownloadContent
<1>4. toPlc = <<>> => plc.stage = "ended"
  BY <1>1 DEF DownloadFaults, JobOnLink
<1> HIDE DEF message
<1>5. InPhase'
  BY <1>1, <1>2, <1>3, <1>4, PhaseAppended DEF DownloadFaults
<1>6. StoppedDownload'
  BY <1>1 DEF DownloadFaults, StoppedDownload
<1>7. JobOnLink'
  BY <1>1, <1>3 DEF JobOnLink
<1> QED BY <1>1, <1>5, <1>6, <1>7, DownloadGoesOn

LEMMA DownloadAwaits ==
    ASSUME DownloadFaults, DownloadContent, TypedInv, AwaitJob
    PROVE  DownloadFaults'
<1>1. /\ pc = "job" /\ up /\ pc' = IF transfer.offset < BlockSize THEN "fragmentJob" ELSE "endJob"
      /\ UNCHANGED <<scenario, up, toPlc, toClient, pdu, transfer, failure, plc>>
  BY DEF AwaitJob, Step
<1>2. InPhase'
  BY <1>1, PhaseKept DEF DownloadFaults
<1>3. StoppedDownload'
  BY <1>1 DEF DownloadFaults, StoppedDownload
<1>4. toClient # <<>> => JobServed(toClient[1])'
  BY <1>1 DEF DownloadFaults, JobOnLink, JobServed, PlcJob, SpoiledJob, Complete
<1>5. JobOnLink'
  BY <1>1, <1>4 DEF JobOnLink
<1> QED BY <1>1, <1>2, <1>3, <1>5, DownloadGoesOn

LEMMA SliceFits ==
    ASSUME TypedInv
    PROVE  Len(Bytes(transfer.offset + 1, NextOffset)) + Overhead <= pdu
<1> DEFINE offset == transfer.offset
           next   == NextOffset
<1>1. /\ pdu \in Nat /\ pdu > Overhead /\ BlockSize \in Nat /\ offset \in 0 .. BlockSize
      /\ next \in offset .. BlockSize
  BY BlockTransferAssumption, NextOffsetTyped DEF TypedInv, TransferState
<1>2. next <= offset + (pdu - Overhead)
  BY <1>1 DEF NextOffset, Smaller, Overhead
<1> HIDE DEF offset, next
<1>3. offset + 1 \in Nat /\ next \in Nat
  BY <1>1
<1>4. CASE next >= offset + 1
  <2>1. Len(Bytes(offset + 1, next)) = next - (offset + 1) + 1
    BY <1>3, <1>4, BytesTyped
  <2> QED BY <1>1, <1>2, <2>1 DEF Overhead, offset, next
<1>5. CASE next < offset + 1
  <2>1. Bytes(offset + 1, next) = <<>> /\ Len(<<>>) = 0
    BY <1>3, <1>5, BytesTyped, EmptySeq
  <2>2. Len(Bytes(offset + 1, next)) = 0
    BY <2>1, Zenon
  <2> QED BY <1>1, <2>2 DEF Overhead, offset, next
<1>6. next >= offset + 1 \/ next < offset + 1
  BY <1>1, <1>3
<1> QED BY <1>4, <1>5, <1>6

LEMMA DownloadSends ==
    ASSUME DownloadFaults, DownloadContent, TypedInv, SendSlice
    PROVE  DownloadFaults'
<1>1. /\ pc = "slice" /\ up /\ pc' = "job" /\ UNCHANGED <<scenario, up, toClient, pdu, failure, plc>>
  BY DEF SendSlice, Step
<1>2. toPlc = <<>> /\ toClient' = <<>>
  BY <1>1 DEF DownloadContent, Quiet
<1>3. plc.stage = "asked" /\ transfer.job = plc.reference
  BY <1>1 DEF DownloadFaults, JobOnLink
<1>4. \E message \in Messages(Requests) :
          /\ message.fn = "fragment" /\ message.data = Bytes(transfer.offset + 1, NextOffset)
          /\ message.reference = transfer.job
          /\ toPlc' = Append(toPlc, message)
  BY SliceTyped
<1>5. PICK message \in Messages(Requests) :
          /\ message.fn = "fragment" /\ message.data = Bytes(transfer.offset + 1, NextOffset)
          /\ message.reference = transfer.job
          /\ toPlc' = Append(toPlc, message)
  BY <1>4
<1>6. Len(message.data) + Overhead <= pdu
  BY <1>5, SliceFits
<1>7. InPhase'
  BY <1>1, <1>2, <1>3, <1>5, <1>6, PhaseAppended DEF DownloadFaults
<1>8. StoppedDownload'
  BY <1>1 DEF DownloadFaults, StoppedDownload
<1>9. JobOnLink'
  BY <1>1, <1>2 DEF JobOnLink
<1> QED BY <1>1, <1>7, <1>8, <1>9, DownloadGoesOn

LEMMA DownloadEnds ==
    ASSUME DownloadFaults, DownloadContent, TypedInv, SendEnded
    PROVE  DownloadFaults'
<1> DEFINE plain   == Message("ended")
           message == [plain EXCEPT !.reference = transfer.job]
<1>1. /\ pc = "ended" /\ up /\ pc' = "insert" /\ toPlc' = Append(toPlc, message)
      /\ UNCHANGED <<scenario, up, toClient, pdu, transfer, failure, plc>>
  BY DEF SendEnded, Step
<1>2. toPlc = <<>> /\ toClient' = <<>>
  BY <1>1 DEF DownloadContent, Quiet
<1>3. plc.stage = "asked" /\ transfer.job = plc.reference
  BY <1>1 DEF DownloadFaults, JobOnLink
<1>4. plain \in Messages(Requests) /\ plain.fn = "ended" /\ transfer.job \in Nat
  BY MessageTyped DEF Requests, TypedInv, TransferState
<1> HIDE DEF plain
<1>5. message \in Messages(Requests) /\ message.fn = "ended" /\ message.reference = transfer.job
  BY <1>4 DEF Messages
<1> HIDE DEF message
<1>6. InPhase'
  BY <1>1, <1>2, <1>3, <1>5, PhaseAppended DEF DownloadFaults
<1>7. StoppedDownload'
  BY <1>1 DEF DownloadFaults, StoppedDownload
<1>8. toPlc' # <<>>
  <2>1. Len(toPlc') = 1
    BY <1>1, <1>2, FirstSent
  <2>2. Len(<<>>) = 0 /\ 0 # 1
    BY EmptySeq
  <2> QED BY <2>1, <2>2
<1>9. JobOnLink'
  BY <1>1, <1>2, <1>8 DEF JobOnLink
<1> QED BY <1>1, <1>6, <1>7, <1>9, DownloadGoesOn

LEMMA DownloadAcknowledged ==
    ASSUME FaultsShow, DownloadFaults, DownloadContent, TypedInv, ~Uploading, Receive, pc = "starting"
    PROVE  DownloadFaults'
<1> DEFINE reply == Head(toClient)
           mode  == scenario.mode
           fault == DecodeFault(reply, IF Uploading THEN "startUpload" ELSE "requestDownload")
           known == [transfer EXCEPT !.expected = reply.size]
<1>1. /\ toClient # <<>> /\ up /\ UNCHANGED <<scenario, pdu, plc>> /\ ReceiveStart(reply)
  BY DEF Receive
<1>2. reply = toClient[1]
  BY <1>1, TakenTyped DEF TypedInv, LinkTyped
<1>3. /\ reply.fn = "requestDownload"
      /\ reply.shape = IF mode \in Unacknowledged THEN "extra" ELSE "exact"
  BY <1>1, <1>2 DEF DownloadFaults, JobOnLink
<1>4. /\ plc.bytes = <<>> /\ transfer.offset = 0 /\ reply.size = NoSize
      /\ Replied \/ (toPlc = <<>> /\ Len(toClient) = 2 /\ plc.stage # "asking")
  BY <1>1, <1>2 DEF DownloadContent, Asked
<1>5. ~(reply.size > UploadSafetyLimit)
  <2>1. reply.size = -1 /\ UploadSafetyLimit \in Nat
    BY <1>4, BlockTransferAssumption DEF NoSize
  <2> QED BY <2>1
<1>6. \/ fault # "exact" /\ Finish(FaultKind(fault), fault) /\ transfer' = transfer
      \/ fault = "exact" /\ transfer' = known /\ Answered("job")
  BY <1>1, <1>5, Zenon DEF ReceiveStart
<1>7. fault = reply.shape
  BY <1>3 DEF DecodeFault
<1>8. CASE fault # "exact" /\ Finish(FaultKind(fault), fault) /\ transfer' = transfer
  <2>1. fault = "extra" /\ mode \in Unacknowledged
    BY <1>3, <1>7, <1>8
  <2>2. FaultKind(fault) = "protocol" /\ ExpectedDownloadKind(mode) = "protocol"
    BY <2>1 DEF FaultKind, ExpectedDownloadKind, Unacknowledged
  <2> QED BY <1>1, <1>8, <2>2, DownloadStops
<1>9. CASE fault = "exact" /\ transfer' = known /\ Answered("job")
  <2>1. mode \notin Unacknowledged
    BY <1>3, <1>7, <1>9
  <2>2. transfer'.offset = 0
    BY <1>4, <1>9 DEF TypedInv, TransferState
  <2>3. toPlc' = toPlc /\ up' = up /\ pc' = "job" /\ toClient' = Tail(toClient) /\ failure' = failure
    BY <1>9 DEF Answered
  <2> HIDE DEF reply, fault, known
  <2>4. InPhase'
    BY <1>1, <2>3, PhaseKept DEF DownloadFaults
  <2>5. StoppedDownload'
    BY <1>1, <2>1, <2>2, <2>3 DEF DownloadFaults, StoppedDownload
  <2>6. toClient' # <<>> => JobServed(toClient[1])'
    <3>1. CASE Replied
      <4>1. toClient' = <<>>
        BY <2>3, <3>1, NothingLeft DEF Replied
      <4> QED BY <4>1
    <3>2. CASE Len(toClient) = 2
      <4>1. toClient'[1] = toClient[2]
        <5>1. \A i \in 1 .. Len(toClient) - 1 : Tail(toClient)[i] = toClient[i + 1]
          BY <1>1, TakenTyped DEF TypedInv, LinkTyped
        <5>2. Tail(toClient)[1] = toClient[2]
          BY <3>2, <5>1
        <5> QED BY <2>3, <5>2
      <4>2. JobServed(toClient[2])
        BY <1>1, <3>2 DEF DownloadFaults, JobOnLink
      <4> QED BY <1>1, <4>1, <4>2 DEF JobServed, PlcJob, SpoiledJob, Complete
    <3> QED BY <1>4, <3>1, <3>2
  <2>7. JobOnLink'
    BY <2>3, <2>6 DEF JobOnLink
  <2> QED BY <1>1, <2>4, <2>5, <2>7, DownloadGoesOn
<1> QED BY <1>6, <1>8, <1>9

LEMMA DownloadJobTaken ==
    ASSUME FaultsShow, DownloadFaults, DownloadContent, TypedInv, ~Uploading, Receive,
           pc \in {"fragmentJob", "endJob"}
    PROVE  DownloadFaults'
<1> DEFINE job   == Head(toClient)
           fault == DecodeFault(job, IF pc = "fragmentJob" THEN "download" ELSE "downloadEnded")
           asked == [transfer EXCEPT !.job = job.reference]
           next  == IF pc = "fragmentJob" THEN "slice" ELSE "ended"
<1>1. /\ toClient # <<>> /\ up /\ UNCHANGED <<scenario, pdu, plc>> /\ ReceiveJob(job)
  BY DEF Receive
<1>2. job = toClient[1]
  BY <1>1, TakenTyped DEF TypedInv, LinkTyped
<1>3. Replied /\ plc.bytes = Bytes(1, transfer.offset)
  BY <1>1 DEF DownloadContent, Asked
<1>4. JobServed(job) /\ StoppedDownload
  BY <1>1, <1>2 DEF DownloadFaults, JobOnLink
<1>5. \/ fault # "exact" /\ Finish("protocol", fault) /\ transfer' = transfer
      \/ fault = "exact" /\ transfer' = asked /\ Answered(next)
  BY <1>1, Zenon DEF ReceiveJob
<1>6. /\ fault # "exact" => ExpectedDownloadKind(scenario.mode) = "protocol"
      /\ fault = "exact" =>
            /\ scenario.mode \notin SpoiledAtOnce /\ plc.stage = "asked"
            /\ job.reference = plc.reference
            /\ pc = "endJob" => scenario.mode # "extra-fragment"
  <2> HIDE DEF job
  <2> QED BY <1>3, <1>4, JobAnswer
<1>7. CASE fault # "exact" /\ Finish("protocol", fault) /\ transfer' = transfer
  <2> DEFINE kind == "protocol"
  <2>1. Finish(kind, fault) /\ kind = ExpectedDownloadKind(scenario.mode)
    BY <1>6, <1>7
  <2> HIDE DEF kind, fault, job
  <2> QED BY <1>1, <1>7, <2>1, DownloadStops
<1>8. CASE fault = "exact" /\ transfer' = asked /\ Answered(next)
  <2>1. transfer'.offset = transfer.offset /\ transfer'.job = job.reference
    BY <1>8 DEF TypedInv, TransferState
  <2>2. toPlc' = toPlc /\ up' = up /\ pc' = next /\ failure' = failure
    BY <1>8 DEF Answered
  <2>3. toClient' = <<>>
    BY <1>3, <1>8, AnswerTaken DEF Quiet
  <2>4. /\ scenario.mode \notin SpoiledAtOnce /\ plc.stage = "asked" /\ job.reference = plc.reference
        /\ pc' = "slice" \/ (pc' = "ended" /\ scenario.mode # "extra-fragment")
    BY <1>6, <1>8, <2>2
  <2> HIDE DEF job, fault, asked, next
  <2>5. InPhase'
    BY <1>1, <2>2, PhaseKept DEF DownloadFaults
  <2>6. StoppedDownload'
    BY <1>1, <1>4, <2>2, <2>4 DEF StoppedDownload
  <2>7. JobOnLink'
    BY <1>1, <2>1, <2>3, <2>4 DEF JobOnLink
  <2> QED BY <1>1, <2>5, <2>6, <2>7, DownloadGoesOn
<1> QED BY <1>5, <1>7, <1>8

LEMMA DownloadInserted ==
    ASSUME DownloadFaults, DownloadContent, TypedInv, ~Uploading, Receive, pc = "inserting"
    PROVE  DownloadFaults'
<1> DEFINE reply == Head(toClient)
           fault == DecodeFault(reply, "start")
<1>1. /\ toClient # <<>> /\ up /\ UNCHANGED <<scenario, transfer, pdu, plc>> /\ ReceiveInsert(reply)
  BY DEF Receive
<1>2. reply = toClient[1]
  BY <1>1, TakenTyped DEF TypedInv, LinkTyped
<1>3. reply.fn = "start" /\ (reply.shape = "exact" \/ scenario.mode = "insert-refused")
  BY <1>1, <1>2 DEF DownloadFaults, JobOnLink
<1>4. \/ fault # "exact" /\ Finish(FaultKind(fault), fault)
      \/ Answered("done")
  BY <1>1 DEF ReceiveInsert
<1>5. CASE fault # "exact" /\ Finish(FaultKind(fault), fault)
  <2>1. scenario.mode = "insert-refused"
    BY <1>3, <1>5 DEF DecodeFault
  <2> QED BY <1>1, <1>5, <2>1, DownloadStops
<1>6. CASE Answered("done")
  <2>1. toPlc' = toPlc /\ up' = up /\ pc' = "done" /\ failure' = failure
    BY <1>6 DEF Answered
  <2> HIDE DEF reply, fault
  <2>2. InPhase'
    BY <1>1, <2>1, PhaseKept DEF DownloadFaults
  <2>3. StoppedDownload'
    BY <1>1, <2>1 DEF DownloadFaults, StoppedDownload
  <2>4. JobOnLink'
    BY <2>1 DEF JobOnLink
  <2> QED BY <1>1, <2>2, <2>3, <2>4, DownloadGoesOn
<1> QED BY <1>4, <1>5, <1>6

LEMMA DownloadBreaksOff ==
    ASSUME DownloadFaults, DownloadContent, TypedInv, ~Uploading, NEW kind, ExchangeFails(kind),
           kind = "timeout" \/ (kind = "disconnected" /\ plc.closed)
    PROVE  DownloadFaults'
<1>1. UNCHANGED <<scenario, plc, transfer, pdu>>
  BY DEF ExchangeFails
<1>2. pc \in DownloadStages
  BY DEF DownloadContent
<1>3. \/ pc # "failed" /\ StartFails(kind)
      \/ Finish(kind, "exchange")
  BY <1>2 DEF ExchangeFails, DownloadStages
<1>4. kind = "timeout" \/ scenario.mode = "fragile" \/ kind = ExpectedDownloadKind(scenario.mode)
  BY DEF DownloadFaults, ExpectedDownloadKind
<1>5. CASE Finish(kind, "exchange")
  <2> DEFINE says == "exchange"
  <2>1. Finish(kind, says)
    BY <1>5
  <2>2. \/ kind = "timeout" \/ scenario.mode \in {"fragile", "invalid", "insert-refused"}
        \/ kind = ExpectedDownloadKind(scenario.mode)
    BY <1>4
  <2> HIDE DEF says
  <2> QED BY <1>1, <2>1, <2>2, DownloadStops
<1> QED BY <1>1, <1>3, <1>5, DownloadStopsAtStart

LEMMA StoppedKept ==
    ASSUME StoppedDownload, UNCHANGED <<scenario, pc, transfer, failure>>
    PROVE  StoppedDownload'
<1>1. DownloadReported' = DownloadReported
  BY DEF DownloadReported, Lost, ExpectedDownloadKind
<1> QED BY <1>1 DEF StoppedDownload

LEMMA DownloadFaultsServed ==
    ASSUME DownloadFaults, DownloadContent, TypedInv, PlcServes
    PROVE  DownloadFaults'
<1> DEFINE request == toPlc[1]
           mode    == scenario.mode
           chunk   == scenario.chunk
<1>1. /\ toPlc # <<>> /\ ~plc.closed /\ UNCHANGED <<scenario, pc, up, transfer, failure, pdu>>
      /\ request = Head(toPlc) /\ plc' = PlcAfter(mode, chunk, request)
  BY ServedTyped DEF PlcServes, TypedInv, LinkTyped
<1>2. /\ request.fn \in DownloadRequests
      /\ request.fn # "fragment" => plc'.bytes = plc.bytes
  BY OrderServed DEF DownloadContent
<1>3. InTurn(request)
  BY ServedInTurn DEF DownloadFaults
<1> HIDE DEF request
<1>4. /\ ~plc'.failed
      /\ request.fn # "fragment" => plc'.closed = plc.closed
      /\ request.fn = "fragment" =>
            plc'.stage = "asking" /\ (plc'.closed => mode = "interrupted")
            /\ (mode = "interrupted" => plc'.closed)
      /\ request.fn = "ended" => plc'.stage = "ended"
      /\ request.fn = "disconnect" => plc' = plc
  <2>1. IsPlc(plc) /\ ~plc.failed
    BY StateIsPlc DEF TypedInv, DownloadFaults
  <2> DEFINE after == PlcAfter(mode, chunk, request)
  <2>2. plc' = after
    BY <1>1
  <2>3. after = PlcAfter(mode, chunk, request)
    OBVIOUS
  <2> HIDE DEF after, mode, chunk
  <2> QED BY <1>2, <1>3, <2>1, <2>2, <2>3, DownloadEffect
<1>5. InPhase'
  BY <1>4, PhaseServed DEF DownloadFaults, request
<1>6. StoppedDownload'
  BY <1>1, StoppedKept DEF DownloadFaults
<1>7. Interrupted'
  <2>1. mode = "interrupted" => plc.bytes = <<>>
    BY <1>1 DEF DownloadFaults, Interrupted
  <2> QED BY <1>1, <1>2, <1>4, <2>1 DEF Interrupted
<1>8. ASSUME JobOnLink' PROVE DownloadFaults'
  BY <1>1, <1>4, <1>5, <1>6, <1>7, <1>8 DEF DownloadFaults
<1>9. CASE ~up
  <2>1. ~up'
    BY <1>1, <1>9
  <2> QED BY <1>8, <2>1 DEF JobOnLink
<1>10. CASE up /\ pc \notin {"starting", "job", "fragmentJob", "endJob", "insert", "inserting"}
  <2>1. pc \notin {"slice", "ended"}
    BY <1>1, <1>10 DEF DownloadContent, Quiet
  <2>2. JobOnLink'
    BY <1>1, <1>10, <2>1 DEF JobOnLink
  <2> QED BY <1>8, <2>2
<1>11. CASE up /\ pc = "starting"
  <2>1. toClient = <<>> /\ request.fn = "requestDownload"
    BY <1>1, <1>11 DEF DownloadContent, Replied, Asked, Alone, request
  <2>2. PICK reply : /\ PlcReplies(mode, chunk, request) = <<reply>>
                     /\ reply.fn = "requestDownload"
                     /\ reply.shape = IF mode \in Unacknowledged THEN "extra" ELSE "exact"
    BY <2>1, AcknowledgementReply
  <2>3. toClient'[1] = reply
    BY <1>1, <1>11, <2>1, <2>2, OneReply
  <2>4. Len(toClient') # 2
    <3>1. Len(toClient') = 1
      BY <1>11, <2>1, ReplyServed DEF request
    <3> QED BY <3>1
  <2>5. JobOnLink'
    BY <1>1, <1>11, <2>2, <2>3, <2>4 DEF JobOnLink
  <2> QED BY <1>8, <2>5
<1>12. CASE up /\ pc \in {"job", "fragmentJob", "endJob"}
  <2>1. toClient = <<>> /\ request.fn = "fragment"
    BY <1>1, <1>12 DEF DownloadContent, Replied, Asked, Alone, request
  <2>2. toClient' = <<>>
    BY <1>12, <2>1, ReplyServed DEF request
  <2>3. JobOnLink'
    BY <1>1, <1>12, <2>2 DEF JobOnLink
  <2> QED BY <1>8, <2>3
<1>13. CASE up /\ pc = "insert"
  <2>1. request.fn = "ended"
    BY <1>1, <1>13 DEF DownloadContent, Alone, request
  <2>2. JobOnLink'
    BY <1>1, <1>4, <1>13, <2>1 DEF JobOnLink
  <2> QED BY <1>8, <2>2
<1>14. CASE up /\ pc = "inserting"
  <2>1. toClient = <<>> /\ request.fn \in {"insert", "ended"}
    BY <1>1, <1>14 DEF DownloadContent, Replied, Asked, Alone, request
  <2>2. CASE request.fn = "insert"
    <3>1. PICK reply : /\ PlcReplies(mode, chunk, request) = <<reply>>
                       /\ reply.fn = "start" /\ (reply.shape = "exact" \/ mode = "insert-refused")
      BY <2>2, InsertReply
    <3>2. toClient'[1] = reply
      BY <1>1, <1>14, <2>1, <3>1, OneReply
    <3>3. JobOnLink'
      BY <1>1, <1>14, <3>1, <3>2 DEF JobOnLink
    <3> QED BY <1>8, <3>3
  <2>3. CASE request.fn = "ended"
    <3>1. toClient' = <<>>
      BY <1>14, <2>1, <2>3, ReplyServed DEF request
    <3>2. JobOnLink'
      BY <1>1, <1>14, <3>1 DEF JobOnLink
    <3> QED BY <1>8, <3>2
  <2> QED BY <2>1, <2>2, <2>3
<1> QED BY <1>9, <1>10, <1>11, <1>12, <1>13, <1>14

LEMMA DownloadFaultsAsked ==
    ASSUME DownloadFaults, DownloadContent, TypedInv, PlcAsks
    PROVE  DownloadFaults'
<1> DEFINE mode  == scenario.mode
           job   == PlcJob(mode)
           stage == IF SpoiledJob(mode) THEN "spoiled" ELSE "asked"
<1>1. /\ up /\ ~plc.closed /\ plc.stage = "asking"
      /\ toClient' = Append(toClient, job) /\ plc' = [plc EXCEPT !.stage = stage]
      /\ UNCHANGED <<scenario, pc, up, toPlc, pdu, transfer, failure>>
  BY DEF PlcAsks
<1>2. toPlc = <<>> /\ pc \in {"starting", "job", "fragmentJob", "endJob"}
  BY <1>1 DEF DownloadContent, Sent
<1>3. /\ plc'.stage = stage /\ plc'.closed = plc.closed /\ plc'.failed = plc.failed
      /\ plc'.bytes = plc.bytes /\ plc'.reference = plc.reference
  <2>1. IsPlc(plc)
    BY StateIsPlc DEF TypedInv
  <2> HIDE DEF stage
  <2> QED BY <1>1, <2>1, FieldChanged DEF PlcFields
<1>4. job = PlcJob(scenario.mode)' /\ plc'.stage = IF SpoiledJob(scenario.mode)' THEN "spoiled" ELSE "asked"
  <2>1. PlcJob(scenario.mode)' = PlcJob(scenario.mode) /\ SpoiledJob(scenario.mode)' = SpoiledJob(scenario.mode)
    BY <1>1, <1>3 DEF PlcJob, SpoiledJob, Complete
  <2> QED BY <1>3, <2>1
<1>5. /\ Len(toClient') = Len(toClient) + 1 /\ toClient'[Len(toClient) + 1] = job
      /\ Len(toClient) = 1 => toClient'[1] = toClient[1]
  <2> DEFINE M == Messages(Replies)
  <2>1. toClient \in Seq(M) /\ job \in M
    BY JobTyped DEF TypedInv, LinkTyped
  <2> HIDE DEF M, job
  <2> QED BY <1>1, <2>1
<1>6. InPhase'
  BY <1>1, <1>2, PhaseEmpty
<1>7. StoppedDownload'
  BY <1>1, StoppedKept DEF DownloadFaults
<1>8. Interrupted'
  BY <1>1, <1>3 DEF DownloadFaults, Interrupted
<1>9. ASSUME JobOnLink' PROVE DownloadFaults'
  BY <1>1, <1>3, <1>6, <1>7, <1>8, <1>9 DEF DownloadFaults
<1> HIDE DEF job, stage
<1>10. CASE pc = "starting"
  <2>1. Replied
    BY <1>1, <1>2, <1>10, NothingLeft DEF DownloadContent, Asked, Alone, Replied
  <2>2. toClient'[1] = toClient[1] /\ toClient # <<>> /\ toClient'[2] = job
    BY <1>5, <2>1, NothingLeft DEF Replied
  <2>3. JobServed(toClient[2])'
    BY <1>4, <2>2 DEF JobServed
  <2>4. JobOnLink'
    BY <1>1, <1>10, <2>2, <2>3 DEF DownloadFaults, JobOnLink
  <2> QED BY <1>9, <2>4
<1>11. CASE pc \in {"job", "fragmentJob", "endJob"}
  <2>1. toClient = <<>>
    BY <1>1, <1>2, <1>11 DEF DownloadContent
  <2>2. toClient'[1] = job
    BY <1>5, <2>1, NothingLeft
  <2>3. JobServed(toClient[1])'
    BY <1>4, <2>2 DEF JobServed
  <2>4. JobOnLink'
    BY <1>1, <1>11, <2>3 DEF JobOnLink
  <2> QED BY <1>9, <2>4
<1> QED BY <1>2, <1>10, <1>11

LEMMA DownloadFaultsStep ==
    ASSUME FaultsShow, DownloadFaults, DownloadContent, TypedInv, ~Uploading, [Next]_vars
    PROVE  DownloadFaults'
<1>1. pc \in DownloadStages
  BY DEF DownloadContent
<1>2. CASE Begin
  <2>1. pc = "begin" /\ UNCHANGED <<scenario, plc, transfer, pdu>>
    BY <1>2 DEF Begin
  <2>2. \/ scenario.mode = "invalid" /\ Finish("invalidInput", "block")
        \/ pc' = "start" /\ UNCHANGED <<up, toPlc, toClient, failure>>
    BY <1>2, Zenon DEF Begin
  <2>3. CASE scenario.mode = "invalid" /\ Finish("invalidInput", "block")
    BY <2>1, <2>3, DownloadStops
  <2>4. CASE pc' = "start" /\ UNCHANGED <<up, toPlc, toClient, failure>>
    <3>1. InPhase'
      BY <2>1, <2>4, PhaseKept DEF DownloadFaults
    <3>2. StoppedDownload' /\ JobOnLink'
      BY <2>1, <2>4 DEF DownloadFaults, StoppedDownload, JobOnLink
    <3> QED BY <2>1, <3>1, <3>2, DownloadGoesOn
  <2> QED BY <2>2, <2>3, <2>4
<1>3. CASE SendStart
  BY <1>3, DownloadAsksOnce
<1>4. CASE Reconnect
  <2>1. /\ pc = "reconnect" /\ pc' = "start" /\ toPlc' = <<>> /\ plc' = NewPlc
        /\ UNCHANGED <<scenario, transfer, failure>>
    BY <1>4 DEF Reconnect
  <2>2. ~NewPlc.failed /\ ~NewPlc.closed /\ NewPlc.bytes = <<>>
    BY Zenon DEF NewPlc
  <2>3. InPhase'
    BY <2>1, PhaseEmpty
  <2>4. StoppedDownload' /\ JobOnLink'
    BY <2>1 DEF DownloadFaults, StoppedDownload, JobOnLink
  <2> QED BY <2>1, <2>2, <2>3, <2>4 DEF DownloadFaults, Interrupted
<1>5. CASE ReconnectFails
  <2>1. PICK kind : StartFails(kind)
    BY <1>5 DEF ReconnectFails
  <2>2. pc = "reconnect" /\ UNCHANGED <<scenario, plc, transfer, pdu>>
    BY <1>5 DEF ReconnectFails
  <2> QED BY <2>1, <2>2, DownloadStopsAtStart
<1>6. CASE TooManyFragments
  <2> DEFINE says == "tooManyFragments"
  <2>1. UNCHANGED <<scenario, plc, transfer, pdu>> /\ Finish("protocol", says)
        /\ says \in {"start", "tooManyFragments"}
    BY <1>6 DEF TooManyFragments, Refuse, InUploadLoop
  <2> HIDE DEF says
  <2> QED BY <2>1, DownloadStops
<1>7. CASE SkipCleanup \/ RequestFragment \/ EndUpload
  BY <1>1, <1>7 DEF SkipCleanup, RequestFragment, EndUpload, Step, DownloadStages
<1>8. CASE AwaitJob
  BY <1>8, DownloadAwaits
<1>9. CASE SendSlice
  BY <1>9, DownloadSends
<1>10. CASE SendEnded
  BY <1>10, DownloadEnds
<1>11. CASE SendInsert
  BY <1>11, DownloadInserts
<1>12. CASE Receive
  <2>1. pc \in {"starting", "fragmentJob", "endJob", "inserting"}
    BY <1>1, <1>12 DEF Receive, DownloadStages, Waits
  <2> QED BY <1>12, <2>1, DownloadAcknowledged, DownloadJobTaken, DownloadInserted
<1>13. CASE ReceiveTimesOut \/ BudgetSpent \/ PeerClosed
  <2>1. ExchangeFails("timeout") \/ (ExchangeFails("disconnected") /\ plc.closed)
    BY <1>13 DEF ReceiveTimesOut, BudgetSpent, PeerClosed
  <2> QED BY <2>1, DownloadBreaksOff
<1>14. CASE PlcServes
  BY <1>14, DownloadFaultsServed
<1>15. CASE PlcAsks
  BY <1>15, DownloadFaultsAsked
<1>16. CASE PlcCloses \/ Tick \/ UNCHANGED vars
  <2> DEFINE yes == TRUE
  <2>1. /\ UNCHANGED <<scenario, pc, up, toPlc, toClient, transfer, failure, pdu>>
        /\ plc' = plc \/ (scenario.mode = "fragile" /\ plc' = [plc EXCEPT !.closed = yes])
    BY <1>16 DEF PlcCloses, Tick, vars
  <2> HIDE DEF yes
  <2>2. /\ plc'.stage = plc.stage /\ plc'.reference = plc.reference /\ plc'.failed = plc.failed
        /\ plc'.bytes = plc.bytes
        /\ plc'.closed = plc.closed \/ scenario.mode = "fragile"
    <3>1. IsPlc(plc)
      BY StateIsPlc DEF TypedInv
    <3> QED BY <2>1, <3>1, FieldChanged DEF PlcFields
  <2>3. InPhase'
    BY <2>1, <2>2, PhaseKept DEF DownloadFaults
  <2>4. StoppedDownload'
    BY <2>1, StoppedKept DEF DownloadFaults
  <2>5. ASSUME NEW job, JobServed(job) PROVE JobServed(job)'
    BY <2>1, <2>2, <2>5 DEF JobServed, PlcJob, SpoiledJob, Complete
  <2>6. JobOnLink'
    BY <2>1, <2>2, <2>5 DEF DownloadFaults, JobOnLink
  <2> QED BY <2>1, <2>2, <2>3, <2>4, <2>6 DEF DownloadFaults, Interrupted
<1>17. CASE ClientStep
  BY <1>2, <1>3, <1>4, <1>5, <1>6, <1>7, <1>8, <1>9, <1>10, <1>11, <1>12, <1>13, <1>17 DEF ClientStep
<1> QED BY <1>14, <1>15, <1>16, <1>17 DEF Next

-----------------------------------------------------------------------------
(* Faults are reported                                                     *)

LEMMA FaultInit == Init => FaultInv
<1> SUFFICES ASSUME Init PROVE FaultInv
  OBVIOUS
<1>1. /\ pc = "begin" /\ toPlc = <<>> /\ toClient = <<>> /\ plc = NewPlc /\ failure = NoFailure
      /\ transfer.offset = 0
  BY DEF Init
<1>2. ~plc.failed /\ ~plc.closed /\ plc.bytes = <<>> /\ failure.kind = "none"
  BY <1>1, Zenon DEF NewPlc, NoFailure
<1>3. Len(toPlc) = 0 /\ \A i \in 1 .. 0 : FALSE
  BY <1>1
<1>4. UploadsInTurn /\ InPhase
  BY <1>3 DEF UploadsInTurn, InPhase
<1>5. UploadFaults
  BY <1>1, <1>2, <1>4 DEF UploadFaults, FaultKept, FaultOnLink
<1>6. StoppedDownload /\ JobOnLink /\ Interrupted
  BY <1>1, <1>2 DEF StoppedDownload, JobOnLink, Interrupted
<1> QED BY <1>2, <1>4, <1>5, <1>6 DEF FaultInv, DownloadFaults

LEMMA FaultStep == ASSUME FaultsShow, ContentInv, FaultInv, [Next]_vars PROVE FaultInv'
<1>1. scenario' = scenario
  BY DEF Next, ClientStep, Begin, SendStart, Reconnect, ReconnectFails, RequestFragment,
         TooManyFragments, EndUpload, SkipCleanup, AwaitJob, SendSlice, SendEnded, SendInsert, Receive,
         ReceiveTimesOut, BudgetSpent, PeerClosed, ExchangeFails, PlcServes, PlcAsks, PlcCloses, Tick, vars
<1>2. Uploading' = Uploading
  BY <1>1 DEF Uploading
<1>3. ASSUME Uploading PROVE UploadFaults'
  BY <1>3, UploadFaultsStep DEF FaultInv, ContentInv, EndInv
<1>4. ASSUME ~Uploading PROVE DownloadFaults'
  BY <1>4, DownloadFaultsStep DEF FaultInv, ContentInv
<1> QED BY <1>2, <1>3, <1>4 DEF FaultInv

(* Where the fault of a scripted PLC is at every stage of uploadBlockValue *)
(* and downloadBlockValue: still to come, on its way, or the error that    *)
(* the client made of it and keeps through its cleanup.                    *)
THEOREM FaultInvariant == FaultsShow => (Spec => []FaultInv)
<1> SUFFICES ASSUME FaultsShow PROVE Spec => []FaultInv
  OBVIOUS
<1>1. ContentInv /\ FaultInv /\ [Next]_vars => FaultInv'
  BY FaultStep
<1> QED BY <1>1, FaultInit, ContentInvariant, PTL DEF Spec

LEMMA FaultsReported == FaultsShow /\ ContentInv /\ FaultInv => ReportsTheFault
<1> SUFFICES ASSUME FaultsShow, ContentInv, FaultInv PROVE ReportsTheFault
  OBVIOUS
<1>1. ~plc.failed
  BY DEF FaultInv, UploadFaults, DownloadFaults
<1>2. ASSUME Ended, failure.kind # "timeout", failure.says \notin {"start", "tooManyFragments"}, Uploading,
             Scripted(scenario.mode)
      PROVE  failure = [kind |-> "protocol", says |-> ExpectedUploadReport(scenario.mode)]
  BY <1>2 DEF FaultInv, UploadFaults, FaultKept, Ended, Reported, Lost
<1>3. ASSUME Ended, failure.kind # "timeout", failure.says \notin {"start", "tooManyFragments"}, ~Uploading,
             scenario.mode \notin {"fragile", "invalid", "insert-refused"}
      PROVE  failure.kind = ExpectedDownloadKind(scenario.mode)
  <2>1. DownloadFaults /\ DownloadContent
    BY <1>3 DEF FaultInv, ContentInv
  <2>2. CASE pc = "failed"
    BY <1>3, <2>1, <2>2 DEF DownloadFaults, StoppedDownload, DownloadReported, Lost
  <2>3. CASE pc = "done"
    <3>1. failure.kind = "none" /\ scenario.mode \notin Unacknowledged \union SpoiledAtOnce
          /\ scenario.mode # "extra-fragment"
      BY <2>1, <2>3 DEF DownloadFaults, StoppedDownload
    <3>2. scenario.mode # "interrupted"
      <4>1. plc.stage = "inserted" /\ plc.bytes = Block
        BY <2>1, <2>3 DEF DownloadContent
      <4>2. Len(Block) = BlockSize /\ BlockSize >= 4 /\ Len(<<>>) = 0
        BY BlockTyped DEF FaultsShow
      <4>3. Block # <<>>
        <5>1. ASSUME Block = <<>> PROVE FALSE
          <6>1. Len(Block) = 0
            BY <4>2, <5>1, Zenon
          <6> QED BY <4>2, <6>1
        <5> QED BY <5>1
      <4> QED BY <2>1, <4>1, <4>3 DEF DownloadFaults, Interrupted
    <3>3. scenario.mode \in DownloadModes
      BY <1>3, ScenarioTyped DEF ContentInv, TypedInv, Scenarios, Uploading
    <3> QED BY <1>3, <3>1, <3>2, <3>3 DEF DownloadModes, Unacknowledged, SpoiledAtOnce, ExpectedDownloadKind
  <2> QED BY <1>3, <2>2, <2>3 DEF Ended
<1> QED BY <1>1, <1>2, <1>3 DEF ReportsTheFault

(* The client does nothing that a scripted PLC does not expect, and makes  *)
(* of each of its faults the error that the integration runs look for,     *)
(* also where the cleanup of uploadBlockValue fails as well: for every     *)
(* block of four bytes or more, every PDU length and every timeout.        *)
THEOREM FaultsAreReported == FaultsShow => (Spec => []ReportsTheFault)
<1> SUFFICES ASSUME FaultsShow PROVE Spec => []ReportsTheFault
  OBVIOUS
<1>1. ContentInv /\ FaultInv => ReportsTheFault
  BY FaultsReported
<1> QED BY <1>1, ContentInvariant, FaultInvariant, PTL
=============================================================================
