----------------------- MODULE ConnectionSetupProofs -----------------------
(***************************************************************************)
(* Proofs, for any addresses, resolutions, sizes and budgets, of what an   *)
(* attempt to connect leaves behind and of what it returns.                *)
(*                                                                         *)
(* That nothing stays open is not inductive: it rests on which connections *)
(* the client knows to be up, and on no address being tried twice, which   *)
(* is why the resolver's duplicates have to be removed.                    *)
(***************************************************************************)
EXTENDS ConnectionSetup, TLAPS

Talking == {"confirm", "setup", "reply", "connected"}
Active  == {"candidate", "connect", "request"} \union Talking

(* There is an address to try, and each is tried once.                     *)
CandidatesDiffer ==
    /\ pc \in Active => candidates # <<>>
    /\ \A i, j \in 1 .. Len(candidates) : candidates[i] = candidates[j] => i = j

(* connectAddress notes the connection it has to shut down, and no other.  *)
EstablishedIsUp ==
    /\ pc \in {"begin", "resolve", "candidate", "connect"} => ~established
    /\ pc \in {"request"} \union Talking => established /\ tcp[Current] = "up"

(* An address the client spoke to is the current one, or its connection is *)
(* shut down and it is not tried again.                                    *)
SpokenIsBehind ==
    /\ pc \in {"begin", "resolve"} => requested = {}
    /\ \A a \in requested : (pc \in Talking /\ a = Current) \/ tcp[a] = "shut"
    /\ pc \in Active => \A a \in requested : \A i \in 1 .. Len(candidates) :
          candidates[i] = a => i = 1 /\ pc \in Talking

AnsweredIsCurrent ==
    /\ answered # {} => pc \in {"setup", "reply", "connected", "failed"}
    /\ AnsweringPeerIsLast

ConfirmedSize ==
    /\ pc \in {"setup", "reply", "connected"} =>
          /\ exponent <= RequestedExponent
          /\ confirmation # <<>> => exponent = confirmation[Len(confirmation)]
    /\ NegotiationHolds

(* No stage extends the budget of the attempt.                             *)
WithinBudget ==
    ConnectTimeout # NoDeadline => deadline # NoDeadline /\ deadline <= ConnectTimeout

SetupInv ==
    /\ TypeOK
    /\ CandidatesDiffer
    /\ EstablishedIsUp
    /\ SpokenIsBehind
    /\ AnsweredIsCurrent
    /\ ConfirmedSize
    /\ WithinBudget

-----------------------------------------------------------------------------

(* The head and the rest of a list of candidates.                          *)
LEMMA CandidateList ==
  ASSUME NEW s \in Seq(Addresses), s # <<>>
  PROVE  /\ Len(s) \in Nat \ {0}
         /\ Head(s) = s[1] /\ Head(s) \in Addresses
         /\ Tail(s) \in Seq(Addresses) /\ Len(Tail(s)) = Len(s) - 1
         /\ \A i \in 1 .. Len(s) - 1 : Tail(s)[i] = s[i + 1]
  OBVIOUS

(* The list the resolver's answer is cut down to holds no address twice.   *)
LEMMA UniqueAddressesDiffer ==
  ASSUME NEW addresses \in Seq(Addresses), addresses # <<>>,
         NEW selected \in UniqueAddresses(addresses)
  PROVE  /\ selected \in Seq(Addresses) /\ selected # <<>>
         /\ \A i, j \in 1 .. Len(selected) : selected[i] = selected[j] => i = j
<1>1. PICK n \in 1 .. Len(addresses) : selected \in [1 .. n -> Addresses]
  BY DEF UniqueAddresses
<1>2. n \in Nat \ {0} /\ selected \in Seq(Addresses) /\ Len(selected) = n
  BY <1>1
<1>3. ASSUME NEW i \in 1 .. n, NEW j \in 1 .. n, i < j
      PROVE  selected[i] # selected[j]
  <2>1. PICK k \in DOMAIN addresses :
           addresses[k] = selected[i] /\ \A l \in 1 .. k : addresses[l] # selected[j]
    BY <1>1, <1>3 DEF UniqueAddresses
  <2> QED BY <2>1
<1> QED BY <1>2, <1>3

(* The attempt begins with nothing tried, sent or opened.                   *)
LEMMA SetupInvInit == Init => SetupInv
<1> SUFFICES ASSUME Init PROVE SetupInv
  OBVIOUS
<1>1. TypeOK
  <2>1. deadline \in Deadline
    BY SetupAssumption DEF Init, DeadlineAfter, Deadline, NoDeadline
  <2>2. candidates \in Seq(Addresses) /\ confirmation \in Seq(Nat)
    BY DEF Init
  <2>3. now \in 0 .. MaxTime /\ exponent \in 0 .. 13
    BY SetupAssumption DEF Init
  <2> QED BY <2>1, <2>2, <2>3 DEF Init, TypeOK
<1>2. CandidatesDiffer /\ EstablishedIsUp /\ SpokenIsBehind /\ AnsweredIsCurrent
  BY DEF Init, CandidatesDiffer, EstablishedIsUp, SpokenIsBehind, AnsweredIsCurrent,
         AnsweringPeerIsLast, Active, Talking
<1>3. ConfirmedSize
  BY DEF Init, ConfirmedSize, NegotiationHolds
<1>4. WithinBudget
  BY SetupAssumption DEF Init, WithinBudget, DeadlineAfter, Deadline, NoDeadline
<1> QED BY <1>1, <1>2, <1>3, <1>4 DEF SetupInv

(* An attempt that fails leaves its connection shut if it was up, and goes *)
(* on to another address only with an error of the connection itself.      *)
LEMMA FailingKeepsSetupInv ==
  ASSUME SetupInv, NEW kind \in ErrorKinds, AttemptFails(kind),
         \/ /\ pc \in {"candidate", "connect", "request", "confirm"}
            /\ UNCHANGED answered
         \/ /\ pc = "confirm" /\ kind = "protocol"
            /\ answered' = answered \union {Current}
  PROVE  SetupInv'
<1> USE DEF SetupInv
<1>1. candidates # <<>> /\ candidates \in Seq(Addresses) /\ Current \in Addresses
  BY CandidateList DEF CandidatesDiffer, TypeOK, Active, Talking, Current
<1>2. /\ tcp' \in [Addresses -> {"none", "connecting", "up", "refused", "shut"}]
      /\ \A a \in Addresses : tcp'[a] = IF established /\ a = Current THEN "shut" ELSE tcp[a]
  BY <1>1 DEF AttemptFails, ShutIfEstablished, TypeOK
<1>3. CASE FallsBack(kind)
  <2>1. /\ candidates' = Tail(candidates) /\ pc' = "candidate" /\ established' = FALSE
        /\ deadline' = deadline /\ answered' = answered
    BY <1>3 DEF AttemptFails, FallsBack, IsRetryable, DeadlineOfNextCandidate
  <2>2. /\ Len(candidates) > 1
        /\ candidates' \in Seq(Addresses) /\ Len(candidates') = Len(candidates) - 1
        /\ \A i \in 1 .. Len(candidates') : candidates'[i] = candidates[i + 1]
        /\ Current = candidates[1]
    BY <1>1, <1>3, <2>1, CandidateList DEF FallsBack, Current
  <2>3. TypeOK'
    BY <1>2, <2>1, <2>2 DEF TypeOK, AttemptFails
  <2>4. CandidatesDiffer'
    <3>1. candidates' # <<>>
      BY <2>2
    <3>2. ASSUME NEW i \in 1 .. Len(candidates'), NEW j \in 1 .. Len(candidates'),
                 candidates'[i] = candidates'[j]
          PROVE  i = j
      BY <3>2, <2>2, <1>1 DEF CandidatesDiffer
    <3> QED BY <3>1, <3>2 DEF CandidatesDiffer
  <2>5. EstablishedIsUp'
    BY <2>1 DEF EstablishedIsUp, Talking
  <2>6. SpokenIsBehind'
    <3>1. \A a \in requested : tcp'[a] = "shut"
      BY <1>2 DEF SpokenIsBehind, EstablishedIsUp, TypeOK, Talking
    <3>2. \A a \in requested : \A i \in 1 .. Len(candidates') : candidates'[i] # a
      BY <2>2, <1>1 DEF SpokenIsBehind, Active, Talking
    <3> QED BY <3>1, <3>2, <2>1 DEF SpokenIsBehind, AttemptFails, Active, Talking
  <2>7. AnsweredIsCurrent'
    BY <2>1 DEF AnsweredIsCurrent, AnsweringPeerIsLast
  <2>8. ConfirmedSize' /\ WithinBudget'
    BY <2>1 DEF ConfirmedSize, NegotiationHolds, WithinBudget
  <2> QED BY <2>3, <2>4, <2>5, <2>6, <2>7, <2>8
<1>4. CASE ~FallsBack(kind)
  <2>1. pc' = "failed" /\ UNCHANGED <<candidates, established, deadline>> /\ Current' = Current
    BY <1>4 DEF AttemptFails, Current
  <2>2. TypeOK'
    BY <1>1, <1>2, <2>1 DEF TypeOK, AttemptFails
  <2>3. CandidatesDiffer' /\ EstablishedIsUp'
    BY <2>1 DEF CandidatesDiffer, EstablishedIsUp, Active, Talking
  <2>4. SpokenIsBehind'
    BY <1>2, <2>1 DEF SpokenIsBehind, EstablishedIsUp, TypeOK, AttemptFails, Active, Talking
  <2>5. AnsweredIsCurrent'
    BY <2>1 DEF AnsweredIsCurrent, AnsweringPeerIsLast
  <2>6. ConfirmedSize' /\ WithinBudget'
    BY <2>1 DEF ConfirmedSize, NegotiationHolds, WithinBudget, AttemptFails
  <2> QED BY <2>2, <2>3, <2>4, <2>5, <2>6
<1> QED BY <1>3, <1>4

(* After an answer nothing but the failure of the whole attempt is left.   *)
LEMMA SetupFailureKeepsSetupInv ==
  ASSUME SetupInv, NEW kind \in ErrorKinds, pc \in {"setup", "reply"}, SetupFails(kind)
  PROVE  SetupInv'
<1> USE DEF SetupInv, SetupFails
<1>1. candidates # <<>> /\ candidates \in Seq(Addresses) /\ Current \in Addresses
  BY CandidateList DEF CandidatesDiffer, TypeOK, Active, Talking, Current
<1>2. Current' = Current /\ \A a \in Addresses : tcp'[a] = IF a = Current THEN "shut" ELSE tcp[a]
  BY <1>1 DEF ShutCurrent, TypeOK, Current
<1>3. TypeOK'
  BY <1>1 DEF TypeOK, localVars, ShutCurrent
<1>4. CandidatesDiffer' /\ EstablishedIsUp'
  BY DEF CandidatesDiffer, EstablishedIsUp, Active, Talking, localVars
<1>5. SpokenIsBehind'
  BY <1>2 DEF SpokenIsBehind, TypeOK, Active, Talking
<1>6. AnsweredIsCurrent'
  BY <1>2 DEF AnsweredIsCurrent, AnsweringPeerIsLast
<1>7. ConfirmedSize' /\ WithinBudget'
  BY DEF ConfirmedSize, NegotiationHolds, WithinBudget
<1> QED BY <1>3, <1>4, <1>5, <1>6, <1>7

(* Before the first address is tried nothing has to be cleaned up.         *)
LEMMA EarlyFailureKeepsSetupInv ==
  ASSUME SetupInv, NEW kind \in ErrorKinds, pc \in {"begin", "resolve"}, FailConnect(kind)
  PROVE  SetupInv'
  BY DEF SetupInv, FailConnect, TypeOK, CandidatesDiffer, EstablishedIsUp, SpokenIsBehind,
         AnsweredIsCurrent, AnsweringPeerIsLast, ConfirmedSize, NegotiationHolds, WithinBudget,
         Active, Talking, Current, localVars, worldVars

-----------------------------------------------------------------------------

(* Rack and slot are validated before anything exists.                     *)
LEMMA BeginKeepsSetupInv == ASSUME SetupInv, Begin PROVE SetupInv'
<1>1. CASE FailConnect("invalidInput")
  BY <1>1, EarlyFailureKeepsSetupInv DEF Begin, ErrorKinds
<1>2. CASE pc' = "resolve" /\ UNCHANGED <<error, now, deadline, candidates, localVars, worldVars>>
  BY <1>2 DEF Begin, SetupInv, TypeOK, CandidatesDiffer, EstablishedIsUp, SpokenIsBehind,
              AnsweredIsCurrent, AnsweringPeerIsLast, ConfirmedSize, NegotiationHolds,
              WithinBudget, Active, Talking, Current, localVars, worldVars
<1> QED BY <1>1, <1>2 DEF Begin

(* The candidates are fixed here; no address was tried before.             *)
LEMMA ResolveKeepsSetupInv == ASSUME SetupInv, Resolve PROVE SetupInv'
<1>1. PICK addresses \in Resolutions :
         \/ FailConnect("transport")
         \/ /\ addresses # <<>>
            /\ candidates' \in UniqueAddresses(addresses)
            /\ pc' = "candidate"
            /\ UNCHANGED <<error, now, deadline, localVars, worldVars>>
  BY DEF Resolve
<1>2. CASE FailConnect("transport")
  BY <1>2, EarlyFailureKeepsSetupInv DEF Resolve, ErrorKinds
<1>3. CASE ~FailConnect("transport")
  <2> USE DEF SetupInv
  <2>1. /\ candidates' \in Seq(Addresses) /\ candidates' # <<>>
        /\ \A i, j \in 1 .. Len(candidates') : candidates'[i] = candidates'[j] => i = j
    BY <1>1, <1>3, UniqueAddressesDiffer, SetupAssumption
  <2>2. TypeOK'
    BY <1>1, <1>3, <2>1 DEF TypeOK, localVars, worldVars
  <2>3. CandidatesDiffer' /\ EstablishedIsUp' /\ SpokenIsBehind'
    BY <1>1, <1>3, <2>1
       DEF Resolve, CandidatesDiffer, EstablishedIsUp, SpokenIsBehind, Active, Talking,
           localVars, worldVars
  <2>4. AnsweredIsCurrent'
    BY <1>1, <1>3 DEF Resolve, AnsweredIsCurrent, AnsweringPeerIsLast, worldVars
  <2>5. ConfirmedSize' /\ WithinBudget'
    BY <1>1, <1>3 DEF ConfirmedSize, NegotiationHolds, WithinBudget, localVars
  <2> QED BY <2>2, <2>3, <2>4, <2>5
<1> QED BY <1>2, <1>3

(* An address that is tried was not tried before.                          *)
LEMMA OpenKeepsSetupInv == ASSUME SetupInv, OpenSocket PROVE SetupInv'
<1> USE DEF SetupInv, OpenSocket
<1>1. Current \in Addresses /\ Current = candidates[1] /\ Len(candidates) >= 1 /\ Current' = Current
  BY CandidateList DEF CandidatesDiffer, TypeOK, Active, Talking, Current
<1>2. TypeOK'
  BY <1>1 DEF TypeOK, localVars
<1>3. CandidatesDiffer' /\ EstablishedIsUp'
  BY DEF CandidatesDiffer, EstablishedIsUp, Active, Talking, localVars
<1>4. Current \notin requested
  BY <1>1 DEF SpokenIsBehind, Active, Talking
<1>5. SpokenIsBehind'
  BY <1>1, <1>4 DEF SpokenIsBehind, TypeOK, Active, Talking
<1>6. AnsweredIsCurrent'
  BY <1>1 DEF AnsweredIsCurrent, AnsweringPeerIsLast
<1>7. ConfirmedSize' /\ WithinBudget'
  BY DEF ConfirmedSize, NegotiationHolds, WithinBudget, localVars
<1> QED BY <1>2, <1>3, <1>5, <1>6, <1>7

(* A TCP connection that is up is noted before anything else is done.      *)
LEMMA TcpKeepsSetupInv == ASSUME SetupInv, TcpReturns PROVE SetupInv'
<1>1. CASE AttemptFails("transport") /\ UNCHANGED answered
  BY <1>1, FailingKeepsSetupInv DEF TcpReturns, ErrorKinds
<1>2. CASE ~(AttemptFails("transport") /\ UNCHANGED answered)
  BY <1>2 DEF TcpReturns, SetupInv, TypeOK, CandidatesDiffer, EstablishedIsUp, SpokenIsBehind,
              AnsweredIsCurrent, AnsweringPeerIsLast, ConfirmedSize, NegotiationHolds,
              WithinBudget, Active, Talking, Current, worldVars
<1> QED BY <1>1, <1>2

(* The client speaks only on a connection it noted as established.         *)
LEMMA RequestKeepsSetupInv == ASSUME SetupInv, SendRequest PROVE SetupInv'
<1> USE DEF SetupInv, SendRequest
<1>1. Current \in Addresses /\ Current = candidates[1] /\ Len(candidates) >= 1 /\ Current' = Current
  BY CandidateList DEF CandidatesDiffer, TypeOK, Active, Talking, Current
<1>2. TypeOK'
  BY <1>1 DEF TypeOK, localVars
<1>3. CandidatesDiffer' /\ EstablishedIsUp'
  BY <1>1 DEF CandidatesDiffer, EstablishedIsUp, Active, Talking, localVars
<1>4. SpokenIsBehind'
  <2>1. \A i \in 1 .. Len(candidates) : candidates[i] = Current => i = 1
    BY <1>1 DEF CandidatesDiffer, TypeOK
  <2> QED BY <1>1, <2>1 DEF SpokenIsBehind, Active, Talking
<1>5. AnsweredIsCurrent'
  BY <1>1 DEF AnsweredIsCurrent, AnsweringPeerIsLast
<1>6. ConfirmedSize' /\ WithinBudget'
  BY DEF ConfirmedSize, NegotiationHolds, WithinBudget, localVars
<1> QED BY <1>2, <1>3, <1>4, <1>5, <1>6

(* A confirmation decides: setup with this peer, or failure.               *)
LEMMA ConfirmKeepsSetupInv == ASSUME SetupInv, ReceiveConfirm PROVE SetupInv'
<1>1. CASE AttemptFails("protocol")
  BY <1>1, FailingKeepsSetupInv DEF ReceiveConfirm, ErrorKinds
<1>2. CASE ~AttemptFails("protocol")
  <2> USE DEF SetupInv
  <2>1. PICK parameters \in ParameterLists :
           /\ AcceptableSize(parameters)
           /\ confirmation' = parameters
           /\ exponent' = NegotiatedExponent(parameters)
           /\ pc' = "setup"
           /\ UNCHANGED <<error, now, deadline, candidates, established, pduLength,
                          tcp, tries, requested>>
    BY <1>2 DEF ReceiveConfirm
  <2>2. pc = "confirm" /\ answered' = answered \union {Current} /\ Current' = Current
    BY <2>1 DEF ReceiveConfirm, Current
  <2>3. parameters \in Seq(Nat) /\ parameters # <<>> =>
           exponent' = parameters[Len(parameters)] /\ exponent' \in 7 .. 13
                                                   /\ exponent' <= RequestedExponent
    BY <2>1, SetupAssumption
       DEF AcceptableSize, NegotiatedExponent, LastParameter, Last, ValidExponent
  <2>4. parameters \in Seq(Nat) /\ exponent' \in 0 .. 13 /\ exponent' <= RequestedExponent
    BY <2>1, <2>3, SetupAssumption DEF AcceptableSize, NegotiatedExponent, ValidExponent
  <2>5. Current \in Addresses
    BY <2>2, CandidateList DEF CandidatesDiffer, TypeOK, Active, Talking, Current
  <2>6. TypeOK'
    BY <2>1, <2>2, <2>4, <2>5 DEF TypeOK
  <2>7. CandidatesDiffer' /\ EstablishedIsUp' /\ SpokenIsBehind'
    BY <2>1, <2>2 DEF CandidatesDiffer, EstablishedIsUp, SpokenIsBehind, Active, Talking
  <2>8. AnsweredIsCurrent'
    BY <2>1, <2>2 DEF AnsweredIsCurrent, AnsweringPeerIsLast
  <2>9. ConfirmedSize' /\ WithinBudget'
    BY <2>1, <2>3, <2>4 DEF ConfirmedSize, NegotiationHolds, WithinBudget
  <2> QED BY <2>6, <2>7, <2>8, <2>9
<1> QED BY <1>1, <1>2

(* The operation's budget can only shorten what is left of the attempt's.  *)
LEMMA SetupKeepsSetupInv == ASSUME SetupInv, SendSetup PROVE SetupInv'
<1> USE DEF SetupInv, SendSetup
<1>1. deadline' \in Deadline /\ WithinBudget'
  BY SetupAssumption DEF TypeOK, WithinBudget, EarlierDeadline, DeadlineAfter, Deadline, NoDeadline
<1>2. TypeOK'
  BY <1>1 DEF TypeOK, localVars, worldVars
<1>3. CandidatesDiffer' /\ EstablishedIsUp' /\ SpokenIsBehind' /\ AnsweredIsCurrent'
  BY DEF CandidatesDiffer, EstablishedIsUp, SpokenIsBehind, AnsweredIsCurrent,
         AnsweringPeerIsLast, Active, Talking, Current, localVars, worldVars
<1>4. ConfirmedSize'
  BY DEF ConfirmedSize, NegotiationHolds, localVars
<1> QED BY <1>1, <1>2, <1>3, <1>4

(* The setup reply ends the attempt, either way.                           *)
LEMMA ReplyKeepsSetupInv == ASSUME SetupInv, ReceiveSetup PROVE SetupInv'
<1>1. CASE \E kind \in {"protocol", "plcRejected"} : SetupFails(kind)
  BY <1>1, SetupFailureKeepsSetupInv DEF ReceiveSetup, ErrorKinds
<1>2. CASE \E length \in OfferedLengths : ~AcceptableLength(length) /\ SetupFails("protocol")
  BY <1>2, SetupFailureKeepsSetupInv DEF ReceiveSetup, ErrorKinds
<1>3. ASSUME NEW length \in OfferedLengths,
             AcceptableLength(length), pduLength' = length, pc' = "connected",
             UNCHANGED <<error, now, deadline, candidates, established, confirmation,
                         exponent, worldVars>>
      PROVE  SetupInv'
  <2> USE DEF SetupInv
  <2>1. pc = "reply"
    BY DEF SetupInv, TypeOK, ReceiveSetup
  <2>2. TypeOK' /\ WithinBudget'
    BY <1>3 DEF TypeOK, WithinBudget, worldVars
  <2>3. CandidatesDiffer' /\ EstablishedIsUp' /\ SpokenIsBehind' /\ AnsweredIsCurrent'
    BY <1>3, <2>1 DEF CandidatesDiffer, EstablishedIsUp, SpokenIsBehind, AnsweredIsCurrent,
         AnsweringPeerIsLast, Active, Talking, Current, worldVars
  <2>4. ConfirmedSize'
    BY <1>3, <2>1 DEF ConfirmedSize, NegotiationHolds, AcceptableLength, MinimumPduLength
  <2> QED BY <2>2, <2>3, <2>4
<1> QED BY <1>1, <1>2, <1>3 DEF ReceiveSetup

(* A stage that fails, by itself or because the budget is spent.           *)
LEMMA StageFailureKeepsSetupInv == ASSUME SetupInv, StageFails \/ TimesOut PROVE SetupInv'
<1>1. CASE pc = "resolve" /\ (FailConnect("transport") \/ FailConnect("timeout"))
  BY <1>1, EarlyFailureKeepsSetupInv DEF ErrorKinds
<1>2. ASSUME NEW kind \in {"disconnected", "transport", "timeout"}, UNCHANGED answered,
             pc \in {"candidate", "connect", "request", "confirm"}, AttemptFails(kind)
      PROVE  SetupInv'
  BY <1>2, FailingKeepsSetupInv DEF ErrorKinds
<1>3. ASSUME NEW kind \in {"disconnected", "transport", "timeout"},
             pc \in {"setup", "reply"}, SetupFails(kind)
      PROVE  SetupInv'
  BY <1>3, SetupFailureKeepsSetupInv DEF ErrorKinds
<1> QED BY <1>1, <1>2, <1>3 DEF StageFails, TimesOut, LossKinds

(* A handshake that ends, in time or not, and the clock.                   *)
LEMMA WorldKeepsSetupInv ==
  ASSUME SetupInv, (\E a \in Addresses : TcpCompletes(a)) \/ Tick \/ UNCHANGED vars
  PROVE  SetupInv'
<1> USE DEF SetupInv
<1>1. CASE UNCHANGED vars
  BY <1>1 DEF vars, localVars, worldVars, TypeOK, CandidatesDiffer, EstablishedIsUp,
              SpokenIsBehind, AnsweredIsCurrent, AnsweringPeerIsLast, ConfirmedSize,
              NegotiationHolds, WithinBudget, Active, Talking, Current
<1>2. CASE Tick
  <2>1. now' \in 0 .. MaxTime
    BY <1>2, SetupAssumption DEF Tick, TypeOK
  <2> QED
    BY <1>2, <2>1 DEF Tick, localVars, worldVars, TypeOK, CandidatesDiffer, EstablishedIsUp,
              SpokenIsBehind, AnsweredIsCurrent, AnsweringPeerIsLast, ConfirmedSize,
              NegotiationHolds, WithinBudget, Active, Talking, Current
<1>3. ASSUME NEW a \in Addresses, TcpCompletes(a) PROVE SetupInv'
  <2>1. /\ tcp[a] = "connecting"
        /\ tcp' \in [Addresses -> {"none", "connecting", "up", "refused", "shut"}]
        /\ \A b \in Addresses : b # a => tcp'[b] = tcp[b]
    BY <1>3 DEF TcpCompletes, TypeOK
  <2>2. Current' = Current /\ (pc \in Active => Current \in Addresses)
    BY <1>3, CandidateList DEF TcpCompletes, CandidatesDiffer, TypeOK, Current
  <2>3. TypeOK'
    BY <1>3, <2>1 DEF TcpCompletes, TypeOK, localVars
  <2>4. CandidatesDiffer' /\ EstablishedIsUp' /\ SpokenIsBehind'
    BY <1>3, <2>1, <2>2 DEF TcpCompletes, TypeOK, CandidatesDiffer, EstablishedIsUp,
       SpokenIsBehind, localVars, Active, Talking
  <2>5. AnsweredIsCurrent'
    BY <1>3, <2>2 DEF TcpCompletes, AnsweredIsCurrent, AnsweringPeerIsLast
  <2>6. ConfirmedSize' /\ WithinBudget'
    BY <1>3 DEF TcpCompletes, ConfirmedSize, NegotiationHolds, WithinBudget, localVars
  <2> QED BY <2>3, <2>4, <2>5, <2>6
<1> QED BY <1>1, <1>2, <1>3

-----------------------------------------------------------------------------

(* Every state of an attempt to connect satisfies the invariant.           *)
THEOREM SetupInvariant == Spec => []SetupInv
<1>1. SetupInv /\ [Next]_vars => SetupInv'
  BY BeginKeepsSetupInv, ResolveKeepsSetupInv, OpenKeepsSetupInv, TcpKeepsSetupInv,
     RequestKeepsSetupInv, ConfirmKeepsSetupInv, SetupKeepsSetupInv, ReplyKeepsSetupInv,
     StageFailureKeepsSetupInv, WorldKeepsSetupInv
     DEF Next, Client
<1> QED BY SetupInvInit, <1>1, PTL DEF Spec

(* Whatever stage fails, and however late a handshake ends, the only       *)
(* connection on which the client spoke and that is still up is that of    *)
(* the attempt that goes on or has succeeded.                              *)
THEOREM SpokenConnectionsAreShut == Spec => []NothingLeftOpen
<1>1. SetupInv => NothingLeftOpen
  BY DEF SetupInv, NothingLeftOpen, SpokenIsBehind, Talking
<1> QED BY SetupInvariant, <1>1, PTL

(* A session that is returned has a PDU that fits its TPDU, within what    *)
(* was requested and as the peer confirmed it last.                        *)
THEOREM NegotiatedSizesFit == Spec => []NegotiationHolds
  BY SetupInvariant, PTL DEF SetupInv, ConfirmedSize

(* No address is tried after one that answered.                            *)
THEOREM AnsweringEndsTheSearch == Spec => []AnsweringPeerIsLast
  BY SetupInvariant, PTL DEF SetupInv, AnsweredIsCurrent

(* Candidates, confirmation and setup draw on the budget of one attempt:   *)
(* none of them gives it more time.                                        *)
THEOREM OneBudgetForAll == Spec => OneBudget
<1>1. SetupInv /\ [Next]_vars => [Works => ~Expired(ConnectTimeout, now)]_vars
  <2> SUFFICES ASSUME SetupInv, [Next]_vars, Works
               PROVE  ~Expired(ConnectTimeout, now)
    OBVIOUS
  <2>1. ~Expired(deadline, now)
    BY DEF Works, Next, Client, Begin, Resolve, OpenSocket, TcpReturns, SendRequest,
           ReceiveConfirm, SendSetup, ReceiveSetup, StageFails, TimesOut, TcpCompletes, Tick,
           AttemptFails, SetupFails, FailConnect, vars, localVars, worldVars
  <2> QED BY <2>1, SetupAssumption
          DEF SetupInv, TypeOK, WithinBudget, Expired, Deadline, NoDeadline
<1> QED BY SetupInvariant, <1>1, PTL DEF Spec, OneBudget
=============================================================================
