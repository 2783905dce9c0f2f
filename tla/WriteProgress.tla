--------------------------- MODULE WriteProgress ---------------------------
(***************************************************************************)
(* The record a write operation keeps of every request it put on the wire: *)
(* the attempts whose outcome is known, in order, and the one attempt that *)
(* awaits its reply.  A write that fails returns a snapshot of it.         *)
(***************************************************************************)
EXTENDS Sequences, Integers, SequencesExt

NoProgress == [history |-> <<>>, pending |-> <<>>]

(* Attempts are kept oldest first; the code conses them and reverses.      *)
Settled(progress, outcomes) ==
    [history |-> progress.history \o
                   [i \in DOMAIN progress.pending |->
                      [location |-> progress.pending[i], outcome |-> outcomes[i]]],
     pending |-> <<>>]

Finish(progress, outcome) ==
    Settled(progress, [i \in DOMAIN progress.pending |-> outcome])

(* An attempt may only begin when no other one is outstanding, and an      *)
(* acknowledgement has to match it; the code throws otherwise.             *)
MaySend(progress, locations) == progress.pending = <<>> /\ locations # <<>>

Sent(progress, locations) == [progress EXCEPT !.pending = locations]

ReplayForgets(progress) == [progress EXCEPT !.pending = <<>>]   \* faulty
Replay(progress) == Finish(progress, "replayedUnknown")

GlobalReject(progress) == Finish(progress, "globalRejected")

MayAcknowledge(progress, results) == Len(results) = Len(progress.pending)

Acknowledge(progress, results) == Settled(progress, results)

(* Item results: the PLC accepted the item, or refused it with a code.     *)
ItemResults == {"success", "itemRejected"}

Success == 255
ItemOutcome(code) == IF code = Success THEN "success" ELSE "itemRejected"

Trace(progress) == Finish(progress, "pending").history

(* The attempts with one of the outcomes, in order.                        *)
Selected(trace, outcomes) ==
    FlattenSeq([i \in DOMAIN trace |->
                  IF trace[i].outcome \in outcomes THEN <<trace[i]>> ELSE <<>>])

(* The lists of the snapshot are the attempts sorted by their outcome.     *)
Snapshot(progress) ==
    LET With(outcomes) == Selected(Trace(progress), outcomes)
    IN  [attempts          |-> Trace(progress),
         acknowledged      |-> With(ItemResults),
         rejected          |-> With({"globalRejected"}),
         replayedUncertain |-> With({"replayedUnknown"}),
         uncertain         |-> With({"pending"})]
=============================================================================
