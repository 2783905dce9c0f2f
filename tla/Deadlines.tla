----------------------------- MODULE Deadlines -----------------------------
(***************************************************************************)
(* Absolute deadlines on the monotonic clock, as the transport computes    *)
(* and compares them.  A budget that is absent never expires.              *)
(***************************************************************************)
EXTENDS Integers

NoDeadline == -1

Deadline == Nat \union {NoDeadline}

DeadlineAfter(now, timeout) ==
    IF timeout = NoDeadline THEN NoDeadline ELSE now + timeout

EarlierDeadline(first, second) ==
    CASE first = NoDeadline  -> second
      [] second = NoDeadline -> first
      [] OTHER               -> IF first <= second THEN first ELSE second

Expired(deadline, now) == deadline # NoDeadline /\ now >= deadline
=============================================================================
