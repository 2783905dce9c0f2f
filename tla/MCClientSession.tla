-------------------------- MODULE MCClientSession --------------------------
(***************************************************************************)
(* Instances of ClientSession.  PDU lengths 1 and 2 stand for a shorter    *)
(* and a longer one (a chunk is as long as the PDU it was planned for);    *)
(* references count modulo 8 and start at 6, so that they wrap while       *)
(* requests are outstanding and none is used twice; RawReference 4 is not  *)
(* reached by the counter.                                                 *)
(***************************************************************************)
EXTENDS ClientSession, TLC

CONSTANTS o1, o2, o3

TwoOps   == {o1, o2}
ThreeOps == {o1, o2, o3}

(* The calls are interchangeable; used in the runs without liveness only.  *)
OpSymmetry == Permutations(Ops)
=============================================================================
