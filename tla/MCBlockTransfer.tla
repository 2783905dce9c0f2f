-------------------------- MODULE MCBlockTransfer --------------------------
(***************************************************************************)
(* Every mode of the integration peers, blocks of one to four fragments,   *)
(* two PDU lengths and one replay of the start.  The two budgets differ,   *)
(* so that either may be the earlier one.                                  *)
(***************************************************************************)
EXTENDS BlockTransfer
=============================================================================
