---------------------------- MODULE MCCampaigns ----------------------------
(* Every conversation of the campaigns, with two calls that wait behind    *)
(* the first one and three concurrent writers of one byte.                 *)
EXTENDS ServiceCampaigns

AllConversations ==
    RetryBudgetCases \union RetryProgressCases \union {ReconnectConversation(c) : c \in ReconnectCases}
      \union ConcurrencyCases(2) \union QueuedLifecycleCases \union QueuedBatchCases
      \union LiveCorrelationCases \union MultiBatchingCases \union MultiSemanticsCases
      \union WriteProvenanceCases \union BoundaryCases \union MixedCases \union OverlapCases
      \union CompoundCases(3) \union ServiceCases
=============================================================================
