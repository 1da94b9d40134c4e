--------------------------- MODULE MCPushCampaign ---------------------------
(* TLC instances of PushCampaign: rows, and workers of one kind, are       *)
(* interchangeable.                                                        *)
EXTENDS PushCampaignInv, TLC

Symmetry == Permutations(Campaigns) \cup Permutations(Pacers)
            \cup Permutations(Sweepers) \cup Permutations(Desks)
=============================================================================
