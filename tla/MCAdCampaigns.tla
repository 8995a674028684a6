---------------------------- MODULE MCAdCampaigns ----------------------------
(* Instances of AdCampaigns for TLC.                                        *)
EXTENDS AdCampaigns, TLC

Symmetry ==
  Permutations(Requests) \cup Permutations(Campaigns) \cup Permutations(Providers)
=============================================================================
