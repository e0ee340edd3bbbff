---------------------------- MODULE MCCampaignSend ----------------------------
(* A campaign with two recipients, in one batch or in two.                  *)
EXTENDS CampaignSend, TLC

CampaignSymmetry == Permutations(Contact) \cup Permutations(Worker)
=============================================================================
