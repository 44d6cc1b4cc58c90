-------------------------- MODULE MCCampaignAudit --------------------------
(* One packet: pull requests, contents and evidence are model values. *)
EXTENDS CampaignAudit
=============================================================================
