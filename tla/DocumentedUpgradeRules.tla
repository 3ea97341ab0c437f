----------------------- MODULE DocumentedUpgradeRules -----------------------
(* What the documents say of migrations and the files do not keep.          *)
EXTENDS Migrations

(* docs/db-schemas-and-migration.md:171: a trial copies the production      *)
(* database to a scratch database first.  A copy that is there is not       *)
(* renewed, and the hook of v6--v7 writes its journals to the files of the  *)
(* server: a late trial puts old journals over those edited since.          *)
EditsOutliveTrials ==
  [][\A k \in JournalKeys :
       journals[k] = "edited" => journals'[k] = "edited"]_upgradeVars
=============================================================================
