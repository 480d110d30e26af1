---------------------------- MODULE MCCdnWarmer ----------------------------
(* Small instances of CdnWarmer for TLC. *)
EXTENDS CdnWarmer, TLC

CONSTANTS hero, film      \* entries

OneCanonical == <<hero>>
=============================================================================
