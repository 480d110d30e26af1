----------------------------- MODULE MCSiteRepo -----------------------------
(* Instance of SiteRepo for TLC: a run with a spec, one with media and two *)
(* that recreate the repository, over a page of two tags.                  *)
EXTENDS SiteRepo
=============================================================================
