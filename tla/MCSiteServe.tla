---------------------------- MODULE MCSiteServe ----------------------------
(* A small instance of SiteServe for TLC. *)
EXTENDS SiteServe, TLC

\* What guards a step or is named by a property: the history of the publishes
\* is neither.
ServeView ==
    <<index, versions, subpages, clock, visibility, visit, crawl, moments,
      [r \in Requests |-> <<req[r].phase, req[r].page, req[r].seen, req[r].ts>>]>>
=============================================================================
