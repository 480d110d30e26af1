--------------------------- MODULE MCSitePublish ---------------------------
(* A small instance of SitePublish for TLC. *)
EXTENDS SitePublish, TLC

\* Publishers of one kind, and pages, are interchangeable.
PublishSymmetry ==
    Permutations(HostRequests) \cup Permutations(McpCalls) \cup Permutations(Pages)
=============================================================================
