---------------------------- MODULE MCSiteInbox ----------------------------
(* Instance of SiteInbox for TLC: two customers and the apex, one domain   *)
(* that changes hands, three leads against a listing of two and an answer  *)
(* of one, so that an inbox may hold less, as much and more than each.     *)
EXTENDS SiteInbox, TLC

CONSTANTS a, b, apex, none, d1, p1, p2, p3, g1, nolead

MCSlugs == {a, b}
MCDomains == {d1}
MCPosts == {p1, p2, p3}
MCInboxes == {g1}
MCVisits == {g1}

Symmetry == Permutations(MCSlugs) \cup Permutations(MCPosts)
=============================================================================
