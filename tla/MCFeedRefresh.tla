---------------------------- MODULE MCFeedRefresh ----------------------------
(* Two CVEs, of which upstream lists both, or withdraws one.               *)
EXTENDS FeedRefresh, TLC

CONSTANTS one, other, periodic, route, host

Both == one :> "listed" @@ other :> "listed"
MCPublished == [f \in Feeds |-> {Both, other :> "listed"}]
=============================================================================
