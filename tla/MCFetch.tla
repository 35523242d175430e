-------------------------------- MODULE MCFetch --------------------------------
(***************************************************************************)
(* A small instance of Fetch: two sources with different policies, one of   *)
(* them asked twice, a URL of an allowed host and one of a refused port.    *)
(***************************************************************************)
EXTENDS Fetch, TLC

CONSTANTS a, b

MCSources == {a, b}
MCPaired == {b}
MCRules == {[scheme |-> "any", host |-> "feed", port |-> 0],
            [scheme |-> "https", host |-> "mirror", port |-> 0]}
MCUrls == {[scheme |-> "https", host |-> "feed", port |-> 0],
           [scheme |-> "https", host |-> "mirror", port |-> 8443]}
MCInterval == a :> 2 @@ b :> 1
MCBurst == a :> 1 @@ b :> 2
===============================================================================
