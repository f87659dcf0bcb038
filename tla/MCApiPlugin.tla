----------------------------- MODULE MCApiPlugin -----------------------------
(* Instances of ApiPlugin for TLC. *)
EXTENDS ApiPlugin
Says(m, flag) == [model |-> m, flag |-> flag]
Offer(k, mentions) == [key |-> k, mentions |-> mentions]
MCRoles == {"chat", "stt", "vision", "image"}
MCTags == <<{"chat", "vision"}, {"stt"}, {"image"}>>
\* Two keys, and a key that is offered twice.
MCOffers ==
  {<<Offer(1, <<Says(1, "working")>>), Offer(2, <<Says(1, "denied")>>)>>,
   <<Offer(1, <<Says(1, "working")>>), Offer(1, <<Says(2, "listed")>>)>>}
MCListings == {{1}}
=============================================================================
