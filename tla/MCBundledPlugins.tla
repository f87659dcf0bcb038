-------------------------- MODULE MCBundledPlugins --------------------------
(* Instances of BundledPlugins for TLC. *)
EXTENDS BundledPlugins
MCChain == [chat |-> <<"pro", "flash", "lite">>, code |-> <<"flash", "lite">>, sum |-> <<"flash", "lite">>]
MCStreamed == {"chat"}
=============================================================================
