---------------------------- MODULE MCProxyClient ----------------------------
(* The instances of the proxy client that TLC explores. *)
EXTENDS ProxyClient

CONSTANTS trustedvm, oemvm, a

(* Both VMs are stopped, or one of them by its name. *)
AllOrOne == {AllVms, [all |-> FALSE, names |-> {trustedvm}]}
=============================================================================
