----------------------------- MODULE MCService -----------------------------
(***************************************************************************)
(* Addresses for Service: a host with and without the id of its peer, and  *)
(* an address to listen on under two names.                                *)
(***************************************************************************)
EXTENDS Service

CONSTANTS k1, k2, h1, h2

MCDialAddresses == {[host |-> h1, peer |-> k1], [host |-> h1, peer |-> Anonymous]}

\* A name for an address, and the address.
MCBinds == [name |-> {"addr"}, addr |-> {"addr"}]
=============================================================================
