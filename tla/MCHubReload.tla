----------------------------- MODULE MCHubReload -----------------------------
(* Instances of HubReload for TLC.                                          *)
EXTENDS HubReload, TLC

CONSTANTS n1, n2, k1, k2

\* Nodes, and the values of (api_url, api_secret_enc), are interchangeable.
Symmetric == Permutations({n1, n2}) \cup Permutations({k1, k2})
==============================================================================
