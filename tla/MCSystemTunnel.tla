---------------------------- MODULE MCSystemTunnel ----------------------------
(* Small instances of SystemTunnel.  Endpoints, client routes, PIDs and        *)
(* launchers are interchangeable when no endpoint has a host route.            *)
EXTENDS SystemTunnel, TLC

Interchangeable ==
    Permutations(Endpoints) \cup Permutations(AllowedIPs) \cup Permutations(Pids)
        \cup Permutations(Launchers)

\* Behaviours in which no step fails but those of a disconnect.
OnlyDisconnectsFail == \A l \in Launchers : failed[l] \subseteq DisconnectSteps
===============================================================================
