--------------------------- MODULE MCIsolatedSession ---------------------------
(* Small instances of IsolatedSession.  PIDs are interchangeable.              *)
EXTENDS IsolatedSession, TLC

Interchangeable == Permutations(Pids)

\* Steps that can fail by themselves: in a start, two that leave something half
\* done, one before the application, the launch, the record; in its
\* rollback, the root and the namespace; in a stop, one before the kill switch,
\* one in the namespace, the deletion of it, the record.  The others fail when
\* what they need is missing.
SomeBreak ==
    {"create-isolated-runtime-root", "create-netns", "create-veth-pair",
     "configure-namespace-dns", "apply-namespace-client-routes", "launch-app-in-netns",
     "store-isolated-runtime-state", "stop-isolated-app",
     "remove-namespace-client-routes", "delete-netns", "clear-isolated-runtime-state"}
===============================================================================
