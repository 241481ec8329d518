------------------------ MODULE MCPendingDeployment ------------------------
(* Two deployments in flight, completed by one event loop thread. *)
EXTENDS PendingDeployment
=============================================================================
