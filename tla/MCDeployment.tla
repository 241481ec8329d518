---------------------------- MODULE MCDeployment ----------------------------
(* Two artifacts and three calls of deploy_artifact: a retry of one artifact *)
(* beside the deployment of another, or two retries.                         *)
EXTENDS Deployment
=============================================================================
