-------------------------- MODULE MCStoreHistory --------------------------
EXTENDS StoreHistory, TLC

CONSTANTS pod, svc, default, apps

MCResources == {pod, svc}
MCNsOf == pod :> default @@ svc :> apps
=============================================================================
