-------------------------- MODULE MCNotifications --------------------------
(* A webhook subscription to one application's releases and an unscoped    *)
(* email subscription, over one endpoint.                                  *)
EXTENDS Notifications

CONSTANTS published, app, hook, mail, ep1

MCSubType     == [s \in Subs |-> published]
MCSubApp      == [s \in Subs |-> IF s = hook THEN app ELSE NoApp]
MCSubEndpoint == [s \in Subs |-> IF s = hook THEN ep1 ELSE NoEndpoint]
=============================================================================
