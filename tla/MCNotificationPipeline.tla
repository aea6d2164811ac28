----------------------- MODULE MCNotificationPipeline -----------------------
(***************************************************************************)
(* Small instances of module NotificationPipeline: one administrator and   *)
(* one resident of one apartment.                                          *)
(***************************************************************************)
EXTENDS NotificationPipeline, TLC

CONSTANTS admin, resident, admins, residents

OneOfEach == admin :> admins @@ resident :> residents
=============================================================================
