---------------------- MODULE MCCloudflareIntegration ----------------------
(***************************************************************************)
(* Small instances of CloudflareIntegration: a zone that is connected,     *)
(* disconnected and connected again.                                       *)
(***************************************************************************)
EXTENDS CloudflareIntegration

CONSTANTS s1, s2, t1, m1
=============================================================================
