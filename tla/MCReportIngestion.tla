-------------------------- MODULE MCReportIngestion -------------------------
(***************************************************************************)
(* Two reports of one content, by either address, which may also turn out  *)
(* to be ordinary mail (one of them of a domain that is not connected),    *)
(* and a delivery to the platform's own gateway.                           *)
(***************************************************************************)
EXTENDS ReportIngestion, MCMailGateway
=============================================================================
