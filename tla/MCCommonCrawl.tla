---------------------------- MODULE MCCommonCrawl ----------------------------
(***************************************************************************)
(* Small instances of CommonCrawl: one source of each kind.                *)
(***************************************************************************)
EXTENDS CommonCrawl, TLC

CONSTANTS phishtank, legacy, crawls
=============================================================================
