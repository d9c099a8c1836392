---------------------------- MODULE MCEnrichment ----------------------------
(***************************************************************************)
(* Instance of Enrichment, and so of Resolver, for TLC.                    *)
(***************************************************************************)
EXTENDS Enrichment

CONSTANTS web, db
=============================================================================
