---------------------------- MODULE MCRestClient ----------------------------
(***************************************************************************)
(* Instances of RestClient for TLC.                                        *)
(***************************************************************************)
EXTENDS RestClient

CONSTANTS watcher, creator

=============================================================================
