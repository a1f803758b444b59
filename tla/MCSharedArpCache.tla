-------------------------- MODULE MCSharedArpCache --------------------------
(* Bounded instance of SharedArpCache for TLC.                             *)
EXTENDS SharedArpCache
=============================================================================
