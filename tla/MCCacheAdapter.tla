---------------------------- MODULE MCCacheAdapter ----------------------------
(***************************************************************************)
(* Small instances of CacheAdapter for TLC.                                *)
(***************************************************************************)
EXTENDS CacheAdapterProperties

SecondVersion == {2}
=============================================================================
