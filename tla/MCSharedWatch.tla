--------------------------- MODULE MCSharedWatch ---------------------------
(***************************************************************************)
(* Small instances of SharedWatch for TLC.                                 *)
(***************************************************************************)
EXTENDS SharedWatchProperties

NoClients == {}
FirstClient == {1}
SecondClientOut == {2} \X Objects
=============================================================================
