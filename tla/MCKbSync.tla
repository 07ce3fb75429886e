------------------------------ MODULE MCKbSync ------------------------------
(* Small instances of KbSync.                                               *)
EXTENDS KbSyncProps
=============================================================================
