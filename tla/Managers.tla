------------------------------- MODULE Managers -------------------------------
(***************************************************************************)
(* What the stores of the storage layer have in common: the                *)
(* StorageManagers that use them. A session is one StorageManager with     *)
(* stores of its own, from initialize() to close().                        *)
(***************************************************************************)
CONSTANTS Sessions, \* StorageManagers
          None      \* nothing there, nothing given
=============================================================================
