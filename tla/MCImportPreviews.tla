-------------------------- MODULE MCImportPreviews --------------------------
(* An instance of ImportPreviews for TLC. *)
EXTENDS ImportPreviews, TLC

CONSTANTS merge, copy

\* A merge writes the runtime bindings of a provider besides the settings; a copy is smaller.
RowsCompared == merge :> {"settings"} @@ copy :> {"settings"}
RowsWritten  == merge :> {"settings", "bindings"} @@ copy :> {"settings"}
Sizes        == merge :> 2 @@ copy :> 1
=============================================================================
