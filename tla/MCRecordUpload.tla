--------------------------- MODULE MCRecordUpload ---------------------------
(* Two bins of kitchen waste and one other. *)
EXTENDS RecordUpload
KitchenBins == {1, 2}
OtherBins   == {3}
=============================================================================
