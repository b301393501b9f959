--------------------------- MODULE MCBlobDownload ---------------------------
(* Model checking of BlobDownload: three cells, chunks of two or three cells. *)
EXTENDS BlobDownload
=============================================================================
