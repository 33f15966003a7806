--------------------------- MODULE MCRangeCheckpoint ---------------------------
(* Values for RangeCheckpoint: every identity a manifest entry can pin. *)
EXTENDS RangeCheckpoint

Pinned == {id \in [etag : BOOLEAN, crc : BOOLEAN] : id.etag \/ id.crc}
=============================================================================
