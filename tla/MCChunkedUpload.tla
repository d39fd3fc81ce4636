--------------------------- MODULE MCChunkedUpload ---------------------------
(***************************************************************************)
(* Values for the runs of ChunkedUpload.  Chunk 0 is full, the last chunk  *)
(* of a file is shorter.                                                   *)
(***************************************************************************)
EXTENDS ChunkedUpload

MCLength == [c \in Chunks |-> IF c = NumChunks - 1 THEN 1 ELSE 2]
MCErrors == {"timeout", "pool", "reconnect", "fatal"}
MCTransient == {"timeout", "pool", "reconnect"}
===============================================================================
