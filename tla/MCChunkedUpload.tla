------------------------- MODULE MCChunkedUpload -------------------------
EXTENDS ChunkedUpload

CONSTANTS a1, a2, d, up, r1, r2

\* One upload that may be completed twice, and a direct upload of the same
\* content.
MCFiles == {a1, a2, d}
MCUploads == {up}
MCUploadOf == [f \in MCFiles |-> IF f = d THEN None ELSE up]
MCContent == [f \in MCFiles |-> "x"]
TwoRequests == {r1, r2}
=============================================================================
