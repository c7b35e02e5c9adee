--------------------------- MODULE MCReleaseStore ---------------------------
(* Two publishers of different releases, one of them with an extra file, and *)
(* one reader.                                                               *)
EXTENDS ReleaseStore

MCUpload == [p \in Publishers |->
                IF p = "p1" THEN <<"checksums", "data">> ELSE <<"checksums", "data", "extra">>]

=============================================================================
