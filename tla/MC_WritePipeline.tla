------------------------- MODULE MC_WritePipeline --------------------------
(* Small instance of WritePipeline for TLC: files of at most three bytes, *)
(* writes of one or two bytes, libcurl buffers of one or two bytes (so a  *)
(* two-byte write is sent in one or in two callbacks).                    *)
EXTENDS WritePipeline

CONSTANTS p1, p2

\* one FUSE thread on the handle, or two (a write or ftruncate beside a flush)
MC_OneProducer == {p1}
MC_TwoProducers == {p1, p2}

MC_InitRemote == {NoFile, <<>>, <<OldByte>>}

\* start_write_thread may fail cleanly (curl_easy_init returns NULL).
MC_CleanStartOutcomes == {"ok", "init_fail"}

\* pthread_create may also fail, leaking write_conn.
MC_AllStartOutcomes == {"ok", "init_fail", "create_fail"}
=============================================================================
