--------------------------- MODULE MCAsyncWriter ----------------------------
(* Four tasks, batches of two, two lives of the writer and one FlushNow.   *)
EXTENDS AsyncWriter
=============================================================================
