--------------------------- MODULE MCHttpPipeline ---------------------------
(* Small instances of HttpPipeline: a client with three requests.           *)
EXTENDS HttpPipeline
=============================================================================
