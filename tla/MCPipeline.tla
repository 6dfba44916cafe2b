----------------------------- MODULE MCPipeline -----------------------------
(***************************************************************************)
(* Pipeline with a buffer that the text overruns and counters that wrap.   *)
(***************************************************************************)
EXTENDS Pipeline

const_Lines == UNION {[1..n -> Char] : n \in 0..5}
const_PipedOnly == {Piped}

const_Victims == {"left", "right"}
const_Reader == {"right"}

=============================================================================
