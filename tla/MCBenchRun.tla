----------------------------- MODULE MCBenchRun -----------------------------
(* BenchRun with two runners of three points, of which a specification asks *)
(* for two or three; the last point's identity cannot be planned.           *)
EXTENDS BenchRun

CONSTANTS a, b, c

MCSpecs == {<<a, b>>, <<b, c>>}
=============================================================================
