----------------------------- MODULE MCDigestRun -----------------------------
(* Small instances of DigestRun: the text phase write-html and the archive *)
(* phase, which has a validator; two processes, two versions of the code.  *)
EXTENDS DigestRun, TLC

CONSTANTS c1, c2, html, archive

MCPhases == <<html, archive>>
Symmetry == Permutations({c1, c2})
=============================================================================
