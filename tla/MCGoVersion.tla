----------------------------- MODULE MCGoVersion -----------------------------
(* Tool paths of up to 6 segments: the longest in setup.py has 5.          *)
EXTENDS GoVersion

MCMaxSegments == 6

=============================================================================
