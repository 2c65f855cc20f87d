--------------------------- MODULE MCImageProcessor ---------------------------
(* ImageProcessor on small instances.  QueueCap is 1, so that two jobs and  *)
(* a busy worker fill the channel.                                          *)
EXTENDS ImageProcessor, TLC

\* Goroutines and jobs are interchangeable (safety runs only).
Symmetry == Permutations(Callers) \cup Permutations(Workers) \cup Permutations(Jobs)
=============================================================================
