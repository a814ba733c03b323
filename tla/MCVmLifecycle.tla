--------------------------- MODULE MCVmLifecycle ---------------------------
(* VmLifecycle for TLC.  Where all API workers and all Celery workers have the
   same rights (lifecycle_safety), those of a kind are interchangeable. *)
EXTENDS VmLifecycle, TLC

Symmetry == Permutations(CeleryWorkers) \cup Permutations(ApiWorkers)
=============================================================================
