----------------------------- MODULE MCRegistry ------------------------------
(* Registry with LaunchRequest on a small instance.  The names, fingerprints
   and ids are only ever compared, so they are symmetric. *)
EXTENDS LaunchRequest, TLC

Symmetry == Permutations(Names) \cup Permutations(Fingerprints)
              \cup Permutations(KeyIds) \cup Permutations(ServiceIds)
              \cup Permutations(ApiWorkers)

(* Of 8 addresses: 4..7, 2..3, and one whose host bits are set. *)
SmallNetworks == {[network |-> 4, size |-> 4], [network |-> 2, size |-> 2],
                  [network |-> 6, size |-> 4]}
=============================================================================
