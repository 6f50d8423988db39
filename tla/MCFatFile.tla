------------------------------ MODULE MCFatFile ------------------------------
(* Files of up to three clusters, for TLC: the clusters of a file lie on the
   disk in any order.  A cluster has two sectors, and a sector of the FAT holds
   two entries.  Entries run to 7, with 6 for 0xFFF8. *)
EXTENDS FatFile

MCClusters == 2 .. 5

MCChains ==
  {f \in UNION {[1 .. n -> MCClusters] : n \in 1 .. 3} :
     \A m, n \in DOMAIN f : f[m] = f[n] => m = n}

=============================================================================
