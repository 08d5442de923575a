---------------------------- MODULE MCPhotoVisits ----------------------------
(* PhotoVisits small enough for TLC. *)
EXTENDS MCPhotoLibrary, PhotoVisits

\* Three requests, or two and a fault; whoever is reading counts as one of them.
ThreeEventsOrReaders ==
  faults + Cardinality({r \in Request : at[r] # "start"})
         + (IF read = NothingRead THEN 0 ELSE 1) <= 3
=============================================================================
