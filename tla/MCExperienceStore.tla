------------------------- MODULE MCExperienceStore -------------------------
(* Model-checking instances of ExperienceStore: writers are interchangeable. *)
EXTENDS ExperienceStoreImpl, TLC

Symmetry == Permutations(Writers)
=============================================================================
