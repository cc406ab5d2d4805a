------------------------ MODULE MCConsentRefinement ------------------------
(* The constants of MCConsentFlow, under the refinement mapping. *)
EXTENDS MCConsentFlow, ConsentRefinement
============================================================================
