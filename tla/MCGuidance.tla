----------------------------- MODULE MCGuidance -----------------------------
(* Instances of Guidance: what the Skill's directory may hold are model    *)
(* values.                                                                 *)
EXTENDS Guidance
CONSTANTS plain, namesake
=============================================================================
