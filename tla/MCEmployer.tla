----------------------------- MODULE MCEmployer -----------------------------
(* Instances of Employer: two employees, a table with room for both.        *)
EXTENDS Employer, TLC

CONSTANTS a, b

MCIps == {a, b}
MCSymmetry == Permutations(MCIps)
=============================================================================
