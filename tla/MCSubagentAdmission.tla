------------------------ MODULE MCSubagentAdmission ------------------------
(* SubagentAdmission with two runs in one session and one in another. *)
EXTENDS SubagentAdmission, TLC

CONSTANTS r1, r2, r3, s1, s2

MCSessionOf == (r1 :> s1) @@ (r2 :> s1) @@ (r3 :> s2)
Interchangeable == Permutations(Call)
=============================================================================
