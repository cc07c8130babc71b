----------------------------- MODULE MCAxlClient -----------------------------
(* Four CUCM versions: v14 and v10 have a schema each, v8 one that zeep cannot use *)
(* if the .cfg says so, v13 has none.                                             *)
EXTENDS AxlClient, TLC

CONSTANTS v8, v10, v13, v14, s8, s10, s14

MCSchemaOf == (v8 :> s8) @@ (v10 :> s10) @@ (v14 :> s14) @@ (v13 :> None)

Symmetry == Permutations(Calls)
=============================================================================
