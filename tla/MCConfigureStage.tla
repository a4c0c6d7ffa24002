-------------------------- MODULE MCConfigureStage --------------------------
(***************************************************************************)
(* Two branches of the case statement: one that stages several backends    *)
(* one after another, as on x86, and one that stages a single one.         *)
(***************************************************************************)
EXTENDS ConfigureStage, TLC

MCIsas == {"sse2", "avx2", "neon"}

MCArchs == {"x86", "arm"}

MCBranch == "x86" :> <<"sse2", "avx2">> @@ "arm" :> <<"neon">>

=============================================================================
