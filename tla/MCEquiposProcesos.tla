-------------------------- MODULE MCEquiposProcesos --------------------------
(* A small instance of EquiposProcesos. *)
EXTENDS EquiposProcesos, TLC

CONSTANTS c1, c2, e1, e2, u1, u2, u3

Padre == (e1 :> c1) @@ (e2 :> c2)

\* The first user comes and goes, as a leader or as an administrator, whose
\* specialty may be of another coordination; the second is a leader and the
\* third a helper of a coordination whose users join any team, who was an
\* administrator without a specialty.
Suyo == [coord |-> c1, esp |-> e1]
Cruzado == [coord |-> c1, esp |-> e2]
Seccional == [coord |-> c2, esp |-> Nada]
LosPerfiles == (u1 :> {"LIDER", "DIRECTIVO"}) @@ (u2 :> {"LIDER"}) @@ (u3 :> {"ADICIONAL"})
LosAlcances == (u1 :> {Suyo, Cruzado}) @@ (u2 :> {Suyo}) @@ (u3 :> {Seccional})
LaSemilla ==
    (u1 :> Nada)
    @@ (u2 :> [perfil |-> "LIDER", activo |-> TRUE, ambito |-> Suyo])
    @@ (u3 :> [perfil |-> "ADICIONAL", activo |-> TRUE, ambito |-> Seccional])

Simetria == Permutations(Equipos)
===============================================================================
