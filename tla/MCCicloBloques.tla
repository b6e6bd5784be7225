---------------------------- MODULE MCCicloBloques ----------------------------
(* Small instances of ConfirmacionesSolapadas, and so of CicloBloques: all  *)
(* programs would have the same code and all projects the same key.         *)
EXTENDS ConfirmacionesSolapadas, TLC

CONSTANTS c1, k1, r2

UnCodigo == [p \in Programas |-> c1]
UnaClave == [y \in Proyectos |-> k1]

\* Bound: a second project, or a confirmation that writes late, has the only
\* program there has been, and the second reference stays out of it.
ProgramasUsados == {p \in Programas : programas[p] # "NUNCA"}
ProyectosUsados == {y \in Proyectos : proyectos[y].estado # "NUNCA"}
EnUso(ref) == procesos[ref] # Nada \/ borradorPrograma[ref] # Nada \/ borradorProyecto[ref] # Nada
Acotado ==
    \/ Cardinality(ProyectosUsados) \in {0, 1} /\ \A q \in Peticiones : lecturas[q] = Nada
    \/ Cardinality(ProgramasUsados) \in {0, 1} /\ ~EnUso(r2)

\* "Delete training program and project formativo DB records"
\* (interfaces/http/controllers/proyecto_cargue.py:43): deleting the load of a
\* reference deletes the program its draft names.
CargueEliminaPrograma ==
    [][\A ref \in Refs :
          /\ EliminarCargue(ref)
          /\ borradorPrograma[ref] # Nada
          /\ Existe(borradorPrograma[ref].prog)
          => programas'[borradorPrograma[ref].prog] = "ELIMINADO"]_vars

Simetria == Permutations(Programas) \cup Permutations(Proyectos)
===============================================================================
