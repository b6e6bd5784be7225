---------------------------- MODULE CicloPrograma ----------------------------
(****************************************************************************)
(* What the cycle of the blocks promises to whoever reads the programs: for *)
(* each code there is no program, one in BORRADOR or one COMPLETO, and for  *)
(* each key under it no project, one in BORRADOR or one COMPLETO.  A closed *)
(* block only leaves by being deleted, and a project is closed only under a *)
(* closed program and goes with it.                                         *)
(****************************************************************************)
CONSTANTS Codigos, Claves

VARIABLES situacion, formativos

Situaciones == {"LIBRE", "BORRADOR", "COMPLETO"}

Init ==
    /\ situacion = [c \in Codigos |-> "LIBRE"]
    /\ formativos = [c \in Codigos |-> [k \in Claves |-> "LIBRE"]]

Importar(c) ==
    /\ situacion[c] = "LIBRE"
    /\ situacion' = [situacion EXCEPT ![c] = "BORRADOR"]
    /\ UNCHANGED formativos

Cerrar(c) ==
    /\ situacion[c] = "BORRADOR"
    /\ situacion' = [situacion EXCEPT ![c] = "COMPLETO"]
    /\ UNCHANGED formativos

Formular(c, k) ==
    /\ situacion[c] # "LIBRE"
    /\ formativos[c][k] = "LIBRE"
    /\ formativos' = [formativos EXCEPT ![c][k] = "BORRADOR"]
    /\ UNCHANGED situacion

CerrarFormativo(c, k) ==
    /\ situacion[c] = "COMPLETO"
    /\ formativos[c][k] = "BORRADOR"
    /\ formativos' = [formativos EXCEPT ![c][k] = "COMPLETO"]
    /\ UNCHANGED situacion

RetirarFormativo(c, k) ==
    /\ formativos[c][k] # "LIBRE"
    /\ formativos' = [formativos EXCEPT ![c][k] = "LIBRE"]
    /\ UNCHANGED situacion

Retirar(c) ==
    /\ situacion[c] # "LIBRE"
    /\ situacion' = [situacion EXCEPT ![c] = "LIBRE"]
    /\ formativos' = [formativos EXCEPT ![c] = [k \in Claves |-> "LIBRE"]]

Next == \E c \in Codigos :
    \/ Importar(c) \/ Cerrar(c) \/ Retirar(c)
    \/ \E k \in Claves : Formular(c, k) \/ CerrarFormativo(c, k) \/ RetirarFormativo(c, k)

Spec == Init /\ [][Next]_<<situacion, formativos>>
=============================================================================
