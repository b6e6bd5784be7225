--------------------------- MODULE EquiposProcesos ---------------------------
(****************************************************************************)
(* Who works on what: coordinations and specialties, users, executor teams  *)
(* with a leader and members, and the curricular processes of the teams,    *)
(* with the requests that start, anchor, heal, import, assign and delete    *)
(* them.                                                                    *)
(*                                                                          *)
(* One action is one handler that committed; a handler that rejects leaves  *)
(* everything as it was and has no action.  The administrators that run the *)
(* administrative handlers are not among Usuarios, which may have others.   *)
(* A program is its code (CicloBloques!CodigoUnico); the draft of a         *)
(* reference is the one of block PROGRAMA.                                  *)
(*                                                                          *)
(* Operators named ...Defecto... are slips of the definition that follows   *)
(* them and break the property their comment names; no action uses them.    *)
(****************************************************************************)
EXTENDS FiniteSets

CONSTANTS
    Coordinaciones,
    Especialidades,
    coordDe,         \* the coordination a specialty is created under
    Transversales,   \* coordinations whose users may join any team
    Usuarios,
    Perfiles,        \* bound: the profiles each user may have
    Alcances,        \* bound: the scopes each user may have
    Equipos,         \* ids of teams, never used again
    Refs,            \* references of processes and drafts
    Codigos,         \* codes of programs
    Fijas,           \* bound: coordinations and specialties nobody touches
    Semilla,         \* the users at the start, seeded or created before
    Movibles,        \* bound: users that are created, suspended or deleted
    Nada,            \* NULL, no row
    Retirado         \* a team that was deleted

Filas == Coordinaciones \cup Especialidades
\* The scope of a user, a team or a process.
Ambito == [coord: Coordinaciones \cup {Nada}, esp: Especialidades \cup {Nada}]
\* DIRECTIVO is SUPERADMIN or ADMIN, LIDER and ADICIONAL the operational roles.
Perfil == {"DIRECTIVO", "LIDER", "ADICIONAL"}

ASSUME ConstantesAssumption ==
    /\ coordDe \in [Especialidades -> Coordinaciones]
    /\ Coordinaciones \cap Especialidades = {}
    /\ Transversales \subseteq Coordinaciones
    /\ Perfiles \in [Usuarios -> SUBSET Perfil]
    /\ Alcances \in [Usuarios -> SUBSET Ambito]
    /\ Fijas \subseteq Filas
    /\ Movibles \subseteq Usuarios
    /\ \A e \in Especialidades : e \in Fijas => coordDe[e] \in Fijas
    /\ Nada \notin Filas \cup Usuarios \cup Equipos \cup Refs \cup Codigos
    /\ Retirado # Nada

Usuario == [perfil: Perfil, activo: BOOLEAN, ambito: Ambito]

ASSUME SemillaAssumption ==
    /\ Semilla \in [Usuarios -> Usuario \cup {Nada}]
    /\ \A u \in Usuarios : Semilla[u] # Nada =>
         LET a == Semilla[u].ambito IN {a.coord, a.esp} \subseteq Fijas \cup {Nada}

VARIABLES
    organizacion,   \* coordinaciones and especialidades
    usuarios,       \* usuarios with their roles and scope
    equipos,        \* equipos_ejecutores; one authorised program at most (bound)
    miembros,       \* equipos_ejecutores_miembros
    procesos,       \* reference -> procesos_curriculares
    borradores,     \* reference -> team and code in the meta of its draft
    cargados        \* codes whose program is loaded

vars == <<organizacion, usuarios, equipos, miembros, procesos, borradores, cargados>>

Equipo == [ambito: Ambito, lider: Usuarios, activo: BOOLEAN, codigo: Codigos \cup {Nada}]
Proceso == [ambito: Ambito, equipo: Equipos \cup {Nada}, lider: Usuarios \cup {Nada},
            asignado: BOOLEAN, prog: Codigos \cup {Nada}]
Borrador == [equipo: Equipos \cup {Nada}, codigo: Codigos \cup {Nada}]

\* NULL and a deleted team are no rows.
ASSUME FilasAssumption == {Nada, Retirado} \cap Equipo = {} /\ Nada \notin Usuario

TypeOK ==
    /\ organizacion \in [Filas -> {"NO", "ACTIVA", "INACTIVA"}]
    /\ usuarios \in [Usuarios -> Usuario \cup {Nada}]
    /\ equipos \in [Equipos -> Equipo \cup {Nada, Retirado}]
    /\ miembros \in [Equipos -> [Usuarios -> {"NO", "ACTIVO", "INACTIVO"}]]
    /\ procesos \in [Refs -> Proceso \cup {Nada}]
    /\ borradores \in [Refs -> Borrador \cup {Nada}]
    /\ cargados \subseteq Codigos

SinAmbito == [coord |-> Nada, esp |-> Nada]
HayEquipo(t) == t # Nada /\ equipos[t] \notin {Nada, Retirado}
HayUsuario(u) == u # Nada /\ usuarios[u] # Nada
HayFila(x) == organizacion[x] # "NO"

\* The foreign keys of a scope.
AmbitoVivo(a) == \A x \in {a.coord, a.esp} \ {Nada} : HayFila(x)
\* The specialty belongs to the coordination.
Propia(a) == a.coord # Nada /\ a.esp # Nada => coordDe[a.esp] = a.coord
EspActiva(a) == a.esp # Nada /\ organizacion[a.esp] = "ACTIVA"
CoordActiva(a) == a.coord # Nada /\ organizacion[a.coord] = "ACTIVA"

ProcesosDe(t) == {r \in Refs : procesos[r] # Nada /\ procesos[r].equipo = t}

----------------------------------------------------------------------------
(* Coordinations and specialties.                                           *)

EspecialidadesDe(x) == {e \in Especialidades : coordDe[e] = x /\ HayFila(e)}
UsuariosDeDefecto(x) == \* (breaks ReferenciasVivas)
    {u \in Usuarios : HayUsuario(u) /\ usuarios[u].activo /\
                      x \in {usuarios[u].ambito.coord, usuarios[u].ambito.esp}}
UsuariosDe(x) ==
    {u \in Usuarios : HayUsuario(u) /\ x \in {usuarios[u].ambito.coord, usuarios[u].ambito.esp}}
EquiposDe(x) ==
    {t \in Equipos : HayEquipo(t) /\ x \in {equipos[t].ambito.coord, equipos[t].ambito.esp}}

CrearFila(x) ==
    /\ ~HayFila(x)
    /\ x \in Especialidades => organizacion[coordDe[x]] = "ACTIVA"
    /\ organizacion' = [organizacion EXCEPT ![x] = "ACTIVA"]
    /\ UNCHANGED <<usuarios, equipos, miembros, procesos, borradores, cargados>>

DesactivarFila(x) ==
    /\ organizacion[x] = "ACTIVA"
    /\ \A e \in EspecialidadesDe(x) : organizacion[e] # "ACTIVA"
    /\ \A t \in EquiposDe(x) : ~equipos[t].activo
    /\ \A u \in UsuariosDe(x) : ~usuarios[u].activo
    /\ organizacion' = [organizacion EXCEPT ![x] = "INACTIVA"]
    /\ UNCHANGED <<usuarios, equipos, miembros, procesos, borradores, cargados>>

\* A specialty comes back whatever the state of its coordination.
ReactivarFila(x) ==
    /\ organizacion[x] = "INACTIVA"
    /\ organizacion' = [organizacion EXCEPT ![x] = "ACTIVA"]
    /\ UNCHANGED <<usuarios, equipos, miembros, procesos, borradores, cargados>>

\* ON DELETE SET NULL.
SinFila(a, x) == [coord |-> IF a.coord = x THEN Nada ELSE a.coord,
                  esp |-> IF a.esp = x THEN Nada ELSE a.esp]

EliminarFila(x) ==
    /\ HayFila(x)
    /\ EspecialidadesDe(x) = {} /\ EquiposDe(x) = {} /\ UsuariosDe(x) = {}
    /\ organizacion' = [organizacion EXCEPT ![x] = "NO"]
    /\ procesos' = [r \in Refs |-> IF procesos[r] = Nada THEN Nada
                       ELSE [procesos[r] EXCEPT !.ambito = SinFila(@, x)]]
    /\ UNCHANGED <<usuarios, equipos, miembros, borradores, cargados>>

----------------------------------------------------------------------------
(* Users.                                                                   *)

CrearUsuario(u) ==
    /\ usuarios[u] = Nada
    /\ \E p \in Perfiles[u], a \in Alcances[u] :
         /\ p # "DIRECTIVO" => CoordActiva(a) /\ EspActiva(a) /\ Propia(a)
         /\ AmbitoVivo(a)
         /\ usuarios' = [usuarios EXCEPT ![u] = [perfil |-> p, activo |-> TRUE, ambito |-> a]]
    /\ UNCHANGED <<organizacion, equipos, miembros, procesos, borradores, cargados>>

\* The active teams u leads, and the teams u is an active member of.
Liderados(u) == {t \in Equipos : HayEquipo(t) /\ equipos[t].activo /\ equipos[t].lider = u}
Miembro(u, t) == miembros[t][u] = "ACTIVO"

\* What the service checks of a new scope; a field left NULL in the request
\* keeps its value.  The role is not looked at.
AlcanceAdmitido(u, a) ==
    /\ a.coord = Nada => usuarios[u].ambito.coord = Nada
    /\ a.esp = Nada => usuarios[u].ambito.esp = Nada
    /\ a.coord # Nada /\ a.esp # Nada => EspActiva(a) /\ Propia(a)
    /\ \A t \in Liderados(u) : equipos[t].ambito = a
    /\ a.coord \in Transversales \/ \A t \in Equipos : Miembro(u, t) => equipos[t].ambito = a

ActualizarUsuario(u) ==
    /\ HayUsuario(u)
    /\ \E p \in Perfiles[u], a \in Alcances[u] :
         /\ a # usuarios[u].ambito => AlcanceAdmitido(u, a) /\ AmbitoVivo(a)
         /\ <<p, a>> # <<usuarios[u].perfil, usuarios[u].ambito>>
         /\ usuarios' = [usuarios EXCEPT ![u].perfil = p, ![u].ambito = a]
    /\ UNCHANGED <<organizacion, equipos, miembros, procesos, borradores, cargados>>

CambiarEstado(u) ==
    /\ HayUsuario(u)
    /\ usuarios' = [usuarios EXCEPT ![u].activo = ~@]
    /\ UNCHANGED <<organizacion, equipos, miembros, procesos, borradores, cargados>>

\* ON DELETE CASCADE.
SinMiembroDefecto(u) == [t \in Equipos |-> [miembros[t] EXCEPT ![u] = Nada]] \* (breaks TypeOK)
SinMiembro(u) == [t \in Equipos |-> [miembros[t] EXCEPT ![u] = "NO"]]

\* Memberships go with the user; deliveries and observations of the review
\* would reject it too.
EliminarUsuario(u) ==
    /\ HayUsuario(u)
    /\ \A t \in Equipos : HayEquipo(t) => equipos[t].lider # u
    /\ usuarios' = [usuarios EXCEPT ![u] = Nada]
    /\ miembros' = SinMiembro(u)
    /\ procesos' = [r \in Refs |-> IF procesos[r] # Nada /\ procesos[r].lider = u
                       THEN [procesos[r] EXCEPT !.lider = Nada] ELSE procesos[r]]
    /\ UNCHANGED <<organizacion, equipos, borradores, cargados>>

----------------------------------------------------------------------------
(* The process a team has for a program.                                    *)

\* Of team t, whose row is e: what the process inherits.
Heredado(t, e, k) == [ambito |-> e.ambito, equipo |-> t, lider |-> e.lider,
                      asignado |-> TRUE, prog |-> k]

\* _ensure_process_for_team_program on the processes prs: takes one of the
\* team that already leads to code k, else one without a program (the others
\* of those go, with their drafts), else makes one under a new reference.
Asegurados(t, e, k, prs) ==
    LET pid == IF k \in cargados THEN k ELSE Nada
        candidatos == {r \in Refs : prs[r] # Nada /\ prs[r].equipo = t}
        sueltos == {r \in candidatos : prs[r].prog = Nada}
        propios == {r \in candidatos : k # Nada /\
                       (prs[r].prog = k \/ (borradores[r] # Nada /\ borradores[r].codigo = k))}
        elegidos == IF propios # {} THEN propios ELSE sueltos
        nuevos == {r \in Refs : prs[r] = Nada /\ borradores[r] = Nada}
    IN IF elegidos # {}
       THEN {[procesos |-> [q \in Refs |->
                  IF q \in sueltos \ {r} THEN Nada
                  ELSE IF q = r /\ pid # Nada THEN [prs[q] EXCEPT !.prog = pid] ELSE prs[q]],
              borradores |-> [q \in Refs |->
                  IF q \in sueltos \ {r} THEN Nada ELSE borradores[q]]] : r \in elegidos}
       ELSE {[procesos |-> [prs EXCEPT ![r] = Heredado(t, e, pid)],
              borradores |-> [borradores EXCEPT ![r] = [equipo |-> t, codigo |-> k]]]
                : r \in nuevos}

\* procesos and borradores afterwards, when there is a program to ensure.
Asegurar(t, e, hace, k, prs) ==
    \E x \in IF hace THEN Asegurados(t, e, k, prs)
             ELSE {[procesos |-> prs, borradores |-> borradores]} :
        procesos' = x.procesos /\ borradores' = x.borradores

----------------------------------------------------------------------------
(* Executor teams.                                                          *)

PuedeLiderarDefecto(u, a) == \* (breaks EspecialidadDelEquipo)
    HayUsuario(u) /\ usuarios[u].activo /\ usuarios[u].perfil = "LIDER"
PuedeLiderar(u, a) ==
    /\ HayUsuario(u)
    /\ usuarios[u].activo /\ usuarios[u].perfil = "LIDER"
    /\ usuarios[u].ambito = a

CrearEquipo(t) ==
    /\ equipos[t] = Nada
    /\ \E u \in Usuarios, a \in UNION {Alcances[v] : v \in Usuarios}, k \in Codigos \cup {Nada} :
         /\ a.coord # Nada
         /\ PuedeLiderar(u, a)
         /\ EspActiva(a) /\ Propia(a)
         /\ LET e == [ambito |-> a, lider |-> u, activo |-> TRUE, codigo |-> k] IN
              /\ equipos' = [equipos EXCEPT ![t] = e]
              /\ Asegurar(t, e, TRUE, k, procesos)
    /\ UNCHANGED <<organizacion, usuarios, miembros, cargados>>

\* The scope may change to the one of the leader, not of the new leader.
AmbitoNuevo(t) == IF ProcesosDe(t) = {} THEN {usuarios[equipos[t].lider].ambito} ELSE {}

ConLider(t, u) == [r \in Refs |-> IF r \in ProcesosDe(t)
                      THEN [procesos[r] EXCEPT !.lider = u] ELSE procesos[r]]

\* The programs may be left as they are; the answer then heals a team that has
\* a program and no process.
ActualizarEquipo(t) ==
    /\ HayEquipo(t)
    /\ \E a \in AmbitoNuevo(t) \cup {equipos[t].ambito}, u \in Usuarios, activo \in BOOLEAN,
          cambia \in BOOLEAN, k \in Codigos \cup {Nada} :
         /\ a.coord # Nada /\ a.esp # Nada
         /\ u # equipos[t].lider => PuedeLiderar(u, a)
         /\ ~cambia => k = equipos[t].codigo
         /\ LET e == [ambito |-> a, lider |-> u, activo |-> activo, codigo |-> k]
                prs == IF u # equipos[t].lider THEN ConLider(t, u) ELSE procesos
            IN /\ equipos' = [equipos EXCEPT ![t] = e]
               /\ Asegurar(t, e, k # Nada /\ (cambia \/ ProcesosDe(t) = {}), k, prs)
    /\ UNCHANGED <<organizacion, usuarios, miembros, cargados>>

\* Reading a team heals it in the same way.
SanarEquipo(t) ==
    /\ HayEquipo(t)
    /\ equipos[t].codigo # Nada /\ ProcesosDe(t) = {}
    /\ Asegurar(t, equipos[t], TRUE, equipos[t].codigo, procesos)
    /\ UNCHANGED <<organizacion, usuarios, equipos, miembros, cargados>>

DesligadoDefecto(p) == [p EXCEPT !.equipo = Nada, !.asignado = FALSE] \* (breaks AccesoDelEquipo)
Desligado(p) == [p EXCEPT !.equipo = Nada, !.lider = Nada, !.asignado = FALSE]

\* With its processes only when the request asks to unassign them.
EliminarEquipo(t) ==
    /\ HayEquipo(t)
    /\ equipos' = [equipos EXCEPT ![t] = Retirado]
    /\ miembros' = [miembros EXCEPT ![t] = [u \in Usuarios |-> "NO"]]
    /\ procesos' = [r \in Refs |-> IF r \in ProcesosDe(t) THEN Desligado(procesos[r])
                                   ELSE procesos[r]]
    /\ UNCHANGED <<organizacion, usuarios, borradores, cargados>>

\* A member that was there is reactivated.
AgregarMiembro(t, u) ==
    /\ HayEquipo(t) /\ HayUsuario(u)
    /\ usuarios[u].activo /\ usuarios[u].perfil = "ADICIONAL"
    /\ usuarios[u].ambito.coord \notin Transversales => usuarios[u].ambito = equipos[t].ambito
    /\ miembros' = [miembros EXCEPT ![t][u] = "ACTIVO"]
    /\ UNCHANGED <<organizacion, usuarios, equipos, procesos, borradores, cargados>>

\* Nothing is checked.
CambiarMembresia(t, u) ==
    /\ miembros[t][u] # "NO"
    /\ \E estado \in {"ACTIVO", "INACTIVO"} \ {miembros[t][u]} :
         miembros' = [miembros EXCEPT ![t][u] = estado]
    /\ UNCHANGED <<organizacion, usuarios, equipos, procesos, borradores, cargados>>

\* Neither adding nor removing an authorised program touches the processes.
Autorizar(t) ==
    /\ HayEquipo(t)
    /\ equipos[t].codigo = Nada
    /\ \E k \in Codigos : equipos' = [equipos EXCEPT ![t].codigo = k]
    /\ UNCHANGED <<organizacion, usuarios, miembros, procesos, borradores, cargados>>

Desautorizar(t) ==
    /\ HayEquipo(t)
    /\ equipos[t].codigo # Nada
    /\ equipos' = [equipos EXCEPT ![t].codigo = Nada]
    /\ UNCHANGED <<organizacion, usuarios, miembros, procesos, borradores, cargados>>

----------------------------------------------------------------------------
(* Processes, by the administrators.                                        *)

AsignarProceso(r, t) ==
    /\ HayEquipo(t) /\ equipos[t].activo
    /\ LET k == IF procesos[r] = Nada THEN Nada ELSE procesos[r].prog IN
         procesos' = [procesos EXCEPT ![r] = Heredado(t, equipos[t], k)]
    /\ borradores' = [borradores EXCEPT ![r] =
           IF @ = Nada THEN [equipo |-> t, codigo |-> Nada] ELSE @]
    /\ UNCHANGED <<organizacion, usuarios, equipos, miembros, cargados>>

DesasignarProceso(r) ==
    /\ procesos[r] # Nada
    /\ procesos' = [procesos EXCEPT ![r] = Desligado(@)]
    /\ UNCHANGED <<organizacion, usuarios, equipos, miembros, borradores, cargados>>

BorrarProceso(r) ==
    /\ procesos[r] # Nada
    /\ procesos' = [procesos EXCEPT ![r] = Nada]
    /\ borradores' = [borradores EXCEPT ![r] = Nada]
    /\ UNCHANGED <<organizacion, usuarios, equipos, miembros, cargados>>

----------------------------------------------------------------------------
(* Access.                                                                  *)

EnEquipo(u, t) == equipos[t].lider = u \/ Miembro(u, t)

\* can_access_process on the row p, and require_process_access, which lets
\* the administrators in.
PuedeAcceder(u, p) ==
    /\ p.asignado
    /\ p.equipo # Nada => equipos[p.equipo].activo
    /\ p.lider = u \/ (p.equipo # Nada /\ EnEquipo(u, p.equipo))
Directivo(u) == usuarios[u].perfil = "DIRECTIVO"
Pasa(u, p) == Directivo(u) \/ PuedeAcceder(u, p)

\* get_allowed_referencias, for who is not an administrator.
PermitidasDefecto(u) == \* (breaks ListadoFiel)
    {r \in Refs : procesos[r] # Nada /\
        LET p == procesos[r] IN
        p.asignado /\ HayEquipo(p.equipo) /\ (p.lider = u \/ EnEquipo(u, p.equipo))}
Permitidas(u) ==
    {r \in Refs : procesos[r] # Nada /\
        LET p == procesos[r] IN
        p.asignado /\ HayEquipo(p.equipo) /\ equipos[p.equipo].activo /\
        (p.lider = u \/ EnEquipo(u, p.equipo))}

Sesion(u) == HayUsuario(u) /\ usuarios[u].activo

\* The teams a request of u falls back to when none is named.
EquiposPropios(u) ==
    LET membresias == {t \in Equipos : HayEquipo(t) /\ equipos[t].activo /\ Miembro(u, t)}
    IN IF Liderados(u) # {} THEN Liderados(u) ELSE membresias
Cualquiera(u) == {t \in Equipos : Directivo(u) /\ HayEquipo(t) /\ equipos[t].activo}

\* The team of a process that is healed from its draft: the one the draft
\* names while it is active; otherwise one of u, and more than one membership
\* raises.
EquipoSanador(u, r) ==
    LET m == borradores[r].equipo
        propios == EquiposPropios(u)
    IN IF HayEquipo(m) /\ equipos[m].activo THEN {m}
       ELSE IF propios # {}
       THEN {t \in propios : Liderados(u) # {} \/ Cardinality(propios) = 1}
       ELSE IF Cualquiera(u) # {} THEN Cualquiera(u) ELSE {Nada}

Sanado(u, t) ==
    IF t # Nada THEN Heredado(t, equipos[t], Nada)
    ELSE [ambito |-> usuarios[u].ambito, equipo |-> Nada, lider |-> Nada,
          asignado |-> FALSE, prog |-> Nada]

\* The rows a request of u on reference r may go on with.
Autorizados(u, r) ==
    {p \in IF procesos[r] # Nada THEN {procesos[r]}
           ELSE IF borradores[r] # Nada THEN {Sanado(u, t) : t \in EquipoSanador(u, r)} ELSE {}
       : Pasa(u, p)}

\* A request that commits heals the process it lacks.
SanarProceso(u, r) ==
    /\ Sesion(u)
    /\ procesos[r] = Nada
    /\ \E p \in Autorizados(u, r) : procesos' = [procesos EXCEPT ![r] = p]
    /\ UNCHANGED <<organizacion, usuarios, equipos, miembros, borradores, cargados>>

----------------------------------------------------------------------------
(* Processes, by their users.                                               *)

\* Code k of the request is authorised, or is the program of some process.
ProgramaAutorizado(t, k) ==
    \/ k = Nada \/ equipos[t].codigo \in {Nada, k}
    \/ k \in cargados /\ \E r \in ProcesosDe(t) : procesos[r].prog = k

IniciarProceso(u, t) ==
    /\ Sesion(u)
    /\ HayEquipo(t) /\ equipos[t].activo /\ EnEquipo(u, t)
    /\ \E k \in Codigos \cup {Nada} :
         /\ ProgramaAutorizado(t, k)
         /\ Asegurar(t, equipos[t], TRUE, k, procesos)
    /\ UNCHANGED <<organizacion, usuarios, equipos, miembros, cargados>>

\* The team save_draft anchors a reference to: the one the request names, or
\* one of u.  An administrator may name any and has none to name otherwise.
EquiposAncla(u) ==
    LET nombrables == {t \in Equipos : HayEquipo(t) /\
                          (Directivo(u) \/ (equipos[t].activo /\ EnEquipo(u, t)))}
        sinEquipo == Directivo(u) /\ EquiposPropios(u) \cup Cualquiera(u) = {}
    IN nombrables \cup (IF sinEquipo THEN {Nada} ELSE {})

AnclarBorrador(u, r) ==
    /\ Sesion(u)
    /\ procesos[r] = Nada
    /\ \E t \in EquiposAncla(u) :
         /\ procesos' = [procesos EXCEPT ![r] =
                IF t # Nada THEN Heredado(t, equipos[t], Nada)
                ELSE [ambito |-> SinAmbito, equipo |-> Nada, lider |-> Nada,
                      asignado |-> FALSE, prog |-> Nada]]
         /\ \E m \in {t, Nada} : borradores' = [borradores EXCEPT ![r] =
                [equipo |-> m, codigo |-> IF @ = Nada THEN Nada ELSE @.codigo]]
    /\ UNCHANGED <<organizacion, usuarios, equipos, miembros, cargados>>

\* The import of a program takes an unassigned process back to the team its
\* draft names, without scope or leader, and deletes the processes of the
\* team that have no program or have this one; their drafts stay.
Religado(p, m) ==
    IF p.equipo = Nada /\ m # Nada THEN [p EXCEPT !.equipo = m, !.asignado = TRUE] ELSE p

ImportarPrograma(u, r) ==
    /\ Sesion(u)
    /\ borradores[r] # Nada
    /\ \E k \in Codigos \ cargados, p \in Autorizados(u, r) :
         LET m == borradores[r].equipo
             q == [Religado(p, m) EXCEPT !.prog = k]
         IN /\ q.equipo # Nada => HayEquipo(q.equipo)
            /\ cargados' = cargados \cup {k}
            /\ procesos' = [s \in Refs |->
                   IF s = r THEN q
                   ELSE IF procesos[s] # Nada /\ q.equipo # Nada /\ procesos[s].equipo = q.equipo
                           /\ procesos[s].prog \in {Nada, k} THEN Nada
                   ELSE procesos[s]]
    /\ UNCHANGED <<organizacion, usuarios, equipos, miembros, borradores>>

\* DELETE /cargue: the process goes with the program its draft leads to (in
\* CicloBloques; any here), the draft keeps the team.
EliminarCargue(u, r) ==
    /\ Sesion(u)
    /\ procesos[r] # Nada => Pasa(u, procesos[r])
    /\ \E k \in cargados \cup {Nada} :
         /\ cargados' = cargados \ {k}
         /\ procesos' = [s \in Refs |->
                IF s = r \/ procesos[s] = Nada THEN Nada
                ELSE [procesos[s] EXCEPT !.prog = IF @ = k THEN Nada ELSE @]]
    /\ borradores' = [borradores EXCEPT ![r] =
           IF @ = Nada THEN Nada ELSE [@ EXCEPT !.codigo = Nada]]
    /\ UNCHANGED <<organizacion, usuarios, equipos, miembros>>

----------------------------------------------------------------------------
\* The seeded catalogue.
Init ==
    /\ organizacion = [x \in Filas |-> IF x \in Fijas THEN "ACTIVA" ELSE "NO"]
    /\ usuarios = Semilla
    /\ equipos = [t \in Equipos |-> Nada]
    /\ miembros = [t \in Equipos |-> [u \in Usuarios |-> "NO"]]
    /\ procesos = [r \in Refs |-> Nada]
    /\ borradores = [r \in Refs |-> Nada]
    /\ cargados = {}

\* The administration of coordinations and specialties.
OrganizacionNext ==
    \E x \in Filas \ Fijas :
        CrearFila(x) \/ DesactivarFila(x) \/ ReactivarFila(x) \/ EliminarFila(x)

\* The administration of users.
UsuariosNext ==
    \/ \E u \in Movibles : CrearUsuario(u) \/ CambiarEstado(u) \/ EliminarUsuario(u)
    \/ \E u \in Usuarios : ActualizarUsuario(u)

\* The administration of teams, their members and their authorised programs.
EquiposNext ==
    \E t \in Equipos :
        \/ CrearEquipo(t) \/ ActualizarEquipo(t) \/ SanarEquipo(t) \/ EliminarEquipo(t)
        \/ Autorizar(t) \/ Desautorizar(t)
        \/ \E u \in Usuarios : AgregarMiembro(t, u) \/ CambiarMembresia(t, u)

\* The administration of curricular processes.
ProcesosNext ==
    \E r \in Refs :
        \/ \E t \in Equipos : AsignarProceso(r, t)
        \/ DesasignarProceso(r) \/ BorrarProceso(r)

\* What the users of a team do with its processes.
UsoNext ==
    \E u \in Usuarios :
        \/ \E t \in Equipos : IniciarProceso(u, t)
        \/ \E r \in Refs :
             \/ SanarProceso(u, r) \/ AnclarBorrador(u, r)
             \/ ImportarPrograma(u, r) \/ EliminarCargue(u, r)

Next == OrganizacionNext \/ UsuariosNext \/ EquiposNext \/ ProcesosNext \/ UsoNext

Spec == Init /\ [][Next]_vars

----------------------------------------------------------------------------
(* Properties.                                                              *)

\* No deletion leaves a reference behind: the scope of every user, team and
\* process, the coordination of every specialty, the leader of every team and
\* the team of every process are there (the guards of the deletions and the
\* foreign keys agree).
ReferenciasVivas ==
    /\ \A e \in Especialidades : HayFila(e) => HayFila(coordDe[e])
    /\ \A u \in Usuarios : HayUsuario(u) => AmbitoVivo(usuarios[u].ambito)
    /\ \A t \in Equipos : HayEquipo(t) =>
         AmbitoVivo(equipos[t].ambito) /\ HayUsuario(equipos[t].lider)
    /\ \A r \in Refs : procesos[r] # Nada =>
         /\ AmbitoVivo(procesos[r].ambito)
         /\ procesos[r].equipo # Nada => HayEquipo(procesos[r].equipo)

\* The specialty of a team is one of its coordination, and so is the one of
\* its leader, although update_team never looks at the coordination of a
\* specialty and an administrator of any scope may be made a leader.
EspecialidadDelEquipo ==
    /\ \A t \in Equipos : HayEquipo(t) =>
         /\ equipos[t].ambito.coord # Nada /\ equipos[t].ambito.esp # Nada
         /\ Propia(equipos[t].ambito) /\ Propia(usuarios[equipos[t].lider].ambito)

\* Who is not an administrator gets into a process only as the present leader
\* or an active member of its team, and only while the team is active
\* (BUSINESS_RULES 26.2 to 26.4): neither a former leader nor one whose team
\* was deleted or lost the process is let in by the leader kept in its row.
AccesoDelEquipo ==
    \A u \in Usuarios, r \in Refs : procesos[r] # Nada /\ PuedeAcceder(u, procesos[r]) =>
        /\ HayEquipo(procesos[r].equipo)
        /\ equipos[procesos[r].equipo].activo
        /\ EnEquipo(u, procesos[r].equipo)

\* The references the lists show to a user are the ones whose pages let the
\* user in: the two checks of access agree on every process there is.
ListadoFiel ==
    \A u \in Usuarios :
        Permitidas(u) = {r \in Refs : procesos[r] # Nada /\ PuedeAcceder(u, procesos[r])}
=============================================================================
