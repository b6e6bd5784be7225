------------------------ MODULE EquiposProcesosProofs ------------------------
(****************************************************************************)
(* What is proved of EquiposProcesos for every number of users, teams,      *)
(* references and programs: the types, the references between the rows, the *)
(* specialties of the teams and the access to the processes.                *)
(*                                                                          *)
(* AccesoDelEquipo is not inductive: it lets an unassigned process keep a   *)
(* leader, whom an import that takes the process back to a team would let   *)
(* in.  IndEquipos says what the row of a process keeps (Bueno): without a  *)
(* team it is not assigned and has no leader, and its leader, when it has   *)
(* one, is the one of its team.                                             *)
(****************************************************************************)
EXTENDS EquiposProcesos, TLAPS

Bueno(p) ==
    /\ AmbitoVivo(p.ambito)
    /\ p.equipo # Nada => HayEquipo(p.equipo)
    /\ p.equipo = Nada => ~p.asignado /\ p.lider = Nada
    /\ p.lider # Nada => p.lider = equipos[p.equipo].lider

CatalogoBueno == \A e \in Especialidades : HayFila(e) => HayFila(coordDe[e])
UsuariosBuenos == \A u \in Usuarios : HayUsuario(u) => AmbitoVivo(usuarios[u].ambito)
EquipoBueno(e) ==
    /\ AmbitoVivo(e.ambito) /\ HayUsuario(e.lider)
    /\ e.ambito.coord # Nada /\ e.ambito.esp # Nada
    /\ Propia(e.ambito) /\ Propia(usuarios[e.lider].ambito)
EquiposBuenos == \A t \in Equipos : HayEquipo(t) => EquipoBueno(equipos[t])
ProcesosBuenos == \A r \in Refs : procesos[r] # Nada => Bueno(procesos[r])

Resto == CatalogoBueno /\ UsuariosBuenos /\ EquiposBuenos /\ ProcesosBuenos
IndEquipos == TypeOK /\ Resto

-----------------------------------------------------------------------------
(* What the handlers build on.                                              *)

LEMMA EquipoTipo ==
    ASSUME TypeOK, NEW t \in Equipos, HayEquipo(t)
    PROVE  equipos[t] \in Equipo
BY DEF TypeOK, HayEquipo

LEMMA UsuarioTipo ==
    ASSUME TypeOK, NEW u \in Usuarios, HayUsuario(u)
    PROVE  usuarios[u] \in Usuario
BY DEF TypeOK, HayUsuario

LEMMA HeredadoTipo ==
    ASSUME NEW t \in Equipos, NEW e \in Equipo, NEW k \in Codigos \cup {Nada}
    PROVE  Heredado(t, e, k) \in Proceso
BY DEF Heredado, Equipo, Proceso

\* Where a reference ends when a process is ensured for team t of row e: gone,
\* as it was but for its program, or the new process of the team.
Asegurada(x, t, e, prs) ==
    /\ x.procesos = [r \in Refs |-> x.procesos[r]]
    /\ x.borradores \in [Refs -> Borrador \cup {Nada}]
    /\ \A r \in Refs :
         \/ x.procesos[r] = Nada
         \/ \E v \in Codigos \cup {Nada} : x.procesos[r] = Heredado(t, e, v)
         \/ /\ prs[r] # Nada
            /\ \E v \in Codigos \cup {Nada} : x.procesos[r] = [prs[r] EXCEPT !.prog = v]

LEMMA AseguradosCada ==
    ASSUME NEW t \in Equipos, NEW e \in Equipo, NEW k \in Codigos \cup {Nada},
           NEW prs \in [Refs -> Proceso \cup {Nada}],
           borradores \in [Refs -> Borrador \cup {Nada}],
           NEW x \in Asegurados(t, e, k, prs)
    PROVE  Asegurada(x, t, e, prs)
<1> DEFINE pid == IF k \in cargados THEN k ELSE Nada
           candidatos == {r \in Refs : prs[r] # Nada /\ prs[r].equipo = t}
           sueltos == {r \in candidatos : prs[r].prog = Nada}
           propios == {r \in candidatos : k # Nada /\
                         (prs[r].prog = k \/ (borradores[r] # Nada /\ borradores[r].codigo = k))}
           elegidos == IF propios # {} THEN propios ELSE sueltos
           nuevos == {r \in Refs : prs[r] = Nada /\ borradores[r] = Nada}
<1>1. pid \in Codigos \cup {Nada}
  OBVIOUS
<1>2. CASE elegidos # {}
  <2>1. PICK s \in elegidos :
          x = [procesos |-> [q \in Refs |->
                  IF q \in sueltos \ {s} THEN Nada
                  ELSE IF q = s /\ pid # Nada THEN [prs[q] EXCEPT !.prog = pid] ELSE prs[q]],
               borradores |-> [q \in Refs |->
                  IF q \in sueltos \ {s} THEN Nada ELSE borradores[q]]]
    BY <1>2 DEF Asegurados
  <2>2. x.borradores \in [Refs -> Borrador \cup {Nada}]
    BY <2>1
  <2>3. ASSUME NEW r \in Refs
        PROVE  \/ x.procesos[r] = Nada
               \/ /\ prs[r] # Nada
                  /\ \E v \in Codigos \cup {Nada} : x.procesos[r] = [prs[r] EXCEPT !.prog = v]
    <3>1. x.procesos[r] \in {Nada, prs[r], [prs[r] EXCEPT !.prog = pid]}
      BY <2>1
    <3>2. CASE prs[r] = Nada
      BY <2>1, <3>2
    <3>3. CASE prs[r] # Nada
      <4>1. prs[r] \in Proceso
        BY <3>3
      <4>2. prs[r].prog \in Codigos \cup {Nada} /\ prs[r] = [prs[r] EXCEPT !.prog = prs[r].prog]
        BY <4>1 DEF Proceso
      <4> QED BY <1>1, <3>1, <3>3, <4>2
    <3> QED BY <3>2, <3>3
  <2>4. x.procesos = [r \in Refs |-> x.procesos[r]]
    BY <2>1
  <2> QED BY <2>2, <2>3, <2>4 DEF Asegurada
<1>3. CASE elegidos = {}
  <2>1. PICK s \in nuevos :
          x = [procesos |-> [prs EXCEPT ![s] = Heredado(t, e, pid)],
               borradores |-> [borradores EXCEPT ![s] = [equipo |-> t, codigo |-> k]]]
    BY <1>3 DEF Asegurados
  <2>2. [equipo |-> t, codigo |-> k] \in Borrador
    BY DEF Borrador
  <2>3. x.borradores \in [Refs -> Borrador \cup {Nada}]
    BY <2>1, <2>2
  <2>4. ASSUME NEW r \in Refs
        PROVE  \/ x.procesos[r] = Nada
               \/ \E v \in Codigos \cup {Nada} : x.procesos[r] = Heredado(t, e, v)
               \/ /\ prs[r] # Nada
                  /\ \E v \in Codigos \cup {Nada} : x.procesos[r] = [prs[r] EXCEPT !.prog = v]
    <3>1. CASE r = s
      BY <1>1, <2>1, <3>1
    <3>2. CASE r # s
      <4>1. x.procesos[r] = prs[r]
        BY <2>1, <3>2
      <4>2. CASE prs[r] # Nada
        <5>1. prs[r] \in Proceso
          BY <4>2
        <5>2. prs[r].prog \in Codigos \cup {Nada} /\ prs[r] = [prs[r] EXCEPT !.prog = prs[r].prog]
          BY <5>1 DEF Proceso
        <5> QED BY <4>1, <4>2, <5>2
      <4> QED BY <4>1, <4>2
    <3> QED BY <3>1, <3>2
  <2>5. x.procesos = [r \in Refs |-> x.procesos[r]]
    BY <2>1
  <2> QED BY <2>3, <2>4, <2>5 DEF Asegurada
<1> QED BY <1>2, <1>3

\* A change of program keeps a process a process.
LEMMA ConProgramaTipo ==
    ASSUME NEW p \in Proceso, NEW v \in Codigos \cup {Nada}
    PROVE  [p EXCEPT !.prog = v] \in Proceso
BY DEF Proceso

LEMMA AsegurarTipo ==
    ASSUME TypeOK, NEW t \in Equipos, NEW e \in Equipo, NEW hace \in BOOLEAN,
           NEW k \in Codigos \cup {Nada}, NEW prs \in [Refs -> Proceso \cup {Nada}],
           Asegurar(t, e, hace, k, prs)
    PROVE  /\ procesos' \in [Refs -> Proceso \cup {Nada}]
           /\ borradores' \in [Refs -> Borrador \cup {Nada}]
<1>1. CASE hace
  <2>1. PICK x \in Asegurados(t, e, k, prs) : procesos' = x.procesos /\ borradores' = x.borradores
    BY <1>1 DEF Asegurar
  <2>2. borradores \in [Refs -> Borrador \cup {Nada}]
    BY DEF TypeOK
  <2>3. Asegurada(x, t, e, prs)
    BY <2>1, <2>2, AseguradosCada
  <2>4. ASSUME NEW r \in Refs PROVE x.procesos[r] \in Proceso \cup {Nada}
    <3>1. prs[r] # Nada => prs[r] \in Proceso
      OBVIOUS
    <3>2. \A v \in Codigos \cup {Nada} : Heredado(t, e, v) \in Proceso
      BY HeredadoTipo
    <3>3. \A v \in Codigos \cup {Nada} : prs[r] # Nada => [prs[r] EXCEPT !.prog = v] \in Proceso
      BY <3>1, ConProgramaTipo
    <3> QED BY <2>3, <3>2, <3>3 DEF Asegurada
  <2> QED BY <2>1, <2>3, <2>4 DEF Asegurada
<1>2. CASE ~hace
  BY <1>2 DEF Asegurar, TypeOK
<1> QED BY <1>1, <1>2

-----------------------------------------------------------------------------
(* Types.                                                                   *)

LEMMA TipoInicial == Init => TypeOK
<1> SUFFICES ASSUME Init PROVE TypeOK
  OBVIOUS
<1> QED BY SemillaAssumption DEF Init, TypeOK

LEMMA SinFilaTipo ==
    ASSUME NEW p \in Proceso, NEW x
    PROVE  [p EXCEPT !.ambito = SinFila(@, x)] \in Proceso
<1>1. SinFila(p.ambito, x) \in Ambito
  BY DEF Proceso, Ambito, SinFila
<1> QED BY <1>1 DEF Proceso

LEMMA TipoFilas ==
    ASSUME TypeOK, NEW x \in Filas,
           CrearFila(x) \/ DesactivarFila(x) \/ ReactivarFila(x) \/ EliminarFila(x)
    PROVE  TypeOK'
<1>1. organizacion' \in [Filas -> {"NO", "ACTIVA", "INACTIVA"}]
  BY DEF TypeOK, CrearFila, DesactivarFila, ReactivarFila, EliminarFila
<1>2. procesos' \in [Refs -> Proceso \cup {Nada}]
  <2>1. CASE EliminarFila(x)
    BY <2>1, SinFilaTipo DEF EliminarFila, TypeOK
  <2>2. CASE ~EliminarFila(x)
    BY <2>2 DEF TypeOK, CrearFila, DesactivarFila, ReactivarFila
  <2> QED BY <2>1, <2>2
<1> QED BY <1>1, <1>2 DEF TypeOK, CrearFila, DesactivarFila, ReactivarFila, EliminarFila

LEMMA TipoUsuarios ==
    ASSUME TypeOK, NEW u \in Usuarios,
           \/ CrearUsuario(u) \/ ActualizarUsuario(u) \/ CambiarEstado(u) \/ EliminarUsuario(u)
    PROVE  TypeOK'
<1> USE ConstantesAssumption
<1>1. CASE CrearUsuario(u)
  <2>1. PICK p \in Perfiles[u], a \in Alcances[u] :
          usuarios' = [usuarios EXCEPT ![u] = [perfil |-> p, activo |-> TRUE, ambito |-> a]]
    BY <1>1 DEF CrearUsuario
  <2>2. [perfil |-> p, activo |-> TRUE, ambito |-> a] \in Usuario
    BY DEF Usuario
  <2> QED BY <1>1, <2>1, <2>2 DEF CrearUsuario, TypeOK
<1>2. CASE ActualizarUsuario(u)
  <2>1. PICK p \in Perfiles[u], a \in Alcances[u] :
          usuarios' = [usuarios EXCEPT ![u].perfil = p, ![u].ambito = a]
    BY <1>2 DEF ActualizarUsuario
  <2>2. usuarios[u] \in Usuario
    BY <1>2, UsuarioTipo DEF ActualizarUsuario
  <2>3. usuarios' \in [Usuarios -> Usuario \cup {Nada}]
    BY <2>1, <2>2 DEF Usuario, TypeOK
  <2> QED BY <1>2, <2>3 DEF ActualizarUsuario, TypeOK
<1>3. CASE CambiarEstado(u)
  <2>1. usuarios[u] \in Usuario
    BY <1>3, UsuarioTipo DEF CambiarEstado
  <2>2. usuarios' \in [Usuarios -> Usuario \cup {Nada}]
    BY <1>3, <2>1 DEF CambiarEstado, Usuario, TypeOK
  <2> QED BY <1>3, <2>2 DEF CambiarEstado, TypeOK
<1>4. CASE EliminarUsuario(u)
  <2>1. procesos' \in [Refs -> Proceso \cup {Nada}]
    BY <1>4 DEF EliminarUsuario, TypeOK, Proceso
  <2>2. usuarios' \in [Usuarios -> Usuario \cup {Nada}]
    BY <1>4 DEF EliminarUsuario, TypeOK
  <2>3. miembros' \in [Equipos -> [Usuarios -> {"NO", "ACTIVO", "INACTIVO"}]]
    BY <1>4 DEF EliminarUsuario, SinMiembro, TypeOK
  <2> QED BY <1>4, <2>1, <2>2, <2>3 DEF EliminarUsuario, TypeOK
<1> QED BY <1>1, <1>2, <1>3, <1>4

\* The leader a team gets, and the scope with it, are of a user there is.
LEMMA LiderTipo ==
    ASSUME TypeOK, NEW u \in Usuarios, NEW a, PuedeLiderar(u, a)
    PROVE  a \in Ambito
BY UsuarioTipo DEF PuedeLiderar, Usuario

LEMMA ConLiderTipo ==
    ASSUME TypeOK, NEW t \in Equipos, NEW u \in Usuarios
    PROVE  ConLider(t, u) \in [Refs -> Proceso \cup {Nada}]
BY DEF TypeOK, ConLider, ProcesosDe, Proceso

LEMMA TipoEquipos ==
    ASSUME TypeOK, EquiposBuenos, NEW t \in Equipos,
           CrearEquipo(t) \/ ActualizarEquipo(t) \/ SanarEquipo(t)
    PROVE  TypeOK'
<1>1. CASE CrearEquipo(t)
  <2>1. PICK u \in Usuarios, a \in UNION {Alcances[v] : v \in Usuarios}, k \in Codigos \cup {Nada} :
          LET e == [ambito |-> a, lider |-> u, activo |-> TRUE, codigo |-> k] IN
            /\ PuedeLiderar(u, a)
            /\ equipos' = [equipos EXCEPT ![t] = e]
            /\ Asegurar(t, e, TRUE, k, procesos)
    BY <1>1 DEF CrearEquipo
  <2> DEFINE e == [ambito |-> a, lider |-> u, activo |-> TRUE, codigo |-> k]
  <2>2. e \in Equipo
    BY <2>1, LiderTipo DEF Equipo
  <2>3. procesos \in [Refs -> Proceso \cup {Nada}] /\ Asegurar(t, e, TRUE, k, procesos)
    BY <2>1 DEF TypeOK
  <2>4. /\ procesos' \in [Refs -> Proceso \cup {Nada}]
        /\ borradores' \in [Refs -> Borrador \cup {Nada}]
    BY <2>2, <2>3, AsegurarTipo
  <2> QED BY <1>1, <2>1, <2>2, <2>4 DEF CrearEquipo, TypeOK
<1>2. CASE ActualizarEquipo(t)
  <2>1. PICK a \in AmbitoNuevo(t) \cup {equipos[t].ambito}, u \in Usuarios, activo \in BOOLEAN,
             cambia \in BOOLEAN, k \in Codigos \cup {Nada} :
          /\ a.coord # Nada /\ a.esp # Nada
          /\ u # equipos[t].lider => PuedeLiderar(u, a)
          /\ ~cambia => k = equipos[t].codigo
          /\ LET e == [ambito |-> a, lider |-> u, activo |-> activo, codigo |-> k]
                 prs == IF u # equipos[t].lider THEN ConLider(t, u) ELSE procesos
             IN /\ equipos' = [equipos EXCEPT ![t] = e]
                /\ Asegurar(t, e, k # Nada /\ (cambia \/ ProcesosDe(t) = {}), k, prs)
    BY <1>2 DEF ActualizarEquipo
  <2> DEFINE e == [ambito |-> a, lider |-> u, activo |-> activo, codigo |-> k]
             prs == IF u # equipos[t].lider THEN ConLider(t, u) ELSE procesos
             hace == k # Nada /\ (cambia \/ ProcesosDe(t) = {})
  <2>2. equipos[t] \in Equipo /\ HayEquipo(t)
    BY <1>2, EquipoTipo DEF ActualizarEquipo
  <2>3. usuarios[equipos[t].lider].ambito \in Ambito
    BY <2>2, UsuarioTipo DEF EquiposBuenos, EquipoBueno, Equipo, Usuario
  <2>4. e \in Equipo
    BY <2>1, <2>2, <2>3 DEF AmbitoNuevo, Equipo
  <2>5. prs \in [Refs -> Proceso \cup {Nada}]
    BY ConLiderTipo DEF TypeOK
  <2>6. hace \in BOOLEAN
    OBVIOUS
  <2>7. Asegurar(t, e, hace, k, prs)
    BY <2>1
  <2> HIDE DEF prs, hace
  <2>8. /\ procesos' \in [Refs -> Proceso \cup {Nada}]
        /\ borradores' \in [Refs -> Borrador \cup {Nada}]
    BY <2>4, <2>5, <2>6, <2>7, AsegurarTipo
  <2> QED BY <1>2, <2>1, <2>4, <2>8 DEF ActualizarEquipo, TypeOK
<1>3. CASE SanarEquipo(t)
  <2>1. equipos[t] \in Equipo /\ Asegurar(t, equipos[t], TRUE, equipos[t].codigo, procesos)
    BY <1>3, EquipoTipo DEF SanarEquipo
  <2>2. equipos[t].codigo \in Codigos \cup {Nada} /\ procesos \in [Refs -> Proceso \cup {Nada}]
    BY <2>1 DEF Equipo, TypeOK
  <2>3. /\ procesos' \in [Refs -> Proceso \cup {Nada}]
        /\ borradores' \in [Refs -> Borrador \cup {Nada}]
    BY <2>1, <2>2, AsegurarTipo
  <2> QED BY <1>3, <2>3 DEF SanarEquipo, TypeOK
<1> QED BY <1>1, <1>2, <1>3

LEMMA DesligadoTipo ==
    ASSUME NEW p \in Proceso
    PROVE  Desligado(p) \in Proceso
BY DEF Desligado, Proceso

LEMMA TipoPlantilla ==
    ASSUME TypeOK, NEW t \in Equipos, NEW u \in Usuarios,
           AgregarMiembro(t, u) \/ CambiarMembresia(t, u)
    PROVE  TypeOK'
<1>1. miembros' \in [Equipos -> [Usuarios -> {"NO", "ACTIVO", "INACTIVO"}]]
  BY DEF AgregarMiembro, CambiarMembresia, TypeOK
<1> QED BY <1>1 DEF AgregarMiembro, CambiarMembresia, TypeOK

LEMMA TipoRegistro ==
    ASSUME TypeOK, NEW t \in Equipos, EliminarEquipo(t) \/ Autorizar(t) \/ Desautorizar(t)
    PROVE  TypeOK'
<1>1. CASE EliminarEquipo(t)
  <2>1. procesos' \in [Refs -> Proceso \cup {Nada}]
    BY <1>1, DesligadoTipo DEF EliminarEquipo, ProcesosDe, TypeOK
  <2> QED BY <1>1, <2>1 DEF EliminarEquipo, TypeOK
<1>2. CASE Autorizar(t) \/ Desautorizar(t)
  <2>1. equipos[t] \in Equipo
    BY <1>2, EquipoTipo DEF Autorizar, Desautorizar
  <2>2. PICK k \in Codigos \cup {Nada} : equipos' = [equipos EXCEPT ![t].codigo = k]
    BY <1>2 DEF Autorizar, Desautorizar
  <2>3. [equipos[t] EXCEPT !.codigo = k] \in Equipo
    BY <2>1 DEF Equipo
  <2>4. equipos' \in [Equipos -> Equipo \cup {Nada, Retirado}]
    BY <2>2, <2>3 DEF TypeOK
  <2> QED BY <1>2, <2>4 DEF Autorizar, Desautorizar, TypeOK
<1> QED BY <1>1, <1>2

LEMMA TipoAdministrados ==
    ASSUME TypeOK, NEW r \in Refs,
           \/ \E t \in Equipos : AsignarProceso(r, t)
           \/ DesasignarProceso(r) \/ BorrarProceso(r)
    PROVE  TypeOK'
<1>1. ASSUME NEW t \in Equipos, AsignarProceso(r, t) PROVE TypeOK'
  <2>1. equipos[t] \in Equipo
    BY <1>1, EquipoTipo DEF AsignarProceso
  <2> DEFINE k == IF procesos[r] = Nada THEN Nada ELSE procesos[r].prog
  <2>2. k \in Codigos \cup {Nada}
    BY DEF TypeOK, Proceso
  <2>3. procesos' = [procesos EXCEPT ![r] = Heredado(t, equipos[t], k)]
    BY <1>1 DEF AsignarProceso
  <2>4. procesos' \in [Refs -> Proceso \cup {Nada}]
    BY <2>1, <2>2, <2>3, HeredadoTipo DEF TypeOK
  <2>5. borradores' \in [Refs -> Borrador \cup {Nada}]
    BY <1>1 DEF AsignarProceso, Borrador, TypeOK
  <2> QED BY <1>1, <2>4, <2>5 DEF AsignarProceso, TypeOK
<1>2. CASE DesasignarProceso(r)
  BY <1>2, DesligadoTipo DEF DesasignarProceso, TypeOK
<1>3. CASE BorrarProceso(r)
  BY <1>3 DEF BorrarProceso, TypeOK
<1> QED BY <1>1, <1>2, <1>3

\* The team a healing takes is there; the row it makes is a process.
LEMMA SanadorHay ==
    ASSUME TypeOK, NEW u \in Usuarios, NEW r \in Refs, NEW t \in EquipoSanador(u, r), t # Nada,
           borradores[r] # Nada
    PROVE  t \in Equipos /\ HayEquipo(t)
BY DEF EquipoSanador, EquiposPropios, Cualquiera, Liderados, HayEquipo, TypeOK, Borrador

LEMMA AutorizadosTipo ==
    ASSUME TypeOK, NEW u \in Usuarios, HayUsuario(u), NEW r \in Refs, NEW p \in Autorizados(u, r)
    PROVE  p \in Proceso
<1>1. CASE procesos[r] # Nada
  BY <1>1 DEF Autorizados, TypeOK
<1>2. CASE procesos[r] = Nada
  <2>1. PICK t \in EquipoSanador(u, r) : p = Sanado(u, t) /\ borradores[r] # Nada
    BY <1>2 DEF Autorizados
  <2>2. CASE t # Nada
    <3>1. t \in Equipos /\ equipos[t] \in Equipo
      BY <2>1, <2>2, SanadorHay, EquipoTipo
    <3> QED BY <2>1, <2>2, <3>1, HeredadoTipo DEF Sanado
  <2>3. CASE t = Nada
    <3>1. usuarios[u].ambito \in Ambito
      BY UsuarioTipo DEF Usuario
    <3> QED BY <2>1, <2>3, <3>1 DEF Sanado, Proceso
  <2> QED BY <2>2, <2>3
<1> QED BY <1>1, <1>2

\* The team of a new anchor is there.
LEMMA AnclaHay ==
    ASSUME NEW u \in Usuarios, NEW t \in EquiposAncla(u), t # Nada
    PROVE  t \in Equipos /\ HayEquipo(t)
BY DEF EquiposAncla

LEMMA ReligadoTipo ==
    ASSUME NEW p \in Proceso, NEW m \in Equipos \cup {Nada}, NEW k \in Codigos
    PROVE  [Religado(p, m) EXCEPT !.prog = k] \in Proceso
BY DEF Religado, Proceso

LEMMA TipoIniciar ==
    ASSUME TypeOK, NEW u \in Usuarios, NEW t \in Equipos, IniciarProceso(u, t)
    PROVE  TypeOK'
<1>1. PICK k \in Codigos \cup {Nada} : Asegurar(t, equipos[t], TRUE, k, procesos)
  BY DEF IniciarProceso
<1>2. equipos[t] \in Equipo /\ procesos \in [Refs -> Proceso \cup {Nada}]
  BY EquipoTipo DEF IniciarProceso, TypeOK
<1>3. /\ procesos' \in [Refs -> Proceso \cup {Nada}]
      /\ borradores' \in [Refs -> Borrador \cup {Nada}]
  BY <1>1, <1>2, AsegurarTipo
<1> QED BY <1>3 DEF IniciarProceso, TypeOK

LEMMA TipoPropios ==
    ASSUME TypeOK, NEW u \in Usuarios, NEW r \in Refs,
           \/ SanarProceso(u, r) \/ AnclarBorrador(u, r)
           \/ ImportarPrograma(u, r) \/ EliminarCargue(u, r)
    PROVE  TypeOK'
<1>1. CASE SanarProceso(u, r)
  BY <1>1, AutorizadosTipo DEF SanarProceso, Sesion, TypeOK
<1>2. CASE AnclarBorrador(u, r)
  <2>1. PICK t \in EquiposAncla(u) :
          /\ procesos' = [procesos EXCEPT ![r] =
                IF t # Nada THEN Heredado(t, equipos[t], Nada)
                ELSE [ambito |-> SinAmbito, equipo |-> Nada, lider |-> Nada,
                      asignado |-> FALSE, prog |-> Nada]]
          /\ \E m \in {t, Nada} : borradores' = [borradores EXCEPT ![r] =
                [equipo |-> m, codigo |-> IF @ = Nada THEN Nada ELSE @.codigo]]
    BY <1>2 DEF AnclarBorrador
  <2>2. t # Nada => t \in Equipos /\ Heredado(t, equipos[t], Nada) \in Proceso
    BY AnclaHay, EquipoTipo, HeredadoTipo
  <2>3. [ambito |-> SinAmbito, equipo |-> Nada, lider |-> Nada, asignado |-> FALSE, prog |-> Nada]
          \in Proceso
    BY DEF SinAmbito, Ambito, Proceso
  <2>4. procesos' \in [Refs -> Proceso \cup {Nada}]
    BY <2>1, <2>2, <2>3 DEF TypeOK
  <2>5. borradores' \in [Refs -> Borrador \cup {Nada}]
    BY <2>1, <2>2 DEF Borrador, TypeOK
  <2> QED BY <1>2, <2>4, <2>5 DEF AnclarBorrador, TypeOK
<1>3. CASE ImportarPrograma(u, r)
  <2>1. PICK k \in Codigos \ cargados, p \in Autorizados(u, r) :
          LET q == [Religado(p, borradores[r].equipo) EXCEPT !.prog = k] IN
          /\ cargados' = cargados \cup {k}
          /\ procesos' = [s \in Refs |->
                 IF s = r THEN q
                 ELSE IF procesos[s] # Nada /\ q.equipo # Nada /\ procesos[s].equipo = q.equipo
                         /\ procesos[s].prog \in {Nada, k} THEN Nada
                 ELSE procesos[s]]
    BY <1>3 DEF ImportarPrograma
  <2>2. p \in Proceso /\ borradores[r].equipo \in Equipos \cup {Nada}
    BY <1>3, AutorizadosTipo DEF ImportarPrograma, Sesion, TypeOK, Borrador
  <2>3. [Religado(p, borradores[r].equipo) EXCEPT !.prog = k] \in Proceso
    BY <2>2, ReligadoTipo
  <2>4. procesos' \in [Refs -> Proceso \cup {Nada}]
    BY <2>1, <2>3 DEF TypeOK
  <2>5. cargados' \subseteq Codigos
    BY <2>1 DEF TypeOK
  <2> QED BY <1>3, <2>4, <2>5 DEF ImportarPrograma, TypeOK
<1>4. CASE EliminarCargue(u, r)
  <2>1. PICK k \in cargados \cup {Nada} :
          /\ cargados' = cargados \ {k}
          /\ procesos' = [s \in Refs |->
                 IF s = r \/ procesos[s] = Nada THEN Nada
                 ELSE [procesos[s] EXCEPT !.prog = IF @ = k THEN Nada ELSE @]]
    BY <1>4 DEF EliminarCargue
  <2>2. procesos' \in [Refs -> Proceso \cup {Nada}]
    <3>1. \A s \in Refs : procesos[s] # Nada => procesos[s] \in Proceso
      BY DEF TypeOK
    <3>2. \A q \in Proceso : [q EXCEPT !.prog = IF @ = k THEN Nada ELSE @] \in Proceso
      BY DEF Proceso
    <3> QED BY <2>1, <3>1, <3>2
  <2>3. borradores' \in [Refs -> Borrador \cup {Nada}]
    BY <1>4 DEF EliminarCargue, Borrador, TypeOK
  <2> QED BY <1>4, <2>1, <2>2, <2>3 DEF EliminarCargue, TypeOK
<1> QED BY <1>1, <1>2, <1>3, <1>4

LEMMA TipoPaso == TypeOK /\ EquiposBuenos /\ [Next]_vars => TypeOK'
<1> SUFFICES ASSUME TypeOK, EquiposBuenos, [Next]_vars PROVE TypeOK'
  OBVIOUS
<1>1. CASE UNCHANGED vars
  BY <1>1 DEF vars, TypeOK
<1>2. CASE OrganizacionNext
  BY <1>2, TipoFilas DEF OrganizacionNext
<1>3. CASE UsuariosNext
  BY <1>3, ConstantesAssumption, TipoUsuarios DEF UsuariosNext
<1>4. CASE EquiposNext
  BY <1>4, TipoPlantilla, TipoEquipos, TipoRegistro DEF EquiposNext
<1>5. CASE ProcesosNext
  BY <1>5, TipoAdministrados DEF ProcesosNext
<1>6. CASE UsoNext
  BY <1>6, TipoIniciar, TipoPropios DEF UsoNext
<1> QED BY <1>1, <1>2, <1>3, <1>4, <1>5, <1>6 DEF Next

-----------------------------------------------------------------------------
(* What the rows keep.                                                      *)

LEMMA RestoInicial == Init => Resto
<1> SUFFICES ASSUME Init PROVE Resto
  OBVIOUS
<1>1. CatalogoBueno
  BY ConstantesAssumption DEF Init, CatalogoBueno, HayFila, Filas
<1>2. UsuariosBuenos
  <2> SUFFICES ASSUME NEW u \in Usuarios, HayUsuario(u) PROVE AmbitoVivo(usuarios[u].ambito)
    BY DEF UsuariosBuenos
  <2>1. {Semilla[u].ambito.coord, Semilla[u].ambito.esp} \subseteq Fijas \cup {Nada}
    BY SemillaAssumption DEF Init, HayUsuario
  <2> QED BY <2>1, ConstantesAssumption DEF Init, AmbitoVivo, HayFila
<1>3. EquiposBuenos /\ ProcesosBuenos
  BY DEF Init, EquiposBuenos, HayEquipo, ProcesosBuenos
<1> QED BY <1>1, <1>2, <1>3 DEF Resto

\* A process keeps what it keeps while its team and the catalogue do.
LEMMA BuenoQueda ==
    ASSUME organizacion' = organizacion,
           \A t \in Equipos : HayEquipo(t) =>
             HayEquipo(t)' /\ equipos'[t].lider = equipos[t].lider
    PROVE  \A p \in Proceso : Bueno(p) => Bueno(p)'
BY DEF Bueno, AmbitoVivo, HayFila, Proceso

LEMMA BuenoConPrograma ==
    \A p \in Proceso : \A v \in Codigos \cup {Nada} : Bueno(p) => Bueno([p EXCEPT !.prog = v])
BY DEF Bueno, Proceso

LEMMA BuenoHeredado ==
    ASSUME NEW t \in Equipos, NEW e \in Equipo, equipos[t] = e, AmbitoVivo(e.ambito),
           NEW v \in Codigos \cup {Nada}
    PROVE  Bueno(Heredado(t, e, v))
<1>1. HayEquipo(t) /\ t # Nada
  BY ConstantesAssumption, FilasAssumption DEF HayEquipo
<1> QED BY <1>1 DEF Bueno, Heredado

\* Coordinations and specialties.
LEMMA RestoFilas ==
    ASSUME TypeOK, Resto, NEW x \in Filas,
           CrearFila(x) \/ DesactivarFila(x) \/ ReactivarFila(x) \/ EliminarFila(x)
    PROVE  Resto'
<1> USE DEF Resto
<1>a. UNCHANGED <<usuarios, equipos>>
  BY DEF CrearFila, DesactivarFila, ReactivarFila, EliminarFila
<1>1. CASE CrearFila(x) \/ DesactivarFila(x) \/ ReactivarFila(x)
  <2>1. \A y \in Filas : HayFila(y) => HayFila(y)'
    BY <1>1 DEF CrearFila, DesactivarFila, ReactivarFila, HayFila, TypeOK
  <2>2. \A a \in Ambito : AmbitoVivo(a) => AmbitoVivo(a)'
    BY <2>1 DEF AmbitoVivo, Ambito, Filas
  <2>3. CatalogoBueno'
    <3> SUFFICES ASSUME NEW e \in Especialidades, HayFila(e)' PROVE HayFila(coordDe[e])'
      BY DEF CatalogoBueno
    <3>1. coordDe[e] \in Filas /\ e \in Filas
      BY ConstantesAssumption DEF Filas
    <3>2. CASE HayFila(e)
      BY <2>1, <3>1, <3>2 DEF CatalogoBueno
    <3>3. CASE ~HayFila(e)
      <4>1. e = x /\ organizacion[coordDe[e]] = "ACTIVA"
        BY <1>1, <3>1, <3>3 DEF CrearFila, DesactivarFila, ReactivarFila, HayFila, TypeOK
      <4> QED BY <2>1, <3>1, <4>1 DEF HayFila
    <3> QED BY <3>2, <3>3
  <2>4. UsuariosBuenos'
    BY <1>a, <2>2, UsuarioTipo DEF UsuariosBuenos, HayUsuario, Usuario
  <2>5. EquiposBuenos'
    BY <1>a, <2>2, EquipoTipo DEF EquiposBuenos, EquipoBueno, HayEquipo, HayUsuario, Propia, Equipo
  <2>6. ProcesosBuenos'
    <3>1. \A p \in Proceso : Bueno(p) => Bueno(p)'
      BY <1>a, <2>2 DEF Bueno, HayEquipo, Proceso
    <3>2. procesos' = procesos
      BY <1>1 DEF CrearFila, DesactivarFila, ReactivarFila
    <3> QED BY <3>1, <3>2 DEF ProcesosBuenos, TypeOK
  <2> QED BY <2>3, <2>4, <2>5, <2>6
<1>2. CASE EliminarFila(x)
  <2>1. \A y \in Filas : HayFila(y)' <=> HayFila(y) /\ y # x
    BY <1>2 DEF EliminarFila, HayFila, TypeOK
  <2>2. \A a \in Ambito : AmbitoVivo(a) /\ x \notin {a.coord, a.esp} => AmbitoVivo(a)'
    BY <2>1 DEF AmbitoVivo, Ambito, Filas
  <2>3. \A a \in Ambito : AmbitoVivo(a) => AmbitoVivo(SinFila(a, x))'
    BY <2>1, ConstantesAssumption DEF AmbitoVivo, Ambito, Filas, SinFila
  <2>4. CatalogoBueno'
    <3> SUFFICES ASSUME NEW e \in Especialidades, HayFila(e)' PROVE HayFila(coordDe[e])'
      BY DEF CatalogoBueno
    <3>1. coordDe[e] \in Filas /\ e \in Filas
      BY ConstantesAssumption DEF Filas
    <3>2. HayFila(e) /\ coordDe[e] # x
      BY <1>2, <2>1, <3>1 DEF EliminarFila, EspecialidadesDe
    <3> QED BY <2>1, <3>1, <3>2 DEF CatalogoBueno
  <2>5. UsuariosBuenos'
    BY <1>2, <1>a, <2>2, UsuarioTipo
       DEF EliminarFila, UsuariosDe, UsuariosBuenos, HayUsuario, Usuario
  <2>6. EquiposBuenos'
    BY <1>2, <1>a, <2>2, EquipoTipo
       DEF EliminarFila, EquiposDe, EquiposBuenos, EquipoBueno, HayEquipo, HayUsuario, Propia, Equipo
  <2>7. ProcesosBuenos'
    <3>1. \A p \in Proceso : Bueno(p) => Bueno([p EXCEPT !.ambito = SinFila(@, x)])'
      BY <1>a, <2>3 DEF Bueno, HayEquipo, Proceso
    <3>2. procesos' = [r \in Refs |-> IF procesos[r] = Nada THEN Nada
                          ELSE [procesos[r] EXCEPT !.ambito = SinFila(@, x)]]
      BY <1>2 DEF EliminarFila
    <3> QED BY <3>1, <3>2 DEF ProcesosBuenos, TypeOK
  <2> QED BY <2>4, <2>5, <2>6, <2>7
<1> QED BY <1>1, <1>2

\* Users.
LEMMA RestoUsuarios ==
    ASSUME TypeOK, Resto, NEW u \in Usuarios,
           \/ CrearUsuario(u) \/ ActualizarUsuario(u) \/ CambiarEstado(u) \/ EliminarUsuario(u)
    PROVE  Resto'
<1> USE DEF Resto
<1>a. organizacion' = organizacion /\ equipos' = equipos
  BY DEF CrearUsuario, ActualizarUsuario, CambiarEstado, EliminarUsuario
<1>b. /\ CatalogoBueno'
      /\ \A a : AmbitoVivo(a) => AmbitoVivo(a)'
      /\ \A p \in Proceso : Bueno(p) => Bueno(p)'
  BY <1>a DEF CatalogoBueno, HayFila, AmbitoVivo, Bueno, HayEquipo
<1>c. \A v \in Usuarios \ {u} : usuarios'[v] = usuarios[v]
  BY DEF CrearUsuario, ActualizarUsuario, CambiarEstado, EliminarUsuario, TypeOK
<1>d. ASSUME HayUsuario(u)' => AmbitoVivo(usuarios'[u].ambito)
      PROVE  UsuariosBuenos'
  BY <1>a, <1>c, <1>d DEF UsuariosBuenos, HayUsuario, AmbitoVivo, HayFila
<1>e. ASSUME \A t \in Equipos : HayEquipo(t) /\ equipos[t].lider = u =>
               HayUsuario(u)' /\ Propia(usuarios'[u].ambito)
      PROVE  EquiposBuenos'
  <2> SUFFICES ASSUME NEW t \in Equipos, HayEquipo(t) PROVE EquipoBueno(equipos[t])'
    BY <1>a DEF EquiposBuenos, HayEquipo
  <2>1. EquipoBueno(equipos[t]) /\ equipos[t].lider \in Usuarios
    BY EquipoTipo DEF EquiposBuenos, Equipo
  <2>2. CASE equipos[t].lider = u
    BY <1>a, <1>b, <1>e, <2>1, <2>2 DEF EquipoBueno
  <2>3. CASE equipos[t].lider # u
    BY <1>a, <1>b, <1>c, <2>1, <2>3 DEF EquipoBueno, HayUsuario
  <2> QED BY <2>2, <2>3
<1>f. ASSUME UNCHANGED procesos PROVE ProcesosBuenos'
  BY <1>b, <1>f DEF ProcesosBuenos, TypeOK
<1>1. CASE CrearUsuario(u)
  <2>1. PICK p \in Perfiles[u], a \in Alcances[u] :
          /\ AmbitoVivo(a)
          /\ usuarios' = [usuarios EXCEPT ![u] = [perfil |-> p, activo |-> TRUE, ambito |-> a]]
    BY <1>1 DEF CrearUsuario
  <2>2. usuarios'[u].ambito = a /\ ~HayUsuario(u)
    BY <1>1, <2>1 DEF CrearUsuario, HayUsuario, TypeOK
  <2>3. UsuariosBuenos'
    BY <1>d, <2>1, <2>2
  <2>4. EquiposBuenos'
    BY <1>e, <2>2 DEF EquiposBuenos, EquipoBueno
  <2> QED BY <1>1, <1>b, <1>f, <2>3, <2>4 DEF CrearUsuario
<1>2. CASE ActualizarUsuario(u)
  <2>1. PICK p \in Perfiles[u], a \in Alcances[u] :
          /\ a # usuarios[u].ambito => AlcanceAdmitido(u, a) /\ AmbitoVivo(a)
          /\ usuarios' = [usuarios EXCEPT ![u].perfil = p, ![u].ambito = a]
    BY <1>2 DEF ActualizarUsuario
  <2>2. HayUsuario(u) /\ usuarios[u] \in Usuario
    BY <1>2, UsuarioTipo DEF ActualizarUsuario
  <2>3. usuarios'[u].ambito = a /\ AmbitoVivo(a)
    BY <2>1, <2>2 DEF UsuariosBuenos, Usuario, TypeOK
  <2>4. UsuariosBuenos'
    BY <1>d, <2>3
  <2>5. HayUsuario(u)'
    <3>1. p \in Perfil /\ a \in Ambito
      BY ConstantesAssumption
    <3>2. usuarios'[u] \in Usuario
      BY <2>1, <2>2, <3>1 DEF Usuario, TypeOK
    <3> QED BY <2>2, <3>2, FilasAssumption DEF HayUsuario
  <2>6. Propia(a) \/ a = usuarios[u].ambito
    BY <2>1 DEF AlcanceAdmitido, Propia
  <2>7. EquiposBuenos'
    BY <1>e, <2>3, <2>5, <2>6 DEF EquiposBuenos, EquipoBueno
  <2> QED BY <1>2, <1>b, <1>f, <2>4, <2>7 DEF ActualizarUsuario
<1>3. CASE CambiarEstado(u)
  <2>1. HayUsuario(u) /\ usuarios[u] \in Usuario
    BY <1>3, UsuarioTipo DEF CambiarEstado
  <2>2. usuarios'[u] \in Usuario /\ usuarios'[u].ambito = usuarios[u].ambito
    BY <1>3, <2>1 DEF CambiarEstado, Usuario, TypeOK
  <2>3. HayUsuario(u)'
    BY <2>1, <2>2, FilasAssumption DEF HayUsuario
  <2>4. UsuariosBuenos'
    BY <1>d, <2>1, <2>2 DEF UsuariosBuenos
  <2>5. EquiposBuenos'
    BY <1>e, <2>2, <2>3 DEF EquiposBuenos, EquipoBueno
  <2> QED BY <1>3, <1>b, <1>f, <2>4, <2>5 DEF CambiarEstado
<1>4. CASE EliminarUsuario(u)
  <2>1. ~HayUsuario(u)'
    BY <1>4 DEF EliminarUsuario, HayUsuario, TypeOK
  <2>2. UsuariosBuenos'
    BY <1>d, <2>1
  <2>3. EquiposBuenos'
    BY <1>4, <1>e DEF EliminarUsuario
  <2>4. ProcesosBuenos'
    <3>1. \A p \in Proceso : Bueno(p) => Bueno([p EXCEPT !.lider = Nada])'
      BY <1>b DEF Bueno, Proceso
    <3>2. procesos' = [r \in Refs |-> IF procesos[r] # Nada /\ procesos[r].lider = u
                          THEN [procesos[r] EXCEPT !.lider = Nada] ELSE procesos[r]]
      BY <1>4 DEF EliminarUsuario
    <3> QED BY <1>b, <3>1, <3>2 DEF ProcesosBuenos, TypeOK
  <2> QED BY <1>b, <2>2, <2>3, <2>4
<1> QED BY <1>1, <1>2, <1>3, <1>4

\* A team that ensures a process, after row e of it is written.
LEMMA AsegurarBueno ==
    ASSUME TypeOK, TypeOK', NEW t \in Equipos, NEW e \in Equipo, NEW hace \in BOOLEAN,
           NEW k \in Codigos \cup {Nada}, NEW prs \in [Refs -> Proceso \cup {Nada}],
           Asegurar(t, e, hace, k, prs), equipos'[t] = e, AmbitoVivo(e.ambito)',
           \A r \in Refs : prs[r] # Nada => Bueno(prs[r])'
    PROVE  ProcesosBuenos'
<1> SUFFICES ASSUME NEW r \in Refs, procesos'[r] # Nada PROVE Bueno(procesos[r])'
  BY DEF ProcesosBuenos
<1>1. CASE hace
  <2>1. PICK x \in Asegurados(t, e, k, prs) : procesos' = x.procesos
    BY <1>1 DEF Asegurar
  <2>2. borradores \in [Refs -> Borrador \cup {Nada}]
    BY DEF TypeOK
  <2>3. Asegurada(x, t, e, prs)
    BY <2>1, <2>2, AseguradosCada
  <2>4. CASE \E v \in Codigos \cup {Nada} : procesos'[r] = Heredado(t, e, v)
    <3>1. PICK v \in Codigos \cup {Nada} : procesos'[r] = Heredado(t, e, v)
      BY <2>4
    <3>2. HayEquipo(t)' /\ t # Nada
      BY ConstantesAssumption, FilasAssumption DEF HayEquipo
    <3> QED BY <3>1, <3>2 DEF Bueno, Heredado, AmbitoVivo, HayFila
  <2>5. CASE prs[r] # Nada /\ \E v \in Codigos \cup {Nada} : procesos'[r] = [prs[r] EXCEPT !.prog = v]
    <3>1. PICK v \in Codigos \cup {Nada} : procesos'[r] = [prs[r] EXCEPT !.prog = v]
      BY <2>5
    <3>2. prs[r] \in Proceso /\ Bueno(prs[r])'
      BY <2>5
    <3>3. /\ procesos'[r].ambito = prs[r].ambito /\ procesos'[r].equipo = prs[r].equipo
          /\ procesos'[r].lider = prs[r].lider /\ procesos'[r].asignado = prs[r].asignado
      BY <3>1, <3>2 DEF Proceso
    <3> QED BY <3>2, <3>3 DEF Bueno, AmbitoVivo, HayFila, HayEquipo
  <2> QED BY <2>1, <2>3, <2>4, <2>5 DEF Asegurada
<1>2. CASE ~hace
  <2>1. procesos' = prs
    BY <1>2 DEF Asegurar
  <2> QED BY <2>1 DEF Bueno, AmbitoVivo, HayFila, HayEquipo
<1> QED BY <1>1, <1>2

\* Steps of the teams, the memberships and the processes leave the catalogue
\* and the users.
LEMMA RestoMarco ==
    ASSUME Resto, UNCHANGED <<organizacion, usuarios>>
    PROVE  /\ CatalogoBueno' /\ UsuariosBuenos'
           /\ \A e : EquipoBueno(e) => EquipoBueno(e)'
           /\ \A a : AmbitoVivo(a) => AmbitoVivo(a)'
BY DEF Resto, CatalogoBueno, UsuariosBuenos, EquipoBueno, HayUsuario, HayFila, AmbitoVivo

\* A team whose row is written.
LEMMA EquiposQuedan ==
    ASSUME TypeOK, EquiposBuenos, UNCHANGED <<organizacion, usuarios>>, NEW t \in Equipos, NEW e,
           equipos' = [equipos EXCEPT ![t] = e], HayEquipo(t)' => EquipoBueno(e)
    PROVE  EquiposBuenos'
<1> SUFFICES ASSUME NEW s \in Equipos, HayEquipo(s)' PROVE EquipoBueno(equipos[s])'
  BY DEF EquiposBuenos
<1>1. \A d : EquipoBueno(d) => EquipoBueno(d)'
  BY DEF EquipoBueno, HayUsuario, HayFila, AmbitoVivo
<1>2. CASE s = t
  BY <1>1, <1>2 DEF TypeOK
<1>3. CASE s # t
  <2>1. equipos'[s] = equipos[s] /\ HayEquipo(s)
    BY <1>3 DEF HayEquipo, TypeOK
  <2> QED BY <1>1, <2>1 DEF EquiposBuenos
<1> QED BY <1>2, <1>3

\* Teams.
LEMMA RestoCrear ==
    ASSUME TypeOK, TypeOK', Resto, NEW t \in Equipos, CrearEquipo(t)
    PROVE  Resto'
<1>a. UNCHANGED <<organizacion, usuarios>>
  BY DEF CrearEquipo
<1>1. PICK u \in Usuarios, a \in UNION {Alcances[v] : v \in Usuarios}, k \in Codigos \cup {Nada} :
        /\ a.coord # Nada
        /\ PuedeLiderar(u, a)
        /\ EspActiva(a) /\ Propia(a)
        /\ LET e == [ambito |-> a, lider |-> u, activo |-> TRUE, codigo |-> k] IN
             /\ equipos' = [equipos EXCEPT ![t] = e]
             /\ Asegurar(t, e, TRUE, k, procesos)
  BY DEF CrearEquipo
<1> DEFINE e == [ambito |-> a, lider |-> u, activo |-> TRUE, codigo |-> k]
<1>2. e \in Equipo
  BY <1>1, LiderTipo DEF Equipo
<1>3. EquipoBueno(e)
  BY <1>1 DEF PuedeLiderar, EquipoBueno, EspActiva, Resto, UsuariosBuenos
<1>4. equipos' = [equipos EXCEPT ![t] = e] /\ equipos[t] = Nada
  BY <1>1 DEF CrearEquipo
<1>5. PICK prs \in [Refs -> Proceso \cup {Nada}] : prs = procesos
  BY DEF TypeOK
<1>6. Asegurar(t, e, TRUE, k, prs)
  BY <1>1, <1>5
<1>7. \A p \in Proceso : Bueno(p) => Bueno(p)'
  <2>1. \A s \in Equipos : HayEquipo(s) => HayEquipo(s)' /\ equipos'[s].lider = equipos[s].lider
    BY <1>4 DEF HayEquipo, TypeOK
  <2> QED BY <1>a, <2>1, BuenoQueda
<1>8. \A r \in Refs : prs[r] # Nada => Bueno(prs[r])'
  BY <1>5, <1>7 DEF Resto, ProcesosBuenos
<1>9. equipos'[t] = e /\ AmbitoVivo(e.ambito)'
  BY <1>a, <1>3, <1>4, RestoMarco DEF TypeOK, EquipoBueno
<1> HIDE DEF e
<1>10. ProcesosBuenos'
  BY <1>2, <1>6, <1>8, <1>9, AsegurarBueno
<1>11. EquiposBuenos'
  BY <1>a, <1>3, <1>4, EquiposQuedan DEF Resto
<1> QED BY <1>a, <1>10, <1>11, RestoMarco DEF Resto

LEMMA RestoActualizar ==
    ASSUME TypeOK, TypeOK', Resto, NEW t \in Equipos, ActualizarEquipo(t)
    PROVE  Resto'
<1>a. UNCHANGED <<organizacion, usuarios>> /\ HayEquipo(t) /\ equipos[t] \in Equipo
  BY EquipoTipo DEF ActualizarEquipo
<1>1. PICK a \in AmbitoNuevo(t) \cup {equipos[t].ambito}, u \in Usuarios, activo \in BOOLEAN,
           cambia \in BOOLEAN, k \in Codigos \cup {Nada} :
        /\ a.coord # Nada /\ a.esp # Nada
        /\ u # equipos[t].lider => PuedeLiderar(u, a)
        /\ ~cambia => k = equipos[t].codigo
        /\ LET e == [ambito |-> a, lider |-> u, activo |-> activo, codigo |-> k]
               prs == IF u # equipos[t].lider THEN ConLider(t, u) ELSE procesos
           IN /\ equipos' = [equipos EXCEPT ![t] = e]
              /\ Asegurar(t, e, k # Nada /\ (cambia \/ ProcesosDe(t) = {}), k, prs)
  BY DEF ActualizarEquipo
<1> DEFINE e == [ambito |-> a, lider |-> u, activo |-> activo, codigo |-> k]
<1>b. /\ EquipoBueno(equipos[t])
      /\ equipos[t].lider \in Usuarios /\ usuarios[equipos[t].lider] \in Usuario
  BY <1>a, UsuarioTipo DEF Resto, EquiposBuenos, EquipoBueno, Equipo
<1>2. a \in Ambito /\ AmbitoVivo(a) /\ Propia(a)
  BY <1>a, <1>b, <1>1 DEF AmbitoNuevo, EquipoBueno, Resto, UsuariosBuenos, Equipo, Usuario
<1>3. HayUsuario(u) /\ Propia(usuarios[u].ambito)
  BY <1>b, <1>1, <1>2 DEF PuedeLiderar, EquipoBueno
<1>4. e \in Equipo /\ EquipoBueno(e)
  BY <1>1, <1>2, <1>3 DEF Equipo, EquipoBueno
<1>5. equipos' = [equipos EXCEPT ![t] = e]
  BY <1>1
<1>6. PICK prs \in [Refs -> Proceso \cup {Nada}], hace \in BOOLEAN :
        /\ prs = IF u # equipos[t].lider THEN ConLider(t, u) ELSE procesos
        /\ Asegurar(t, e, hace, k, prs)
  BY <1>1, ConLiderTipo DEF TypeOK
<1>7. HayEquipo(t)' /\ equipos'[t].lider = u /\ equipos'[t] = e
  BY <1>4, <1>5, FilasAssumption, ConstantesAssumption DEF HayEquipo, TypeOK
<1>8. \A s \in Equipos \ {t} : HayEquipo(s) => HayEquipo(s)' /\ equipos'[s].lider = equipos[s].lider
  BY <1>5 DEF HayEquipo, TypeOK
<1>9. ASSUME NEW r \in Refs, prs[r] # Nada PROVE Bueno(prs[r])'
  <2>1. procesos[r] # Nada => procesos[r] \in Proceso /\ Bueno(procesos[r])
    BY DEF Resto, ProcesosBuenos, TypeOK
  <2>2. CASE procesos[r] # Nada /\ procesos[r].equipo = t /\ u # equipos[t].lider
    <3>1. prs[r] = [procesos[r] EXCEPT !.lider = u]
      BY <1>6, <2>2 DEF ConLider, ProcesosDe
    <3>2. prs[r].ambito = procesos[r].ambito /\ prs[r].equipo = t /\ prs[r].lider = u
      BY <2>1, <2>2, <3>1 DEF Proceso
    <3>3. AmbitoVivo(prs[r].ambito)' /\ t # Nada
      BY <1>a, <2>1, <2>2, <3>2, ConstantesAssumption DEF Bueno, AmbitoVivo, HayFila
    <3> QED BY <1>7, <3>2, <3>3 DEF Bueno, HayEquipo
  <2>3. CASE ~(procesos[r] # Nada /\ procesos[r].equipo = t /\ u # equipos[t].lider)
    <3>1. prs[r] = procesos[r]
      BY <1>6, <2>3 DEF ConLider, ProcesosDe
    <3>2. prs[r] \in Proceso /\ Bueno(prs[r])
      BY <1>9, <2>1, <3>1
    <3>3. prs[r].equipo = t => equipos'[t].lider = equipos[t].lider
      BY <1>7, <1>9, <2>3, <3>1
    <3> QED BY <1>a, <1>7, <1>8, <3>2, <3>3 DEF Bueno, AmbitoVivo, HayFila, HayEquipo, Proceso
  <2> QED BY <2>2, <2>3
<1>10. AmbitoVivo(e.ambito)'
  BY <1>a, <1>2, RestoMarco
<1> HIDE DEF e
<1>11. ProcesosBuenos'
  BY <1>4, <1>6, <1>7, <1>9, <1>10, AsegurarBueno
<1>12. EquiposBuenos'
  BY <1>a, <1>4, <1>5, EquiposQuedan DEF Resto
<1> QED BY <1>a, <1>11, <1>12, RestoMarco DEF Resto

\* The rows of the teams stay: what a request ensures is good.
LEMMA RestoAsegurar ==
    ASSUME TypeOK, TypeOK', Resto, UNCHANGED <<organizacion, usuarios, equipos>>,
           NEW t \in Equipos, HayEquipo(t), NEW k \in Codigos \cup {Nada},
           Asegurar(t, equipos[t], TRUE, k, procesos)
    PROVE  Resto'
<1>1. PICK prs \in [Refs -> Proceso \cup {Nada}], e \in Equipo : prs = procesos /\ e = equipos[t]
  BY EquipoTipo DEF TypeOK
<1>2. Asegurar(t, e, TRUE, k, prs) /\ equipos'[t] = e
  BY <1>1
<1>3. AmbitoVivo(e.ambito)'
  BY <1>1, RestoMarco DEF Resto, EquiposBuenos, EquipoBueno
<1>4. \A p \in Proceso : Bueno(p) => Bueno(p)'
  BY BuenoQueda DEF HayEquipo
<1>5. \A r \in Refs : prs[r] # Nada => Bueno(prs[r])'
  BY <1>1, <1>4 DEF Resto, ProcesosBuenos
<1>6. ProcesosBuenos'
  BY <1>2, <1>3, <1>5, AsegurarBueno
<1>7. EquiposBuenos'
  BY RestoMarco DEF Resto, EquiposBuenos, HayEquipo
<1> QED BY <1>6, <1>7, RestoMarco DEF Resto

LEMMA RestoRegistro ==
    ASSUME TypeOK, TypeOK', Resto, NEW t \in Equipos,
           EliminarEquipo(t) \/ Autorizar(t) \/ Desautorizar(t)
    PROVE  Resto'
<1>a. UNCHANGED <<organizacion, usuarios>> /\ HayEquipo(t) /\ equipos[t] \in Equipo
  BY EquipoTipo DEF EliminarEquipo, Autorizar, Desautorizar
<1>1. CASE EliminarEquipo(t)
  <2>1. equipos' = [equipos EXCEPT ![t] = Retirado] /\ ~HayEquipo(t)'
    BY <1>1 DEF EliminarEquipo, HayEquipo, TypeOK
  <2>2. EquiposBuenos'
    BY <1>a, <2>1, EquiposQuedan DEF Resto
  <2>3. \A p \in Proceso : Bueno(p) /\ p.equipo # t => Bueno(p)'
    BY <1>a, <2>1 DEF Bueno, AmbitoVivo, HayFila, HayEquipo, Proceso, TypeOK
  <2>4. \A p \in Proceso : Bueno(p) => Bueno(Desligado(p))'
    BY <1>a DEF Bueno, AmbitoVivo, HayFila, Desligado, Proceso
  <2>5. procesos' = [r \in Refs |-> IF r \in ProcesosDe(t) THEN Desligado(procesos[r])
                                    ELSE procesos[r]]
    BY <1>1 DEF EliminarEquipo
  <2>6. ProcesosBuenos'
    BY <2>3, <2>4, <2>5 DEF ProcesosDe, ProcesosBuenos, Resto, TypeOK
  <2> QED BY <1>a, <2>2, <2>6, RestoMarco DEF Resto
<1>2. CASE Autorizar(t) \/ Desautorizar(t)
  <2>1. PICK k \in Codigos \cup {Nada} : equipos' = [equipos EXCEPT ![t].codigo = k]
    BY <1>2 DEF Autorizar, Desautorizar
  <2>2. PICK e : e = [equipos[t] EXCEPT !.codigo = k]
    OBVIOUS
  <2>3. /\ e \in Equipo /\ e.ambito = equipos[t].ambito /\ e.lider = equipos[t].lider
        /\ equipos' = [equipos EXCEPT ![t] = e]
    BY <1>a, <2>1, <2>2 DEF Equipo, TypeOK
  <2>4. EquipoBueno(e)
    BY <1>a, <2>3 DEF Resto, EquiposBuenos, EquipoBueno
  <2>5. EquiposBuenos'
    BY <1>a, <2>3, <2>4, EquiposQuedan DEF Resto
  <2>6. \A s \in Equipos : HayEquipo(s) => HayEquipo(s)' /\ equipos'[s].lider = equipos[s].lider
    BY <1>a, <2>3, FilasAssumption DEF HayEquipo, TypeOK
  <2>7. ProcesosBuenos'
    BY <1>a, <1>2, <2>6, BuenoQueda DEF Autorizar, Desautorizar, ProcesosBuenos, Resto, TypeOK
  <2> QED BY <1>a, <2>5, <2>7, RestoMarco DEF Resto
<1> QED BY <1>1, <1>2

\* Steps that write no row of the catalogue, a user or a team.
LEMMA RestoProcesos ==
    ASSUME TypeOK, Resto, UNCHANGED <<organizacion, usuarios, equipos>>,
           \A r \in Refs : procesos'[r] # Nada => Bueno(procesos'[r])
    PROVE  Resto'
<1>1. \A p : Bueno(p) => Bueno(p)'
  BY DEF Bueno, AmbitoVivo, HayFila, HayEquipo
<1>2. ProcesosBuenos'
  BY <1>1 DEF ProcesosBuenos
<1>3. EquiposBuenos'
  BY RestoMarco DEF Resto, EquiposBuenos, HayEquipo
<1> QED BY <1>2, <1>3, RestoMarco DEF Resto

LEMMA BuenoHeredadoDe ==
    ASSUME TypeOK, Resto, NEW t \in Equipos, HayEquipo(t), NEW v \in Codigos \cup {Nada}
    PROVE  Bueno(Heredado(t, equipos[t], v))
BY EquipoTipo, BuenoHeredado DEF Resto, EquiposBuenos, EquipoBueno

LEMMA RestoAdministrados ==
    ASSUME TypeOK, Resto, NEW r \in Refs,
           \/ \E t \in Equipos : AsignarProceso(r, t)
           \/ DesasignarProceso(r) \/ BorrarProceso(r)
    PROVE  Resto'
<1>1. ASSUME NEW t \in Equipos, AsignarProceso(r, t) PROVE Resto'
  <2> DEFINE k == IF procesos[r] = Nada THEN Nada ELSE procesos[r].prog
  <2>1. k \in Codigos \cup {Nada}
    BY DEF TypeOK, Proceso
  <2>2. Bueno(Heredado(t, equipos[t], k))
    BY <1>1, <2>1, BuenoHeredadoDe DEF AsignarProceso
  <2>3. procesos' = [procesos EXCEPT ![r] = Heredado(t, equipos[t], k)]
    BY <1>1 DEF AsignarProceso
  <2> HIDE DEF k
  <2>4. \A s \in Refs : procesos'[s] # Nada => Bueno(procesos'[s])
    BY <2>2, <2>3 DEF Resto, ProcesosBuenos, TypeOK
  <2> QED BY <1>1, <2>4, RestoProcesos DEF AsignarProceso
<1>2. CASE DesasignarProceso(r)
  <2>1. \A p \in Proceso : Bueno(p) => Bueno(Desligado(p))
    BY DEF Bueno, Desligado, Proceso
  <2>2. \A s \in Refs : procesos'[s] # Nada => Bueno(procesos'[s])
    BY <1>2, <2>1 DEF DesasignarProceso, Resto, ProcesosBuenos, TypeOK
  <2> QED BY <1>2, <2>2, RestoProcesos DEF DesasignarProceso
<1>3. CASE BorrarProceso(r)
  BY <1>3, RestoProcesos DEF BorrarProceso, Resto, ProcesosBuenos, TypeOK
<1> QED BY <1>1, <1>2, <1>3

\* The row a request is authorised with, healed or not, is good.
LEMMA AutorizadosBuenos ==
    ASSUME TypeOK, Resto, NEW u \in Usuarios, HayUsuario(u), NEW r \in Refs,
           NEW p \in Autorizados(u, r)
    PROVE  Bueno(p)
<1>1. CASE procesos[r] # Nada
  BY <1>1 DEF Autorizados, Resto, ProcesosBuenos
<1>2. CASE procesos[r] = Nada
  <2>1. PICK t \in EquipoSanador(u, r) : p = Sanado(u, t) /\ borradores[r] # Nada
    BY <1>2 DEF Autorizados
  <2>2. CASE t # Nada
    <3>1. t \in Equipos /\ HayEquipo(t)
      BY <2>1, <2>2, SanadorHay
    <3> QED BY <2>1, <2>2, <3>1, BuenoHeredadoDe DEF Sanado
  <2>3. CASE t = Nada
    BY <2>1, <2>3 DEF Sanado, Bueno, Resto, UsuariosBuenos
  <2> QED BY <2>2, <2>3
<1> QED BY <1>1, <1>2

LEMMA RestoPropios ==
    ASSUME TypeOK, TypeOK', Resto, NEW u \in Usuarios, NEW r \in Refs,
           \/ SanarProceso(u, r) \/ AnclarBorrador(u, r)
           \/ ImportarPrograma(u, r) \/ EliminarCargue(u, r)
    PROVE  Resto'
<1>a. UNCHANGED <<organizacion, usuarios, equipos>>
  BY DEF SanarProceso, AnclarBorrador, ImportarPrograma, EliminarCargue
<1>b. \A p \in Proceso : Bueno(p) => \A v \in Codigos \cup {Nada} : Bueno([p EXCEPT !.prog = v])
  BY BuenoConPrograma
<1>1. CASE SanarProceso(u, r)
  <2>1. PICK p \in Autorizados(u, r) : procesos' = [procesos EXCEPT ![r] = p]
    BY <1>1 DEF SanarProceso
  <2>2. Bueno(p)
    BY <1>1, AutorizadosBuenos DEF SanarProceso, Sesion
  <2>3. \A s \in Refs : procesos'[s] # Nada => Bueno(procesos'[s])
    BY <2>1, <2>2 DEF Resto, ProcesosBuenos, TypeOK
  <2> QED BY <1>a, <2>3, RestoProcesos
<1>2. CASE AnclarBorrador(u, r)
  <2>1. PICK t \in EquiposAncla(u) :
          procesos' = [procesos EXCEPT ![r] =
                IF t # Nada THEN Heredado(t, equipos[t], Nada)
                ELSE [ambito |-> SinAmbito, equipo |-> Nada, lider |-> Nada,
                      asignado |-> FALSE, prog |-> Nada]]
    BY <1>2 DEF AnclarBorrador
  <2>2. t # Nada => Bueno(Heredado(t, equipos[t], Nada))
    BY AnclaHay, BuenoHeredadoDe
  <2>3. Bueno([ambito |-> SinAmbito, equipo |-> Nada, lider |-> Nada,
               asignado |-> FALSE, prog |-> Nada])
    BY DEF Bueno, AmbitoVivo, SinAmbito
  <2>4. \A s \in Refs : procesos'[s] # Nada => Bueno(procesos'[s])
    BY <2>1, <2>2, <2>3 DEF Resto, ProcesosBuenos, TypeOK
  <2> QED BY <1>a, <2>4, RestoProcesos
<1>3. CASE ImportarPrograma(u, r)
  <2>1. PICK k \in Codigos \ cargados, p \in Autorizados(u, r) :
          LET q == [Religado(p, borradores[r].equipo) EXCEPT !.prog = k] IN
          /\ q.equipo # Nada => HayEquipo(q.equipo)
          /\ cargados' = cargados \cup {k}
          /\ procesos' = [s \in Refs |->
                 IF s = r THEN q
                 ELSE IF procesos[s] # Nada /\ q.equipo # Nada /\ procesos[s].equipo = q.equipo
                         /\ procesos[s].prog \in {Nada, k} THEN Nada
                 ELSE procesos[s]]
    BY <1>3 DEF ImportarPrograma
  <2> DEFINE m == borradores[r].equipo
             q == [Religado(p, m) EXCEPT !.prog = k]
  <2>2. p \in Proceso /\ Bueno(p)
    BY <1>3, AutorizadosTipo, AutorizadosBuenos DEF ImportarPrograma, Sesion
  <2>3. /\ q.ambito = p.ambito /\ q.lider = p.lider
        /\ \/ q.equipo = p.equipo /\ q.asignado = p.asignado
           \/ q.equipo = m /\ p.equipo = Nada /\ m # Nada
    BY <2>2 DEF Religado, Proceso
  <2>4. Bueno(q)
    <3>1. q.equipo # Nada => HayEquipo(q.equipo)
      BY <2>1
    <3> HIDE DEF q
    <3> QED BY <2>2, <2>3, <3>1 DEF Bueno
  <2>5. \A s \in Refs : procesos'[s] # Nada => Bueno(procesos'[s])
    BY <2>1, <2>4 DEF Resto, ProcesosBuenos, TypeOK
  <2> QED BY <1>a, <2>5, RestoProcesos
<1>4. CASE EliminarCargue(u, r)
  <2>1. PICK k \in cargados \cup {Nada} :
          procesos' = [s \in Refs |->
                 IF s = r \/ procesos[s] = Nada THEN Nada
                 ELSE [procesos[s] EXCEPT !.prog = IF @ = k THEN Nada ELSE @]]
    BY <1>4 DEF EliminarCargue
  <2>2. \A p \in Proceso : Bueno(p) => Bueno([p EXCEPT !.prog = IF @ = k THEN Nada ELSE @])
    BY DEF Bueno, Proceso
  <2>3. \A s \in Refs : procesos'[s] # Nada => Bueno(procesos'[s])
    BY <2>1, <2>2 DEF Resto, ProcesosBuenos, TypeOK
  <2> QED BY <1>a, <2>3, RestoProcesos
<1> QED BY <1>1, <1>2, <1>3, <1>4

LEMMA RestoPaso == TypeOK /\ TypeOK' /\ Resto /\ [Next]_vars => Resto'
<1> SUFFICES ASSUME TypeOK, TypeOK', Resto, [Next]_vars PROVE Resto'
  OBVIOUS
<1>1. CASE UNCHANGED <<organizacion, usuarios, equipos, procesos>>
  BY <1>1, RestoProcesos DEF Resto, ProcesosBuenos
<1>2. CASE \E x \in Filas \ Fijas :
             CrearFila(x) \/ DesactivarFila(x) \/ ReactivarFila(x) \/ EliminarFila(x)
  BY <1>2, RestoFilas
<1>3. CASE \E u \in Movibles : CrearUsuario(u) \/ CambiarEstado(u) \/ EliminarUsuario(u)
  BY <1>3, ConstantesAssumption, RestoUsuarios
<1>4. ASSUME NEW u \in Usuarios, NEW t \in Equipos,
             AgregarMiembro(t, u) \/ CambiarMembresia(t, u) \/ IniciarProceso(u, t)
      PROVE  Resto'
  <2>1. CASE IniciarProceso(u, t)
    BY <2>1, RestoAsegurar DEF IniciarProceso
  <2>2. CASE AgregarMiembro(t, u) \/ CambiarMembresia(t, u)
    BY <1>1, <2>2 DEF AgregarMiembro, CambiarMembresia
  <2> QED BY <1>4, <2>1, <2>2
<1>5. CASE \E u \in Usuarios : ActualizarUsuario(u) \/ \E r \in Refs :
             \/ SanarProceso(u, r) \/ AnclarBorrador(u, r)
             \/ ImportarPrograma(u, r) \/ EliminarCargue(u, r)
  BY <1>5, RestoUsuarios, RestoPropios
<1>6. ASSUME NEW t \in Equipos, SanarEquipo(t) PROVE Resto'
  <2>1. equipos[t].codigo \in Codigos \cup {Nada}
    BY <1>6, EquipoTipo DEF SanarEquipo, Equipo
  <2> QED BY <1>6, <2>1, RestoAsegurar DEF SanarEquipo
<1>7. CASE \E t \in Equipos :
             \/ CrearEquipo(t) \/ ActualizarEquipo(t) \/ EliminarEquipo(t)
             \/ Autorizar(t) \/ Desautorizar(t)
  BY <1>7, RestoCrear, RestoActualizar, RestoRegistro
<1>8. CASE \E r \in Refs : \/ \E t \in Equipos : AsignarProceso(r, t)
                           \/ DesasignarProceso(r) \/ BorrarProceso(r)
  BY <1>8, RestoAdministrados
<1>9. CASE UNCHANGED vars
  BY <1>1, <1>9 DEF vars
<1> QED BY <1>2, <1>3, <1>4, <1>5, <1>6, <1>7, <1>8, <1>9
    DEF Next, OrganizacionNext, UsuariosNext, EquiposNext, ProcesosNext, UsoNext

LEMMA SiempreInd == Spec => []IndEquipos
<1>1. Init => IndEquipos
  BY TipoInicial, RestoInicial DEF IndEquipos
<1>2. IndEquipos /\ [Next]_vars => IndEquipos'
  <2>1. IndEquipos /\ [Next]_vars => TypeOK'
    BY TipoPaso DEF IndEquipos, Resto
  <2> QED BY <2>1, RestoPaso DEF IndEquipos
<1> QED BY <1>1, <1>2, PTL DEF Spec

-----------------------------------------------------------------------------
(* The properties.                                                          *)

\* Rows of the catalogue, users, teams and processes keep their shapes.
THEOREM TiposEquipos == Spec => []TypeOK
BY SiempreInd, PTL DEF IndEquipos

\* No deletion of a coordination, a specialty, a user or a team leaves a
\* reference to it behind.
THEOREM SinReferenciasMuertas == Spec => []ReferenciasVivas
<1>1. IndEquipos => ReferenciasVivas
  BY DEF IndEquipos, Resto, CatalogoBueno, UsuariosBuenos, EquiposBuenos, EquipoBueno,
         ProcesosBuenos, Bueno, ReferenciasVivas
<1> QED BY <1>1, SiempreInd, PTL

\* The specialty of a team, and the one of its leader, is always one of its
\* coordination, however scopes and leaders change.
THEOREM EspecialidadPropia == Spec => []EspecialidadDelEquipo
<1>1. IndEquipos => EspecialidadDelEquipo
  BY DEF IndEquipos, Resto, EquiposBuenos, EquipoBueno, EspecialidadDelEquipo
<1> QED BY <1>1, SiempreInd, PTL

\* Whatever the teams, the assignments, the healings and the imports do, only
\* the leader and the active members of an active team get into its process.
THEOREM SoloSuEquipo == Spec => []AccesoDelEquipo
<1>1. IndEquipos => AccesoDelEquipo
  <2> SUFFICES ASSUME IndEquipos, NEW u \in Usuarios, NEW r \in Refs, procesos[r] # Nada,
                      PuedeAcceder(u, procesos[r])
               PROVE  /\ HayEquipo(procesos[r].equipo)
                      /\ equipos[procesos[r].equipo].activo
                      /\ EnEquipo(u, procesos[r].equipo)
    BY DEF AccesoDelEquipo
  <2>1. Bueno(procesos[r]) /\ u # Nada
    BY ConstantesAssumption DEF IndEquipos, Resto, ProcesosBuenos
  <2>2. procesos[r].equipo # Nada
    BY <2>1 DEF Bueno, PuedeAcceder
  <2> QED BY <2>1, <2>2 DEF Bueno, PuedeAcceder, EnEquipo
<1> QED BY <1>1, SiempreInd, PTL

\* The lists of a user show exactly the processes whose pages let the user in.
THEOREM ListaComoAcceso == Spec => []ListadoFiel
<1>1. IndEquipos => ListadoFiel
  <2> SUFFICES ASSUME IndEquipos, NEW u \in Usuarios, NEW r \in Refs, procesos[r] # Nada
               PROVE  r \in Permitidas(u) <=> PuedeAcceder(u, procesos[r])
    BY DEF ListadoFiel, Permitidas
  <2>1. Bueno(procesos[r])
    BY DEF IndEquipos, Resto, ProcesosBuenos
  <2>2. CASE procesos[r].equipo = Nada
    BY <2>1, <2>2 DEF Bueno, Permitidas, PuedeAcceder
  <2>3. CASE procesos[r].equipo # Nada
    BY <2>1, <2>3 DEF Bueno, Permitidas, PuedeAcceder
  <2> QED BY <2>2, <2>3
<1> QED BY <1>1, SiempreInd, PTL
=============================================================================
