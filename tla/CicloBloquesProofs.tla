-------------------------- MODULE CicloBloquesProofs --------------------------
(****************************************************************************)
(* What is proved of CicloBloques for every number of references, programs  *)
(* and projects: the types, the three properties of the rows and that the   *)
(* cycle implements CicloPrograma.  The properties only depend on the rows, *)
(* so each step is first reduced to what it does to them (Efecto).  None    *)
(* needs a program to have one project of a key, so the last section proves *)
(* them of ConfirmacionesSolapadas as well, where it may have several.      *)
(****************************************************************************)
EXTENDS ConfirmacionesSolapadas, TLAPS

-----------------------------------------------------------------------------
(* Types.                                                                   *)

\* The process a request is authorised with is a process.
LEMMA AutorizadoTipo ==
    ASSUME TypeOK, NEW ref \in Refs, NEW proc \in Autorizado(ref)
    PROVE  proc \in Proceso
<1> USE ConstantesAssumption
<1>1. CASE procesos[ref] # Nada
  BY <1>1 DEF TypeOK, Autorizado, Proceso
<1>2. CASE procesos[ref] = Nada
  <2>1. PICK p \in {borradorPrograma[ref].confirmado, borradorPrograma[ref].prog,
                    borradorProyecto[ref].prog} :
          /\ proc = [prog |-> p, proy |-> Nada]
          /\ p = Nada \/ Existe(p)
          /\ \/ borradorPrograma[ref] # Nada
                /\ p \in {borradorPrograma[ref].confirmado, borradorPrograma[ref].prog}
             \/ borradorProyecto[ref] # Nada /\ p = borradorProyecto[ref].prog
    BY <1>2 DEF Autorizado, Sanados, ProgramaSanado
  <2>2. p \in Programas \cup {Nada}
    BY <2>1 DEF TypeOK, BorradorPrograma, BorradorProyecto
  <2> QED BY <2>1, <2>2 DEF Proceso
<1> QED BY <1>1, <1>2

LEMMA CambiarProgramaTipo ==
    ASSUME TypeOK, NEW ref \in Refs, NEW d \in BorradorPrograma, CambiarPrograma(ref, d)
    PROVE  /\ procesos' \in [Refs -> Proceso \cup {Nada}]
           /\ borradorPrograma' \in [Refs -> BorradorPrograma \cup {Nada}]
BY AutorizadoTipo DEF CambiarPrograma, TypeOK

LEMMA CambiarProyectoTipo ==
    ASSUME TypeOK, NEW ref \in Refs, NEW d \in BorradorProyecto, CambiarProyecto(ref, d)
    PROVE  /\ procesos' \in [Refs -> Proceso \cup {Nada}]
           /\ borradorProyecto' \in [Refs -> BorradorProyecto \cup {Nada}]
BY AutorizadoTipo DEF CambiarProyecto, TypeOK

LEMMA AncladoTipo ==
    ASSUME TypeOK, NEW ref \in Refs
    PROVE  Anclado(ref) \in Proceso
BY DEF Anclado, TypeOK, Proceso

\* The drafts the handlers write down when they make one up.
LEMMA VacioTipo ==
    ASSUME NEW p \in Programas \cup {Nada}, NEW r \in BOOLEAN
    PROVE  /\ [ProgramaVacio EXCEPT !.prog = p] \in BorradorPrograma
           /\ ProgramaVacio \in BorradorPrograma
           /\ ProyectoVacio(r, p) \in BorradorProyecto
           /\ Bloqueado(p) \in BorradorProyecto
BY DEF ProgramaVacio, ProyectoVacio, Bloqueado, BorradorPrograma, BorradorProyecto

\* The program of a project draft is one, when there is one.
LEMMA AsociadosTipo ==
    ASSUME TypeOK, NEW ref \in Refs, borradorProyecto[ref] # Nada
    PROVE  Asociados(ref) \subseteq Programas
<1>1. borradorProyecto[ref] \in BorradorProyecto
  BY DEF TypeOK
<1>2. ASSUME borradorPrograma[ref] # Nada PROVE ProgramaDeclarado(borradorPrograma[ref]) \in Programas \cup {Nada}
  BY <1>2 DEF TypeOK, BorradorPrograma, ProgramaDeclarado
<1> QED BY <1>1, <1>2 DEF Asociados, Existe, BorradorProyecto

LEMMA ProgramaDelGateTipo ==
    ASSUME TypeOK, NEW ref \in Refs, borradorProyecto[ref] # Nada
    PROVE  ProgramaDelGate(ref) \in Programas \cup {Nada}
BY DEF TypeOK, ProgramaDelGate, ProgramaDeclarado, BorradorPrograma, BorradorProyecto

LEMMA ProgramaDelCargueTipo ==
    ASSUME TypeOK, NEW ref \in Refs
    PROVE  ProgramaDelCargue(ref) \in Programas \cup {Nada}
BY DEF TypeOK, ProgramaDelCargue, BorradorPrograma, BorradorProyecto

\* The database before any program is well formed.
LEMMA TipoInicial == Init => TypeOK
BY DEF Init, TypeOK, Fila

\* What the tab holds.
LEMMA PestanaTipo ==
    ASSUME TypeOK, pestana # Nada
    PROVE  /\ pestana.ref \in Refs
           /\ pestana.bloque = "PROGRAMA" => pestana.copia \in BorradorPrograma
           /\ pestana.bloque = "PROYECTO" => pestana.copia \in BorradorProyecto
BY DEF TypeOK

\* The drafts.
LEMMA TipoBorradores ==
    ASSUME TypeOK, NEW ref \in Refs,
           \/ IniciarPrograma(ref) \/ ObtenerPrograma(ref) \/ ObtenerProyecto(ref)
           \/ AbrirPrograma(ref) \/ AbrirProyecto(ref) \/ Autoguardar
    PROVE  TypeOK'
<1>1. CASE IniciarPrograma(ref)
  BY <1>1, AncladoTipo, VacioTipo DEF IniciarPrograma, GuardarPrograma, TypeOK
<1>2. CASE ObtenerPrograma(ref)
  <2>1. PICK proc \in Autorizado(ref) : CambiarPrograma(ref, [ProgramaVacio EXCEPT !.prog = proc.prog])
    BY <1>2 DEF ObtenerPrograma
  <2>2. [ProgramaVacio EXCEPT !.prog = proc.prog] \in BorradorPrograma
    BY AutorizadoTipo, VacioTipo DEF Proceso
  <2> QED BY <1>2, <2>1, <2>2, CambiarProgramaTipo DEF ObtenerPrograma, TypeOK
<1>3. CASE ObtenerProyecto(ref)
  <2>1. PICK proc \in Autorizado(ref) :
          CambiarProyecto(ref, [ProyectoVacio(TRUE, proc.prog) EXCEPT !.formativo = proc.proy])
    BY <1>3 DEF ObtenerProyecto
  <2>2. [ProyectoVacio(TRUE, proc.prog) EXCEPT !.formativo = proc.proy] \in BorradorProyecto
    BY AutorizadoTipo DEF Proceso, ProyectoVacio, BorradorProyecto
  <2> QED BY <1>3, <2>1, <2>2, CambiarProyectoTipo DEF ObtenerProyecto, TypeOK
<1>4. CASE AbrirPrograma(ref)
  <2>1. borradorPrograma[ref] \in BorradorPrograma
    BY <1>4 DEF AbrirPrograma, TypeOK
  <2> QED BY <1>4, <2>1, CambiarProgramaTipo DEF AbrirPrograma, TypeOK
<1>5. CASE AbrirProyecto(ref)
  <2> DEFINE d == borradorProyecto[ref]
             q == ProgramaDelGate(ref)
             copia == [d EXCEPT !.prog = IF q # Nada THEN q ELSE @,
                                !.ref = @ \/ borradorPrograma[ref] # Nada]
  <2>1. d \in BorradorProyecto
    BY <1>5 DEF AbrirProyecto, TypeOK
  <2>2. q \in Programas \cup {Nada}
    BY <1>5, ProgramaDelGateTipo DEF AbrirProyecto
  <2>3. copia \in BorradorProyecto
    BY <2>1, <2>2 DEF BorradorProyecto
  <2>4. pestana' = [bloque |-> "PROYECTO", ref |-> ref, copia |-> copia]
    BY <1>5 DEF AbrirProyecto
  <2> QED BY <1>5, <2>1, <2>3, <2>4, CambiarProyectoTipo DEF AbrirProyecto, TypeOK
<1>6. CASE Autoguardar
  <2>1. CASE pestana.bloque = "PROGRAMA" /\ GuardarPrograma(pestana.ref, pestana.copia)
    BY <1>6, <2>1, PestanaTipo, AncladoTipo DEF Autoguardar, GuardarPrograma, TypeOK
  <2>2. CASE pestana.bloque = "PROYECTO" /\ GuardarProyecto(pestana.ref, pestana.copia)
    BY <1>6, <2>2, PestanaTipo, AncladoTipo DEF Autoguardar, GuardarProyecto, TypeOK
  <2> QED BY <1>6, <2>1, <2>2 DEF Autoguardar
<1> QED BY <1>1, <1>2, <1>3, <1>4, <1>5, <1>6

\* The block of the program.
LEMMA TipoPrograma ==
    ASSUME TypeOK, NEW ref \in Refs,
           \/ PrevisualizarPrograma(ref) \/ ConfirmarPrograma(ref) \/ AdjuntarPrograma(ref)
           \/ SubirPdfPrograma(ref) \/ CerrarPrograma(ref)
    PROVE  TypeOK'
<1> DEFINE d == borradorPrograma[ref]
<1>0. d \in BorradorPrograma
  BY DEF TypeOK, PrevisualizarPrograma, ConfirmarPrograma, AdjuntarPrograma,
         SubirPdfPrograma, CerrarPrograma
<1>1. CASE PrevisualizarPrograma(ref)
  <2>1. PICK proc \in Autorizado(ref), c \in Codigos \cup {Nada} :
          CambiarPrograma(ref, [d EXCEPT !.vista = c, !.confirmado = Nada, !.estado = "BORRADOR"])
    BY <1>1 DEF PrevisualizarPrograma, Cargables
  <2>2. [d EXCEPT !.vista = c, !.confirmado = Nada, !.estado = "BORRADOR"] \in BorradorPrograma
    BY <1>0 DEF BorradorPrograma, Cargables
  <2> QED BY <1>1, <2>1, <2>2, CambiarProgramaTipo DEF PrevisualizarPrograma, TypeOK
<1>2. CASE ConfirmarPrograma(ref)
  <2>1. PICK p \in FilaDestino(d), proc \in Autorizado(ref) :
          /\ programas' = [programas EXCEPT ![p] = "BORRADOR"]
          /\ procesos' = TrasImportar(ref, p, proc)
          /\ borradorPrograma' = [borradorPrograma EXCEPT ![ref] =
                 [d EXCEPT !.prog = p, !.confirmado = p, !.datos = TRUE]]
    BY <1>2 DEF ConfirmarPrograma
  <2>2. p \in Programas
    BY DEF FilaDestino, ConCodigo, ProgramasNuevos
  <2>3. procesos' \in [Refs -> Proceso \cup {Nada}]
    BY <2>1, <2>2, AutorizadoTipo DEF TrasImportar, TypeOK, Proceso
  <2>4. [d EXCEPT !.prog = p, !.confirmado = p, !.datos = TRUE] \in BorradorPrograma
    BY <1>0, <2>2 DEF BorradorPrograma
  <2> QED BY <1>2, <2>1, <2>2, <2>3, <2>4 DEF ConfirmarPrograma, TypeOK, Fila
<1>3. CASE AdjuntarPrograma(ref)
  <2>1. PICK p \in Adjuntables(codigoDe[d.prog]) :
          /\ programas' = [programas EXCEPT ![p] = IF Viva(@) THEN @ ELSE "BORRADOR"]
          /\ CambiarPrograma(ref, [d EXCEPT !.prog = p])
    BY <1>3 DEF AdjuntarPrograma
  <2>2. p \in Programas
    BY DEF Adjuntables, ConCodigo, ProgramasNuevos
  <2>3. [d EXCEPT !.prog = p] \in BorradorPrograma
    BY <1>0, <2>2 DEF BorradorPrograma
  <2> QED BY <1>3, <2>1, <2>2, <2>3, CambiarProgramaTipo DEF AdjuntarPrograma, TypeOK, Fila
<1>4. CASE SubirPdfPrograma(ref)
  <2>1. [d EXCEPT !.pdf = TRUE] \in BorradorPrograma
    BY <1>0 DEF BorradorPrograma
  <2> QED BY <1>4, <2>1, CambiarProgramaTipo DEF SubirPdfPrograma, TypeOK
<1>5. CASE CerrarPrograma(ref)
  <2>1. [d EXCEPT !.estado = "COMPLETO"] \in BorradorPrograma
    BY <1>0 DEF BorradorPrograma
  <2> QED BY <1>5, <2>1, CambiarProgramaTipo DEF CerrarPrograma, TypeOK, Fila
<1> QED BY <1>1, <1>2, <1>3, <1>4, <1>5

\* The block of the project.
LEMMA TipoProyecto ==
    ASSUME TypeOK, NEW ref \in Refs,
           \/ PrevisualizarProyecto(ref) \/ ConfirmarProyecto(ref)
           \/ SubirPdfProyecto(ref) \/ CerrarProyecto(ref)
    PROVE  TypeOK'
<1> DEFINE d == borradorProyecto[ref]
<1>0. d # Nada /\ d \in BorradorProyecto
  BY DEF TypeOK, PrevisualizarProyecto, ConfirmarProyecto, SubirPdfProyecto, CerrarProyecto
<1>1. CASE PrevisualizarProyecto(ref)
  <2>1. PICK p \in Asociados(ref), k \in Claves \cup {Nada} :
          CambiarProyecto(ref, [d EXCEPT !.prog = p, !.vista = k, !.confirmado = Nada,
                                         !.estado = "BORRADOR"])
    BY <1>1 DEF PrevisualizarProyecto
  <2>2. [d EXCEPT !.prog = p, !.vista = k, !.confirmado = Nada, !.estado = "BORRADOR"]
          \in BorradorProyecto
    BY <1>0, AsociadosTipo DEF BorradorProyecto
  <2> QED BY <1>1, <2>1, <2>2, CambiarProyectoTipo DEF PrevisualizarProyecto, TypeOK
<1>2. CASE ConfirmarProyecto(ref)
  <2>1. PICK p \in Asociados(ref), y \in Proyectos, proc \in Autorizado(ref) :
          /\ proyectos' = [proyectos EXCEPT ![y] = [estado |-> "BORRADOR", prog |-> p]]
          /\ procesos' = [procesos EXCEPT ![ref] = ConProyecto(ref, p, y, proc)]
          /\ borradorProyecto' = [borradorProyecto EXCEPT ![ref] =
                 [d EXCEPT !.prog = p, !.confirmado = y, !.datos = TRUE]]
    BY <1>2 DEF ConfirmarProyecto
  <2>2. p \in Programas
    BY <1>0, AsociadosTipo
  <2>3. ConProyecto(ref, p, y, proc) \in Proceso
    BY <2>2, AutorizadoTipo DEF ConProyecto, Proceso
  <2>4. [d EXCEPT !.prog = p, !.confirmado = y, !.datos = TRUE] \in BorradorProyecto
    BY <1>0, <2>2 DEF BorradorProyecto
  <2> QED BY <1>2, <2>1, <2>2, <2>3, <2>4 DEF ConfirmarProyecto, TypeOK, Fila
<1>3. CASE SubirPdfProyecto(ref)
  <2>1. [d EXCEPT !.pdf = TRUE, !.estado = "BORRADOR"] \in BorradorProyecto
    BY <1>0 DEF BorradorProyecto
  <2> QED BY <1>3, <2>1, CambiarProyectoTipo DEF SubirPdfProyecto, TypeOK
<1>4. CASE CerrarProyecto(ref)
  <2>1. [d EXCEPT !.estado = "COMPLETO"] \in BorradorProyecto
    BY <1>0 DEF BorradorProyecto
  <2>2. proyectos' \in [Proyectos -> [estado: Fila, prog: Programas \cup {Nada}]]
    BY <1>4 DEF CerrarProyecto, TypeOK, Fila
  <2> QED BY <1>4, <2>1, <2>2, CambiarProyectoTipo DEF CerrarProyecto, TypeOK
<1> QED BY <1>1, <1>2, <1>3, <1>4

\* What is left of the processes is well formed.
LEMMA DesligadoTipo ==
    ASSUME TypeOK, NEW q \in Refs, NEW p, NEW ys
    PROVE  Desligado(procesos[q], p, ys) \in Proceso \cup {Nada}
BY DEF TypeOK, Desligado, Proceso

LEMMA SinProyectosTipo ==
    ASSUME TypeOK, NEW ys
    PROVE  SinProyectos(ys) \in [Proyectos -> [estado: Fila, prog: Programas \cup {Nada}]]
BY DEF TypeOK, SinProyectos, Fila

\* A deleted load.
LEMMA TipoCargue ==
    ASSUME TypeOK, NEW ref \in Refs, NEW quedan \in BOOLEAN, EliminarCargueCompleto(ref, quedan)
    PROVE  TypeOK'
<1> DEFINE p == ProgramaDelCargue(ref)
           ys == IF p = Nada THEN {} ELSE Formativos(p)
<1>1. PICK r \in DelCargue(borradorPrograma, ref, p), s \in DelCargue(borradorProyecto, ref, p) :
         /\ programas' = SinPrograma(p)
         /\ proyectos' = SinProyectos(ys)
         /\ procesos' = [q \in Refs |->
                IF q = ref THEN Nada
                ELSE IF procesos[q] # Nada /\ (q = r \/ (r # Nada /\ p = Nada /\ procesos[q].prog = Nada))
                     THEN [prog |-> Nada, proy |-> Nada]
                ELSE Desligado(procesos[q], p, ys)]
         /\ borradorPrograma' = [q \in Refs |-> IF q = ref /\ ~quedan THEN Nada
                                 ELSE IF q = r THEN ProgramaVacio ELSE borradorPrograma[q]]
         /\ borradorProyecto' = [q \in Refs |-> IF q = ref /\ ~quedan THEN Nada
                                 ELSE IF q = s THEN Bloqueado(p)
                                 ELSE borradorProyecto[q]]
         /\ UNCHANGED pestana
  BY DEF EliminarCargueCompleto
<1>2. p \in Programas \cup {Nada}
  BY ProgramaDelCargueTipo
<1>3. programas' \in [Programas -> Fila]
  BY <1>1 DEF SinPrograma, TypeOK, Fila
<1>4. proyectos' \in [Proyectos -> [estado: Fila, prog: Programas \cup {Nada}]]
  BY <1>1, SinProyectosTipo
<1>5. procesos' \in [Refs -> Proceso \cup {Nada}]
  <2>1. [prog |-> Nada, proy |-> Nada] \in Proceso
    BY DEF Proceso
  <2> QED BY <1>1, <2>1, DesligadoTipo
<1>6. ProgramaVacio \in BorradorPrograma /\ Bloqueado(p) \in BorradorProyecto
  BY <1>2, VacioTipo
<1>7. /\ borradorPrograma' \in [Refs -> BorradorPrograma \cup {Nada}]
      /\ borradorProyecto' \in [Refs -> BorradorProyecto \cup {Nada}]
  BY <1>1, <1>6 DEF TypeOK
<1> QED BY <1>1, <1>3, <1>4, <1>5, <1>7 DEF TypeOK

\* The deletions.
LEMMA TipoBajas ==
    ASSUME TypeOK, NEW ref \in Refs,
           \/ EliminarCargue(ref) \/ EliminarFlujo(ref) \/ BorrarProceso(ref)
           \/ EliminarCargueProyecto(ref)
    PROVE  TypeOK'
<1>1. CASE EliminarCargue(ref) \/ EliminarFlujo(ref)
  BY <1>1, TipoCargue DEF EliminarCargue, EliminarFlujo
<1>2. CASE BorrarProceso(ref)
  BY <1>2 DEF BorrarProceso, TypeOK
<1>3. CASE EliminarCargueProyecto(ref)
  <2> DEFINE d == borradorProyecto[ref]
             ys == IF d.prog = Nada THEN {} ELSE Formativos(d.prog)
  <2>1. /\ d # Nada
        /\ proyectos' = SinProyectos(ys)
        /\ procesos' = [q \in Refs |-> Desligado(procesos[q], Nada, ys)]
        /\ borradorProyecto' = [borradorProyecto EXCEPT ![ref] = ProyectoVacio(d.ref, d.prog)]
        /\ UNCHANGED <<programas, borradorPrograma, pestana>>
    BY <1>3 DEF EliminarCargueProyecto
  <2>2. d.ref \in BOOLEAN /\ d.prog \in Programas \cup {Nada}
    BY <2>1 DEF TypeOK, BorradorProyecto
  <2>3. ProyectoVacio(d.ref, d.prog) \in BorradorProyecto
    BY <2>2, VacioTipo
  <2> QED BY <2>1, <2>3, SinProyectosTipo, DesligadoTipo DEF TypeOK
<1> QED BY <1>1, <1>2, <1>3

LEMMA TipoPaso == TypeOK /\ [Next]_vars => TypeOK'
<1> SUFFICES ASSUME TypeOK, [Next]_vars PROVE TypeOK'
  OBVIOUS
<1>1. CASE Next
  <2>1. CASE Autoguardar
    <3>1. pestana.ref \in Refs
      BY <2>1, PestanaTipo DEF Autoguardar
    <3> QED BY <2>1, <3>1, TipoBorradores
  <2>2. CASE \E ref \in Plenas : ObtenerProyecto(ref) \/ AbrirPrograma(ref) \/ AbrirProyecto(ref)
    BY <2>2, ConstantesAssumption, TipoBorradores
  <2>3. CASE ~ Autoguardar /\ ~ \E ref \in Plenas :
               ObtenerProyecto(ref) \/ AbrirPrograma(ref) \/ AbrirProyecto(ref)
    BY <1>1, <2>3, TipoBorradores, TipoPrograma, TipoProyecto, TipoBajas DEF Next
  <2> QED BY <2>1, <2>2, <2>3
<1>2. CASE UNCHANGED vars
  BY <1>2 DEF vars, TypeOK
<1> QED BY <1>1, <1>2

\* Rows, processes, drafts and tabs keep their shapes: no handler leaves a
\* draft in a state of a row, or a process with a project for a program.
THEOREM TiposCiclo == Spec => []TypeOK
BY TipoInicial, TipoPaso, PTL DEF Spec

-----------------------------------------------------------------------------
(* What a step does to the rows.                                            *)

\* A program is created under a free code.
Nace(p) ==
    /\ programas[p] = "NUNCA"
    /\ ConCodigo(codigoDe[p]) = {}
    /\ programas' = [programas EXCEPT ![p] = "BORRADOR"]
    /\ proyectos' = proyectos
\* A program is closed.
Cierra(p) ==
    /\ Viva(programas[p])
    /\ programas' = [programas EXCEPT ![p] = "COMPLETO"]
    /\ proyectos' = proyectos
\* A program goes with its projects.
Muere(p) ==
    /\ Viva(programas[p])
    /\ programas' = [programas EXCEPT ![p] = "ELIMINADO"]
    /\ proyectos' = SinProyectos(Formativos(p))
\* A project is created under a program, perhaps one that has others of its key.
NaceProyecto(p, y) ==
    /\ Viva(programas[p])
    /\ proyectos[y].estado = "NUNCA"
    /\ proyectos' = [proyectos EXCEPT ![y] = [estado |-> "BORRADOR", prog |-> p]]
    /\ programas' = programas
\* A project is closed under a closed program.
CierraProyecto(y) ==
    /\ Viva(proyectos[y].estado)
    /\ programas[proyectos[y].prog] = "COMPLETO"
    /\ proyectos' = [proyectos EXCEPT ![y].estado = "COMPLETO"]
    /\ programas' = programas
\* The only project of a program goes.
MuereProyecto(y) ==
    /\ Viva(proyectos[y].estado)
    /\ Formativos(proyectos[y].prog) = {y}
    /\ proyectos' = SinProyectos({y})
    /\ programas' = programas

Efecto ==
    \/ UNCHANGED <<programas, proyectos>>
    \/ \E p \in Programas : Nace(p) \/ Cierra(p) \/ Muere(p)
    \/ \E p \in Programas, y \in Proyectos : NaceProyecto(p, y)
    \/ \E y \in Proyectos : CierraProyecto(y) \/ MuereProyecto(y)

\* No project to delete is no change.
LEMMA SinNingunProyecto ==
    ASSUME TypeOK PROVE SinProyectos({}) = proyectos
BY DEF SinProyectos, TypeOK

\* The imports and the first competence of a draft left behind.
LEMMA EfectoPrograma ==
    ASSUME TypeOK, NEW ref \in Refs,
           ConfirmarPrograma(ref) \/ AdjuntarPrograma(ref) \/ CerrarPrograma(ref)
    PROVE  Efecto
<1> DEFINE d == borradorPrograma[ref]
<1>1. CASE ConfirmarPrograma(ref)
  <2>1. PICK p \in FilaDestino(d) : programas' = [programas EXCEPT ![p] = "BORRADOR"]
    BY <1>1 DEF ConfirmarPrograma
  <2>2. ConCodigo(d.vista) = {}
    BY <1>1 DEF ConfirmarPrograma, YaCargado
  <2>3. p \in Programas /\ codigoDe[p] = d.vista /\ programas[p] = "NUNCA"
    BY <2>2 DEF FilaDestino, ProgramasNuevos
  <2> QED BY <1>1, <2>1, <2>2, <2>3 DEF ConfirmarPrograma, Efecto, Nace
<1>2. CASE AdjuntarPrograma(ref)
  <2> DEFINE c == codigoDe[d.prog]
  <2>1. PICK p \in Adjuntables(c) :
          programas' = [programas EXCEPT ![p] = IF Viva(@) THEN @ ELSE "BORRADOR"]
    BY <1>2 DEF AdjuntarPrograma
  <2>2. CASE ConCodigo(c) # {}
    <3>1. p \in Programas /\ Viva(programas[p])
      BY <2>1, <2>2 DEF Adjuntables, ConCodigo
    <3>2. programas' = programas
      BY <2>1, <3>1 DEF TypeOK
    <3> QED BY <1>2, <3>2 DEF AdjuntarPrograma, Efecto
  <2>3. CASE ConCodigo(c) = {}
    <3>1. p \in Programas /\ codigoDe[p] = c /\ programas[p] = "NUNCA"
      BY <2>1, <2>3 DEF Adjuntables, ProgramasNuevos
    <3>2. programas' = [programas EXCEPT ![p] = "BORRADOR"]
      BY <2>1, <3>1 DEF Viva
    <3> QED BY <1>2, <2>3, <3>1, <3>2 DEF AdjuntarPrograma, Efecto, Nace
  <2> QED BY <2>2, <2>3
<1>3. CASE CerrarPrograma(ref)
  <2>1. d.prog \in Programas /\ Viva(programas[d.prog])
    BY <1>3 DEF CerrarPrograma, Existe, TypeOK, BorradorPrograma
  <2> QED BY <1>3, <2>1 DEF CerrarPrograma, Efecto, Cierra
<1> QED BY <1>1, <1>2, <1>3

LEMMA EfectoProyecto ==
    ASSUME TypeOK, NEW ref \in Refs, ConfirmarProyecto(ref) \/ CerrarProyecto(ref)
    PROVE  Efecto
<1> DEFINE d == borradorProyecto[ref]
<1>1. CASE ConfirmarProyecto(ref)
  <2>1. PICK p \in Asociados(ref), y \in Proyectos :
          /\ Existe(p)
          /\ proyectos[y].estado = "NUNCA"
          /\ proyectos' = [proyectos EXCEPT ![y] = [estado |-> "BORRADOR", prog |-> p]]
    BY <1>1 DEF ConfirmarProyecto
  <2>2. p \in Programas
    BY <1>1, AsociadosTipo DEF ConfirmarProyecto
  <2>3. NaceProyecto(p, y)
    BY <1>1, <2>1 DEF ConfirmarProyecto, NaceProyecto, Existe
  <2> QED BY <2>2, <2>3 DEF Efecto
<1>2. CASE CerrarProyecto(ref)
  <2>1. ProyectoDe(d) \in Proyectos
    BY <1>2 DEF CerrarProyecto, ProyectoDe, TypeOK, BorradorProyecto
  <2> QED BY <1>2, <2>1 DEF CerrarProyecto, ProgramaCerrado, Efecto, CierraProyecto
<1> QED BY <1>1, <1>2

LEMMA EfectoBajas ==
    ASSUME TypeOK, ProyectoTrasPrograma, NEW ref \in Refs,
           EliminarCargue(ref) \/ EliminarFlujo(ref) \/ EliminarCargueProyecto(ref)
    PROVE  Efecto
<1>1. CASE EliminarCargue(ref) \/ EliminarFlujo(ref)
  <2> DEFINE p == ProgramaDelCargue(ref)
             ys == IF p = Nada THEN {} ELSE Formativos(p)
  <2>1. programas' = SinPrograma(p) /\ proyectos' = SinProyectos(ys)
    BY <1>1 DEF EliminarCargue, EliminarFlujo, EliminarCargueCompleto
  <2>2. p \in Programas \cup {Nada}
    BY ProgramaDelCargueTipo
  <2>3. CASE Existe(p)
    BY <2>1, <2>2, <2>3 DEF SinPrograma, Existe, Efecto, Muere
  <2>4. CASE ~Existe(p)
    <3>1. programas' = programas
      BY <2>1, <2>4 DEF SinPrograma
    <3>2. ys = {}
      BY <2>4 DEF Formativos, ProyectoTrasPrograma
    <3> QED BY <2>1, <3>1, <3>2, SinNingunProyecto DEF Efecto
  <2> QED BY <2>3, <2>4
<1>2. CASE EliminarCargueProyecto(ref)
  <2> DEFINE d == borradorProyecto[ref]
             ys == IF d.prog = Nada THEN {} ELSE Formativos(d.prog)
  <2>1. /\ proyectos' = SinProyectos(ys) /\ programas' = programas
        /\ \A y, z \in ys : y = z
    BY <1>2 DEF EliminarCargueProyecto
  <2>2. CASE ys = {}
    BY <2>1, <2>2, SinNingunProyecto DEF Efecto
  <2>3. CASE ys # {}
    <3>1. PICK y \in ys : y \in Proyectos /\ Viva(proyectos[y].estado)
      BY <2>3 DEF Formativos
    <3>2. ys = {y}
      BY <2>1, <3>1
    <3>3. Formativos(proyectos[y].prog) = {y}
      BY <3>1, <3>2 DEF Formativos
    <3> QED BY <2>1, <3>1, <3>2, <3>3 DEF Efecto, MuereProyecto
  <2> QED BY <2>2, <2>3
<1> QED BY <1>1, <1>2

\* Every other handler leaves the rows alone.
LEMMA EfectoPaso ==
    ASSUME TypeOK, ProyectoTrasPrograma, [Next]_vars
    PROVE  Efecto
<1>1. CASE UNCHANGED vars
  BY <1>1 DEF vars, Efecto
<1>2. CASE Autoguardar
  BY <1>2 DEF Autoguardar, GuardarPrograma, GuardarProyecto, Efecto
<1>3. ASSUME NEW ref \in Refs,
             \/ IniciarPrograma(ref) \/ ObtenerPrograma(ref) \/ ObtenerProyecto(ref)
             \/ AbrirPrograma(ref) \/ AbrirProyecto(ref)
             \/ PrevisualizarPrograma(ref) \/ SubirPdfPrograma(ref)
             \/ PrevisualizarProyecto(ref) \/ SubirPdfProyecto(ref) \/ BorrarProceso(ref)
      PROVE  Efecto
  BY <1>3 DEF IniciarPrograma, ObtenerPrograma, ObtenerProyecto, AbrirPrograma, AbrirProyecto,
              PrevisualizarPrograma, SubirPdfPrograma, PrevisualizarProyecto, SubirPdfProyecto,
              BorrarProceso, GuardarPrograma, Efecto
<1>4. CASE Next
  BY <1>2, <1>3, <1>4, EfectoPrograma, EfectoProyecto, EfectoBajas, ConstantesAssumption DEF Next
<1> QED BY <1>1, <1>4

-----------------------------------------------------------------------------
(* The properties of the rows.                                              *)

IndCiclo == TypeOK /\ CodigoUnico /\ ProyectoTrasPrograma

LEMMA IndInicial == Init => IndCiclo
BY TipoInicial DEF IndCiclo, Init, CodigoUnico, ProyectoTrasPrograma, Viva

\* No step gives a code to a second row.
LEMMA UnicoPaso ==
    ASSUME IndCiclo, Efecto
    PROVE  CodigoUnico'
<1> USE DEF IndCiclo
<1>1. CASE programas' = programas
  BY <1>1 DEF CodigoUnico
<1>2. ASSUME NEW p \in Programas, Nace(p) PROVE CodigoUnico'
  BY <1>2 DEF Nace, CodigoUnico, ConCodigo, TypeOK, Viva
<1>3. ASSUME NEW p \in Programas, Cierra(p) PROVE CodigoUnico'
  BY <1>3 DEF Cierra, CodigoUnico, TypeOK, Viva
<1>4. ASSUME NEW p \in Programas, Muere(p) PROVE CodigoUnico'
  BY <1>4 DEF Muere, CodigoUnico, TypeOK, Viva
<1> QED BY <1>1, <1>2, <1>3, <1>4 DEF Efecto, NaceProyecto, CierraProyecto, MuereProyecto

\* No step leaves a project without its program, or closed under an open one.
LEMMA TrasProgramaPaso ==
    ASSUME IndCiclo, Efecto
    PROVE  ProyectoTrasPrograma'
<1> USE DEF IndCiclo
<1>1. CASE UNCHANGED <<programas, proyectos>>
  BY <1>1 DEF ProyectoTrasPrograma, Existe
<1>2. ASSUME NEW p \in Programas, Nace(p) PROVE ProyectoTrasPrograma'
  BY <1>2 DEF Nace, ProyectoTrasPrograma, Existe, TypeOK, Viva
<1>3. ASSUME NEW p \in Programas, Cierra(p) PROVE ProyectoTrasPrograma'
  BY <1>3 DEF Cierra, ProyectoTrasPrograma, Existe, TypeOK, Viva
<1>4. ASSUME NEW p \in Programas, Muere(p) PROVE ProyectoTrasPrograma'
  BY <1>4 DEF Muere, ProyectoTrasPrograma, Existe, Formativos, SinProyectos, TypeOK, Viva
<1>5. ASSUME NEW p \in Programas, NEW y \in Proyectos, NaceProyecto(p, y)
      PROVE  ProyectoTrasPrograma'
  BY <1>5, ConstantesAssumption DEF NaceProyecto, ProyectoTrasPrograma, Existe, TypeOK, Viva
<1>6. ASSUME NEW y \in Proyectos, CierraProyecto(y) PROVE ProyectoTrasPrograma'
  BY <1>6 DEF CierraProyecto, ProyectoTrasPrograma, Existe, TypeOK, Viva
<1>7. ASSUME NEW y \in Proyectos, MuereProyecto(y) PROVE ProyectoTrasPrograma'
  BY <1>7 DEF MuereProyecto, ProyectoTrasPrograma, Existe, SinProyectos, TypeOK, Viva
<1> QED BY <1>1, <1>2, <1>3, <1>4, <1>5, <1>6, <1>7 DEF Efecto

LEMMA IndPaso == IndCiclo /\ [Next]_vars => IndCiclo'
BY TipoPaso, EfectoPaso, UnicoPaso, TrasProgramaPaso DEF IndCiclo

LEMMA SiempreInd == Spec => []IndCiclo
BY IndInicial, IndPaso, PTL DEF Spec

\* However drafts, tabs, previews and deletions follow each other, a code never
\* has two programs.
THEOREM UnSoloPrograma == Spec => []CodigoUnico
BY SiempreInd, PTL DEF IndCiclo

\* A project never outlives its program, and is closed only under one that is.
THEOREM ProyectoConPrograma == Spec => []ProyectoTrasPrograma
BY SiempreInd, PTL DEF IndCiclo

Queda == \A p \in Programas : programas[p] = "COMPLETO" =>
             programas'[p] \in {"COMPLETO", "ELIMINADO"}

LEMMA QuedaPaso ==
    ASSUME TypeOK, Efecto PROVE Queda
BY DEF Efecto, Nace, Cierra, Muere, NaceProyecto, CierraProyecto, MuereProyecto, TypeOK, Queda

\* No handler takes a closed program back to BORRADOR: it stays until deleted.
THEOREM ProgramaCerradoQueda == Spec => CompletoSoloSeRetira
<1>1. IndCiclo /\ [Next]_vars => [Queda]_vars
  BY EfectoPaso, QuedaPaso DEF IndCiclo
<1> QED BY <1>1, SiempreInd, PTL DEF Spec, CompletoSoloSeRetira, Queda

-----------------------------------------------------------------------------
(* The refinement.                                                          *)

\* The living projects of a key under a program of a code.
Activos(c, k) ==
    {y \in Proyectos : claveDe[y] = k /\ DelPrograma(y, c) /\ Viva(proyectos[y].estado)}

\* What the mapping makes of the rows: a code is in the state of its only living
\* row, and a key of it is COMPLETO as soon as one of its projects is.
Imagen ==
    /\ Situacion = [c \in Codigos |-> Situacion[c]]
    /\ \A p \in Programas : Viva(programas[p]) => Situacion[codigoDe[p]] = programas[p]
    /\ \A c \in Codigos :
         (\A p \in Programas : codigoDe[p] = c => ~Viva(programas[p])) => Situacion[c] = "LIBRE"
    /\ Proyectados = [c \in Codigos |-> [k \in Claves |-> Proyectados[c][k]]]
    /\ \A c \in Codigos, k \in Claves :
         /\ Activos(c, k) = {} => Proyectados[c][k] = "LIBRE"
         /\ \A y \in Activos(c, k) :
              proyectos[y].estado = "COMPLETO" => Proyectados[c][k] = "COMPLETO"
         /\ Activos(c, k) # {} /\ (\A y \in Activos(c, k) : proyectos[y].estado = "BORRADOR")
              => Proyectados[c][k] = "BORRADOR"

\* Of rows of which one at most is alive.
LEMMA SituadoUno ==
    ASSUME NEW filas, NEW f \in filas, Viva(f), \A g \in filas : Viva(g) => g = f
    PROVE  Situado(filas) = f
BY DEF Situado, Viva

LEMMA SituadoNinguno ==
    ASSUME NEW filas, \A g \in filas : ~Viva(g)
    PROVE  Situado(filas) = "LIBRE"
BY DEF Situado, Viva

LEMMA ImagenInd == IndCiclo => Imagen
<1> SUFFICES ASSUME IndCiclo PROVE Imagen
  OBVIOUS
<1> USE ConstantesAssumption
<1>1. ASSUME NEW p \in Programas, Viva(programas[p]) PROVE Situacion[codigoDe[p]] = programas[p]
  <2> DEFINE filas == {programas[q] : q \in {r \in Programas : codigoDe[r] = codigoDe[p]}}
  <2>1. programas[p] \in filas /\ \A g \in filas : Viva(g) => g = programas[p]
    BY <1>1 DEF IndCiclo, CodigoUnico
  <2>2. Situado(filas) = programas[p]
    BY <1>1, <2>1, SituadoUno
  <2> QED BY <2>2 DEF Situacion
<1>2. ASSUME NEW c \in Codigos, \A p \in Programas : codigoDe[p] = c => ~Viva(programas[p])
      PROVE  Situacion[c] = "LIBRE"
  BY <1>2, SituadoNinguno DEF Situacion
<1>3. ASSUME NEW c \in Codigos, NEW k \in Claves
      PROVE  /\ Activos(c, k) = {} => Proyectados[c][k] = "LIBRE"
             /\ \A y \in Activos(c, k) :
                  proyectos[y].estado = "COMPLETO" => Proyectados[c][k] = "COMPLETO"
             /\ Activos(c, k) # {} /\ (\A y \in Activos(c, k) : proyectos[y].estado = "BORRADOR")
                  => Proyectados[c][k] = "BORRADOR"
  <2> DEFINE deClave == {z \in Proyectos : claveDe[z] = k /\ DelPrograma(z, c)}
             filas == {proyectos[z].estado : z \in deClave}
  <2>1. Proyectados[c][k] = Situado(filas)
    BY DEF Proyectados
  <2>2. \A y \in Activos(c, k) : proyectos[y].estado \in filas
    BY DEF Activos
  <2>3. \A f \in filas : Viva(f) => \E y \in Activos(c, k) : proyectos[y].estado = f
    BY DEF Activos
  <2>4. \A y \in Activos(c, k) : Viva(proyectos[y].estado)
    BY DEF Activos
  <2> HIDE DEF filas
  <2> QED BY <2>1, <2>2, <2>3, <2>4 DEF Situado, Viva
<1>4. Situacion = [c \in Codigos |-> Situacion[c]]
  BY DEF Situacion
<1>5. Proyectados = [c \in Codigos |-> [k \in Claves |-> Proyectados[c][k]]]
  BY DEF Proyectados
<1> QED BY <1>1, <1>2, <1>3, <1>4, <1>5 DEF Imagen

\* Living rows name codes and keys there are.
LEMMA CodigosDe ==
    ASSUME IndCiclo
    PROVE  /\ \A p \in Programas : codigoDe[p] \in Codigos
           /\ \A y \in Proyectos : claveDe[y] \in Claves
           /\ \A y \in Proyectos : Viva(proyectos[y].estado) =>
                proyectos[y].prog \in Programas /\ Viva(programas[proyectos[y].prog])
           /\ \A y \in Proyectos, c \in Codigos :
                Viva(proyectos[y].estado) /\ DelPrograma(y, c) => codigoDe[proyectos[y].prog] = c
BY ConstantesAssumption DEF IndCiclo, ProyectoTrasPrograma, Existe, TypeOK, DelPrograma

\* The living projects of a code are those of its living program.
LEMMA ActivosDe ==
    ASSUME IndCiclo, NEW p \in Programas, Viva(programas[p]), NEW k \in Claves
    PROVE  Activos(codigoDe[p], k) = {y \in Formativos(p) : claveDe[y] = k}
<1>1. ASSUME NEW y \in Activos(codigoDe[p], k) PROVE y \in Formativos(p)
  <2>1. /\ y \in Proyectos /\ Viva(proyectos[y].estado)
        /\ codigoDe[proyectos[y].prog] = codigoDe[p]
    BY <1>1 DEF Activos, DelPrograma
  <2>2. proyectos[y].prog = p
    BY <2>1, CodigosDe DEF IndCiclo, CodigoUnico
  <2> QED BY <2>1, <2>2 DEF Formativos
<1>2. ASSUME NEW y \in Formativos(p), claveDe[y] = k PROVE y \in Activos(codigoDe[p], k)
  BY <1>2, ConstantesAssumption DEF Formativos, Activos, DelPrograma
<1> QED BY <1>1, <1>2 DEF Activos, Formativos

LEMMA ImplementaInicial == Init => Ciclo!Init
<1> SUFFICES ASSUME Init PROVE Ciclo!Init
  OBVIOUS
<1>1. Imagen
  BY IndInicial, ImagenInd
<1>2. Situacion = [c \in Codigos |-> "LIBRE"]
  BY <1>1 DEF Imagen, Init, Viva
<1>3. Proyectados = [c \in Codigos |-> [k \in Claves |-> "LIBRE"]]
  <2>1. \A c \in Codigos, k \in Claves : Activos(c, k) = {}
    BY DEF Activos, Init, Viva
  <2> QED BY <1>1, <2>1 DEF Imagen
<1> QED BY <1>2, <1>3 DEF Ciclo!Init

\* A step that changes no project leaves the projects of the abstract cycle.
LEMMA MismosProyectos ==
    ASSUME proyectos' = proyectos
    PROVE  Proyectados' = Proyectados
BY DEF Proyectados, DelPrograma

LEMMA MismosProgramas ==
    ASSUME programas' = programas
    PROVE  Situacion' = Situacion
BY DEF Situacion

\* A key whose living projects a step leaves as they were stays as it was.
LEMMA OtrosProyectos ==
    ASSUME IndCiclo, Imagen, Imagen', NEW x \in Codigos, NEW k \in Claves,
           Activos(x, k)' = Activos(x, k),
           \A y \in Activos(x, k) : proyectos'[y] = proyectos[y]
    PROVE  Proyectados'[x][k] = Proyectados[x][k]
<1>1. \A y \in Activos(x, k) : proyectos[y].estado \in {"BORRADOR", "COMPLETO"}
  BY DEF Activos, Viva
<1>2. CASE Activos(x, k) = {}
  BY <1>2 DEF Imagen
<1>3. CASE \E y \in Activos(x, k) : proyectos[y].estado = "COMPLETO"
  BY <1>3 DEF Imagen
<1>4. CASE Activos(x, k) # {} /\ \A y \in Activos(x, k) : proyectos[y].estado = "BORRADOR"
  <2>1. Proyectados[x][k] = "BORRADOR"
    BY <1>4 DEF Imagen
  <2>2. Activos(x, k)' # {} /\ \A y \in Activos(x, k)' : proyectos'[y].estado = "BORRADOR"
    BY <1>4
  <2>3. Proyectados'[x][k] = "BORRADOR"
    BY <2>2 DEF Imagen
  <2> QED BY <2>1, <2>3
<1> QED BY <1>1, <1>2, <1>3, <1>4

\* A created program is imported, a closed one closed, a deleted one retired.
LEMMA ImplementaPrograma ==
    ASSUME IndCiclo, IndCiclo', Imagen, Imagen', NEW p \in Programas,
           Nace(p) \/ Cierra(p) \/ Muere(p)
    PROVE  [Ciclo!Next]_<<Situacion, Proyectados>>
<1> DEFINE c == codigoDe[p]
<1>0. c \in Codigos /\ TypeOK
  BY CodigosDe DEF IndCiclo
<1>a. \A q \in Programas \ {p} : programas'[q] = programas[q]
  BY <1>0 DEF Nace, Cierra, Muere, TypeOK
<1>b. \A q \in Programas \ {p} : Viva(programas[q]) => codigoDe[q] # c
  <2>1. CASE Nace(p)
    BY <2>1 DEF Nace, ConCodigo
  <2>2. CASE Cierra(p) \/ Muere(p)
    BY <2>2 DEF IndCiclo, CodigoUnico, Cierra, Muere
  <2> QED BY <2>1, <2>2
<1>c. ASSUME NEW x \in Codigos, x # c PROVE Situacion'[x] = Situacion[x]
  <2>1. CASE \E q \in Programas : codigoDe[q] = x /\ Viva(programas[q])
    <3>1. PICK q \in Programas : codigoDe[q] = x /\ Viva(programas[q])
      BY <2>1
    <3>2. q # p /\ programas'[q] = programas[q]
      BY <1>a, <1>c, <3>1
    <3> QED BY <3>1, <3>2 DEF Imagen
  <2>2. CASE ~ \E q \in Programas : codigoDe[q] = x /\ Viva(programas[q])
    <3>1. \A q \in Programas : codigoDe[q] = x => ~Viva(programas'[q])
      BY <1>a, <1>c, <2>2
    <3> QED BY <2>2, <3>1 DEF Imagen
  <2> QED BY <2>1, <2>2
<1>1. CASE Nace(p)
  <2>1. Situacion[c] = "LIBRE"
    BY <1>0, <1>1 DEF Nace, ConCodigo, Imagen
  <2>2. Situacion'[c] = "BORRADOR"
    BY <1>0, <1>1 DEF Nace, Imagen, TypeOK, Viva
  <2>3. Situacion' = [Situacion EXCEPT ![c] = "BORRADOR"]
    BY <1>0, <1>c, <2>2 DEF Imagen
  <2> QED BY <1>0, <1>1, <2>1, <2>3, MismosProyectos DEF Nace, Ciclo!Next, Ciclo!Importar
<1>2. CASE Cierra(p)
  <2>1. Situacion[c] \in {"BORRADOR", "COMPLETO"}
    BY <1>2 DEF Cierra, Imagen, Viva
  <2>2. Situacion'[c] = "COMPLETO"
    BY <1>0, <1>2 DEF Cierra, Imagen, TypeOK, Viva
  <2>3. Situacion' = [Situacion EXCEPT ![c] = "COMPLETO"]
    BY <1>0, <1>c, <2>2 DEF Imagen
  <2>4. CASE Situacion[c] = "BORRADOR"
    BY <1>0, <1>2, <2>3, <2>4, MismosProyectos DEF Cierra, Ciclo!Next, Ciclo!Cerrar
  <2>5. CASE Situacion[c] = "COMPLETO"
    <3>1. Situacion' = Situacion
      BY <2>3, <2>5 DEF Imagen
    <3> QED BY <1>2, <3>1, MismosProyectos DEF Cierra
  <2> QED BY <2>1, <2>4, <2>5
<1>3. CASE Muere(p)
  <2>1. Situacion[c] # "LIBRE"
    BY <1>3 DEF Muere, Imagen, Viva
  <2>2. Situacion'[c] = "LIBRE"
    <3>1. \A q \in Programas : codigoDe[q] = c => ~Viva(programas'[q])
      BY <1>0, <1>3, <1>a, <1>b DEF Muere, TypeOK, Viva
    <3> QED BY <1>0, <3>1 DEF Imagen
  <2>3. Situacion' = [Situacion EXCEPT ![c] = "LIBRE"]
    BY <1>0, <1>c, <2>2 DEF Imagen
  <2>4. \A y \in Proyectos : proyectos'[y] = IF y \in Formativos(p)
                                             THEN [estado |-> "ELIMINADO", prog |-> Nada]
                                             ELSE proyectos[y]
    BY <1>3 DEF Muere, SinProyectos
  <2>5. ASSUME NEW k \in Claves PROVE Proyectados'[c][k] = "LIBRE"
    <3>1. Activos(c, k) = {y \in Formativos(p) : claveDe[y] = k}
      BY <1>3, ActivosDe DEF Muere
    <3>2. ASSUME NEW y \in Activos(c, k)' PROVE FALSE
      <4>1. y \in Proyectos /\ y \notin Formativos(p) /\ proyectos'[y] = proyectos[y]
        BY <2>4, <3>2 DEF Activos, Viva
      <4>2. y \in Activos(c, k)
        BY <3>2, <4>1 DEF Activos, DelPrograma
      <4> QED BY <3>1, <4>1, <4>2
    <3>3. Activos(c, k)' = {}
      BY <3>2
    <3> HIDE DEF c
    <3> QED BY <1>0, <3>3 DEF Imagen
  <2>6. ASSUME NEW x \in Codigos, x # c, NEW k \in Claves
        PROVE  Proyectados'[x][k] = Proyectados[x][k]
    <3>1. ASSUME NEW y \in Activos(x, k) PROVE y \in Activos(x, k)' /\ proyectos'[y] = proyectos[y]
      <4>1. y \in Proyectos /\ y \notin Formativos(p)
        BY <2>6, <3>1 DEF Activos, Formativos, DelPrograma
      <4> QED BY <2>4, <3>1, <4>1 DEF Activos, DelPrograma
    <3>2. ASSUME NEW y \in Activos(x, k)' PROVE y \in Activos(x, k)
      <4>1. y \in Proyectos /\ proyectos'[y] = proyectos[y]
        BY <2>4, <3>2 DEF Activos, Viva
      <4> QED BY <3>2, <4>1 DEF Activos, DelPrograma
    <3> QED BY <3>1, <3>2, OtrosProyectos
  <2>7. Proyectados' = [Proyectados EXCEPT ![c] = [k \in Claves |-> "LIBRE"]]
    BY <1>0, <2>5, <2>6 DEF Imagen
  <2> QED BY <1>0, <2>1, <2>3, <2>7 DEF Ciclo!Next, Ciclo!Retirar
<1> QED BY <1>1, <1>2, <1>3

\* A project created under a free key is formulated, the first of a key to be
\* closed closes it, and the one that goes retires it; the others of a key are
\* not seen.
LEMMA ImplementaProyecto ==
    ASSUME IndCiclo, IndCiclo', Imagen, Imagen', NEW p \in Programas, NEW y \in Proyectos,
           \/ NaceProyecto(p, y)
           \/ proyectos[y].prog = p /\ (CierraProyecto(y) \/ MuereProyecto(y))
    PROVE  [Ciclo!Next]_<<Situacion, Proyectados>>
<1> DEFINE c == codigoDe[p]
           k == claveDe[y]
<1>0. c \in Codigos /\ k \in Claves /\ TypeOK
  BY CodigosDe DEF IndCiclo
<1>a. Viva(programas[p]) /\ Situacion' = Situacion
  BY MismosProgramas, CodigosDe DEF NaceProyecto, CierraProyecto, MuereProyecto
<1>b. Situacion[c] = programas[p] /\ Situacion[c] # "LIBRE"
  BY <1>a DEF Imagen, Viva
<1>c. \A z \in Proyectos \ {y} : proyectos'[z] = proyectos[z]
  BY <1>0 DEF NaceProyecto, CierraProyecto, MuereProyecto, SinProyectos, TypeOK
<1>d. /\ DelPrograma(y, c) \/ ~Viva(proyectos[y].estado)
      /\ Viva(proyectos'[y].estado) => proyectos'[y].prog = p
  <2>1. CASE NaceProyecto(p, y)
    BY <1>0, <2>1 DEF NaceProyecto, TypeOK, Viva
  <2>2. CASE proyectos[y].prog = p /\ (CierraProyecto(y) \/ MuereProyecto(y))
    BY <1>0, <2>2, ConstantesAssumption
       DEF CierraProyecto, MuereProyecto, SinProyectos, TypeOK, Viva, DelPrograma
  <2> QED BY <2>1, <2>2
<1>g. ASSUME NEW x \in Codigos, NEW j \in Claves, NEW z \in Proyectos, z # y
      PROVE  z \in Activos(x, j)' <=> z \in Activos(x, j)
  BY <1>c, <1>g DEF Activos, DelPrograma
<1>e. ASSUME NEW x \in Codigos, NEW j \in Claves, x # c \/ j # k
      PROVE  Proyectados'[x][j] = Proyectados[x][j]
  <2>1. y \notin Activos(x, j) /\ y \notin Activos(x, j)'
    BY <1>d, <1>e DEF Activos, DelPrograma
  <2>2. Activos(x, j)' = Activos(x, j)
    BY <1>g, <2>1 DEF Activos
  <2>3. \A z \in Activos(x, j) : proyectos'[z] = proyectos[z]
    BY <1>c, <2>1 DEF Activos
  <2> QED BY <2>2, <2>3, OtrosProyectos
<1>f. ASSUME NEW v, Proyectados'[c][k] = v
      PROVE  Proyectados' = [Proyectados EXCEPT ![c][k] = v]
  <2> DEFINE otro == [Proyectados EXCEPT ![c][k] = v]
  <2>1. /\ Proyectados = [x \in Codigos |-> [j \in Claves |-> Proyectados[x][j]]]
        /\ Proyectados' = [x \in Codigos |-> [j \in Claves |-> Proyectados'[x][j]]]
    BY DEF Imagen
  <2> HIDE DEF c, k
  <2>2. otro = [x \in Codigos |-> [j \in Claves |->
                  IF x = c /\ j = k THEN v ELSE Proyectados[x][j]]]
    BY <1>0, <2>1
  <2>3. \A x \in Codigos, j \in Claves :
          Proyectados'[x][j] = IF x = c /\ j = k THEN v ELSE Proyectados[x][j]
    BY <1>e, <1>f
  <2> QED BY <2>1, <2>2, <2>3
<1>h. ASSUME Proyectados'[c][k] = Proyectados[c][k]
      PROVE  UNCHANGED <<Situacion, Proyectados>>
  <2> HIDE DEF c, k
  <2>1. \A x \in Codigos, j \in Claves : Proyectados'[x][j] = Proyectados[x][j]
    BY <1>e, <1>h
  <2>2. Proyectados' = Proyectados
    BY <2>1 DEF Imagen
  <2> QED BY <1>a, <2>2
<1>i. Viva(proyectos'[y].estado) => y \in Activos(c, k)'
  BY <1>0, <1>d, ConstantesAssumption DEF Activos, DelPrograma
<1>j. Viva(proyectos[y].estado) => y \in Activos(c, k)
  BY <1>d DEF Activos
<1>k. \A z \in Activos(c, k) : proyectos[z].estado \in {"BORRADOR", "COMPLETO"}
  BY DEF Activos, Viva
<1> HIDE DEF c, k
<1>1. CASE NaceProyecto(p, y)
  <2>1. proyectos'[y] = [estado |-> "BORRADOR", prog |-> p]
    BY <1>0, <1>1 DEF NaceProyecto, TypeOK
  <2>2. y \in Activos(c, k)' /\ proyectos'[y].estado = "BORRADOR"
    BY <1>i, <2>1 DEF Viva
  <2>3. CASE Activos(c, k) = {}
    <3>1. Proyectados[c][k] = "LIBRE"
      BY <1>0, <2>3 DEF Imagen
    <3>2. \A z \in Activos(c, k)' : z = y
      BY <1>0, <1>g, <2>3 DEF Activos
    <3>3. Proyectados'[c][k] = "BORRADOR"
      BY <1>0, <2>2, <3>2 DEF Imagen
    <3>4. Ciclo!Formular(c, k)
      BY <1>a, <1>b, <1>f, <3>1, <3>3 DEF Ciclo!Formular
    <3> QED BY <1>0, <3>4 DEF Ciclo!Next
  <2>4. CASE Activos(c, k) # {}
    <3>1. y \notin Activos(c, k)
      BY <1>1 DEF NaceProyecto, Activos, Viva
    <3>2. \A z \in Activos(c, k) : z \in Activos(c, k)' /\ proyectos'[z] = proyectos[z]
      BY <1>0, <1>c, <1>g, <3>1 DEF Activos
    <3>3. \A z \in Activos(c, k)' : z = y \/ z \in Activos(c, k)
      BY <1>0, <1>g DEF Activos
    <3>4. CASE \E z \in Activos(c, k) : proyectos[z].estado = "COMPLETO"
      <4>1. PICK z \in Activos(c, k) : proyectos[z].estado = "COMPLETO"
        BY <3>4
      <4>2. Proyectados[c][k] = "COMPLETO"
        BY <1>0, <4>1 DEF Imagen
      <4>3. z \in Activos(c, k)' /\ proyectos'[z].estado = "COMPLETO"
        BY <3>2, <4>1
      <4>4. Proyectados'[c][k] = "COMPLETO"
        BY <1>0, <4>3 DEF Imagen
      <4> QED BY <1>h, <4>2, <4>4
    <3>5. CASE \A z \in Activos(c, k) : proyectos[z].estado = "BORRADOR"
      <4>1. Proyectados[c][k] = "BORRADOR"
        BY <1>0, <2>4, <3>5 DEF Imagen
      <4>2. \A z \in Activos(c, k)' : proyectos'[z].estado = "BORRADOR"
        BY <2>2, <3>2, <3>3, <3>5
      <4>3. Proyectados'[c][k] = "BORRADOR"
        BY <1>0, <2>2, <4>2 DEF Imagen
      <4> QED BY <1>h, <4>1, <4>3
    <3> QED BY <1>k, <3>4, <3>5
  <2> QED BY <2>3, <2>4
<1>2. CASE proyectos[y].prog = p /\ CierraProyecto(y)
  <2>1. y \in Activos(c, k) /\ Situacion[c] = "COMPLETO"
    BY <1>b, <1>j, <1>2 DEF CierraProyecto
  <2>2. proyectos'[y] = [estado |-> "COMPLETO", prog |-> p]
    BY <1>0, <1>2 DEF CierraProyecto, TypeOK
  <2>3. y \in Activos(c, k)' /\ proyectos'[y].estado = "COMPLETO"
    BY <1>i, <2>2 DEF Viva
  <2>4. Proyectados'[c][k] = "COMPLETO"
    BY <1>0, <2>3 DEF Imagen
  <2>5. CASE \A z \in Activos(c, k) : proyectos[z].estado = "BORRADOR"
    <3>1. Proyectados[c][k] = "BORRADOR"
      BY <1>0, <2>1, <2>5 DEF Imagen
    <3>2. Ciclo!CerrarFormativo(c, k)
      BY <1>a, <1>f, <2>1, <2>4, <3>1 DEF Ciclo!CerrarFormativo
    <3> QED BY <1>0, <3>2 DEF Ciclo!Next
  <2>6. CASE \E z \in Activos(c, k) : proyectos[z].estado = "COMPLETO"
    <3>1. Proyectados[c][k] = "COMPLETO"
      BY <1>0, <2>6 DEF Imagen
    <3> QED BY <1>h, <2>4, <3>1
  <2> QED BY <1>k, <2>5, <2>6
<1>3. CASE proyectos[y].prog = p /\ MuereProyecto(y)
  <2>1. y \in Activos(c, k) /\ Formativos(p) = {y} /\ ~Viva(proyectos'[y].estado)
    BY <1>j, <1>3 DEF MuereProyecto, SinProyectos, Viva
  <2>2. Activos(c, k) = {y}
    BY <1>0, <1>a, <2>1, ActivosDe DEF c
  <2>3. Activos(c, k)' = {}
    BY <1>0, <1>g, <2>1, <2>2 DEF Activos
  <2>4. Proyectados[c][k] # "LIBRE"
    <3>1. y \in Activos(c, k) /\ \A z \in Activos(c, k) : z = y
      BY <2>2
    <3>2. CASE proyectos[y].estado = "COMPLETO"
      <4>1. Proyectados[c][k] = "COMPLETO"
        BY <1>0, <3>1, <3>2 DEF Imagen
      <4> QED BY <4>1
    <3>3. CASE proyectos[y].estado = "BORRADOR"
      <4>1. \A z \in Activos(c, k) : proyectos[z].estado = "BORRADOR"
        BY <3>1, <3>3
      <4>2. Proyectados[c][k] = "BORRADOR"
        BY <1>0, <3>1, <4>1 DEF Imagen
      <4> QED BY <4>2
    <3> QED BY <1>k, <3>1, <3>2, <3>3
  <2>5. Proyectados'[c][k] = "LIBRE"
    BY <1>0, <2>3 DEF Imagen
  <2>6. Ciclo!RetirarFormativo(c, k)
    BY <1>a, <1>f, <2>4, <2>5 DEF Ciclo!RetirarFormativo
  <2> QED BY <1>0, <2>6 DEF Ciclo!Next
<1> QED BY <1>1, <1>2, <1>3

LEMMA ImplementaEfecto ==
    ASSUME IndCiclo, IndCiclo', Efecto
    PROVE  [Ciclo!Next]_<<Situacion, Proyectados>>
<1>0. Imagen
  BY ImagenInd
<1>1. Imagen'
  <2>1. (IndCiclo => Imagen)'
    BY ImagenInd, PTL
  <2> QED BY <2>1
<1>2. CASE UNCHANGED <<programas, proyectos>>
  BY <1>2, MismosProgramas, MismosProyectos
<1>3. ASSUME NEW y \in Proyectos, CierraProyecto(y) \/ MuereProyecto(y)
      PROVE  [Ciclo!Next]_<<Situacion, Proyectados>>
  <2>1. proyectos[y].prog \in Programas
    BY <1>3, CodigosDe DEF CierraProyecto, MuereProyecto
  <2> QED BY <1>0, <1>1, <1>3, <2>1, ImplementaProyecto
<1> QED BY <1>0, <1>1, <1>2, <1>3, ImplementaPrograma, ImplementaProyecto DEF Efecto

\* Whatever drafts, processes, tabs and deletions do, the rows of a code go
\* through the cycle CicloPrograma promises.
THEOREM Implementa == Spec => ImplementaCiclo
<1>1. IndCiclo /\ IndCiclo' /\ [Next]_vars => [Ciclo!Next]_<<Situacion, Proyectados>>
  BY EfectoPaso, ImplementaEfecto DEF IndCiclo
<1> QED BY <1>1, ImplementaInicial, SiempreInd, PTL DEF Spec, ImplementaCiclo, Ciclo!Spec

-----------------------------------------------------------------------------
(* Confirmations that overlap.                                              *)

LEMMA ConProyectoLeidoTipo ==
    ASSUME TypeOKSolapado, NEW q \in Peticiones, lecturas[q] # Nada, NEW y \in Proyectos
    PROVE  ConProyectoLeido(lecturas[q], y) \in [Refs -> Proceso \cup {Nada}]
<1> DEFINE c == lecturas[q]
<1>1. c \in Lectura /\ TypeOK
  BY DEF TypeOKSolapado
<1>2. c.copia.prog \in Programas \cup {Nada}
  BY <1>1 DEF Lectura, BorradorProyecto
<1>3. ASSUME NEW r \in Refs, procesos[r] # Nada, NEW v \in Programas \cup {Nada}
      PROVE  [procesos[r] EXCEPT !.proy = y, !.prog = v] \in Proceso
  BY <1>1, <1>3 DEF TypeOK, Proceso
<1> DEFINE p == c.copia.prog
           halladas == {r \in Refs : procesos[r] # Nada /\ (r = c.ref \/ procesos[r].prog = p)}
           nueva(r) == [procesos[r] EXCEPT !.proy = y,
                          !.prog = IF (IF r = c.ref /\ c.proc # Nada THEN c.proc.prog
                                       ELSE procesos[r].prog) = Nada THEN p ELSE @]
<1>4. ASSUME NEW r \in Refs, procesos[r] # Nada PROVE nueva(r) \in Proceso
  <2>1. procesos[r] \in Proceso
    BY <1>1, <1>4 DEF TypeOK
  <2> QED BY <1>2, <1>3, <1>4, <2>1 DEF Proceso
<1>5. ASSUME NEW r \in Refs, halladas = {r} PROVE procesos[r] # Nada
  <2>1. r \in halladas
    BY <1>5
  <2> QED BY <2>1
<1>6. ConProyectoLeido(c, y) =
        [r \in Refs |-> IF halladas # {r} THEN procesos[r] ELSE nueva(r)]
  BY DEF ConProyectoLeido
<1>7. ASSUME NEW r \in Refs
      PROVE  (IF halladas # {r} THEN procesos[r] ELSE nueva(r)) \in Proceso \cup {Nada}
  <2> HIDE DEF halladas, nueva
  <2> QED BY <1>1, <1>4, <1>5 DEF TypeOK
<1> HIDE DEF halladas, nueva
<1> QED BY <1>6, <1>7

LEMMA TipoSolapadoInicial == InitSolapado => TypeOKSolapado
BY TipoInicial DEF InitSolapado, TypeOKSolapado

LEMMA TipoSolapadoPaso == TypeOKSolapado /\ [NextSolapado]_solapadas => TypeOKSolapado'
<1> SUFFICES ASSUME TypeOKSolapado, [NextSolapado]_solapadas PROVE TypeOKSolapado'
  OBVIOUS
<1>0. TypeOK /\ lecturas \in [Peticiones -> Lectura \cup {Nada}]
  BY DEF TypeOKSolapado
<1>1. CASE UNCHANGED solapadas
  BY <1>0, <1>1, TipoPaso DEF solapadas, TypeOKSolapado
<1>2. CASE Next /\ LecturasTrasPaso
  <2>1. TypeOK'
    BY <1>0, <1>2, TipoPaso
  <2>2. ASSUME NEW q \in Peticiones, lecturas[q] # Nada, NEW v \in {lecturas[q].proc, Nada}
        PROVE  [lecturas[q] EXCEPT !.proc = v] \in Lectura
    BY <1>0, <2>2 DEF Lectura
  <2> QED BY <1>0, <1>2, <2>1, <2>2 DEF LecturasTrasPaso, TypeOKSolapado
<1>3. ASSUME NEW q \in Peticiones, NEW ref \in Refs, LeerConfirmacion(q, ref)
      PROVE  TypeOKSolapado'
  <2> DEFINE d == borradorProyecto[ref]
  <2>1. PICK p \in Asociados(ref) :
          lecturas' = [lecturas EXCEPT ![q] =
             [ref |-> ref, copia |-> [d EXCEPT !.prog = p], proc |-> procesos[ref]]]
    BY <1>3 DEF LeerConfirmacion
  <2>2. d # Nada /\ d \in BorradorProyecto /\ p \in Programas /\ procesos[ref] \in Proceso \cup {Nada}
    BY <1>0, <1>3, AsociadosTipo DEF LeerConfirmacion, TypeOK
  <2>3. [ref |-> ref, copia |-> [d EXCEPT !.prog = p], proc |-> procesos[ref]] \in Lectura
    BY <2>2 DEF Lectura, BorradorProyecto
  <2>4. TypeOK'
    BY <1>0, <1>3, TipoPaso DEF LeerConfirmacion
  <2> QED BY <1>0, <2>1, <2>3, <2>4 DEF TypeOKSolapado
<1>4. ASSUME NEW q \in Peticiones, EscribirConfirmacion(q) PROVE TypeOKSolapado'
  <2> DEFINE c == lecturas[q]
             d == borradorProyecto[c.ref]
             p == c.copia.prog
  <2>1. PICK y \in FilasInsertadas(p, c.copia.vista) :
          /\ proyectos' = [proyectos EXCEPT ![y] = [estado |-> "BORRADOR", prog |-> p]]
          /\ procesos' = ConProyectoLeido(c, y)
          /\ borradorProyecto' = [borradorProyecto EXCEPT ![c.ref] =
                [c.copia EXCEPT !.estado = d.estado, !.confirmado = y, !.datos = TRUE]]
    BY <1>4 DEF EscribirConfirmacion
  <2>2. /\ c # Nada /\ d # Nada /\ Existe(p)
        /\ lecturas' = [lecturas EXCEPT ![q] = Nada]
        /\ UNCHANGED <<programas, borradorPrograma, pestana>>
    BY <1>4 DEF EscribirConfirmacion, ProgramaAlInsertar
  <2>3. y \in Proyectos
    BY DEF FilasInsertadas
  <2>4. c.ref \in Refs /\ c.copia \in BorradorProyecto
    BY <1>0, <2>2 DEF Lectura
  <2>5. d \in BorradorProyecto
    BY <1>0, <2>2, <2>4 DEF TypeOK
  <2>6. p \in Programas
    BY <2>2, <2>4 DEF Existe, BorradorProyecto
  <2>7. [c.copia EXCEPT !.estado = d.estado, !.confirmado = y, !.datos = TRUE] \in BorradorProyecto
    BY <2>3, <2>4, <2>5 DEF BorradorProyecto
  <2>8. /\ proyectos' \in [Proyectos -> [estado: Fila, prog: Programas \cup {Nada}]]
        /\ borradorProyecto' \in [Refs -> BorradorProyecto \cup {Nada}]
    BY <1>0, <2>1, <2>3, <2>4, <2>6, <2>7 DEF TypeOK, Fila
  <2>9. procesos' \in [Refs -> Proceso \cup {Nada}]
    BY <2>1, <2>2, <2>3, ConProyectoLeidoTipo
  <2>10. TypeOK'
    BY <1>0, <2>2, <2>8, <2>9 DEF TypeOK
  <2> QED BY <1>0, <2>2, <2>10 DEF TypeOKSolapado
<1>5. ASSUME NEW q \in Peticiones, AbandonarConfirmacion(q) PROVE TypeOKSolapado'
  BY <1>0, <1>5, TipoPaso DEF AbandonarConfirmacion, TypeOKSolapado
<1> QED BY <1>1, <1>2, <1>3, <1>4, <1>5, ConstantesAssumption DEF NextSolapado

\* A confirmation that writes creates a project of a program that is there,
\* whatever others of the key it has: the steps on the rows are the same.
LEMMA EfectoSolapado ==
    ASSUME TypeOKSolapado, ProyectoTrasPrograma, [NextSolapado]_solapadas
    PROVE  Efecto
<1>0. TypeOK /\ lecturas \in [Peticiones -> Lectura \cup {Nada}]
  BY DEF TypeOKSolapado
<1>1. CASE Next \/ UNCHANGED vars
  BY <1>0, <1>1, EfectoPaso
<1>2. ASSUME NEW q \in Peticiones, EscribirConfirmacion(q) PROVE Efecto
  <2> DEFINE c == lecturas[q]
             p == c.copia.prog
  <2>1. PICK y \in FilasInsertadas(p, c.copia.vista) :
          proyectos' = [proyectos EXCEPT ![y] = [estado |-> "BORRADOR", prog |-> p]]
    BY <1>2 DEF EscribirConfirmacion
  <2>2. c # Nada /\ Existe(p) /\ programas' = programas
    BY <1>2 DEF EscribirConfirmacion, ProgramaAlInsertar
  <2>3. c.copia \in BorradorProyecto
    BY <1>0, <2>2 DEF Lectura
  <2>4. p \in Programas
    BY <2>2, <2>3 DEF Existe, BorradorProyecto
  <2>5. y \in Proyectos /\ proyectos[y].estado = "NUNCA"
    BY DEF FilasInsertadas
  <2> QED BY <2>1, <2>2, <2>4, <2>5 DEF Efecto, NaceProyecto, Existe
<1>3. CASE UNCHANGED solapadas \/ \E q \in Peticiones :
             AbandonarConfirmacion(q) \/ \E ref \in Plenas : LeerConfirmacion(q, ref)
  BY <1>1, <1>3 DEF solapadas, AbandonarConfirmacion, LeerConfirmacion
<1> QED BY <1>1, <1>2, <1>3 DEF NextSolapado

IndSolapado == TypeOKSolapado /\ IndCiclo

LEMMA IndSolapadoInicial == InitSolapado => IndSolapado
BY TipoSolapadoInicial, IndInicial DEF InitSolapado, IndSolapado

LEMMA IndSolapadoPaso ==
    IndSolapado /\ [NextSolapado]_solapadas => IndSolapado' /\ Efecto
<1> SUFFICES ASSUME IndSolapado, [NextSolapado]_solapadas PROVE IndSolapado' /\ Efecto
  OBVIOUS
<1>1. TypeOKSolapado' /\ Efecto
  BY TipoSolapadoPaso, EfectoSolapado DEF IndSolapado, IndCiclo
<1>2. IndCiclo'
  BY <1>1, UnicoPaso, TrasProgramaPaso DEF IndSolapado, IndCiclo, TypeOKSolapado
<1> QED BY <1>1, <1>2 DEF IndSolapado

LEMMA SiempreIndSolapado == SpecSolapado => []IndSolapado
BY IndSolapadoInicial, IndSolapadoPaso, PTL DEF SpecSolapado

\* Rows, drafts, processes and tabs keep their shapes however confirmations overlap.
THEOREM TiposSolapados == SpecSolapado => []TypeOK
BY SiempreIndSolapado, PTL DEF IndSolapado, IndCiclo

\* Confirmations that write what they read some time ago lead to no second
\* program of a code.
THEOREM UnSoloProgramaSolapado == SpecSolapado => []CodigoUnico
BY SiempreIndSolapado, PTL DEF IndSolapado, IndCiclo

\* Nor do they take a closed program back to BORRADOR.
THEOREM ProgramaCerradoQuedaSolapado == SpecSolapado => CompletoSoloSeRetira
<1>1. IndSolapado /\ [NextSolapado]_solapadas => [Queda]_vars
  BY IndSolapadoPaso, QuedaPaso DEF IndSolapado, IndCiclo
<1> QED BY <1>1, SiempreIndSolapado, PTL DEF SpecSolapado, CompletoSoloSeRetira, Queda

\* A confirmation that read a program someone deletes before it writes leaves no
\* project behind, and one that writes late creates no closed project under an
\* open program.
THEOREM ProyectoConProgramaSolapado == SpecSolapado => []ProyectoTrasPrograma
BY SiempreIndSolapado, PTL DEF IndSolapado, IndCiclo

\* However many confirmations overlap, the rows of a code and of a key still go
\* through the cycle CicloPrograma promises, although a second project of a key
\* may stand behind the first.
THEOREM ImplementaSolapado == SpecSolapado => ImplementaCiclo
<1>1. InitSolapado => Ciclo!Init
  BY ImplementaInicial DEF InitSolapado
<1>2. IndSolapado /\ IndSolapado' /\ [NextSolapado]_solapadas
        => [Ciclo!Next]_<<Situacion, Proyectados>>
  BY IndSolapadoPaso, ImplementaEfecto DEF IndSolapado
<1> QED BY <1>1, <1>2, SiempreIndSolapado, PTL DEF SpecSolapado, ImplementaCiclo, Ciclo!Spec
=============================================================================
