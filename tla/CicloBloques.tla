---------------------------- MODULE CicloBloques ----------------------------
(****************************************************************************)
(* The life of a program and of its formative project: the drafts of the    *)
(* two blocks of a reference, the process that anchors the reference to a   *)
(* team, the previews and imports of the Excel workbooks, the evidences in  *)
(* PDF, the gate of the project, the closings and the deletions.            *)
(*                                                                          *)
(* One action is one handler that committed, the access check and the       *)
(* process it may heal included; a handler that rejects leaves everything   *)
(* as it was and has no action.  Everybody works for one team, the one of   *)
(* the processes.  A browser tab keeps a copy of a draft and its autosave   *)
(* writes the copy whole, however old it is.  The rows of the catalogue are *)
(* in CatalogoCurricular: here a closing finds it complete or rejects, and  *)
(* an object missing from MinIO only rejects.                               *)
(*                                                                          *)
(* Operators named ...Defecto... are slips of the definition that follows   *)
(* them and break the property their comment names; no action uses them.    *)
(****************************************************************************)
EXTENDS FiniteSets

CONSTANTS
    Refs,        \* references of the flows
    Plenas,      \* bound: the ones that get to the project or keep a tab open
    Programas,   \* ids of programs, never used again
    Codigos,     \* code, version and name of a program
    codigoDe,    \* the one a program is created with
    Proyectos,   \* ids of projects, never used again
    Claves,      \* code and name of a project
    claveDe,     \* the one a project is created with
    Nada         \* NULL, no row, no tab

ASSUME ConstantesAssumption ==
    /\ codigoDe \in [Programas -> Codigos]
    /\ claveDe \in [Proyectos -> Claves]
    /\ Nada \notin Programas \cup Proyectos \cup Codigos \cup Claves
    /\ Plenas \subseteq Refs /\ Nada \notin Refs

VARIABLES
    programas,         \* estado of each program; NUNCA and ELIMINADO have no row
    proyectos,         \* estado of each project and the program it belongs to
    procesos,          \* reference -> its process, or Nada
    borradorPrograma,  \* reference -> its draft of block PROGRAMA, or Nada
    borradorProyecto,  \* reference -> its draft of block PROYECTO, or Nada
    pestana            \* a tab open on a draft, or Nada

vars == <<programas, proyectos, procesos, borradorPrograma, borradorProyecto, pestana>>

Fila == {"NUNCA", "BORRADOR", "COMPLETO", "ELIMINADO"}

\* `prog` is curricular.programa_formacion_id, `vista` the valid preview,
\* `confirmado` confirmacion.programa_id once IMPORTADO, `datos` that the
\* code and the name are in the payload.
BorradorPrograma == [estado: {"BORRADOR", "COMPLETO"}, prog: Programas \cup {Nada},
                     vista: Codigos \cup {Nada}, confirmado: Programas \cup {Nada},
                     datos: BOOLEAN, pdf: BOOLEAN]

\* `ref` is that meta.programaReferenciaId is there, `prog` meta.programaId,
\* `formativo` proyecto.proyecto_formativo_id.
BorradorProyecto == [estado: {"BORRADOR", "COMPLETO", "BLOQUEADO"}, ref: BOOLEAN,
                     prog: Programas \cup {Nada}, vista: Claves \cup {Nada},
                     formativo: Proyectos \cup {Nada}, confirmado: Proyectos \cup {Nada},
                     datos: BOOLEAN, pdf: BOOLEAN]

Proceso == [prog: Programas \cup {Nada}, proy: Proyectos \cup {Nada}]

Viva(fila) == fila \in {"BORRADOR", "COMPLETO"}
ConCodigoDefecto(c) == \* (breaks CodigoUnico)
    {p \in Programas : codigoDe[p] = c /\ programas[p] = "COMPLETO"}
ConCodigo(c) == {p \in Programas : codigoDe[p] = c /\ Viva(programas[p])}
Formativos(p) == {y \in Proyectos : Viva(proyectos[y].estado) /\ proyectos[y].prog = p}
ProgramasNuevos(c) == {p \in Programas : codigoDe[p] = c /\ programas[p] = "NUNCA"}
Existe(p) == p # Nada /\ Viva(programas[p])

ProgramaVacio == [estado |-> "BORRADOR", prog |-> Nada, vista |-> Nada,
                  confirmado |-> Nada, datos |-> FALSE, pdf |-> FALSE]
ProyectoVacio(r, p) == [estado |-> "BORRADOR", ref |-> r, prog |-> p, vista |-> Nada,
                        formativo |-> Nada, confirmado |-> Nada,
                        datos |-> FALSE, pdf |-> FALSE]

TypeOK ==
    /\ programas \in [Programas -> Fila]
    /\ proyectos \in [Proyectos -> [estado: Fila, prog: Programas \cup {Nada}]]
    /\ procesos \in [Refs -> Proceso \cup {Nada}]
    /\ borradorPrograma \in [Refs -> BorradorPrograma \cup {Nada}]
    /\ borradorProyecto \in [Refs -> BorradorProyecto \cup {Nada}]
    /\ pestana \in {Nada}
         \cup [bloque: {"PROGRAMA"}, ref: Refs, copia: BorradorPrograma]
         \cup [bloque: {"PROYECTO"}, ref: Refs, copia: BorradorProyecto]

----------------------------------------------------------------------------
(* Access: a reference without a process is healed from its only draft.     *)

\* What the draft of a program says its program is, for the healing and for
\* the gate: the confirmation is read last and wins, or is only read when the
\* catalogue names none.
ProgramaSanado(d) == IF d.confirmado # Nada THEN d.confirmado ELSE d.prog
ProgramaDeclarado(d) == IF d.prog # Nada THEN d.prog ELSE d.confirmado

\* With both drafts scalar_one_or_none raises; with a program that is gone
\* the foreign key rejects the process.
Sanados(ref) ==
    LET d == borradorPrograma[ref]
        e == borradorProyecto[ref]
        ids == IF e = Nada /\ d # Nada THEN {ProgramaSanado(d)}
               ELSE IF d = Nada /\ e # Nada THEN {e.prog} ELSE {}
    IN {[prog |-> p, proy |-> Nada] : p \in {q \in ids : q = Nada \/ Existe(q)}}

\* The process a request is authorised with, none when it is rejected.
Autorizado(ref) == IF procesos[ref] # Nada THEN {procesos[ref]} ELSE Sanados(ref)

\* Requests that only need the access and change one draft.
CambiarPrograma(ref, campos) ==
    /\ \E proc \in Autorizado(ref) : procesos' = [procesos EXCEPT ![ref] = proc]
    /\ borradorPrograma' = [borradorPrograma EXCEPT ![ref] = campos]
CambiarProyecto(ref, campos) ==
    /\ \E proc \in Autorizado(ref) : procesos' = [procesos EXCEPT ![ref] = proc]
    /\ borradorProyecto' = [borradorProyecto EXCEPT ![ref] = campos]

----------------------------------------------------------------------------
(* Drafts.                                                                  *)

\* save_draft anchors a reference that has no process, without a program.
Anclado(ref) == IF procesos[ref] # Nada THEN procesos[ref] ELSE [prog |-> Nada, proy |-> Nada]

GuardarPrograma(ref, d) ==
    /\ procesos' = [procesos EXCEPT ![ref] = Anclado(ref)]
    /\ borradorPrograma' = [borradorPrograma EXCEPT ![ref] = d]
    /\ UNCHANGED <<programas, proyectos, borradorProyecto>>

GuardarProyecto(ref, d) ==
    /\ procesos' = [procesos EXCEPT ![ref] = Anclado(ref)]
    /\ borradorProyecto' = [borradorProyecto EXCEPT ![ref] = d]
    /\ UNCHANGED <<programas, proyectos, borradorPrograma>>

\* The wizard of the program starts a flow, under the reference it was opened
\* with when the draft of it could not be recovered.
IniciarPrograma(ref) ==
    /\ IF borradorPrograma[ref] # Nada THEN Autorizado(ref) = {} ELSE TRUE
    /\ GuardarPrograma(ref, ProgramaVacio)
    /\ UNCHANGED pestana

\* get_draft makes up the draft a reference lacks from its process.
ObtenerPrograma(ref) ==
    /\ borradorPrograma[ref] = Nada
    /\ \E proc \in Autorizado(ref) :
         CambiarPrograma(ref, [ProgramaVacio EXCEPT !.prog = proc.prog])
    /\ UNCHANGED <<programas, proyectos, borradorProyecto, pestana>>

ObtenerProyecto(ref) ==
    /\ borradorProyecto[ref] = Nada
    /\ \E proc \in Autorizado(ref) :
         CambiarProyecto(ref, [ProyectoVacio(TRUE, proc.prog) EXCEPT !.formativo = proc.proy])
    /\ UNCHANGED <<programas, proyectos, borradorPrograma, pestana>>

\* The gate: the program the reference leads to, and whether it is COMPLETO.
\* A project draft stands in only when the program draft is missing.
ProgramaDelGate(ref) ==
    IF borradorPrograma[ref] # Nada THEN ProgramaDeclarado(borradorPrograma[ref])
    ELSE borradorProyecto[ref].prog
GateAbierto(ref) ==
    /\ borradorPrograma[ref] # Nada \/ borradorProyecto[ref] # Nada
    /\ \/ Existe(ProgramaDelGate(ref)) /\ programas[ProgramaDelGate(ref)] = "COMPLETO"
       \/ borradorPrograma[ref] # Nada /\ borradorPrograma[ref].estado = "COMPLETO"

\* The page of the program, and the one of the project once the gate is open,
\* which takes over the program the gate answers with.
AbrirPrograma(ref) ==
    /\ pestana = Nada
    /\ borradorPrograma[ref] # Nada
    /\ CambiarPrograma(ref, borradorPrograma[ref])
    /\ pestana' = [bloque |-> "PROGRAMA", ref |-> ref, copia |-> borradorPrograma[ref]]
    /\ UNCHANGED <<programas, proyectos, borradorProyecto>>

AbrirProyecto(ref) ==
    /\ pestana = Nada
    /\ borradorProyecto[ref] # Nada
    /\ GateAbierto(ref)
    /\ CambiarProyecto(ref, borradorProyecto[ref])
    /\ LET p == ProgramaDelGate(ref)
           d == borradorProyecto[ref]
       IN pestana' = [bloque |-> "PROYECTO", ref |-> ref,
                      copia |-> [d EXCEPT !.prog = IF p # Nada THEN p ELSE @,
                                          !.ref = @ \/ borradorPrograma[ref] # Nada]]
    /\ UNCHANGED <<programas, proyectos, borradorPrograma>>

\* The autosave writes the copy whole; the tab is opened again afterwards.  One
\* that is closed without a change is one that was never opened.
Autoguardar ==
    /\ pestana # Nada
    /\ \/ pestana.bloque = "PROGRAMA" /\ GuardarPrograma(pestana.ref, pestana.copia)
       \/ pestana.bloque = "PROYECTO" /\ GuardarProyecto(pestana.ref, pestana.copia)
    /\ pestana' = Nada

----------------------------------------------------------------------------
(* Program: Excel workbook, competences, PDF and closing.                   *)

SinFormativo(d) == d.prog = Nada \/ Formativos(d.prog) = {}

\* A program of that code is already there, the draft's own included.
YaCargadoDefecto(c) == \E p \in ConCodigo(c) : Formativos(p) # {} \* (breaks CompletoSoloSeRetira)
YaCargado(c) == ConCodigo(c) # {}

\* The codes the process may load; a workbook that is not valid stores a
\* preview without one.
Cargables(proc) ==
    {c \in Codigos : (proc.prog = Nada \/ codigoDe[proc.prog] = c) /\ ~YaCargado(c)}

PrevisualizarPrograma(ref) ==
    LET d == borradorPrograma[ref] IN
    /\ d # Nada
    /\ SinFormativo(d)
    /\ \E proc \in Autorizado(ref) : \E c \in Cargables(proc) \cup {Nada} :
         CambiarPrograma(ref, [d EXCEPT !.vista = c, !.confirmado = Nada,
                                        !.estado = "BORRADOR"])
    /\ UNCHANGED <<programas, proyectos, borradorProyecto, pestana>>

\* The row the import fills: the one of the draft, an existing one of the
\* code, or a new one.
FilaDestino(d) ==
    IF d.prog # Nada THEN ConCodigo(d.vista) \cap {d.prog}
    ELSE IF ConCodigo(d.vista) # {} THEN ConCodigo(d.vista) ELSE ProgramasNuevos(d.vista)

\* The process of the reference takes the program; the team's other processes
\* without a program, or with this one, are deleted and their drafts stay.
TrasImportar(ref, p, proc) ==
    [r \in Refs |-> IF r = ref THEN [proc EXCEPT !.prog = p]
                    ELSE IF procesos[r] # Nada /\ procesos[r].prog \in {Nada, p} THEN Nada
                    ELSE procesos[r]]

ConfirmarPrograma(ref) ==
    LET d == borradorPrograma[ref] IN
    /\ d # Nada
    /\ SinFormativo(d)
    /\ d.vista # Nada /\ d.confirmado = Nada
    /\ ~YaCargado(d.vista)
    /\ \E p \in FilaDestino(d), proc \in Autorizado(ref) :
         /\ programas' = [programas EXCEPT ![p] = "BORRADOR"]
         /\ procesos' = TrasImportar(ref, p, proc)
         /\ borradorPrograma' = [borradorPrograma EXCEPT ![ref] =
                [d EXCEPT !.prog = p, !.confirmado = p, !.datos = TRUE]]
    /\ UNCHANGED <<proyectos, borradorProyecto, pestana>>

Adjuntables(c) == IF ConCodigo(c) # {} THEN ConCodigo(c) ELSE ProgramasNuevos(c)

\* The first competence of a draft whose program is gone: it attaches to the
\* program of its code, or makes one.
AdjuntarPrograma(ref) ==
    LET d == borradorPrograma[ref] IN
    /\ d # Nada
    /\ d.datos /\ d.prog # Nada /\ ~Existe(d.prog)
    /\ \E p \in Adjuntables(codigoDe[d.prog]) :
         /\ programas' = [programas EXCEPT ![p] = IF Viva(@) THEN @ ELSE "BORRADOR"]
         /\ CambiarPrograma(ref, [d EXCEPT !.prog = p])
    /\ UNCHANGED <<proyectos, borradorProyecto, pestana>>

SubirPdfPrograma(ref) ==
    LET d == borradorPrograma[ref] IN
    /\ d # Nada
    /\ d.confirmado # Nada \/ d.estado = "COMPLETO"
    /\ d.datos
    /\ CambiarPrograma(ref, [d EXCEPT !.pdf = TRUE])
    /\ UNCHANGED <<programas, proyectos, borradorProyecto, pestana>>

\* The catalogue is complete: CatalogoCurricular!CatalogoCompleto.
CerrarPrograma(ref) ==
    LET d == borradorPrograma[ref] IN
    /\ d # Nada
    /\ Existe(d.prog) /\ d.pdf
    /\ programas' = [programas EXCEPT ![d.prog] = "COMPLETO"]
    /\ CambiarPrograma(ref, [d EXCEPT !.estado = "COMPLETO"])
    /\ UNCHANGED <<proyectos, borradorProyecto, pestana>>

----------------------------------------------------------------------------
(* Project: Excel workbook, PDF and closing.                                *)

\* The program of a project draft: its own while the row is there, else the
\* one of the program draft, whose row nobody checks.
Asociados(ref) ==
    LET d == borradorProyecto[ref]
        b == borradorPrograma[ref]
    IN IF Existe(d.prog) THEN {d.prog}
       ELSE IF d.ref /\ b # Nada THEN {ProgramaDeclarado(b)} \ {Nada} ELSE {}

Duplicado(p, k) == \E y \in Formativos(p) : claveDe[y] = k

PrevisualizarProyecto(ref) ==
    LET d == borradorProyecto[ref] IN
    /\ d # Nada
    /\ \E p \in Asociados(ref) : \E k \in {k \in Claves : ~Duplicado(p, k)} \cup {Nada} :
         CambiarProyecto(ref, [d EXCEPT !.prog = p, !.vista = k, !.confirmado = Nada,
                                        !.estado = "BORRADOR"])
    /\ UNCHANGED <<programas, proyectos, borradorPrograma, pestana>>

\* The only process of the reference or of the program takes the project;
\* of several, none does.
ConProyecto(ref, p, y, proc) ==
    LET ps == {r \in Refs \ {ref} : procesos[r] # Nada /\ procesos[r].prog = p}
    IN IF ps = {} THEN [proc EXCEPT !.proy = y, !.prog = IF @ = Nada THEN p ELSE @] ELSE proc

ConfirmarProyecto(ref) ==
    LET d == borradorProyecto[ref] IN
    /\ d # Nada /\ d.vista # Nada
    /\ \E p \in Asociados(ref), y \in Proyectos, proc \in Autorizado(ref) :
         /\ Existe(p)
         /\ ~Duplicado(p, d.vista)
         /\ claveDe[y] = d.vista /\ proyectos[y].estado = "NUNCA"
         /\ proyectos' = [proyectos EXCEPT ![y] = [estado |-> "BORRADOR", prog |-> p]]
         /\ procesos' = [procesos EXCEPT ![ref] = ConProyecto(ref, p, y, proc)]
         /\ borradorProyecto' = [borradorProyecto EXCEPT ![ref] =
                [d EXCEPT !.prog = p, !.confirmado = y, !.datos = TRUE]]
    /\ UNCHANGED <<programas, borradorPrograma, pestana>>

\* A second project of the program makes the query raise.
SubirPdfProyecto(ref) ==
    LET d == borradorProyecto[ref]
        b == borradorPrograma[ref]
        unos == IF d.prog = Nada THEN {} ELSE Formativos(d.prog)
    IN
    /\ d # Nada
    /\ Existe(d.prog) \/ (b # Nada /\ b.confirmado # Nada)
    /\ \A y, z \in unos : y = z
    /\ unos # {} \/ d.confirmado # Nada
    /\ d.datos
    /\ CambiarProyecto(ref, [d EXCEPT !.pdf = TRUE, !.estado = "BORRADOR"])
    /\ UNCHANGED <<programas, proyectos, borradorPrograma, pestana>>

ProyectoDe(d) == IF d.formativo # Nada THEN d.formativo ELSE d.confirmado

ProgramaCerradoDefecto(y) == TRUE \* (breaks ProyectoTrasPrograma)
ProgramaCerrado(y) == programas[proyectos[y].prog] = "COMPLETO"

CerrarProyecto(ref) ==
    LET d == borradorProyecto[ref]
        y == ProyectoDe(d)
    IN
    /\ d # Nada
    /\ y # Nada /\ Viva(proyectos[y].estado) /\ d.pdf
    /\ ProgramaCerrado(y)
    /\ proyectos' = [proyectos EXCEPT ![y].estado = "COMPLETO"]
    /\ CambiarProyecto(ref, [d EXCEPT !.estado = "COMPLETO"])
    /\ UNCHANGED <<programas, borradorPrograma, pestana>>

----------------------------------------------------------------------------
(* Deletions.                                                               *)

\* Rows go with what hangs from them; the foreign keys of the processes are
\* set to NULL.
SinPrograma(p) == IF Existe(p) THEN [programas EXCEPT ![p] = "ELIMINADO"] ELSE programas
SinProyectosDefecto(ys) == proyectos \* (breaks ImplementaCiclo)
SinProyectos(ys) == [y \in Proyectos |-> IF y \in ys THEN [estado |-> "ELIMINADO", prog |-> Nada]
                                         ELSE proyectos[y]]
Desligado(proc, p, ys) ==
    IF proc = Nada THEN Nada
    ELSE [prog |-> IF proc.prog = p THEN Nada ELSE proc.prog,
          proy |-> IF proc.proy \in ys THEN Nada ELSE proc.proy]

\* The program whose load is deleted: what the project draft says wins.
ProgramaDelCargue(ref) ==
    IF borradorProyecto[ref] # Nada /\ borradorProyecto[ref].prog # Nada
    THEN borradorProyecto[ref].prog
    ELSE IF borradorPrograma[ref] # Nada THEN borradorPrograma[ref].prog ELSE Nada

\* The drafts that are reset: the ones of the reference, and for a block it
\* lacks the first one of another reference that names the program.
DelCargue(borradores, ref, p) ==
    LET otros == {r \in Refs : p # Nada /\ borradores[r] # Nada /\ borradores[r].prog = p}
    IN IF borradores[ref] # Nada THEN {ref}
       ELSE IF otros # {} THEN otros ELSE {Nada}

BloqueadoDefecto(p) == [ProyectoVacio(FALSE, p) EXCEPT !.estado = "ELIMINADO"] \* (breaks TypeOK)
Bloqueado(p) == [ProyectoVacio(FALSE, p) EXCEPT !.estado = "BLOQUEADO"]

\* A process of the reference whose program draft is reset loses its links.
EliminarCargueCompleto(ref, quedan) ==
    LET p == ProgramaDelCargue(ref)
        ys == IF p = Nada THEN {} ELSE Formativos(p)
    IN \E r \in DelCargue(borradorPrograma, ref, p), s \in DelCargue(borradorProyecto, ref, p) :
         /\ programas' = SinPrograma(p)
         /\ proyectos' = SinProyectos(ys)
         /\ procesos' = [q \in Refs |->
                IF q = ref THEN Nada
                ELSE IF procesos[q] # Nada /\ (q = r \/ (r # Nada /\ p = Nada /\ procesos[q].prog = Nada))
                     THEN [prog |-> Nada, proy |-> Nada]
                ELSE Desligado(procesos[q], p, ys)]
         /\ borradorPrograma' = [q \in Refs |-> IF q = ref /\ ~quedan THEN Nada
                                 ELSE IF q = r THEN ProgramaVacio ELSE borradorPrograma[q]]
         /\ borradorProyecto' = [q \in Refs |-> IF q = ref /\ ~quedan THEN Nada
                                 ELSE IF q = s THEN Bloqueado(p)
                                 ELSE borradorProyecto[q]]
         /\ UNCHANGED pestana

\* DELETE /cargue, from the wizard.
EliminarCargue(ref) == EliminarCargueCompleto(ref, TRUE)

\* DELETE /dashboard/programas, which also deletes the drafts.
EliminarFlujo(ref) ==
    /\ {procesos[ref], borradorPrograma[ref], borradorProyecto[ref]} # {Nada}
    /\ EliminarCargueCompleto(ref, FALSE)

\* The teams' delete_process: its clean-up imports a module that does not
\* exist and the error is swallowed, so the rows stay.
BorrarProceso(ref) ==
    /\ procesos[ref] # Nada
    /\ procesos' = [procesos EXCEPT ![ref] = Nada]
    /\ borradorPrograma' = [borradorPrograma EXCEPT ![ref] = Nada]
    /\ borradorProyecto' = [borradorProyecto EXCEPT ![ref] = Nada]
    /\ UNCHANGED <<programas, proyectos, pestana>>

\* DELETE /cargue-proyecto: a second project of the program makes it fail.
EliminarCargueProyecto(ref) ==
    LET d == borradorProyecto[ref]
        ys == IF d.prog = Nada THEN {} ELSE Formativos(d.prog)
    IN
    /\ d # Nada
    /\ \A y, z \in ys : y = z
    /\ proyectos' = SinProyectos(ys)
    /\ procesos' = [q \in Refs |-> Desligado(procesos[q], Nada, ys)]
    /\ borradorProyecto' = [borradorProyecto EXCEPT ![ref] = ProyectoVacio(d.ref, d.prog)]
    /\ UNCHANGED <<programas, borradorPrograma, pestana>>

----------------------------------------------------------------------------
Init ==
    /\ programas = [p \in Programas |-> "NUNCA"]
    /\ proyectos = [y \in Proyectos |-> [estado |-> "NUNCA", prog |-> Nada]]
    /\ procesos = [r \in Refs |-> Nada]
    /\ borradorPrograma = [r \in Refs |-> Nada]
    /\ borradorProyecto = [r \in Refs |-> Nada]
    /\ pestana = Nada

Next ==
    \/ \E ref \in Refs :
         \/ IniciarPrograma(ref) \/ ObtenerPrograma(ref)
         \/ PrevisualizarPrograma(ref) \/ ConfirmarPrograma(ref) \/ AdjuntarPrograma(ref)
         \/ SubirPdfPrograma(ref) \/ CerrarPrograma(ref)
         \/ PrevisualizarProyecto(ref) \/ ConfirmarProyecto(ref)
         \/ SubirPdfProyecto(ref) \/ CerrarProyecto(ref)
         \/ EliminarCargue(ref) \/ EliminarFlujo(ref) \/ BorrarProceso(ref)
         \/ EliminarCargueProyecto(ref)
    \/ \E ref \in Plenas : ObtenerProyecto(ref) \/ AbrirPrograma(ref) \/ AbrirProyecto(ref)
    \/ Autoguardar

Spec == Init /\ [][Next]_vars

----------------------------------------------------------------------------
(* Properties.                                                              *)

\* One program at most has a given code: previews, imports, competences of a
\* draft left behind and deletions, one after the other, never leave two.
CodigoUnico ==
    \A p, q \in Programas :
        Viva(programas[p]) /\ Viva(programas[q]) /\ codigoDe[p] = codigoDe[q] => p = q

\* A project lives only as long as its program, and is COMPLETO only under a
\* program that is (BUSINESS_RULES RN-35 and RN-38).
ProyectoTrasPrograma ==
    \A y \in Proyectos : Viva(proyectos[y].estado) =>
        /\ Existe(proyectos[y].prog)
        /\ proyectos[y].estado = "COMPLETO" => programas[proyectos[y].prog] = "COMPLETO"

\* A program that was closed stays closed until it is deleted: no preview,
\* import, autosave of an old tab or competence takes it back to BORRADOR.
CompletoSoloSeRetira ==
    [][\A p \in Programas : programas[p] = "COMPLETO" =>
          programas'[p] \in {"COMPLETO", "ELIMINADO"}]_vars

\* What the system promises per code, whatever drafts, processes and tabs do:
\* the state of the row of a code, of those with it.
Situado(filas) == IF "COMPLETO" \in filas THEN "COMPLETO"
                  ELSE IF "BORRADOR" \in filas THEN "BORRADOR" ELSE "LIBRE"
DelPrograma(y, c) == proyectos[y].prog # Nada /\ codigoDe[proyectos[y].prog] = c
Situacion == [c \in Codigos |->
    Situado({programas[p] : p \in {q \in Programas : codigoDe[q] = c}})]
Proyectados == [c \in Codigos |-> [k \in Claves |->
    Situado({proyectos[y].estado : y \in {z \in Proyectos : claveDe[z] = k /\ DelPrograma(z, c)}})]]

Ciclo == INSTANCE CicloPrograma WITH situacion <- Situacion, formativos <- Proyectados

\* The detailed cycle implements the one of CicloPrograma.
ImplementaCiclo == Ciclo!Spec
=============================================================================
