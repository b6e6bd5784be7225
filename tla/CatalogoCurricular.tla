------------------------- MODULE CatalogoCurricular -------------------------
(****************************************************************************)
(* The curricular catalogue of one program: the canonical Excel workbook    *)
(* that creates it (ProgramaExcelImportService), the services that edit its *)
(* competences, outcomes, knowledge and criteria, the reconciliation of the *)
(* rows the workbook left pending, the links the workbook of the project    *)
(* adds (ProyectoExcelImportService) and the closing that reads it all.     *)
(*                                                                          *)
(* One action is one handler that committed.  A handler that rejects leaves *)
(* everything as it was and has no action.  The copy of the catalogue that  *)
(* the services keep in the payload of the draft is left out: only the      *)
(* wizard reads it.  The link between draft and program is in CicloBloques. *)
(*                                                                          *)
(* Operators named ...Defecto... are slips of the definition that follows   *)
(* them and break the property their comment names; no action uses them.    *)
(****************************************************************************)
EXTENDS Naturals, Sequences, FiniteSets

CONSTANTS
    Codigos,           \* codes of competences, up to case
    Practicas,         \* the ones of the practical stage
    IdsExcel,          \* competencia_id column of the workbook
    Raps,              \* rap_id column
    Textos,            \* descriptions
    minusculas,        \* lower(descripcion), what SQL compares
    norma,             \* _norm(descripcion), what the preview compares
    Actividades,       \* activities of the project
    Matrices,          \* program workbooks whose cells are well formed
    MatricesProyecto,  \* project workbooks whose cells are well formed
    SinRA,             \* resultado_id IS NULL
    Nada,              \* an empty cell, a destination that is NULL
    MaxFilas           \* bound on the rows of the catalogue

Elemento == {"SABER", "PROCESO", "CRITERIO"}
Tipo == Elemento \cup {"RESULTADO"}

\* An outcome is created with an opaque id; its code, when it has one, is the
\* rap_id of the workbook, so a pair with it stands for the id.
Ras == IdsExcel \X Raps

FilaElemento == [comp: IdsExcel \cup {Nada}, rap: Raps \cup {Nada},
                 tipo: Elemento, texto: Textos]

\* Sheets Conocimientos and Criterios, one after the other, are `elementos`.
Matriz == [competencias: Seq([id: IdsExcel, codigo: Codigos]),
           resultados: Seq([comp: IdsExcel, rap: Raps, texto: Textos]),
           elementos: Seq(FilaElemento)]

\* Sheet Planeacion_Proyecto.
FilaPlaneacion == [actividad: Actividades, codigo: Codigos, rap: Raps \cup {Nada}]

\* The preview collapses spaces besides the case SQL ignores, so that texts
\* which SQL takes for equal are equal for it too.
ASSUME ConstantesAssumption ==
    /\ Practicas \subseteq Codigos
    /\ \A a, b \in Textos : minusculas[a] = minusculas[b] => norma[a] = norma[b]
    /\ Matrices \subseteq Matriz
    /\ MatricesProyecto \subseteq Seq(FilaPlaneacion)
    /\ SinRA \notin Ras
    /\ Nada \notin IdsExcel /\ Nada \notin Raps /\ Nada \notin Codigos
    /\ MaxFilas \in Nat

VARIABLES
    programa,      \* estado of the row of programas_formacion
    comps,         \* competencias of the program, by code
    filas,         \* resultados_aprendizaje, conocimientos, criterios_evaluacion
    bloqueados,    \* outcomes whose edit_status is LOCKED
    pendientes,    \* elementos_curriculares_pendientes, by orden
    asignaciones   \* asignaciones_curriculares of the project

vars == <<programa, comps, filas, bloqueados, pendientes, asignaciones>>

Fila == [tipo: Tipo, comp: Codigos, ra: Ras \cup {SinRA}, texto: Textos]
Pendiente == [orden: Nat, tipo: Elemento, texto: Textos, asignado: BOOLEAN,
              comp: Codigos \cup {Nada}, ra: Ras \cup {SinRA}]
Asignacion == [actividad: Actividades, comp: Codigos, ra: Ras \cup {SinRA}]

TypeOK ==
    /\ programa \in {"AUSENTE", "BORRADOR", "COMPLETO"}
    /\ comps \subseteq Codigos
    /\ filas \subseteq Fila
    /\ bloqueados \subseteq Ras
    /\ pendientes \subseteq Pendiente
    /\ asignaciones \subseteq Asignacion

Init ==
    /\ programa = "AUSENTE"
    /\ comps = {}
    /\ filas = {}
    /\ bloqueados = {}
    /\ pendientes = {}
    /\ asignaciones = {}

-----------------------------------------------------------------------------
(* The workbook of the program: what the preview accepts and what the       *)
(* confirmation writes.                                                     *)

Repetida(s, clave(_)) == \E i, j \in DOMAIN s : i # j /\ clave(s[i]) = clave(s[j])

IdsDe(w) == {w.competencias[i].id : i \in DOMAIN w.competencias}

\* A competencia_id may appear twice, with two codes: nothing rejects it.
Valida(w) ==
    LET Codigo(c) == c.codigo
        Rap(r) == <<r.comp, r.rap>>
        Texto(r) == <<r.comp, norma[r.texto]>>
    IN  /\ \A i \in DOMAIN w.resultados : w.resultados[i].comp \in IdsDe(w)
        /\ ~ Repetida(w.competencias, Codigo)
        /\ ~ Repetida(w.resultados, Rap)
        /\ ~ Repetida(w.resultados, Texto)

\* Knowledge and criteria of a competence the workbook does not have wait for a
\* manual assignment.
Asignables(w) == {i \in DOMAIN w.elementos : w.elementos[i].comp \in IdsDe(w)}
PorConciliar(w) == DOMAIN w.elementos \ Asignables(w)

\* The key of the exact text (breaks VistaPreviaImportable).
ClaveDefecto(e) == <<e.comp, e.tipo, e.texto>>

Clave(e) == <<e.comp, e.tipo, norma[e.texto]>>

\* Repeats the check among all rows (breaks NadaSePierde).
ConservadasDefecto(w) ==
    {i \in Asignables(w) :
        \A j \in Asignables(w) \ {i} : Clave(w.elementos[j]) # Clave(w.elementos[i])}

\* Of the rows with one key the first is kept, the others are discarded, even
\* when they name different outcomes.
Conservadas(w) ==
    {i \in Asignables(w) :
        \A j \in Asignables(w) : j < i => Clave(w.elementos[j]) # Clave(w.elementos[i])}

\* competencia_by_excel_id: of two rows with one id the later remains.
CodigoDe(w, id) ==
    LET i == CHOOSE i \in DOMAIN w.competencias :
                 /\ w.competencias[i].id = id
                 /\ \A j \in DOMAIN w.competencias : w.competencias[j].id = id => j <= i
    IN  w.competencias[i].codigo

\* The code in place of the id (breaks TypeOK).
RaDeDefecto(w, e) == e.rap

\* A rap_id that the competence does not have is ignored.
RaDe(w, e) ==
    IF e.rap # Nada /\ \E i \in DOMAIN w.resultados : /\ w.resultados[i].comp = e.comp
                                                      /\ w.resultados[i].rap = e.rap
    THEN <<e.comp, e.rap>> ELSE SinRA

FilaResultado(w, i) ==
    LET r == w.resultados[i]
    IN  [tipo |-> "RESULTADO", comp |-> CodigoDe(w, r.comp),
         ra |-> <<r.comp, r.rap>>, texto |-> r.texto]
FilaDeElemento(w, i) ==
    LET e == w.elementos[i]
    IN  [tipo |-> e.tipo, comp |-> CodigoDe(w, e.comp), ra |-> RaDe(w, e),
         texto |-> e.texto]

CompsDe(w) == {w.competencias[i].codigo : i \in DOMAIN w.competencias}
FilasDe(w) == {FilaResultado(w, i) : i \in DOMAIN w.resultados}
              \cup {FilaDeElemento(w, i) : i \in Conservadas(w)}
PendientesDe(w) ==
    {[orden |-> i, tipo |-> w.elementos[i].tipo, texto |-> w.elementos[i].texto,
      asignado |-> FALSE, comp |-> Nada, ra |-> SinRA] : i \in PorConciliar(w)}

\* What the repositories take for a duplicate of a row.
Chocan(x, y) ==
    /\ x.tipo = y.tipo
    /\ x.comp = y.comp
    /\ minusculas[x.texto] = minusculas[y.texto]
    /\ x.tipo = "RESULTADO" \/ x.ra = y.ra

\* No row of the workbook finds its duplicate written by an earlier one.
Materializable(w) ==
    LET Codigo(c) == c.codigo
    IN  /\ ~ Repetida(w.competencias, Codigo)
        /\ \A i, j \in DOMAIN w.resultados :
               i # j => ~ Chocan(FilaResultado(w, i), FilaResultado(w, j))
        /\ \A i, j \in Conservadas(w) :
               i # j => ~ Chocan(FilaDeElemento(w, i), FilaDeElemento(w, j))

\* Only a program that is not there yet can be imported: an existing one is
\* rejected by its id in the draft and by its code and version.
ConfirmarImportacion(w) ==
    /\ programa = "AUSENTE"
    /\ Valida(w) /\ Materializable(w)
    /\ programa' = "BORRADOR"
    /\ comps' = CompsDe(w)
    /\ filas' = FilasDe(w)
    /\ pendientes' = PendientesDe(w)
    /\ UNCHANGED <<bloqueados, asignaciones>>

-----------------------------------------------------------------------------
(* Competences *)

Existe == programa # "AUSENTE"
HayEspacio == Cardinality(filas) < MaxFilas

CrearCompetencia(c) ==
    /\ c \notin comps
    /\ programa' = IF Existe THEN programa ELSE "BORRADOR"
    /\ comps' = comps \cup {c}
    /\ UNCHANGED <<filas, bloqueados, pendientes, asignaciones>>

\* A row that names competence c, once the code of c is d.
ConCodigo(x, c, d) == IF x.comp = c THEN [x EXCEPT !.comp = d] ELSE x

ActualizarCompetencia(c, d) ==
    /\ Existe /\ c \in comps /\ d \notin comps
    /\ comps' = (comps \ {c}) \cup {d}
    /\ filas' = {ConCodigo(f, c, d) : f \in filas}
    /\ pendientes' = {ConCodigo(p, c, d) : p \in pendientes}
    /\ asignaciones' = {ConCodigo(a, c, d) : a \in asignaciones}
    /\ UNCHANGED <<programa, bloqueados>>

\* Destinations are set to NULL when their row is deleted.
SinCompetencia(p, c) ==
    IF p.comp = c THEN [p EXCEPT !.comp = Nada, !.ra = SinRA] ELSE p
SinResultado(p, r) == IF p.ra = r THEN [p EXCEPT !.ra = SinRA] ELSE p

ResultadosDe(c) == {f \in filas : f.tipo = "RESULTADO" /\ f.comp = c}

\* Everything of the competence goes with it, locked outcomes included.
EliminarCompetencia(c) ==
    /\ Existe /\ c \in comps
    /\ comps' = comps \ {c}
    /\ filas' = {f \in filas : f.comp # c}
    /\ bloqueados' = bloqueados \ {f.ra : f \in ResultadosDe(c)}
    /\ pendientes' = {SinCompetencia(p, c) : p \in pendientes}
    /\ asignaciones' = {a \in asignaciones : a.comp # c}
    /\ UNCHANGED programa

-----------------------------------------------------------------------------
(* Learning outcomes *)

\* descripcion_exists, besides the row that is being edited.
Repite(tipo, c, t, salvo) ==
    \E f \in filas \ {salvo} : /\ f.tipo = tipo /\ f.comp = c
                               /\ minusculas[f.texto] = minusculas[t]
Ninguna == [tipo |-> "NINGUNA"]

CrearResultado(c, r, t) ==
    /\ Existe /\ c \in comps /\ HayEspacio
    /\ \A f \in filas : f.ra # r
    /\ ~ Repite("RESULTADO", c, t, Ninguna)
    /\ filas' = filas \cup {[tipo |-> "RESULTADO", comp |-> c, ra |-> r, texto |-> t]}
    /\ UNCHANGED <<programa, comps, bloqueados, pendientes, asignaciones>>

\* Does not look at the lock (breaks BloqueadoIntacto).
ActualizarResultadoDefecto(f, t) ==
    /\ Existe /\ f.tipo = "RESULTADO"
    /\ ~ Repite("RESULTADO", f.comp, t, f)
    /\ filas' = (filas \ {f}) \cup {[f EXCEPT !.texto = t]}
    /\ UNCHANGED <<programa, comps, bloqueados, pendientes, asignaciones>>

ActualizarResultado(f, t) ==
    /\ Existe /\ f.tipo = "RESULTADO"
    /\ f.ra \notin bloqueados
    /\ ~ Repite("RESULTADO", f.comp, t, f)
    /\ filas' = (filas \ {f}) \cup {[f EXCEPT !.texto = t]}
    /\ UNCHANGED <<programa, comps, bloqueados, pendientes, asignaciones>>

\* Knowledge, criteria and assignments of the outcome go with it.
EliminarResultado(f) ==
    /\ Existe /\ f.tipo = "RESULTADO"
    /\ f.ra \notin bloqueados
    /\ filas' = {g \in filas : g.ra # f.ra}
    /\ pendientes' = {SinResultado(p, f.ra) : p \in pendientes}
    /\ asignaciones' = {a \in asignaciones : a.ra # f.ra}
    /\ UNCHANGED <<programa, comps, bloqueados>>

-----------------------------------------------------------------------------
(* Knowledge and criteria: the services are the same but for the type, and  *)
(* but for the link to the outcome, which an edit of knowledge removes.     *)

Crear(tipo, c, t) ==
    /\ Existe /\ c \in comps /\ HayEspacio
    /\ ~ Repite(tipo, c, t, Ninguna)
    /\ filas' = filas \cup {[tipo |-> tipo, comp |-> c, ra |-> SinRA, texto |-> t]}
    /\ UNCHANGED <<programa, comps, bloqueados, pendientes, asignaciones>>

Actualizar(f, t, ra) ==
    /\ Existe
    /\ ~ Repite(f.tipo, f.comp, t, f)
    /\ filas' = (filas \ {f}) \cup {[f EXCEPT !.texto = t, !.ra = ra]}
    /\ UNCHANGED <<programa, comps, bloqueados, pendientes, asignaciones>>

Eliminar(f) ==
    /\ Existe
    /\ filas' = filas \ {f}
    /\ UNCHANGED <<programa, comps, bloqueados, pendientes, asignaciones>>

CrearSaber(c, t) == Crear("SABER", c, t)
ActualizarSaber(f, t) == f.tipo = "SABER" /\ Actualizar(f, t, SinRA)
EliminarSaber(f) == f.tipo = "SABER" /\ Eliminar(f)

CrearProceso(c, t) == Crear("PROCESO", c, t)
ActualizarProceso(f, t) == f.tipo = "PROCESO" /\ Actualizar(f, t, SinRA)
EliminarProceso(f) == f.tipo = "PROCESO" /\ Eliminar(f)

CrearCriterio(c, t) == Crear("CRITERIO", c, t)
ActualizarCriterio(f, t) == f.tipo = "CRITERIO" /\ Actualizar(f, t, f.ra)
EliminarCriterio(f) == f.tipo = "CRITERIO" /\ Eliminar(f)

-----------------------------------------------------------------------------
(* Reconciliation *)

\* Takes any outcome of the program (breaks EnlaceEnCompetencia).
DestinosDefecto(c) == {f.ra : f \in {g \in filas : g.tipo = "RESULTADO"}} \cup {SinRA}

\* The outcomes an element of competence c may be linked to.
Destinos(c) == {f.ra : f \in ResultadosDe(c)} \cup {SinRA}

\* Compares the exact text (breaks SinDuplicados).
YaEstaDefecto(x) == x \in filas

YaEsta(x) == \E f \in filas : Chocan(f, x)

AsignarPendiente(p, c) ==
    /\ Existe /\ ~ p.asignado /\ c \in comps
    /\ \E r \in Destinos(c) :
          LET nueva == [tipo |-> p.tipo, comp |-> c, ra |-> r, texto |-> p.texto]
          IN  /\ ~ YaEsta(nueva)
              /\ filas' = filas \cup {nueva}
              /\ pendientes' = (pendientes \ {p}) \cup
                     {[p EXCEPT !.asignado = TRUE, !.comp = c, !.ra = r]}
    /\ UNCHANGED <<programa, comps, bloqueados, asignaciones>>

-----------------------------------------------------------------------------
(* The project *)

\* The competence with the code of the row; without one, any whose code is
\* contained in it or contains it, or none.
CompetenciasPara(x) == IF x.codigo \in comps THEN {x.codigo} ELSE comps

\* Which outcome a rap_id finds depends on codes and texts both sides edit: any
\* of the competence, or none.
EnlacesDe(x) ==
    (UNION {[actividad: {x.actividad}, comp: {c},
             ra: IF x.rap = Nada THEN {SinRA} ELSE Destinos(c)] : c \in CompetenciasPara(x)})
    \cup (IF x.codigo \in comps THEN {} ELSE {Nada})

ImportarProyecto(m) ==
    /\ Existe
    /\ \E e \in [DOMAIN m -> UNION {EnlacesDe(m[i]) : i \in DOMAIN m}] :
          /\ \A i \in DOMAIN m : e[i] \in EnlacesDe(m[i])
          /\ asignaciones' = asignaciones \cup ({e[i] : i \in DOMAIN m} \ {Nada})
    /\ UNCHANGED <<programa, comps, filas, bloqueados, pendientes>>

EliminarProyecto ==
    /\ Existe
    /\ asignaciones' = {}
    /\ UNCHANGED <<programa, comps, filas, bloqueados, pendientes>>

\* The program is deleted with all it owns.
EliminarCargue ==
    /\ Existe
    /\ programa' = "AUSENTE"
    /\ comps' = {} /\ filas' = {} /\ bloqueados' = {}
    /\ pendientes' = {} /\ asignaciones' = {}

-----------------------------------------------------------------------------
(* Closing *)

\* A competence of the practical stage needs nothing of its own.
CatalogoCompleto ==
    /\ comps # {}
    /\ \A c \in comps \ Practicas : \A t \in Tipo :
           \E f \in filas : f.tipo = t /\ f.comp = c
    /\ \A t \in Tipo : \E f \in filas : f.tipo = t

CerrarPrograma ==
    /\ Existe
    /\ CatalogoCompleto
    /\ programa' = "COMPLETO"
    /\ UNCHANGED <<comps, filas, bloqueados, pendientes, asignaciones>>

\* What the review cycle does to an outcome of the catalogue.
BloquearResultado(f) ==
    /\ Existe /\ f.tipo = "RESULTADO"
    /\ bloqueados' = bloqueados \cup {f.ra}
    /\ UNCHANGED <<programa, comps, filas, pendientes, asignaciones>>

ReabrirResultado(r) ==
    /\ bloqueados' = bloqueados \ {r}
    /\ UNCHANGED <<programa, comps, filas, pendientes, asignaciones>>

-----------------------------------------------------------------------------
(* One router per entity of the catalogue *)

EditarCompetencias ==
    \/ \E c \in Codigos : CrearCompetencia(c) \/ EliminarCompetencia(c)
    \/ \E c, d \in Codigos : ActualizarCompetencia(c, d)

EditarResultados ==
    \/ \E c \in Codigos, r \in Ras, t \in Textos : CrearResultado(c, r, t)
    \/ \E f \in filas, t \in Textos : ActualizarResultado(f, t)
    \/ \E f \in filas : EliminarResultado(f)

EditarSaberes ==
    \/ \E c \in Codigos, t \in Textos : CrearSaber(c, t)
    \/ \E f \in filas, t \in Textos : ActualizarSaber(f, t)
    \/ \E f \in filas : EliminarSaber(f)

EditarProcesos ==
    \/ \E c \in Codigos, t \in Textos : CrearProceso(c, t)
    \/ \E f \in filas, t \in Textos : ActualizarProceso(f, t)
    \/ \E f \in filas : EliminarProceso(f)

EditarCriterios ==
    \/ \E c \in Codigos, t \in Textos : CrearCriterio(c, t)
    \/ \E f \in filas, t \in Textos : ActualizarCriterio(f, t)
    \/ \E f \in filas : EliminarCriterio(f)

Conciliar == \E p \in pendientes, c \in Codigos : AsignarPendiente(p, c)

Editar ==
    \/ EditarCompetencias \/ EditarResultados
    \/ EditarSaberes \/ EditarProcesos \/ EditarCriterios
    \/ Conciliar

Next ==
    \/ \E w \in Matrices : ConfirmarImportacion(w)
    \/ Editar
    \/ \E m \in MatricesProyecto : ImportarProyecto(m)
    \/ EliminarProyecto \/ EliminarCargue
    \/ CerrarPrograma
    \/ \E f \in filas : BloquearResultado(f)
    \/ \E r \in bloqueados : ReabrirResultado(r)

Spec == Init /\ [][Next]_vars

-----------------------------------------------------------------------------
(* Properties *)

\* Confirming a workbook that the preview accepted never stops at a duplicate:
\* the preview compares texts its own way, the tables compare lower(descripcion)
\* within the competence and outcome each row was resolved to.
VistaPreviaImportable ==
    programa = "AUSENTE" => \A w \in Matrices : Valida(w) => Materializable(w)

\* Every knowledge or criterion of a confirmed workbook ends up in the catalogue
\* under its competence, perhaps written with other spaces or case, or among the
\* rows to be reconciled.
NadaSePierde ==
    [][ programa = "AUSENTE" => \A w \in Matrices : ConfirmarImportacion(w) =>
            \A i \in DOMAIN w.elementos :
                \/ \E p \in pendientes' : p.orden = i
                \/ \E f \in filas' : /\ f.tipo = w.elementos[i].tipo
                                     /\ f.comp = CodigoDe(w, w.elementos[i].comp)
                                     /\ norma[f.texto] = norma[w.elementos[i].texto] ]_vars

\* A link to an outcome never leaves the competence: knowledge, criteria,
\* assignments of the project and destinations of reconciled rows name an
\* existing outcome of the competence they hang from, through imports, renames,
\* reconciliations and deletions.
EnlaceVivo(comp, ra) ==
    /\ comp \in comps
    /\ ra # SinRA => \E f \in ResultadosDe(comp) : f.ra = ra
EnlaceEnCompetencia ==
    /\ \A f \in filas : EnlaceVivo(f.comp, f.ra)
    /\ \A a \in asignaciones : EnlaceVivo(a.comp, a.ra)
    /\ \A p \in pendientes : IF p.comp = Nada THEN p.ra = SinRA ELSE EnlaceVivo(p.comp, p.ra)

\* No two rows of a competence are duplicates for the checks of the
\* repositories, however they came in: import, edition or reconciliation.
SinDuplicados == \A f, g \in filas : f # g => ~ Chocan(f, g)

\* An outcome the review locked keeps its text, and leaves the catalogue only
\* with its whole competence (or when its competence changes its code).
BloqueadoIntacto ==
    [][ \A f \in filas : /\ f.tipo = "RESULTADO" /\ f.ra \in bloqueados
                         => f \in filas' \/ f.comp \notin comps' ]_vars
=============================================================================
