-------------------------- MODULE RevisionCurricular --------------------------
(****************************************************************************)
(* The pedagogical review cycle of one curricular process:                  *)
(* RevisionCurricularService together with the parts of                     *)
(* PlaneacionPedagogicaService that change the rows it reads.               *)
(*                                                                          *)
(* One action is one HTTP handler that committed (or, for the handlers      *)
(* called ...Falla, one that kept part of its effects).  The rows of the    *)
(* database are the variables below; `objeto` is the consolidated workbook  *)
(* in MinIO, which no transaction protects.                                 *)
(*                                                                          *)
(* Operators named ...Defecto... are variants of the definition that        *)
(* follows them, with a slip that would be plausible in the code.  No       *)
(* action uses them: put in the place of that definition they break the     *)
(* property their comment names.                                            *)
(****************************************************************************)
EXTENDS Naturals, FiniteSets

CONSTANTS
    Planeaciones,     \* identifiers of pedagogical plannings
    Resultados,       \* learning results (RA) of the program
    RAsDeActividad,   \* the RAs the activity of each planning may select
    Contenidos,       \* didactic contents of a planning
    Observaciones,    \* identifiers of review observations
    Solicitudes,      \* identifiers of reopening requests
    Nada,             \* "no content": the planning is not in the workbook
    MaxVersion        \* bound on the number of deliveries of the process

ASSUME ConstantesAssumption ==
    /\ RAsDeActividad \in [Planeaciones -> SUBSET Resultados]
    /\ MaxVersion \in Nat
    /\ Nada \notin Contenidos
    /\ Nada \notin Planeaciones

VARIABLES
    entregas,        \* entregas_revision_curricular, by version
    ultima,          \* greatest version delivered, 0 before the first
    observaciones,   \* observaciones_revision_curricular
    planeaciones,    \* planeaciones_pedagogicas
    resultados,      \* lock columns of resultados_aprendizaje
    raLocks,         \* datos_complementarios["ra_locks"] of each planning
    solicitudes,     \* planning_edit_requests with their items
    versiones,       \* learning_result_versions
    config,          \* planeacion_documento_config of the project
    objeto           \* the consolidated workbook stored in MinIO

vars == <<entregas, ultima, observaciones, planeaciones, resultados, raLocks,
          solicitudes, versiones, config, objeto>>

-----------------------------------------------------------------------------
(* Row types *)

Version == 1..MaxVersion

EstadoEntrega == {"AUSENTE", "BORRADOR", "ENVIADO_REVISION", "EN_REVISION",
                  "AJUSTES_SOLICITADOS", "AJUSTES_EN_PROGRESO", "REENVIADO",
                  "APROBADO"}
EnCurso == {"ENVIADO_REVISION", "EN_REVISION", "REENVIADO"}
PorIniciar == {"ENVIADO_REVISION", "REENVIADO"}

EstadoObservacion == {"AUSENTE", "PENDIENTE", "AJUSTE_REPORTADO", "RESUELTO"}

EstadoPlaneacion == {"AUSENTE", "BORRADOR", "COMPLETO", "ELIMINADA"}
EstadoRevision == {"DRAFT", "IN_REVIEW", "OBSERVED", "APPROVED", "CHANGES_ALLOWED"}
EstadoAprobacion == {"PENDING", "APPROVED", "PREVIOUS_VERSION_APPROVED"}
EstadoEdicion == {"EDITABLE", "LOCKED"}

EstadoSolicitud == {"AUSENTE", "PENDING", "APPROVED", "PARTIALLY_APPROVED",
                    "REJECTED", "COMPLETED"}
Abierta == {"APPROVED", "PARTIALLY_APPROVED"}

\* A generated workbook has one block per complete planning, fixed by the RAs
\* and the contents of the planning; its SHA-256 stands for that function.
Bloque == [ras: SUBSET Resultados, contenido: Contenidos \cup {Nada}]
SinBloque == [ras |-> {}, contenido |-> Nada]
Documento == [Planeaciones -> Bloque]
SinDoc == [p \in Planeaciones |-> SinBloque]

Entrega == [estado: EstadoEntrega, descarga: BOOLEAN,
            planes: SUBSET Planeaciones, doc: Documento]
Observacion == [estado: EstadoObservacion, entrega: 0..MaxVersion]
Planeacion == [estado: EstadoPlaneacion, review: EstadoRevision,
               approval: EstadoAprobacion, edit: EstadoEdicion,
               ras: SUBSET Resultados, contenido: Contenidos \cup {Nada}]
Resultado == [edit: EstadoEdicion, reabierto: BOOLEAN, aprobada: 0..MaxVersion]
RaLock == [edit: EstadoEdicion \cup {"SIN_ENTRADA"}, reabierto: BOOLEAN]
Solicitud == [estado: EstadoSolicitud, plan: Planeaciones \cup {Nada},
              pedidos: SUBSET Resultados, aprobados: SUBSET Resultados]
VersionRA == [plan: Planeaciones, ra: Resultados, version: Nat \ {0}, oficial: BOOLEAN]
Config == [existe: BOOLEAN, doc: Documento, alDia: BOOLEAN, oficial: BOOLEAN]

TypeOK ==
    /\ entregas \in [Version -> Entrega]
    /\ ultima \in 0..MaxVersion
    /\ observaciones \in [Observaciones -> Observacion]
    /\ planeaciones \in [Planeaciones -> Planeacion]
    /\ resultados \in [Resultados -> Resultado]
    /\ raLocks \in [Planeaciones -> [Resultados -> RaLock]]
    /\ solicitudes \in [Solicitudes -> Solicitud]
    /\ \A q \in Solicitudes : solicitudes[q].estado # "AUSENTE" =>
           solicitudes[q].plan \in Planeaciones
    /\ versiones \in SUBSET VersionRA
    /\ config \in Config
    /\ objeto \in Documento

SinLock == [edit |-> "SIN_ENTRADA", reabierto |-> FALSE]

Init ==
    /\ entregas = [v \in Version |-> [estado |-> "AUSENTE", descarga |-> FALSE,
                                      planes |-> {}, doc |-> SinDoc]]
    /\ ultima = 0
    /\ observaciones = [o \in Observaciones |-> [estado |-> "AUSENTE", entrega |-> 0]]
    /\ planeaciones = [p \in Planeaciones |->
           [estado |-> "AUSENTE", review |-> "DRAFT", approval |-> "PENDING",
            edit |-> "EDITABLE", ras |-> {}, contenido |-> Nada]]
    /\ resultados = [r \in Resultados |->
           [edit |-> "EDITABLE", reabierto |-> FALSE, aprobada |-> 0]]
    /\ raLocks = [p \in Planeaciones |-> [r \in Resultados |-> SinLock]]
    /\ solicitudes = [q \in Solicitudes |->
           [estado |-> "AUSENTE", plan |-> Nada, pedidos |-> {}, aprobados |-> {}]]
    /\ versiones = {}
    /\ config = [existe |-> FALSE, doc |-> SinDoc, alDia |-> FALSE, oficial |-> FALSE]
    /\ objeto = SinDoc

-----------------------------------------------------------------------------
(* What the handlers read *)

Existe(p) == planeaciones[p].estado \in {"BORRADOR", "COMPLETO"}
Existentes == {p \in Planeaciones : Existe(p)}
Completas(plans) == {p \in Planeaciones : plans[p].estado = "COMPLETO"}
Borradores(plans) == {p \in Planeaciones : plans[p].estado = "BORRADOR"}

\* What a planning contributes to the workbook.
BloqueDe(fila) == [ras |-> fila.ras, contenido |-> fila.contenido]

\* The workbook that generating from the complete plannings would produce.
DocDe(plans) == [p \in Planeaciones |->
                    IF plans[p].estado = "COMPLETO"
                    THEN BloqueDe(plans[p]) ELSE SinBloque]

\* The reopening mark wins over the lock (breaks RevisadoIntacto).
BloqueadoDefectoMarca(p, r) ==
    /\ ~ resultados[r].reabierto
    /\ ~ raLocks[p][r].reabierto
    /\ \/ resultados[r].edit = "LOCKED"
       \/ raLocks[p][r].edit = "LOCKED"
       \/ raLocks[p][r].edit = "SIN_ENTRADA" /\ planeaciones[p].edit = "LOCKED"

\* The planning's own entry is never read (breaks SoloSolicitudDesbloquea).
BloqueadoDefectoColumna(p, r) == resultados[r].edit = "LOCKED"

\* The effective lock of RA r seen from planning p: the global column of the
\* RA first, then the reopening marks, then the planning's own JSON entry.
Bloqueado(p, r) ==
    \/ resultados[r].edit = "LOCKED"
    \/ /\ ~ resultados[r].reabierto
       /\ ~ raLocks[p][r].reabierto
       /\ \/ raLocks[p][r].edit = "LOCKED"
          \/ raLocks[p][r].edit = "SIN_ENTRADA" /\ planeaciones[p].edit = "LOCKED"

TieneRAEditable(p) == \E r \in planeaciones[p].ras : ~ Bloqueado(p, r)

EnReapertura(p) ==
    \/ planeaciones[p].approval = "PREVIOUS_VERSION_APPROVED"
    \/ planeaciones[p].review = "CHANGES_ALLOWED"

\* Deliveries that authorise the download of the workbook.
Autorizadas == {v \in Version : entregas[v].estado = "APROBADO" /\ entregas[v].descarga}
UltimaAutorizada(v) == v \in Autorizadas /\ \A w \in Autorizadas : w <= v

ObsDe(v) == {o \in Observaciones : /\ observaciones[o].estado # "AUSENTE"
                                   /\ observaciones[o].entrega = v}
SinResolver(v) == {o \in ObsDe(v) : observaciones[o].estado # "RESUELTO"}

\* The download flag is forgotten (breaks DescargaCoherente).
InvalidarAprobacionesDefecto ==
    [v \in Version |-> IF entregas[v].estado = "APROBADO"
                       THEN [entregas[v] EXCEPT !.estado = "BORRADOR"] ELSE entregas[v]]

\* invalidate_approval_on_mutation: every approved delivery loses its approval.
InvalidarAprobaciones ==
    [v \in Version |-> IF entregas[v].estado = "APROBADO"
                       THEN [entregas[v] EXCEPT !.estado = "BORRADOR", !.descarga = FALSE]
                       ELSE entregas[v]]

\* Only edits of approved plannings invalidate (breaks EdicionInvalida).
InvalidarSalvoReaperturaDefecto(p) ==
    entregas' = IF EnReapertura(p) \/ planeaciones[p].approval = "PENDING"
                THEN entregas ELSE InvalidarAprobaciones

\* The controllers skip the invalidation for a planning in reopening.
InvalidarSalvoReapertura(p) ==
    entregas' = IF EnReapertura(p) THEN entregas ELSE InvalidarAprobaciones

\* The planning's timestamp is not touched (breaks AlDiaFiel).
DesactualizarDefecto == config' = config

\* An UPDATE of any planning row leaves the consolidated workbook outdated.
Desactualizar == config' = [config EXCEPT !.alDia = FALSE]

-----------------------------------------------------------------------------
(* Plannings and official documents: the executor team *)

CrearPlaneacion(p, ras, c) ==
    /\ planeaciones[p].estado = "AUSENTE"
    /\ ras # {}
    /\ \A r \in ras : resultados[r].edit # "LOCKED"
    /\ planeaciones' = [planeaciones EXCEPT ![p] =
           [@ EXCEPT !.estado = "BORRADOR", !.ras = ras, !.contenido = c]]
    /\ InvalidarSalvoReapertura(p)
    /\ Desactualizar
    /\ UNCHANGED <<ultima, observaciones, resultados, raLocks, solicitudes, versiones, objeto>>

\* Saving an existing planning always sends it back to BORRADOR.  The RAs it
\* keeps locked cannot be dropped; those it adds must not be locked.
GuardarBorrador(p, ras, c) ==
    /\ Existe(p)
    /\ ras # {}
    /\ TieneRAEditable(p)
    /\ \A r \in ras \ planeaciones[p].ras : ~ Bloqueado(p, r)
    /\ \A r \in planeaciones[p].ras : Bloqueado(p, r) => r \in ras
    /\ planeaciones' = [planeaciones EXCEPT ![p] =
           [@ EXCEPT !.estado = "BORRADOR", !.ras = ras, !.contenido = c]]
    /\ InvalidarSalvoReapertura(p)
    /\ Desactualizar
    /\ UNCHANGED <<ultima, observaciones, resultados, raLocks, solicitudes, versiones, objeto>>

ConfirmarYGenerar(p) ==
    /\ Existe(p)
    /\ TieneRAEditable(p)
    /\ config.existe
    /\ planeaciones' = [planeaciones EXCEPT ![p].estado = "COMPLETO"]
    /\ InvalidarSalvoReapertura(p)
    /\ Desactualizar
    /\ UNCHANGED <<ultima, observaciones, resultados, raLocks, solicitudes, versiones, objeto>>

\* generar_formato_individual completes the planning too, never invalidates,
\* and commits the new state even when the workbook could not be stored (then
\* only a change of state touches the row).
GenerarIndividual(p) ==
    /\ Existe(p)
    /\ TieneRAEditable(p)
    /\ config.existe
    /\ planeaciones' = [planeaciones EXCEPT ![p].estado = "COMPLETO"]
    /\ \/ Desactualizar
       \/ planeaciones[p].estado = "COMPLETO" /\ UNCHANGED config
    /\ UNCHANGED <<entregas, ultima, observaciones, resultados, raLocks,
                   solicitudes, versiones, objeto>>

\* The drafts that have no gaps are confirmed on the way, locked or not.
ConBorradoresConfirmados(listos) ==
    [p \in Planeaciones |-> IF p \in listos
                            THEN [planeaciones[p] EXCEPT !.estado = "COMPLETO"]
                            ELSE planeaciones[p]]

PuedeGenerar(listos) ==
    /\ listos \subseteq Borradores(planeaciones)
    /\ config.existe
    /\ Completas(ConBorradoresConfirmados(listos)) # {}

GenerarConsolidado(listos) ==
    LET plans == ConBorradoresConfirmados(listos) IN
    /\ PuedeGenerar(listos)
    /\ planeaciones' = plans
    /\ config' = [config EXCEPT !.doc = DocDe(plans), !.alDia = TRUE]
    /\ objeto' = DocDe(plans)
    /\ UNCHANGED <<entregas, ultima, observaciones, resultados, raLocks,
                   solicitudes, versiones>>

\* Storage or generation fails after some drafts were confirmed: the
\* controller commits what the session holds.
GenerarConsolidadoFalla(listos) ==
    /\ listos \subseteq Borradores(planeaciones)
    /\ listos # {}
    /\ config.existe
    /\ planeaciones' = ConBorradoresConfirmados(listos)
    /\ Desactualizar
    /\ UNCHANGED <<entregas, ultima, observaciones, resultados, raLocks,
                   solicitudes, versiones, objeto>>

GuardarConfiguracion ==
    /\ config' = [config EXCEPT !.existe = TRUE, !.doc = SinDoc, !.alDia = FALSE]
    /\ entregas' = InvalidarAprobaciones
    /\ UNCHANGED <<ultima, observaciones, planeaciones, resultados, raLocks,
                   solicitudes, versiones, objeto>>

PuedeEliminar(p) ==
    /\ Existe(p)
    /\ planeaciones[p].edit # "LOCKED"
    /\ \A r \in planeaciones[p].ras : ~ Bloqueado(p, r)

\* The planning's requests and RA versions go with it (ON DELETE CASCADE); a
\* failure to delete the consolidated workbook from MinIO is swallowed.
EliminarPlaneacion(p) ==
    /\ PuedeEliminar(p)
    /\ planeaciones' = [planeaciones EXCEPT ![p] =
           [@ EXCEPT !.estado = "ELIMINADA", !.contenido = Nada, !.ras = {}]]
    /\ solicitudes' = [q \in Solicitudes |->
           IF solicitudes[q].plan = p
           THEN [solicitudes[q] EXCEPT !.estado = "AUSENTE", !.plan = Nada,
                                       !.pedidos = {}, !.aprobados = {}]
           ELSE solicitudes[q]]
    /\ versiones' = {x \in versiones : x.plan # p}
    /\ raLocks' = [raLocks EXCEPT ![p] = [r \in Resultados |-> SinLock]]
    /\ config' = [config EXCEPT !.doc = SinDoc, !.alDia = FALSE]
    /\ objeto' \in {objeto, SinDoc}
    /\ entregas' = InvalidarAprobaciones
    /\ UNCHANGED <<ultima, observaciones, resultados>>

\* The planning's own workbook cannot be deleted from MinIO: the request rolls
\* back, with the consolidated workbook already gone.
EliminarPlaneacionFalla(p) ==
    /\ PuedeEliminar(p)
    /\ config.doc # SinDoc
    /\ objeto' = SinDoc
    /\ UNCHANGED <<entregas, ultima, observaciones, planeaciones, resultados,
                   raLocks, solicitudes, versiones, config>>

-----------------------------------------------------------------------------
(* Submission *)

\* No look at the delivery in course (breaks UnaEntregaActiva).
PreflightDefectoEntrega(plans, doc, alDia) ==
    /\ Completas(plans) # {}
    /\ Borradores(plans) = {}
    /\ config.existe
    /\ doc # SinDoc
    /\ alDia

\* Any stored workbook will do (breaks EntregaFiel).
PreflightDefectoAlDia(plans, doc, alDia) ==
    /\ Completas(plans) # {}
    /\ Borradores(plans) = {}
    /\ config.existe
    /\ doc # SinDoc
    /\ ultima # 0 => entregas[ultima].estado \notin EnCurso

Preflight(plans, doc, alDia) ==
    /\ Completas(plans) # {}
    /\ Borradores(plans) = {}
    /\ config.existe
    /\ doc # SinDoc
    /\ alDia
    /\ ultima # 0 => entregas[ultima].estado \notin EnCurso

\* The whole of enviar_a_revision after the optional generation: `plans`, `doc`
\* and `alDia` are the plannings and the workbook as that generation left them.
Enviar(plans, doc, alDia, quedaAlDia) ==
    LET delProyecto == Completas(plans) \cup Borradores(plans) IN
    /\ ultima < MaxVersion
    /\ Preflight(plans, doc, alDia)
    /\ ultima' = ultima + 1
    /\ entregas' = [entregas EXCEPT ![ultima + 1] =
           [estado |-> IF ultima = 0 THEN "ENVIADO_REVISION" ELSE "REENVIADO",
            descarga |-> FALSE, planes |-> Completas(plans), doc |-> doc]]
    /\ planeaciones' = [p \in Planeaciones |->
           IF p \in delProyecto
           THEN [plans[p] EXCEPT !.review = "IN_REVIEW", !.edit = "LOCKED"]
           ELSE plans[p]]
    /\ resultados' = [r \in Resultados |->
           IF \E p \in delProyecto : r \in plans[p].ras
           THEN [resultados[r] EXCEPT !.edit = "LOCKED"] ELSE resultados[r]]
    /\ raLocks' = [p \in Planeaciones |-> [r \in Resultados |->
           IF p \in delProyecto /\ r \in plans[p].ras
           THEN [raLocks[p][r] EXCEPT !.edit = "LOCKED"] ELSE raLocks[p][r]]]
    /\ solicitudes' = [q \in Solicitudes |->
           IF solicitudes[q].plan \in delProyecto /\ solicitudes[q].estado \in Abierta
           THEN [solicitudes[q] EXCEPT !.estado = "COMPLETED"] ELSE solicitudes[q]]
    /\ config' = [config EXCEPT !.doc = doc, !.alDia = quedaAlDia]
    /\ UNCHANGED <<observaciones, versiones>>

EnviarARevision ==
    /\ Enviar(planeaciones, config.doc, config.alDia, FALSE)
    /\ UNCHANGED objeto

\* auto_generar_formato: one transaction, so the timestamp the re-lock writes
\* is older than the workbook and the document stays up to date.
GenerarYEnviar(listos) ==
    LET plans == ConBorradoresConfirmados(listos) IN
    /\ PuedeGenerar(listos)
    /\ Enviar(plans, DocDe(plans), TRUE, TRUE)
    /\ objeto' = DocDe(plans)

\* The preflight rejects the submission after the workbook was stored: the
\* transaction rolls back, the object in MinIO does not.
GenerarYEnviarRechazado(listos) ==
    LET plans == ConBorradoresConfirmados(listos) IN
    /\ PuedeGenerar(listos)
    /\ ~ Preflight(plans, DocDe(plans), TRUE)
    /\ objeto' = DocDe(plans)
    /\ UNCHANGED <<entregas, ultima, observaciones, planeaciones, resultados,
                   raLocks, solicitudes, versiones, config>>

-----------------------------------------------------------------------------
(* Review *)

\* Whatever is not approved can be taken up (breaks ImplementaEntregas).
IniciarRevisionDefecto(v) ==
    /\ entregas[v].estado \notin {"AUSENTE", "APROBADO"}
    /\ entregas' = [entregas EXCEPT ![v].estado = "EN_REVISION"]
    /\ UNCHANGED <<ultima, observaciones, planeaciones, resultados, raLocks,
                   solicitudes, versiones, config, objeto>>

IniciarRevision(v) ==
    /\ entregas[v].estado \in PorIniciar
    /\ entregas' = [entregas EXCEPT ![v].estado = "EN_REVISION"]
    /\ UNCHANGED <<ultima, observaciones, planeaciones, resultados, raLocks,
                   solicitudes, versiones, config, objeto>>

CrearObservacion(o, v) ==
    /\ observaciones[o].estado = "AUSENTE"
    /\ entregas[v].estado \notin {"AUSENTE", "APROBADO"}
    /\ observaciones' = [observaciones EXCEPT ![o] = [estado |-> "PENDIENTE", entrega |-> v]]
    /\ entregas' = IF entregas[v].estado \in PorIniciar
                   THEN [entregas EXCEPT ![v].estado = "EN_REVISION"] ELSE entregas
    /\ UNCHANGED <<ultima, planeaciones, resultados, raLocks, solicitudes,
                   versiones, config, objeto>>

ReportarAjuste(o) ==
    LET v == observaciones[o].entrega IN
    /\ observaciones[o].estado # "AUSENTE"
    /\ observaciones' = [observaciones EXCEPT ![o].estado = "AJUSTE_REPORTADO"]
    /\ entregas' = IF entregas[v].estado = "AJUSTES_SOLICITADOS"
                   THEN [entregas EXCEPT ![v].estado = "AJUSTES_EN_PROGRESO"] ELSE entregas
    /\ UNCHANGED <<ultima, planeaciones, resultados, raLocks, solicitudes,
                   versiones, config, objeto>>

ResolverObservacion(o) ==
    /\ observaciones[o].estado # "AUSENTE"
    /\ observaciones' = [observaciones EXCEPT ![o].estado = "RESUELTO"]
    /\ UNCHANGED <<entregas, ultima, planeaciones, resultados, raLocks,
                   solicitudes, versiones, config, objeto>>

\* Only plannings never approved are made editable, and of their RAs only
\* those never approved; neither ra_locks nor the reopening marks change.
SolicitarAjustes(v) ==
    LET libera(p) == Existe(p) /\ planeaciones[p].approval = "PENDING"
        plans == [p \in Planeaciones |->
                    IF ~ Existe(p) THEN planeaciones[p]
                    ELSE IF libera(p)
                    THEN [planeaciones[p] EXCEPT !.review = "OBSERVED", !.edit = "EDITABLE"]
                    ELSE [planeaciones[p] EXCEPT !.review = "OBSERVED"]] IN
    /\ SinResolver(v) # {}
    /\ entregas' = [entregas EXCEPT ![v] =
           [@ EXCEPT !.estado = "AJUSTES_SOLICITADOS", !.descarga = FALSE]]
    /\ planeaciones' = plans
    /\ resultados' = [r \in Resultados |->
           IF resultados[r].aprobada = 0
              /\ \E p \in Planeaciones : libera(p) /\ r \in planeaciones[p].ras
           THEN [resultados[r] EXCEPT !.edit = "EDITABLE"] ELSE resultados[r]]
    /\ config' = [config EXCEPT !.alDia = @ /\ plans = planeaciones]
    /\ UNCHANGED <<ultima, observaciones, raLocks, solicitudes, versiones, objeto>>

\* The RA only gets its version stamp (breaks AprobadaBloqueada).
RAAprobadoDefecto(r, v) == [resultados[r] EXCEPT !.aprobada = v]

RAAprobado(r, v) == [edit |-> "LOCKED", reabierto |-> FALSE, aprobada |-> v]

\* The previous versions stay official (breaks VersionOficialUnica).
RetirarOficialesDefecto(plans) == versiones

RetirarOficiales(plans) ==
    {IF x.plan \in plans THEN [x EXCEPT !.oficial = FALSE] ELSE x : x \in versiones}

\* Approval freezes every complete planning of the project.  The unique key
\* (planning, RA, version) of learning_result_versions makes a second approval
\* of the same version fail while a planning of the first one remains.
AprobarEntrega(v) ==
    LET plans == Completas(planeaciones)
        nuevas == {[plan |-> x[1], ra |-> x[2], version |-> v, oficial |-> TRUE] :
                     x \in {y \in plans \X Resultados : y[2] \in planeaciones[y[1]].ras}} IN
    /\ v = ultima
    /\ SinResolver(v) = {}
    /\ \A x \in versiones, y \in nuevas :
           ~ (x.plan = y.plan /\ x.ra = y.ra /\ x.version = y.version)
    /\ entregas' = [entregas EXCEPT ![v] =
           [estado |-> "APROBADO", descarga |-> TRUE, planes |-> plans, doc |-> config.doc]]
    /\ config' = [config EXCEPT !.oficial = config.doc # SinDoc, !.alDia = FALSE]
    /\ planeaciones' = [p \in Planeaciones |->
           IF p \in plans
           THEN [planeaciones[p] EXCEPT !.review = "APPROVED", !.approval = "APPROVED",
                                        !.edit = "LOCKED"]
           ELSE planeaciones[p]]
    /\ resultados' = [r \in Resultados |->
           IF \E p \in plans : r \in planeaciones[p].ras
           THEN RAAprobado(r, v) ELSE resultados[r]]
    /\ raLocks' = [p \in Planeaciones |-> [r \in Resultados |->
           IF p \in plans /\ r \in planeaciones[p].ras
           THEN [edit |-> "LOCKED", reabierto |-> FALSE] ELSE raLocks[p][r]]]
    /\ versiones' = RetirarOficiales(plans) \cup nuevas
    /\ solicitudes' = [q \in Solicitudes |->
           IF solicitudes[q].plan \in plans /\ solicitudes[q].estado \in Abierta
           THEN [solicitudes[q] EXCEPT !.estado = "COMPLETED"] ELSE solicitudes[q]]
    /\ UNCHANGED <<ultima, observaciones, objeto>>

-----------------------------------------------------------------------------
(* Download *)

HayReaperturaCompleta ==
    \E p \in Completas(planeaciones) : EnReapertura(p)

CoincideConAprobado(v) ==
    /\ Cardinality(Completas(planeaciones)) = Cardinality(entregas[v].planes)
    /\ config.doc = entregas[v].doc

\* verify_download_authorization would let the team download now.
DescargaAutorizada ==
    \E v \in Version : /\ UltimaAutorizada(v)
                       /\ HayReaperturaCompleta \/ CoincideConAprobado(v)

\* A download attempt of the team that finds the contents changed.
VerificarDescargaInvalida(v) ==
    /\ UltimaAutorizada(v)
    /\ ~ HayReaperturaCompleta
    /\ ~ CoincideConAprobado(v)
    /\ entregas' = [entregas EXCEPT ![v] =
           [@ EXCEPT !.estado = "BORRADOR", !.descarga = FALSE]]
    /\ UNCHANGED <<ultima, observaciones, planeaciones, resultados, raLocks,
                   solicitudes, versiones, config, objeto>>

\* descargar_formato_consolidado regenerates a missing workbook; the request
\* never commits, so only the object in MinIO changes.  Reviewers reach it
\* without the authorisation check.
DescargarRegenerando(listos) ==
    /\ config.doc = SinDoc
    /\ ~ config.oficial
    /\ PuedeGenerar(listos)
    /\ Completas(planeaciones) # {}
    /\ objeto' = DocDe(ConBorradoresConfirmados(listos))
    /\ UNCHANGED <<entregas, ultima, observaciones, planeaciones, resultados,
                   raLocks, solicitudes, versiones, config>>

-----------------------------------------------------------------------------
(* Controlled reopening *)

\* Only an identical pending request is a duplicate (breaks PendienteUnico).
SinPendienteDefecto(p, ras) ==
    \A x \in Solicitudes :
        solicitudes[x].plan = p /\ solicitudes[x].estado = "PENDING"
        => solicitudes[x].pedidos # ras

SinPendiente(p, ras) ==
    \A x \in Solicitudes :
        solicitudes[x].plan = p /\ solicitudes[x].estado = "PENDING"
        => solicitudes[x].pedidos \cap ras = {}

CrearSolicitud(q, p, ras) ==
    /\ solicitudes[q].estado = "AUSENTE"
    /\ Existe(p)
    /\ \/ planeaciones[p].approval # "PENDING"
       \/ Autorizadas # {}
    /\ ras # {}
    /\ ras \subseteq planeaciones[p].ras
    /\ \A r \in ras : resultados[r].edit = "LOCKED"
    /\ SinPendiente(p, ras)
    /\ solicitudes' = [solicitudes EXCEPT ![q] =
           [estado |-> "PENDING", plan |-> p, pedidos |-> ras, aprobados |-> {}]]
    /\ UNCHANGED <<entregas, ultima, observaciones, planeaciones, resultados,
                   raLocks, versiones, config, objeto>>

\* RAs opened by an earlier request are closed too (breaks AutorizacionVigente).
NoAutorizadosDefecto(p, ras) == planeaciones[p].ras \ ras

\* The RAs of the planning that the decision (re)locks.
NoAutorizados(p, ras) == {r \in planeaciones[p].ras \ ras : resultados[r].edit # "EDITABLE"}

\* No floor of 1 for an RA never approved (breaks TypeOK).
VersionPreviaDefecto(r) == resultados[r].aprobada

VersionPrevia(r) == IF resultados[r].aprobada = 0 THEN 1 ELSE resultados[r].aprobada

\* The RAs of the planning that lack any version get one before they open.
AprobarSolicitud(q, ras) ==
    LET p == solicitudes[q].plan
        abre == ras \cap planeaciones[p].ras
        cierra == NoAutorizados(p, ras)
        sinVersion == {r \in abre : \A x \in versiones : ~ (x.plan = p /\ x.ra = r)} IN
    /\ solicitudes[q].estado = "PENDING"
    /\ ras # {}
    /\ ras \subseteq solicitudes[q].pedidos
    /\ solicitudes' = [solicitudes EXCEPT ![q] =
           [@ EXCEPT !.estado = IF ras = solicitudes[q].pedidos
                                THEN "APPROVED" ELSE "PARTIALLY_APPROVED",
                     !.aprobados = ras]]
    /\ planeaciones' = [planeaciones EXCEPT ![p] =
           [@ EXCEPT !.review = "CHANGES_ALLOWED",
                     !.approval = "PREVIOUS_VERSION_APPROVED", !.edit = "EDITABLE"]]
    /\ resultados' = [r \in Resultados |->
           CASE r \in abre -> [resultados[r] EXCEPT !.edit = "EDITABLE", !.reabierto = TRUE]
             [] r \in cierra -> [resultados[r] EXCEPT !.edit = "LOCKED"]
             [] OTHER -> resultados[r]]
    /\ raLocks' = [raLocks EXCEPT ![p] = [r \in Resultados |->
           CASE r \in abre -> [edit |-> "EDITABLE", reabierto |-> TRUE]
             [] r \in cierra -> [raLocks[p][r] EXCEPT !.edit = "LOCKED"]
             [] OTHER -> raLocks[p][r]]]
    /\ versiones' = versiones \cup
           {[plan |-> p, ra |-> r, version |-> VersionPrevia(r), oficial |-> TRUE] :
              r \in sinVersion}
    /\ config' = [config EXCEPT !.oficial = @ \/ config.doc # SinDoc, !.alDia = FALSE]
    /\ UNCHANGED <<entregas, ultima, observaciones, objeto>>

RechazarSolicitud(q) ==
    /\ solicitudes[q].estado = "PENDING"
    /\ solicitudes' = [solicitudes EXCEPT ![q].estado = "REJECTED"]
    /\ UNCHANGED <<entregas, ultima, observaciones, planeaciones, resultados,
                   raLocks, versiones, config, objeto>>

-----------------------------------------------------------------------------
PlaneacionNext ==
    \/ \E p \in Planeaciones :
          \/ \E ras \in SUBSET RAsDeActividad[p], c \in Contenidos :
                CrearPlaneacion(p, ras, c) \/ GuardarBorrador(p, ras, c)
          \/ ConfirmarYGenerar(p) \/ GenerarIndividual(p)
          \/ EliminarPlaneacion(p) \/ EliminarPlaneacionFalla(p)
    \/ GuardarConfiguracion

DocumentoNext ==
    \E listos \in SUBSET Planeaciones :
        \/ GenerarConsolidado(listos) \/ GenerarConsolidadoFalla(listos)
        \/ GenerarYEnviar(listos) \/ GenerarYEnviarRechazado(listos)
        \/ DescargarRegenerando(listos)

RevisionNext ==
    \/ EnviarARevision
    \/ \E v \in Version : \/ IniciarRevision(v) \/ SolicitarAjustes(v)
                          \/ AprobarEntrega(v) \/ VerificarDescargaInvalida(v)
    \/ \E o \in Observaciones : \/ \E v \in Version : CrearObservacion(o, v)
                                \/ ReportarAjuste(o) \/ ResolverObservacion(o)

ReaperturaNext ==
    \E q \in Solicitudes :
        \/ \E p \in Planeaciones, ras \in SUBSET Resultados : CrearSolicitud(q, p, ras)
        \/ \E ras \in SUBSET Resultados : AprobarSolicitud(q, ras)
        \/ RechazarSolicitud(q)

Next == PlaneacionNext \/ DocumentoNext \/ RevisionNext \/ ReaperturaNext

Spec == Init /\ [][Next]_vars

-----------------------------------------------------------------------------
(* Safety *)

\* RA r can be selected by no planning but p.
Exclusivo(p, r) == \A x \in Planeaciones \ {p} : r \notin RAsDeActividad[x]

\* No RA of planning p can be selected by another planning.
Aislada(p) == \A r \in RAsDeActividad[p] : Exclusivo(p, r)

\* Open requests: they authorise edits until a submission or an approval
\* closes them.
Autorizan(p) == {q \in Solicitudes : /\ solicitudes[q].plan = p
                                     /\ solicitudes[q].estado \in Abierta}

\* Only the latest delivery of the process can be waiting for the reviewers:
\* no sequence of submissions, decisions on older deliveries and adjustments
\* leaves two versions in review.
UnaEntregaActiva == \A v \in Version : entregas[v].estado \in EnCurso => v = ultima

\* The download flag and the state APROBADO of a delivery never drift apart,
\* although several handlers write one, the other or both.
DescargaCoherente ==
    \A v \in Version : entregas[v].descarga <=> entregas[v].estado = "APROBADO"

\* While a delivery is in review, a planning it contains that shares no RA
\* with another differs from the reviewed workbook only if it was
\* deleted or reopened by a request that is still open.
RevisadoIntacto ==
    \A v \in Version, p \in Planeaciones :
        /\ entregas[v].estado \in EnCurso
        /\ p \in entregas[v].planes
        /\ Existe(p)
        /\ Aislada(p)
        /\ BloqueDe(planeaciones[p]) # entregas[v].doc[p]
        => Autorizan(p) # {}

\* An approved planning that was not reopened is locked in every RA, unless
\* another planning can select some RA of its activity.
AprobadaBloqueada ==
    \A p \in Planeaciones :
        Existe(p) /\ planeaciones[p].approval = "APPROVED" /\ Aislada(p) =>
            \A r \in planeaciones[p].ras : Bloqueado(p, r)

\* A workbook reported as up to date shows exactly the complete plannings as
\* they are now.
AlDiaFiel == config.alDia => config.doc = DocDe(planeaciones)

\* A submission delivers exactly the complete plannings, at least one, and the
\* workbook that shows them as they are.
EntregaFiel ==
    [][ ultima' # ultima =>
          /\ entregas'[ultima'].planes = Completas(planeaciones')
          /\ Completas(planeaciones') # {}
          /\ entregas'[ultima'].doc = DocDe(planeaciones') ]_vars

\* No RA of a planning waits for two decisions at once.
PendienteUnico ==
    \A q, x \in Solicitudes :
        /\ solicitudes[q].estado = "PENDING" /\ solicitudes[x].estado = "PENDING"
        /\ solicitudes[q].plan = solicitudes[x].plan
        /\ solicitudes[q].pedidos \cap solicitudes[x].pedidos # {}
        => q = x

\* What a request opened stays open for its planning until the request is
\* closed, for RAs no other planning can select.
AutorizacionVigente ==
    \A p \in Planeaciones : \A q \in Autorizan(p) :
        \A r \in solicitudes[q].aprobados \cap planeaciones[p].ras :
            Exclusivo(p, r) => ~ Bloqueado(p, r)

\* An RA of a planning never has two official versions, and every RA of an
\* approved planning that shares none has one.
VersionOficialUnica ==
    \A p \in Planeaciones, r \in Resultados :
        LET oficiales == {x \in versiones : x.plan = p /\ x.ra = r /\ x.oficial} IN
        /\ \A x, y \in oficiales : x = y
        /\ /\ Existe(p) /\ planeaciones[p].approval = "APPROVED" /\ Aislada(p)
           /\ r \in planeaciones[p].ras
           => oficiales # {}

\* A planning outside reopening never changes while some delivery keeps its
\* approval.
EdicionInvalida ==
    [][ (\E v \in Version : entregas'[v].estado = "APROBADO") =>
        \A p \in Planeaciones : Existe(p) /\ ~ EnReapertura(p) =>
            BloqueDe(planeaciones'[p]) = BloqueDe(planeaciones[p]) ]_vars

\* Nothing but the approval of a request for it unlocks an RA of a planning.
SoloSolicitudDesbloquea ==
    [][ \A p \in Planeaciones : \A r \in planeaciones[p].ras :
          Exclusivo(p, r) /\ Bloqueado(p, r) /\ ~ Bloqueado(p, r)' =>
              \E q \in Solicitudes : /\ solicitudes[q].estado = "PENDING"
                                     /\ solicitudes[q].plan = p
                                     /\ r \in solicitudes'[q].aprobados ]_vars

-----------------------------------------------------------------------------
(* What the deliveries promise *)

\* Who has delivery e, and the workbook it shows them.
TurnoDe(e) ==
    CASE e.estado = "AUSENTE" -> "NADIE"
      [] e.estado \in EnCurso -> "REVISORES"
      [] e.estado = "APROBADO" -> "APROBADA"
      [] OTHER -> "EQUIPO"
LibroDe(e) == IF TurnoDe(e) \in {"REVISORES", "APROBADA"} THEN e.doc ELSE SinDoc

Turno == [v \in Version |-> TurnoDe(entregas[v])]
Libro == [v \in Version |-> LibroDe(entregas[v])]

Ciclo == INSTANCE CicloEntrega
         WITH turno <- Turno, libro <- Libro, Libros <- Documento, SinLibro <- SinDoc

\* Deliveries follow CicloEntrega, however submissions, decisions on any delivery,
\* reported adjustments, reopenings, edits and deletions interleave.
ImplementaEntregas == Ciclo!Spec
=============================================================================
