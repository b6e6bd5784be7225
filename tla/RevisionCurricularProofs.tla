---------------------- MODULE RevisionCurricularProofs ----------------------
(* Proof that RevisionCurricular is well typed: one lemma per handler, most   *)
(* of them one step per table the handler writes.                             *)
EXTENDS RevisionCurricular, TLAPS

-----------------------------------------------------------------------------
(* The operators the handlers are built from *)

\* Withdrawing the approvals leaves a table of deliveries.
LEMMA InvalidarTipo ==
    ASSUME entregas \in [Version -> Entrega]
    PROVE  InvalidarAprobaciones \in [Version -> Entrega]
BY DEF InvalidarAprobaciones, Entrega, EstadoEntrega

\* Marking the workbook as outdated keeps the configuration well formed.
LEMMA DesactualizarTipo ==
    ASSUME config \in Config, Desactualizar
    PROVE  config' \in Config
BY DEF Desactualizar, Config

\* The absent workbook has the shape of a workbook.
LEMMA SinDocTipo == SinDoc \in Documento
BY DEF SinDoc, SinBloque, Documento, Bloque

\* What the generator builds from well-formed plannings is a workbook.
LEMMA DocDeTipo ==
    ASSUME NEW plans \in [Planeaciones -> Planeacion]
    PROVE  DocDe(plans) \in Documento
BY DEF DocDe, BloqueDe, SinBloque, Documento, Bloque, Planeacion

\* Confirming drafts leaves a table of plannings.
LEMMA ConfirmadosTipo ==
    ASSUME NEW listos, planeaciones \in [Planeaciones -> Planeacion]
    PROVE  ConBorradoresConfirmados(listos) \in [Planeaciones -> Planeacion]
BY DEF ConBorradoresConfirmados, Planeacion, EstadoPlaneacion

-----------------------------------------------------------------------------
(* Plannings and documents *)

\* The empty database is well formed.
LEMMA InitTipo == Init => TypeOK
<1> SUFFICES ASSUME Init PROVE TypeOK
  OBVIOUS
<1>1. /\ SinDoc \in Documento
      /\ MaxVersion \in Nat
  BY SinDocTipo, ConstantesAssumption
<1>2. /\ entregas \in [Version -> Entrega]
      /\ objeto \in Documento
      /\ config \in Config
  BY <1>1 DEF Init, Entrega, EstadoEntrega, Config
<1>3. /\ ultima \in 0..MaxVersion
      /\ observaciones \in [Observaciones -> Observacion]
  BY <1>1 DEF Init, Observacion, EstadoObservacion
<1>4. /\ planeaciones \in [Planeaciones -> Planeacion]
      /\ solicitudes \in [Solicitudes -> Solicitud]
      /\ \A q \in Solicitudes : solicitudes[q].estado = "AUSENTE"
  BY DEF Init, Planeacion, EstadoPlaneacion, EstadoRevision, EstadoAprobacion, EstadoEdicion,
         Solicitud, EstadoSolicitud
<1>5. /\ resultados \in [Resultados -> Resultado]
      /\ raLocks \in [Planeaciones -> [Resultados -> RaLock]]
      /\ versiones \in SUBSET VersionRA
  BY <1>1 DEF Init, Resultado, RaLock, SinLock, EstadoEdicion
<1>6. QED
  BY <1>2, <1>3, <1>4, <1>5 DEF TypeOK

\* A save writes RAs of the activity, hence RAs of the program.
LEMMA BorradorTipo ==
    ASSUME planeaciones \in [Planeaciones -> Planeacion], NEW p \in Planeaciones,
           NEW ras \in SUBSET RAsDeActividad[p], NEW c \in Contenidos
    PROVE  [planeaciones EXCEPT ![p] =
               [@ EXCEPT !.estado = "BORRADOR", !.ras = ras, !.contenido = c]]
           \in [Planeaciones -> Planeacion]
<1>1. ras \in SUBSET Resultados
  BY ConstantesAssumption
<1>2. [planeaciones[p] EXCEPT !.estado = "BORRADOR", !.ras = ras, !.contenido = c] \in Planeacion
  BY <1>1 DEF Planeacion, EstadoPlaneacion
<1>3. QED
  BY <1>2

\* So does the invalidation that skips plannings in reopening.
LEMMA InvalidarSalvoTipo ==
    ASSUME entregas \in [Version -> Entrega], NEW p, InvalidarSalvoReapertura(p)
    PROVE  entregas' \in [Version -> Entrega]
BY InvalidarTipo DEF InvalidarSalvoReapertura

\* Creating a planning preserves the types.
LEMMA CrearTipo ==
    ASSUME TypeOK, NEW p \in Planeaciones, NEW ras \in SUBSET RAsDeActividad[p],
           NEW c \in Contenidos, CrearPlaneacion(p, ras, c)
    PROVE  TypeOK'
BY BorradorTipo, InvalidarSalvoTipo, DesactualizarTipo DEF TypeOK, CrearPlaneacion

\* Saving a planning preserves the types.
LEMMA GuardarTipo ==
    ASSUME TypeOK, NEW p \in Planeaciones, NEW ras \in SUBSET RAsDeActividad[p],
           NEW c \in Contenidos, GuardarBorrador(p, ras, c)
    PROVE  TypeOK'
BY BorradorTipo, InvalidarSalvoTipo, DesactualizarTipo DEF TypeOK, GuardarBorrador

\* Confirming a planning and generating its workbook preserve the types.
LEMMA CompletarTipo ==
    ASSUME TypeOK, NEW p \in Planeaciones, ConfirmarYGenerar(p) \/ GenerarIndividual(p)
    PROVE  TypeOK'
<1>1. [planeaciones EXCEPT ![p].estado = "COMPLETO"] \in [Planeaciones -> Planeacion]
  BY DEF TypeOK, Planeacion, EstadoPlaneacion
<1>2. CASE ConfirmarYGenerar(p)
  BY <1>1, <1>2, InvalidarSalvoTipo, DesactualizarTipo DEF TypeOK, ConfirmarYGenerar
<1>3. CASE GenerarIndividual(p)
  <2>1. config' \in Config
    BY <1>3, DesactualizarTipo DEF TypeOK, GenerarIndividual
  <2>2. QED
    BY <1>1, <1>3, <2>1 DEF TypeOK, GenerarIndividual
<1>4. QED
  BY <1>2, <1>3

\* Deleting a planning, or failing to, preserves the types.
LEMMA EliminarTipo ==
    ASSUME TypeOK, NEW p \in Planeaciones, EliminarPlaneacion(p) \/ EliminarPlaneacionFalla(p)
    PROVE  TypeOK'
<1>1. CASE EliminarPlaneacionFalla(p)
  BY <1>1, SinDocTipo DEF TypeOK, EliminarPlaneacionFalla
<1>2. CASE EliminarPlaneacion(p)
  <2>1. planeaciones' \in [Planeaciones -> Planeacion]
    BY <1>2 DEF TypeOK, EliminarPlaneacion, Planeacion, EstadoPlaneacion
  <2>2. solicitudes' \in [Solicitudes -> Solicitud]
    <3>1. solicitudes \in [Solicitudes -> Solicitud]
      BY DEF TypeOK
    <3>2. \A q \in Solicitudes :
             [solicitudes[q] EXCEPT !.estado = "AUSENTE", !.plan = Nada,
                                    !.pedidos = {}, !.aprobados = {}] \in Solicitud
      BY <3>1 DEF Solicitud, EstadoSolicitud
    <3>3. QED
      BY <1>2, <3>1, <3>2 DEF EliminarPlaneacion
  <2>3. /\ versiones' \in SUBSET VersionRA
        /\ raLocks' \in [Planeaciones -> [Resultados -> RaLock]]
    BY <1>2 DEF TypeOK, EliminarPlaneacion, SinLock, RaLock
  <2>4. /\ config' \in Config
        /\ objeto' \in Documento
    BY <1>2, SinDocTipo DEF TypeOK, EliminarPlaneacion, Config
  <2>5. entregas' \in [Version -> Entrega]
    BY <1>2, InvalidarTipo DEF TypeOK, EliminarPlaneacion
  <2>6. \A q \in Solicitudes : solicitudes'[q].estado # "AUSENTE" =>
           solicitudes'[q].plan \in Planeaciones
    BY <1>2 DEF TypeOK, EliminarPlaneacion, Solicitud
  <2>7. QED
    BY <1>2, <2>1, <2>2, <2>3, <2>4, <2>5, <2>6 DEF TypeOK, EliminarPlaneacion
<1>3. QED BY <1>1, <1>2

\* Saving the configuration preserves the types.
LEMMA ConfiguracionTipo == ASSUME TypeOK, GuardarConfiguracion PROVE TypeOK'
<1>1. config' \in Config
  BY SinDocTipo DEF TypeOK, GuardarConfiguracion, Config
<1>2. entregas' \in [Version -> Entrega]
  BY InvalidarTipo DEF TypeOK, GuardarConfiguracion
<1>3. QED BY <1>1, <1>2 DEF TypeOK, GuardarConfiguracion

\* Generating the consolidated workbook, with or without success, preserves
\* the types.
LEMMA GenerarTipo ==
    ASSUME TypeOK, NEW listos \in SUBSET Planeaciones,
           \/ GenerarConsolidado(listos) \/ GenerarConsolidadoFalla(listos)
           \/ GenerarYEnviarRechazado(listos) \/ DescargarRegenerando(listos)
    PROVE  TypeOK'
<1>1. /\ ConBorradoresConfirmados(listos) \in [Planeaciones -> Planeacion]
      /\ DocDe(ConBorradoresConfirmados(listos)) \in Documento
  BY ConfirmadosTipo, DocDeTipo DEF TypeOK
<1>2. CASE GenerarConsolidado(listos)
  <2>1. config' \in Config
    BY <1>1, <1>2 DEF TypeOK, GenerarConsolidado, Config
  <2>2. QED BY <1>1, <1>2, <2>1 DEF TypeOK, GenerarConsolidado
<1>3. CASE GenerarConsolidadoFalla(listos)
  BY <1>1, <1>3, DesactualizarTipo DEF TypeOK, GenerarConsolidadoFalla
<1>4. CASE GenerarYEnviarRechazado(listos)
  BY <1>1, <1>4 DEF TypeOK, GenerarYEnviarRechazado
<1>5. CASE DescargarRegenerando(listos)
  BY <1>1, <1>5 DEF TypeOK, DescargarRegenerando
<1>6. QED BY <1>2, <1>3, <1>4, <1>5

-----------------------------------------------------------------------------
(* Submission *)

\* enviar_a_revision preserves the types for any well-formed plannings and
\* workbook that the optional generation may have left.
LEMMA EnviarTipo ==
    ASSUME TypeOK, NEW plans \in [Planeaciones -> Planeacion], NEW doc \in Documento,
           NEW alDia \in BOOLEAN, NEW quedaAlDia \in BOOLEAN,
           Enviar(plans, doc, alDia, quedaAlDia), objeto' \in Documento
    PROVE  TypeOK'
<1>1. ultima' \in 0..MaxVersion /\ ultima + 1 \in Version
  <2>1. ultima \in 0..MaxVersion /\ ultima < MaxVersion /\ ultima' = ultima + 1
    BY DEF TypeOK, Enviar
  <2>2. QED
    BY <2>1, ConstantesAssumption DEF Version
<1>2. entregas' \in [Version -> Entrega]
  <2>1. [estado |-> IF ultima = 0 THEN "ENVIADO_REVISION" ELSE "REENVIADO",
         descarga |-> FALSE, planes |-> Completas(plans), doc |-> doc] \in Entrega
    BY DEF Entrega, EstadoEntrega, Completas
  <2>2. QED
    BY <2>1 DEF TypeOK, Enviar
<1>3. planeaciones' \in [Planeaciones -> Planeacion]
  <2>1. \A p \in Planeaciones :
           [plans[p] EXCEPT !.review = "IN_REVIEW", !.edit = "LOCKED"] \in Planeacion
    BY DEF Planeacion, EstadoRevision, EstadoEdicion
  <2>2. QED
    BY <2>1 DEF Enviar
<1>4. resultados' \in [Resultados -> Resultado]
  <2>1. \A r \in Resultados : [resultados[r] EXCEPT !.edit = "LOCKED"] \in Resultado
    BY DEF TypeOK, Resultado, EstadoEdicion
  <2>2. QED
    BY <2>1 DEF TypeOK, Enviar
<1>5. raLocks' \in [Planeaciones -> [Resultados -> RaLock]]
  <2>1. \A p \in Planeaciones, r \in Resultados :
           [raLocks[p][r] EXCEPT !.edit = "LOCKED"] \in RaLock
    BY DEF TypeOK, RaLock, EstadoEdicion
  <2>2. QED
    BY <2>1 DEF TypeOK, Enviar
<1>6. solicitudes' \in [Solicitudes -> Solicitud]
  <2>1. \A q \in Solicitudes : [solicitudes[q] EXCEPT !.estado = "COMPLETED"] \in Solicitud
    BY DEF TypeOK, Solicitud, EstadoSolicitud
  <2>2. QED
    BY <2>1 DEF TypeOK, Enviar
<1>7. config' \in Config
  BY DEF TypeOK, Enviar, Config
<1>8. \A q \in Solicitudes : solicitudes'[q].estado # "AUSENTE" =>
         solicitudes'[q].plan \in Planeaciones
  BY DEF TypeOK, Enviar, Solicitud, Abierta
<1>9. QED
  BY <1>1, <1>2, <1>3, <1>4, <1>5, <1>6, <1>7, <1>8 DEF TypeOK, Enviar

\* Both ways of submitting apply it to such plannings.
LEMMA EnviosTipo ==
    ASSUME TypeOK, EnviarARevision \/ \E listos \in SUBSET Planeaciones : GenerarYEnviar(listos)
    PROVE  TypeOK'
<1>1. CASE EnviarARevision
  <2>1. config.doc \in Documento /\ config.alDia \in BOOLEAN
    BY DEF TypeOK, Config
  <2>2. Enviar(planeaciones, config.doc, config.alDia, FALSE) /\ objeto' = objeto
    BY <1>1 DEF EnviarARevision
  <2>3. planeaciones \in [Planeaciones -> Planeacion] /\ objeto' \in Documento
    BY <2>2 DEF TypeOK
  <2>4. QED
    BY <2>1, <2>2, <2>3, EnviarTipo
<1>2. ASSUME NEW listos \in SUBSET Planeaciones, GenerarYEnviar(listos) PROVE TypeOK'
  <2>1. /\ ConBorradoresConfirmados(listos) \in [Planeaciones -> Planeacion]
        /\ DocDe(ConBorradoresConfirmados(listos)) \in Documento
    BY ConfirmadosTipo, DocDeTipo DEF TypeOK
  <2>2. QED BY <1>2, <2>1, EnviarTipo DEF GenerarYEnviar
<1>3. QED BY <1>1, <1>2

-----------------------------------------------------------------------------
(* Review *)

\* Moving a delivery to another state leaves a table of deliveries.
LEMMA EstadoEntregaTipo ==
    ASSUME entregas \in [Version -> Entrega], NEW v, NEW e \in EstadoEntrega
    PROVE  [entregas EXCEPT ![v].estado = e] \in [Version -> Entrega]
BY DEF Entrega

\* Starting a review preserves the types.
LEMMA IniciarTipo ==
    ASSUME TypeOK, NEW v \in Version, IniciarRevision(v)
    PROVE  TypeOK'
<1>1. [entregas EXCEPT ![v].estado = "EN_REVISION"] \in [Version -> Entrega]
  BY EstadoEntregaTipo DEF TypeOK, EstadoEntrega
<1>2. QED
  BY <1>1 DEF TypeOK, IniciarRevision

\* A download that finds the contents changed preserves the types.
LEMMA VerificarTipo ==
    ASSUME TypeOK, NEW v \in Version, VerificarDescargaInvalida(v)
    PROVE  TypeOK'
<1>1. [entregas[v] EXCEPT !.estado = "BORRADOR", !.descarga = FALSE] \in Entrega
  BY DEF TypeOK, Entrega, EstadoEntrega
<1>2. QED
  BY <1>1 DEF TypeOK, VerificarDescargaInvalida

\* Asking for adjustments preserves the types.
LEMMA AjustesTipo ==
    ASSUME TypeOK, NEW v \in Version, SolicitarAjustes(v)
    PROVE  TypeOK'
<1>1. entregas' \in [Version -> Entrega]
  <2>1. [entregas[v] EXCEPT !.estado = "AJUSTES_SOLICITADOS", !.descarga = FALSE] \in Entrega
    BY DEF TypeOK, Entrega, EstadoEntrega
  <2>2. QED
    BY <2>1 DEF TypeOK, SolicitarAjustes
<1>2. planeaciones' \in [Planeaciones -> Planeacion]
  <2>1. \A p \in Planeaciones :
           /\ [planeaciones[p] EXCEPT !.review = "OBSERVED", !.edit = "EDITABLE"] \in Planeacion
           /\ [planeaciones[p] EXCEPT !.review = "OBSERVED"] \in Planeacion
    <3>1. planeaciones \in [Planeaciones -> Planeacion]
      BY DEF TypeOK
    <3>2. QED
      BY <3>1 DEF Planeacion, EstadoRevision, EstadoEdicion
  <2>2. QED
    BY <2>1 DEF TypeOK, SolicitarAjustes
<1>3. resultados' \in [Resultados -> Resultado]
  <2>1. \A r \in Resultados : [resultados[r] EXCEPT !.edit = "EDITABLE"] \in Resultado
    BY DEF TypeOK, Resultado, EstadoEdicion
  <2>2. QED
    BY <2>1 DEF TypeOK, SolicitarAjustes
<1>4. config' \in Config
  BY DEF TypeOK, SolicitarAjustes, Config
<1>5. QED
  BY <1>1, <1>2, <1>3, <1>4 DEF TypeOK, SolicitarAjustes

\* A new observation preserves the types: it refers to a delivery.
LEMMA CrearObservacionTipo ==
    ASSUME TypeOK, NEW o \in Observaciones, NEW v \in Version, CrearObservacion(o, v)
    PROVE  TypeOK'
<1>1. [entregas EXCEPT ![v].estado = "EN_REVISION"] \in [Version -> Entrega]
  BY EstadoEntregaTipo DEF TypeOK, EstadoEntrega
<1>2. [estado |-> "PENDIENTE", entrega |-> v] \in Observacion
  BY ConstantesAssumption DEF Observacion, EstadoObservacion, Version
<1>3. QED
  BY <1>1, <1>2 DEF TypeOK, CrearObservacion

\* Reporting an adjustment preserves the types.
LEMMA ReportarTipo ==
    ASSUME TypeOK, NEW o \in Observaciones, ReportarAjuste(o)
    PROVE  TypeOK'
<1> DEFINE v == observaciones[o].entrega
<1>1. [entregas EXCEPT ![v].estado = "AJUSTES_EN_PROGRESO"] \in [Version -> Entrega]
  BY EstadoEntregaTipo DEF TypeOK, EstadoEntrega
<1>2. [observaciones EXCEPT ![o].estado = "AJUSTE_REPORTADO"] \in [Observaciones -> Observacion]
  BY DEF TypeOK, Observacion, EstadoObservacion
<1>3. QED
  BY <1>1, <1>2 DEF TypeOK, ReportarAjuste

\* Resolving an observation preserves the types.
LEMMA ResolverTipo ==
    ASSUME TypeOK, NEW o \in Observaciones, ResolverObservacion(o)
    PROVE  TypeOK'
<1>1. [observaciones EXCEPT ![o].estado = "RESUELTO"] \in [Observaciones -> Observacion]
  BY DEF TypeOK, Observacion, EstadoObservacion
<1>2. QED
  BY <1>1 DEF TypeOK, ResolverObservacion

\* Approving a delivery preserves the types: the versions it records are
\* numbered by the delivery, from 1.
LEMMA AprobarTipo ==
    ASSUME TypeOK, NEW v \in Version, AprobarEntrega(v)
    PROVE  TypeOK'
<1> DEFINE plans == Completas(planeaciones)
           nuevas == {[plan |-> x[1], ra |-> x[2], version |-> v, oficial |-> TRUE] :
                        x \in {y \in plans \X Resultados : y[2] \in planeaciones[y[1]].ras}}
<1>1. plans \in SUBSET Planeaciones /\ v \in 0..MaxVersion /\ v \in Nat \ {0}
  BY ConstantesAssumption DEF Completas, Version
<1>2. entregas' \in [Version -> Entrega]
  <2>1. [estado |-> "APROBADO", descarga |-> TRUE, planes |-> plans, doc |-> config.doc]
           \in Entrega
    BY <1>1 DEF TypeOK, Config, Entrega, EstadoEntrega
  <2>2. entregas' = [entregas EXCEPT ![v] =
           [estado |-> "APROBADO", descarga |-> TRUE, planes |-> plans, doc |-> config.doc]]
    BY DEF AprobarEntrega
  <2>3. QED
    BY <2>1, <2>2 DEF TypeOK
<1>3. config' \in Config
  <2> DEFINE oficial == config.doc # SinDoc
  <2>1. oficial \in BOOLEAN
    OBVIOUS
  <2>2. config' = [config EXCEPT !.oficial = oficial, !.alDia = FALSE]
    BY DEF AprobarEntrega
  <2> HIDE DEF oficial
  <2>3. QED
    BY <2>1, <2>2 DEF TypeOK, Config
<1>4. planeaciones' \in [Planeaciones -> Planeacion]
  <2>1. \A p \in Planeaciones :
           [planeaciones[p] EXCEPT !.review = "APPROVED", !.approval = "APPROVED",
                                   !.edit = "LOCKED"] \in Planeacion
    <3>1. planeaciones \in [Planeaciones -> Planeacion]
      BY DEF TypeOK
    <3>2. QED
      BY <3>1 DEF Planeacion, EstadoRevision, EstadoAprobacion, EstadoEdicion
  <2>2. QED
    BY <2>1 DEF TypeOK, AprobarEntrega
<1>5. resultados' \in [Resultados -> Resultado]
  <2>1. \A r \in Resultados : RAAprobado(r, v) \in Resultado
    BY <1>1 DEF RAAprobado, Resultado, EstadoEdicion
  <2>2. QED
    BY <2>1 DEF TypeOK, AprobarEntrega
<1>6. raLocks' \in [Planeaciones -> [Resultados -> RaLock]]
  <2>1. [edit |-> "LOCKED", reabierto |-> FALSE] \in RaLock
    BY DEF RaLock, EstadoEdicion
  <2>2. QED
    BY <2>1 DEF TypeOK, AprobarEntrega
<1>7. versiones' \in SUBSET VersionRA
  <2>1. RetirarOficiales(plans) \subseteq VersionRA
    BY DEF TypeOK, RetirarOficiales, VersionRA
  <2>2. nuevas \subseteq VersionRA
    <3>1. SUFFICES ASSUME NEW y \in nuevas PROVE y \in VersionRA
      OBVIOUS
    <3>2. PICK x \in plans \X Resultados :
             y = [plan |-> x[1], ra |-> x[2], version |-> v, oficial |-> TRUE]
      OBVIOUS
    <3>3. x[1] \in Planeaciones /\ x[2] \in Resultados
      BY <1>1
    <3>4. QED
      BY <1>1, <3>2, <3>3 DEF VersionRA
  <2>3. versiones' = RetirarOficiales(plans) \cup nuevas
    BY DEF AprobarEntrega
  <2>4. QED
    BY <2>1, <2>2, <2>3
<1>8. solicitudes' \in [Solicitudes -> Solicitud]
  <2>1. \A q \in Solicitudes : [solicitudes[q] EXCEPT !.estado = "COMPLETED"] \in Solicitud
    BY DEF TypeOK, Solicitud, EstadoSolicitud
  <2>2. QED
    BY <2>1 DEF TypeOK, AprobarEntrega
<1>9. \A q \in Solicitudes : solicitudes'[q].estado # "AUSENTE" =>
         solicitudes'[q].plan \in Planeaciones
  BY DEF TypeOK, AprobarEntrega, Solicitud, Abierta
<1>10. QED
  BY <1>2, <1>3, <1>4, <1>5, <1>6, <1>7, <1>8, <1>9 DEF TypeOK, AprobarEntrega

-----------------------------------------------------------------------------
(* Reopening *)

\* A new reopening request preserves the types: it refers to a planning.
LEMMA CrearSolicitudTipo ==
    ASSUME TypeOK, NEW q \in Solicitudes, NEW p \in Planeaciones,
           NEW ras \in SUBSET Resultados, CrearSolicitud(q, p, ras)
    PROVE  TypeOK'
<1>1. [estado |-> "PENDING", plan |-> p, pedidos |-> ras, aprobados |-> {}] \in Solicitud
  BY DEF Solicitud, EstadoSolicitud
<1>2. \A x \in Solicitudes : solicitudes'[x].estado # "AUSENTE" =>
         solicitudes'[x].plan \in Planeaciones
  BY DEF TypeOK, CrearSolicitud
<1>3. QED
  BY <1>1, <1>2 DEF TypeOK, CrearSolicitud

\* Approving a request preserves the types: the version it records for an RA
\* that had none is at least 1.
LEMMA AprobarSolicitudTipo ==
    ASSUME TypeOK, NEW q \in Solicitudes, NEW ras \in SUBSET Resultados,
           AprobarSolicitud(q, ras)
    PROVE  TypeOK'
<1> DEFINE p == solicitudes[q].plan
           abre == ras \cap planeaciones[p].ras
           cierra == NoAutorizados(p, ras)
           sinVersion == {r \in abre : \A x \in versiones : ~ (x.plan = p /\ x.ra = r)}
<1>1. solicitudes' \in [Solicitudes -> Solicitud]
  <2>1. \A e \in {"APPROVED", "PARTIALLY_APPROVED"} :
           [solicitudes[q] EXCEPT !.estado = e, !.aprobados = ras] \in Solicitud
    BY DEF TypeOK, Solicitud, EstadoSolicitud
  <2>2. QED
    BY <2>1 DEF TypeOK, AprobarSolicitud
<1>2. planeaciones' \in [Planeaciones -> Planeacion]
  <2>1. \A x \in Planeaciones :
           [planeaciones[x] EXCEPT !.review = "CHANGES_ALLOWED",
                                   !.approval = "PREVIOUS_VERSION_APPROVED",
                                   !.edit = "EDITABLE"] \in Planeacion
    <3>1. planeaciones \in [Planeaciones -> Planeacion]
      BY DEF TypeOK
    <3>2. QED
      BY <3>1 DEF Planeacion, EstadoRevision, EstadoAprobacion, EstadoEdicion
  <2>2. QED
    BY <2>1 DEF TypeOK, AprobarSolicitud
<1>3. resultados' \in [Resultados -> Resultado]
  <2>1. \A r \in Resultados :
           /\ [resultados[r] EXCEPT !.edit = "EDITABLE", !.reabierto = TRUE] \in Resultado
           /\ [resultados[r] EXCEPT !.edit = "LOCKED"] \in Resultado
    BY DEF TypeOK, Resultado, EstadoEdicion
  <2>2. QED
    BY <2>1 DEF TypeOK, AprobarSolicitud
<1>4. raLocks' \in [Planeaciones -> [Resultados -> RaLock]]
  <2>1. \A x \in Planeaciones, r \in Resultados :
           [raLocks[x][r] EXCEPT !.edit = "LOCKED"] \in RaLock
    <3>1. raLocks \in [Planeaciones -> [Resultados -> RaLock]]
      BY DEF TypeOK
    <3>2. QED
      BY <3>1 DEF RaLock, EstadoEdicion
  <2>2. [edit |-> "EDITABLE", reabierto |-> TRUE] \in RaLock
    BY DEF RaLock, EstadoEdicion
  <2>3. QED
    BY <2>1, <2>2 DEF TypeOK, AprobarSolicitud
<1>5. versiones' \in SUBSET VersionRA
  <2>1. p \in Planeaciones
    BY DEF TypeOK, AprobarSolicitud
  <2>2. \A r \in Resultados : VersionPrevia(r) \in Nat \ {0}
    BY ConstantesAssumption DEF TypeOK, Resultado, VersionPrevia
  <2>3. \A r \in Resultados :
           [plan |-> p, ra |-> r, version |-> VersionPrevia(r), oficial |-> TRUE] \in VersionRA
    BY <2>1, <2>2 DEF VersionRA
  <2>4. versiones' = versiones \cup
           {[plan |-> p, ra |-> r, version |-> VersionPrevia(r), oficial |-> TRUE] :
              r \in sinVersion}
    BY DEF AprobarSolicitud
  <2>5. sinVersion \subseteq Resultados /\ versiones \subseteq VersionRA
    BY DEF TypeOK
  <2>6. QED
    BY <2>3, <2>4, <2>5
<1>6. config' \in Config
  <2> DEFINE oficial == config.oficial \/ config.doc # SinDoc
  <2>1. oficial \in BOOLEAN
    OBVIOUS
  <2>2. config' = [config EXCEPT !.oficial = oficial, !.alDia = FALSE]
    BY DEF AprobarSolicitud
  <2> HIDE DEF oficial
  <2>3. QED
    BY <2>1, <2>2 DEF TypeOK, Config
<1>7. \A x \in Solicitudes : solicitudes'[x].estado # "AUSENTE" =>
         solicitudes'[x].plan \in Planeaciones
  BY DEF TypeOK, AprobarSolicitud, Solicitud
<1>8. QED
  BY <1>1, <1>2, <1>3, <1>4, <1>5, <1>6, <1>7 DEF TypeOK, AprobarSolicitud

\* Rejecting a request preserves the types.
LEMMA RechazarTipo ==
    ASSUME TypeOK, NEW q \in Solicitudes, RechazarSolicitud(q)
    PROVE  TypeOK'
<1>1. solicitudes' \in [Solicitudes -> Solicitud]
  BY DEF TypeOK, RechazarSolicitud, Solicitud, EstadoSolicitud
<1>2. \A x \in Solicitudes : solicitudes'[x].estado # "AUSENTE" =>
         solicitudes'[x].plan \in Planeaciones
  BY DEF TypeOK, RechazarSolicitud
<1>3. QED
  BY <1>1, <1>2 DEF TypeOK, RechazarSolicitud

-----------------------------------------------------------------------------
(* The theorem *)

\* Every step preserves the types.
LEMMA PasoTipo == TypeOK /\ [Next]_vars => TypeOK'
<1> SUFFICES ASSUME TypeOK, [Next]_vars PROVE TypeOK'
  OBVIOUS
<1>1. CASE PlaneacionNext
  BY <1>1, CrearTipo, GuardarTipo, CompletarTipo, EliminarTipo, ConfiguracionTipo
     DEF PlaneacionNext
<1>2. CASE DocumentoNext
  BY <1>2, GenerarTipo, EnviosTipo DEF DocumentoNext
<1>3. CASE RevisionNext
  BY <1>3, EnviosTipo, IniciarTipo, AjustesTipo, AprobarTipo, VerificarTipo,
     CrearObservacionTipo, ReportarTipo, ResolverTipo DEF RevisionNext
<1>4. CASE ReaperturaNext
  BY <1>4, CrearSolicitudTipo, AprobarSolicitudTipo, RechazarTipo DEF ReaperturaNext
<1>5. CASE UNCHANGED vars
  BY <1>5 DEF TypeOK, vars
<1>6. QED
  BY <1>1, <1>2, <1>3, <1>4, <1>5 DEF Next

\* Every reachable state of the process is well formed; in particular a live
\* request always refers to a planning and versions are numbered from 1.
THEOREM TipoCorrecto == Spec => []TypeOK
BY InitTipo, PasoTipo, PTL DEF Spec
=============================================================================
