---------------------- MODULE RevisionCurricularSeguridad ----------------------
(* Proofs of the safety properties of RevisionCurricular, for every number of *)
(* plannings, RAs, requests, observations and deliveries.                     *)
EXTENDS RevisionCurricularProofs

-----------------------------------------------------------------------------
(* What a step may do to the deliveries *)

\* A submission adds version ultima + 1 and finds no other delivery in review.
EfectoEnvio ==
    /\ ultima + 1 \in Version
    /\ ultima' = ultima + 1
    /\ ultima # 0 => entregas[ultima].estado \notin EnCurso
    /\ \E e \in PorIniciar, plans \in SUBSET Planeaciones, doc \in Documento :
          entregas' = [entregas EXCEPT ![ultima + 1] =
              [estado |-> e, descarga |-> FALSE, planes |-> plans, doc |-> doc]]

\* A review handler moves one delivery; only an approval raises the flag.
EfectoDecision(v) ==
    /\ ultima' = ultima
    /\ \/ /\ entregas[v].estado \in PorIniciar
          /\ entregas' = [entregas EXCEPT ![v].estado = "EN_REVISION"]
       \/ /\ entregas[v].estado = "AJUSTES_SOLICITADOS"
          /\ entregas' = [entregas EXCEPT ![v].estado = "AJUSTES_EN_PROGRESO"]
       \/ \E e \in {"AJUSTES_SOLICITADOS", "BORRADOR"} :
             entregas' = [entregas EXCEPT ![v] = [@ EXCEPT !.estado = e, !.descarga = FALSE]]
       \/ \E plans \in SUBSET Planeaciones, doc \in Documento :
             entregas' = [entregas EXCEPT ![v] =
                 [estado |-> "APROBADO", descarga |-> TRUE, planes |-> plans, doc |-> doc]]

\* The handlers that move one delivery.
Decide(v) ==
    \/ IniciarRevision(v) \/ SolicitarAjustes(v) \/ AprobarEntrega(v)
    \/ VerificarDescargaInvalida(v)
    \/ \E o \in Observaciones : \/ CrearObservacion(o, v)
                                \/ ReportarAjuste(o) /\ v = observaciones[o].entrega

EfectoEntregas ==
    \/ ultima' = ultima /\ entregas' = entregas
    \/ ultima' = ultima /\ entregas' = InvalidarAprobaciones
    \/ \E v \in Version : EfectoDecision(v) /\ Decide(v)
    \/ EfectoEnvio

\* enviar_a_revision, with or without the generation, is a submission.
LEMMA EnviarEfecto ==
    ASSUME TypeOK, NEW plans \in [Planeaciones -> Planeacion], NEW doc \in Documento,
           NEW alDia, NEW quedaAlDia, Enviar(plans, doc, alDia, quedaAlDia)
    PROVE  EfectoEnvio
<1>1. /\ ultima \in 0..MaxVersion
      /\ ultima < MaxVersion
      /\ ultima' = ultima + 1
      /\ ultima # 0 => entregas[ultima].estado \notin EnCurso
  BY DEF TypeOK, Enviar, Preflight
<1>2. ultima + 1 \in Version
  BY <1>1, ConstantesAssumption DEF Version
<1>3. Completas(plans) \in SUBSET Planeaciones
  BY DEF Completas
<1>4. \E e \in PorIniciar :
         entregas' = [entregas EXCEPT ![ultima + 1] =
             [estado |-> e, descarga |-> FALSE, planes |-> Completas(plans), doc |-> doc]]
  <2>1. (IF ultima = 0 THEN "ENVIADO_REVISION" ELSE "REENVIADO") \in PorIniciar
    BY DEF PorIniciar
  <2>2. QED
    BY <2>1 DEF Enviar
<1>5. QED
  BY <1>1, <1>2, <1>3, <1>4 DEF EfectoEnvio

\* Every step of the process has one of those effects.
LEMMA PasoEntregas == TypeOK /\ [Next]_vars => EfectoEntregas
<1> SUFFICES ASSUME TypeOK, [Next]_vars PROVE EfectoEntregas
  OBVIOUS
<1>1. CASE PlaneacionNext
  <2>1. ASSUME NEW p \in Planeaciones, NEW ras, NEW c, CrearPlaneacion(p, ras, c)
        PROVE  EfectoEntregas
    BY <2>1 DEF CrearPlaneacion, InvalidarSalvoReapertura, EfectoEntregas
  <2>2. ASSUME NEW p \in Planeaciones, NEW ras, NEW c, GuardarBorrador(p, ras, c)
        PROVE  EfectoEntregas
    BY <2>2 DEF GuardarBorrador, InvalidarSalvoReapertura, EfectoEntregas
  <2>3. ASSUME NEW p \in Planeaciones, ConfirmarYGenerar(p)
        PROVE  EfectoEntregas
    BY <2>3 DEF ConfirmarYGenerar, InvalidarSalvoReapertura, EfectoEntregas
  <2>4. ASSUME NEW p \in Planeaciones, GenerarIndividual(p)
        PROVE  EfectoEntregas
    BY <2>4 DEF GenerarIndividual, EfectoEntregas
  <2>5. ASSUME NEW p \in Planeaciones, EliminarPlaneacion(p) \/ EliminarPlaneacionFalla(p)
        PROVE  EfectoEntregas
    BY <2>5 DEF EliminarPlaneacion, EliminarPlaneacionFalla, EfectoEntregas
  <2>6. CASE GuardarConfiguracion
    BY <2>6 DEF GuardarConfiguracion, EfectoEntregas
  <2>7. QED
    BY <1>1, <2>1, <2>2, <2>3, <2>4, <2>5, <2>6 DEF PlaneacionNext
<1>2. CASE DocumentoNext
  <2>1. PICK listos \in SUBSET Planeaciones :
           \/ GenerarConsolidado(listos) \/ GenerarConsolidadoFalla(listos)
           \/ GenerarYEnviar(listos) \/ GenerarYEnviarRechazado(listos)
           \/ DescargarRegenerando(listos)
    BY <1>2 DEF DocumentoNext
  <2>2. CASE GenerarConsolidado(listos)
    BY <2>2 DEF GenerarConsolidado, EfectoEntregas
  <2>3. CASE GenerarConsolidadoFalla(listos)
    BY <2>3 DEF GenerarConsolidadoFalla, EfectoEntregas
  <2>4. CASE GenerarYEnviar(listos)
    <3> DEFINE plans == ConBorradoresConfirmados(listos)
    <3>1. plans \in [Planeaciones -> Planeacion] /\ DocDe(plans) \in Documento
      BY ConfirmadosTipo, DocDeTipo DEF TypeOK
    <3>2. Enviar(plans, DocDe(plans), TRUE, TRUE)
      BY <2>4 DEF GenerarYEnviar
    <3>3. QED
      BY <3>1, <3>2, EnviarEfecto DEF EfectoEntregas
  <2>5. CASE GenerarYEnviarRechazado(listos)
    BY <2>5 DEF GenerarYEnviarRechazado, EfectoEntregas
  <2>6. CASE DescargarRegenerando(listos)
    BY <2>6 DEF DescargarRegenerando, EfectoEntregas
  <2>7. QED
    BY <2>1, <2>2, <2>3, <2>4, <2>5, <2>6
<1>3. CASE RevisionNext
  <2>1. CASE EnviarARevision
    <3>1. /\ Enviar(planeaciones, config.doc, config.alDia, FALSE)
          /\ planeaciones \in [Planeaciones -> Planeacion]
          /\ config.doc \in Documento
      BY <2>1 DEF EnviarARevision, TypeOK, Config
    <3>2. QED
      BY <3>1, EnviarEfecto DEF EfectoEntregas
  <2>2. ASSUME NEW v \in Version, IniciarRevision(v)
        PROVE  EfectoEntregas
    BY <2>2 DEF IniciarRevision, EfectoEntregas, EfectoDecision, Decide
  <2>3. ASSUME NEW v \in Version, SolicitarAjustes(v)
        PROVE  EfectoEntregas
    <3>1. EfectoDecision(v)
      BY <2>3 DEF SolicitarAjustes, EfectoDecision
    <3>2. QED
      BY <2>3, <3>1 DEF EfectoEntregas, Decide
  <2>4. ASSUME NEW v \in Version, AprobarEntrega(v)
        PROVE  EfectoEntregas
    <3>1. config.doc \in Documento /\ Completas(planeaciones) \in SUBSET Planeaciones
      BY DEF TypeOK, Config, Completas
    <3>2. /\ ultima' = ultima
          /\ entregas' = [entregas EXCEPT ![v] =
                [estado |-> "APROBADO", descarga |-> TRUE,
                 planes |-> Completas(planeaciones), doc |-> config.doc]]
      BY <2>4 DEF AprobarEntrega
    <3>3. QED
      BY <2>4, <3>1, <3>2 DEF EfectoDecision, EfectoEntregas, Decide
  <2>5. ASSUME NEW v \in Version, VerificarDescargaInvalida(v)
        PROVE  EfectoEntregas
    <3>1. EfectoDecision(v)
      BY <2>5 DEF VerificarDescargaInvalida, EfectoDecision
    <3>2. QED
      BY <2>5, <3>1 DEF EfectoEntregas, Decide
  <2>6. ASSUME NEW o \in Observaciones, NEW v \in Version, CrearObservacion(o, v)
        PROVE  EfectoEntregas
    BY <2>6 DEF CrearObservacion, EfectoEntregas, EfectoDecision, Decide
  <2>7. ASSUME NEW o \in Observaciones, ReportarAjuste(o)
        PROVE  EfectoEntregas
    <3> DEFINE v == observaciones[o].entrega
    <3>1. CASE entregas[v].estado = "AJUSTES_SOLICITADOS" /\ v \in Version
      BY <2>7, <3>1 DEF ReportarAjuste, EfectoEntregas, EfectoDecision, Decide
    <3>2. CASE v \notin Version
      <4>1. [entregas EXCEPT ![v].estado = "AJUSTES_EN_PROGRESO"] = entregas
        BY <3>2 DEF TypeOK
      <4>2. QED
        BY <2>7, <4>1 DEF ReportarAjuste, EfectoEntregas
    <3>3. CASE entregas[v].estado # "AJUSTES_SOLICITADOS"
      BY <2>7, <3>3 DEF ReportarAjuste, EfectoEntregas
    <3>4. QED
      BY <3>1, <3>2, <3>3
  <2>8. ASSUME NEW o \in Observaciones, ResolverObservacion(o)
        PROVE  EfectoEntregas
    BY <2>8 DEF ResolverObservacion, EfectoEntregas
  <2>9. QED
    BY <1>3, <2>1, <2>2, <2>3, <2>4, <2>5, <2>6, <2>7, <2>8 DEF RevisionNext
<1>4. CASE ReaperturaNext
  <2>1. ASSUME NEW q \in Solicitudes, NEW ras, AprobarSolicitud(q, ras)
        PROVE  EfectoEntregas
    BY <2>1 DEF AprobarSolicitud, EfectoEntregas
  <2>2. ASSUME NEW q \in Solicitudes, NEW p, NEW ras, CrearSolicitud(q, p, ras)
        PROVE  EfectoEntregas
    BY <2>2 DEF CrearSolicitud, EfectoEntregas
  <2>3. ASSUME NEW q \in Solicitudes, RechazarSolicitud(q)
        PROVE  EfectoEntregas
    BY <2>3 DEF RechazarSolicitud, EfectoEntregas
  <2>4. QED
    BY <1>4, <2>1, <2>2, <2>3 DEF ReaperturaNext
<1>5. CASE UNCHANGED vars
  BY <1>5 DEF vars, EfectoEntregas
<1>6. QED
  BY <1>1, <1>2, <1>3, <1>4, <1>5 DEF Next

\* The state and the flag of delivery w after a decision.
EfectoFila(w) ==
    \/ entregas'[w] = entregas[w]
    \/ /\ entregas[w].estado \in PorIniciar
       /\ entregas'[w].estado = "EN_REVISION"
       /\ entregas'[w].descarga = entregas[w].descarga
    \/ /\ entregas[w].estado = "AJUSTES_SOLICITADOS"
       /\ entregas'[w].estado = "AJUSTES_EN_PROGRESO"
       /\ entregas'[w].descarga = entregas[w].descarga
    \/ /\ entregas'[w].estado \in {"AJUSTES_SOLICITADOS", "BORRADOR"}
       /\ entregas'[w].descarga = FALSE
    \/ /\ entregas'[w].estado = "APROBADO"
       /\ entregas'[w].descarga = TRUE

\* A decision leaves the other deliveries alone.
LEMMA DecisionFila ==
    ASSUME TypeOK, NEW v \in Version, EfectoDecision(v)
    PROVE  \A w \in Version : EfectoFila(w)
<1>0. entregas \in [Version -> Entrega]
  BY DEF TypeOK
<1>1. CASE /\ entregas[v].estado \in PorIniciar
           /\ entregas' = [entregas EXCEPT ![v].estado = "EN_REVISION"]
  BY <1>0, <1>1 DEF EfectoFila, Entrega
<1>2. CASE /\ entregas[v].estado = "AJUSTES_SOLICITADOS"
           /\ entregas' = [entregas EXCEPT ![v].estado = "AJUSTES_EN_PROGRESO"]
  BY <1>0, <1>2 DEF EfectoFila, Entrega
<1>3. ASSUME NEW e \in {"AJUSTES_SOLICITADOS", "BORRADOR"},
             entregas' = [entregas EXCEPT ![v] = [@ EXCEPT !.estado = e, !.descarga = FALSE]]
      PROVE  \A w \in Version : EfectoFila(w)
  BY <1>0, <1>3 DEF EfectoFila, Entrega
<1>4. ASSUME NEW plans, NEW doc,
             entregas' = [entregas EXCEPT ![v] =
                 [estado |-> "APROBADO", descarga |-> TRUE, planes |-> plans, doc |-> doc]]
      PROVE  \A w \in Version : EfectoFila(w)
  BY <1>0, <1>4 DEF EfectoFila
<1>5. QED
  BY <1>1, <1>2, <1>3, <1>4 DEF EfectoDecision

-----------------------------------------------------------------------------
(* One delivery in review *)

\* The initial state has no delivery at all.
LEMMA InitEntregas == Init => UnaEntregaActiva /\ DescargaCoherente
BY DEF Init, UnaEntregaActiva, DescargaCoherente, EnCurso

\* A step that does not submit never brings a delivery back into review.
LEMMA PasoActiva == TypeOK /\ UnaEntregaActiva /\ EfectoEntregas => UnaEntregaActiva'
<1> SUFFICES ASSUME TypeOK, UnaEntregaActiva, EfectoEntregas PROVE UnaEntregaActiva'
  OBVIOUS
<1>0. entregas \in [Version -> Entrega] /\ ultima \in 0..MaxVersion
  BY DEF TypeOK
<1>1. CASE ultima' = ultima /\ entregas' = entregas
  BY <1>1 DEF UnaEntregaActiva
<1>2. CASE ultima' = ultima /\ entregas' = InvalidarAprobaciones
  BY <1>0, <1>2 DEF UnaEntregaActiva, InvalidarAprobaciones, EnCurso, Entrega
<1>3. ASSUME NEW v \in Version, EfectoDecision(v) PROVE UnaEntregaActiva'
  <2>1. \A w \in Version : entregas'[w].estado \in EnCurso => entregas[w].estado \in EnCurso
    BY <1>3, DecisionFila DEF EfectoFila, EnCurso, PorIniciar
  <2>2. QED
    BY <1>3, <2>1 DEF UnaEntregaActiva, EfectoDecision
<1>4. CASE EfectoEnvio
  <2>1. \A w \in Version : entregas[w].estado \notin EnCurso
    BY <1>0, <1>4, ConstantesAssumption DEF EfectoEnvio, UnaEntregaActiva, Version
  <2>2. \A w \in Version : w # ultima + 1 => entregas'[w] = entregas[w]
    BY <1>0, <1>4 DEF EfectoEnvio
  <2>3. QED
    BY <1>4, <2>1, <2>2 DEF EfectoEnvio, UnaEntregaActiva
<1>5. QED
  BY <1>1, <1>2, <1>3, <1>4 DEF EfectoEntregas

\* No interleaving of submissions, decisions on any delivery, reported
\* adjustments and edits leaves two deliveries in review.
THEOREM EntregaActivaUnica == Spec => []UnaEntregaActiva
<1>1. TypeOK /\ UnaEntregaActiva /\ [Next]_vars => UnaEntregaActiva'
  BY PasoEntregas, PasoActiva
<1>2. QED
  BY TipoCorrecto, InitEntregas, <1>1, PTL DEF Spec

-----------------------------------------------------------------------------
(* The download flag *)

\* Each effect writes the flag and the state together or neither.
LEMMA PasoDescarga == TypeOK /\ DescargaCoherente /\ EfectoEntregas => DescargaCoherente'
<1> SUFFICES ASSUME TypeOK, DescargaCoherente, EfectoEntregas PROVE DescargaCoherente'
  OBVIOUS
<1>0. entregas \in [Version -> Entrega]
  BY DEF TypeOK
<1>1. CASE ultima' = ultima /\ entregas' = entregas
  BY <1>1 DEF DescargaCoherente
<1>2. CASE ultima' = ultima /\ entregas' = InvalidarAprobaciones
  BY <1>0, <1>2 DEF DescargaCoherente, InvalidarAprobaciones, Entrega
<1>3. ASSUME NEW v \in Version, EfectoDecision(v) PROVE DescargaCoherente'
  BY <1>3, DecisionFila DEF EfectoFila, DescargaCoherente, PorIniciar
<1>4. CASE EfectoEnvio
  BY <1>0, <1>4 DEF EfectoEnvio, DescargaCoherente, PorIniciar, Entrega
<1>5. QED
  BY <1>1, <1>2, <1>3, <1>4 DEF EfectoEntregas

\* The download flag is raised exactly on approved deliveries, always.
THEOREM DescargaSoloAprobada == Spec => []DescargaCoherente
<1>1. TypeOK /\ DescargaCoherente /\ [Next]_vars => DescargaCoherente'
  BY PasoEntregas, PasoDescarga
<1>2. QED
  BY TipoCorrecto, InitEntregas, <1>1, PTL DEF Spec

-----------------------------------------------------------------------------
(* The workbook reported as up to date *)

\* The re-lock of a submission changes nothing the workbook shows.
LEMMA EnviarMuestraLoMismo ==
    ASSUME NEW plans \in [Planeaciones -> Planeacion], NEW doc, NEW alDia, NEW quedaAlDia,
           Enviar(plans, doc, alDia, quedaAlDia)
    PROVE  /\ Completas(planeaciones') = Completas(plans)
           /\ DocDe(planeaciones') = DocDe(plans)
<1>1. \A p \in Planeaciones : /\ planeaciones'[p].estado = plans[p].estado
                              /\ planeaciones'[p].ras = plans[p].ras
                              /\ planeaciones'[p].contenido = plans[p].contenido
  BY DEF Enviar, Planeacion
<1>2. QED
  BY <1>1 DEF Completas, DocDe, BloqueDe

\* A submission records the workbook of the plannings it delivers, provided
\* the one reported as up to date was that workbook.
LEMMA EnvioFiel ==
    ASSUME TypeOK, NEW plans \in [Planeaciones -> Planeacion], NEW doc \in Documento,
           NEW alDia \in BOOLEAN, NEW quedaAlDia \in BOOLEAN,
           Enviar(plans, doc, alDia, quedaAlDia), alDia => doc = DocDe(plans)
    PROVE  /\ entregas'[ultima'].planes = Completas(planeaciones')
           /\ Completas(planeaciones') # {}
           /\ entregas'[ultima'].doc = DocDe(planeaciones')
           /\ AlDiaFiel'
<1>1. /\ Completas(planeaciones') = Completas(plans)
      /\ DocDe(planeaciones') = DocDe(plans)
  BY EnviarMuestraLoMismo
<1>2. /\ Completas(plans) # {}
      /\ doc = DocDe(plans)
  BY DEF Enviar, Preflight
<1>3. /\ ultima' = ultima + 1
      /\ ultima + 1 \in Version
  <2>1. ultima \in 0..MaxVersion /\ ultima < MaxVersion /\ ultima' = ultima + 1
    BY DEF TypeOK, Enviar
  <2>2. QED
    BY <2>1, ConstantesAssumption DEF Version
<1>4. entregas'[ultima'] =
         [estado |-> IF ultima = 0 THEN "ENVIADO_REVISION" ELSE "REENVIADO",
          descarga |-> FALSE, planes |-> Completas(plans), doc |-> doc]
  BY <1>3 DEF TypeOK, Enviar
<1>5. config'.doc = doc
  BY DEF TypeOK, Config, Enviar
<1>6. QED
  BY <1>1, <1>2, <1>4, <1>5 DEF AlDiaFiel

\* A step other than a submission keeps the count of deliveries and leaves a
\* workbook reported as up to date only if it shows the plannings as they are.
LEMMA PasoAlDia ==
    ASSUME TypeOK, AlDiaFiel, [Next]_vars
    PROVE  /\ AlDiaFiel'
           /\ ultima' # ultima =>
                 /\ entregas'[ultima'].planes = Completas(planeaciones')
                 /\ Completas(planeaciones') # {}
                 /\ entregas'[ultima'].doc = DocDe(planeaciones')
<1> DEFINE Meta == /\ AlDiaFiel'
                   /\ ultima' # ultima =>
                         /\ entregas'[ultima'].planes = Completas(planeaciones')
                         /\ Completas(planeaciones') # {}
                         /\ entregas'[ultima'].doc = DocDe(planeaciones')
<1> SUFFICES Meta
  OBVIOUS
<1>0. config \in Config /\ planeaciones \in [Planeaciones -> Planeacion]
  BY DEF TypeOK
<1>a. ASSUME ultima' = ultima, config'.alDia = FALSE PROVE Meta
  BY <1>a DEF AlDiaFiel
<1>b. ASSUME ultima' = ultima, config' = config, planeaciones' = planeaciones PROVE Meta
  BY <1>b DEF AlDiaFiel
<1>c. ASSUME ultima' = ultima, Desactualizar PROVE Meta
  BY <1>0, <1>a, <1>c DEF Desactualizar, Config
<1> HIDE DEF Meta
<1>1. CASE PlaneacionNext
  <2>1. ASSUME NEW p, NEW ras, NEW c,
               CrearPlaneacion(p, ras, c) \/ GuardarBorrador(p, ras, c) PROVE Meta
    BY <2>1, <1>c DEF CrearPlaneacion, GuardarBorrador
  <2>2. ASSUME NEW p, ConfirmarYGenerar(p) PROVE Meta
    BY <2>2, <1>c DEF ConfirmarYGenerar
  <2>3. ASSUME NEW p \in Planeaciones, GenerarIndividual(p) PROVE Meta
    <3>1. CASE Desactualizar
      BY <2>3, <3>1, <1>c DEF GenerarIndividual
    <3>2. CASE planeaciones[p].estado = "COMPLETO" /\ UNCHANGED config
      <4>1. planeaciones' = planeaciones
        BY <1>0, <2>3, <3>2 DEF GenerarIndividual, Planeacion
      <4>2. QED
        BY <2>3, <3>2, <4>1, <1>b DEF GenerarIndividual
    <3>3. QED
      BY <2>3, <3>1, <3>2 DEF GenerarIndividual
  <2>4. ASSUME NEW p, EliminarPlaneacion(p) PROVE Meta
    BY <1>0, <2>4, <1>a DEF EliminarPlaneacion, Config
  <2>5. ASSUME NEW p, EliminarPlaneacionFalla(p) PROVE Meta
    BY <2>5, <1>b DEF EliminarPlaneacionFalla
  <2>6. CASE GuardarConfiguracion
    BY <1>0, <2>6, <1>a DEF GuardarConfiguracion, Config
  <2>7. QED
    BY <1>1, <2>1, <2>2, <2>3, <2>4, <2>5, <2>6 DEF PlaneacionNext
<1>2. CASE DocumentoNext
  <2>1. PICK listos \in SUBSET Planeaciones :
           \/ GenerarConsolidado(listos) \/ GenerarConsolidadoFalla(listos)
           \/ GenerarYEnviar(listos) \/ GenerarYEnviarRechazado(listos)
           \/ DescargarRegenerando(listos)
    BY <1>2 DEF DocumentoNext
  <2>2. CASE GenerarConsolidado(listos)
    <3>1. /\ config'.doc = DocDe(planeaciones')
          /\ ultima' = ultima
      BY <1>0, <2>2 DEF GenerarConsolidado, Config
    <3>2. QED
      BY <3>1 DEF Meta, AlDiaFiel
  <2>3. CASE GenerarConsolidadoFalla(listos)
    BY <2>3, <1>c DEF GenerarConsolidadoFalla
  <2>4. CASE GenerarYEnviar(listos)
    <3> DEFINE plans == ConBorradoresConfirmados(listos)
    <3>1. plans \in [Planeaciones -> Planeacion] /\ DocDe(plans) \in Documento
      BY ConfirmadosTipo, DocDeTipo DEF TypeOK
    <3>2. Enviar(plans, DocDe(plans), TRUE, TRUE)
      BY <2>4 DEF GenerarYEnviar
    <3>3. QED
      BY <3>1, <3>2, EnvioFiel DEF Meta
  <2>5. CASE GenerarYEnviarRechazado(listos)
    BY <2>5, <1>b DEF GenerarYEnviarRechazado
  <2>6. CASE DescargarRegenerando(listos)
    BY <2>6, <1>b DEF DescargarRegenerando
  <2>7. QED
    BY <2>1, <2>2, <2>3, <2>4, <2>5, <2>6
<1>3. CASE RevisionNext
  <2>1. CASE EnviarARevision
    <3>1. /\ config.doc \in Documento
          /\ config.alDia \in BOOLEAN
          /\ config.alDia => config.doc = DocDe(planeaciones)
      BY <1>0 DEF Config, AlDiaFiel
    <3>2. Enviar(planeaciones, config.doc, config.alDia, FALSE)
      BY <2>1 DEF EnviarARevision
    <3>3. QED
      BY <1>0, <3>1, <3>2, EnvioFiel DEF Meta
  <2>2. ASSUME NEW v, IniciarRevision(v) PROVE Meta
    BY <2>2, <1>b DEF IniciarRevision
  <2>3. ASSUME NEW v, SolicitarAjustes(v) PROVE Meta
    <3>1. ASSUME planeaciones' = planeaciones PROVE Meta
      <4>1. config' = [config EXCEPT !.alDia = config.alDia /\ TRUE] /\ ultima' = ultima
        BY <2>3, <3>1 DEF SolicitarAjustes
      <4>2. config'.doc = config.doc /\ (config'.alDia => config.alDia)
        BY <1>0, <4>1 DEF Config
      <4>3. QED
        BY <3>1, <4>1, <4>2 DEF Meta, AlDiaFiel
    <3>2. ASSUME planeaciones' # planeaciones PROVE Meta
      <4>1. config' = [config EXCEPT !.alDia = config.alDia /\ FALSE] /\ ultima' = ultima
        BY <2>3, <3>2 DEF SolicitarAjustes
      <4>2. config'.alDia = FALSE
        BY <1>0, <4>1 DEF Config
      <4>3. QED
        BY <4>1, <4>2, <1>a
    <3>3. QED
      BY <3>1, <3>2
  <2>4. ASSUME NEW v, AprobarEntrega(v) PROVE Meta
    <3>1. config'.alDia = FALSE /\ ultima' = ultima
      BY <1>0, <2>4 DEF AprobarEntrega, Config
    <3>2. QED
      BY <3>1, <1>a
  <2>5. ASSUME NEW v, VerificarDescargaInvalida(v) PROVE Meta
    BY <2>5, <1>b DEF VerificarDescargaInvalida
  <2>6. ASSUME NEW o, NEW v, CrearObservacion(o, v) PROVE Meta
    BY <2>6, <1>b DEF CrearObservacion
  <2>7. ASSUME NEW o, ReportarAjuste(o) \/ ResolverObservacion(o) PROVE Meta
    BY <2>7, <1>b DEF ReportarAjuste, ResolverObservacion
  <2>8. QED
    BY <1>3, <2>1, <2>2, <2>3, <2>4, <2>5, <2>6, <2>7 DEF RevisionNext
<1>4. CASE ReaperturaNext
  <2>1. ASSUME NEW q, NEW ras, AprobarSolicitud(q, ras) PROVE Meta
    <3>1. config'.alDia = FALSE /\ ultima' = ultima
      BY <1>0, <2>1 DEF AprobarSolicitud, Config
    <3>2. QED
      BY <3>1, <1>a
  <2>2. ASSUME NEW q, NEW p, NEW ras, CrearSolicitud(q, p, ras) PROVE Meta
    BY <2>2, <1>b DEF CrearSolicitud
  <2>3. ASSUME NEW q, RechazarSolicitud(q) PROVE Meta
    BY <2>3, <1>b DEF RechazarSolicitud
  <2>4. QED
    BY <1>4, <2>1, <2>2, <2>3 DEF ReaperturaNext
<1>5. CASE UNCHANGED vars
  BY <1>5, <1>b DEF vars
<1>6. QED
  BY <1>1, <1>2, <1>3, <1>4, <1>5 DEF Next

\* The program starts with no workbook.
LEMMA InitAlDia == Init => AlDiaFiel
BY DEF Init, AlDiaFiel

\* "Up to date" always means the workbook shows the plannings as they are.
THEOREM AlDiaSiempreFiel == Spec => []AlDiaFiel
<1>1. TypeOK /\ AlDiaFiel /\ [Next]_vars => AlDiaFiel'
  BY PasoAlDia
<1>2. QED
  BY TipoCorrecto, InitAlDia, <1>1, PTL DEF Spec

\* Every submission of every process delivers the plannings as they are.
THEOREM EntregaSiempreFiel == Spec => EntregaFiel
<1> DEFINE Fiel == ultima' # ultima =>
                      /\ entregas'[ultima'].planes = Completas(planeaciones')
                      /\ Completas(planeaciones') # {}
                      /\ entregas'[ultima'].doc = DocDe(planeaciones')
<1>1. TypeOK /\ AlDiaFiel /\ [Next]_vars => [Fiel]_vars
  BY PasoAlDia
<1>2. EntregaFiel <=> [][Fiel]_vars
  BY DEF EntregaFiel
<1>3. QED
  BY TipoCorrecto, AlDiaSiempreFiel, <1>1, <1>2, PTL DEF Spec

-----------------------------------------------------------------------------
(* The deliveries follow CicloEntrega *)

\* Versions are given out in order and none is taken back.
Numeradas == \A v \in Version : entregas[v].estado = "AUSENTE" <=> v > ultima

\* An observation belongs to a delivery that was made.
ObservacionDeEntrega ==
    \A o \in Observaciones : observaciones[o].estado # "AUSENTE" =>
        observaciones[o].entrega \in Version /\ observaciones[o].entrega <= ultima

IndEntregas == TypeOK /\ UnaEntregaActiva /\ Numeradas /\ ObservacionDeEntrega

\* A handler of the reviewers or of the team decides about a delivery that was made.
LEMMA DecideEntregada ==
    ASSUME IndEntregas, NEW v \in Version, Decide(v)
    PROVE  v <= ultima
<1>0. entregas \in [Version -> Entrega] /\ ultima \in Nat /\ v \in Nat
  BY ConstantesAssumption DEF IndEntregas, TypeOK, Version
<1>1. CASE IniciarRevision(v) \/ VerificarDescargaInvalida(v) \/ \E o : CrearObservacion(o, v)
  <2>1. entregas[v].estado # "AUSENTE"
    BY <1>1 DEF IniciarRevision, PorIniciar, CrearObservacion, VerificarDescargaInvalida,
                UltimaAutorizada, Autorizadas
  <2> QED BY <1>0, <2>1 DEF IndEntregas, Numeradas
<1>2. CASE SolicitarAjustes(v)
  BY <1>2 DEF SolicitarAjustes, SinResolver, ObsDe, IndEntregas, ObservacionDeEntrega
<1>3. CASE AprobarEntrega(v)
  <2>1. v = ultima
    BY <1>3 DEF AprobarEntrega
  <2> QED BY <1>0, <2>1
<1>4. ASSUME NEW o \in Observaciones, ReportarAjuste(o), v = observaciones[o].entrega
      PROVE  v <= ultima
  BY <1>4 DEF ReportarAjuste, IndEntregas, ObservacionDeEntrega
<1> QED BY <1>1, <1>2, <1>3, <1>4 DEF Decide

\* Every step keeps the numbers.
LEMMA PasoNumeradas == IndEntregas /\ EfectoEntregas => Numeradas'
<1> SUFFICES ASSUME IndEntregas, EfectoEntregas PROVE Numeradas'
  OBVIOUS
<1>0. entregas \in [Version -> Entrega] /\ ultima \in Nat /\ Version \subseteq Nat
  BY ConstantesAssumption DEF IndEntregas, TypeOK, Version
<1>1. CASE ultima' = ultima /\ entregas' = entregas
  BY <1>1 DEF IndEntregas, Numeradas
<1>2. CASE ultima' = ultima /\ entregas' = InvalidarAprobaciones
  <2>1. ASSUME NEW w \in Version
        PROVE  entregas'[w].estado = "AUSENTE" <=> entregas[w].estado = "AUSENTE"
    BY <1>0, <1>2 DEF InvalidarAprobaciones, Entrega
  <2> QED BY <1>2, <2>1 DEF IndEntregas, Numeradas
<1>3. ASSUME NEW v \in Version, EfectoDecision(v), Decide(v) PROVE Numeradas'
  <2>1. v <= ultima /\ ultima' = ultima
    BY <1>3, DecideEntregada DEF EfectoDecision
  <2>2. entregas'[v].estado # "AUSENTE"
    <3>1. entregas[v].estado # "AUSENTE"
      BY <1>0, <2>1 DEF IndEntregas, Numeradas
    <3>2. EfectoFila(v)
      BY <1>3, DecisionFila DEF IndEntregas
    <3> QED BY <3>1, <3>2 DEF EfectoFila
  <2>3. \A w \in Version \ {v} : entregas'[w] = entregas[w]
    BY <1>0, <1>3 DEF EfectoDecision
  <2> QED BY <1>0, <2>1, <2>2, <2>3 DEF IndEntregas, Numeradas
<1>4. CASE EfectoEnvio
  <2>1. PICK e \in PorIniciar, plans \in SUBSET Planeaciones, doc \in Documento :
          entregas' = [entregas EXCEPT ![ultima + 1] =
              [estado |-> e, descarga |-> FALSE, planes |-> plans, doc |-> doc]]
    BY <1>4 DEF EfectoEnvio
  <2>2. ultima + 1 \in Version /\ ultima' = ultima + 1
    BY <1>4 DEF EfectoEnvio
  <2>3. entregas'[ultima + 1].estado # "AUSENTE"
    BY <1>0, <2>1, <2>2 DEF PorIniciar
  <2>4. \A w \in Version \ {ultima + 1} : entregas'[w] = entregas[w]
    BY <1>0, <2>1
  <2> QED BY <1>0, <2>2, <2>3, <2>4 DEF IndEntregas, Numeradas
<1> QED BY <1>1, <1>2, <1>3, <1>4 DEF EfectoEntregas

\* The handlers of observations are the only ones that write them.
LEMMA PasoObservaciones ==
    ASSUME [Next]_vars
    PROVE  \/ observaciones' = observaciones
           \/ \E o \in Observaciones, v \in Version : CrearObservacion(o, v)
           \/ \E o \in Observaciones : ReportarAjuste(o) \/ ResolverObservacion(o)
<1>1. CASE PlaneacionNext
  BY <1>1 DEF PlaneacionNext, CrearPlaneacion, GuardarBorrador, ConfirmarYGenerar,
              GenerarIndividual, EliminarPlaneacion, EliminarPlaneacionFalla, GuardarConfiguracion
<1>2. CASE DocumentoNext
  BY <1>2 DEF DocumentoNext, GenerarConsolidado, GenerarConsolidadoFalla, GenerarYEnviar,
              GenerarYEnviarRechazado, DescargarRegenerando, Enviar
<1>3. CASE RevisionNext
  BY <1>3 DEF RevisionNext, EnviarARevision, Enviar, IniciarRevision, SolicitarAjustes,
              AprobarEntrega, VerificarDescargaInvalida
<1>4. CASE ReaperturaNext
  BY <1>4 DEF ReaperturaNext, CrearSolicitud, AprobarSolicitud, RechazarSolicitud
<1>5. CASE UNCHANGED vars
  BY <1>5 DEF vars
<1> QED BY <1>1, <1>2, <1>3, <1>4, <1>5 DEF Next

\* An observation is made about a delivery there is, and stays with it.
LEMMA PasoObservacionDeEntrega ==
    IndEntregas /\ [Next]_vars => ObservacionDeEntrega'
<1> SUFFICES ASSUME IndEntregas, [Next]_vars PROVE ObservacionDeEntrega'
  OBVIOUS
<1>0. /\ observaciones \in [Observaciones -> Observacion]
      /\ ultima \in Nat /\ Version \subseteq Nat
  BY ConstantesAssumption DEF IndEntregas, TypeOK, Version
<1>a. ultima' = ultima \/ ultima' = ultima + 1
  <2>1. EfectoEntregas
    BY PasoEntregas DEF IndEntregas
  <2> QED BY <2>1 DEF EfectoEntregas, EfectoDecision, EfectoEnvio
<1>1. \A w \in Version : w <= ultima => w <= ultima'
  BY <1>0, <1>a
<1>b. ASSUME NEW x \in Observaciones, observaciones[x].estado # "AUSENTE"
      PROVE  observaciones[x].entrega \in Version /\ observaciones[x].entrega <= ultima'
  <2>1. observaciones[x].entrega \in Version /\ observaciones[x].entrega <= ultima
    BY <1>b DEF IndEntregas, ObservacionDeEntrega
  <2> QED BY <1>1, <2>1
<1>2. CASE observaciones' = observaciones
  BY <1>b, <1>2 DEF ObservacionDeEntrega
<1>3. ASSUME NEW o \in Observaciones, NEW v \in Version, CrearObservacion(o, v)
      PROVE  ObservacionDeEntrega'
  <2>1. v <= ultima
    BY <1>3, DecideEntregada DEF Decide
  <2>2. observaciones'[o].entrega = v
    BY <1>0, <1>3 DEF CrearObservacion
  <2>3. \A x \in Observaciones \ {o} : observaciones'[x] = observaciones[x]
    BY <1>0, <1>3 DEF CrearObservacion
  <2>4. v <= ultima'
    BY <1>1, <2>1
  <2>5. ASSUME NEW x \in Observaciones \ {o}, observaciones'[x].estado # "AUSENTE"
        PROVE  observaciones'[x].entrega \in Version /\ observaciones'[x].entrega <= ultima'
    BY <1>b, <2>3, <2>5
  <2> QED BY <1>3, <2>2, <2>4, <2>5 DEF ObservacionDeEntrega
<1>4. ASSUME NEW o \in Observaciones, ReportarAjuste(o) \/ ResolverObservacion(o)
      PROVE  ObservacionDeEntrega'
  <2>1. \A x \in Observaciones : /\ observaciones'[x].entrega = observaciones[x].entrega
                                 /\ observaciones'[x].estado # "AUSENTE" =>
                                        observaciones[x].estado # "AUSENTE"
    BY <1>0, <1>4 DEF ReportarAjuste, ResolverObservacion, Observacion
  <2> QED BY <1>b, <2>1 DEF ObservacionDeEntrega
<1> QED BY <1>2, <1>3, <1>4, PasoObservaciones

LEMMA SiempreIndEntregas == Spec => []IndEntregas
<1>1. Init => Numeradas /\ ObservacionDeEntrega
  BY ConstantesAssumption DEF Init, Numeradas, ObservacionDeEntrega, Version
<1>2. TypeOK /\ UnaEntregaActiva /\ Numeradas /\ ObservacionDeEntrega /\ [Next]_vars
      => Numeradas' /\ ObservacionDeEntrega'
  BY PasoEntregas, PasoNumeradas, PasoObservacionDeEntrega DEF IndEntregas
<1> QED BY TipoCorrecto, EntregaActivaUnica, <1>1, <1>2, PTL DEF Spec, IndEntregas

\* Writing one delivery changes who has it and what it shows, and nothing else.
LEMMA UnaFila ==
    ASSUME TypeOK, NEW v \in Version, NEW e, entregas' = [entregas EXCEPT ![v] = e]
    PROVE  /\ Turno' = [Turno EXCEPT ![v] = TurnoDe(e)]
           /\ Libro' = [Libro EXCEPT ![v] = LibroDe(e)]
<1>1. entregas \in [Version -> Entrega]
  BY DEF TypeOK
<1>2. \A w \in Version : entregas'[w] = IF w = v THEN e ELSE entregas[w]
  BY <1>1
<1>3. Turno' = [w \in Version |-> TurnoDe(entregas'[w])]
  BY DEF Turno, TurnoDe
<1>4. Libro' = [w \in Version |-> LibroDe(entregas'[w])]
  BY DEF Libro, LibroDe, TurnoDe
<1>5. ASSUME NEW w \in Version
      PROVE  /\ TurnoDe(entregas'[w]) = IF w = v THEN TurnoDe(e) ELSE Turno[w]
             /\ LibroDe(entregas'[w]) = IF w = v THEN LibroDe(e) ELSE Libro[w]
  <2>1. CASE w = v
    BY <1>2, <2>1
  <2>2. CASE w # v
    BY <1>2, <2>2 DEF Turno, Libro
  <2> QED BY <2>1, <2>2
<1>6. /\ Turno' = [w \in Version |-> IF w = v THEN TurnoDe(e) ELSE Turno[w]]
      /\ Libro' = [w \in Version |-> IF w = v THEN LibroDe(e) ELSE Libro[w]]
  BY <1>3, <1>4, <1>5
<1>7. DOMAIN Turno = Version /\ DOMAIN Libro = Version
  BY DEF Turno, Libro
<1> QED BY <1>6, <1>7

\* A delivery back with the team shows nothing.
LEMMA FilaDelEquipo ==
    ASSUME NEW e, e.estado \in {"AJUSTES_SOLICITADOS", "AJUSTES_EN_PROGRESO", "BORRADOR"}
    PROVE  TurnoDe(e) = "EQUIPO" /\ LibroDe(e) = SinDoc
BY DEF TurnoDe, LibroDe, EnCurso

\* The step of the deliveries that CicloEntrega allows.
PasoCiclo == [Ciclo!Next]_<<ultima, Turno, Libro>>

\* Sending a delivery back is Devolver, or nothing if the team had it.
LEMMA ImplementaDevolver ==
    ASSUME TypeOK, NEW v \in Version, entregas[v].estado # "AUSENTE", ultima' = ultima,
           NEW e \in {"AJUSTES_SOLICITADOS", "AJUSTES_EN_PROGRESO", "BORRADOR"}, NEW x,
           x.estado = e, entregas' = [entregas EXCEPT ![v] = x]
    PROVE  PasoCiclo
<1>1. /\ Turno' = [Turno EXCEPT ![v] = "EQUIPO"]
      /\ Libro' = [Libro EXCEPT ![v] = SinDoc]
  <2>1. /\ Turno' = [Turno EXCEPT ![v] = TurnoDe(x)]
        /\ Libro' = [Libro EXCEPT ![v] = LibroDe(x)]
    BY UnaFila
  <2>2. TurnoDe(x) = "EQUIPO" /\ LibroDe(x) = SinDoc
    BY FilaDelEquipo
  <2> QED BY <2>1, <2>2
<1>2. CASE Turno[v] \in {"REVISORES", "APROBADA"}
  <2>1. Ciclo!Devolver(v)
    BY <1>1, <1>2 DEF Ciclo!Devolver
  <2> QED BY <2>1 DEF PasoCiclo, Ciclo!Next, Ciclo!Version, Version
<1>3. CASE Turno[v] \notin {"REVISORES", "APROBADA"}
  <2>1. Turno[v] = "EQUIPO" /\ Libro[v] = SinDoc
    BY <1>3 DEF Turno, Libro, TurnoDe, LibroDe
  <2> QED BY <1>1, <2>1 DEF PasoCiclo, Turno, Libro
<1> QED BY <1>2, <1>3

\* Who has a delivery and what it shows depend on the row and on nothing else.
LEMMA MismaFila ==
    ASSUME TypeOK, NEW v \in Version, NEW e, entregas' = [entregas EXCEPT ![v] = e],
           TurnoDe(e) = TurnoDe(entregas[v]), LibroDe(e) = LibroDe(entregas[v]),
           ultima' = ultima
    PROVE  PasoCiclo
<1>1. Turno' = Turno /\ Libro' = Libro
  BY UnaFila DEF Turno, Libro
<1> QED BY <1>1 DEF PasoCiclo

\* Taking up a delivery leaves it with the reviewers and shows the same.
LEMMA ImplementaIniciar ==
    ASSUME TypeOK, NEW v \in Version, entregas[v].estado \in PorIniciar, ultima' = ultima,
           entregas' = [entregas EXCEPT ![v].estado = "EN_REVISION"]
    PROVE  PasoCiclo
<1> DEFINE e == [entregas[v] EXCEPT !.estado = "EN_REVISION"]
<1>1. entregas[v] \in Entrega
  BY DEF TypeOK
<1>2. e.estado = "EN_REVISION" /\ e.doc = entregas[v].doc
  BY <1>1 DEF Entrega
<1>3. TurnoDe(e) = TurnoDe(entregas[v]) /\ LibroDe(e) = LibroDe(entregas[v])
  BY <1>2 DEF TurnoDe, LibroDe, EnCurso, PorIniciar
<1>4. entregas' = [entregas EXCEPT ![v] = e]
  OBVIOUS
<1> HIDE DEF e
<1> QED BY <1>3, <1>4, MismaFila

\* Every decision is a step of CicloEntrega, or none.
LEMMA ImplementaDecision ==
    ASSUME IndEntregas, NEW v \in Version, Decide(v)
    PROVE  PasoCiclo
<1>0. entregas[v] \in Entrega /\ entregas \in [Version -> Entrega] /\ ultima \in Nat
  BY ConstantesAssumption DEF IndEntregas, TypeOK, Version
<1>1. entregas[v].estado # "AUSENTE"
  <2>1. v <= ultima
    BY DecideEntregada
  <2> QED BY <1>0, <2>1 DEF IndEntregas, Numeradas, Version
<1>2. CASE UNCHANGED <<entregas, ultima>>
  BY <1>2 DEF PasoCiclo, Turno, Libro, TurnoDe, LibroDe
<1>3. CASE IniciarRevision(v)
  BY <1>3, ImplementaIniciar DEF IniciarRevision, IndEntregas
<1>4. ASSUME NEW o \in Observaciones, CrearObservacion(o, v) PROVE PasoCiclo
  BY <1>2, <1>4, ImplementaIniciar DEF CrearObservacion, IndEntregas
<1>5. CASE SolicitarAjustes(v)
  <2> DEFINE x == [entregas[v] EXCEPT !.estado = "AJUSTES_SOLICITADOS", !.descarga = FALSE]
  <2>1. x.estado = "AJUSTES_SOLICITADOS"
    BY <1>0 DEF Entrega
  <2>2. entregas' = [entregas EXCEPT ![v] = x] /\ ultima' = ultima
    BY <1>5 DEF SolicitarAjustes
  <2> HIDE DEF x
  <2> QED BY <1>1, <2>1, <2>2, ImplementaDevolver DEF IndEntregas
<1>6. CASE VerificarDescargaInvalida(v)
  <2> DEFINE x == [entregas[v] EXCEPT !.estado = "BORRADOR", !.descarga = FALSE]
  <2>1. x.estado = "BORRADOR"
    BY <1>0 DEF Entrega
  <2>2. entregas' = [entregas EXCEPT ![v] = x] /\ ultima' = ultima
    BY <1>6 DEF VerificarDescargaInvalida
  <2> HIDE DEF x
  <2> QED BY <1>1, <2>1, <2>2, ImplementaDevolver DEF IndEntregas
<1>7. ASSUME NEW o \in Observaciones, ReportarAjuste(o), v = observaciones[o].entrega
      PROVE  PasoCiclo
  <2> DEFINE x == [entregas[v] EXCEPT !.estado = "AJUSTES_EN_PROGRESO"]
  <2>1. x.estado = "AJUSTES_EN_PROGRESO"
    BY <1>0 DEF Entrega
  <2>2. /\ ultima' = ultima
        /\ entregas' = entregas \/ entregas' = [entregas EXCEPT ![v] = x]
    BY <1>7 DEF ReportarAjuste
  <2> HIDE DEF x
  <2> QED BY <1>1, <1>2, <2>1, <2>2, ImplementaDevolver DEF IndEntregas
<1>8. CASE AprobarEntrega(v)
  <2> DEFINE x == [estado |-> "APROBADO", descarga |-> TRUE,
                   planes |-> Completas(planeaciones), doc |-> config.doc]
  <2>1. TurnoDe(x) = "APROBADA" /\ LibroDe(x) = config.doc
    BY DEF TurnoDe, LibroDe, EnCurso
  <2>2. entregas' = [entregas EXCEPT ![v] = x] /\ ultima' = ultima /\ v = ultima
    BY <1>8 DEF AprobarEntrega
  <2> HIDE DEF x
  <2>3. /\ Turno' = [Turno EXCEPT ![v] = "APROBADA"]
        /\ Libro' = [Libro EXCEPT ![v] = config.doc]
    <3>1. TypeOK
      BY DEF IndEntregas
    <3>2. /\ Turno' = [Turno EXCEPT ![v] = TurnoDe(x)]
          /\ Libro' = [Libro EXCEPT ![v] = LibroDe(x)]
      BY <2>2, <3>1, UnaFila
    <3> QED BY <2>1, <3>2
  <2>4. config.doc \in Documento /\ v # 0
    BY <1>0, ConstantesAssumption DEF IndEntregas, TypeOK, Config, Version
  <2>5. Ciclo!Aprobar(config.doc)
    BY <2>2, <2>3, <2>4 DEF Ciclo!Aprobar
  <2> QED BY <2>4, <2>5 DEF PasoCiclo, Ciclo!Next
<1> QED BY <1>3, <1>4, <1>5, <1>6, <1>7, <1>8 DEF Decide

\* A submission is Entregar: nobody else waits, and its number is new.
LEMMA ImplementaEnvio ==
    ASSUME IndEntregas, EfectoEnvio
    PROVE  PasoCiclo
<1>0. entregas \in [Version -> Entrega] /\ ultima \in Nat /\ Version \subseteq Nat
  BY ConstantesAssumption DEF IndEntregas, TypeOK, Version
<1>1. PICK e \in PorIniciar, plans \in SUBSET Planeaciones, doc \in Documento :
        entregas' = [entregas EXCEPT ![ultima + 1] =
            [estado |-> e, descarga |-> FALSE, planes |-> plans, doc |-> doc]]
  BY DEF EfectoEnvio
<1> DEFINE x == [estado |-> e, descarga |-> FALSE, planes |-> plans, doc |-> doc]
<1>2. ultima + 1 \in Version /\ ultima' = ultima + 1
  BY DEF EfectoEnvio
<1>3. TurnoDe(x) = "REVISORES" /\ LibroDe(x) = doc
  BY DEF TurnoDe, LibroDe, EnCurso, PorIniciar
<1>4. entregas' = [entregas EXCEPT ![ultima + 1] = x]
  BY <1>1
<1> HIDE DEF x
<1>5. /\ Turno' = [Turno EXCEPT ![ultima + 1] = "REVISORES"]
      /\ Libro' = [Libro EXCEPT ![ultima + 1] = doc]
  BY <1>2, <1>3, <1>4, UnaFila DEF IndEntregas
<1>6. ultima < MaxVersion
  BY <1>0, <1>2, ConstantesAssumption DEF Version
<1>7. \A w \in Version : Turno[w] # "REVISORES"
  <2>1. \A w \in Version : entregas[w].estado \notin EnCurso
    <3>1. ASSUME NEW w \in Version, entregas[w].estado \in EnCurso PROVE FALSE
      <4>1. w = ultima /\ ultima # 0
        BY <1>0, <3>1, ConstantesAssumption DEF IndEntregas, UnaEntregaActiva, Version
      <4> QED BY <3>1, <4>1 DEF EfectoEnvio
    <3> QED BY <3>1
  <2> QED BY <2>1 DEF Turno, TurnoDe
<1>8. Turno[ultima + 1] = "NADIE"
  <2>1. entregas[ultima + 1].estado = "AUSENTE"
    BY <1>0, <1>2 DEF IndEntregas, Numeradas
  <2> QED BY <1>2, <2>1 DEF Turno, TurnoDe, EnCurso
<1>9. Ciclo!Entregar(doc)
  BY <1>2, <1>5, <1>6, <1>7, <1>8 DEF Ciclo!Entregar, Ciclo!Version, Version
<1> QED BY <1>9 DEF PasoCiclo, Ciclo!Next

\* Losing the approvals is Invalidar, or nothing if there was none.
LEMMA ImplementaInvalidar ==
    ASSUME TypeOK, ultima' = ultima, entregas' = InvalidarAprobaciones
    PROVE  PasoCiclo
<1>0. entregas \in [Version -> Entrega]
  BY DEF TypeOK
<1>1. ASSUME NEW w \in Version, entregas[w].estado = "APROBADO"
      PROVE  /\ Turno[w] = "APROBADA"
             /\ Turno'[w] = "EQUIPO" /\ Libro'[w] = SinDoc
  <2>1. entregas'[w].estado = "BORRADOR"
    BY <1>0, <1>1 DEF InvalidarAprobaciones, Entrega
  <2> QED BY <1>1, <2>1 DEF Turno, Libro, TurnoDe, LibroDe, EnCurso
<1>2. ASSUME NEW w \in Version, entregas[w].estado # "APROBADO"
      PROVE  /\ Turno[w] # "APROBADA"
             /\ Turno'[w] = Turno[w] /\ Libro'[w] = Libro[w]
  <2>1. entregas'[w] = entregas[w]
    BY <1>2 DEF InvalidarAprobaciones
  <2> QED BY <1>2, <2>1 DEF Turno, Libro, TurnoDe, LibroDe, EnCurso
<1>3. /\ Turno' = [w \in Version |-> IF Turno[w] = "APROBADA" THEN "EQUIPO" ELSE Turno[w]]
      /\ Libro' = [w \in Version |-> IF Turno[w] = "APROBADA" THEN SinDoc ELSE Libro[w]]
  BY <1>1, <1>2 DEF Turno, Libro
<1>4. CASE \E w \in Version : Turno[w] = "APROBADA"
  <2>1. Ciclo!Invalidar
    BY <1>3, <1>4 DEF Ciclo!Invalidar, Ciclo!Version, Version
  <2> QED BY <2>1 DEF PasoCiclo, Ciclo!Next
<1>5. CASE \A w \in Version : Turno[w] # "APROBADA"
  <2>1. Turno' = Turno /\ Libro' = Libro
    BY <1>3, <1>5 DEF Turno, Libro
  <2> QED BY <2>1 DEF PasoCiclo
<1> QED BY <1>4, <1>5

LEMMA ImplementaEntregasInicial == Init => Ciclo!Init
BY DEF Init, Ciclo!Init, Ciclo!Version, Version, Turno, Libro, TurnoDe, LibroDe, EnCurso

\* Whatever the team and the reviewers do, in whatever order, the deliveries of
\* a process go through the cycle CicloEntrega promises.
THEOREM ImplementaCicloEntrega == Spec => ImplementaEntregas
<1>1. IndEntregas /\ [Next]_vars => [Ciclo!Next]_<<ultima, Turno, Libro>>
  <2> SUFFICES ASSUME IndEntregas, [Next]_vars PROVE PasoCiclo
    BY DEF PasoCiclo
  <2>1. EfectoEntregas
    BY PasoEntregas DEF IndEntregas
  <2>2. CASE ultima' = ultima /\ entregas' = entregas
    BY <2>2 DEF PasoCiclo, Turno, Libro, TurnoDe, LibroDe
  <2> QED BY <2>1, <2>2, ImplementaInvalidar, ImplementaDecision, ImplementaEnvio
          DEF EfectoEntregas, IndEntregas
<1> QED BY <1>1, ImplementaEntregasInicial, SiempreIndEntregas, PTL
        DEF Spec, ImplementaEntregas, Ciclo!Spec
=============================================================================
