--------------------- MODULE RevisionCurricularReapertura ---------------------
(* Proofs about the controlled reopening of RevisionCurricular: the locks of  *)
(* the RAs, the requests that open them and their official versions.          *)
EXTENDS RevisionCurricularProofs

-----------------------------------------------------------------------------
(* The inductive invariant *)

\* A request is deleted with its planning.
SolicitudConPlaneacion ==
    \A q \in Solicitudes : solicitudes[q].estado # "AUSENTE" => Existe(solicitudes[q].plan)

\* A planning only has RAs of its activity.
RAsDeSuActividad == \A p \in Planeaciones : planeaciones[p].ras \subseteq RAsDeActividad[p]

\* A planning not yet created was never approved.
NuevaSinAprobar ==
    \A p \in Planeaciones :
        planeaciones[p].estado = "AUSENTE" => planeaciones[p].approval = "PENDING"

\* The RAs of an approved planning are locked by the column of the RA itself,
\* which every planning reads: this is what AprobadaBloqueada rests on.
AprobadaCerrada ==
    \A p \in Planeaciones :
        Existe(p) /\ planeaciones[p].approval = "APPROVED" /\ Aislada(p) =>
            \A r \in planeaciones[p].ras : resultados[r].edit = "LOCKED"

IndReapertura ==
    /\ TypeOK
    /\ SolicitudConPlaneacion
    /\ RAsDeSuActividad
    /\ NuevaSinAprobar
    /\ AprobadaCerrada
    /\ AutorizacionVigente
    /\ VersionOficialUnica

-----------------------------------------------------------------------------
(* Steps that change nothing the reopening reads *)

\* What the reopening reads of a table of plannings is what it was.
MismaVista(plans) ==
    \A p \in Planeaciones :
        /\ plans[p].estado \in {"BORRADOR", "COMPLETO"} <=> Existe(p)
        /\ plans[p].estado = "AUSENTE" <=> planeaciones[p].estado = "AUSENTE"
        /\ plans[p].ras = planeaciones[p].ras
        /\ plans[p].approval = planeaciones[p].approval
        /\ plans[p].edit = planeaciones[p].edit

EfectoNulo ==
    /\ MismaVista(planeaciones')
    /\ UNCHANGED <<resultados, raLocks, solicitudes, versiones>>

\* Confirming drafts is invisible to the reopening.
LEMMA ConfirmarNulo ==
    ASSUME TypeOK, NEW listos \in SUBSET Borradores(planeaciones)
    PROVE  MismaVista(ConBorradoresConfirmados(listos))
BY DEF TypeOK, MismaVista, ConBorradoresConfirmados, Borradores, Existe, Planeacion

\* The invariant only looks at what EfectoNulo keeps.
LEMMA PasoNulo == ASSUME IndReapertura, TypeOK', EfectoNulo PROVE IndReapertura'
<1>1. \A p \in Planeaciones : Existe(p)' <=> Existe(p)
  BY DEF EfectoNulo, MismaVista, Existe
<1>2. \A p \in Planeaciones : \A r : Bloqueado(p, r)' <=> Bloqueado(p, r)
  BY DEF EfectoNulo, MismaVista, Bloqueado
<1>3. \A p \in Planeaciones : Autorizan(p)' = Autorizan(p)
  BY DEF EfectoNulo, Autorizan
<1>4. SolicitudConPlaneacion'
  BY <1>1 DEF IndReapertura, TypeOK, SolicitudConPlaneacion, EfectoNulo
<1>5. RAsDeSuActividad' /\ NuevaSinAprobar'
  BY DEF IndReapertura, RAsDeSuActividad, NuevaSinAprobar, EfectoNulo, MismaVista
<1>6. AprobadaCerrada'
  BY <1>1 DEF IndReapertura, AprobadaCerrada, EfectoNulo, MismaVista
<1>7. AutorizacionVigente'
  BY <1>2, <1>3 DEF IndReapertura, AutorizacionVigente, EfectoNulo, MismaVista
<1>8. VersionOficialUnica'
  BY <1>1 DEF IndReapertura, VersionOficialUnica, EfectoNulo, MismaVista
<1>9. QED
  BY <1>4, <1>5, <1>6, <1>7, <1>8 DEF IndReapertura

-----------------------------------------------------------------------------
(* Plannings *)

\* A new planning has no request, no approval and no version to look after.
LEMMA PasoCrear ==
    ASSUME IndReapertura, TypeOK', NEW p \in Planeaciones, NEW ras \in SUBSET RAsDeActividad[p],
           NEW c \in Contenidos, CrearPlaneacion(p, ras, c)
    PROVE  IndReapertura'
<1>1. /\ planeaciones[p].estado = "AUSENTE"
      /\ planeaciones[p].approval = "PENDING"
      /\ ~ Existe(p)
  BY DEF CrearPlaneacion, IndReapertura, NuevaSinAprobar, Existe
<1>2. /\ \A x \in Planeaciones \ {p} : planeaciones'[x] = planeaciones[x]
      /\ planeaciones'[p].estado = "BORRADOR"
      /\ planeaciones'[p].ras = ras
      /\ planeaciones'[p].approval = "PENDING"
  BY <1>1 DEF CrearPlaneacion, IndReapertura, TypeOK, Planeacion
<1>3. UNCHANGED <<resultados, raLocks, solicitudes, versiones>>
  BY DEF CrearPlaneacion
<1>4. \A q \in Solicitudes : solicitudes[q].estado # "AUSENTE" => solicitudes[q].plan # p
  BY <1>1 DEF IndReapertura, SolicitudConPlaneacion
<1>5. SolicitudConPlaneacion' /\ RAsDeSuActividad' /\ NuevaSinAprobar'
  BY <1>2, <1>3, <1>4 DEF IndReapertura, TypeOK, SolicitudConPlaneacion, RAsDeSuActividad,
                          NuevaSinAprobar, Existe
<1>6. AprobadaCerrada'
  BY <1>2, <1>3 DEF IndReapertura, AprobadaCerrada, Existe
<1>7. AutorizacionVigente'
  <2>1. SUFFICES ASSUME NEW x \in Planeaciones, NEW q \in Autorizan(x)',
                        NEW r \in solicitudes[q].aprobados \cap planeaciones'[x].ras,
                        Exclusivo(x, r)
                 PROVE  ~ Bloqueado(x, r)'
    BY <1>3 DEF AutorizacionVigente, Exclusivo
  <2>2. x # p /\ q \in Autorizan(x)
    BY <1>3, <1>4 DEF Autorizan, Abierta
  <2>3. ~ Bloqueado(x, r)
    BY <1>2, <2>1, <2>2 DEF IndReapertura, AutorizacionVigente
  <2>4. QED
    BY <1>2, <1>3, <2>2, <2>3 DEF Bloqueado
<1>8. VersionOficialUnica'
  BY <1>2, <1>3 DEF IndReapertura, VersionOficialUnica, Existe
<1>9. QED
  BY <1>5, <1>6, <1>7, <1>8 DEF IndReapertura

\* Saving needs an RA that is not locked, so no approved planning is saved
\* unless it shares its RAs; and it adds only RAs that are not locked.
LEMMA PasoGuardar ==
    ASSUME IndReapertura, TypeOK', NEW p \in Planeaciones, NEW ras \in SUBSET RAsDeActividad[p],
           NEW c \in Contenidos, GuardarBorrador(p, ras, c)
    PROVE  IndReapertura'
<1>1. /\ \A x \in Planeaciones \ {p} : planeaciones'[x] = planeaciones[x]
      /\ planeaciones'[p].estado = "BORRADOR"
      /\ planeaciones'[p].ras = ras
      /\ planeaciones'[p].approval = planeaciones[p].approval
      /\ planeaciones'[p].edit = planeaciones[p].edit
  BY DEF GuardarBorrador, IndReapertura, TypeOK, Planeacion
<1>2. UNCHANGED <<resultados, raLocks, solicitudes, versiones>>
  BY DEF GuardarBorrador
<1>3. ~ (planeaciones[p].approval = "APPROVED" /\ Aislada(p))
  BY DEF GuardarBorrador, TieneRAEditable, Bloqueado, IndReapertura, AprobadaCerrada
<1>4. \A x \in Planeaciones : Existe(x)' <=> Existe(x)
  BY <1>1 DEF Existe, GuardarBorrador
<1>5. \A x \in Planeaciones : \A r : Bloqueado(x, r)' <=> Bloqueado(x, r)
  BY <1>1, <1>2 DEF Bloqueado
<1>6. SolicitudConPlaneacion' /\ RAsDeSuActividad' /\ NuevaSinAprobar'
  BY <1>1, <1>2, <1>4 DEF IndReapertura, TypeOK, SolicitudConPlaneacion, RAsDeSuActividad,
                          NuevaSinAprobar
<1>7. AprobadaCerrada'
  BY <1>1, <1>2, <1>3, <1>4 DEF IndReapertura, AprobadaCerrada
<1>8. AutorizacionVigente'
  <2>1. SUFFICES ASSUME NEW x \in Planeaciones, NEW q \in Autorizan(x),
                        NEW r \in solicitudes[q].aprobados \cap planeaciones'[x].ras,
                        Exclusivo(x, r)
                 PROVE  ~ Bloqueado(x, r)
    BY <1>2, <1>5 DEF AutorizacionVigente, Exclusivo, Autorizan
  <2>2. CASE r \in planeaciones[x].ras
    BY <2>1, <2>2 DEF IndReapertura, AutorizacionVigente
  <2>3. CASE r \notin planeaciones[x].ras
    BY <1>1, <2>1, <2>3 DEF GuardarBorrador
  <2>4. QED
    BY <2>2, <2>3
<1>9. VersionOficialUnica'
  BY <1>1, <1>2, <1>3, <1>4 DEF IndReapertura, VersionOficialUnica
<1>10. QED
  BY <1>6, <1>7, <1>8, <1>9 DEF IndReapertura

\* Deleting a planning takes its requests and its versions with it.
LEMMA PasoEliminar ==
    ASSUME IndReapertura, TypeOK', NEW p \in Planeaciones, EliminarPlaneacion(p)
    PROVE  IndReapertura'
<1>1. /\ \A x \in Planeaciones \ {p} : planeaciones'[x] = planeaciones[x]
      /\ planeaciones'[p].estado = "ELIMINADA"
      /\ planeaciones'[p].ras = {}
  BY DEF EliminarPlaneacion, IndReapertura, TypeOK, Planeacion
<1>2. /\ resultados' = resultados
      /\ versiones' = {x \in versiones : x.plan # p}
      /\ \A x \in Planeaciones \ {p} : raLocks'[x] = raLocks[x]
  BY DEF EliminarPlaneacion, IndReapertura, TypeOK
<1>3. \A q \in Solicitudes :
         \/ solicitudes[q].plan # p /\ solicitudes'[q] = solicitudes[q]
         \/ solicitudes'[q].estado = "AUSENTE"
  <2>1. solicitudes \in [Solicitudes -> Solicitud]
    BY DEF IndReapertura, TypeOK
  <2>2. \A q \in Solicitudes :
           [solicitudes[q] EXCEPT !.estado = "AUSENTE", !.plan = Nada,
                                  !.pedidos = {}, !.aprobados = {}].estado = "AUSENTE"
    BY <2>1 DEF Solicitud
  <2>3. QED
    BY <2>2 DEF EliminarPlaneacion
<1>4. SolicitudConPlaneacion' /\ RAsDeSuActividad' /\ NuevaSinAprobar'
  BY <1>1, <1>3 DEF IndReapertura, TypeOK, SolicitudConPlaneacion, RAsDeSuActividad,
                    NuevaSinAprobar, Existe
<1>5. AprobadaCerrada'
  BY <1>1, <1>2 DEF IndReapertura, AprobadaCerrada, Existe
<1>6. AutorizacionVigente'
  <2>1. SUFFICES ASSUME NEW x \in Planeaciones, NEW q \in Autorizan(x)',
                        NEW r \in solicitudes'[q].aprobados \cap planeaciones'[x].ras,
                        Exclusivo(x, r)
                 PROVE  ~ Bloqueado(x, r)'
    BY DEF AutorizacionVigente, Exclusivo
  <2>2. x # p /\ q \in Autorizan(x) /\ solicitudes'[q] = solicitudes[q]
    BY <1>3, <2>1 DEF Autorizan, Abierta
  <2>3. ~ Bloqueado(x, r)
    BY <1>1, <2>1, <2>2 DEF IndReapertura, AutorizacionVigente
  <2>4. QED
    BY <1>1, <1>2, <2>2, <2>3 DEF Bloqueado
<1>7. VersionOficialUnica'
  <2>1. \A x \in Planeaciones \ {p} :
           Existe(x)' /\ planeaciones'[x].approval = "APPROVED" =>
               Existe(x) /\ planeaciones[x].approval = "APPROVED"
    BY <1>1 DEF Existe
  <2>2. ~ Existe(p)'
    BY <1>1 DEF Existe
  <2>3. \A x \in Planeaciones \ {p}, r \in Resultados :
           {y \in versiones' : y.plan = x /\ y.ra = r /\ y.oficial}
             = {y \in versiones : y.plan = x /\ y.ra = r /\ y.oficial}
    BY <1>2
  <2>4. \A r \in Resultados :
           {y \in versiones' : y.plan = p /\ y.ra = r /\ y.oficial} = {}
    BY <1>2
  <2>5. VersionOficialUnica
    BY DEF IndReapertura
  <2>6. QED
    BY <1>1, <2>1, <2>2, <2>3, <2>4, <2>5 DEF VersionOficialUnica, Aislada, Exclusivo
<1>8. QED
  BY <1>4, <1>5, <1>6, <1>7 DEF IndReapertura

-----------------------------------------------------------------------------
(* Submission and review *)

\* A submission only locks, and closes the requests of every planning left.
LEMMA PasoEnviar ==
    ASSUME IndReapertura, TypeOK', NEW plans \in [Planeaciones -> Planeacion], MismaVista(plans),
           NEW doc, NEW alDia, NEW quedaAlDia, Enviar(plans, doc, alDia, quedaAlDia)
    PROVE  IndReapertura'
<1>1. \A x \in Planeaciones : /\ planeaciones'[x].estado = plans[x].estado
                              /\ planeaciones'[x].ras = plans[x].ras
                              /\ planeaciones'[x].approval = plans[x].approval
  BY DEF Enviar, Planeacion
<1>2. /\ \A x \in Planeaciones : Existe(x)' <=> Existe(x)
      /\ \A x \in Planeaciones : /\ planeaciones'[x].ras = planeaciones[x].ras
                                 /\ planeaciones'[x].approval = planeaciones[x].approval
                                 /\ planeaciones'[x].estado = "AUSENTE" <=>
                                       planeaciones[x].estado = "AUSENTE"
  BY <1>1 DEF MismaVista, Existe
<1>3. \A r \in Resultados : resultados[r].edit = "LOCKED" => resultados'[r].edit = "LOCKED"
  BY DEF Enviar, IndReapertura, TypeOK, Resultado
<1>4. \A q \in Solicitudes :
         /\ solicitudes'[q].plan = solicitudes[q].plan
         /\ solicitudes'[q].estado # "AUSENTE" => solicitudes[q].estado # "AUSENTE"
         /\ solicitudes'[q].estado \notin Abierta
  <2>1. \A q \in Solicitudes : Existe(solicitudes[q].plan) =>
           solicitudes[q].plan \in Completas(plans) \cup Borradores(plans)
             \/ solicitudes[q].estado = "AUSENTE"
    BY DEF MismaVista, Completas, Borradores, Existe, IndReapertura, TypeOK
  <2>2. \A q \in Solicitudes : solicitudes[q].estado \in Abierta =>
           solicitudes[q].plan \in Completas(plans) \cup Borradores(plans)
    BY <2>1 DEF IndReapertura, SolicitudConPlaneacion, Abierta
  <2>3. QED
    BY <2>2 DEF Enviar, IndReapertura, TypeOK, Solicitud, Abierta
<1>5. SolicitudConPlaneacion' /\ RAsDeSuActividad' /\ NuevaSinAprobar'
  BY <1>2, <1>4 DEF IndReapertura, TypeOK, SolicitudConPlaneacion, RAsDeSuActividad,
                    NuevaSinAprobar
<1>6. AprobadaCerrada'
  BY <1>2, <1>3 DEF IndReapertura, TypeOK, Planeacion, AprobadaCerrada, Aislada, Exclusivo
<1>7. AutorizacionVigente'
  BY <1>4 DEF AutorizacionVigente, Autorizan
<1>8. VersionOficialUnica'
  <2>1. versiones' = versiones
    BY DEF Enviar
  <2>2. QED
    BY <1>2, <2>1 DEF IndReapertura, VersionOficialUnica, Aislada, Exclusivo
<1>9. QED
  BY <1>5, <1>6, <1>7, <1>8 DEF IndReapertura

\* Asking for adjustments opens only RAs of plannings never approved.
LEMMA PasoAjustes ==
    ASSUME IndReapertura, TypeOK', NEW v \in Version, SolicitarAjustes(v)
    PROVE  IndReapertura'
<1>1. \A x \in Planeaciones : /\ planeaciones'[x].estado = planeaciones[x].estado
                              /\ planeaciones'[x].ras = planeaciones[x].ras
                              /\ planeaciones'[x].approval = planeaciones[x].approval
                              /\ planeaciones'[x].edit \in {planeaciones[x].edit, "EDITABLE"}
  <2>1. planeaciones \in [Planeaciones -> Planeacion]
    BY DEF IndReapertura, TypeOK
  <2>2. \A x \in Planeaciones : planeaciones'[x] \in
           {planeaciones[x],
            [planeaciones[x] EXCEPT !.review = "OBSERVED", !.edit = "EDITABLE"],
            [planeaciones[x] EXCEPT !.review = "OBSERVED"]}
    BY DEF SolicitarAjustes
  <2>3. \A x \in Planeaciones : \A z \in
           {planeaciones[x],
            [planeaciones[x] EXCEPT !.review = "OBSERVED", !.edit = "EDITABLE"],
            [planeaciones[x] EXCEPT !.review = "OBSERVED"]} :
              /\ z.estado = planeaciones[x].estado
              /\ z.ras = planeaciones[x].ras
              /\ z.approval = planeaciones[x].approval
              /\ z.edit \in {planeaciones[x].edit, "EDITABLE"}
    BY <2>1 DEF Planeacion
  <2>4. QED
    BY <2>2, <2>3
<1>2. \A x \in Planeaciones : Existe(x)' <=> Existe(x)
  BY <1>1 DEF Existe
<1>3. UNCHANGED <<raLocks, solicitudes, versiones>>
  BY DEF SolicitarAjustes
<1>4. \A r \in Resultados : /\ resultados'[r].edit \in {resultados[r].edit, "EDITABLE"}
                            /\ resultados'[r].reabierto = resultados[r].reabierto
  BY DEF SolicitarAjustes, IndReapertura, TypeOK, Resultado
<1>5. \A r \in Resultados : resultados'[r] = resultados[r]
         \/ \E x \in Planeaciones : planeaciones[x].approval = "PENDING" /\ r \in planeaciones[x].ras
  BY DEF SolicitarAjustes, IndReapertura, TypeOK
<1>6. SolicitudConPlaneacion' /\ RAsDeSuActividad' /\ NuevaSinAprobar'
  BY <1>1, <1>2, <1>3 DEF IndReapertura, TypeOK, SolicitudConPlaneacion, RAsDeSuActividad,
                          NuevaSinAprobar
<1>7. AprobadaCerrada'
  <2>1. SUFFICES ASSUME NEW p \in Planeaciones, Existe(p), planeaciones[p].approval = "APPROVED",
                        Aislada(p), NEW r \in planeaciones[p].ras
                 PROVE  resultados'[r].edit = "LOCKED"
    BY <1>1, <1>2 DEF AprobadaCerrada, Aislada, Exclusivo
  <2>2. r \in RAsDeActividad[p] /\ r \in Resultados
    BY ConstantesAssumption DEF IndReapertura, RAsDeSuActividad
  <2>3. \A x \in Planeaciones : r \in planeaciones[x].ras => x = p
    BY <2>1, <2>2 DEF IndReapertura, RAsDeSuActividad, Aislada, Exclusivo
  <2>4. resultados'[r] = resultados[r]
    BY <1>5, <2>1, <2>2, <2>3
  <2>5. QED
    BY <2>1, <2>4 DEF IndReapertura, AprobadaCerrada
<1>8. AutorizacionVigente'
  <2>1. SUFFICES ASSUME NEW x \in Planeaciones, NEW q \in Autorizan(x),
                        NEW r \in solicitudes[q].aprobados \cap planeaciones[x].ras,
                        Exclusivo(x, r)
                 PROVE  ~ Bloqueado(x, r)'
    BY <1>1, <1>3 DEF AutorizacionVigente, Exclusivo, Autorizan
  <2>2. ~ Bloqueado(x, r) /\ r \in Resultados
    BY <2>1 DEF IndReapertura, AutorizacionVigente, TypeOK, Planeacion
  <2>3. QED
    BY <1>1, <1>3, <1>4, <2>2 DEF Bloqueado
<1>9. VersionOficialUnica'
  BY <1>1, <1>2, <1>3 DEF IndReapertura, VersionOficialUnica, Aislada, Exclusivo
<1>10. QED
  BY <1>6, <1>7, <1>8, <1>9 DEF IndReapertura

\* Approval locks every complete planning, closes its requests and makes one
\* version of each of its RAs official.
LEMMA PasoAprobar ==
    ASSUME IndReapertura, TypeOK', NEW v \in Version, AprobarEntrega(v)
    PROVE  IndReapertura'
<1> DEFINE plans == Completas(planeaciones)
           nuevas == {[plan |-> x[1], ra |-> x[2], version |-> v, oficial |-> TRUE] :
                        x \in {y \in plans \X Resultados : y[2] \in planeaciones[y[1]].ras}}
<1>1. /\ \A x \in plans : planeaciones'[x].approval = "APPROVED"
      /\ \A x \in Planeaciones \ plans : planeaciones'[x] = planeaciones[x]
      /\ \A x \in Planeaciones : /\ planeaciones'[x].estado = planeaciones[x].estado
                                 /\ planeaciones'[x].ras = planeaciones[x].ras
  <2>1. planeaciones \in [Planeaciones -> Planeacion]
    BY DEF IndReapertura, TypeOK
  <2>2. \A x \in Planeaciones : planeaciones'[x] =
           IF x \in plans
           THEN [planeaciones[x] EXCEPT !.review = "APPROVED", !.approval = "APPROVED",
                                        !.edit = "LOCKED"]
           ELSE planeaciones[x]
    BY DEF AprobarEntrega
  <2>3. plans \subseteq Planeaciones
    BY DEF Completas
  <2> HIDE DEF plans
  <2>4. QED
    BY <2>1, <2>2, <2>3 DEF Planeacion
<1>2. \A x \in Planeaciones : Existe(x)' <=> Existe(x)
  BY <1>1 DEF Existe
<1>3. \A x \in plans : x \in Planeaciones /\ planeaciones[x].estado = "COMPLETO"
  BY DEF Completas
<1>4. \A r \in Resultados : IF \E x \in plans : r \in planeaciones[x].ras
                            THEN resultados'[r].edit = "LOCKED"
                            ELSE resultados'[r] = resultados[r]
  BY DEF AprobarEntrega, RAAprobado
<1>5. \A x \in Planeaciones \ plans : \A r \in Resultados : raLocks'[x][r] = raLocks[x][r]
  BY DEF AprobarEntrega
<1>6. \A q \in Solicitudes :
         /\ solicitudes'[q].plan = solicitudes[q].plan
         /\ solicitudes'[q].aprobados = solicitudes[q].aprobados
         /\ solicitudes'[q].estado # "AUSENTE" => solicitudes[q].estado # "AUSENTE"
         /\ solicitudes'[q].estado \in Abierta =>
               solicitudes[q].estado \in Abierta /\ solicitudes[q].plan \notin plans
  BY DEF AprobarEntrega, IndReapertura, TypeOK, Solicitud, Abierta
<1>7. SolicitudConPlaneacion' /\ RAsDeSuActividad' /\ NuevaSinAprobar'
  <2>1. \A x \in Planeaciones : planeaciones'[x].estado = "AUSENTE" => x \notin plans
    BY <1>1, <1>3
  <2>2. QED
    BY <1>1, <1>2, <1>6, <2>1 DEF IndReapertura, TypeOK, SolicitudConPlaneacion, RAsDeSuActividad,
                                  NuevaSinAprobar
<1>8. AprobadaCerrada'
  <2>1. SUFFICES ASSUME NEW p \in Planeaciones, Existe(p), planeaciones'[p].approval = "APPROVED",
                        Aislada(p), NEW r \in planeaciones[p].ras
                 PROVE  resultados'[r].edit = "LOCKED"
    BY <1>1, <1>2 DEF AprobadaCerrada, Aislada, Exclusivo
  <2>2. r \in Resultados
    BY <2>1 DEF IndReapertura, TypeOK, Planeacion
  <2>3. CASE p \in plans
    BY <1>4, <2>1, <2>2, <2>3
  <2>4. CASE p \notin plans
    <3>1. resultados[r].edit = "LOCKED"
      BY <1>1, <2>1, <2>4 DEF IndReapertura, AprobadaCerrada
    <3>2. QED
      BY <1>4, <2>2, <3>1
  <2>5. QED
    BY <2>3, <2>4
<1>9. AutorizacionVigente'
  <2>1. SUFFICES ASSUME NEW x \in Planeaciones, NEW q \in Autorizan(x)',
                        NEW r \in solicitudes'[q].aprobados \cap planeaciones'[x].ras,
                        Exclusivo(x, r)
                 PROVE  ~ Bloqueado(x, r)'
    BY DEF AutorizacionVigente, Exclusivo
  <2>2. q \in Autorizan(x) /\ x \notin plans
    BY <1>6, <2>1 DEF Autorizan
  <2>3. r \in solicitudes[q].aprobados \cap planeaciones[x].ras
    BY <1>1, <1>6, <2>1, <2>2 DEF Autorizan
  <2>4. ~ Bloqueado(x, r) /\ r \in Resultados
    BY <2>1, <2>2, <2>3 DEF IndReapertura, AutorizacionVigente, TypeOK, Planeacion
  <2>5. \A y \in plans : r \notin planeaciones[y].ras
    BY <1>3, <2>1, <2>2 DEF IndReapertura, RAsDeSuActividad, Exclusivo
  <2>6. resultados'[r] = resultados[r]
    BY <1>4, <2>4, <2>5
  <2>7. QED
    BY <1>1, <1>5, <2>2, <2>4, <2>6 DEF Bloqueado
<1>10. VersionOficialUnica'
  <2> DEFINE De(tabla, p, r) == {x \in tabla : x.plan = p /\ x.ra = r /\ x.oficial}
  <2>1. versiones' = RetirarOficiales(plans) \cup nuevas
    BY DEF AprobarEntrega
  <2>2. ASSUME NEW p \in plans, NEW r \in Resultados
        PROVE  /\ \A x, y \in De(versiones', p, r) : x = y
               /\ r \in planeaciones[p].ras => De(versiones', p, r) # {}
    <3>1. \A x \in RetirarOficiales(plans) : ~ (x.plan = p /\ x.oficial)
      BY DEF RetirarOficiales, IndReapertura, TypeOK, VersionRA
    <3>2. \A x \in nuevas : x.plan = p /\ x.ra = r =>
             x = [plan |-> p, ra |-> r, version |-> v, oficial |-> TRUE]
      OBVIOUS
    <3>3. r \in planeaciones[p].ras =>
             [plan |-> p, ra |-> r, version |-> v, oficial |-> TRUE] \in nuevas
      <4> DEFINE par == <<p, r>>
      <4>1. par \in plans \X Resultados /\ par[1] = p /\ par[2] = r
        BY <2>2
      <4> HIDE DEF par
      <4>2. r \in planeaciones[p].ras =>
               par \in {y \in plans \X Resultados : y[2] \in planeaciones[y[1]].ras}
        BY <4>1
      <4>3. QED
        BY <4>1, <4>2
    <3> DEFINE oficial == [plan |-> p, ra |-> r, version |-> v, oficial |-> TRUE]
    <3>4. oficial.plan = p /\ oficial.ra = r /\ oficial.oficial
      OBVIOUS
    <3> HIDE DEF nuevas, plans, oficial
    <3>5. \A x \in De(versiones', p, r) : x = oficial
      BY <2>1, <3>1, <3>2 DEF oficial
    <3>6. r \in planeaciones[p].ras => oficial \in De(versiones', p, r)
      BY <2>1, <3>3, <3>4 DEF oficial
    <3>7. QED
      BY <3>5, <3>6
  <2>3. ASSUME NEW p \in Planeaciones \ plans, NEW r \in Resultados
        PROVE  De(versiones', p, r) = De(versiones, p, r)
    <3>1. ASSUME NEW x \in nuevas PROVE x.plan # p
      <4>1. PICK y \in plans \X Resultados :
               x = [plan |-> y[1], ra |-> y[2], version |-> v, oficial |-> TRUE]
        OBVIOUS
      <4>2. y[1] \in plans
        BY <4>1
      <4>3. QED
        BY <2>3, <4>1, <4>2
    <3>2. ASSUME NEW x \in RetirarOficiales(plans), x.plan = p PROVE x \in versiones
      <4>1. PICK y \in versiones :
               x = IF y.plan \in plans THEN [y EXCEPT !.oficial = FALSE] ELSE y
        BY DEF RetirarOficiales
      <4>2. y \in VersionRA
        BY DEF IndReapertura, TypeOK
      <4>3. x.plan = y.plan
        BY <4>1, <4>2 DEF VersionRA
      <4>4. QED
        BY <2>3, <3>2, <4>1, <4>3
    <3>3. \A x \in versiones : x.plan = p => x \in RetirarOficiales(plans)
      BY <2>3 DEF RetirarOficiales
    <3>4. QED
      BY <2>1, <3>1, <3>2, <3>3
  <2>4. VersionOficialUnica
    BY DEF IndReapertura
  <2>5. ASSUME NEW p \in Planeaciones, NEW r \in Resultados
        PROVE  /\ \A x, y \in De(versiones', p, r) : x = y
               /\ /\ Existe(p)' /\ planeaciones'[p].approval = "APPROVED" /\ Aislada(p)
                  /\ r \in planeaciones'[p].ras
                  => De(versiones', p, r) # {}
    <3>1. CASE p \in plans
      BY <1>1, <2>2, <3>1
    <3>2. CASE p \notin plans
      <4>1. /\ \A x, y \in De(versiones, p, r) : x = y
            /\ /\ Existe(p) /\ planeaciones[p].approval = "APPROVED" /\ Aislada(p)
               /\ r \in planeaciones[p].ras
               => De(versiones, p, r) # {}
        BY <2>4 DEF VersionOficialUnica
      <4>2. QED
        BY <1>1, <1>2, <2>3, <3>2, <4>1
    <3>3. QED
      BY <3>1, <3>2
  <2>6. QED
    BY <2>5 DEF VersionOficialUnica, Aislada, Exclusivo
<1>11. QED
  BY <1>7, <1>8, <1>9, <1>10 DEF IndReapertura

-----------------------------------------------------------------------------
(* Reopening *)

\* A new request refers to an existing planning and opens nothing yet.
LEMMA PasoCrearSolicitud ==
    ASSUME IndReapertura, TypeOK', NEW q \in Solicitudes, NEW p \in Planeaciones,
           NEW ras \in SUBSET Resultados, CrearSolicitud(q, p, ras)
    PROVE  IndReapertura'
<1>1. /\ \A x \in Solicitudes \ {q} : solicitudes'[x] = solicitudes[x]
      /\ solicitudes'[q].estado = "PENDING"
      /\ solicitudes'[q].plan = p
      /\ Existe(p)
  BY DEF CrearSolicitud, IndReapertura, TypeOK
<1>2. UNCHANGED <<planeaciones, resultados, raLocks, versiones>>
  BY DEF CrearSolicitud
<1>3. SolicitudConPlaneacion'
  BY <1>1, <1>2 DEF IndReapertura, SolicitudConPlaneacion, Existe
<1>4. \A x \in Planeaciones : Autorizan(x)' \subseteq Autorizan(x)
  BY <1>1 DEF Autorizan, Abierta
<1>5. AutorizacionVigente'
  <2>1. SUFFICES ASSUME NEW x \in Planeaciones, NEW y \in Autorizan(x)',
                        NEW r \in solicitudes'[y].aprobados \cap planeaciones[x].ras,
                        Exclusivo(x, r)
                 PROVE  ~ Bloqueado(x, r)
    BY <1>2 DEF AutorizacionVigente, Exclusivo, Bloqueado
  <2>2. y \in Autorizan(x) /\ solicitudes'[y] = solicitudes[y]
    BY <1>1, <1>4, <2>1 DEF Autorizan, Abierta
  <2>3. QED
    BY <2>1, <2>2 DEF IndReapertura, AutorizacionVigente
<1>6. RAsDeSuActividad' /\ NuevaSinAprobar' /\ AprobadaCerrada' /\ VersionOficialUnica'
  BY <1>2 DEF IndReapertura, RAsDeSuActividad, NuevaSinAprobar, AprobadaCerrada,
              VersionOficialUnica, Existe, Aislada, Exclusivo
<1>7. QED
  BY <1>3, <1>5, <1>6 DEF IndReapertura

\* A rejected request never opened anything.
LEMMA PasoRechazar ==
    ASSUME IndReapertura, TypeOK', NEW q \in Solicitudes, RechazarSolicitud(q)
    PROVE  IndReapertura'
<1>1. \A x \in Solicitudes : /\ solicitudes'[x].plan = solicitudes[x].plan
                             /\ solicitudes'[x].aprobados = solicitudes[x].aprobados
                             /\ solicitudes'[x].estado # "AUSENTE" =>
                                   solicitudes[x].estado # "AUSENTE"
                             /\ solicitudes'[x].estado \in Abierta =>
                                   solicitudes[x].estado \in Abierta
  BY DEF RechazarSolicitud, IndReapertura, TypeOK, Solicitud, Abierta
<1>2. UNCHANGED <<planeaciones, resultados, raLocks, versiones>>
  BY DEF RechazarSolicitud
<1>3. SolicitudConPlaneacion'
  BY <1>1, <1>2 DEF IndReapertura, SolicitudConPlaneacion, Existe
<1>4. AutorizacionVigente'
  <2>1. \A x \in Planeaciones : Autorizan(x)' \subseteq Autorizan(x)
    BY <1>1 DEF Autorizan
  <2>2. \A y \in Solicitudes : solicitudes'[y].aprobados = solicitudes[y].aprobados
    BY <1>1
  <2>3. \A x \in Planeaciones : \A r : Bloqueado(x, r)' <=> Bloqueado(x, r)
    BY <1>2 DEF Bloqueado
  <2>4. \A x \in Planeaciones : Autorizan(x) \subseteq Solicitudes
    BY DEF Autorizan
  <2>5. QED
    BY <1>2, <2>1, <2>2, <2>3, <2>4 DEF IndReapertura, AutorizacionVigente, Exclusivo
<1>5. RAsDeSuActividad' /\ NuevaSinAprobar' /\ AprobadaCerrada' /\ VersionOficialUnica'
  BY <1>2 DEF IndReapertura, RAsDeSuActividad, NuevaSinAprobar, AprobadaCerrada,
              VersionOficialUnica, Existe, Aislada, Exclusivo
<1>6. QED
  BY <1>3, <1>4, <1>5 DEF IndReapertura

\* Approving a request opens the RAs it names, closes only RAs that no open
\* request of the planning opened, and leaves other plannings' own RAs alone.
LEMMA PasoAprobarSolicitud ==
    ASSUME IndReapertura, TypeOK', NEW q \in Solicitudes, NEW ras \in SUBSET Resultados,
           AprobarSolicitud(q, ras)
    PROVE  IndReapertura'
<1> DEFINE p == solicitudes[q].plan
           abre == ras \cap planeaciones[p].ras
           cierra == NoAutorizados(p, ras)
           sinVersion == {r \in abre : \A x \in versiones : ~ (x.plan = p /\ x.ra = r)}
<1>1. p \in Planeaciones /\ Existe(p) /\ solicitudes[q].estado = "PENDING"
  BY DEF AprobarSolicitud, IndReapertura, TypeOK, SolicitudConPlaneacion
<1>2. /\ \A x \in Planeaciones \ {p} : planeaciones'[x] = planeaciones[x]
      /\ planeaciones'[p].estado = planeaciones[p].estado
      /\ planeaciones'[p].ras = planeaciones[p].ras
      /\ planeaciones'[p].approval = "PREVIOUS_VERSION_APPROVED"
      /\ planeaciones'[p].edit = "EDITABLE"
  <2>1. planeaciones \in [Planeaciones -> Planeacion]
    BY DEF IndReapertura, TypeOK
  <2>2. planeaciones' = [planeaciones EXCEPT ![p] =
           [@ EXCEPT !.review = "CHANGES_ALLOWED",
                     !.approval = "PREVIOUS_VERSION_APPROVED", !.edit = "EDITABLE"]]
    BY DEF AprobarSolicitud
  <2> HIDE DEF p
  <2>3. QED
    BY <1>1, <2>1, <2>2 DEF Planeacion
<1>3. \A x \in Planeaciones : Existe(x)' <=> Existe(x)
  BY <1>2 DEF Existe
<1>4. /\ \A x \in Solicitudes \ {q} : solicitudes'[x] = solicitudes[x]
      /\ solicitudes'[q].plan = p
      /\ solicitudes'[q].aprobados = ras
  <2>1. solicitudes \in [Solicitudes -> Solicitud]
    BY DEF IndReapertura, TypeOK
  <2>2. solicitudes' = [solicitudes EXCEPT ![q] =
           [@ EXCEPT !.estado = IF ras = solicitudes[q].pedidos
                                THEN "APPROVED" ELSE "PARTIALLY_APPROVED",
                     !.aprobados = ras]]
    BY DEF AprobarSolicitud
  <2>3. QED
    BY <2>1, <2>2 DEF Solicitud
<1>5. /\ abre \subseteq planeaciones[p].ras
      /\ cierra \subseteq planeaciones[p].ras
      /\ abre \cap cierra = {}
      /\ \A r \in cierra : resultados[r].edit # "EDITABLE"
  BY DEF NoAutorizados
<1>6. \A r \in Resultados :
         IF r \in abre
         THEN resultados'[r] = [resultados[r] EXCEPT !.edit = "EDITABLE", !.reabierto = TRUE]
         ELSE IF r \in cierra
         THEN resultados'[r] = [resultados[r] EXCEPT !.edit = "LOCKED"]
         ELSE resultados'[r] = resultados[r]
  BY <1>5 DEF AprobarSolicitud
<1>7. /\ \A x \in Planeaciones \ {p} : raLocks'[x] = raLocks[x]
      /\ \A r \in Resultados \ (abre \cup cierra) : raLocks'[p][r] = raLocks[p][r]
  BY <1>1, <1>5 DEF AprobarSolicitud, IndReapertura, TypeOK
<1>8. versiones' = versiones \cup
         {[plan |-> p, ra |-> r, version |-> VersionPrevia(r), oficial |-> TRUE] : r \in sinVersion}
  BY DEF AprobarSolicitud
<1>9. resultados \in [Resultados -> Resultado]
  BY DEF IndReapertura, TypeOK
<1>10. \A x \in Planeaciones \ {p} : \A r : Exclusivo(x, r) => r \notin planeaciones[p].ras
  BY <1>1 DEF IndReapertura, RAsDeSuActividad, Exclusivo
<1> HIDE DEF p, abre, cierra, sinVersion
<1>11. SolicitudConPlaneacion' /\ RAsDeSuActividad' /\ NuevaSinAprobar'
  <2>1. SolicitudConPlaneacion'
    BY <1>1, <1>3, <1>4 DEF IndReapertura, TypeOK, SolicitudConPlaneacion
  <2>2. RAsDeSuActividad'
    BY <1>1, <1>2 DEF IndReapertura, RAsDeSuActividad
  <2>3. NuevaSinAprobar'
    BY <1>1, <1>2 DEF IndReapertura, NuevaSinAprobar, Existe
  <2>4. QED
    BY <2>1, <2>2, <2>3
<1>12. AprobadaCerrada'
  <2>1. SUFFICES ASSUME NEW x \in Planeaciones, Existe(x)', Aislada(x),
                        planeaciones'[x].approval = "APPROVED", NEW r \in planeaciones'[x].ras
                 PROVE  resultados'[r].edit = "LOCKED"
    BY DEF AprobadaCerrada, Aislada, Exclusivo
  <2>2. x # p /\ planeaciones'[x] = planeaciones[x] /\ Existe(x)
    BY <1>2, <1>3, <2>1
  <2>3. r \in planeaciones[x].ras /\ r \in Resultados /\ Exclusivo(x, r)
    BY <2>1, <2>2 DEF IndReapertura, TypeOK, Planeacion, RAsDeSuActividad, Aislada
  <2>4. resultados[r].edit = "LOCKED"
    BY <2>1, <2>2, <2>3 DEF IndReapertura, AprobadaCerrada
  <2>5. r \notin abre /\ r \notin cierra
    BY <1>5, <1>10, <2>2, <2>3
  <2>6. QED
    BY <1>6, <2>3, <2>4, <2>5
<1>13. AutorizacionVigente'
  <2>1. SUFFICES ASSUME NEW x \in Planeaciones, NEW y \in Autorizan(x)',
                        NEW r \in solicitudes'[y].aprobados \cap planeaciones'[x].ras,
                        Exclusivo(x, r)
                 PROVE  ~ Bloqueado(x, r)'
    BY DEF AutorizacionVigente, Exclusivo
  <2>2. r \in planeaciones[x].ras /\ r \in Resultados
    BY <1>2, <2>1 DEF IndReapertura, TypeOK, Planeacion
  <2>3. CASE x # p
    <3>1. y # q /\ y \in Autorizan(x) /\ solicitudes'[y] = solicitudes[y]
      BY <1>4, <2>1, <2>3 DEF Autorizan
    <3>2. ~ Bloqueado(x, r)
      BY <2>1, <2>2, <3>1 DEF IndReapertura, AutorizacionVigente
    <3>3. r \notin abre /\ r \notin cierra
      BY <1>5, <1>10, <2>1, <2>2, <2>3
    <3>4. resultados'[r] = resultados[r] /\ raLocks'[x] = raLocks[x]
             /\ planeaciones'[x] = planeaciones[x]
      BY <1>2, <1>6, <1>7, <2>2, <2>3, <3>3
    <3>5. QED
      BY <3>2, <3>4 DEF Bloqueado
  <2>4. CASE x = p /\ r \in abre
    <3>1. resultados'[r].edit = "EDITABLE" /\ resultados'[r].reabierto
      BY <1>6, <1>9, <2>2, <2>4 DEF Resultado
    <3>2. QED
      BY <3>1 DEF Bloqueado
  <2>5. CASE x = p /\ r \notin abre
    <3>1. y # q
      BY <1>4, <2>1, <2>2, <2>5 DEF abre
    <3>2. y \in Autorizan(x) /\ solicitudes'[y] = solicitudes[y]
      BY <1>4, <2>1, <3>1 DEF Autorizan
    <3>3. ~ Bloqueado(p, r)
      BY <2>1, <2>2, <2>5, <3>2 DEF IndReapertura, AutorizacionVigente
    <3>4. r \notin cierra
      BY <1>5, <1>9, <2>2, <3>3 DEF Bloqueado, Resultado, EstadoEdicion
    <3>5. /\ resultados'[r] = resultados[r]
          /\ raLocks'[p][r] = raLocks[p][r]
          /\ planeaciones'[p].edit = "EDITABLE"
      BY <1>2, <1>6, <1>7, <2>2, <2>5, <3>4
    <3>6. QED
      BY <2>5, <3>3, <3>5 DEF Bloqueado
  <2>6. QED
    BY <2>3, <2>4, <2>5
<1>14. VersionOficialUnica'
  <2> DEFINE De(tabla, x, r) == {y \in tabla : y.plan = x /\ y.ra = r /\ y.oficial}
             previas == {[plan |-> p, ra |-> r, version |-> VersionPrevia(r), oficial |-> TRUE] :
                            r \in sinVersion}
  <2>1. versiones' = versiones \cup previas
    BY <1>8
  <2>2. \A y \in previas : y.plan = p /\ y.ra \in sinVersion
           /\ y = [plan |-> p, ra |-> y.ra, version |-> VersionPrevia(y.ra), oficial |-> TRUE]
    OBVIOUS
  <2>3. \A r \in sinVersion : \A x \in versiones : ~ (x.plan = p /\ x.ra = r)
    BY DEF sinVersion
  <2> HIDE DEF previas
  <2>4. ASSUME NEW x \in Planeaciones, NEW r \in Resultados
        PROVE  \A y, z \in De(versiones', x, r) : y = z
    <3>1. \A y, z \in De(versiones, x, r) : y = z
      BY DEF IndReapertura, VersionOficialUnica
    <3>2. CASE x = p /\ r \in sinVersion
      <4>1. \A y \in De(versiones', x, r) : y \in previas /\ y.ra = r
        BY <2>1, <2>3, <3>2
      <4>2. \A y \in De(versiones', x, r) :
               y = [plan |-> p, ra |-> r, version |-> VersionPrevia(r), oficial |-> TRUE]
        BY <2>2, <4>1
      <4> HIDE DEF De
      <4>3. QED
        BY <4>2
    <3>3. CASE ~ (x = p /\ r \in sinVersion)
      BY <2>1, <2>2, <3>1, <3>3
    <3>4. QED
      BY <3>2, <3>3
  <2>5. ASSUME NEW x \in Planeaciones, NEW r \in Resultados, Existe(x)', Aislada(x),
               planeaciones'[x].approval = "APPROVED", r \in planeaciones'[x].ras
        PROVE  De(versiones', x, r) # {}
    <3>1. Existe(x) /\ planeaciones'[x] = planeaciones[x]
      BY <1>2, <1>3, <2>5
    <3>2. De(versiones, x, r) # {}
      BY <2>5, <3>1 DEF IndReapertura, VersionOficialUnica
    <3>3. QED
      BY <2>1, <3>2
  <2>6. QED
    BY <2>4, <2>5 DEF VersionOficialUnica, Aislada, Exclusivo
<1>15. QED
  BY <1>11, <1>12, <1>13, <1>14 DEF IndReapertura

-----------------------------------------------------------------------------
(* Pending requests *)

\* A pending request is new, or is the request it was.
PendientesIguales ==
    \A q \in Solicitudes : solicitudes'[q].estado = "PENDING" => solicitudes'[q] = solicitudes[q]

\* Only the creation of a request makes one pending.
LEMMA PasoPendientes ==
    ASSUME TypeOK, [Next]_vars
    PROVE  \/ PendientesIguales
           \/ \E q \in Solicitudes, p \in Planeaciones, ras \in SUBSET Resultados :
                 CrearSolicitud(q, p, ras)
<1>0. solicitudes \in [Solicitudes -> Solicitud]
  BY DEF TypeOK
<1>a. ASSUME UNCHANGED solicitudes PROVE PendientesIguales
  BY <1>a DEF PendientesIguales
<1>b. ASSUME NEW plans, NEW doc, NEW alDia, NEW quedaAlDia,
             Enviar(plans, doc, alDia, quedaAlDia)
      PROVE  PendientesIguales
  BY <1>0, <1>b DEF Enviar, PendientesIguales, Solicitud
<1>1. CASE PlaneacionNext
  <2>1. ASSUME NEW p \in Planeaciones, EliminarPlaneacion(p) PROVE PendientesIguales
    <3>1. \A q \in Solicitudes :
             [solicitudes[q] EXCEPT !.estado = "AUSENTE", !.plan = Nada,
                                    !.pedidos = {}, !.aprobados = {}].estado = "AUSENTE"
      BY <1>0 DEF Solicitud
    <3>2. QED
      BY <2>1, <3>1 DEF EliminarPlaneacion, PendientesIguales
  <2>2. ASSUME NEW p, NEW ras, NEW c, CrearPlaneacion(p, ras, c) \/ GuardarBorrador(p, ras, c)
        PROVE  UNCHANGED solicitudes
    BY <2>2 DEF CrearPlaneacion, GuardarBorrador
  <2>3. ASSUME NEW p, ConfirmarYGenerar(p) \/ GenerarIndividual(p) \/ EliminarPlaneacionFalla(p)
        PROVE  UNCHANGED solicitudes
    BY <2>3 DEF ConfirmarYGenerar, GenerarIndividual, EliminarPlaneacionFalla
  <2>4. CASE GuardarConfiguracion
    BY <2>4, <1>a DEF GuardarConfiguracion
  <2>5. QED
    BY <1>1, <1>a, <2>1, <2>2, <2>3, <2>4 DEF PlaneacionNext
<1>2. CASE DocumentoNext
  <2>1. ASSUME NEW listos, GenerarConsolidado(listos) \/ GenerarConsolidadoFalla(listos)
        PROVE  UNCHANGED solicitudes
    BY <2>1 DEF GenerarConsolidado, GenerarConsolidadoFalla
  <2>2. ASSUME NEW listos, GenerarYEnviarRechazado(listos) \/ DescargarRegenerando(listos)
        PROVE  UNCHANGED solicitudes
    BY <2>2 DEF GenerarYEnviarRechazado, DescargarRegenerando
  <2>3. ASSUME NEW listos, GenerarYEnviar(listos) PROVE PendientesIguales
    BY <2>3, <1>b DEF GenerarYEnviar
  <2>4. QED
    BY <1>2, <1>a, <2>1, <2>2, <2>3 DEF DocumentoNext
<1>3. CASE RevisionNext
  <2>1. CASE EnviarARevision
    BY <2>1, <1>b DEF EnviarARevision
  <2>2. ASSUME NEW v, IniciarRevision(v) \/ VerificarDescargaInvalida(v) \/ SolicitarAjustes(v)
        PROVE  UNCHANGED solicitudes
    BY <2>2 DEF IniciarRevision, VerificarDescargaInvalida, SolicitarAjustes
  <2>3. ASSUME NEW v, AprobarEntrega(v) PROVE PendientesIguales
    BY <1>0, <2>3 DEF AprobarEntrega, PendientesIguales, Solicitud
  <2>4. ASSUME NEW o, NEW v, CrearObservacion(o, v) PROVE UNCHANGED solicitudes
    BY <2>4 DEF CrearObservacion
  <2>5. ASSUME NEW o, ReportarAjuste(o) \/ ResolverObservacion(o) PROVE UNCHANGED solicitudes
    BY <2>5 DEF ReportarAjuste, ResolverObservacion
  <2>6. QED
    BY <1>3, <1>a, <2>1, <2>2, <2>3, <2>4, <2>5 DEF RevisionNext
<1>4. CASE ReaperturaNext
  <2>1. ASSUME NEW q \in Solicitudes, NEW ras, AprobarSolicitud(q, ras)
        PROVE  PendientesIguales
    <3>1. \A e \in {"APPROVED", "PARTIALLY_APPROVED"} :
             [solicitudes[q] EXCEPT !.estado = e, !.aprobados = ras].estado # "PENDING"
      BY <1>0 DEF Solicitud
    <3>2. \E e \in {"APPROVED", "PARTIALLY_APPROVED"} : solicitudes' =
             [solicitudes EXCEPT ![q] = [@ EXCEPT !.estado = e, !.aprobados = ras]]
      BY <2>1 DEF AprobarSolicitud
    <3>3. QED
      BY <1>0, <3>1, <3>2 DEF PendientesIguales
  <2>2. ASSUME NEW q \in Solicitudes, RechazarSolicitud(q) PROVE PendientesIguales
    BY <1>0, <2>2 DEF RechazarSolicitud, PendientesIguales, Solicitud
  <2>3. QED
    BY <1>4, <2>1, <2>2 DEF ReaperturaNext
<1>5. CASE UNCHANGED vars
  BY <1>5, <1>a DEF vars
<1>6. QED
  BY <1>1, <1>2, <1>3, <1>4, <1>5 DEF Next

\* A new request asks for no RA that another one of its planning waits for.
LEMMA PasoPendienteUnico == TypeOK /\ PendienteUnico /\ [Next]_vars => PendienteUnico'
<1> SUFFICES ASSUME TypeOK, PendienteUnico, [Next]_vars PROVE PendienteUnico'
  OBVIOUS
<1>1. CASE PendientesIguales
  BY <1>1 DEF PendientesIguales, PendienteUnico
<1>2. ASSUME NEW q \in Solicitudes, NEW p \in Planeaciones, NEW ras \in SUBSET Resultados,
             CrearSolicitud(q, p, ras)
      PROVE  PendienteUnico'
  <2>1. /\ \A x \in Solicitudes \ {q} : solicitudes'[x] = solicitudes[x]
        /\ solicitudes'[q].plan = p
        /\ solicitudes'[q].pedidos = ras
    BY <1>2 DEF CrearSolicitud, TypeOK
  <2>2. \A x \in Solicitudes \ {q} :
           solicitudes[x].plan = p /\ solicitudes[x].estado = "PENDING" =>
               solicitudes[x].pedidos \cap ras = {}
    BY <1>2 DEF CrearSolicitud, SinPendiente
  <2>3. QED
    BY <2>1, <2>2 DEF PendienteUnico
<1>3. QED
  BY <1>1, <1>2, PasoPendientes

-----------------------------------------------------------------------------
(* The theorems *)

\* The program starts with no planning, request or version.
LEMMA InitReapertura == Init => IndReapertura
<1> SUFFICES ASSUME Init PROVE IndReapertura
  OBVIOUS
<1>1. TypeOK
  BY InitTipo
<1>2. SolicitudConPlaneacion /\ RAsDeSuActividad /\ NuevaSinAprobar
  BY DEF Init, SolicitudConPlaneacion, RAsDeSuActividad, NuevaSinAprobar
<1>3. AprobadaCerrada /\ AutorizacionVigente /\ VersionOficialUnica
  BY DEF Init, AprobadaCerrada, AutorizacionVigente, VersionOficialUnica, Autorizan, Abierta,
         Existe
<1>4. QED
  BY <1>1, <1>2, <1>3 DEF IndReapertura

\* Every step keeps the invariant.
LEMMA PasoReapertura == IndReapertura /\ [Next]_vars => IndReapertura'
<1> SUFFICES ASSUME IndReapertura, [Next]_vars PROVE IndReapertura'
  OBVIOUS
<1>0. TypeOK' /\ planeaciones \in [Planeaciones -> Planeacion]
  BY PasoTipo DEF IndReapertura, TypeOK
<1>a. ASSUME UNCHANGED <<planeaciones, resultados, raLocks, solicitudes, versiones>>
      PROVE  IndReapertura'
  <2>1. MismaVista(planeaciones')
    BY <1>a DEF MismaVista, Existe
  <2>2. QED
    BY <1>0, <1>a, <2>1, PasoNulo DEF EfectoNulo
<1>b. ASSUME NEW p \in Planeaciones, Existe(p),
             planeaciones' = [planeaciones EXCEPT ![p].estado = "COMPLETO"],
             UNCHANGED <<resultados, raLocks, solicitudes, versiones>>
      PROVE  IndReapertura'
  <2>1. MismaVista(planeaciones')
    BY <1>0, <1>b DEF MismaVista, Existe, Planeacion
  <2>2. QED
    BY <1>0, <1>b, <2>1, PasoNulo DEF EfectoNulo
<1>1. CASE PlaneacionNext
  <2>1. ASSUME NEW p \in Planeaciones, ConfirmarYGenerar(p) \/ GenerarIndividual(p)
        PROVE  IndReapertura'
    BY <2>1, <1>b DEF ConfirmarYGenerar, GenerarIndividual
  <2>2. ASSUME NEW p \in Planeaciones, EliminarPlaneacionFalla(p)
        PROVE  IndReapertura'
    BY <2>2, <1>a DEF EliminarPlaneacionFalla
  <2>3. CASE GuardarConfiguracion
    BY <2>3, <1>a DEF GuardarConfiguracion
  <2>4. QED
    BY <1>0, <1>1, <2>1, <2>2, <2>3, PasoCrear, PasoGuardar, PasoEliminar DEF PlaneacionNext
<1>2. CASE DocumentoNext
  <2>1. PICK listos \in SUBSET Planeaciones :
           \/ GenerarConsolidado(listos) \/ GenerarConsolidadoFalla(listos)
           \/ GenerarYEnviar(listos) \/ GenerarYEnviarRechazado(listos)
           \/ DescargarRegenerando(listos)
    BY <1>2 DEF DocumentoNext
  <2>2. listos \subseteq Borradores(planeaciones) =>
           MismaVista(ConBorradoresConfirmados(listos))
    BY ConfirmarNulo DEF IndReapertura
  <2>3. CASE GenerarConsolidado(listos)
    BY <1>0, <2>2, <2>3, PasoNulo DEF GenerarConsolidado, PuedeGenerar, EfectoNulo
  <2>4. CASE GenerarConsolidadoFalla(listos)
    BY <1>0, <2>2, <2>4, PasoNulo DEF GenerarConsolidadoFalla, EfectoNulo
  <2>5. CASE GenerarYEnviar(listos)
    <3> DEFINE plans == ConBorradoresConfirmados(listos)
    <3>1. plans \in [Planeaciones -> Planeacion]
      BY ConfirmadosTipo, <1>0
    <3>2. MismaVista(plans) /\ Enviar(plans, DocDe(plans), TRUE, TRUE)
      BY <2>2, <2>5 DEF GenerarYEnviar, PuedeGenerar
    <3>3. QED
      BY <1>0, <3>1, <3>2, PasoEnviar
  <2>6. CASE GenerarYEnviarRechazado(listos)
    BY <2>6, <1>a DEF GenerarYEnviarRechazado
  <2>7. CASE DescargarRegenerando(listos)
    BY <2>7, <1>a DEF DescargarRegenerando
  <2>8. QED
    BY <2>1, <2>3, <2>4, <2>5, <2>6, <2>7
<1>3. CASE RevisionNext
  <2>1. CASE EnviarARevision
    <3>1. MismaVista(planeaciones)
      BY DEF MismaVista, Existe
    <3>2. Enviar(planeaciones, config.doc, config.alDia, FALSE)
      BY <2>1 DEF EnviarARevision
    <3>3. QED
      BY <1>0, <3>1, <3>2, PasoEnviar
  <2>2. ASSUME NEW v \in Version, IniciarRevision(v) \/ VerificarDescargaInvalida(v)
        PROVE  IndReapertura'
    BY <2>2, <1>a DEF IniciarRevision, VerificarDescargaInvalida
  <2>3. ASSUME NEW o \in Observaciones, NEW v \in Version, CrearObservacion(o, v)
        PROVE  IndReapertura'
    BY <2>3, <1>a DEF CrearObservacion
  <2>4. ASSUME NEW o \in Observaciones, ReportarAjuste(o) \/ ResolverObservacion(o)
        PROVE  IndReapertura'
    BY <2>4, <1>a DEF ReportarAjuste, ResolverObservacion
  <2>5. QED
    BY <1>0, <1>3, <2>1, <2>2, <2>3, <2>4, PasoAjustes, PasoAprobar DEF RevisionNext
<1>4. CASE ReaperturaNext
  BY <1>0, <1>4, PasoCrearSolicitud, PasoAprobarSolicitud, PasoRechazar DEF ReaperturaNext
<1>5. CASE UNCHANGED vars
  BY <1>5, <1>a DEF vars
<1>6. QED
  BY <1>1, <1>2, <1>3, <1>4, <1>5 DEF Next

\* The invariant holds in every reachable state.
LEMMA InvarianteReapertura == Spec => []IndReapertura
BY InitReapertura, PasoReapertura, PTL DEF Spec

\* What an open request opened stays open for its planning: no submission,
\* decision, save or request of another planning closes it again.
THEOREM AutorizacionSiempreVigente == Spec => []AutorizacionVigente
<1>1. IndReapertura => AutorizacionVigente
  BY DEF IndReapertura
<1>2. QED
  BY InvarianteReapertura, <1>1, PTL

\* An approved planning that shares no RA is locked until a request opens it.
THEOREM AprobadaSiempreBloqueada == Spec => []AprobadaBloqueada
<1>1. IndReapertura => AprobadaBloqueada
  BY DEF IndReapertura, AprobadaCerrada, AprobadaBloqueada, Bloqueado
<1>2. QED
  BY InvarianteReapertura, <1>1, PTL

\* No RA of a planning ever has two official versions, and the RAs of an
\* approved planning that shares none have one.
THEOREM OficialSiempreUnica == Spec => []VersionOficialUnica
<1>1. IndReapertura => VersionOficialUnica
  BY DEF IndReapertura
<1>2. QED
  BY InvarianteReapertura, <1>1, PTL

\* No RA of a planning ever waits for the decision on two requests.
THEOREM PendienteSiempreUnico == Spec => []PendienteUnico
<1>1. Init => PendienteUnico
  BY DEF Init, PendienteUnico
<1>2. QED
  BY TipoCorrecto, <1>1, PasoPendienteUnico, PTL DEF Spec
=============================================================================
