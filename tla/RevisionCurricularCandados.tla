---------------------- MODULE RevisionCurricularCandados ----------------------
(* Proofs about the locks of RevisionCurricular over one step: who may unlock *)
(* an RA, what an edit does to the approvals, and why a delivery under review *)
(* shows the plannings as they are.                                           *)
EXTENDS RevisionCurricularReapertura, RevisionCurricularSeguridad

-----------------------------------------------------------------------------
(* The inductive invariant of the locks *)

\* An RA is marked as reopened only by a planning that left PENDING for good
\* and kept an entry of its own for the RA.
MarcaConEntrada ==
    \A p \in Planeaciones : \A r \in RAsDeActividad[p] :
        Exclusivo(p, r) /\ planeaciones[p].estado # "ELIMINADA" /\ resultados[r].reabierto =>
            /\ planeaciones[p].approval # "PENDING"
            /\ raLocks[p][r].edit # "SIN_ENTRADA"

EntradaMarcada ==
    \A p \in Planeaciones, r \in Resultados :
        raLocks[p][r].reabierto =>
            /\ planeaciones[p].approval # "PENDING"
            /\ raLocks[p][r].edit # "SIN_ENTRADA"

\* A planning never approved repeats the lock of its own RAs: this is what
\* keeps them locked when solicitar_ajustes opens the column.
CandadoDoble ==
    \A p \in Planeaciones : \A r \in planeaciones[p].ras :
        /\ Existe(p)
        /\ Exclusivo(p, r)
        /\ planeaciones[p].approval = "PENDING"
        /\ resultados[r].edit = "LOCKED"
        => raLocks[p][r].edit = "LOCKED"

\* A locked planning has an entry for each of its own RAs.
CandadoConEntrada ==
    \A p \in Planeaciones : \A r \in planeaciones[p].ras :
        Existe(p) /\ Exclusivo(p, r) /\ planeaciones[p].edit = "LOCKED" =>
            raLocks[p][r].edit # "SIN_ENTRADA"

NuevaAbierta ==
    \A p \in Planeaciones :
        planeaciones[p].estado = "AUSENTE" => planeaciones[p].edit = "EDITABLE"

IndCandados ==
    /\ MarcaConEntrada
    /\ EntradaMarcada
    /\ CandadoDoble
    /\ CandadoConEntrada
    /\ NuevaAbierta

\* What a step may do to the locks: an RA that opens was asked for by a request
\* that the step approves.
Desbloqueo ==
    \A p \in Planeaciones : \A r \in planeaciones[p].ras :
        Exclusivo(p, r) /\ Bloqueado(p, r) /\ ~ Bloqueado(p, r)' =>
            \E q \in Solicitudes : /\ solicitudes[q].estado = "PENDING"
                                   /\ solicitudes[q].plan = p
                                   /\ r \in solicitudes'[q].aprobados
                                   /\ solicitudes'[q].plan = p
                                   /\ solicitudes'[q].estado \in Abierta

SinDesbloqueo ==
    \A p \in Planeaciones : \A r \in planeaciones[p].ras :
        Exclusivo(p, r) /\ Bloqueado(p, r) => Bloqueado(p, r)'

-----------------------------------------------------------------------------
(* One lemma per operation that touches a lock *)

\* Steps that change no lock, no RA of a planning and no approval.
LEMMA CandadosQuietos ==
    ASSUME TypeOK, TypeOK', IndCandados, MismaVista(planeaciones'), UNCHANGED <<resultados, raLocks>>
    PROVE  IndCandados' /\ SinDesbloqueo
<1>1. \A p \in Planeaciones :
         /\ Existe(p)' <=> Existe(p)
         /\ planeaciones'[p].estado = "AUSENTE" <=> planeaciones[p].estado = "AUSENTE"
         /\ planeaciones'[p].estado = "ELIMINADA" <=> planeaciones[p].estado = "ELIMINADA"
         /\ planeaciones'[p].ras = planeaciones[p].ras
         /\ planeaciones'[p].approval = planeaciones[p].approval
         /\ planeaciones'[p].edit = planeaciones[p].edit
  BY DEF MismaVista, Existe, TypeOK, Planeacion, EstadoPlaneacion
<1>2. MarcaConEntrada' /\ EntradaMarcada' /\ NuevaAbierta'
  BY <1>1 DEF IndCandados, MarcaConEntrada, EntradaMarcada, NuevaAbierta, Exclusivo
<1>3. CandadoDoble' /\ CandadoConEntrada'
  BY <1>1 DEF IndCandados, CandadoDoble, CandadoConEntrada, Exclusivo
<1>4. SinDesbloqueo
  BY <1>1 DEF SinDesbloqueo, Bloqueado
<1>5. QED
  BY <1>2, <1>3, <1>4 DEF IndCandados

\* A new planning selects RAs whose column is open.
LEMMA CandadosCrear ==
    ASSUME IndReapertura, IndCandados, NEW p \in Planeaciones,
           NEW ras \in SUBSET RAsDeActividad[p], NEW c \in Contenidos, CrearPlaneacion(p, ras, c)
    PROVE  IndCandados' /\ SinDesbloqueo
<1>1. /\ \A x \in Planeaciones \ {p} : planeaciones'[x] = planeaciones[x]
      /\ planeaciones'[p].estado = "BORRADOR"
      /\ planeaciones'[p].ras = ras
      /\ planeaciones'[p].approval = planeaciones[p].approval
      /\ planeaciones'[p].edit = planeaciones[p].edit
  BY DEF CrearPlaneacion, IndReapertura, TypeOK, Planeacion
<1>2. /\ planeaciones[p].estado = "AUSENTE"
      /\ planeaciones[p].edit = "EDITABLE"
      /\ \A r \in ras : resultados[r].edit # "LOCKED"
      /\ UNCHANGED <<resultados, raLocks>>
  BY DEF CrearPlaneacion, IndCandados, NuevaAbierta
<1>3. \A x \in Planeaciones \ {p} : Existe(x)' <=> Existe(x)
  BY <1>1 DEF Existe
<1>4. MarcaConEntrada' /\ EntradaMarcada' /\ NuevaAbierta'
  BY <1>1, <1>2 DEF IndCandados, MarcaConEntrada, EntradaMarcada, NuevaAbierta, Exclusivo
<1>5. CandadoDoble' /\ CandadoConEntrada'
  BY <1>1, <1>2, <1>3 DEF IndCandados, CandadoDoble, CandadoConEntrada, Exclusivo
<1>6. SinDesbloqueo
  BY <1>1, <1>2 DEF SinDesbloqueo, Bloqueado
<1>7. QED
  BY <1>4, <1>5, <1>6 DEF IndCandados

\* A saved planning only adds RAs that are not locked for it.
LEMMA CandadosGuardar ==
    ASSUME IndReapertura, IndCandados, NEW p \in Planeaciones,
           NEW ras \in SUBSET RAsDeActividad[p], NEW c \in Contenidos, GuardarBorrador(p, ras, c)
    PROVE  IndCandados' /\ SinDesbloqueo
<1>1. /\ \A x \in Planeaciones \ {p} : planeaciones'[x] = planeaciones[x]
      /\ planeaciones'[p].estado = "BORRADOR"
      /\ planeaciones'[p].ras = ras
      /\ planeaciones'[p].approval = planeaciones[p].approval
      /\ planeaciones'[p].edit = planeaciones[p].edit
  BY DEF GuardarBorrador, IndReapertura, TypeOK, Planeacion
<1>2. /\ Existe(p)
      /\ planeaciones[p].estado \notin {"AUSENTE", "ELIMINADA"}
      /\ \A r \in ras \ planeaciones[p].ras : ~ Bloqueado(p, r)
      /\ UNCHANGED <<resultados, raLocks>>
  BY DEF GuardarBorrador, Existe
<1>3. \A x \in Planeaciones : Existe(x)' <=> Existe(x)
  BY <1>1, <1>2 DEF Existe
<1>4. MarcaConEntrada' /\ EntradaMarcada' /\ NuevaAbierta'
  BY <1>1, <1>2 DEF IndCandados, MarcaConEntrada, EntradaMarcada, NuevaAbierta, Exclusivo
<1>5. CandadoDoble'
  BY <1>1, <1>2, <1>3 DEF IndCandados, CandadoDoble, Exclusivo, Bloqueado
<1>6. CandadoConEntrada'
  <2>1. ASSUME NEW r \in ras \ planeaciones[p].ras, Exclusivo(p, r),
               planeaciones[p].edit = "LOCKED"
        PROVE  raLocks[p][r].edit # "SIN_ENTRADA"
    <3>1. r \in Resultados /\ r \in RAsDeActividad[p]
      BY ConstantesAssumption
    <3>2. \/ resultados[r].reabierto
          \/ raLocks[p][r].reabierto
          \/ raLocks[p][r].edit # "SIN_ENTRADA"
      BY <1>2, <2>1 DEF Bloqueado
    <3>3. QED
      BY <1>2, <2>1, <3>1, <3>2 DEF IndCandados, MarcaConEntrada, EntradaMarcada
  <2>2. QED
    BY <1>1, <1>2, <1>3, <2>1 DEF IndCandados, CandadoConEntrada, Exclusivo
<1>7. SinDesbloqueo
  BY <1>1, <1>2 DEF SinDesbloqueo, Bloqueado
<1>8. QED
  BY <1>4, <1>5, <1>6, <1>7 DEF IndCandados

\* Only a planning without locked RAs is deleted; its entries go with it.
LEMMA CandadosEliminar ==
    ASSUME IndReapertura, IndCandados, NEW p \in Planeaciones, EliminarPlaneacion(p)
    PROVE  IndCandados' /\ SinDesbloqueo
<1>1. /\ \A x \in Planeaciones \ {p} : planeaciones'[x] = planeaciones[x]
      /\ planeaciones'[p].estado = "ELIMINADA"
      /\ planeaciones'[p].ras = {}
  BY DEF EliminarPlaneacion, IndReapertura, TypeOK, Planeacion
<1>2. /\ resultados' = resultados
      /\ \A x \in Planeaciones \ {p} : raLocks'[x] = raLocks[x]
      /\ \A r \in Resultados : raLocks'[p][r].reabierto = FALSE
      /\ \A r \in planeaciones[p].ras : ~ Bloqueado(p, r)
  BY DEF EliminarPlaneacion, PuedeEliminar, SinLock, IndReapertura, TypeOK
<1>3. \A x \in Planeaciones \ {p} : Existe(x)' <=> Existe(x)
  BY <1>1 DEF Existe
<1>4. MarcaConEntrada' /\ EntradaMarcada' /\ NuevaAbierta'
  BY <1>1, <1>2 DEF IndCandados, MarcaConEntrada, EntradaMarcada, NuevaAbierta, Exclusivo
<1>5. CandadoDoble' /\ CandadoConEntrada'
  BY <1>1, <1>2, <1>3 DEF IndCandados, CandadoDoble, CandadoConEntrada, Exclusivo
<1>6. SinDesbloqueo
  BY <1>1, <1>2 DEF SinDesbloqueo, Bloqueado
<1>7. QED
  BY <1>4, <1>5, <1>6 DEF IndCandados

\* A submission only locks, and locks every RA of every planning left twice.
LEMMA CandadosEnviar ==
    ASSUME IndReapertura, IndCandados, NEW plans \in [Planeaciones -> Planeacion],
           MismaVista(plans), NEW doc, NEW alDia, NEW quedaAlDia,
           Enviar(plans, doc, alDia, quedaAlDia)
    PROVE  IndCandados' /\ SinDesbloqueo
<1>1. \A x \in Planeaciones : x \in Completas(plans) \cup Borradores(plans) <=> Existe(x)
  BY DEF MismaVista, Completas, Borradores
<1>2. \A x \in Planeaciones : /\ planeaciones'[x].estado = plans[x].estado
                              /\ planeaciones'[x].ras = plans[x].ras
                              /\ planeaciones'[x].approval = plans[x].approval
                              /\ ~ Existe(x) => planeaciones'[x].edit = plans[x].edit
  BY <1>1 DEF Enviar, Planeacion
<1>3. \A x \in Planeaciones :
         /\ Existe(x)' <=> Existe(x)
         /\ planeaciones'[x].estado = "AUSENTE" <=> planeaciones[x].estado = "AUSENTE"
         /\ planeaciones'[x].estado = "ELIMINADA" <=> planeaciones[x].estado = "ELIMINADA"
         /\ planeaciones'[x].ras = planeaciones[x].ras
         /\ planeaciones'[x].approval = planeaciones[x].approval
         /\ ~ Existe(x) => planeaciones'[x].edit = planeaciones[x].edit
  BY <1>2 DEF MismaVista, Existe, IndReapertura, TypeOK, Planeacion, EstadoPlaneacion
<1>4. \A r \in Resultados : /\ resultados'[r].reabierto = resultados[r].reabierto
                            /\ resultados[r].edit = "LOCKED" => resultados'[r].edit = "LOCKED"
  BY DEF Enviar, IndReapertura, TypeOK, Resultado
<1>5. \A r \in Resultados : resultados'[r] = resultados[r]
         \/ \E x \in Planeaciones : Existe(x) /\ r \in planeaciones[x].ras
  BY <1>1 DEF Enviar, MismaVista, Completas, Borradores
<1>6. \A x \in Planeaciones : \A r \in Resultados :
         /\ raLocks'[x][r].reabierto = raLocks[x][r].reabierto
         /\ raLocks'[x][r].edit \in {raLocks[x][r].edit, "LOCKED"}
         /\ Existe(x) /\ r \in planeaciones[x].ras => raLocks'[x][r].edit = "LOCKED"
         /\ ~ Existe(x) => raLocks'[x][r] = raLocks[x][r]
  <2>1. ASSUME NEW x \in Planeaciones, NEW r \in Resultados
        PROVE  /\ raLocks[x][r] \in RaLock
               /\ raLocks'[x][r] = IF Existe(x) /\ r \in planeaciones[x].ras
                                   THEN [raLocks[x][r] EXCEPT !.edit = "LOCKED"]
                                   ELSE raLocks[x][r]
    BY <1>1 DEF Enviar, MismaVista, IndReapertura, TypeOK
  <2>2. ASSUME NEW z \in RaLock
        PROVE  /\ [z EXCEPT !.edit = "LOCKED"].reabierto = z.reabierto
               /\ [z EXCEPT !.edit = "LOCKED"].edit = "LOCKED"
    BY DEF RaLock
  <2>3. ASSUME NEW x \in Planeaciones, NEW r \in Resultados
        PROVE  /\ raLocks'[x][r].reabierto = raLocks[x][r].reabierto
               /\ raLocks'[x][r].edit \in {raLocks[x][r].edit, "LOCKED"}
               /\ Existe(x) /\ r \in planeaciones[x].ras => raLocks'[x][r].edit = "LOCKED"
               /\ ~ Existe(x) => raLocks'[x][r] = raLocks[x][r]
    <3>1. CASE Existe(x) /\ r \in planeaciones[x].ras
      <4>1. raLocks'[x][r] = [raLocks[x][r] EXCEPT !.edit = "LOCKED"]
        BY <2>1, <3>1
      <4>2. QED
        BY <2>1, <2>2, <3>1, <4>1
    <3>2. CASE ~ (Existe(x) /\ r \in planeaciones[x].ras)
      <4>1. raLocks'[x][r] = raLocks[x][r]
        BY <2>1, <3>2
      <4>2. QED
        BY <3>2, <4>1
    <3>3. QED
      BY <3>1, <3>2
  <2>4. QED
    BY <2>3
<1>7. \A x \in Planeaciones : planeaciones[x].ras \subseteq Resultados
  BY DEF IndReapertura, TypeOK, Planeacion
<1>8. \A x \in Planeaciones : RAsDeActividad[x] \subseteq Resultados
  BY ConstantesAssumption
<1>9. MarcaConEntrada' /\ EntradaMarcada' /\ NuevaAbierta'
  <2>1. MarcaConEntrada'
    BY <1>3, <1>4, <1>6, <1>8 DEF IndCandados, MarcaConEntrada, Exclusivo
  <2>2. EntradaMarcada'
    BY <1>3, <1>6 DEF IndCandados, EntradaMarcada
  <2>3. NuevaAbierta'
    BY <1>3 DEF IndCandados, NuevaAbierta, Existe
  <2>4. QED
    BY <2>1, <2>2, <2>3
<1>10. CandadoDoble' /\ CandadoConEntrada'
  BY <1>3, <1>6, <1>7 DEF CandadoDoble, CandadoConEntrada
<1>11. SinDesbloqueo
  BY <1>3, <1>4, <1>6, <1>7 DEF SinDesbloqueo, Bloqueado
<1>12. QED
  BY <1>9, <1>10, <1>11 DEF IndCandados

\* Asking for adjustments opens the column of RAs of plannings never approved,
\* whose own entries stay locked.
LEMMA CandadosAjustes ==
    ASSUME IndReapertura, IndCandados, NEW v \in Version, SolicitarAjustes(v)
    PROVE  IndCandados' /\ SinDesbloqueo
<1>1. \A x \in Planeaciones :
         /\ planeaciones'[x].estado = planeaciones[x].estado
         /\ planeaciones'[x].ras = planeaciones[x].ras
         /\ planeaciones'[x].approval = planeaciones[x].approval
         /\ planeaciones'[x].edit \in {planeaciones[x].edit, "EDITABLE"}
         /\ \/ planeaciones'[x].edit = planeaciones[x].edit
            \/ Existe(x) /\ planeaciones[x].approval = "PENDING"
  <2>1. ASSUME NEW x \in Planeaciones
        PROVE  /\ planeaciones[x] \in Planeacion
               /\ \/ planeaciones'[x] = planeaciones[x]
                  \/ planeaciones'[x] = [planeaciones[x] EXCEPT !.review = "OBSERVED"]
                  \/ /\ Existe(x) /\ planeaciones[x].approval = "PENDING"
                     /\ planeaciones'[x] =
                           [planeaciones[x] EXCEPT !.review = "OBSERVED", !.edit = "EDITABLE"]
    BY DEF SolicitarAjustes, IndReapertura, TypeOK
  <2>2. ASSUME NEW z \in Planeacion, NEW y, y = [z EXCEPT !.review = "OBSERVED"]
        PROVE  /\ y.estado = z.estado /\ y.ras = z.ras
               /\ y.approval = z.approval /\ y.edit = z.edit
    BY <2>2 DEF Planeacion
  <2>3. ASSUME NEW z \in Planeacion, NEW y,
               y = [z EXCEPT !.review = "OBSERVED", !.edit = "EDITABLE"]
        PROVE  /\ y.estado = z.estado /\ y.ras = z.ras
               /\ y.approval = z.approval /\ y.edit = "EDITABLE"
    BY <2>3 DEF Planeacion
  <2>4. ASSUME NEW x \in Planeaciones
        PROVE  /\ planeaciones'[x].estado = planeaciones[x].estado
               /\ planeaciones'[x].ras = planeaciones[x].ras
               /\ planeaciones'[x].approval = planeaciones[x].approval
               /\ planeaciones'[x].edit \in {planeaciones[x].edit, "EDITABLE"}
               /\ \/ planeaciones'[x].edit = planeaciones[x].edit
                  \/ Existe(x) /\ planeaciones[x].approval = "PENDING"
    <3>1. CASE planeaciones'[x] = planeaciones[x]
      BY <3>1
    <3>2. CASE planeaciones'[x] = [planeaciones[x] EXCEPT !.review = "OBSERVED"]
      <4> DEFINE fila == planeaciones'[x]
      <4> HIDE DEF fila
      <4>1. fila = [planeaciones[x] EXCEPT !.review = "OBSERVED"]
        BY <3>2 DEF fila
      <4>2. /\ fila.estado = planeaciones[x].estado /\ fila.ras = planeaciones[x].ras
            /\ fila.approval = planeaciones[x].approval /\ fila.edit = planeaciones[x].edit
        BY <2>1, <2>2, <4>1
      <4>3. QED
        BY <4>2 DEF fila
    <3>3. CASE /\ Existe(x) /\ planeaciones[x].approval = "PENDING"
               /\ planeaciones'[x] =
                     [planeaciones[x] EXCEPT !.review = "OBSERVED", !.edit = "EDITABLE"]
      <4> DEFINE fila == planeaciones'[x]
      <4> HIDE DEF fila
      <4>1. fila = [planeaciones[x] EXCEPT !.review = "OBSERVED", !.edit = "EDITABLE"]
        BY <3>3 DEF fila
      <4>2. /\ fila.estado = planeaciones[x].estado /\ fila.ras = planeaciones[x].ras
            /\ fila.approval = planeaciones[x].approval /\ fila.edit = "EDITABLE"
        BY <2>1, <2>3, <4>1
      <4>3. QED
        BY <3>3, <4>2 DEF fila
    <3>4. QED
      BY <2>1, <3>1, <3>2, <3>3
  <2>5. QED
    BY <2>4
<1>2. \A x \in Planeaciones : Existe(x)' <=> Existe(x)
  BY <1>1 DEF Existe
<1>3. \A r \in Resultados : /\ resultados'[r].edit \in {resultados[r].edit, "EDITABLE"}
                            /\ resultados'[r].reabierto = resultados[r].reabierto
  BY DEF SolicitarAjustes, IndReapertura, TypeOK, Resultado
<1>4. \A r \in Resultados : resultados'[r] = resultados[r]
         \/ \E x \in Planeaciones : /\ Existe(x) /\ planeaciones[x].approval = "PENDING"
                                    /\ r \in planeaciones[x].ras
  BY DEF SolicitarAjustes, IndReapertura, TypeOK
<1>5. raLocks' = raLocks
  BY DEF SolicitarAjustes
<1>6. \A x \in Planeaciones : planeaciones[x].ras \subseteq Resultados
  BY DEF IndReapertura, TypeOK, Planeacion
<1>7. \A x \in Planeaciones : RAsDeActividad[x] \subseteq Resultados
  BY ConstantesAssumption
<1>8. MarcaConEntrada' /\ EntradaMarcada' /\ NuevaAbierta'
  BY <1>1, <1>3, <1>5, <1>7 DEF IndCandados, MarcaConEntrada, EntradaMarcada, NuevaAbierta,
                                Exclusivo
<1>9. CandadoDoble' /\ CandadoConEntrada'
  BY <1>1, <1>2, <1>3, <1>5, <1>6 DEF IndCandados, CandadoDoble, CandadoConEntrada, Exclusivo
<1>10. SinDesbloqueo
  <2>1. SUFFICES ASSUME NEW p \in Planeaciones, NEW r \in planeaciones[p].ras,
                        Exclusivo(p, r), Bloqueado(p, r)
                 PROVE  Bloqueado(p, r)'
    BY DEF SinDesbloqueo
  <2>2. r \in Resultados /\ r \in RAsDeActividad[p]
    BY <1>6, <2>1 DEF IndReapertura, RAsDeSuActividad
  <2>3. \A x \in Planeaciones : r \in planeaciones[x].ras => x = p
    BY <2>1 DEF IndReapertura, RAsDeSuActividad, Exclusivo
  <2>4. CASE ~ (Existe(p) /\ planeaciones[p].approval = "PENDING")
    <3>1. resultados'[r] = resultados[r] /\ planeaciones'[p].edit = planeaciones[p].edit
      BY <1>1, <1>4, <2>2, <2>3, <2>4
    <3>2. QED
      BY <1>5, <2>1, <3>1 DEF Bloqueado
  <2>5. CASE Existe(p) /\ planeaciones[p].approval = "PENDING"
    <3>1. ~ resultados[r].reabierto /\ ~ raLocks[p][r].reabierto
      BY <2>1, <2>2, <2>5 DEF IndCandados, MarcaConEntrada, EntradaMarcada, Existe
    <3>2. raLocks[p][r].edit = "LOCKED"
      BY <2>1, <2>5 DEF IndCandados, CandadoDoble, CandadoConEntrada, Bloqueado
    <3>3. QED
      BY <1>3, <1>5, <2>2, <3>1, <3>2 DEF Bloqueado
  <2>6. QED
    BY <2>4, <2>5
<1>11. QED
  BY <1>8, <1>9, <1>10 DEF IndCandados

\* Approval locks every RA of every complete planning and drops its marks.
LEMMA CandadosAprobar ==
    ASSUME IndReapertura, IndCandados, NEW v \in Version, AprobarEntrega(v)
    PROVE  IndCandados' /\ SinDesbloqueo
<1> DEFINE plans == Completas(planeaciones)
<1>1. /\ \A x \in plans : planeaciones'[x].approval = "APPROVED"
      /\ \A x \in Planeaciones \ plans : planeaciones'[x] = planeaciones[x]
      /\ \A x \in Planeaciones : /\ planeaciones'[x].estado = planeaciones[x].estado
                                 /\ planeaciones'[x].ras = planeaciones[x].ras
  <2>1. planeaciones \in [Planeaciones -> Planeacion]
    BY DEF IndReapertura, TypeOK
  <2>2. \A x \in Planeaciones : planeaciones'[x] =
           IF x \in plans
           THEN [planeaciones[x] EXCEPT !.review = "APPROVED", !.approval = "APPROVED",
                                        !.edit = "LOCKED"]
           ELSE planeaciones[x]
    BY DEF AprobarEntrega
  <2>3. plans \subseteq Planeaciones
    BY DEF Completas
  <2> HIDE DEF plans
  <2>4. QED
    BY <2>1, <2>2, <2>3 DEF Planeacion
<1>2. \A x \in plans : x \in Planeaciones /\ planeaciones[x].estado = "COMPLETO"
  BY DEF Completas
<1>3. \A x \in Planeaciones : Existe(x)' <=> Existe(x)
  BY <1>1 DEF Existe
<1>4. \A r \in Resultados : IF \E x \in plans : r \in planeaciones[x].ras
                            THEN resultados'[r].edit = "LOCKED" /\ resultados'[r].reabierto = FALSE
                            ELSE resultados'[r] = resultados[r]
  BY DEF AprobarEntrega, RAAprobado
<1>5. \A x \in Planeaciones : \A r \in Resultados :
         raLocks'[x][r] = IF x \in plans /\ r \in planeaciones[x].ras
                          THEN [edit |-> "LOCKED", reabierto |-> FALSE] ELSE raLocks[x][r]
  BY DEF AprobarEntrega
<1>6. \A x \in Planeaciones : planeaciones[x].ras \subseteq Resultados
  BY DEF IndReapertura, TypeOK, Planeacion
<1>7. \A x \in Planeaciones : RAsDeActividad[x] \subseteq Resultados
  BY ConstantesAssumption
<1>8. \A x \in Planeaciones : \A r \in RAsDeActividad[x] :
         Exclusivo(x, r) => \A y \in plans : r \in planeaciones[y].ras => y = x
  BY <1>2 DEF IndReapertura, RAsDeSuActividad, Exclusivo
<1> HIDE DEF plans
<1>9. MarcaConEntrada'
  <2>1. SUFFICES ASSUME NEW x \in Planeaciones, NEW r \in RAsDeActividad[x], Exclusivo(x, r),
                        planeaciones[x].estado # "ELIMINADA", resultados'[r].reabierto
                 PROVE  /\ planeaciones'[x].approval # "PENDING"
                        /\ raLocks'[x][r].edit # "SIN_ENTRADA"
    BY <1>1 DEF MarcaConEntrada, Exclusivo
  <2>2. resultados'[r] = resultados[r] /\ ~ (x \in plans /\ r \in planeaciones[x].ras)
    BY <1>4, <1>7, <2>1
  <2>3. planeaciones[x].approval # "PENDING" /\ raLocks[x][r].edit # "SIN_ENTRADA"
    BY <2>1, <2>2 DEF IndCandados, MarcaConEntrada
  <2>4. QED
    BY <1>1, <1>5, <1>7, <2>2, <2>3
<1>10. EntradaMarcada'
  BY <1>1, <1>5 DEF IndCandados, EntradaMarcada
<1>11. CandadoDoble'
  <2>1. SUFFICES ASSUME NEW x \in Planeaciones \ plans, NEW r \in planeaciones[x].ras,
                        Existe(x), Exclusivo(x, r), planeaciones[x].approval = "PENDING",
                        resultados'[r].edit = "LOCKED"
                 PROVE  raLocks'[x][r].edit = "LOCKED"
    BY <1>1, <1>3 DEF CandadoDoble, Exclusivo
  <2>2. resultados'[r] = resultados[r]
    BY <1>4, <1>6, <1>8, <2>1 DEF IndReapertura, RAsDeSuActividad
  <2>3. QED
    BY <1>5, <1>6, <2>1, <2>2 DEF IndCandados, CandadoDoble
<1>12. CandadoConEntrada' /\ NuevaAbierta'
  BY <1>1, <1>2, <1>3, <1>5, <1>6 DEF IndCandados, CandadoConEntrada, NuevaAbierta, Exclusivo
<1>13. SinDesbloqueo
  <2>1. SUFFICES ASSUME NEW x \in Planeaciones, NEW r \in planeaciones[x].ras,
                        Exclusivo(x, r), Bloqueado(x, r)
                 PROVE  Bloqueado(x, r)'
    BY DEF SinDesbloqueo
  <2>2. r \in Resultados
    BY <1>6, <2>1
  <2>3. CASE x \in plans
    BY <1>4, <2>1, <2>2, <2>3 DEF Bloqueado
  <2>4. CASE x \notin plans
    <3>1. /\ resultados'[r] = resultados[r] \/ resultados'[r].edit = "LOCKED"
          /\ raLocks'[x][r] = raLocks[x][r]
          /\ planeaciones'[x] = planeaciones[x]
      BY <1>1, <1>4, <1>5, <2>2, <2>4
    <3>2. QED
      BY <2>1, <3>1 DEF Bloqueado
  <2>5. QED
    BY <2>3, <2>4
<1>14. QED
  BY <1>9, <1>10, <1>11, <1>12, <1>13 DEF IndCandados

\* Approving a request opens the RAs it approves, with an entry each; its other
\* RAs are closed or had an open column already.
LEMMA CandadosAprobarSolicitud ==
    ASSUME IndReapertura, IndCandados, NEW q \in Solicitudes, NEW ras \in SUBSET Resultados,
           AprobarSolicitud(q, ras)
    PROVE  IndCandados' /\ Desbloqueo
<1> DEFINE p == solicitudes[q].plan
           abre == ras \cap planeaciones[p].ras
           cierra == NoAutorizados(p, ras)
<1>1. p \in Planeaciones /\ Existe(p) /\ solicitudes[q].estado = "PENDING"
  BY DEF AprobarSolicitud, IndReapertura, TypeOK, SolicitudConPlaneacion
<1>2. /\ \A x \in Planeaciones \ {p} : planeaciones'[x] = planeaciones[x]
      /\ planeaciones'[p].estado = planeaciones[p].estado
      /\ planeaciones'[p].ras = planeaciones[p].ras
      /\ planeaciones'[p].approval = "PREVIOUS_VERSION_APPROVED"
      /\ planeaciones'[p].edit = "EDITABLE"
  <2>1. planeaciones \in [Planeaciones -> Planeacion]
    BY DEF IndReapertura, TypeOK
  <2>2. planeaciones' = [planeaciones EXCEPT ![p] =
           [@ EXCEPT !.review = "CHANGES_ALLOWED",
                     !.approval = "PREVIOUS_VERSION_APPROVED", !.edit = "EDITABLE"]]
    BY DEF AprobarSolicitud
  <2> HIDE DEF p
  <2>3. QED
    BY <1>1, <2>1, <2>2 DEF Planeacion
<1>3. \A x \in Planeaciones : Existe(x)' <=> Existe(x)
  BY <1>2 DEF Existe
<1>4. /\ solicitudes'[q].plan = p
      /\ solicitudes'[q].aprobados = ras
      /\ solicitudes'[q].estado \in Abierta
  <2>1. solicitudes \in [Solicitudes -> Solicitud]
    BY DEF IndReapertura, TypeOK
  <2>2. solicitudes' = [solicitudes EXCEPT ![q] =
           [@ EXCEPT !.estado = IF ras = solicitudes[q].pedidos
                                THEN "APPROVED" ELSE "PARTIALLY_APPROVED",
                     !.aprobados = ras]]
    BY DEF AprobarSolicitud
  <2>3. QED
    BY <2>1, <2>2 DEF Solicitud, Abierta
<1>5. /\ abre \subseteq planeaciones[p].ras /\ abre \subseteq ras
      /\ cierra \subseteq planeaciones[p].ras
      /\ abre \cap cierra = {}
      /\ \A r \in planeaciones[p].ras : r \in abre \/ r \in cierra \/ resultados[r].edit = "EDITABLE"
  BY DEF NoAutorizados
<1>6. \A r \in Resultados :
         /\ r \in cierra => resultados'[r].edit = "LOCKED"
         /\ r \notin abre \cup cierra => resultados'[r] = resultados[r]
  BY <1>5 DEF AprobarSolicitud, IndReapertura, TypeOK, Resultado
<1>7. \A r \in Resultados :
         raLocks'[p][r] = IF r \in abre THEN [edit |-> "EDITABLE", reabierto |-> TRUE]
                          ELSE IF r \in cierra THEN [raLocks[p][r] EXCEPT !.edit = "LOCKED"]
                          ELSE raLocks[p][r]
  BY <1>1, <1>5 DEF AprobarSolicitud, IndReapertura, TypeOK
<1>8. \A x \in Planeaciones \ {p} : raLocks'[x] = raLocks[x]
  BY <1>1 DEF AprobarSolicitud, IndReapertura, TypeOK
<1>9. \A x \in Planeaciones \ {p} : \A r : Exclusivo(x, r) => r \notin planeaciones[p].ras
  BY <1>1 DEF IndReapertura, RAsDeSuActividad, Exclusivo
<1>10. raLocks \in [Planeaciones -> [Resultados -> RaLock]]
  BY DEF IndReapertura, TypeOK
<1>11. /\ \A x \in Planeaciones : planeaciones[x].ras \subseteq Resultados
       /\ \A x \in Planeaciones : RAsDeActividad[x] \subseteq Resultados
  BY ConstantesAssumption DEF IndReapertura, TypeOK, Planeacion
<1> HIDE DEF p, abre, cierra
<1>12. \A r \in Resultados :
          /\ r \in abre \cup cierra => raLocks'[p][r].edit # "SIN_ENTRADA"
          /\ r \notin abre \cup cierra => raLocks'[p][r] = raLocks[p][r]
  <2>1. \A z \in RaLock : [z EXCEPT !.edit = "LOCKED"].edit = "LOCKED"
    BY DEF RaLock
  <2>2. ASSUME NEW r \in Resultados, r \in cierra, r \notin abre
        PROVE  raLocks'[p][r].edit = "LOCKED"
    <3>1. raLocks'[p][r] = [raLocks[p][r] EXCEPT !.edit = "LOCKED"]
      BY <1>7, <2>2
    <3>2. raLocks[p][r] \in RaLock
      BY <1>1, <1>10
    <3>3. QED
      BY <2>1, <3>1, <3>2
  <2>3. ASSUME NEW r \in Resultados, r \in abre PROVE raLocks'[p][r].edit = "EDITABLE"
    <3>1. raLocks'[p][r] = [edit |-> "EDITABLE", reabierto |-> TRUE]
      BY <1>7, <2>3
    <3>2. QED
      BY <3>1
  <2>4. ASSUME NEW r \in Resultados, r \notin abre \cup cierra
        PROVE  raLocks'[p][r] = raLocks[p][r]
    BY <1>7, <2>4
  <2>5. QED
    BY <2>2, <2>3, <2>4
<1>13. \A x \in Planeaciones \ {p} : \A r \in Resultados :
          Exclusivo(x, r) => resultados'[r] = resultados[r]
  BY <1>5, <1>6, <1>9
<1>14. MarcaConEntrada'
  <2>1. SUFFICES ASSUME NEW x \in Planeaciones, NEW r \in RAsDeActividad[x], Exclusivo(x, r),
                        planeaciones'[x].estado # "ELIMINADA", resultados'[r].reabierto
                 PROVE  /\ planeaciones'[x].approval # "PENDING"
                        /\ raLocks'[x][r].edit # "SIN_ENTRADA"
    BY DEF MarcaConEntrada, Exclusivo
  <2>2. CASE x # p
    BY <1>2, <1>8, <1>11, <1>13, <2>1, <2>2 DEF IndCandados, MarcaConEntrada
  <2>3. CASE x = p /\ r \in abre \cup cierra
    BY <1>2, <1>11, <1>12, <2>1, <2>3
  <2>4. CASE x = p /\ r \notin abre \cup cierra
    <3>1. resultados'[r] = resultados[r] /\ raLocks'[x][r] = raLocks[x][r]
      BY <1>6, <1>11, <1>12, <2>1, <2>4
    <3>2. QED
      BY <1>2, <2>1, <2>4, <3>1 DEF IndCandados, MarcaConEntrada
  <2>5. QED
    BY <2>2, <2>3, <2>4
<1>15. EntradaMarcada'
  <2>1. SUFFICES ASSUME NEW x \in Planeaciones, NEW r \in Resultados, raLocks'[x][r].reabierto
                 PROVE  /\ planeaciones'[x].approval # "PENDING"
                        /\ raLocks'[x][r].edit # "SIN_ENTRADA"
    BY DEF EntradaMarcada
  <2>2. CASE x # p
    BY <1>2, <1>8, <2>1, <2>2 DEF IndCandados, EntradaMarcada
  <2>3. CASE x = p /\ r \in abre \cup cierra
    BY <1>2, <1>12, <2>3
  <2>4. CASE x = p /\ r \notin abre \cup cierra
    BY <1>2, <1>12, <2>1, <2>4 DEF IndCandados, EntradaMarcada
  <2>5. QED
    BY <2>2, <2>3, <2>4
<1>16. CandadoDoble'
  <2>1. SUFFICES ASSUME NEW x \in Planeaciones, NEW r \in planeaciones'[x].ras,
                        Existe(x)', Exclusivo(x, r), planeaciones'[x].approval = "PENDING",
                        resultados'[r].edit = "LOCKED"
                 PROVE  raLocks'[x][r].edit = "LOCKED"
    BY DEF CandadoDoble, Exclusivo
  <2>2. x # p /\ planeaciones'[x] = planeaciones[x] /\ Existe(x)
    BY <1>2, <1>3, <2>1
  <2>3. resultados'[r] = resultados[r]
    BY <1>11, <1>13, <2>1, <2>2
  <2>4. QED
    BY <1>8, <2>1, <2>2, <2>3 DEF IndCandados, CandadoDoble
<1>17. CandadoConEntrada' /\ NuevaAbierta'
  BY <1>1, <1>2, <1>3, <1>8 DEF IndCandados, CandadoConEntrada, NuevaAbierta, Exclusivo
<1>18. Desbloqueo
  <2>1. SUFFICES ASSUME NEW x \in Planeaciones, NEW r \in planeaciones[x].ras,
                        Exclusivo(x, r), Bloqueado(x, r), ~ Bloqueado(x, r)'
                 PROVE  x = p /\ r \in ras
    BY <1>1, <1>4 DEF Desbloqueo, p
  <2>2. r \in Resultados
    BY <1>11, <2>1
  <2>3. x = p
    <3>1. SUFFICES ASSUME x # p PROVE FALSE
      OBVIOUS
    <3>2. /\ resultados'[r] = resultados[r] /\ raLocks'[x] = raLocks[x]
          /\ planeaciones'[x] = planeaciones[x]
      BY <1>2, <1>8, <1>13, <2>1, <2>2, <3>1
    <3>3. QED
      BY <2>1, <3>2 DEF Bloqueado
  <2>4. r \notin cierra
    BY <1>6, <2>1, <2>2 DEF Bloqueado
  <2>5. r \in abre
    <3>1. SUFFICES ASSUME r \notin abre PROVE FALSE
      OBVIOUS
    <3>2. /\ resultados'[r] = resultados[r] /\ raLocks'[p][r] = raLocks[p][r]
          /\ resultados[r].edit = "EDITABLE"
      BY <1>5, <1>6, <1>12, <2>1, <2>2, <2>3, <2>4, <3>1
    <3>3. raLocks[p][r].edit = "LOCKED"
      BY <1>1, <2>1, <2>3, <3>2 DEF Bloqueado, IndCandados, CandadoConEntrada
    <3>4. QED
      BY <2>1, <2>3, <3>2, <3>3 DEF Bloqueado
  <2>6. QED
    BY <1>5, <2>3, <2>5
<1>19. QED
  BY <1>14, <1>15, <1>16, <1>17, <1>18 DEF IndCandados

-----------------------------------------------------------------------------
(* Every step *)

\* No step unlocks an RA except the approval of a request for it.
LEMMA PasoCandados ==
    ASSUME IndReapertura, IndCandados, [Next]_vars
    PROVE  IndCandados' /\ Desbloqueo
<1>0. TypeOK /\ TypeOK' /\ planeaciones \in [Planeaciones -> Planeacion]
  BY PasoTipo DEF IndReapertura, TypeOK
<1>a. SinDesbloqueo => Desbloqueo
  BY DEF SinDesbloqueo, Desbloqueo
<1>b. ASSUME MismaVista(planeaciones'), UNCHANGED <<resultados, raLocks>>
      PROVE  IndCandados' /\ Desbloqueo
  BY <1>0, <1>a, <1>b, CandadosQuietos
<1>c. ASSUME UNCHANGED <<planeaciones, resultados, raLocks>>
      PROVE  IndCandados' /\ Desbloqueo
  <2>1. MismaVista(planeaciones')
    BY <1>c DEF MismaVista, Existe
  <2>2. QED
    BY <1>b, <1>c, <2>1
<1>d. ASSUME NEW p \in Planeaciones, Existe(p),
             planeaciones' = [planeaciones EXCEPT ![p].estado = "COMPLETO"],
             UNCHANGED <<resultados, raLocks>>
      PROVE  IndCandados' /\ Desbloqueo
  <2>1. MismaVista(planeaciones')
    BY <1>0, <1>d DEF MismaVista, Existe, Planeacion
  <2>2. QED
    BY <1>b, <1>d, <2>1
<1>1. CASE PlaneacionNext
  <2>1. ASSUME NEW p \in Planeaciones, NEW ras \in SUBSET RAsDeActividad[p], NEW c \in Contenidos,
               CrearPlaneacion(p, ras, c) \/ GuardarBorrador(p, ras, c)
        PROVE  IndCandados' /\ Desbloqueo
    BY <1>a, <2>1, CandadosCrear, CandadosGuardar
  <2>2. ASSUME NEW p \in Planeaciones, ConfirmarYGenerar(p) \/ GenerarIndividual(p)
        PROVE  IndCandados' /\ Desbloqueo
    BY <1>d, <2>2 DEF ConfirmarYGenerar, GenerarIndividual
  <2>3. ASSUME NEW p \in Planeaciones, EliminarPlaneacion(p)
        PROVE  IndCandados' /\ Desbloqueo
    BY <1>a, <2>3, CandadosEliminar
  <2>4. ASSUME NEW p \in Planeaciones, EliminarPlaneacionFalla(p)
        PROVE  IndCandados' /\ Desbloqueo
    BY <1>c, <2>4 DEF EliminarPlaneacionFalla
  <2>5. CASE GuardarConfiguracion
    BY <1>c, <2>5 DEF GuardarConfiguracion
  <2>6. QED
    BY <1>1, <2>1, <2>2, <2>3, <2>4, <2>5 DEF PlaneacionNext
<1>2. CASE DocumentoNext
  <2>1. PICK listos \in SUBSET Planeaciones :
           \/ GenerarConsolidado(listos) \/ GenerarConsolidadoFalla(listos)
           \/ GenerarYEnviar(listos) \/ GenerarYEnviarRechazado(listos)
           \/ DescargarRegenerando(listos)
    BY <1>2 DEF DocumentoNext
  <2>2. listos \subseteq Borradores(planeaciones) =>
           MismaVista(ConBorradoresConfirmados(listos))
    BY <1>0, ConfirmarNulo
  <2>3. CASE GenerarConsolidado(listos) \/ GenerarConsolidadoFalla(listos)
    BY <1>b, <2>2, <2>3 DEF GenerarConsolidado, GenerarConsolidadoFalla, PuedeGenerar
  <2>4. CASE GenerarYEnviar(listos)
    <3> DEFINE plans == ConBorradoresConfirmados(listos)
    <3>1. plans \in [Planeaciones -> Planeacion]
      BY <1>0, ConfirmadosTipo
    <3>2. MismaVista(plans) /\ Enviar(plans, DocDe(plans), TRUE, TRUE)
      BY <2>2, <2>4 DEF GenerarYEnviar, PuedeGenerar
    <3>3. QED
      BY <1>a, <3>1, <3>2, CandadosEnviar
  <2>5. CASE GenerarYEnviarRechazado(listos) \/ DescargarRegenerando(listos)
    BY <1>c, <2>5 DEF GenerarYEnviarRechazado, DescargarRegenerando
  <2>6. QED
    BY <2>1, <2>3, <2>4, <2>5
<1>3. CASE RevisionNext
  <2>1. CASE EnviarARevision
    <3>1. MismaVista(planeaciones)
      BY DEF MismaVista, Existe
    <3>2. Enviar(planeaciones, config.doc, config.alDia, FALSE)
      BY <2>1 DEF EnviarARevision
    <3>3. QED
      BY <1>0, <1>a, <3>1, <3>2, CandadosEnviar
  <2>2. ASSUME NEW v \in Version, SolicitarAjustes(v) \/ AprobarEntrega(v)
        PROVE  IndCandados' /\ Desbloqueo
    BY <1>a, <2>2, CandadosAjustes, CandadosAprobar
  <2>3. ASSUME NEW v \in Version, IniciarRevision(v) \/ VerificarDescargaInvalida(v)
        PROVE  IndCandados' /\ Desbloqueo
    BY <1>c, <2>3 DEF IniciarRevision, VerificarDescargaInvalida
  <2>4. ASSUME NEW o \in Observaciones, NEW v \in Version, CrearObservacion(o, v)
        PROVE  IndCandados' /\ Desbloqueo
    BY <1>c, <2>4 DEF CrearObservacion
  <2>5. ASSUME NEW o \in Observaciones, ReportarAjuste(o) \/ ResolverObservacion(o)
        PROVE  IndCandados' /\ Desbloqueo
    BY <1>c, <2>5 DEF ReportarAjuste, ResolverObservacion
  <2>6. QED
    BY <1>3, <2>1, <2>2, <2>3, <2>4, <2>5 DEF RevisionNext
<1>4. CASE ReaperturaNext
  <2>1. ASSUME NEW q, NEW p, NEW ras, CrearSolicitud(q, p, ras) PROVE IndCandados' /\ Desbloqueo
    BY <1>c, <2>1 DEF CrearSolicitud
  <2>2. ASSUME NEW q \in Solicitudes, NEW ras \in SUBSET Resultados, AprobarSolicitud(q, ras)
        PROVE  IndCandados' /\ Desbloqueo
    BY <2>2, CandadosAprobarSolicitud
  <2>3. ASSUME NEW q, RechazarSolicitud(q) PROVE IndCandados' /\ Desbloqueo
    BY <1>c, <2>3 DEF RechazarSolicitud
  <2>4. QED
    BY <1>4, <2>1, <2>2, <2>3 DEF ReaperturaNext
<1>5. CASE UNCHANGED vars
  BY <1>5, <1>c DEF vars
<1>6. QED
  BY <1>1, <1>2, <1>3, <1>4, <1>5 DEF Next

LEMMA InitCandados == Init => IndCandados
BY ConstantesAssumption DEF Init, IndCandados, MarcaConEntrada, EntradaMarcada, CandadoDoble,
   CandadoConEntrada, NuevaAbierta, SinLock, Existe

LEMMA InvarianteCandados == Spec => []IndCandados
<1>1. IndReapertura /\ IndCandados /\ [Next]_vars => IndCandados'
  BY PasoCandados
<1>2. QED
  BY InitCandados, InvarianteReapertura, <1>1, PTL DEF Spec

\* No save, submission, decision or adjustment of any length unlocks an RA that
\* only one planning can select: only the approval of a request for it does.
THEOREM SoloUnaSolicitudDesbloquea == Spec => SoloSolicitudDesbloquea
<1> DEFINE Solo ==
       \A p \in Planeaciones : \A r \in planeaciones[p].ras :
          Exclusivo(p, r) /\ Bloqueado(p, r) /\ ~ Bloqueado(p, r)' =>
              \E q \in Solicitudes : /\ solicitudes[q].estado = "PENDING"
                                     /\ solicitudes[q].plan = p
                                     /\ r \in solicitudes'[q].aprobados
<1>1. IndReapertura /\ IndCandados /\ [Next]_vars => [Solo]_vars
  <2>1. Desbloqueo => Solo
    BY DEF Desbloqueo
  <2>2. QED
    BY <2>1, PasoCandados
<1>2. SoloSolicitudDesbloquea <=> [][Solo]_vars
  BY DEF SoloSolicitudDesbloquea
<1>3. QED
  BY InvarianteReapertura, InvarianteCandados, <1>1, <1>2, PTL DEF Spec

-----------------------------------------------------------------------------
(* What a step may do to what a planning contributes to the workbook *)

\* A planning is created once; what it contributes changes only when it is saved
\* or deleted; its open requests are closed only by a submission, an approval
\* or its deletion; a submission leaves its RAs locked.
Vida ==
    \A p \in Planeaciones :
        /\ planeaciones'[p].estado = "AUSENTE" => planeaciones[p].estado = "AUSENTE"
        /\ Existe(p)' => Existe(p) \/ planeaciones[p].estado = "AUSENTE"

SoloEdicion ==
    \A p \in Planeaciones :
        Existe(p) /\ BloqueDe(planeaciones'[p]) # BloqueDe(planeaciones[p]) =>
            \/ \E ras \in SUBSET RAsDeActividad[p], c \in Contenidos : GuardarBorrador(p, ras, c)
            \/ EliminarPlaneacion(p)

CierreDeSolicitudes ==
    \A p \in Planeaciones :
        Existe(p)' /\ Autorizan(p)' = {} /\ Autorizan(p) # {} =>
            \/ ultima' # ultima
            \/ \E v \in Version : AprobarEntrega(v)

EnvioCierra ==
    ultima' # ultima =>
        \A p \in Planeaciones : Existe(p)' =>
            \A r \in planeaciones'[p].ras : resultados'[r].edit = "LOCKED"

Resumen == Vida /\ SoloEdicion /\ CierreDeSolicitudes /\ EnvioCierra

\* What the workbook shows of a table of plannings is what it showed.
MismoBloque(plans) ==
    \A p \in Planeaciones :
        /\ plans[p].estado \in {"BORRADOR", "COMPLETO"} <=> Existe(p)
        /\ plans[p].estado = "AUSENTE" <=> planeaciones[p].estado = "AUSENTE"
        /\ plans[p].ras = planeaciones[p].ras
        /\ plans[p].contenido = planeaciones[p].contenido

LEMMA ConfirmarBloque ==
    ASSUME TypeOK, NEW listos \in SUBSET Borradores(planeaciones)
    PROVE  MismoBloque(ConBorradoresConfirmados(listos))
BY DEF TypeOK, MismoBloque, ConBorradoresConfirmados, Borradores, Existe, Planeacion

\* Steps that change the plannings in nothing the workbook shows and close no
\* request.
LEMMA ResumenQuieto ==
    ASSUME MismoBloque(planeaciones'), ultima' = ultima,
           \A p \in Planeaciones : Autorizan(p) \subseteq Autorizan(p)'
    PROVE  Resumen
BY DEF MismoBloque, Resumen, Vida, SoloEdicion, CierreDeSolicitudes, EnvioCierra, BloqueDe, Existe

LEMMA ResumenCrear ==
    ASSUME TypeOK, NEW p \in Planeaciones, NEW ras \in SUBSET RAsDeActividad[p],
           NEW c \in Contenidos, CrearPlaneacion(p, ras, c)
    PROVE  Resumen
<1>1. /\ \A x \in Planeaciones \ {p} : planeaciones'[x] = planeaciones[x]
      /\ planeaciones'[p].estado = "BORRADOR"
      /\ planeaciones[p].estado = "AUSENTE"
      /\ UNCHANGED <<ultima, solicitudes>>
  BY DEF CrearPlaneacion, TypeOK, Planeacion
<1>2. QED
  BY <1>1 DEF Resumen, Vida, SoloEdicion, CierreDeSolicitudes, EnvioCierra, Existe, Autorizan

LEMMA ResumenGuardar ==
    ASSUME TypeOK, NEW p \in Planeaciones, NEW ras \in SUBSET RAsDeActividad[p],
           NEW c \in Contenidos, GuardarBorrador(p, ras, c)
    PROVE  Resumen
<1>1. /\ \A x \in Planeaciones \ {p} : planeaciones'[x] = planeaciones[x]
      /\ planeaciones'[p].estado = "BORRADOR"
      /\ Existe(p)
      /\ UNCHANGED <<ultima, solicitudes>>
  BY DEF GuardarBorrador, TypeOK, Planeacion
<1>2. SoloEdicion
  BY <1>1 DEF SoloEdicion
<1>3. Vida /\ CierreDeSolicitudes /\ EnvioCierra
  BY <1>1 DEF Vida, CierreDeSolicitudes, EnvioCierra, Existe, Autorizan
<1>4. QED
  BY <1>2, <1>3 DEF Resumen

LEMMA ResumenEliminar ==
    ASSUME TypeOK, NEW p \in Planeaciones, EliminarPlaneacion(p)
    PROVE  Resumen
<1>1. /\ \A x \in Planeaciones \ {p} : planeaciones'[x] = planeaciones[x]
      /\ planeaciones'[p].estado = "ELIMINADA"
      /\ ultima' = ultima
  BY DEF EliminarPlaneacion, TypeOK, Planeacion
<1>2. \A x \in Planeaciones \ {p} : Autorizan(x) \subseteq Autorizan(x)'
  BY DEF EliminarPlaneacion, Autorizan
<1>3. SoloEdicion
  BY <1>1 DEF SoloEdicion
<1>4. Vida /\ CierreDeSolicitudes /\ EnvioCierra
  BY <1>1, <1>2 DEF Vida, CierreDeSolicitudes, EnvioCierra, Existe
<1>5. QED
  BY <1>3, <1>4 DEF Resumen

LEMMA ResumenEnviar ==
    ASSUME TypeOK, NEW plans \in [Planeaciones -> Planeacion], MismoBloque(plans),
           NEW doc, NEW alDia, NEW quedaAlDia, Enviar(plans, doc, alDia, quedaAlDia)
    PROVE  Resumen
<1>1. \A x \in Planeaciones : /\ planeaciones'[x].estado = plans[x].estado
                              /\ planeaciones'[x].ras = plans[x].ras
                              /\ planeaciones'[x].contenido = plans[x].contenido
  BY DEF Enviar, Planeacion
<1>2. ultima' # ultima
  <2>1. ultima \in 0..MaxVersion /\ ultima' = ultima + 1
    BY DEF Enviar, TypeOK
  <2>2. QED
    BY <2>1
<1>3. EnvioCierra
  <2>1. SUFFICES ASSUME NEW p \in Planeaciones, plans[p].estado \in {"BORRADOR", "COMPLETO"},
                        NEW r \in plans[p].ras
                 PROVE  resultados'[r].edit = "LOCKED"
    BY <1>1 DEF EnvioCierra, Existe
  <2>2. p \in Completas(plans) \cup Borradores(plans) /\ r \in Resultados
    BY <2>1 DEF Completas, Borradores, Planeacion
  <2>3. resultados'[r] = [resultados[r] EXCEPT !.edit = "LOCKED"]
    BY <2>1, <2>2 DEF Enviar
  <2>4. resultados[r] \in Resultado
    BY <2>2 DEF TypeOK
  <2>5. QED
    BY <2>3, <2>4 DEF Resultado
<1>4. Vida /\ SoloEdicion /\ CierreDeSolicitudes
  BY <1>1, <1>2 DEF MismoBloque, Vida, SoloEdicion, CierreDeSolicitudes, BloqueDe, Existe
<1>5. QED
  BY <1>3, <1>4 DEF Resumen

LEMMA ResumenAjustes ==
    ASSUME TypeOK, NEW v \in Version, SolicitarAjustes(v)
    PROVE  Resumen
<1>1. ASSUME NEW x \in Planeaciones
      PROVE  /\ planeaciones'[x].estado = planeaciones[x].estado
             /\ planeaciones'[x].ras = planeaciones[x].ras
             /\ planeaciones'[x].contenido = planeaciones[x].contenido
  <2>1. /\ planeaciones[x] \in Planeacion
        /\ planeaciones'[x] \in
              {planeaciones[x],
               [planeaciones[x] EXCEPT !.review = "OBSERVED", !.edit = "EDITABLE"],
               [planeaciones[x] EXCEPT !.review = "OBSERVED"]}
    BY DEF SolicitarAjustes, TypeOK
  <2>2. \A z \in Planeacion : \A y \in
           {z, [z EXCEPT !.review = "OBSERVED", !.edit = "EDITABLE"],
            [z EXCEPT !.review = "OBSERVED"]} :
              y.estado = z.estado /\ y.ras = z.ras /\ y.contenido = z.contenido
    BY DEF Planeacion
  <2> DEFINE fila == planeaciones'[x]
  <2> HIDE DEF fila
  <2>3. fila.estado = planeaciones[x].estado /\ fila.ras = planeaciones[x].ras
           /\ fila.contenido = planeaciones[x].contenido
    BY <2>1, <2>2 DEF fila
  <2>4. QED
    BY <2>3 DEF fila
<1>2. MismoBloque(planeaciones')
  BY <1>1 DEF MismoBloque, Existe
<1>3. UNCHANGED <<ultima, solicitudes>>
  BY DEF SolicitarAjustes
<1>4. \A p \in Planeaciones : Autorizan(p) \subseteq Autorizan(p)'
  BY <1>3 DEF Autorizan
<1>5. QED
  BY <1>2, <1>3, <1>4, ResumenQuieto

LEMMA ResumenAprobar ==
    ASSUME TypeOK, NEW v \in Version, AprobarEntrega(v)
    PROVE  Resumen
<1>1. \A x \in Planeaciones : /\ planeaciones'[x].estado = planeaciones[x].estado
                              /\ planeaciones'[x].ras = planeaciones[x].ras
                              /\ planeaciones'[x].contenido = planeaciones[x].contenido
  <2>1. planeaciones \in [Planeaciones -> Planeacion]
    BY DEF TypeOK
  <2>2. \A x \in Planeaciones : planeaciones'[x] =
           IF x \in Completas(planeaciones)
           THEN [planeaciones[x] EXCEPT !.review = "APPROVED", !.approval = "APPROVED",
                                        !.edit = "LOCKED"]
           ELSE planeaciones[x]
    BY DEF AprobarEntrega
  <2>3. QED
    BY <2>1, <2>2 DEF Planeacion
<1>2. Vida /\ SoloEdicion
  BY <1>1 DEF Vida, SoloEdicion, BloqueDe, Existe
<1>3. CierreDeSolicitudes
  BY DEF CierreDeSolicitudes
<1>4. EnvioCierra
  BY DEF EnvioCierra, AprobarEntrega
<1>5. QED
  BY <1>2, <1>3, <1>4 DEF Resumen

LEMMA ResumenAprobarSolicitud ==
    ASSUME TypeOK, SolicitudConPlaneacion, NEW q \in Solicitudes, NEW ras \in SUBSET Resultados,
           AprobarSolicitud(q, ras)
    PROVE  Resumen
<1> DEFINE p == solicitudes[q].plan
<1>1. p \in Planeaciones
  BY DEF AprobarSolicitud, TypeOK
<1>2. MismoBloque(planeaciones')
  <2>1. planeaciones \in [Planeaciones -> Planeacion]
    BY DEF TypeOK
  <2>2. planeaciones' = [planeaciones EXCEPT ![p] =
           [@ EXCEPT !.review = "CHANGES_ALLOWED",
                     !.approval = "PREVIOUS_VERSION_APPROVED", !.edit = "EDITABLE"]]
    BY DEF AprobarSolicitud
  <2> HIDE DEF p
  <2>3. \A x \in Planeaciones : /\ planeaciones'[x].estado = planeaciones[x].estado
                                /\ planeaciones'[x].ras = planeaciones[x].ras
                                /\ planeaciones'[x].contenido = planeaciones[x].contenido
    BY <1>1, <2>1, <2>2 DEF Planeacion
  <2>4. QED
    BY <2>3 DEF MismoBloque, Existe
<1>3. \A x \in Planeaciones : Autorizan(x) \subseteq Autorizan(x)'
  BY DEF AprobarSolicitud, Autorizan, Abierta, TypeOK
<1>4. ultima' = ultima
  BY DEF AprobarSolicitud
<1>5. QED
  BY <1>2, <1>3, <1>4, ResumenQuieto

\* Every step, whatever it does, keeps to that.
LEMMA PasoResumen == ASSUME IndReapertura, [Next]_vars PROVE Resumen
<1>0. TypeOK /\ SolicitudConPlaneacion /\ planeaciones \in [Planeaciones -> Planeacion]
  BY DEF IndReapertura, TypeOK
<1>a. ASSUME MismoBloque(planeaciones'), UNCHANGED <<ultima, solicitudes>> PROVE Resumen
  <2>1. \A p \in Planeaciones : Autorizan(p) \subseteq Autorizan(p)'
    BY <1>a DEF Autorizan
  <2>2. QED
    BY <1>a, <2>1, ResumenQuieto
<1>b. UNCHANGED planeaciones => MismoBloque(planeaciones')
  BY DEF MismoBloque, Existe
<1>1. CASE PlaneacionNext
  <2>1. ASSUME NEW p \in Planeaciones, NEW ras \in SUBSET RAsDeActividad[p], NEW c \in Contenidos,
               CrearPlaneacion(p, ras, c) \/ GuardarBorrador(p, ras, c)
        PROVE  Resumen
    BY <1>0, <2>1, ResumenCrear, ResumenGuardar
  <2>2. ASSUME NEW p \in Planeaciones, ConfirmarYGenerar(p) \/ GenerarIndividual(p)
        PROVE  Resumen
    <3>1. /\ Existe(p)
          /\ planeaciones' = [planeaciones EXCEPT ![p].estado = "COMPLETO"]
          /\ UNCHANGED <<ultima, solicitudes>>
      BY <2>2 DEF ConfirmarYGenerar, GenerarIndividual
    <3>2. MismoBloque(planeaciones')
      BY <1>0, <3>1 DEF MismoBloque, Existe, Planeacion
    <3>3. QED
      BY <1>a, <3>1, <3>2
  <2>3. ASSUME NEW p \in Planeaciones, EliminarPlaneacion(p) PROVE Resumen
    BY <1>0, <2>3, ResumenEliminar
  <2>4. ASSUME NEW p \in Planeaciones, EliminarPlaneacionFalla(p) PROVE Resumen
    BY <1>a, <1>b, <2>4 DEF EliminarPlaneacionFalla
  <2>5. CASE GuardarConfiguracion
    BY <1>a, <1>b, <2>5 DEF GuardarConfiguracion
  <2>6. QED
    BY <1>1, <2>1, <2>2, <2>3, <2>4, <2>5 DEF PlaneacionNext
<1>2. CASE DocumentoNext
  <2>1. PICK listos \in SUBSET Planeaciones :
           \/ GenerarConsolidado(listos) \/ GenerarConsolidadoFalla(listos)
           \/ GenerarYEnviar(listos) \/ GenerarYEnviarRechazado(listos)
           \/ DescargarRegenerando(listos)
    BY <1>2 DEF DocumentoNext
  <2>2. listos \subseteq Borradores(planeaciones) =>
           MismoBloque(ConBorradoresConfirmados(listos))
    BY <1>0, ConfirmarBloque
  <2>3. CASE GenerarConsolidado(listos) \/ GenerarConsolidadoFalla(listos)
    BY <1>a, <2>2, <2>3 DEF GenerarConsolidado, GenerarConsolidadoFalla, PuedeGenerar
  <2>4. CASE GenerarYEnviar(listos)
    <3> DEFINE plans == ConBorradoresConfirmados(listos)
    <3>1. plans \in [Planeaciones -> Planeacion]
      BY <1>0, ConfirmadosTipo
    <3>2. MismoBloque(plans) /\ Enviar(plans, DocDe(plans), TRUE, TRUE)
      BY <2>2, <2>4 DEF GenerarYEnviar, PuedeGenerar
    <3>3. QED
      BY <1>0, <3>1, <3>2, ResumenEnviar
  <2>5. CASE GenerarYEnviarRechazado(listos) \/ DescargarRegenerando(listos)
    BY <1>a, <1>b, <2>5 DEF GenerarYEnviarRechazado, DescargarRegenerando
  <2>6. QED
    BY <2>1, <2>3, <2>4, <2>5
<1>3. CASE RevisionNext
  <2>1. CASE EnviarARevision
    <3>1. MismoBloque(planeaciones)
      BY DEF MismoBloque, Existe
    <3>2. Enviar(planeaciones, config.doc, config.alDia, FALSE)
      BY <2>1 DEF EnviarARevision
    <3>3. QED
      BY <1>0, <3>1, <3>2, ResumenEnviar
  <2>2. ASSUME NEW v \in Version, SolicitarAjustes(v) \/ AprobarEntrega(v) PROVE Resumen
    BY <1>0, <2>2, ResumenAjustes, ResumenAprobar
  <2>3. ASSUME NEW v \in Version, IniciarRevision(v) \/ VerificarDescargaInvalida(v)
        PROVE  Resumen
    BY <1>a, <1>b, <2>3 DEF IniciarRevision, VerificarDescargaInvalida
  <2>4. ASSUME NEW o \in Observaciones, NEW v \in Version, CrearObservacion(o, v) PROVE Resumen
    BY <1>a, <1>b, <2>4 DEF CrearObservacion
  <2>5. ASSUME NEW o \in Observaciones, ReportarAjuste(o) \/ ResolverObservacion(o)
        PROVE  Resumen
    BY <1>a, <1>b, <2>5 DEF ReportarAjuste, ResolverObservacion
  <2>6. QED
    BY <1>3, <2>1, <2>2, <2>3, <2>4, <2>5 DEF RevisionNext
<1>4. CASE ReaperturaNext
  <2>1. ASSUME NEW q \in Solicitudes, NEW p \in Planeaciones, NEW ras \in SUBSET Resultados,
               CrearSolicitud(q, p, ras)
        PROVE  Resumen
    <3>1. UNCHANGED <<planeaciones, ultima>>
      BY <2>1 DEF CrearSolicitud
    <3>2. \A x \in Planeaciones : Autorizan(x) \subseteq Autorizan(x)'
      BY <1>0, <2>1 DEF CrearSolicitud, Autorizan, Abierta, TypeOK
    <3>3. QED
      BY <1>b, <3>1, <3>2, ResumenQuieto
  <2>2. ASSUME NEW q \in Solicitudes, NEW ras \in SUBSET Resultados, AprobarSolicitud(q, ras)
        PROVE  Resumen
    BY <1>0, <2>2, ResumenAprobarSolicitud
  <2>3. ASSUME NEW q \in Solicitudes, RechazarSolicitud(q) PROVE Resumen
    <3>1. UNCHANGED <<planeaciones, ultima>>
      BY <2>3 DEF RechazarSolicitud
    <3>2. \A x \in Planeaciones : Autorizan(x) \subseteq Autorizan(x)'
      BY <1>0, <2>3 DEF RechazarSolicitud, Autorizan, Abierta, TypeOK
    <3>3. QED
      BY <1>b, <3>1, <3>2, ResumenQuieto
  <2>4. QED
    BY <1>4, <2>1, <2>2, <2>3 DEF ReaperturaNext
<1>5. CASE UNCHANGED vars
  BY <1>5, <1>a, <1>b DEF vars
<1>6. QED
  BY <1>1, <1>2, <1>3, <1>4, <1>5 DEF Next

-----------------------------------------------------------------------------
(* Edits and approvals *)

\* An approval does not survive an edit of a planning outside reopening: the
\* controllers invalidate it in the transaction that saves or deletes.
THEOREM EdicionSiempreInvalida == Spec => EdicionInvalida
<1> DEFINE Invalida ==
       (\E v \in Version : entregas'[v].estado = "APROBADO") =>
          \A p \in Planeaciones : Existe(p) /\ ~ EnReapertura(p) =>
             BloqueDe(planeaciones'[p]) = BloqueDe(planeaciones[p])
<1>1. IndReapertura /\ [Next]_vars => [Invalida]_vars
  <2>1. SUFFICES ASSUME IndReapertura, [Next]_vars, NEW p \in Planeaciones, Existe(p),
                        ~ EnReapertura(p),
                        BloqueDe(planeaciones'[p]) # BloqueDe(planeaciones[p])
                 PROVE  \A v \in Version : entregas'[v].estado # "APROBADO"
    OBVIOUS
  <2>2. \/ \E ras \in SUBSET RAsDeActividad[p], c \in Contenidos : GuardarBorrador(p, ras, c)
        \/ EliminarPlaneacion(p)
    BY <2>1, PasoResumen DEF Resumen, SoloEdicion
  <2>3. entregas' = InvalidarAprobaciones
    BY <2>1, <2>2 DEF GuardarBorrador, InvalidarSalvoReapertura, EliminarPlaneacion
  <2>4. entregas \in [Version -> Entrega]
    BY <2>1 DEF IndReapertura, TypeOK
  <2>5. QED
    BY <2>3, <2>4 DEF InvalidarAprobaciones, Entrega
<1>2. EdicionInvalida <=> [][Invalida]_vars
  BY DEF EdicionInvalida
<1>3. QED
  BY InvarianteReapertura, <1>1, <1>2, PTL DEF Spec

-----------------------------------------------------------------------------
(* Deliveries under review *)

\* RevisadoIntacto, with the reason: without an open request the RAs of the
\* planning are all locked, so it cannot be saved.
EnRevisionCerrada ==
    \A v \in Version, p \in Planeaciones :
        entregas[v].estado \in EnCurso /\ p \in entregas[v].planes =>
            /\ planeaciones[p].estado # "AUSENTE"
            /\ Existe(p) /\ Aislada(p) /\ Autorizan(p) = {} =>
                  /\ BloqueDe(planeaciones[p]) = entregas[v].doc[p]
                  /\ \A r \in planeaciones[p].ras : Bloqueado(p, r)

\* Only a submission puts a delivery under review or changes what it contains.
LEMMA SigueEnCurso ==
    ASSUME TypeOK, EfectoEntregas, ultima' = ultima, NEW v \in Version,
           entregas'[v].estado \in EnCurso
    PROVE  /\ entregas[v].estado \in EnCurso
           /\ entregas'[v].planes = entregas[v].planes
           /\ entregas'[v].doc = entregas[v].doc
<1>0. entregas \in [Version -> Entrega] /\ ultima \in Nat
  BY ConstantesAssumption DEF TypeOK
<1>1. CASE entregas' = entregas
  BY <1>1
<1>2. CASE entregas' = InvalidarAprobaciones
  BY <1>0, <1>2 DEF InvalidarAprobaciones, Entrega, EnCurso
<1>3. ASSUME NEW w \in Version, EfectoDecision(w)
      PROVE  /\ entregas[v].estado \in EnCurso
             /\ entregas'[v].planes = entregas[v].planes
             /\ entregas'[v].doc = entregas[v].doc
  <2>1. CASE /\ entregas[w].estado \in PorIniciar
             /\ entregas' = [entregas EXCEPT ![w].estado = "EN_REVISION"]
    BY <1>0, <2>1 DEF Entrega, EnCurso, PorIniciar
  <2>2. CASE entregas' = [entregas EXCEPT ![w].estado = "AJUSTES_EN_PROGRESO"]
    BY <1>0, <2>2 DEF Entrega, EnCurso
  <2>3. ASSUME NEW e \in {"AJUSTES_SOLICITADOS", "BORRADOR"},
               entregas' = [entregas EXCEPT ![w] = [@ EXCEPT !.estado = e, !.descarga = FALSE]]
        PROVE  v # w /\ entregas'[v] = entregas[v]
    BY <1>0, <2>3 DEF Entrega, EnCurso
  <2>4. ASSUME NEW plans, NEW doc,
               entregas' = [entregas EXCEPT ![w] =
                   [estado |-> "APROBADO", descarga |-> TRUE, planes |-> plans, doc |-> doc]]
        PROVE  v # w /\ entregas'[v] = entregas[v]
    BY <1>0, <2>4 DEF EnCurso
  <2>5. QED
    BY <1>3, <2>1, <2>2, <2>3, <2>4 DEF EfectoDecision
<1>4. CASE EfectoEnvio
  BY <1>0, <1>4 DEF EfectoEnvio
<1>5. QED
  BY <1>1, <1>2, <1>3, <1>4 DEF EfectoEntregas

\* Under review a planning without an open request is out of reach of every
\* operation but its deletion, and only a request unlocks it.
LEMMA PasoEnRevision ==
    ASSUME IndReapertura, IndCandados, AlDiaFiel, UnaEntregaActiva, EnRevisionCerrada,
           [Next]_vars
    PROVE  EnRevisionCerrada'
<1>0. /\ TypeOK
      /\ TypeOK'
      /\ EfectoEntregas
      /\ UnaEntregaActiva'
      /\ Desbloqueo
      /\ Vida /\ SoloEdicion /\ CierreDeSolicitudes /\ EnvioCierra
  BY PasoTipo, PasoEntregas, PasoActiva, PasoCandados, PasoResumen DEF IndReapertura, Resumen
<1>1. SUFFICES ASSUME NEW v \in Version, NEW p \in Planeaciones,
                      entregas'[v].estado \in EnCurso, p \in entregas'[v].planes
               PROVE  /\ planeaciones'[p].estado # "AUSENTE"
                      /\ Existe(p)' /\ Aislada(p) /\ Autorizan(p)' = {} =>
                            /\ BloqueDe(planeaciones'[p]) = entregas'[v].doc[p]
                            /\ \A r \in planeaciones'[p].ras : Bloqueado(p, r)'
  BY DEF EnRevisionCerrada, Aislada, Exclusivo
<1>2. CASE ultima' # ultima
  <2>1. v = ultima'
    BY <1>0, <1>1 DEF UnaEntregaActiva
  <2>2. /\ entregas'[v].planes = Completas(planeaciones')
        /\ entregas'[v].doc = DocDe(planeaciones')
    BY <1>0, <1>2, <2>1, PasoAlDia
  <2>3. planeaciones'[p].estado = "COMPLETO"
    BY <1>1, <2>2 DEF Completas
  <2>4. BloqueDe(planeaciones'[p]) = entregas'[v].doc[p]
    BY <2>2, <2>3 DEF DocDe
  <2>5. Existe(p)'
    BY <2>3 DEF Existe
  <2>6. \A r \in planeaciones'[p].ras : Bloqueado(p, r)'
    BY <1>0, <1>2, <2>5 DEF EnvioCierra, Bloqueado
  <2>7. QED
    BY <2>3, <2>4, <2>6
<1>3. CASE ultima' = ultima
  <2>1. /\ entregas[v].estado \in EnCurso
        /\ p \in entregas[v].planes
        /\ entregas'[v].doc = entregas[v].doc
    BY <1>0, <1>1, <1>3, SigueEnCurso
  <2>2. planeaciones[p].estado # "AUSENTE"
    BY <2>1 DEF EnRevisionCerrada
  <2>3. planeaciones'[p].estado # "AUSENTE"
    BY <1>0, <2>2 DEF Vida
  <2>4. ASSUME Existe(p)', Aislada(p), Autorizan(p)' = {}
        PROVE  /\ BloqueDe(planeaciones'[p]) = entregas'[v].doc[p]
               /\ \A r \in planeaciones'[p].ras : Bloqueado(p, r)'
    <3>1. Existe(p)
      BY <1>0, <2>2, <2>4 DEF Vida
    <3>2. \A w \in Version : ~ AprobarEntrega(w)
      <4>1. SUFFICES ASSUME NEW w \in Version, AprobarEntrega(w) PROVE FALSE
        OBVIOUS
      <4>2. w = ultima' /\ entregas'[w].estado = "APROBADO"
        BY <1>0, <1>3, <4>1 DEF AprobarEntrega, TypeOK
      <4>3. v = w
        BY <1>0, <1>1, <4>2 DEF UnaEntregaActiva
      <4>4. QED
        BY <1>1, <4>2, <4>3 DEF EnCurso
    <3>3. Autorizan(p) = {}
      BY <1>0, <1>3, <2>4, <3>2 DEF CierreDeSolicitudes
    <3>4. /\ BloqueDe(planeaciones[p]) = entregas[v].doc[p]
          /\ \A r \in planeaciones[p].ras : Bloqueado(p, r)
      BY <2>1, <2>4, <3>1, <3>3 DEF EnRevisionCerrada
    <3>5. ~ \E ras \in SUBSET RAsDeActividad[p], c \in Contenidos : GuardarBorrador(p, ras, c)
      BY <3>4 DEF GuardarBorrador, TieneRAEditable
    <3>6. ~ EliminarPlaneacion(p)
      <4>1. SUFFICES ASSUME EliminarPlaneacion(p) PROVE FALSE
        OBVIOUS
      <4>2. planeaciones'[p] =
               [planeaciones[p] EXCEPT !.estado = "ELIMINADA", !.contenido = Nada, !.ras = {}]
        BY <1>0, <4>1 DEF EliminarPlaneacion, TypeOK
      <4>3. planeaciones[p] \in Planeacion
        BY <1>0 DEF TypeOK
      <4>4. planeaciones'[p].estado = "ELIMINADA"
        BY <4>2, <4>3 DEF Planeacion
      <4>5. QED
        BY <2>4, <4>4 DEF Existe
    <3>7. BloqueDe(planeaciones'[p]) = BloqueDe(planeaciones[p])
      BY <1>0, <3>1, <3>5, <3>6 DEF SoloEdicion
    <3>8. planeaciones'[p].ras = planeaciones[p].ras
      BY <3>7 DEF BloqueDe
    <3>9. ASSUME NEW r \in planeaciones[p].ras PROVE Bloqueado(p, r)'
      <4>1. Exclusivo(p, r) /\ Bloqueado(p, r)
        BY <2>4, <3>4, <3>9 DEF Aislada, IndReapertura, RAsDeSuActividad
      <4>2. ~ \E q \in Solicitudes : solicitudes'[q].plan = p /\ solicitudes'[q].estado \in Abierta
        BY <2>4 DEF Autorizan
      <4>3. QED
        BY <1>0, <3>9, <4>1, <4>2 DEF Desbloqueo
    <3>10. QED
      BY <2>1, <3>4, <3>7, <3>8, <3>9
  <2>5. QED
    BY <2>3, <2>4
<1>4. QED
  BY <1>2, <1>3

\* While a delivery is in review its plannings are the ones reviewed: whatever
\* differs was deleted or reopened by a request that is still open.
THEOREM RevisadoSiempreIntacto == Spec => []RevisadoIntacto
<1>1. Init => EnRevisionCerrada
  BY DEF Init, EnRevisionCerrada, EnCurso
<1>2. /\ IndReapertura /\ IndCandados /\ AlDiaFiel /\ UnaEntregaActiva
      /\ EnRevisionCerrada /\ [Next]_vars
      => EnRevisionCerrada'
  BY PasoEnRevision
<1>3. EnRevisionCerrada => RevisadoIntacto
  BY DEF EnRevisionCerrada, RevisadoIntacto
<1>4. QED
  BY InvarianteReapertura, InvarianteCandados, AlDiaSiempreFiel, EntregaActivaUnica,
     <1>1, <1>2, <1>3, PTL DEF Spec
=============================================================================
