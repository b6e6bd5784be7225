------------------------ MODULE MCRevisionCurricular ------------------------
(* Small instances of RevisionCurricular.                                   *)
EXTENDS RevisionCurricular, TLC

CONSTANTS p1, p2, r1, r2

\* One activity offers every RA to each of its plannings.
RAsTodos == [p \in Planeaciones |-> Resultados]

\* Two plannings of one activity, of which the second also has an RA of its own.
RAsCompartidos == [p \in Planeaciones |-> IF p = p1 THEN {r1} ELSE {r1, r2}]

\* Two activities with an RA each.
RAsSeparados == [p \in Planeaciones |-> IF p = p1 THEN {r1} ELSE {r2}]

\* Contents are only compared, requests only told apart; neither is ordered.
Simetria == Permutations(Contenidos) \cup Permutations(Solicitudes)

-----------------------------------------------------------------------------
(* Statements of the documentation that the code does not keep *)

\* "Revisa los componentes curriculares senalados abajo, realiza los ajustes
\* solicitados y reporta las correcciones realizadas": a team asked for
\* adjustments can edit some planning of the delivery, if any is left.
AjustesEditables ==
    \A v \in Version :
        /\ v = ultima
        /\ entregas[v].estado \in {"AJUSTES_SOLICITADOS", "AJUSTES_EN_PROGRESO"}
        => \E p \in entregas[v].planes : Existe(p) => TieneRAEditable(p)

\* "Invalidate approval because contents changed after approval without
\* authorized reopening": while an approved planning is reopened, the download
\* of the approved delivery stays authorised.
ReaperturaConservaDescarga ==
    /\ \E p \in Planeaciones : Existe(p) /\ EnReapertura(p)
    /\ Autorizadas # {}
    => DescargaAutorizada

\* "if any planning in the project is in controlled reopening and an official
\* consolidated workbook was previously approved, serve the preserved official
\* key": the object behind that key, unless it was deleted, is the workbook of the
\* approved delivery.
OficialPreservado ==
    \A v \in Version :
        /\ UltimaAutorizada(v)
        /\ config.oficial /\ entregas[v].doc # SinDoc
        /\ \E p \in Planeaciones : /\ Existe(p)
                                   /\ planeaciones[p].approval = "PREVIOUS_VERSION_APPROVED"
        => objeto \in {SinDoc, entregas[v].doc}

\* "Approve all or a subset of requested Learning Results, unlocking only the
\* authorized ones": an RA of a planning opens only by a request of that
\* planning that names it.
SoloAutorizados ==
    [][ \A p \in Planeaciones : \A r \in planeaciones[p].ras :
          Bloqueado(p, r) /\ ~ Bloqueado(p, r)' =>
              \E q \in Solicitudes : /\ solicitudes[q].estado = "PENDING"
                                     /\ solicitudes[q].plan = p
                                     /\ r \in solicitudes'[q].aprobados ]_vars
=============================================================================
