SPECIFICATION Spec
CONSTANTS
    p1 = p1
    p2 = p2
    r1 = r1
    r2 = r2
    Nada = Nada
    Planeaciones = {p1}
    Resultados = {r1}
    Contenidos = {c1, c2}
    Observaciones = {o1}
    Solicitudes = {q1}
    RAsDeActividad <- RAsTodos
    MaxVersion = 3
SYMMETRY Simetria
INVARIANTS
    UnaEntregaActiva
    DescargaCoherente
    RevisadoIntacto
    AlDiaFiel
PROPERTIES
    EntregaFiel
    SoloSolicitudDesbloquea
    ImplementaEntregas
