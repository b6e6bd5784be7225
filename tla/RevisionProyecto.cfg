SPECIFICATION Spec
CONSTANTS
    p1 = p1
    p2 = p2
    r1 = r1
    r2 = r2
    Nada = Nada
    Planeaciones = {p1, p2}
    Resultados = {r1, r2}
    Contenidos = {c1, c2}
    Observaciones = {}
    Solicitudes = {q1}
    RAsDeActividad <- RAsSeparados
    MaxVersion = 2
SYMMETRY Simetria
INVARIANTS
    TypeOK
    AprobadaBloqueada
PROPERTIES
    EdicionInvalida
