SPECIFICATION Spec
CONSTANTS
    p1 = p1
    p2 = p2
    r1 = r1
    r2 = r2
    Nada = Nada
    Planeaciones = {p1}
    Resultados = {r1}
    Contenidos = {c1}
    Observaciones = {o1}
    Solicitudes = {q1}
    RAsDeActividad <- RAsTodos
    MaxVersion = 2
SYMMETRY Simetria
INVARIANTS
    AjustesEditables
