SPECIFICATION SpecSolapado
CONSTANTS
    Refs = {r1}
    Plenas = {r1}
    Programas = {p1, p2}
    Proyectos = {y1}
    Codigos = {c1}
    Claves = {k1}
    Peticiones = {}
    codigoDe <- UnCodigo
    claveDe <- UnaClave
    Nada = Nada
    c1 = c1
    k1 = k1
    r2 = r2
PROPERTY CargueEliminaPrograma
