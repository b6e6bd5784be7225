SPECIFICATION Spec
CONSTANTS
    c1 = c1
    c2 = c2
    k1 = k1
    k2 = k2
    r1 = r1
    a1 = a1
    t1 = t1
    t2 = t2
    t3 = t3
    SinRA = SinRA
    Nada = Nada
    Codigos = {c1, c2}
    Practicas = {c2}
    IdsExcel = {k1, k2}
    Raps = {r1}
    Textos = {t1, t2, t3}
    minusculas <- MinusculasMC
    norma <- NormaMC
    Actividades = {a1}
    Matrices <- MatricesMC
    MatricesProyecto <- MatricesProyectoMC
    MaxFilas = 2
SYMMETRY Simetria
INVARIANTS
    TypeOK
    VistaPreviaImportable
    EnlaceEnCompetencia
    SinDuplicados
PROPERTIES
    BloqueadoIntacto
    NadaSePierde
