SPECIFICATION SpecJusta
CONSTANTS
    Nada = Nada
    Peticiones = {i1, i2}
    Sesiones = {s1, s2, s3}
    MaxVersion = 2
INVARIANTS
    TypeOK
    FamiliaUnica
    RefrescosSinEsperaCircular
PROPERTIES
    FamiliaMuerta
    ReplayCierraFamilia
    CierreCierraFamilia
    PeticionTermina
