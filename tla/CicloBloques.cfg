\* Two references of one team: the first gets to the project and is open in a
\* tab, the second only loads the same program.  One confirmation writes late;
\* the others that overlap with it read and write in one step.
SPECIFICATION SpecSolapado
CONSTANTS
    Refs = {r1, r2}
    Plenas = {r1}
    Programas = {p1, p2}
    Proyectos = {y1, y2}
    Codigos = {c1}
    Claves = {k1}
    Peticiones = {q1}
    codigoDe <- UnCodigo
    claveDe <- UnaClave
    Nada = Nada
    c1 = c1
    k1 = k1
    r2 = r2
SYMMETRY Simetria
CONSTRAINT Acotado
INVARIANTS TypeOK CodigoUnico ProyectoTrasPrograma
PROPERTIES CompletoSoloSeRetira ImplementaCiclo
