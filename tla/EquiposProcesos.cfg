SPECIFICATION Spec
CONSTANTS
    Coordinaciones = {c1, c2}
    Especialidades = {e1, e2}
    coordDe <- Padre
    Transversales = {c2}
    Usuarios = {u1, u2, u3}
    Perfiles <- LosPerfiles
    Alcances <- LosAlcances
    Equipos = {t1, t2}
    Refs = {r1}
    Codigos = {k1}
    Fijas = {c1, c2, e1}
    Semilla <- LaSemilla
    Movibles = {u1}
    Nada = Nada
    Retirado = Retirado
    c1 = c1
    c2 = c2
    e1 = e1
    e2 = e2
    u1 = u1
    u2 = u2
    u3 = u3
SYMMETRY Simetria
INVARIANTS TypeOK ReferenciasVivas EspecialidadDelEquipo AccesoDelEquipo ListadoFiel
