------------------------ MODULE ConfirmacionesSolapadas ------------------------
(****************************************************************************)
(* The cycle of the blocks when the confirmation of a project takes two     *)
(* steps: it reads and checks, and later it inserts and commits, with       *)
(* anything in between, other confirmations included.  Nothing it reads is  *)
(* locked (READ COMMITTED, autoflush=False), no unique key joins two        *)
(* projects, and from the INSERT on the foreign key keeps the program there *)
(* until the commit, so that insert and commit are one step.  A program may *)
(* end up with two projects of one key; what CicloBloques says of programs  *)
(* and projects holds all the same.                                         *)
(*                                                                          *)
(* Every other handler is one step, as in CicloBloques, and so is a         *)
(* confirmation that has to heal the process of its reference: the row it   *)
(* inserts first makes others that would heal it wait for its commit.       *)
(****************************************************************************)
EXTENDS CicloBloques

CONSTANT Peticiones  \* bound: confirmations under way at once

VARIABLE lecturas    \* what each confirmation has read, or Nada

solapadas == <<vars, lecturas>>

\* `copia` is the draft with the program it was resolved to; `proc` the process
\* of the reference, Nada when that row is not there any more.
Lectura == [ref: Refs, copia: BorradorProyecto, proc: Proceso \cup {Nada}]

TypeOKSolapado == TypeOK /\ lecturas \in [Peticiones -> Lectura \cup {Nada}]

LeerConfirmacion(q, ref) ==
    LET d == borradorProyecto[ref] IN
    /\ lecturas[q] = Nada
    /\ procesos[ref] # Nada
    /\ d # Nada /\ d.vista # Nada
    /\ \E p \in Asociados(ref) :
         /\ ~Duplicado(p, d.vista)
         /\ lecturas' = [lecturas EXCEPT ![q] =
                [ref |-> ref, copia |-> [d EXCEPT !.prog = p], proc |-> procesos[ref]]]
    /\ UNCHANGED vars

\* The processes of the reference or of the program are looked for again at the
\* end, but the row that authorised the request keeps the values it was read
\* with: its program is overwritten when it had none then.
ConProyectoLeido(c, y) ==
    LET p == c.copia.prog
        halladas == {r \in Refs : procesos[r] # Nada /\ (r = c.ref \/ procesos[r].prog = p)}
        leido(r) == IF r = c.ref /\ c.proc # Nada THEN c.proc.prog ELSE procesos[r].prog
    IN [r \in Refs |-> IF halladas # {r} THEN procesos[r]
                       ELSE [procesos[r] EXCEPT !.proy = y, !.prog = IF leido(r) = Nada THEN p ELSE @]]

\* The project with the key in place of a new one (breaks ImplementaCiclo).
FilasInsertadasDefecto(p, k) ==
    IF Duplicado(p, k) THEN {y \in Formativos(p) : claveDe[y] = k}
    ELSE {y \in Proyectos : claveDe[y] = k /\ proyectos[y].estado = "NUNCA"}
FilasInsertadas(p, k) == {y \in Proyectos : claveDe[y] = k /\ proyectos[y].estado = "NUNCA"}

\* No foreign key (breaks ProyectoTrasPrograma).
ProgramaAlInsertarDefecto(p) == TRUE
ProgramaAlInsertar(p) == Existe(p)

\* The draft is written as it was read; only its state, a column nobody assigns,
\* is the one of the row.
EscribirConfirmacion(q) ==
    LET c == lecturas[q]
        p == c.copia.prog
    IN
    /\ c # Nada /\ borradorProyecto[c.ref] # Nada
    /\ ProgramaAlInsertar(p)
    /\ \E y \in FilasInsertadas(p, c.copia.vista) :
         /\ proyectos' = [proyectos EXCEPT ![y] = [estado |-> "BORRADOR", prog |-> p]]
         /\ procesos' = ConProyectoLeido(c, y)
         /\ borradorProyecto' = [borradorProyecto EXCEPT ![c.ref] =
                [c.copia EXCEPT !.estado = borradorProyecto[c.ref].estado,
                                !.confirmado = y, !.datos = TRUE]]
    /\ lecturas' = [lecturas EXCEPT ![q] = Nada]
    /\ UNCHANGED <<programas, borradorPrograma, pestana>>

\* The workbook is gone from MinIO, the program is, or the client is: nothing
\* is written.
AbandonarConfirmacion(q) ==
    /\ lecturas[q] # Nada
    /\ lecturas' = [lecturas EXCEPT ![q] = Nada]
    /\ UNCHANGED vars

\* What a step of another handler does to a confirmation under way: without the
\* row of its draft the UPDATE finds none and it rolls back, even if the
\* reference has a draft again by then.
LecturasTrasPaso ==
    lecturas' = [q \in Peticiones |->
        LET c == lecturas[q]
        IN IF c = Nada \/ borradorProyecto'[c.ref] = Nada THEN Nada
           ELSE [c EXCEPT !.proc = IF procesos'[c.ref] = Nada THEN Nada ELSE @]]

----------------------------------------------------------------------------
InitSolapado == Init /\ lecturas = [q \in Peticiones |-> Nada]

NextSolapado ==
    \/ Next /\ LecturasTrasPaso
    \/ \E q \in Peticiones :
         \/ \E ref \in Plenas : LeerConfirmacion(q, ref)
         \/ EscribirConfirmacion(q) \/ AbandonarConfirmacion(q)

SpecSolapado == InitSolapado /\ [][NextSolapado]_solapadas
=============================================================================
