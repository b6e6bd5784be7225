---------------------------- MODULE SesionesAuth ----------------------------
(****************************************************************************)
(* The refresh-token sessions of one user: login, refresh, logout, change   *)
(* of password, and the administrative operations that revoke sessions or   *)
(* change the state of the account.                                         *)
(*                                                                          *)
(* Requests run concurrently, each in a database transaction of its own     *)
(* (READ COMMITTED), so an action is one statement that reads or locks      *)
(* rows, or the commit with the writes flushed just before it.  A row lock  *)
(* lasts until the transaction ends.                                        *)
(*                                                                          *)
(* Operators named ...Defecto are plausible slips of the definition that    *)
(* follows them; no action uses them.                                       *)
(****************************************************************************)
EXTENDS Naturals

CONSTANTS
    Peticiones,    \* requests that can be in progress at once
    Sesiones,      \* identifiers (jti) of the rows of user_sessions
    Nada,          \* the request presents no session
    MaxVersion     \* bound on token_version

ASSUME SesionesAssumption ==
    /\ MaxVersion \in Nat \ {0}
    /\ Nada \notin Sesiones

VARIABLES
    usuario,       \* the row of usuarios: token_version and estado
    sesiones,      \* user_sessions, with the token_version claim of the tokens
    peticiones     \* what each request in progress has read and locked

vars == <<usuario, sesiones, peticiones>>

-----------------------------------------------------------------------------
Version == 1..MaxVersion

\* A family is named by the session of the login that opened it.
Usuario == [version: Version, activo: BOOLEAN]
Sesion == [estado: {"AUSENTE", "ACTIVA", "REVOCADA"}, familia: Sesiones, version: Version]

Paso == {"LIBRE", "LOGIN", "REFRESH", "ROTANDO", "REPLAY", "REPLAY_VISTO",
         "REPLAY_LISTO", "CIERRE", "CIERRE_VISTO", "CIERRE_USUARIO", "ALTA"}
\* `filas` are the session rows the transaction has locked; `estado` is the
\* account state it will write, IGUAL when the attribute did not change.
CambioEstado == {"IGUAL", "ACTIVO", "INACTIVO"}
Peticion == [paso: Paso, sesion: Sesiones \cup {Nada}, version: Version,
             estado: CambioEstado,
             vistas: SUBSET Sesiones, filas: SUBSET Sesiones]

TypeOK ==
    /\ usuario \in Usuario
    /\ sesiones \in [Sesiones -> Sesion]
    /\ peticiones \in [Peticiones -> Peticion]

Libre == [paso |-> "LIBRE", sesion |-> Nada, version |-> 1, estado |-> "IGUAL",
          vistas |-> {}, filas |-> {}]

Init ==
    /\ usuario = [version |-> 1, activo |-> TRUE]
    /\ sesiones = [s \in Sesiones |-> [estado |-> "AUSENTE", familia |-> s, version |-> 1]]
    /\ peticiones = [i \in Peticiones |-> Libre]

-----------------------------------------------------------------------------
(* Rows, locks and tokens *)

Existe(s) == sesiones[s].estado # "AUSENTE"
Activa(s) == sesiones[s].estado = "ACTIVA"
MismaFamilia(s, x) == Existe(s) /\ Existe(x) /\ sesiones[s].familia = sesiones[x].familia

\* A token is good while its token_version is that of the user.
Vigente(s) == Existe(s) /\ sesiones[s].version = usuario.version

\* The refresh token of s can still be exchanged.
Usable(s) == usuario.activo /\ Activa(s) /\ Vigente(s)

\* Plain SELECT, no FOR UPDATE (breaks FamiliaUnica).
SinDuenoDefecto(i, filas) == TRUE

\* No other transaction has locked any of these session rows.
SinDueno(i, filas) ==
    \A j \in Peticiones \ {i} : peticiones[j].filas \cap filas = {}

\* No other transaction has written the row of the user without ending yet.
UsuarioLibre(i) ==
    \A j \in Peticiones \ {i} : peticiones[j].paso # "CIERRE_USUARIO"

\* The consumed session is rotated again (breaks FamiliaMuerta).
ConsumidaDefecto(s) == FALSE

Consumida(s) == sesiones[s].estado = "REVOCADA"

\* The filter on revoked_at is missing (breaks RefrescosSinEsperaCircular).
ActivasDeFamiliaDefecto(s) == {x \in Sesiones : MismaFamilia(s, x)}

ActivasDeFamilia(s) == {x \in Sesiones : Activa(x) /\ MismaFamilia(s, x)}

Revocar(filas) ==
    [s \in Sesiones |-> IF s \in filas THEN [sesiones[s] EXCEPT !.estado = "REVOCADA"]
                        ELSE sesiones[s]]

\* Only the session rows are revoked (breaks ReplayCierraFamilia).
VersionTrasReplayDefecto(i) == usuario.version

\* The version is written from the value read at the start of the request.
VersionTrasReplay(i) == peticiones[i].version + 1

\* Only the session rows are revoked (breaks CierreCierraFamilia).
VersionTrasCierreDefecto(i) == usuario.version

\* Bumped by the operation and again by _revoke_all_sessions (breaks TypeOK).
VersionTrasCierreDefectoDoble(i) == peticiones[i].version + 2

VersionTrasCierre(i) == peticiones[i].version + 1

-----------------------------------------------------------------------------
(* The steps of a request *)

\* The request reads the row of the user, its token_version included.
Empezar(i, paso, s, estado) ==
    /\ peticiones[i].paso = "LIBRE"
    /\ peticiones' = [peticiones EXCEPT ![i] =
           [paso |-> paso, sesion |-> s, version |-> usuario.version, estado |-> estado,
            vistas |-> {}, filas |-> {}]]
    /\ UNCHANGED <<usuario, sesiones>>

Avanzar(i, de, a, vistas, filas) ==
    /\ peticiones[i].paso = de
    /\ peticiones' = [peticiones EXCEPT ![i] =
           [@ EXCEPT !.paso = a, !.vistas = vistas, !.filas = filas]]
    /\ UNCHANGED <<usuario, sesiones>>

\* The session is closed with its transaction open (breaks PeticionTermina).
TerminarDefecto(i, de) ==
    /\ peticiones[i].paso = de
    /\ peticiones' = [peticiones EXCEPT ![i] = [Libre EXCEPT !.filas = peticiones[i].filas]]

Terminar(i, de) ==
    /\ peticiones[i].paso = de
    /\ peticiones' = [peticiones EXCEPT ![i] = Libre]

\* A rejection, an error or a lost connection: the transaction rolls back.
\* PostgreSQL ends a deadlock the same way.
Abortar(i) ==
    /\ peticiones[i].paso # "LIBRE"
    /\ Terminar(i, peticiones[i].paso)
    /\ UNCHANGED <<usuario, sesiones>>

-----------------------------------------------------------------------------
(* POST /auth/login *)

IniciarLogin(i) ==
    /\ usuario.activo
    /\ Empezar(i, "LOGIN", Nada, "IGUAL")

\* ultimo_acceso is written too: the row of the user must be free.
ConfirmarLogin(i, s) ==
    /\ Terminar(i, "LOGIN")
    /\ UsuarioLibre(i)
    /\ ~ Existe(s)
    /\ sesiones' = [sesiones EXCEPT ![s] =
           [estado |-> "ACTIVA", familia |-> s, version |-> peticiones[i].version]]
    /\ UNCHANGED usuario

-----------------------------------------------------------------------------
(* POST /auth/refresh *)

IniciarRefresco(i, s) ==
    /\ usuario.activo
    /\ Vigente(s)
    /\ Empezar(i, "REFRESH", s, "IGUAL")

\* SELECT ... FOR UPDATE of the row of the presented token.
BloquearSesion(i) ==
    LET s == peticiones[i].sesion IN
    /\ SinDueno(i, {s})
    /\ Avanzar(i, "REFRESH", IF Consumida(s) THEN "REPLAY" ELSE "ROTANDO", {}, {s})

ConfirmarRotacion(i, nueva) ==
    LET s == peticiones[i].sesion IN
    /\ Terminar(i, "ROTANDO")
    /\ ~ Existe(nueva)
    /\ sesiones' = [Revocar({s}) EXCEPT ![nueva] =
           [estado |-> "ACTIVA", familia |-> sesiones[s].familia,
            version |-> peticiones[i].version]]
    /\ UNCHANGED usuario

\* SELECT ... FOR UPDATE of the active rows of the family: the rows are chosen
\* in the snapshot of the statement, then each is locked and read again.
VerFamilia(i) ==
    Avanzar(i, "REPLAY", "REPLAY_VISTO",
            ActivasDeFamilia(peticiones[i].sesion), peticiones[i].filas)

BloquearFamilia(i) ==
    LET vistas == peticiones[i].vistas IN
    /\ SinDueno(i, vistas)
    /\ Avanzar(i, "REPLAY_VISTO", "REPLAY_LISTO",
               {s \in vistas : Activa(s)}, peticiones[i].filas \cup vistas)

ConfirmarReplay(i) ==
    /\ Terminar(i, "REPLAY_LISTO")
    /\ UsuarioLibre(i)
    /\ peticiones[i].version < MaxVersion
    /\ sesiones' = Revocar(peticiones[i].vistas)
    /\ usuario' = [usuario EXCEPT !.version = VersionTrasReplay(i)]

-----------------------------------------------------------------------------
(* Operations that revoke every session of the user *)

\* POST /auth/logout and /auth/change-password, with the access token that was
\* issued together with session s.
IniciarCierre(i, s) ==
    /\ usuario.activo
    /\ Vigente(s)
    /\ Empezar(i, "CIERRE", s, "IGUAL")

\* An administrator resets the password or changes the roles or the scope.
IniciarRevocacion(i) == Empezar(i, "CIERRE", Nada, "IGUAL")

\* An administrator deactivates or blocks the account.
IniciarBaja(i) ==
    Empezar(i, "CIERRE", Nada, IF usuario.activo THEN "INACTIVO" ELSE "IGUAL")

\* A SELECT without FOR UPDATE.
VerSesiones(i) == Avanzar(i, "CIERRE", "CIERRE_VISTO", {s \in Sesiones : Activa(s)}, {})

\* The flush updates the row of the user first, then those of the sessions.
EscribirUsuario(i) ==
    /\ UsuarioLibre(i)
    /\ Avanzar(i, "CIERRE_VISTO", "CIERRE_USUARIO", peticiones[i].vistas, {})

ConfirmarCierre(i) ==
    /\ Terminar(i, "CIERRE_USUARIO")
    /\ SinDueno(i, peticiones[i].vistas)
    /\ peticiones[i].version < MaxVersion
    /\ sesiones' = Revocar(peticiones[i].vistas)
    /\ usuario' = [version |-> VersionTrasCierre(i),
                   activo |-> usuario.activo /\ peticiones[i].estado # "INACTIVO"]

\* An administrator activates the account: nothing is revoked.
IniciarAlta(i) ==
    Empezar(i, "ALTA", Nada, IF usuario.activo THEN "IGUAL" ELSE "ACTIVO")

ConfirmarAlta(i) ==
    /\ Terminar(i, "ALTA")
    /\ UsuarioLibre(i)
    /\ usuario' = [usuario EXCEPT !.activo = @ \/ peticiones[i].estado = "ACTIVO"]
    /\ UNCHANGED sesiones

-----------------------------------------------------------------------------
\* A request arrives.
Comenzar(i) ==
    \/ IniciarLogin(i) \/ IniciarRevocacion(i) \/ IniciarBaja(i) \/ IniciarAlta(i)
    \/ \E s \in Sesiones : IniciarRefresco(i, s) \/ IniciarCierre(i, s)

\* The server goes on with a request.
Servir(i) ==
    \/ BloquearSesion(i) \/ VerFamilia(i) \/ BloquearFamilia(i) \/ ConfirmarReplay(i)
    \/ VerSesiones(i) \/ EscribirUsuario(i) \/ ConfirmarCierre(i) \/ ConfirmarAlta(i)
    \/ \E s \in Sesiones : ConfirmarLogin(i, s) \/ ConfirmarRotacion(i, s)

Next == \E i \in Peticiones : Comenzar(i) \/ Servir(i) \/ Abortar(i)

Spec == Init /\ [][Next]_vars

-----------------------------------------------------------------------------
(* Safety *)

\* "Single-use": however refreshes of the same token interleave, a family
\* never has two sessions that are not revoked.
FamiliaUnica ==
    \A s, x \in Sesiones : Activa(s) /\ Activa(x) /\ MismaFamilia(s, x) => s = x

\* A family whose sessions are all revoked never gets an active one again: no
\* refresh that was under way when they were revoked brings it back.
FamiliaMuerta ==
    [][ \A s \in Sesiones :
          Existe(s) /\ ActivasDeFamilia(s) = {} => ActivasDeFamilia(s)' = {} ]_vars

\* When a reused token is detected no session of its family stays usable, not
\* even one a concurrent refresh committed after the family was read.
ReplayCierraFamilia ==
    [][ \A i \in Peticiones :
          ConfirmarReplay(i) =>
              \A s \in Sesiones :
                  MismaFamilia(peticiones[i].sesion, s) => ~ Usable(s)' ]_vars

\* When a logout or a change of password ends, no session of the family that
\* asked for it is usable, not even one that a refresh committed meanwhile.
CierreCierraFamilia ==
    [][ \A i \in Peticiones :
          ConfirmarCierre(i) /\ peticiones[i].sesion # Nada =>
              \A s \in Sesiones :
                  MismaFamilia(peticiones[i].sesion, s) => ~ Usable(s)' ]_vars

\* Request i waits for a row that request j has locked.
Espera(i, j) ==
    /\ i # j
    /\ LET p == peticiones[i] IN
       \/ p.paso = "REFRESH" /\ p.sesion \in peticiones[j].filas
       \/ p.paso = "REPLAY_VISTO" /\ p.vistas \cap peticiones[j].filas # {}

\* Refreshes that wait for each other's rows never form a circle, though one
\* that detects a reuse locks rows of its family one after another.
RefrescosSinEsperaCircular ==
    \A circulo \in (SUBSET Peticiones) \ {{}} :
        \E i \in circulo : \A j \in circulo : ~ Espera(i, j)

-----------------------------------------------------------------------------
(* Progress *)

\* Request i waits for a row of a session or of the user that j has locked.
Aguarda(i, j) ==
    LET p == peticiones[i] IN
    \/ Espera(i, j)
    \/ /\ i # j /\ p.paso = "CIERRE_USUARIO"
       /\ p.vistas \cap peticiones[j].filas # {}
    \/ /\ i # j /\ p.paso \in {"LOGIN", "ALTA", "REPLAY_LISTO", "CIERRE_VISTO"}
       /\ peticiones[j].paso = "CIERRE_USUARIO"

\* The detector of PostgreSQL ends the transaction.
Abrazada(i) ==
    \E circulo \in SUBSET Peticiones :
        i \in circulo /\ \A k \in circulo : \E j \in circulo : Aguarda(k, j)

\* No identifier or version is left for the request: the bounds, not the code.
Agotada(i) ==
    \/ peticiones[i].paso \in {"LOGIN", "ROTANDO"} /\ \A s \in Sesiones : Existe(s)
    \/ peticiones[i].paso \in {"REPLAY_LISTO", "CIERRE_USUARIO"}
       /\ peticiones[i].version = MaxVersion

Rendirse(i) == (Abrazada(i) \/ Agotada(i)) /\ Abortar(i)

\* A request runs on its own, waits for a row in a queue that is served in
\* order, and is ended when it waits in a circle.
SpecJusta ==
    Spec /\ \A i \in Peticiones : SF_vars(Servir(i)) /\ WF_vars(Rendirse(i))

\* No request waits for ever: the rows that logins, refreshes, replays and
\* closings lock in different orders are always released.
PeticionTermina ==
    \A i \in Peticiones : []<>(peticiones[i].paso = "LIBRE")
=============================================================================
