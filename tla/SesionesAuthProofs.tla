------------------------- MODULE SesionesAuthProofs -------------------------
(****************************************************************************)
(* Proofs about SesionesAuth: for any number of concurrent requests and of  *)
(* sessions, the families of refresh tokens keep one active session at      *)
(* most, and once closed they stay closed.                                  *)
(****************************************************************************)
EXTENDS SesionesAuth, TLAPS

-----------------------------------------------------------------------------
(* The inductive invariant *)

\* A family outlives the session that named it, and its tokens all carry the
\* token_version of the login that opened it.
FamiliaConRaiz ==
    \A s \in Sesiones :
        Existe(s) => /\ Existe(sesiones[s].familia)
                     /\ sesiones[s].version = sesiones[sesiones[s].familia].version

\* A row is locked by one transaction at a time.
FilasConUnDueno ==
    \A i, j \in Peticiones :
        i # j => peticiones[i].filas \cap peticiones[j].filas = {}

\* What a request presents is a session of the version the request read; a
\* rotation holds the row it will revoke, and a replay all of them.
Coherente(i) ==
    LET p == peticiones[i] IN
    /\ p.paso \in {"REFRESH", "ROTANDO", "REPLAY", "REPLAY_VISTO", "REPLAY_LISTO"}
           => p.sesion \in Sesiones
    /\ p.sesion \in Sesiones => Existe(p.sesion) /\ sesiones[p.sesion].version = p.version
    /\ p.paso = "ROTANDO" => p.sesion \in p.filas /\ Activa(p.sesion)
    /\ p.paso = "REPLAY_LISTO" => p.vistas \subseteq p.filas
    /\ \A s \in p.vistas : Existe(s)

IndSesiones ==
    /\ TypeOK
    /\ FamiliaConRaiz
    /\ FilasConUnDueno
    /\ \A i \in Peticiones : Coherente(i)
    /\ FamiliaUnica

\* What a refresh holds while it may have to wait: nothing when it presents its
\* token, and the row of that token alone once it has found it consumed.
Sostiene(i) ==
    LET p == peticiones[i] IN
    /\ p.paso = "REFRESH" => p.filas = {}
    /\ p.paso \in {"REPLAY", "REPLAY_VISTO"} => p.filas = {p.sesion} /\ Consumida(p.sesion)

\* The replays that have read their family and not locked it yet.
Replays == {i \in Peticiones : peticiones[i].paso = "REPLAY_VISTO"}

\* The replays can be ordered: of any of them, one has seen the token of none
\* of the others.  (The last one to read its family found their tokens revoked.)
ReplaysOrdenados ==
    \A circulo \in (SUBSET Replays) \ {{}} :
        \E i \in circulo : \A j \in circulo :
            i # j => peticiones[j].sesion \notin peticiones[i].vistas

IndEsperas ==
    /\ \A i \in Peticiones : Sostiene(i)
    /\ ReplaysOrdenados

-----------------------------------------------------------------------------
(* Type correctness *)

\* A request that is not in progress is well formed.
LEMMA LibreTipo == Libre \in Peticion /\ Libre.version \in Version
BY SesionesAssumption DEF Libre, Peticion, Paso, Version, CambioEstado

\* The database of a user that has not logged in yet is well formed.
LEMMA TipoInicial == Init => TypeOK
<1> SUFFICES ASSUME Init PROVE TypeOK
  OBVIOUS
<1>1. usuario \in Usuario
  BY SesionesAssumption DEF Init, Usuario, Version
<1>2. sesiones \in [Sesiones -> Sesion]
  BY SesionesAssumption DEF Init, Sesion, Version
<1>3. peticiones \in [Peticiones -> Peticion]
  BY LibreTipo DEF Init
<1>4. QED
  BY <1>1, <1>2, <1>3 DEF TypeOK

\* A new request keeps the types.
LEMMA EmpezarTipo ==
    ASSUME TypeOK, NEW i \in Peticiones, NEW paso \in Paso, NEW s \in Sesiones \cup {Nada},
           NEW estado \in CambioEstado, Empezar(i, paso, s, estado)
    PROVE  TypeOK'
<1>1. [paso |-> paso, sesion |-> s, version |-> usuario.version, estado |-> estado,
       vistas |-> {}, filas |-> {}] \in Peticion
  BY DEF TypeOK, Usuario, Peticion
<1>2. QED
  BY <1>1 DEF TypeOK, Empezar

\* So does a step of a request that only reads or locks.
LEMMA AvanzarTipo ==
    ASSUME TypeOK, NEW i \in Peticiones, NEW de, NEW a \in Paso,
           NEW vistas \in SUBSET Sesiones, NEW filas \in SUBSET Sesiones,
           Avanzar(i, de, a, vistas, filas)
    PROVE  TypeOK'
<1>1. [peticiones[i] EXCEPT !.paso = a, !.vistas = vistas, !.filas = filas] \in Peticion
  BY DEF TypeOK, Peticion
<1>2. QED
  BY <1>1 DEF TypeOK, Avanzar

\* So does the end of a request.
LEMMA TerminarTipo ==
    ASSUME TypeOK, NEW i \in Peticiones, NEW de, Terminar(i, de)
    PROVE  peticiones' \in [Peticiones -> Peticion]
BY LibreTipo DEF TypeOK, Terminar

\* Revoking rows leaves a table of sessions.
LEMMA RevocarTipo ==
    ASSUME TypeOK, NEW filas
    PROVE  Revocar(filas) \in [Sesiones -> Sesion]
BY DEF TypeOK, Revocar, Sesion

\* The types hold after every step: a refresh locks the session it presents.
LEMMA TipoPaso == IndSesiones /\ [Next]_vars => TypeOK'
<1> SUFFICES ASSUME IndSesiones, [Next]_vars PROVE TypeOK'
  OBVIOUS
<1> USE DEF IndSesiones
<1>1. CASE UNCHANGED vars
  BY <1>1 DEF TypeOK, vars
<1>2. ASSUME NEW i \in Peticiones, Comenzar(i) PROVE TypeOK'
  <2>1. \E paso \in Paso, s \in Sesiones \cup {Nada}, estado \in CambioEstado :
            Empezar(i, paso, s, estado)
    BY <1>2 DEF Comenzar, IniciarLogin, IniciarRevocacion, IniciarBaja, IniciarAlta,
                IniciarRefresco, IniciarCierre, Paso, CambioEstado
  <2>2. QED
    BY <2>1, EmpezarTipo
<1>3. ASSUME NEW i \in Peticiones, BloquearSesion(i) PROVE TypeOK'
  <2>1. peticiones[i].sesion \in Sesiones
    BY <1>3 DEF BloquearSesion, Avanzar, Coherente
  <2>2. \E a \in Paso : Avanzar(i, "REFRESH", a, {}, {peticiones[i].sesion})
    BY <1>3 DEF BloquearSesion, Paso
  <2>3. QED
    BY <2>1, <2>2, AvanzarTipo
<1>4. ASSUME NEW i \in Peticiones, VerFamilia(i) \/ BloquearFamilia(i) PROVE TypeOK'
  <2>1. /\ peticiones[i].filas \in SUBSET Sesiones
        /\ peticiones[i].vistas \in SUBSET Sesiones
        /\ ActivasDeFamilia(peticiones[i].sesion) \in SUBSET Sesiones
        /\ {"REPLAY_VISTO", "REPLAY_LISTO"} \subseteq Paso
    BY DEF TypeOK, Peticion, ActivasDeFamilia, Paso
  <2>2. CASE VerFamilia(i)
    BY <2>1, <2>2, AvanzarTipo DEF VerFamilia
  <2>3. CASE BloquearFamilia(i)
    BY <2>1, <2>3, AvanzarTipo DEF BloquearFamilia
  <2>4. QED
    BY <1>4, <2>2, <2>3
<1>5. ASSUME NEW i \in Peticiones, VerSesiones(i) \/ EscribirUsuario(i) PROVE TypeOK'
  <2>1. /\ peticiones[i].vistas \in SUBSET Sesiones
        /\ {"CIERRE_VISTO", "CIERRE_USUARIO"} \subseteq Paso
    BY DEF TypeOK, Peticion, Paso
  <2>2. CASE VerSesiones(i)
    BY <2>1, <2>2, AvanzarTipo DEF VerSesiones
  <2>3. CASE EscribirUsuario(i)
    BY <2>1, <2>3, AvanzarTipo DEF EscribirUsuario
  <2>4. QED
    BY <1>5, <2>2, <2>3
<1>6. ASSUME NEW i \in Peticiones, ConfirmarReplay(i) \/ ConfirmarCierre(i) PROVE TypeOK'
  <2>1. /\ peticiones' \in [Peticiones -> Peticion]
        /\ sesiones' \in [Sesiones -> Sesion]
    BY <1>6, TerminarTipo, RevocarTipo DEF ConfirmarReplay, ConfirmarCierre
  <2>2. /\ peticiones[i].version < MaxVersion
        /\ peticiones[i].version \in Version
    BY <1>6 DEF ConfirmarReplay, ConfirmarCierre, TypeOK, Peticion
  <2>3. peticiones[i].version + 1 \in Version
    BY <2>2, SesionesAssumption DEF Version
  <2>4. CASE ConfirmarReplay(i)
    BY <2>1, <2>3, <2>4 DEF ConfirmarReplay, VersionTrasReplay, TypeOK, Usuario
  <2>5. CASE ConfirmarCierre(i)
    <3>1. (usuario.activo /\ peticiones[i].estado # "INACTIVO") \in BOOLEAN
      OBVIOUS
    <3>2. usuario' \in Usuario
      BY <2>3, <2>5, <3>1 DEF ConfirmarCierre, VersionTrasCierre, Usuario
    <3>3. QED
      BY <2>1, <3>2 DEF TypeOK
  <2>6. QED
    BY <1>6, <2>4, <2>5
<1>7. ASSUME NEW i \in Peticiones, ConfirmarAlta(i) PROVE TypeOK'
  <2>1. usuario' \in Usuario
    BY <1>7 DEF ConfirmarAlta, TypeOK, Usuario
  <2>2. QED
    BY <1>7, <2>1, TerminarTipo DEF ConfirmarAlta, TypeOK
<1>8. ASSUME NEW i \in Peticiones, NEW s \in Sesiones, ConfirmarLogin(i, s) PROVE TypeOK'
  <2>1. [estado |-> "ACTIVA", familia |-> s, version |-> peticiones[i].version] \in Sesion
    BY DEF TypeOK, Peticion, Sesion
  <2>2. QED
    BY <1>8, <2>1, TerminarTipo DEF ConfirmarLogin, TypeOK
<1>9. ASSUME NEW i \in Peticiones, NEW s \in Sesiones, ConfirmarRotacion(i, s) PROVE TypeOK'
  <2>1. peticiones[i].sesion \in Sesiones
    BY <1>9 DEF ConfirmarRotacion, Terminar, Coherente
  <2>2. [estado |-> "ACTIVA", familia |-> sesiones[peticiones[i].sesion].familia,
         version |-> peticiones[i].version] \in Sesion
    BY <2>1 DEF TypeOK, Peticion, Sesion
  <2>3. Revocar({peticiones[i].sesion}) \in [Sesiones -> Sesion]
    BY RevocarTipo
  <2>4. QED
    BY <1>9, <2>2, <2>3, TerminarTipo DEF ConfirmarRotacion, TypeOK
<1>10. ASSUME NEW i \in Peticiones, Abortar(i) PROVE TypeOK'
  BY <1>10, TerminarTipo DEF Abortar, TypeOK
<1>11. QED
  BY <1>1, <1>2, <1>3, <1>4, <1>5, <1>6, <1>7, <1>8, <1>9, <1>10 DEF Next, Servir

-----------------------------------------------------------------------------
(* Steps that only read or lock *)

\* A step that leaves the rows alone keeps the invariant if the request that
\* took it stays coherent and locks no row of another.
LEMMA SoloPeticion ==
    ASSUME IndSesiones, TypeOK', NEW i \in Peticiones,
           UNCHANGED <<usuario, sesiones>>,
           \A j \in Peticiones \ {i} : peticiones'[j] = peticiones[j],
           \A j \in Peticiones \ {i} : peticiones'[i].filas \cap peticiones[j].filas = {},
           Coherente(i)'
    PROVE  IndSesiones'
<1>1. FamiliaConRaiz' /\ FamiliaUnica'
  BY DEF IndSesiones, FamiliaConRaiz, FamiliaUnica, Existe, Activa, MismaFamilia
<1>2. FilasConUnDueno'
  BY DEF IndSesiones, FilasConUnDueno
<1>3. ASSUME NEW j \in Peticiones PROVE Coherente(j)'
  BY DEF IndSesiones, Coherente, Existe, Activa
<1>4. QED
  BY <1>1, <1>2, <1>3 DEF IndSesiones

\* The start of a request.
LEMMA ComenzarInd ==
    ASSUME IndSesiones, TypeOK', NEW i \in Peticiones, Comenzar(i)
    PROVE  IndSesiones'
<1>1. PICK paso \in {"LOGIN", "REFRESH", "CIERRE", "ALTA"}, s \in Sesiones \cup {Nada},
           estado \in CambioEstado :
        /\ Empezar(i, paso, s, estado)
        /\ paso = "REFRESH" => s \in Sesiones
        /\ s \in Sesiones => Vigente(s)
  BY SesionesAssumption
  DEF Comenzar, IniciarLogin, IniciarRevocacion, IniciarBaja, IniciarAlta,
      IniciarRefresco, IniciarCierre, CambioEstado
<1>2. /\ UNCHANGED <<usuario, sesiones>>
      /\ \A j \in Peticiones \ {i} : peticiones'[j] = peticiones[j]
      /\ peticiones'[i] = [paso |-> paso, sesion |-> s, version |-> usuario.version,
                          estado |-> estado, vistas |-> {}, filas |-> {}]
  BY <1>1 DEF Empezar, IndSesiones, TypeOK
<1>3. Coherente(i)'
  BY <1>1, <1>2 DEF Coherente, Vigente, Existe
<1>4. QED
  BY <1>2, <1>3, SoloPeticion

\* A step of a request in progress changes what it has read and locked.
LEMMA AvanzarEfecto ==
    ASSUME TypeOK, NEW i \in Peticiones, NEW de, NEW a, NEW vistas, NEW filas,
           Avanzar(i, de, a, vistas, filas)
    PROVE  /\ peticiones[i].paso = de
           /\ UNCHANGED <<usuario, sesiones>>
           /\ \A j \in Peticiones \ {i} : peticiones'[j] = peticiones[j]
           /\ peticiones'[i].paso = a
           /\ peticiones'[i].sesion = peticiones[i].sesion
           /\ peticiones'[i].version = peticiones[i].version
           /\ peticiones'[i].vistas = vistas
           /\ peticiones'[i].filas = filas
BY DEF TypeOK, Peticion, Avanzar

\* The lock of the presented session, and which way the refresh goes.
LEMMA BloquearSesionInd ==
    ASSUME IndSesiones, TypeOK', NEW i \in Peticiones, BloquearSesion(i)
    PROVE  IndSesiones'
<1> DEFINE s == peticiones[i].sesion
           a == IF Consumida(s) THEN "REPLAY" ELSE "ROTANDO"
<1>1. /\ Avanzar(i, "REFRESH", a, {}, {s})
      /\ SinDueno(i, {s})
  BY DEF BloquearSesion
<1>2. /\ peticiones[i].paso = "REFRESH"
      /\ UNCHANGED <<usuario, sesiones>>
      /\ \A j \in Peticiones \ {i} : peticiones'[j] = peticiones[j]
      /\ peticiones'[i].paso = a
      /\ peticiones'[i].sesion = s
      /\ peticiones'[i].version = peticiones[i].version
      /\ peticiones'[i].vistas = {}
      /\ peticiones'[i].filas = {s}
  BY <1>1, AvanzarEfecto DEF IndSesiones
<1>3. s \in Sesiones /\ Existe(s) /\ sesiones[s].version = peticiones[i].version
  BY <1>2 DEF IndSesiones, Coherente
<1>4. a = "ROTANDO" => Activa(s)
  BY <1>3 DEF Consumida, Activa, Existe, IndSesiones, TypeOK, Sesion
<1>5. a \in {"REPLAY", "ROTANDO"}
  OBVIOUS
<1>6. Coherente(i)'
  BY <1>2, <1>3, <1>4, <1>5 DEF Coherente, Existe, Activa
<1>7. \A j \in Peticiones \ {i} : peticiones'[i].filas \cap peticiones[j].filas = {}
  BY <1>1, <1>2 DEF SinDueno
<1>8. QED
  BY <1>2, <1>6, <1>7, SoloPeticion

\* The two halves of the locking of a family.
LEMMA FamiliaInd ==
    ASSUME IndSesiones, TypeOK', NEW i \in Peticiones, VerFamilia(i) \/ BloquearFamilia(i)
    PROVE  IndSesiones'
<1>1. CASE VerFamilia(i)
  <2> DEFINE vistas == ActivasDeFamilia(peticiones[i].sesion)
             filas == peticiones[i].filas
  <2>1. Avanzar(i, "REPLAY", "REPLAY_VISTO", vistas, filas)
    BY <1>1 DEF VerFamilia
  <2>2. /\ peticiones[i].paso = "REPLAY"
        /\ UNCHANGED <<usuario, sesiones>>
        /\ \A j \in Peticiones \ {i} : peticiones'[j] = peticiones[j]
        /\ peticiones'[i].paso = "REPLAY_VISTO"
        /\ peticiones'[i].sesion = peticiones[i].sesion
        /\ peticiones'[i].version = peticiones[i].version
        /\ peticiones'[i].vistas = vistas
        /\ peticiones'[i].filas = filas
    BY <2>1, AvanzarEfecto DEF IndSesiones
  <2>3. \A s \in vistas : Existe(s)
    BY DEF ActivasDeFamilia, Activa, Existe
  <2>4. Coherente(i)'
    BY <2>2, <2>3 DEF IndSesiones, Coherente, Existe
  <2>5. QED
    BY <2>2, <2>4, SoloPeticion DEF IndSesiones, FilasConUnDueno
<1>2. CASE BloquearFamilia(i)
  <2> DEFINE vistas == peticiones[i].vistas
             vivas == {s \in vistas : Activa(s)}
             filas == peticiones[i].filas \cup vistas
  <2>1. /\ Avanzar(i, "REPLAY_VISTO", "REPLAY_LISTO", vivas, filas)
        /\ SinDueno(i, vistas)
    BY <1>2 DEF BloquearFamilia
  <2>2. /\ peticiones[i].paso = "REPLAY_VISTO"
        /\ UNCHANGED <<usuario, sesiones>>
        /\ \A j \in Peticiones \ {i} : peticiones'[j] = peticiones[j]
        /\ peticiones'[i].paso = "REPLAY_LISTO"
        /\ peticiones'[i].sesion = peticiones[i].sesion
        /\ peticiones'[i].version = peticiones[i].version
        /\ peticiones'[i].vistas = vivas
        /\ peticiones'[i].filas = filas
    BY <2>1, AvanzarEfecto DEF IndSesiones
  <2>3. Coherente(i)'
    BY <2>2 DEF IndSesiones, Coherente, Existe
  <2>4. \A j \in Peticiones \ {i} : peticiones'[i].filas \cap peticiones[j].filas = {}
    BY <2>1, <2>2 DEF SinDueno, IndSesiones, FilasConUnDueno
  <2>5. QED
    BY <2>2, <2>3, <2>4, SoloPeticion
<1>3. QED
  BY <1>1, <1>2

\* The steps of a closing before its commit: it holds no session row.
LEMMA CierreInd ==
    ASSUME IndSesiones, TypeOK', NEW i \in Peticiones, VerSesiones(i) \/ EscribirUsuario(i)
    PROVE  IndSesiones'
<1>1. PICK a \in {"CIERRE_VISTO", "CIERRE_USUARIO"} :
          \E de, vistas : /\ Avanzar(i, de, a, vistas, {})
                          /\ \A s \in vistas : Existe(s)
  BY DEF VerSesiones, EscribirUsuario, IndSesiones, Coherente, Activa, Existe
<1>2. /\ UNCHANGED <<usuario, sesiones>>
      /\ \A j \in Peticiones \ {i} : peticiones'[j] = peticiones[j]
      /\ peticiones'[i].paso = a
      /\ peticiones'[i].sesion = peticiones[i].sesion
      /\ peticiones'[i].version = peticiones[i].version
      /\ \A s \in peticiones'[i].vistas : Existe(s)
      /\ peticiones'[i].filas = {}
  BY <1>1, AvanzarEfecto DEF IndSesiones
<1>3. Coherente(i)'
  BY <1>1, <1>2 DEF IndSesiones, Coherente, Existe
<1>4. QED
  BY <1>2, <1>3, SoloPeticion

-----------------------------------------------------------------------------
(* Steps that end a request *)

\* A step that ends request i keeps the invariant if sessions only appear or
\* are revoked, one active in a family, and the ones being rotated stay active.
LEMMA FinPeticion ==
    ASSUME IndSesiones, TypeOK', NEW i \in Peticiones, NEW de, Terminar(i, de),
           \A s \in Sesiones : Existe(s) => /\ Existe(s)'
                                            /\ sesiones'[s].version = sesiones[s].version,
           FamiliaConRaiz', FamiliaUnica',
           \A j \in Peticiones \ {i}, s \in Sesiones :
               peticiones[j].paso = "ROTANDO" /\ peticiones[j].sesion = s => Activa(s)'
    PROVE  IndSesiones'
<1>1. /\ peticiones'[i] = Libre
      /\ \A j \in Peticiones \ {i} : peticiones'[j] = peticiones[j]
  BY DEF Terminar, IndSesiones, TypeOK
<1>2. FilasConUnDueno'
  BY <1>1 DEF IndSesiones, FilasConUnDueno, Libre
<1>3. Coherente(i)'
  BY <1>1, SesionesAssumption DEF Coherente, Libre
<1>4. ASSUME NEW j \in Peticiones \ {i} PROVE Coherente(j)'
  <2>1. Coherente(j) /\ peticiones'[j] = peticiones[j]
    BY <1>1 DEF IndSesiones
  <2>2. /\ \A s \in peticiones[j].vistas : Existe(s)'
        /\ peticiones[j].sesion \in Sesiones =>
               /\ Existe(peticiones[j].sesion)'
               /\ sesiones'[peticiones[j].sesion].version = peticiones[j].version
    BY <2>1 DEF Coherente, IndSesiones, TypeOK, Peticion
  <2>3. QED
    BY <2>1, <2>2 DEF Coherente, Existe, Activa
<1>5. QED
  BY <1>2, <1>3, <1>4 DEF IndSesiones

\* Revoking rows that no rotation in progress holds.
LEMMA RevocarInd ==
    ASSUME IndSesiones, TypeOK', NEW i \in Peticiones, NEW de, Terminar(i, de),
           NEW filas, sesiones' = Revocar(filas), \A s \in filas : Existe(s),
           \A j \in Peticiones \ {i} : peticiones[j].filas \cap filas = {}
    PROVE  IndSesiones'
<1>1. ASSUME NEW s \in Sesiones
      PROVE  /\ sesiones'[s].familia = sesiones[s].familia
             /\ sesiones'[s].version = sesiones[s].version
             /\ Existe(s)' <=> Existe(s)
             /\ Activa(s)' <=> Activa(s) /\ s \notin filas
  <2>1. sesiones[s] \in Sesion
    BY DEF IndSesiones, TypeOK
  <2>2. CASE s \in filas
    <3>1. sesiones'[s] = [sesiones[s] EXCEPT !.estado = "REVOCADA"]
      BY <2>2 DEF Revocar
    <3>2. QED
      BY <2>1, <2>2, <3>1 DEF Sesion, Existe, Activa
  <2>3. CASE s \notin filas
    <3>1. sesiones'[s] = sesiones[s]
      BY <2>3 DEF Revocar
    <3>2. QED
      BY <2>3, <3>1 DEF Existe, Activa
  <2>4. QED
    BY <2>2, <2>3
<1>2. \A s \in Sesiones : sesiones[s].familia \in Sesiones
  BY DEF IndSesiones, TypeOK, Sesion
<1>3. FamiliaConRaiz'
  BY <1>1, <1>2 DEF IndSesiones, FamiliaConRaiz
<1>4. FamiliaUnica'
  BY <1>1 DEF IndSesiones, FamiliaUnica, MismaFamilia
<1>5. ASSUME NEW j \in Peticiones \ {i}, NEW x \in Sesiones,
             peticiones[j].paso = "ROTANDO", peticiones[j].sesion = x
      PROVE  Activa(x)'
  <2>1. Coherente(j)
    BY DEF IndSesiones
  <2>2. x \in peticiones[j].filas /\ Activa(x)
    BY <1>5, <2>1 DEF Coherente
  <2>3. QED
    BY <1>1, <2>2
<1>6. QED
  BY <1>1, <1>3, <1>4, <1>5, FinPeticion

\* The commit of a replay and of a closing.
LEMMA ConfirmarRevocacionInd ==
    ASSUME IndSesiones, TypeOK', NEW i \in Peticiones, ConfirmarReplay(i) \/ ConfirmarCierre(i)
    PROVE  IndSesiones'
<1> DEFINE vistas == peticiones[i].vistas
<1>1. \A s \in vistas : Existe(s)
  BY DEF IndSesiones, Coherente
<1>2. CASE ConfirmarReplay(i)
  <2>1. peticiones[i].paso = "REPLAY_LISTO"
    BY <1>2 DEF ConfirmarReplay, Terminar
  <2>2. vistas \subseteq peticiones[i].filas
    BY <2>1 DEF IndSesiones, Coherente
  <2>3. \A j \in Peticiones \ {i} : peticiones[j].filas \cap vistas = {}
    BY <2>2 DEF IndSesiones, FilasConUnDueno
  <2>4. QED
    BY <1>1, <1>2, <2>3, RevocarInd DEF ConfirmarReplay
<1>3. CASE ConfirmarCierre(i)
  BY <1>1, <1>3, RevocarInd DEF ConfirmarCierre, SinDueno
<1>4. QED
  BY <1>2, <1>3

\* A rejection, an activation of the account: no session changes.
LEMMA SinSesionesInd ==
    ASSUME IndSesiones, TypeOK', NEW i \in Peticiones, Abortar(i) \/ ConfirmarAlta(i)
    PROVE  IndSesiones'
<1>1. UNCHANGED sesiones /\ \E de : Terminar(i, de)
  BY DEF Abortar, ConfirmarAlta
<1>2. FamiliaConRaiz' /\ FamiliaUnica'
  BY <1>1 DEF IndSesiones, FamiliaConRaiz, FamiliaUnica, Existe, Activa, MismaFamilia
<1>3. ASSUME NEW j \in Peticiones \ {i}, NEW x \in Sesiones,
             peticiones[j].paso = "ROTANDO", peticiones[j].sesion = x
      PROVE  Activa(x)'
  BY <1>1, <1>3 DEF IndSesiones, Coherente, Activa
<1>4. QED
  BY <1>1, <1>2, <1>3, FinPeticion DEF Existe

\* A login opens a family of its own.
LEMMA ConfirmarLoginInd ==
    ASSUME IndSesiones, TypeOK', NEW i \in Peticiones, NEW s \in Sesiones, ConfirmarLogin(i, s)
    PROVE  IndSesiones'
<1>1. /\ ~ Existe(s)
      /\ Terminar(i, "LOGIN")
      /\ sesiones' = [sesiones EXCEPT ![s] =
             [estado |-> "ACTIVA", familia |-> s, version |-> peticiones[i].version]]
  BY DEF ConfirmarLogin
<1>2. /\ Existe(s)' /\ sesiones'[s].familia = s
      /\ \A x \in Sesiones \ {s} : sesiones'[x] = sesiones[x]
  BY <1>1 DEF IndSesiones, TypeOK, Existe
<1>3. \A x \in Sesiones : /\ sesiones[x].familia \in Sesiones
                          /\ Existe(x) => sesiones[x].familia # s
  BY <1>1 DEF IndSesiones, TypeOK, Sesion, FamiliaConRaiz
<1>4. FamiliaConRaiz'
  <2>1. ASSUME NEW x \in Sesiones \ {s}, Existe(x)'
        PROVE  /\ Existe(sesiones[x].familia)'
               /\ sesiones'[x].version = sesiones'[sesiones'[x].familia].version
    <3>1. Existe(x) /\ sesiones'[x] = sesiones[x]
      BY <1>2, <2>1 DEF Existe
    <3>2. PICK f \in Sesiones \ {s} : f = sesiones[x].familia
      BY <1>3, <3>1
    <3>3. Existe(f) /\ sesiones[x].version = sesiones[f].version
      BY <3>1, <3>2 DEF IndSesiones, FamiliaConRaiz
    <3>4. Existe(f)' /\ sesiones'[f] = sesiones[f]
      BY <1>2, <3>3 DEF Existe
    <3>5. QED
      BY <3>1, <3>2, <3>3, <3>4 DEF Existe
  <2>2. sesiones'[s].version = sesiones'[sesiones'[s].familia].version
    BY <1>2
  <2>3. QED
    BY <1>2, <2>1, <2>2 DEF FamiliaConRaiz, Existe
<1>5. FamiliaUnica'
  BY <1>2, <1>3 DEF IndSesiones, FamiliaUnica, MismaFamilia, Existe, Activa
<1>6. ASSUME NEW j \in Peticiones \ {i}, NEW x \in Sesiones,
             peticiones[j].paso = "ROTANDO", peticiones[j].sesion = x
      PROVE  Activa(x)'
  <2>1. Coherente(j)
    BY DEF IndSesiones
  <2>2. x \in Sesiones \ {s} /\ Activa(x)
    BY <1>1, <1>6, <2>1 DEF Coherente, Existe
  <2>3. QED
    BY <1>2, <2>2 DEF Activa
<1>7. QED
  BY <1>1, <1>2, <1>4, <1>5, <1>6, FinPeticion DEF Existe

\* A rotation replaces the only active session of the family.
LEMMA ConfirmarRotacionInd ==
    ASSUME IndSesiones, TypeOK', NEW i \in Peticiones, NEW nueva \in Sesiones,
           ConfirmarRotacion(i, nueva)
    PROVE  IndSesiones'
<1>1. /\ ~ Existe(nueva)
      /\ Terminar(i, "ROTANDO")
      /\ sesiones' = [Revocar({peticiones[i].sesion}) EXCEPT ![nueva] =
             [estado |-> "ACTIVA", familia |-> sesiones[peticiones[i].sesion].familia,
              version |-> peticiones[i].version]]
  BY DEF ConfirmarRotacion
<1>2. Coherente(i) /\ peticiones[i].paso = "ROTANDO"
  BY <1>1 DEF IndSesiones, Terminar
<1>3. PICK s \in Sesiones :
        /\ s = peticiones[i].sesion /\ s \in peticiones[i].filas
        /\ Existe(s) /\ Activa(s) /\ sesiones[s].version = peticiones[i].version
  BY <1>2 DEF Coherente
<1>4. /\ sesiones'[nueva] = [estado |-> "ACTIVA", familia |-> sesiones[s].familia,
                            version |-> sesiones[s].version]
      /\ sesiones'[s] = [sesiones[s] EXCEPT !.estado = "REVOCADA"]
      /\ \A x \in Sesiones \ {s, nueva} : sesiones'[x] = sesiones[x]
  BY <1>1, <1>3 DEF Revocar
<1>5. sesiones[s] \in Sesion /\ s # nueva
  BY <1>1, <1>3 DEF IndSesiones, TypeOK
<1>6. /\ Existe(nueva)' /\ Existe(s)' /\ ~ Activa(s)'
      /\ sesiones'[s].familia = sesiones[s].familia
      /\ sesiones'[s].version = sesiones[s].version
      /\ \A x \in Sesiones \ {s, nueva} : (Existe(x)' <=> Existe(x)) /\ (Activa(x)' <=> Activa(x))
  BY <1>4, <1>5 DEF Existe, Activa, Sesion
<1>7. \A x \in Sesiones : Existe(x) => /\ Existe(x)'
                                       /\ sesiones'[x].familia = sesiones[x].familia
                                       /\ sesiones'[x].version = sesiones[x].version
  BY <1>1, <1>4, <1>6
<1>8. \A x \in Sesiones : sesiones[x].familia \in Sesiones
  BY DEF IndSesiones, TypeOK, Sesion
<1>9. FamiliaConRaiz'
  <2>1. ASSUME NEW x \in Sesiones, Existe(x)
        PROVE  /\ Existe(sesiones[x].familia)'
               /\ sesiones'[x].version = sesiones'[sesiones[x].familia].version
               /\ sesiones'[x].familia = sesiones[x].familia
    BY <1>7, <1>8, <2>1 DEF IndSesiones, FamiliaConRaiz
  <2>2. ASSUME NEW x \in Sesiones, Existe(x)', x # nueva PROVE Existe(x)
    BY <1>3, <1>6, <2>2
  <2>3. /\ sesiones'[nueva].familia = sesiones'[s].familia
        /\ sesiones'[nueva].version = sesiones'[s].version
    BY <1>4, <1>6
  <2>4. QED
    BY <1>3, <1>6, <2>1, <2>2, <2>3 DEF FamiliaConRaiz
<1>10. FamiliaUnica'
  <2>1. ASSUME NEW x \in Sesiones \ {nueva}, Activa(x)'
        PROVE  /\ Activa(x) /\ Existe(x) /\ x # s
               /\ sesiones'[x].familia = sesiones[x].familia
               /\ sesiones[x].familia # sesiones[s].familia
    <3>1. x # s /\ Activa(x)
      BY <1>6, <2>1
    <3>2. Existe(x)
      BY <3>1 DEF Activa, Existe
    <3>3. sesiones[x].familia # sesiones[s].familia
      BY <1>3, <3>1, <3>2 DEF IndSesiones, FamiliaUnica, MismaFamilia
    <3>4. QED
      BY <1>7, <3>1, <3>2, <3>3
  <2>2. sesiones'[nueva].familia = sesiones[s].familia
    BY <1>4
  <2>3. ASSUME NEW x \in Sesiones, NEW y \in Sesiones, Activa(x)', Activa(y)', MismaFamilia(x, y)'
        PROVE  x = y
    <3>1. sesiones'[x].familia = sesiones'[y].familia
      BY <2>3 DEF MismaFamilia
    <3>2. CASE x = nueva \/ y = nueva
      BY <2>1, <2>2, <2>3, <3>1, <3>2
    <3>3. CASE x # nueva /\ y # nueva
      BY <2>1, <2>3, <3>1, <3>3 DEF IndSesiones, FamiliaUnica, MismaFamilia
    <3>4. QED
      BY <3>2, <3>3
  <2>4. QED
    BY <2>3 DEF FamiliaUnica
<1>11. ASSUME NEW j \in Peticiones \ {i}, NEW x \in Sesiones,
              peticiones[j].paso = "ROTANDO", peticiones[j].sesion = x
       PROVE  Activa(x)'
  <2>1. Coherente(j)
    BY DEF IndSesiones
  <2>2. x \in peticiones[j].filas /\ Activa(x) /\ Existe(x)
    BY <1>11, <2>1 DEF Coherente
  <2>3. x \notin {s, nueva}
    BY <1>1, <1>3, <2>2 DEF IndSesiones, FilasConUnDueno
  <2>4. QED
    BY <1>6, <2>2, <2>3
<1>12. QED
  BY <1>1, <1>7, <1>9, <1>10, <1>11, FinPeticion

-----------------------------------------------------------------------------
(* What a step does to the sessions *)

\* A row of user_sessions becomes active only by a login or by a rotation.
LEMMA EfectoEnSesiones ==
    ASSUME IndSesiones, Next
    PROVE  \/ \E filas : sesiones' = Revocar(filas)
           \/ \E i \in Peticiones, s \in Sesiones : ConfirmarLogin(i, s)
           \/ \E i \in Peticiones, s \in Sesiones : ConfirmarRotacion(i, s)
<1>1. Revocar({}) = sesiones
  BY DEF Revocar, IndSesiones, TypeOK
<1>2. ASSUME NEW i \in Peticiones,
             \/ Comenzar(i) \/ BloquearSesion(i) \/ VerFamilia(i) \/ BloquearFamilia(i)
             \/ VerSesiones(i) \/ EscribirUsuario(i) \/ ConfirmarAlta(i) \/ Abortar(i)
      PROVE  UNCHANGED sesiones
  BY <1>2 DEF Comenzar, IniciarLogin, IniciarRevocacion, IniciarBaja, IniciarAlta,
      IniciarRefresco, IniciarCierre, Empezar, BloquearSesion, VerFamilia, BloquearFamilia,
      VerSesiones, EscribirUsuario, Avanzar, ConfirmarAlta, Abortar
<1>3. ASSUME NEW i \in Peticiones, ConfirmarReplay(i) \/ ConfirmarCierre(i)
      PROVE  sesiones' = Revocar(peticiones[i].vistas)
  BY <1>3 DEF ConfirmarReplay, ConfirmarCierre
<1>4. QED
  BY <1>1, <1>2, <1>3 DEF Next, Servir

\* No step revives a family that has no active session left.
LEMMA FamiliaMuertaPaso ==
    ASSUME IndSesiones, Next, NEW s \in Sesiones, Existe(s),
           \A y \in Sesiones : ~ (Activa(y) /\ MismaFamilia(s, y)),
           NEW x \in Sesiones, Activa(x)', MismaFamilia(s, x)'
    PROVE  FALSE
<1>1. /\ sesiones'[x].familia = sesiones'[s].familia
      /\ \A y \in Sesiones : sesiones[y] \in Sesion
  BY DEF MismaFamilia, IndSesiones, TypeOK
<1>2. \A y \in Sesiones : Activa(y) => sesiones[y].familia # sesiones[s].familia
  BY DEF MismaFamilia, Activa, Existe
<1>3. ASSUME NEW filas, sesiones' = Revocar(filas) PROVE FALSE
  <2>1. \A y \in Sesiones : sesiones'[y].familia = sesiones[y].familia
    BY <1>1, <1>3 DEF Revocar, Sesion
  <2>2. Activa(x)
    BY <1>1, <1>3 DEF Revocar, Sesion, Activa
  <2>3. QED
    BY <1>1, <1>2, <2>1, <2>2
<1>4. ASSUME NEW i \in Peticiones, NEW y \in Sesiones, ConfirmarLogin(i, y) PROVE FALSE
  <2>1. /\ ~ Existe(y)
        /\ sesiones' = [sesiones EXCEPT ![y] =
               [estado |-> "ACTIVA", familia |-> y, version |-> peticiones[i].version]]
    BY <1>4 DEF ConfirmarLogin
  <2>2. /\ sesiones'[y].familia = y
        /\ \A z \in Sesiones \ {y} : sesiones'[z] = sesiones[z]
    BY <2>1 DEF IndSesiones, TypeOK
  <2>3. s # y /\ sesiones[s].familia # y
    BY <2>1 DEF IndSesiones, FamiliaConRaiz
  <2>4. x # y
    BY <1>1, <2>2, <2>3
  <2>5. QED
    BY <1>1, <1>2, <2>2, <2>3, <2>4 DEF Activa
<1>5. ASSUME NEW i \in Peticiones, NEW nueva \in Sesiones, ConfirmarRotacion(i, nueva) PROVE FALSE
  <2>1. PICK y \in Sesiones : y = peticiones[i].sesion /\ Activa(y)
    BY <1>5 DEF ConfirmarRotacion, Terminar, IndSesiones, Coherente
  <2>2. /\ ~ Existe(nueva)
        /\ sesiones' = [Revocar({y}) EXCEPT ![nueva] =
               [estado |-> "ACTIVA", familia |-> sesiones[y].familia,
                version |-> peticiones[i].version]]
    BY <1>5, <2>1 DEF ConfirmarRotacion
  <2>3. /\ sesiones'[nueva].familia = sesiones[y].familia
        /\ \A z \in Sesiones \ {nueva, y} : sesiones'[z] = sesiones[z]
        /\ y # nueva => sesiones'[y] = [sesiones[y] EXCEPT !.estado = "REVOCADA"]
    BY <2>2 DEF Revocar
  <2>4. y # nueva /\ s # nueva
    BY <2>1, <2>2 DEF Activa, Existe
  <2>5. x # y
    BY <1>1, <2>3, <2>4 DEF Activa, Sesion
  <2>6. sesiones'[s].familia = sesiones[s].familia
    BY <1>1, <2>3, <2>4 DEF Sesion
  <2>7. x # nueva
    BY <1>1, <1>2, <2>1, <2>3, <2>6
  <2>8. QED
    BY <1>1, <1>2, <2>3, <2>5, <2>6, <2>7 DEF Activa
<1>6. QED
  BY <1>3, <1>4, <1>5, EfectoEnSesiones

\* The sessions of a family carry the version of its root.
LEMMA MismaVersion ==
    ASSUME IndSesiones, NEW s \in Sesiones, NEW x \in Sesiones, MismaFamilia(s, x)
    PROVE  sesiones[s].version = sesiones[x].version
BY DEF IndSesiones, FamiliaConRaiz, MismaFamilia

\* A commit that revokes leaves no usable session in the family presented: its
\* tokens carry the version that the commit has just replaced.
LEMMA VersionReemplazada ==
    ASSUME IndSesiones, NEW i \in Peticiones, NEW s \in Sesiones, s = peticiones[i].sesion,
           ConfirmarReplay(i) \/ ConfirmarCierre(i),
           NEW x \in Sesiones, MismaFamilia(s, x)
    PROVE  ~ Usable(x)'
<1>1. sesiones[x].version = peticiones[i].version
  BY MismaVersion DEF IndSesiones, Coherente
<1>2. usuario'.version = peticiones[i].version + 1
  BY DEF ConfirmarReplay, ConfirmarCierre, VersionTrasReplay, VersionTrasCierre,
         IndSesiones, TypeOK, Usuario
<1>3. sesiones'[x].version = sesiones[x].version
  BY DEF ConfirmarReplay, ConfirmarCierre, Revocar, IndSesiones, TypeOK, Sesion
<1>4. peticiones[i].version \in Nat
  BY DEF IndSesiones, TypeOK, Peticion, Version
<1>5. QED
  BY <1>1, <1>2, <1>3, <1>4 DEF Usable, Vigente

-----------------------------------------------------------------------------
(* The waits of the refreshes *)

\* A consumed token is never good again.
LEMMA ConsumidaSigue ==
    ASSUME IndSesiones, Next, NEW s \in Sesiones, Consumida(s)
    PROVE  Consumida(s)'
<1>1. sesiones[s] \in Sesion /\ Existe(s)
  BY DEF IndSesiones, TypeOK, Consumida, Existe
<1>2. ASSUME NEW filas, sesiones' = Revocar(filas) PROVE Consumida(s)'
  BY <1>1, <1>2 DEF Revocar, Consumida, Sesion
<1>3. ASSUME NEW i \in Peticiones, NEW x \in Sesiones, ConfirmarLogin(i, x) PROVE Consumida(s)'
  <2>1. s # x
    BY <1>1, <1>3 DEF ConfirmarLogin
  <2>2. sesiones'[s] = sesiones[s]
    BY <1>3, <2>1 DEF ConfirmarLogin, IndSesiones, TypeOK
  <2>3. QED
    BY <2>2 DEF Consumida
<1>4. ASSUME NEW i \in Peticiones, NEW x \in Sesiones, ConfirmarRotacion(i, x)
      PROVE  Consumida(s)'
  <2>1. s # x
    BY <1>1, <1>4 DEF ConfirmarRotacion
  <2>2. sesiones'[s] = Revocar({peticiones[i].sesion})[s]
    BY <1>4, <2>1 DEF ConfirmarRotacion, Revocar
  <2>3. QED
    BY <1>1, <2>2 DEF Revocar, Consumida, Sesion
<1>5. QED
  BY <1>2, <1>3, <1>4, EfectoEnSesiones

\* A step of request i keeps the order if i, when it has read its family, saw
\* the token of no other replay.
LEMMA SoloEspera ==
    ASSUME IndSesiones, IndEsperas, Next, NEW i \in Peticiones,
           \A j \in Peticiones \ {i} : peticiones'[j] = peticiones[j],
           Sostiene(i)',
           peticiones'[i].paso = "REPLAY_VISTO" =>
               \A j \in Replays : peticiones[j].sesion \notin peticiones'[i].vistas
    PROVE  IndEsperas'
<1>1. ASSUME NEW j \in Peticiones \ {i} PROVE Sostiene(j)'
  <2>1. Sostiene(j) /\ Coherente(j) /\ peticiones'[j] = peticiones[j]
    BY DEF IndEsperas, IndSesiones
  <2>2. peticiones[j].paso \in {"REPLAY", "REPLAY_VISTO"} => Consumida(peticiones[j].sesion)'
    BY <2>1, ConsumidaSigue DEF Sostiene, Coherente
  <2>3. QED
    BY <2>1, <2>2 DEF Sostiene, Consumida
<1>2. ASSUME NEW circulo \in (SUBSET Replays)' \ {{}}
      PROVE  \E k \in circulo : \A j \in circulo :
                 k # j => peticiones'[j].sesion \notin peticiones'[k].vistas
  <2>1. \A j \in circulo \ {i} : j \in Replays /\ peticiones'[j] = peticiones[j]
    BY DEF Replays
  <2>2. CASE i \in circulo
    <3>1. peticiones'[i].paso = "REPLAY_VISTO"
      BY <2>2 DEF Replays
    <3>2. \A j \in circulo : i # j => peticiones'[j].sesion \notin peticiones'[i].vistas
      BY <2>1, <3>1
    <3>3. QED
      BY <2>2, <3>2
  <2>3. CASE i \notin circulo
    <3>1. circulo \in (SUBSET Replays) \ {{}}
      BY <2>1, <2>3
    <3>2. PICK k \in circulo : \A j \in circulo :
              k # j => peticiones[j].sesion \notin peticiones[k].vistas
      BY <3>1 DEF IndEsperas, ReplaysOrdenados
    <3>3. QED
      BY <2>1, <2>3, <3>2
  <2>4. QED
    BY <2>2, <2>3
<1>3. ReplaysOrdenados'
  BY <1>2 DEF ReplaysOrdenados
<1>4. QED
  BY <1>1, <1>3 DEF IndEsperas

\* Every step keeps the order of the replays: a token is presented and locked
\* before the family is read, and only active rows are read.
LEMMA EsperasPaso == IndSesiones /\ IndEsperas /\ [Next]_vars => IndEsperas'
<1> SUFFICES ASSUME IndSesiones, IndEsperas, [Next]_vars PROVE IndEsperas'
  OBVIOUS
<1> USE DEF IndSesiones
<1>1. CASE UNCHANGED vars
  BY <1>1 DEF vars, IndEsperas, Sostiene, ReplaysOrdenados, Replays, Consumida
<1>2. CASE Next
  <2> USE <1>2
  <2>1. ASSUME NEW i \in Peticiones, Comenzar(i) PROVE IndEsperas'
    <3>1. PICK paso \in {"LOGIN", "REFRESH", "CIERRE", "ALTA"} :
              \E s, estado : Empezar(i, paso, s, estado)
      BY <2>1 DEF Comenzar, IniciarLogin, IniciarRevocacion, IniciarBaja, IniciarAlta,
                  IniciarRefresco, IniciarCierre
    <3>2. /\ \A j \in Peticiones \ {i} : peticiones'[j] = peticiones[j]
          /\ peticiones'[i].paso = paso /\ peticiones'[i].filas = {}
      BY <3>1 DEF Empezar, TypeOK
    <3>3. Sostiene(i)'
      BY <3>2 DEF Sostiene
    <3>4. QED
      BY <3>2, <3>3, SoloEspera
  <2>2. ASSUME NEW i \in Peticiones, BloquearSesion(i) PROVE IndEsperas'
    <3> DEFINE s == peticiones[i].sesion
               a == IF Consumida(s) THEN "REPLAY" ELSE "ROTANDO"
    <3>1. Avanzar(i, "REFRESH", a, {}, {s})
      BY <2>2 DEF BloquearSesion
    <3>2. /\ UNCHANGED sesiones
          /\ \A j \in Peticiones \ {i} : peticiones'[j] = peticiones[j]
          /\ peticiones'[i].paso = a
          /\ peticiones'[i].sesion = s
          /\ peticiones'[i].filas = {s}
      BY <3>1, AvanzarEfecto
    <3>3. Sostiene(i)'
      BY <3>2 DEF Sostiene, Consumida
    <3>4. peticiones'[i].paso # "REPLAY_VISTO"
      BY <3>2
    <3>5. QED
      BY <3>2, <3>3, <3>4, SoloEspera
  <2>3. ASSUME NEW i \in Peticiones, VerFamilia(i) PROVE IndEsperas'
    <3> DEFINE vistas == ActivasDeFamilia(peticiones[i].sesion)
    <3>1. Avanzar(i, "REPLAY", "REPLAY_VISTO", vistas, peticiones[i].filas)
      BY <2>3 DEF VerFamilia
    <3>2. /\ peticiones[i].paso = "REPLAY"
          /\ UNCHANGED sesiones
          /\ \A j \in Peticiones \ {i} : peticiones'[j] = peticiones[j]
          /\ peticiones'[i].paso = "REPLAY_VISTO"
          /\ peticiones'[i].sesion = peticiones[i].sesion
          /\ peticiones'[i].vistas = vistas
          /\ peticiones'[i].filas = peticiones[i].filas
      BY <3>1, AvanzarEfecto
    <3>3. Sostiene(i)'
      BY <3>2 DEF IndEsperas, Sostiene, Consumida
    <3>4. \A j \in Replays : peticiones[j].sesion \notin vistas
      BY DEF IndEsperas, Sostiene, Replays, ActivasDeFamilia, Activa, Consumida
    <3>5. QED
      BY <3>2, <3>3, <3>4, SoloEspera
  <2>4. ASSUME NEW i \in Peticiones,
               BloquearFamilia(i) \/ VerSesiones(i) \/ EscribirUsuario(i)
        PROVE  IndEsperas'
    <3>1. PICK a \in {"REPLAY_LISTO", "CIERRE_VISTO", "CIERRE_USUARIO"} :
              \E de, vistas, filas : Avanzar(i, de, a, vistas, filas)
      BY <2>4 DEF BloquearFamilia, VerSesiones, EscribirUsuario
    <3>2. /\ \A j \in Peticiones \ {i} : peticiones'[j] = peticiones[j]
          /\ peticiones'[i].paso = a
      BY <3>1, AvanzarEfecto
    <3>3. Sostiene(i)'
      BY <3>2 DEF Sostiene
    <3>4. QED
      BY <3>2, <3>3, SoloEspera
  <2>5. ASSUME NEW i \in Peticiones, NEW de, Terminar(i, de) PROVE IndEsperas'
    <3>1. /\ peticiones'[i] = Libre
          /\ \A j \in Peticiones \ {i} : peticiones'[j] = peticiones[j]
      BY <2>5 DEF Terminar, TypeOK
    <3>2. Sostiene(i)' /\ peticiones'[i].paso # "REPLAY_VISTO"
      BY <3>1 DEF Sostiene, Libre
    <3>3. QED
      BY <3>1, <3>2, SoloEspera
  <2>6. ASSUME NEW i \in Peticiones,
               \/ ConfirmarReplay(i) \/ ConfirmarCierre(i) \/ ConfirmarAlta(i) \/ Abortar(i)
               \/ \E s \in Sesiones : ConfirmarLogin(i, s) \/ ConfirmarRotacion(i, s)
        PROVE  \E de : Terminar(i, de)
    BY <2>6 DEF ConfirmarReplay, ConfirmarCierre, ConfirmarAlta, Abortar, ConfirmarLogin,
                ConfirmarRotacion
  <2>7. QED
    BY <2>1, <2>2, <2>3, <2>4, <2>5, <2>6 DEF Next, Servir
<1>3. QED
  BY <1>1, <1>2

\* An ordered set of replays holds no circle, and neither do the refreshes that
\* present their token, since nobody waits for them.
LEMMA OrdenadosSinCirculo == IndSesiones /\ IndEsperas => RefrescosSinEsperaCircular
<1> SUFFICES ASSUME IndSesiones, IndEsperas, NEW circulo \in (SUBSET Peticiones) \ {{}}
             PROVE  \E i \in circulo : \A j \in circulo : ~ Espera(i, j)
  BY DEF RefrescosSinEsperaCircular
<1> DEFINE esperan == {i \in circulo : peticiones[i].paso \in {"REFRESH", "REPLAY_VISTO"}}
           replays == {i \in circulo : peticiones[i].paso = "REPLAY_VISTO"}
<1>1. CASE \E i \in circulo : i \notin esperan
  BY <1>1 DEF Espera
<1>2. CASE esperan = circulo /\ replays = {}
  <2>1. PICK i \in circulo : TRUE
    OBVIOUS
  <2>2. \A j \in circulo : peticiones[j].paso = "REFRESH" /\ peticiones[j].filas = {}
    BY <1>2 DEF IndEsperas, Sostiene
  <2>3. QED
    BY <2>1, <2>2 DEF Espera
<1>3. CASE esperan = circulo /\ replays # {}
  <2>1. replays \in (SUBSET Replays) \ {{}}
    BY <1>3 DEF Replays
  <2>2. PICK i \in replays : \A j \in replays :
            i # j => peticiones[j].sesion \notin peticiones[i].vistas
    BY <2>1 DEF IndEsperas, ReplaysOrdenados
  <2>3. ASSUME NEW j \in circulo PROVE ~ Espera(i, j)
    <3>1. j \in replays => peticiones[j].filas = {peticiones[j].sesion}
      BY DEF IndEsperas, Sostiene
    <3>2. j \notin replays => peticiones[j].filas = {}
      BY <1>3 DEF IndEsperas, Sostiene
    <3>3. i # j => peticiones[i].vistas \cap peticiones[j].filas = {}
      BY <2>2, <3>1, <3>2
    <3>4. QED
      BY <2>2, <3>3 DEF Espera
  <2>4. QED
    BY <2>3
<1>4. QED
  BY <1>1, <1>2, <1>3

-----------------------------------------------------------------------------
(* The theorems *)

\* No session and no request: the invariant holds at the start.
LEMMA IndInicial == Init => IndSesiones
<1> SUFFICES ASSUME Init PROVE IndSesiones
  OBVIOUS
<1>1. \A s \in Sesiones : ~ Existe(s) /\ ~ Activa(s)
  BY DEF Init, Existe, Activa
<1>2. FamiliaConRaiz /\ FamiliaUnica
  BY <1>1 DEF FamiliaConRaiz, FamiliaUnica
<1>3. FilasConUnDueno /\ \A i \in Peticiones : Coherente(i)
  BY SesionesAssumption DEF Init, FilasConUnDueno, Coherente, Libre
<1>4. QED
  BY <1>2, <1>3, TipoInicial DEF IndSesiones

\* Every step of a request keeps the invariant.
LEMMA IndPaso == IndSesiones /\ [Next]_vars => IndSesiones'
<1> SUFFICES ASSUME IndSesiones, [Next]_vars PROVE IndSesiones'
  OBVIOUS
<1>1. TypeOK'
  BY TipoPaso
<1>2. CASE UNCHANGED vars
  BY <1>1, <1>2 DEF vars, IndSesiones, FamiliaConRaiz, FilasConUnDueno, Coherente, FamiliaUnica,
                    Existe, Activa, MismaFamilia
<1>3. CASE Next
  BY <1>1, <1>3, ComenzarInd, BloquearSesionInd, FamiliaInd, CierreInd, ConfirmarRevocacionInd,
     SinSesionesInd, ConfirmarLoginInd, ConfirmarRotacionInd DEF Next, Servir
<1>4. QED
  BY <1>2, <1>3

\* The invariant holds in every reachable state.
LEMMA SiempreInd == Spec => []IndSesiones
<1>1. QED
  BY IndInicial, IndPaso, PTL DEF Spec

\* Every row and every request in progress stays well formed, whatever the
\* order of the statements of concurrent requests.
THEOREM SesionesBienFormadas == Spec => []TypeOK
<1>1. IndSesiones => TypeOK
  BY DEF IndSesiones
<1>2. QED
  BY <1>1, SiempreInd, PTL

\* Single use: for any number of concurrent refreshes of the same token, a
\* family has at most one session that is not revoked.
THEOREM FamiliaSiempreUnica == Spec => []FamiliaUnica
<1>1. IndSesiones => FamiliaUnica
  BY DEF IndSesiones
<1>2. QED
  BY <1>1, SiempreInd, PTL

\* A closed family stays closed: no refresh that was in progress when its
\* sessions were revoked revives it.
THEOREM FamiliaSigueMuerta == Spec => FamiliaMuerta
<1> DEFINE Sigue == \A s \in Sesiones :
               Existe(s) /\ ActivasDeFamilia(s) = {} => ActivasDeFamilia(s)' = {}
<1>1. IndSesiones /\ [Next]_vars => [Sigue]_vars
  <2> SUFFICES ASSUME IndSesiones, Next, NEW s \in Sesiones, Existe(s),
                      ActivasDeFamilia(s) = {},
                      NEW x \in ActivasDeFamilia(s)'
               PROVE  FALSE
    OBVIOUS
  <2>1. x \in Sesiones /\ Activa(x)' /\ MismaFamilia(s, x)'
    BY DEF ActivasDeFamilia
  <2>2. \A y \in Sesiones : ~ (Activa(y) /\ MismaFamilia(s, y))
    BY DEF ActivasDeFamilia
  <2>3. QED
    BY <2>1, <2>2, FamiliaMuertaPaso
<1>2. Spec => [][Sigue]_vars
  BY <1>1, SiempreInd, PTL DEF Spec
<1>3. QED
  BY <1>2 DEF FamiliaMuerta

\* Detecting a reused token closes its family, whatever a concurrent refresh
\* has committed since the family was read.
THEOREM ReplaySiempreCierra == Spec => ReplayCierraFamilia
<1> DEFINE Cierra == \A i \in Peticiones :
               ConfirmarReplay(i) =>
                   \A s \in Sesiones : MismaFamilia(peticiones[i].sesion, s) => ~ Usable(s)'
<1>1. IndSesiones /\ [Next]_vars => [Cierra]_vars
  <2> SUFFICES ASSUME IndSesiones, NEW i \in Peticiones, ConfirmarReplay(i),
                      NEW x \in Sesiones, MismaFamilia(peticiones[i].sesion, x)
               PROVE  ~ Usable(x)'
    OBVIOUS
  <2>1. peticiones[i].paso = "REPLAY_LISTO"
    BY DEF ConfirmarReplay, Terminar
  <2>2. PICK s \in Sesiones : s = peticiones[i].sesion
    BY <2>1 DEF IndSesiones, Coherente
  <2>3. QED
    BY <2>2, VersionReemplazada
<1>2. Spec => [][Cierra]_vars
  BY <1>1, SiempreInd, PTL DEF Spec
<1>3. QED
  BY <1>2 DEF ReplayCierraFamilia

\* A logout or a change of password closes the family that asked for it, even
\* if the session it saw has been rotated before its commit.
THEOREM CierreSiempreCierra == Spec => CierreCierraFamilia
<1> DEFINE Cierra == \A i \in Peticiones :
               ConfirmarCierre(i) /\ peticiones[i].sesion # Nada =>
                   \A s \in Sesiones : MismaFamilia(peticiones[i].sesion, s) => ~ Usable(s)'
<1>1. IndSesiones /\ [Next]_vars => [Cierra]_vars
  <2> SUFFICES ASSUME IndSesiones, NEW i \in Peticiones, ConfirmarCierre(i),
                      peticiones[i].sesion # Nada,
                      NEW x \in Sesiones, MismaFamilia(peticiones[i].sesion, x)
               PROVE  ~ Usable(x)'
    OBVIOUS
  <2>1. PICK s \in Sesiones : s = peticiones[i].sesion
    BY DEF IndSesiones, TypeOK, Peticion
  <2>2. QED
    BY <2>1, VersionReemplazada
<1>2. Spec => [][Cierra]_vars
  BY <1>1, SiempreInd, PTL DEF Spec
<1>3. QED
  BY <1>2 DEF CierreCierraFamilia

\* For any number of concurrent refreshes, those that wait for rows of sessions
\* never wait in a circle: PostgreSQL has no deadlock among them to break.
THEOREM RefrescosNuncaEnCirculo == Spec => []RefrescosSinEsperaCircular
<1>1. Init => IndEsperas
  <2>1. Init => Replays = {} /\ \A i \in Peticiones : Sostiene(i)
    BY DEF Init, Libre, Replays, Sostiene
  <2>2. QED
    BY <2>1 DEF IndEsperas, ReplaysOrdenados
<1>2. Spec => []IndEsperas
  BY <1>1, EsperasPaso, SiempreInd, PTL DEF Spec
<1>3. QED
  BY <1>2, OrdenadosSinCirculo, SiempreInd, PTL
=============================================================================
