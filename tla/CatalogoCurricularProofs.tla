---------------------- MODULE CatalogoCurricularProofs ----------------------
(****************************************************************************)
(* What is proved of CatalogoCurricular for every set of workbooks, codes,  *)
(* texts and every bound on the rows: its types and its five properties.    *)
(* The links and the duplicates rest on each other: a competence that takes *)
(* a new code meets no row of it because every row hangs from a competence  *)
(* there is.                                                                *)
(****************************************************************************)
EXTENDS CatalogoCurricular, FiniteSetTheorems, SequenceTheorems, TLAPS

-----------------------------------------------------------------------------
(* The workbook.                                                            *)

LEMMA MatrizTipo ==
    ASSUME NEW w \in Matrices
    PROVE  /\ DOMAIN w.competencias = 1 .. Len(w.competencias)
           /\ DOMAIN w.elementos = 1 .. Len(w.elementos)
           /\ Len(w.competencias) \in Nat /\ Len(w.elementos) \in Nat
           /\ \A i \in DOMAIN w.competencias :
                w.competencias[i].id \in IdsExcel /\ w.competencias[i].codigo \in Codigos
           /\ \A i \in DOMAIN w.resultados :
                /\ w.resultados[i].comp \in IdsExcel /\ w.resultados[i].rap \in Raps
                /\ w.resultados[i].texto \in Textos
           /\ \A i \in DOMAIN w.elementos : w.elementos[i] \in FilaElemento
<1>1. /\ w.competencias \in Seq([id: IdsExcel, codigo: Codigos])
      /\ w.resultados \in Seq([comp: IdsExcel, rap: Raps, texto: Textos])
      /\ w.elementos \in Seq(FilaElemento)
  BY ConstantesAssumption DEF Matriz
<1>2. /\ Len(w.competencias) \in Nat /\ DOMAIN w.competencias = 1 .. Len(w.competencias)
      /\ w.competencias \in [1 .. Len(w.competencias) -> [id: IdsExcel, codigo: Codigos]]
  BY <1>1, LenProperties
<1>3. /\ DOMAIN w.resultados = 1 .. Len(w.resultados)
      /\ w.resultados \in [1 .. Len(w.resultados) -> [comp: IdsExcel, rap: Raps, texto: Textos]]
  BY <1>1, LenProperties
<1>4. /\ Len(w.elementos) \in Nat /\ DOMAIN w.elementos = 1 .. Len(w.elementos)
      /\ w.elementos \in [1 .. Len(w.elementos) -> FilaElemento]
  BY <1>1, LenProperties
<1> QED BY <1>2, <1>3, <1>4

\* A set of positions has a first and a last one.
LEMMA Primera ==
    ASSUME NEW S, S \subseteq Nat, S # {}
    PROVE  \E m \in S : \A k \in S : m <= k
<1> DEFINE tramos == {1 .. n : n \in S}
<1>1. tramos \subseteq FiniteSubsetsOf(Nat) /\ tramos # {}
  <2>1. ASSUME NEW n \in S PROVE 1 .. n \subseteq Nat /\ IsFiniteSet(1 .. n)
    <3>1. 1 \in Int /\ n \in Int
      OBVIOUS
    <3> QED BY <3>1, FS_Interval
  <2> QED BY <2>1 DEF FiniteSubsetsOf
<1>2. PICK x \in tramos : \A y \in tramos : <<y, x>> \notin StrictSubsetOrdering(Nat)
  BY <1>1, FS_StrictSubsetOrderingWellFounded, WFMin
<1>3. PICK m \in S : x = 1 .. m
  BY <1>2
<1>4. ASSUME NEW k \in S, ~ m <= k PROVE FALSE
  <2>1. 1 .. k \in tramos
    OBVIOUS
  <2>2. 1 .. k \subseteq 1 .. m /\ 1 .. m \subseteq Nat
    BY <1>4
  <2>3. m \in 1 .. m /\ m \notin 1 .. k
    BY <1>4
  <2>4. <<1 .. k, 1 .. m>> \in StrictSubsetOrdering(Nat)
    BY <2>2, <2>3 DEF StrictSubsetOrdering
  <2> QED BY <1>2, <1>3, <2>1, <2>4
<1> QED BY <1>4

LEMMA Ultima ==
    ASSUME NEW n \in Nat, NEW S, S \subseteq 1 .. n, S # {}
    PROVE  \E m \in S : \A k \in S : k <= m
<1> DEFINE R == {n - k : k \in S}
<1>1. R \subseteq Nat /\ R # {}
  OBVIOUS
<1>2. PICK r \in R : \A k \in R : r <= k
  BY <1>1, Primera
<1>3. PICK m \in S : r = n - m
  BY <1>2
<1>4. ASSUME NEW k \in S PROVE k <= m
  <2>1. n - m <= n - k /\ m \in 1 .. n /\ k \in 1 .. n
    BY <1>2, <1>3
  <2> QED BY <2>1
<1> QED BY <1>4

\* The code an id of the workbook leads to is the one of a row with that id.
LEMMA CodigoDeFila ==
    ASSUME NEW w \in Matrices, NEW id \in IdsDe(w)
    PROVE  \E i \in DOMAIN w.competencias :
             w.competencias[i].id = id /\ CodigoDe(w, id) = w.competencias[i].codigo
<1> DEFINE S == {i \in DOMAIN w.competencias : w.competencias[i].id = id}
<1>1. S \subseteq 1 .. Len(w.competencias) /\ Len(w.competencias) \in Nat /\ S # {}
  BY MatrizTipo DEF IdsDe
<1>2. PICK n \in S : \A j \in S : j <= n
  BY <1>1, Ultima
<1> DEFINE i == CHOOSE i \in DOMAIN w.competencias :
                    /\ w.competencias[i].id = id
                    /\ \A j \in DOMAIN w.competencias : w.competencias[j].id = id => j <= i
<1>3. i \in DOMAIN w.competencias /\ w.competencias[i].id = id
  BY <1>2
<1> QED BY <1>3 DEF CodigoDe

\* Of a valid workbook, the code an id leads to tells the ids apart.
LEMMA CodigoDeDistingue ==
    ASSUME NEW w \in Matrices, Valida(w), NEW a \in IdsDe(w), NEW b \in IdsDe(w),
           CodigoDe(w, a) = CodigoDe(w, b)
    PROVE  a = b
<1>1. PICK i \in DOMAIN w.competencias :
        w.competencias[i].id = a /\ CodigoDe(w, a) = w.competencias[i].codigo
  BY CodigoDeFila
<1>2. PICK j \in DOMAIN w.competencias :
        w.competencias[j].id = b /\ CodigoDe(w, b) = w.competencias[j].codigo
  BY CodigoDeFila
<1> QED BY <1>1, <1>2 DEF Valida, Repetida

LEMMA CodigoDeTipo ==
    ASSUME NEW w \in Matrices, NEW id \in IdsDe(w)
    PROVE  CodigoDe(w, id) \in CompsDe(w) /\ CodigoDe(w, id) \in Codigos
BY CodigoDeFila, MatrizTipo DEF CompsDe

-----------------------------------------------------------------------------
(* The preview.                                                             *)

\* An element of the workbook.
LEMMA ElementoTipo ==
    ASSUME NEW w \in Matrices, NEW i \in Asignables(w)
    PROVE  /\ w.elementos[i] \in FilaElemento /\ w.elementos[i].comp \in IdsDe(w)
           /\ i \in Nat
BY MatrizTipo DEF Asignables

LEMMA PreviaImportable ==
    ASSUME NEW w \in Matrices, Valida(w)
    PROVE  Materializable(w)
<1>1. ~ \E i, j \in DOMAIN w.competencias :
          i # j /\ w.competencias[i].codigo = w.competencias[j].codigo
  BY DEF Valida, Repetida
<1>2. ASSUME NEW i \in DOMAIN w.resultados, NEW j \in DOMAIN w.resultados, i # j
      PROVE  ~ Chocan(FilaResultado(w, i), FilaResultado(w, j))
  <2> SUFFICES ASSUME Chocan(FilaResultado(w, i), FilaResultado(w, j)) PROVE FALSE
    OBVIOUS
  <2>1. /\ w.resultados[i].comp \in IdsDe(w) /\ w.resultados[j].comp \in IdsDe(w)
        /\ w.resultados[i].texto \in Textos /\ w.resultados[j].texto \in Textos
    BY MatrizTipo DEF Valida
  <2>2. /\ CodigoDe(w, w.resultados[i].comp) = CodigoDe(w, w.resultados[j].comp)
        /\ minusculas[w.resultados[i].texto] = minusculas[w.resultados[j].texto]
    BY DEF Chocan, FilaResultado
  <2>3. w.resultados[i].comp = w.resultados[j].comp
    BY <2>1, <2>2, CodigoDeDistingue
  <2>4. norma[w.resultados[i].texto] = norma[w.resultados[j].texto]
    BY <2>1, <2>2, ConstantesAssumption
  <2> QED BY <1>2, <2>3, <2>4 DEF Valida, Repetida
<1>3. ASSUME NEW i \in Conservadas(w), NEW j \in Conservadas(w), i # j
      PROVE  ~ Chocan(FilaDeElemento(w, i), FilaDeElemento(w, j))
  <2> SUFFICES ASSUME Chocan(FilaDeElemento(w, i), FilaDeElemento(w, j)) PROVE FALSE
    OBVIOUS
  <2>1. i \in Asignables(w) /\ j \in Asignables(w)
    BY DEF Conservadas
  <2>2. /\ w.elementos[i] \in FilaElemento /\ w.elementos[i].comp \in IdsDe(w) /\ i \in Nat
        /\ w.elementos[j] \in FilaElemento /\ w.elementos[j].comp \in IdsDe(w) /\ j \in Nat
    BY <2>1, ElementoTipo
  <2>3. /\ w.elementos[i].tipo = w.elementos[j].tipo
        /\ CodigoDe(w, w.elementos[i].comp) = CodigoDe(w, w.elementos[j].comp)
        /\ minusculas[w.elementos[i].texto] = minusculas[w.elementos[j].texto]
    BY DEF Chocan, FilaDeElemento
  <2>4. w.elementos[i].comp = w.elementos[j].comp
    BY <2>2, <2>3, CodigoDeDistingue
  <2>5. norma[w.elementos[i].texto] = norma[w.elementos[j].texto]
    BY <2>2, <2>3, ConstantesAssumption DEF FilaElemento
  <2>6. Clave(w.elementos[i]) = Clave(w.elementos[j])
    BY <2>3, <2>4, <2>5 DEF Clave
  <2>7. i < j \/ j < i
    BY <1>3, <2>2
  <2> QED BY <2>1, <2>6, <2>7 DEF Conservadas
<1> QED BY <1>1, <1>2, <1>3 DEF Materializable, Repetida

\* What the preview accepts never stops at a duplicate when it is confirmed.
THEOREM LaVistaPreviaBasta == Spec => []VistaPreviaImportable
<1>1. VistaPreviaImportable
  BY PreviaImportable DEF VistaPreviaImportable
<1> QED BY <1>1, PTL

-----------------------------------------------------------------------------
(* Types.                                                                   *)

LEMMA FilaResultadoTipo ==
    ASSUME NEW w \in Matrices, Valida(w), NEW i \in DOMAIN w.resultados
    PROVE  FilaResultado(w, i) \in Fila
<1>1. w.resultados[i].comp \in IdsDe(w)
  BY DEF Valida
<1> QED BY <1>1, MatrizTipo, CodigoDeTipo DEF FilaResultado, Fila, Tipo, Ras

LEMMA FilaDeElementoTipo ==
    ASSUME NEW w \in Matrices, NEW i \in Asignables(w)
    PROVE  FilaDeElemento(w, i) \in Fila
<1>1. w.elementos[i] \in FilaElemento /\ w.elementos[i].comp \in IdsDe(w)
  BY ElementoTipo
<1>2. CodigoDe(w, w.elementos[i].comp) \in Codigos
  BY <1>1, CodigoDeTipo
<1>3. RaDe(w, w.elementos[i]) \in Ras \cup {SinRA}
  <2>1. w.elementos[i].comp \in IdsExcel
    BY <1>1, MatrizTipo DEF IdsDe
  <2> QED BY <1>1, <2>1 DEF RaDe, Ras, FilaElemento
<1> QED BY <1>1, <1>2, <1>3 DEF FilaDeElemento, Fila, Tipo, FilaElemento

LEMMA PendientesTipo ==
    ASSUME NEW w \in Matrices
    PROVE  PendientesDe(w) \subseteq Pendiente
<1> SUFFICES ASSUME NEW i \in PorConciliar(w)
             PROVE  [orden |-> i, tipo |-> w.elementos[i].tipo, texto |-> w.elementos[i].texto,
                     asignado |-> FALSE, comp |-> Nada, ra |-> SinRA] \in Pendiente
  BY DEF PendientesDe
<1>1. i \in Nat /\ w.elementos[i] \in FilaElemento
  BY MatrizTipo DEF PorConciliar
<1>2. w.elementos[i].tipo \in Elemento /\ w.elementos[i].texto \in Textos
  BY <1>1 DEF FilaElemento
<1> QED BY <1>1, <1>2 DEF Pendiente

LEMMA DestinosTipo ==
    ASSUME TypeOK, NEW c
    PROVE  Destinos(c) \subseteq Ras \cup {SinRA}
BY DEF TypeOK, Destinos, ResultadosDe, Fila

LEMMA EnlacesTipo ==
    ASSUME TypeOK, NEW x \in FilaPlaneacion
    PROVE  \A a \in EnlacesDe(x) : a # Nada =>
              /\ a \in Asignacion /\ a.comp \in comps /\ a.ra \in Destinos(a.comp)
<1> SUFFICES ASSUME NEW a \in EnlacesDe(x), a # Nada
             PROVE  a \in Asignacion /\ a.comp \in comps /\ a.ra \in Destinos(a.comp)
  OBVIOUS
<1>1. PICK c \in CompetenciasPara(x) :
        a \in [actividad: {x.actividad}, comp: {c}, ra: IF x.rap = Nada THEN {SinRA} ELSE Destinos(c)]
  <2>1. a \in UNION {[actividad: {x.actividad}, comp: {c},
                      ra: IF x.rap = Nada THEN {SinRA} ELSE Destinos(c)] : c \in CompetenciasPara(x)}
    <3>1. CASE x.codigo \in comps
      BY <3>1 DEF EnlacesDe
    <3>2. CASE x.codigo \notin comps
      BY <3>2 DEF EnlacesDe
    <3> QED BY <3>1, <3>2
  <2> QED BY <2>1
<1>2. c \in comps /\ c \in Codigos /\ SinRA \in Destinos(c)
  BY DEF CompetenciasPara, TypeOK, Destinos
<1> QED BY <1>1, <1>2, DestinosTipo DEF Asignacion, FilaPlaneacion

LEMMA PlaneacionTipo ==
    ASSUME NEW m \in MatricesProyecto
    PROVE  \A i \in DOMAIN m : m[i] \in FilaPlaneacion
<1>1. m \in Seq(FilaPlaneacion)
  BY ConstantesAssumption
<1>2. DOMAIN m = 1 .. Len(m) /\ m \in [1 .. Len(m) -> FilaPlaneacion]
  BY <1>1, LenProperties
<1> QED BY <1>2

\* What an import of a project adds.
LEMMA NuevasAsignaciones ==
    ASSUME TypeOK, NEW m \in MatricesProyecto, ImportarProyecto(m)
    PROVE  /\ UNCHANGED <<programa, comps, filas, bloqueados, pendientes>>
           /\ \A a \in asignaciones' :
                \/ a \in asignaciones
                \/ a \in Asignacion /\ a.comp \in comps /\ a.ra \in Destinos(a.comp)
<1>1. PICK e \in [DOMAIN m -> UNION {EnlacesDe(m[i]) : i \in DOMAIN m}] :
          /\ \A i \in DOMAIN m : e[i] \in EnlacesDe(m[i])
          /\ asignaciones' = asignaciones \cup ({e[i] : i \in DOMAIN m} \ {Nada})
  BY DEF ImportarProyecto
<1>2. \A i \in DOMAIN m : e[i] # Nada =>
        e[i] \in Asignacion /\ e[i].comp \in comps /\ e[i].ra \in Destinos(e[i].comp)
  BY <1>1, PlaneacionTipo, EnlacesTipo
<1>3. ASSUME NEW a \in asignaciones', a \notin asignaciones
      PROVE  a \in Asignacion /\ a.comp \in comps /\ a.ra \in Destinos(a.comp)
  <2>1. PICK i \in DOMAIN m : a = e[i] /\ e[i] # Nada
    BY <1>1, <1>3
  <2> QED BY <1>2, <2>1
<1>4. UNCHANGED <<programa, comps, filas, bloqueados, pendientes>>
  BY DEF ImportarProyecto
<1> QED BY <1>3, <1>4

LEMMA TipoImportar ==
    ASSUME TypeOK, NEW w \in Matrices, ConfirmarImportacion(w)
    PROVE  TypeOK'
<1>1. CompsDe(w) \subseteq Codigos
  BY MatrizTipo DEF CompsDe
<1>2. FilasDe(w) \subseteq Fila
  BY FilaResultadoTipo, FilaDeElementoTipo DEF ConfirmarImportacion, FilasDe, Conservadas
<1> QED BY <1>1, <1>2, PendientesTipo DEF ConfirmarImportacion, TypeOK

LEMMA TipoCompetencias ==
    ASSUME TypeOK, NEW c \in Codigos,
           \/ CrearCompetencia(c) \/ EliminarCompetencia(c)
           \/ \E d \in Codigos : ActualizarCompetencia(c, d)
    PROVE  TypeOK'
<1>1. CASE CrearCompetencia(c)
  BY <1>1 DEF CrearCompetencia, TypeOK
<1>2. CASE EliminarCompetencia(c)
  <2>1. pendientes' \subseteq Pendiente
    BY <1>2 DEF EliminarCompetencia, SinCompetencia, TypeOK, Pendiente
  <2> QED BY <1>2, <2>1 DEF EliminarCompetencia, TypeOK
<1>3. ASSUME NEW d \in Codigos, ActualizarCompetencia(c, d) PROVE TypeOK'
  <2>1. filas' \subseteq Fila
    BY <1>3 DEF ActualizarCompetencia, ConCodigo, TypeOK, Fila
  <2>2. pendientes' \subseteq Pendiente
    BY <1>3 DEF ActualizarCompetencia, ConCodigo, TypeOK, Pendiente
  <2>3. asignaciones' \subseteq Asignacion
    BY <1>3 DEF ActualizarCompetencia, ConCodigo, TypeOK, Asignacion
  <2> QED BY <1>3, <2>1, <2>2, <2>3 DEF ActualizarCompetencia, TypeOK
<1> QED BY <1>1, <1>2, <1>3

\* A row that is written over another, in its text or its outcome.
Reescribe(f, t, ra) == filas' = (filas \ {f}) \cup {[f EXCEPT !.texto = t, !.ra = ra]}

LEMMA ReescribeTipo ==
    ASSUME TypeOK, NEW f \in filas, NEW t \in Textos, NEW ra \in {f.ra, SinRA}
    PROVE  [f EXCEPT !.texto = t, !.ra = ra] \in Fila
BY DEF TypeOK, Fila

\* Outcomes, knowledge and criteria, by what they do to the rows.
Agrega(tipo, c, r, t) ==
    /\ c \in comps
    /\ ~ Repite(tipo, c, t, Ninguna)
    /\ filas' = filas \cup {[tipo |-> tipo, comp |-> c, ra |-> r, texto |-> t]}
    /\ UNCHANGED <<programa, comps, bloqueados, pendientes, asignaciones>>
Cambia(f, t, ra) ==
    /\ ra = f.ra \/ (ra = SinRA /\ f.tipo # "RESULTADO")
    /\ f.tipo = "RESULTADO" => f.ra \notin bloqueados
    /\ ~ Repite(f.tipo, f.comp, t, f)
    /\ Reescribe(f, t, ra)
    /\ UNCHANGED <<programa, comps, bloqueados, pendientes, asignaciones>>
Quita(f) ==
    /\ f.tipo # "RESULTADO"
    /\ filas' = filas \ {f}
    /\ UNCHANGED <<programa, comps, bloqueados, pendientes, asignaciones>>

Elementales ==
    \/ \E c \in Codigos, r \in Ras, t \in Textos : Agrega("RESULTADO", c, r, t)
    \/ \E tipo \in Elemento, c \in Codigos, t \in Textos : Agrega(tipo, c, SinRA, t)
    \/ \E f \in filas, t \in Textos : \E ra \in {f.ra, SinRA} : Cambia(f, t, ra)
    \/ \E f \in filas : Quita(f)

LEMMA AgregaElementales ==
    ASSUME \/ \E c \in Codigos, r \in Ras, t \in Textos : CrearResultado(c, r, t)
           \/ \E c \in Codigos, t \in Textos : CrearSaber(c, t) \/ CrearProceso(c, t) \/ CrearCriterio(c, t)
    PROVE  Elementales /\ Existe
BY DEF CrearResultado, CrearSaber, CrearProceso, CrearCriterio, Crear, Elementales, Agrega, Elemento

LEMMA CambiaElementales ==
    ASSUME TypeOK,
           \E f \in filas, t \in Textos :
               \/ ActualizarResultado(f, t) \/ ActualizarSaber(f, t)
               \/ ActualizarProceso(f, t) \/ ActualizarCriterio(f, t)
    PROVE  Elementales /\ Existe
<1>1. PICK f \in filas, t \in Textos :
               \/ ActualizarResultado(f, t) \/ ActualizarSaber(f, t)
               \/ ActualizarProceso(f, t) \/ ActualizarCriterio(f, t)
  OBVIOUS
<1>2. CASE ActualizarResultado(f, t)
  <2>1. [f EXCEPT !.texto = t] = [f EXCEPT !.texto = t, !.ra = f.ra]
    BY DEF TypeOK, Fila
  <2>2. Cambia(f, t, f.ra)
    BY <1>2, <2>1 DEF ActualizarResultado, Cambia, Reescribe
  <2> QED BY <1>2, <2>2 DEF Elementales, ActualizarResultado
<1>3. CASE ActualizarSaber(f, t) \/ ActualizarProceso(f, t)
  <2>1. Cambia(f, t, SinRA)
    BY <1>3 DEF ActualizarSaber, ActualizarProceso, Actualizar, Cambia, Reescribe
  <2> QED BY <1>3, <2>1 DEF Elementales, ActualizarSaber, ActualizarProceso, Actualizar
<1>4. CASE ActualizarCriterio(f, t)
  <2>1. Cambia(f, t, f.ra)
    BY <1>4 DEF ActualizarCriterio, Actualizar, Cambia, Reescribe
  <2> QED BY <1>4, <2>1 DEF Elementales, ActualizarCriterio, Actualizar
<1> QED BY <1>1, <1>2, <1>3, <1>4

LEMMA QuitaElementales ==
    ASSUME \E f \in filas : EliminarSaber(f) \/ EliminarProceso(f) \/ EliminarCriterio(f)
    PROVE  Elementales /\ Existe
BY DEF EliminarSaber, EliminarProceso, EliminarCriterio, Eliminar, Elementales, Quita

LEMMA TipoElementales ==
    ASSUME TypeOK, Elementales
    PROVE  TypeOK'
<1>1. ASSUME NEW c \in Codigos, NEW r \in Ras \cup {SinRA}, NEW t \in Textos, NEW tipo \in Tipo,
             Agrega(tipo, c, r, t)
      PROVE  TypeOK'
  BY <1>1 DEF Agrega, TypeOK, Fila
<1>2. ASSUME NEW f \in filas, NEW t \in Textos, NEW ra \in {f.ra, SinRA}, Cambia(f, t, ra)
      PROVE  TypeOK'
  BY <1>2, ReescribeTipo DEF Cambia, Reescribe, TypeOK
<1>3. ASSUME NEW f \in filas, Quita(f) PROVE TypeOK'
  BY <1>3 DEF Quita, TypeOK
<1> QED BY <1>1, <1>2, <1>3 DEF Elementales, Tipo

LEMMA TipoResultado ==
    ASSUME TypeOK, NEW f \in filas, EliminarResultado(f)
    PROVE  TypeOK'
<1>1. pendientes' \subseteq Pendiente
  BY DEF EliminarResultado, SinResultado, TypeOK, Pendiente
<1> QED BY <1>1 DEF EliminarResultado, TypeOK

LEMMA TipoPendiente ==
    ASSUME TypeOK, NEW p \in pendientes, NEW c \in Codigos, AsignarPendiente(p, c)
    PROVE  TypeOK'
<1>1. PICK r \in Destinos(c) :
        /\ filas' = filas \cup {[tipo |-> p.tipo, comp |-> c, ra |-> r, texto |-> p.texto]}
        /\ pendientes' = (pendientes \ {p}) \cup {[p EXCEPT !.asignado = TRUE, !.comp = c, !.ra = r]}
  BY DEF AsignarPendiente
<1>2. r \in Ras \cup {SinRA} /\ p \in Pendiente
  BY DestinosTipo DEF TypeOK
<1>3. /\ [tipo |-> p.tipo, comp |-> c, ra |-> r, texto |-> p.texto] \in Fila
      /\ [p EXCEPT !.asignado = TRUE, !.comp = c, !.ra = r] \in Pendiente
  BY <1>2 DEF Pendiente, Fila, Tipo
<1> QED BY <1>1, <1>3 DEF AsignarPendiente, TypeOK

LEMMA TipoProyecto ==
    ASSUME TypeOK,
           \/ \E m \in MatricesProyecto : ImportarProyecto(m)
           \/ EliminarProyecto \/ EliminarCargue \/ CerrarPrograma
    PROVE  TypeOK'
<1>1. ASSUME NEW m \in MatricesProyecto, ImportarProyecto(m) PROVE TypeOK'
  BY <1>1, NuevasAsignaciones DEF TypeOK
<1>2. CASE EliminarProyecto \/ EliminarCargue \/ CerrarPrograma
  BY <1>2 DEF EliminarProyecto, EliminarCargue, CerrarPrograma, TypeOK
<1> QED BY <1>1, <1>2

\* An outcome always has its id.
ResultadosConRa == \A f \in filas : f.tipo = "RESULTADO" => f.ra \in Ras

LEMMA TipoBloqueo ==
    ASSUME TypeOK, ResultadosConRa,
           (\E f \in filas : BloquearResultado(f)) \/ \E r \in bloqueados : ReabrirResultado(r)
    PROVE  TypeOK'
<1>1. bloqueados' \subseteq Ras
  BY DEF BloquearResultado, ReabrirResultado, TypeOK, ResultadosConRa
<1>2. UNCHANGED <<programa, comps, filas, pendientes, asignaciones>>
  BY DEF BloquearResultado, ReabrirResultado
<1> QED BY <1>1, <1>2 DEF TypeOK

-----------------------------------------------------------------------------
(* The inductive invariant.                                                 *)

\* A program that is not there owns nothing.
Vacio == programa = "AUSENTE" => filas = {} /\ asignaciones = {}

IndCatalogo ==
    /\ TypeOK
    /\ ResultadosConRa
    /\ Vacio
    /\ EnlaceEnCompetencia
    /\ SinDuplicados

LEMMA Inicio == Init => IndCatalogo
BY DEF Init, IndCatalogo, TypeOK, ResultadosConRa, Vacio, EnlaceEnCompetencia, SinDuplicados

LEMMA Simetrico == \A x, y : Chocan(x, y) => Chocan(y, x)
BY DEF Chocan

\* The first element with a key is kept.
LEMMA SeConserva ==
    ASSUME NEW w \in Matrices, NEW i \in Asignables(w)
    PROVE  \E j \in Conservadas(w) : Clave(w.elementos[j]) = Clave(w.elementos[i])
<1> DEFINE S == {j \in Asignables(w) : Clave(w.elementos[j]) = Clave(w.elementos[i])}
<1>1. S \subseteq Nat /\ S # {}
  BY ElementoTipo
<1>2. PICK j \in S : \A k \in S : j <= k
  BY <1>1, Primera
<1>3. ASSUME NEW k \in Asignables(w), k < j PROVE Clave(w.elementos[k]) # Clave(w.elementos[j])
  <2>1. k \in Nat /\ j \in Nat
    BY ElementoTipo, <1>1
  <2>2. k \notin S
    BY <1>2, <1>3, <2>1
  <2> QED BY <2>2
<1> QED BY <1>3 DEF Conservadas

-----------------------------------------------------------------------------
(* The import of a program.                                                 *)

LEMMA EnlaceImportar ==
    ASSUME Vacio, NEW w \in Matrices, ConfirmarImportacion(w)
    PROVE  EnlaceEnCompetencia' /\ ResultadosConRa'
<1>1. /\ Valida(w) /\ filas = {} /\ asignaciones' = {}
      /\ comps' = CompsDe(w) /\ filas' = FilasDe(w) /\ pendientes' = PendientesDe(w)
  BY DEF ConfirmarImportacion, Vacio
<1>2. ASSUME NEW i \in DOMAIN w.resultados
      PROVE  /\ FilaResultado(w, i) \in filas'
             /\ FilaResultado(w, i).tipo = "RESULTADO"
             /\ FilaResultado(w, i).comp = CodigoDe(w, w.resultados[i].comp)
             /\ FilaResultado(w, i).comp \in comps'
             /\ FilaResultado(w, i).ra = <<w.resultados[i].comp, w.resultados[i].rap>>
             /\ FilaResultado(w, i).ra \in Ras
  <2>1. w.resultados[i].comp \in IdsDe(w)
    BY <1>1 DEF Valida
  <2>2. CodigoDe(w, w.resultados[i].comp) \in CompsDe(w)
    BY <2>1, CodigoDeTipo
  <2> QED BY <1>1, <2>2, MatrizTipo DEF FilaResultado, FilasDe, Ras
<1>3. ASSUME NEW i \in Conservadas(w)
      PROVE  LET f == FilaDeElemento(w, i)
             IN  /\ f.tipo # "RESULTADO" /\ f.comp \in comps'
                 /\ f.ra # SinRA => \E g \in filas' :
                      g.tipo = "RESULTADO" /\ g.comp = f.comp /\ g.ra = f.ra
  <2> DEFINE e == w.elementos[i]
  <2>1. e \in FilaElemento /\ e.comp \in IdsDe(w)
    BY ElementoTipo DEF Conservadas
  <2>2. CodigoDe(w, e.comp) \in comps'
    BY <1>1, <2>1, CodigoDeTipo
  <2>3. /\ FilaDeElemento(w, i).tipo = e.tipo
        /\ FilaDeElemento(w, i).comp = CodigoDe(w, e.comp)
        /\ FilaDeElemento(w, i).ra = RaDe(w, e)
    BY DEF FilaDeElemento
  <2>4. ASSUME RaDe(w, e) # SinRA
        PROVE  \E g \in filas' :
                 g.tipo = "RESULTADO" /\ g.comp = CodigoDe(w, e.comp) /\ g.ra = RaDe(w, e)
    <3>1. PICK j \in DOMAIN w.resultados :
            /\ w.resultados[j].comp = e.comp /\ w.resultados[j].rap = e.rap
            /\ RaDe(w, e) = <<e.comp, e.rap>>
      BY <2>4 DEF RaDe
    <3> QED BY <1>2, <3>1
  <2>5. e.tipo # "RESULTADO"
    BY <2>1 DEF FilaElemento, Elemento
  <2> HIDE DEF e
  <2> QED BY <2>2, <2>3, <2>4, <2>5
<1>4. ASSUME NEW f \in filas'
      PROVE  /\ f.comp \in comps'
             /\ f.ra # SinRA => \E g \in filas' :
                  g.tipo = "RESULTADO" /\ g.comp = f.comp /\ g.ra = f.ra
             /\ f.tipo = "RESULTADO" => f.ra \in Ras
  <2>1. CASE \E i \in DOMAIN w.resultados : f = FilaResultado(w, i)
    BY <1>2, <2>1
  <2>2. CASE \E i \in Conservadas(w) : f = FilaDeElemento(w, i)
    BY <1>3, <2>2
  <2> QED BY <1>1, <2>1, <2>2 DEF FilasDe
<1>5. \A p \in pendientes' : p.comp = Nada /\ p.ra = SinRA
  BY <1>1 DEF PendientesDe
<1> QED BY <1>1, <1>4, <1>5 DEF EnlaceEnCompetencia, EnlaceVivo, ResultadosDe, ResultadosConRa

LEMMA DuplicadosImportar ==
    ASSUME NEW w \in Matrices, ConfirmarImportacion(w)
    PROVE  SinDuplicados'
<1>1. Materializable(w) /\ filas' = FilasDe(w)
  BY DEF ConfirmarImportacion
<1>2. \A i \in DOMAIN w.resultados : FilaResultado(w, i).tipo = "RESULTADO"
  BY DEF FilaResultado
<1>3. ASSUME NEW i \in Conservadas(w) PROVE FilaDeElemento(w, i).tipo # "RESULTADO"
  BY ElementoTipo DEF FilaDeElemento, Conservadas, FilaElemento, Elemento
<1>4. ASSUME NEW f \in filas', NEW g \in filas', f # g PROVE ~ Chocan(f, g)
  <2>1. CASE \E i, j \in DOMAIN w.resultados : f = FilaResultado(w, i) /\ g = FilaResultado(w, j)
    BY <1>1, <1>4, <2>1 DEF Materializable
  <2>2. CASE \E i, j \in Conservadas(w) : f = FilaDeElemento(w, i) /\ g = FilaDeElemento(w, j)
    BY <1>1, <1>4, <2>2 DEF Materializable
  <2>3. CASE f.tipo # g.tipo
    BY <2>3 DEF Chocan
  <2> QED BY <1>1, <1>2, <1>3, <2>1, <2>2, <2>3 DEF FilasDe
<1> QED BY <1>4 DEF SinDuplicados

-----------------------------------------------------------------------------
(* Links.                                                                   *)

\* No outcome and no competence goes.
Crece ==
    /\ comps \subseteq comps'
    /\ \A f \in filas : f.tipo = "RESULTADO" =>
         \E g \in filas' : g.tipo = "RESULTADO" /\ g.comp = f.comp /\ g.ra = f.ra

LEMMA EnlaceCrece ==
    ASSUME Crece
    PROVE  \A c, r : EnlaceVivo(c, r) => c \in comps' /\
             (r # SinRA => \E g \in filas' : g.tipo = "RESULTADO" /\ g.comp = c /\ g.ra = r)
BY DEF Crece, EnlaceVivo, ResultadosDe

\* What hangs from a destination that is offered has a living link.
LEMMA EnlaceOfrecido ==
    ASSUME NEW c \in comps, NEW r \in Destinos(c)
    PROVE  EnlaceVivo(c, r)
BY DEF Destinos, EnlaceVivo, ResultadosDe

\* A growing catalogue keeps its links if what is new has one.
LEMMA EnlaceSeguido ==
    ASSUME EnlaceEnCompetencia, Crece,
           \A f \in filas' : \/ \E g \in filas : g.comp = f.comp /\ f.ra \in {g.ra, SinRA}
                             \/ EnlaceVivo(f.comp, f.ra)
                             \/ f.comp \in comps' /\ f.tipo = "RESULTADO",
           \A a \in asignaciones' : a \in asignaciones \/ EnlaceVivo(a.comp, a.ra),
           \A p \in pendientes' : p \in pendientes \/ (p.comp # Nada /\ EnlaceVivo(p.comp, p.ra))
    PROVE  EnlaceEnCompetencia'
<1>1. \A c, r : EnlaceVivo(c, r) => c \in comps' /\
        (r # SinRA => \E g \in filas' : g.tipo = "RESULTADO" /\ g.comp = c /\ g.ra = r)
  BY EnlaceCrece
<1>2. ASSUME NEW f \in filas'
      PROVE  f.comp \in comps' /\
        (f.ra # SinRA => \E g \in filas' : g.tipo = "RESULTADO" /\ g.comp = f.comp /\ g.ra = f.ra)
  <2>1. CASE \E g \in filas : g.comp = f.comp /\ f.ra \in {g.ra, SinRA}
    BY <1>1, <2>1 DEF EnlaceEnCompetencia
  <2>2. CASE EnlaceVivo(f.comp, f.ra)
    BY <1>1, <2>2
  <2>3. CASE f.comp \in comps' /\ f.tipo = "RESULTADO"
    BY <2>3
  <2> QED BY <2>1, <2>2, <2>3
<1>3. ASSUME NEW a \in asignaciones'
      PROVE  a.comp \in comps' /\
        (a.ra # SinRA => \E g \in filas' : g.tipo = "RESULTADO" /\ g.comp = a.comp /\ g.ra = a.ra)
  BY <1>1 DEF EnlaceEnCompetencia
<1>4. ASSUME NEW p \in pendientes'
      PROVE  IF p.comp = Nada THEN p.ra = SinRA ELSE p.comp \in comps' /\
        (p.ra # SinRA => \E g \in filas' : g.tipo = "RESULTADO" /\ g.comp = p.comp /\ g.ra = p.ra)
  BY <1>1 DEF EnlaceEnCompetencia
<1> QED BY <1>2, <1>3, <1>4 DEF EnlaceEnCompetencia, EnlaceVivo, ResultadosDe

LEMMA EnlaceElementales ==
    ASSUME TypeOK, ResultadosConRa, EnlaceEnCompetencia, Elementales
    PROVE  EnlaceEnCompetencia' /\ ResultadosConRa'
<1>1. UNCHANGED <<comps, pendientes, asignaciones>>
  BY DEF Elementales, Agrega, Cambia, Quita
<1>2. ASSUME NEW c \in Codigos, NEW r, NEW t \in Textos, NEW tipo \in Tipo, Agrega(tipo, c, r, t),
             (tipo = "RESULTADO" /\ r \in Ras) \/ (tipo # "RESULTADO" /\ r = SinRA)
      PROVE  EnlaceEnCompetencia' /\ ResultadosConRa'
  <2> DEFINE x == [tipo |-> tipo, comp |-> c, ra |-> r, texto |-> t]
  <2>1. filas' = filas \cup {x} /\ c \in comps
    BY <1>2 DEF Agrega
  <2>2. x.tipo = tipo /\ x.comp = c /\ x.ra = r
    OBVIOUS
  <2> HIDE DEF x
  <2>3. Crece
    BY <1>1, <2>1 DEF Crece
  <2>4. \A f \in filas' : \/ \E g \in filas : g.comp = f.comp /\ f.ra \in {g.ra, SinRA}
                          \/ EnlaceVivo(f.comp, f.ra)
                          \/ f.comp \in comps' /\ f.tipo = "RESULTADO"
    BY <1>1, <1>2, <2>1, <2>2 DEF EnlaceVivo
  <2>5. ResultadosConRa'
    BY <1>2, <2>1, <2>2 DEF ResultadosConRa
  <2> QED BY <1>1, <2>3, <2>4, <2>5, EnlaceSeguido
<1>3. ASSUME NEW f \in filas, NEW t \in Textos, NEW ra \in {f.ra, SinRA}, Cambia(f, t, ra)
      PROVE  EnlaceEnCompetencia' /\ ResultadosConRa'
  <2> DEFINE x == [f EXCEPT !.texto = t, !.ra = ra]
  <2>1. filas' = (filas \ {f}) \cup {x} /\ (f.tipo = "RESULTADO" => ra = f.ra)
    BY <1>3 DEF Cambia, Reescribe
  <2>2. x.tipo = f.tipo /\ x.comp = f.comp /\ x.ra = ra
    BY DEF TypeOK, Fila
  <2> HIDE DEF x
  <2>3. Crece
    BY <1>1, <2>1, <2>2 DEF Crece
  <2>4. \A y \in filas' : \E g \in filas : g.comp = y.comp /\ y.ra \in {g.ra, SinRA}
    BY <2>1, <2>2
  <2>5. ResultadosConRa'
    BY <2>1, <2>2 DEF ResultadosConRa
  <2> QED BY <1>1, <2>3, <2>4, <2>5, EnlaceSeguido
<1>4. ASSUME NEW f \in filas, Quita(f) PROVE EnlaceEnCompetencia' /\ ResultadosConRa'
  <2>1. filas' = filas \ {f} /\ f.tipo # "RESULTADO"
    BY <1>4 DEF Quita
  <2>2. Crece
    BY <1>1, <2>1 DEF Crece
  <2>3. ResultadosConRa'
    BY <2>1 DEF ResultadosConRa
  <2> QED BY <1>1, <2>1, <2>2, <2>3, EnlaceSeguido
<1> QED BY <1>2, <1>3, <1>4 DEF Elementales, Tipo, Elemento

LEMMA EnlacePendiente ==
    ASSUME TypeOK, ResultadosConRa, EnlaceEnCompetencia,
           NEW p \in pendientes, NEW c \in Codigos, AsignarPendiente(p, c)
    PROVE  EnlaceEnCompetencia' /\ ResultadosConRa'
<1>1. PICK r \in Destinos(c) :
        /\ filas' = filas \cup {[tipo |-> p.tipo, comp |-> c, ra |-> r, texto |-> p.texto]}
        /\ pendientes' = (pendientes \ {p}) \cup {[p EXCEPT !.asignado = TRUE, !.comp = c, !.ra = r]}
  BY DEF AsignarPendiente
<1> DEFINE x == [tipo |-> p.tipo, comp |-> c, ra |-> r, texto |-> p.texto]
           q == [p EXCEPT !.asignado = TRUE, !.comp = c, !.ra = r]
<1>2. /\ x.comp = c /\ x.ra = r /\ x.tipo # "RESULTADO" /\ q.comp = c /\ q.ra = r /\ c # Nada
  BY ConstantesAssumption DEF TypeOK, Pendiente, Elemento
<1>3. filas' = filas \cup {x} /\ pendientes' = (pendientes \ {p}) \cup {q}
  BY <1>1
<1> HIDE DEF x, q
<1>4. UNCHANGED <<comps, asignaciones>> /\ EnlaceVivo(c, r)
  BY <1>1, EnlaceOfrecido DEF AsignarPendiente
<1>5. Crece
  BY <1>3, <1>4 DEF Crece
<1>6. ResultadosConRa'
  BY <1>2, <1>3 DEF ResultadosConRa
<1>7. \A f \in filas' : \/ \E g \in filas : g.comp = f.comp /\ f.ra \in {g.ra, SinRA}
                        \/ EnlaceVivo(f.comp, f.ra)
  BY <1>2, <1>3, <1>4
<1>8. \A y \in pendientes' : y \in pendientes \/ (y.comp # Nada /\ EnlaceVivo(y.comp, y.ra))
  BY <1>2, <1>3, <1>4
<1> QED BY <1>4, <1>5, <1>6, <1>7, <1>8, EnlaceSeguido

\* A project that arrives or goes, a closing and a lock leave the catalogue as it is.
LEMMA EnlaceQuieto ==
    ASSUME TypeOK, EnlaceEnCompetencia, UNCHANGED <<comps, filas, pendientes>>,
           \A a \in asignaciones' : \/ a \in asignaciones
                                    \/ a \in Asignacion /\ a.comp \in comps /\ a.ra \in Destinos(a.comp)
    PROVE  EnlaceEnCompetencia'
<1>1. Crece
  BY DEF Crece
<1>2. \A a \in asignaciones' : a \in asignaciones \/ EnlaceVivo(a.comp, a.ra)
  BY EnlaceOfrecido
<1> QED BY <1>1, <1>2, EnlaceSeguido

LEMMA EnlaceCompetencia ==
    ASSUME TypeOK, ResultadosConRa, EnlaceEnCompetencia, NEW c \in Codigos, CrearCompetencia(c)
    PROVE  EnlaceEnCompetencia' /\ ResultadosConRa'
<1>1. comps' = comps \cup {c} /\ UNCHANGED <<filas, pendientes, asignaciones>>
  BY DEF CrearCompetencia
<1>2. Crece
  BY <1>1 DEF Crece
<1> QED BY <1>1, <1>2, EnlaceSeguido DEF ResultadosConRa

\* The links of the other competences stay when one is deleted.
LEMMA EnlaceSinCompetencia ==
    ASSUME TypeOK, ResultadosConRa, EnlaceEnCompetencia, NEW c \in Codigos, EliminarCompetencia(c)
    PROVE  EnlaceEnCompetencia' /\ ResultadosConRa'
<1>1. /\ comps' = comps \ {c} /\ filas' = {f \in filas : f.comp # c}
      /\ pendientes' = {SinCompetencia(p, c) : p \in pendientes}
      /\ asignaciones' = {a \in asignaciones : a.comp # c}
  BY DEF EliminarCompetencia
<1>2. \A d, r : d # c /\ EnlaceVivo(d, r) => d \in comps' /\
        (r # SinRA => \E g \in filas' : g.tipo = "RESULTADO" /\ g.comp = d /\ g.ra = r)
  BY <1>1 DEF EnlaceVivo, ResultadosDe
<1>3. ASSUME NEW q \in pendientes'
      PROVE  IF q.comp = Nada THEN q.ra = SinRA ELSE q.comp \in comps' /\
        (q.ra # SinRA => \E g \in filas' : g.tipo = "RESULTADO" /\ g.comp = q.comp /\ g.ra = q.ra)
  <2>1. PICK p \in pendientes : q = SinCompetencia(p, c)
    BY <1>1
  <2>2. CASE p.comp = c
    <3>1. q.comp = Nada /\ q.ra = SinRA
      BY <2>1, <2>2 DEF SinCompetencia, TypeOK, Pendiente
    <3> QED BY <3>1
  <2>3. CASE p.comp # c
    BY <1>2, <2>1, <2>3 DEF SinCompetencia, EnlaceEnCompetencia
  <2> QED BY <2>2, <2>3
<1>4. \A f \in filas' : f.comp \in comps' /\
        (f.ra # SinRA => \E g \in filas' : g.tipo = "RESULTADO" /\ g.comp = f.comp /\ g.ra = f.ra)
  BY <1>1, <1>2 DEF EnlaceEnCompetencia
<1>5. \A a \in asignaciones' : a.comp \in comps' /\
        (a.ra # SinRA => \E g \in filas' : g.tipo = "RESULTADO" /\ g.comp = a.comp /\ g.ra = a.ra)
  BY <1>1, <1>2 DEF EnlaceEnCompetencia
<1>6. ResultadosConRa'
  BY <1>1 DEF ResultadosConRa
<1> QED BY <1>3, <1>4, <1>5, <1>6 DEF EnlaceEnCompetencia, EnlaceVivo, ResultadosDe

\* Every row that names the competence follows its new code.
LEMMA EnlaceRenombrado ==
    ASSUME TypeOK, ResultadosConRa, EnlaceEnCompetencia,
           NEW c \in Codigos, NEW d \in Codigos, ActualizarCompetencia(c, d)
    PROVE  EnlaceEnCompetencia' /\ ResultadosConRa'
<1>1. /\ c \in comps /\ d \notin comps
      /\ comps' = (comps \ {c}) \cup {d}
      /\ filas' = {ConCodigo(f, c, d) : f \in filas}
      /\ pendientes' = {ConCodigo(p, c, d) : p \in pendientes}
      /\ asignaciones' = {ConCodigo(a, c, d) : a \in asignaciones}
  BY DEF ActualizarCompetencia
<1> DEFINE N(x) == IF x = c THEN d ELSE x
<1>2. ASSUME NEW f \in filas
      PROVE  LET g == ConCodigo(f, c, d) IN g.comp = N(f.comp) /\ g.ra = f.ra /\ g.tipo = f.tipo
  BY DEF ConCodigo, TypeOK, Fila
<1>3. ASSUME NEW a \in asignaciones
      PROVE  LET g == ConCodigo(a, c, d) IN g.comp = N(a.comp) /\ g.ra = a.ra
  BY DEF ConCodigo, TypeOK, Asignacion
<1>4. ASSUME NEW p \in pendientes
      PROVE  LET g == ConCodigo(p, c, d) IN g.comp = N(p.comp) /\ g.ra = p.ra
  BY DEF ConCodigo, TypeOK, Pendiente
<1>5. c # Nada /\ d # Nada
  BY ConstantesAssumption
<1>6. \A x, r : EnlaceVivo(x, r) => N(x) \in comps' /\
        (r # SinRA => \E g \in filas' : g.tipo = "RESULTADO" /\ g.comp = N(x) /\ g.ra = r)
  BY <1>1, <1>2 DEF EnlaceVivo, ResultadosDe
<1>7. \A x : N(x) = Nada <=> x = Nada
  BY <1>5
<1> HIDE DEF N
<1>8. \A f \in filas' : f.comp \in comps' /\
        (f.ra # SinRA => \E g \in filas' : g.tipo = "RESULTADO" /\ g.comp = f.comp /\ g.ra = f.ra)
  BY <1>1, <1>2, <1>6 DEF EnlaceEnCompetencia
<1>9. \A a \in asignaciones' : a.comp \in comps' /\
        (a.ra # SinRA => \E g \in filas' : g.tipo = "RESULTADO" /\ g.comp = a.comp /\ g.ra = a.ra)
  BY <1>1, <1>3, <1>6 DEF EnlaceEnCompetencia
<1>10. ASSUME NEW q \in pendientes'
       PROVE  IF q.comp = Nada THEN q.ra = SinRA ELSE q.comp \in comps' /\
        (q.ra # SinRA => \E g \in filas' : g.tipo = "RESULTADO" /\ g.comp = q.comp /\ g.ra = q.ra)
  <2>1. PICK p \in pendientes : q = ConCodigo(p, c, d)
    BY <1>1
  <2> QED BY <1>4, <1>6, <1>7, <2>1 DEF EnlaceEnCompetencia
<1>11. ResultadosConRa'
  BY <1>1, <1>2 DEF ResultadosConRa
<1> QED BY <1>8, <1>9, <1>10, <1>11 DEF EnlaceEnCompetencia, EnlaceVivo, ResultadosDe

\* Nothing that stays names an outcome that goes.
LEMMA EnlaceSinResultado ==
    ASSUME TypeOK, ResultadosConRa, EnlaceEnCompetencia, NEW x \in filas, EliminarResultado(x)
    PROVE  EnlaceEnCompetencia' /\ ResultadosConRa'
<1>1. /\ comps' = comps /\ filas' = {g \in filas : g.ra # x.ra}
      /\ pendientes' = {SinResultado(p, x.ra) : p \in pendientes}
      /\ asignaciones' = {a \in asignaciones : a.ra # x.ra}
  BY DEF EliminarResultado
<1>2. \A d, r : r # x.ra /\ EnlaceVivo(d, r) => d \in comps' /\
        (r # SinRA => \E g \in filas' : g.tipo = "RESULTADO" /\ g.comp = d /\ g.ra = r)
  BY <1>1 DEF EnlaceVivo, ResultadosDe
<1>3. ASSUME NEW q \in pendientes'
      PROVE  IF q.comp = Nada THEN q.ra = SinRA ELSE q.comp \in comps' /\
        (q.ra # SinRA => \E g \in filas' : g.tipo = "RESULTADO" /\ g.comp = q.comp /\ g.ra = q.ra)
  <2>1. PICK p \in pendientes : q = SinResultado(p, x.ra)
    BY <1>1
  <2>2. CASE p.ra = x.ra
    <3>1. q.comp = p.comp /\ q.ra = SinRA
      BY <2>1, <2>2 DEF SinResultado, TypeOK, Pendiente
    <3>2. p.comp # Nada => p.comp \in comps
      BY DEF EnlaceEnCompetencia, EnlaceVivo
    <3> QED BY <1>1, <3>1, <3>2
  <2>3. CASE p.ra # x.ra
    BY <1>2, <2>1, <2>3 DEF SinResultado, EnlaceEnCompetencia
  <2> QED BY <2>2, <2>3
<1>4. \A f \in filas' : f.comp \in comps' /\
        (f.ra # SinRA => \E g \in filas' : g.tipo = "RESULTADO" /\ g.comp = f.comp /\ g.ra = f.ra)
  BY <1>1, <1>2 DEF EnlaceEnCompetencia
<1>5. \A a \in asignaciones' : a.comp \in comps' /\
        (a.ra # SinRA => \E g \in filas' : g.tipo = "RESULTADO" /\ g.comp = a.comp /\ g.ra = a.ra)
  BY <1>1, <1>2 DEF EnlaceEnCompetencia
<1>6. ResultadosConRa'
  BY <1>1 DEF ResultadosConRa
<1> QED BY <1>3, <1>4, <1>5, <1>6 DEF EnlaceEnCompetencia, EnlaceVivo, ResultadosDe

-----------------------------------------------------------------------------
(* Duplicates.                                                              *)

\* A row that meets no duplicate among the others.
LEMMA UnaMas ==
    ASSUME SinDuplicados, NEW S, S \subseteq filas, NEW x, filas' = S \cup {x},
           \A f \in S : ~ Chocan(f, x)
    PROVE  SinDuplicados'
<1>1. ASSUME NEW f \in filas', NEW g \in filas', f # g PROVE ~ Chocan(f, g)
  BY <1>1, Simetrico DEF SinDuplicados
<1> QED BY <1>1 DEF SinDuplicados

LEMMA UnasMenos ==
    ASSUME SinDuplicados, filas' \subseteq filas
    PROVE  SinDuplicados'
BY DEF SinDuplicados

LEMMA DuplicadosElementales ==
    ASSUME TypeOK, SinDuplicados, Elementales
    PROVE  SinDuplicados'
<1>1. ASSUME NEW c \in Codigos, NEW r, NEW t \in Textos, NEW tipo \in Tipo, Agrega(tipo, c, r, t)
      PROVE  SinDuplicados'
  <2> DEFINE x == [tipo |-> tipo, comp |-> c, ra |-> r, texto |-> t]
  <2>1. filas' = filas \cup {x} /\ ~ Repite(tipo, c, t, Ninguna)
    BY <1>1 DEF Agrega
  <2>2. Ninguna \notin filas
    BY DEF Ninguna, TypeOK, Fila, Tipo, Elemento
  <2>3. \A f \in filas : ~ Chocan(f, x)
    BY <2>1, <2>2 DEF Repite, Chocan
  <2> QED BY <2>1, <2>3, UnaMas
<1>2. ASSUME NEW f \in filas, NEW t \in Textos, NEW ra \in {f.ra, SinRA}, Cambia(f, t, ra)
      PROVE  SinDuplicados'
  <2> DEFINE x == [f EXCEPT !.texto = t, !.ra = ra]
  <2>1. filas' = (filas \ {f}) \cup {x} /\ ~ Repite(f.tipo, f.comp, t, f)
    BY <1>2 DEF Cambia, Reescribe
  <2>2. x.tipo = f.tipo /\ x.comp = f.comp /\ x.texto = t
    BY DEF TypeOK, Fila
  <2> HIDE DEF x
  <2>3. \A g \in filas \ {f} : ~ Chocan(g, x)
    BY <2>1, <2>2 DEF Repite, Chocan
  <2> QED BY <2>1, <2>3, UnaMas
<1>3. ASSUME NEW f \in filas, Quita(f) PROVE SinDuplicados'
  BY <1>3, UnasMenos DEF Quita
<1> QED BY <1>1, <1>2, <1>3 DEF Elementales, Tipo

LEMMA DuplicadosPendiente ==
    ASSUME SinDuplicados, NEW p, NEW c, AsignarPendiente(p, c)
    PROVE  SinDuplicados'
<1>1. PICK r \in Destinos(c) :
        LET nueva == [tipo |-> p.tipo, comp |-> c, ra |-> r, texto |-> p.texto]
        IN  ~ YaEsta(nueva) /\ filas' = filas \cup {nueva}
  BY DEF AsignarPendiente
<1> QED BY <1>1, UnaMas DEF YaEsta

\* No row has the new code before the change, so that two rows with it had the
\* old one.
LEMMA DuplicadosRenombrado ==
    ASSUME TypeOK, SinDuplicados, EnlaceEnCompetencia,
           NEW c \in Codigos, NEW d \in Codigos, ActualizarCompetencia(c, d)
    PROVE  SinDuplicados'
<1>1. d \notin comps /\ filas' = {ConCodigo(f, c, d) : f \in filas}
  BY DEF ActualizarCompetencia
<1>2. \A f \in filas : f.comp # d
  BY <1>1 DEF EnlaceEnCompetencia, EnlaceVivo
<1>3. ASSUME NEW f \in filas
      PROVE  LET g == ConCodigo(f, c, d)
             IN  /\ g.comp = IF f.comp = c THEN d ELSE f.comp
                 /\ g.ra = f.ra /\ g.tipo = f.tipo /\ g.texto = f.texto
  BY DEF ConCodigo, TypeOK, Fila
<1>4. ASSUME NEW f \in filas, NEW g \in filas, Chocan(ConCodigo(f, c, d), ConCodigo(g, c, d))
      PROVE  Chocan(f, g)
  <2>1. f.comp = g.comp
    BY <1>2, <1>3, <1>4 DEF Chocan
  <2> QED BY <1>3, <1>4, <2>1 DEF Chocan
<1>5. ASSUME NEW x \in filas', NEW y \in filas', x # y PROVE ~ Chocan(x, y)
  <2>1. PICK f \in filas, g \in filas : x = ConCodigo(f, c, d) /\ y = ConCodigo(g, c, d)
    BY <1>1
  <2>2. f # g
    BY <1>5, <2>1
  <2> QED BY <1>4, <2>1, <2>2 DEF SinDuplicados
<1> QED BY <1>5 DEF SinDuplicados

-----------------------------------------------------------------------------
(* Every step.                                                              *)

\* The steps of Next, the elementary ones together.
LEMMA Pasos ==
    ASSUME TypeOK, Next
    PROVE  \/ \E w \in Matrices : ConfirmarImportacion(w)
           \/ \E c \in Codigos : CrearCompetencia(c)
           \/ \E c \in Codigos : EliminarCompetencia(c)
           \/ \E c, d \in Codigos : ActualizarCompetencia(c, d)
           \/ Elementales /\ Existe
           \/ \E f \in filas : EliminarResultado(f)
           \/ \E p \in pendientes, c \in Codigos : AsignarPendiente(p, c)
           \/ \E m \in MatricesProyecto : ImportarProyecto(m)
           \/ EliminarProyecto
           \/ EliminarCargue
           \/ CerrarPrograma
           \/ \E f \in filas : BloquearResultado(f)
           \/ \E r \in bloqueados : ReabrirResultado(r)
<1>1. CASE Editar
  <2>1. CASE EditarCompetencias
    BY <2>1 DEF EditarCompetencias
  <2>2. CASE EditarResultados
    BY <2>2, AgregaElementales, CambiaElementales DEF EditarResultados
  <2>3. CASE EditarSaberes \/ EditarProcesos \/ EditarCriterios
    BY <2>3, AgregaElementales, CambiaElementales, QuitaElementales
    DEF EditarSaberes, EditarProcesos, EditarCriterios
  <2>4. CASE Conciliar
    BY <2>4 DEF Conciliar
  <2> QED BY <1>1, <2>1, <2>2, <2>3, <2>4 DEF Editar
<1> QED BY <1>1 DEF Next

\* The next-state relation keeps the invariant.
LEMMA PasoCatalogo == IndCatalogo /\ [Next]_vars => IndCatalogo'
<1> SUFFICES ASSUME IndCatalogo, [Next]_vars PROVE IndCatalogo'
  OBVIOUS
<1> USE DEF IndCatalogo
<1>1. CASE \E w \in Matrices : ConfirmarImportacion(w)
  <2>1. Vacio'
    BY <1>1 DEF ConfirmarImportacion, Vacio
  <2> QED BY <1>1, <2>1, TipoImportar, EnlaceImportar, DuplicadosImportar
<1>2. CASE \E c \in Codigos : CrearCompetencia(c)
  <2>1. Vacio' /\ SinDuplicados'
    BY <1>2, UnasMenos DEF CrearCompetencia, Vacio, Existe
  <2> QED BY <1>2, <2>1, TipoCompetencias, EnlaceCompetencia
<1>3. CASE \E c \in Codigos : EliminarCompetencia(c)
  <2>1. Vacio' /\ SinDuplicados'
    BY <1>3, UnasMenos DEF EliminarCompetencia, Vacio, Existe
  <2> QED BY <1>3, <2>1, TipoCompetencias, EnlaceSinCompetencia
<1>4. CASE \E c, d \in Codigos : ActualizarCompetencia(c, d)
  <2>1. Vacio'
    BY <1>4 DEF ActualizarCompetencia, Vacio, Existe
  <2> QED BY <1>4, <2>1, TipoCompetencias, EnlaceRenombrado, DuplicadosRenombrado
<1>5. CASE Elementales /\ Existe
  <2>1. Vacio'
    BY <1>5 DEF Elementales, Agrega, Cambia, Quita, Vacio, Existe
  <2> QED BY <1>5, <2>1, TipoElementales, EnlaceElementales, DuplicadosElementales
<1>6. CASE \E f \in filas : EliminarResultado(f)
  <2>1. Vacio' /\ SinDuplicados'
    BY <1>6, UnasMenos DEF EliminarResultado, Vacio, Existe
  <2> QED BY <1>6, <2>1, TipoResultado, EnlaceSinResultado
<1>7. CASE \E p \in pendientes, c \in Codigos : AsignarPendiente(p, c)
  <2>1. Vacio'
    BY <1>7 DEF AsignarPendiente, Vacio, Existe
  <2> QED BY <1>7, <2>1, TipoPendiente, EnlacePendiente, DuplicadosPendiente
<1>8. CASE \E m \in MatricesProyecto : ImportarProyecto(m)
  <2>1. Vacio' /\ ResultadosConRa' /\ SinDuplicados'
    BY <1>8 DEF ImportarProyecto, Vacio, Existe, ResultadosConRa, SinDuplicados
  <2>2. EnlaceEnCompetencia'
    BY <1>8, NuevasAsignaciones, EnlaceQuieto
  <2> QED BY <1>8, <2>1, <2>2, TipoProyecto
<1>9. CASE EliminarProyecto
  <2>1. Vacio' /\ ResultadosConRa' /\ SinDuplicados'
    BY <1>9 DEF EliminarProyecto, Vacio, Existe, ResultadosConRa, SinDuplicados
  <2>2. EnlaceEnCompetencia'
    BY <1>9, EnlaceQuieto DEF EliminarProyecto
  <2> QED BY <1>9, <2>1, <2>2, TipoProyecto
<1>10. CASE EliminarCargue
  <2>1. Vacio' /\ ResultadosConRa' /\ SinDuplicados' /\ EnlaceEnCompetencia'
    BY <1>10 DEF EliminarCargue, Vacio, ResultadosConRa, SinDuplicados, EnlaceEnCompetencia
  <2> QED BY <1>10, <2>1, TipoProyecto
<1>11. CASE CerrarPrograma
  <2>1. Vacio' /\ ResultadosConRa' /\ SinDuplicados'
    BY <1>11 DEF CerrarPrograma, Vacio, Existe, ResultadosConRa, SinDuplicados
  <2>2. EnlaceEnCompetencia'
    BY <1>11, EnlaceQuieto DEF CerrarPrograma
  <2> QED BY <1>11, <2>1, <2>2, TipoProyecto
<1>12. CASE (\E f \in filas : BloquearResultado(f)) \/ \E r \in bloqueados : ReabrirResultado(r)
  <2>1. UNCHANGED <<programa, comps, filas, pendientes, asignaciones>>
    BY <1>12 DEF BloquearResultado, ReabrirResultado
  <2>2. Vacio' /\ ResultadosConRa' /\ SinDuplicados'
    BY <2>1 DEF Vacio, ResultadosConRa, SinDuplicados
  <2>3. EnlaceEnCompetencia'
    BY <2>1, EnlaceQuieto
  <2> QED BY <1>12, <2>2, <2>3, TipoBloqueo
<1>13. CASE UNCHANGED vars
  <2>1. TypeOK'
    BY <1>13 DEF vars, TypeOK
  <2>2. Vacio' /\ ResultadosConRa' /\ SinDuplicados'
    BY <1>13 DEF vars, Vacio, ResultadosConRa, SinDuplicados
  <2>3. EnlaceEnCompetencia'
    BY <1>13, EnlaceQuieto DEF vars
  <2> QED BY <2>1, <2>2, <2>3
<1> QED BY <1>1, <1>2, <1>3, <1>4, <1>5, <1>6, <1>7, <1>8, <1>9, <1>10, <1>11, <1>12, <1>13, Pasos

LEMMA Inductiva == Spec => []IndCatalogo
BY Inicio, PasoCatalogo, PTL DEF Spec

\* The variables keep their types.
THEOREM TiposCatalogo == Spec => []TypeOK
<1>1. IndCatalogo => TypeOK
  BY DEF IndCatalogo
<1> QED BY <1>1, Inductiva, PTL

\* Links to outcomes never leave their competence and always find the outcome.
THEOREM EnlacesVivos == Spec => []EnlaceEnCompetencia
<1>1. IndCatalogo => EnlaceEnCompetencia
  BY DEF IndCatalogo
<1> QED BY <1>1, Inductiva, PTL

\* No two rows of a competence are duplicates, however they came in.
THEOREM NuncaDuplicados == Spec => []SinDuplicados
<1>1. IndCatalogo => SinDuplicados
  BY DEF IndCatalogo
<1> QED BY <1>1, Inductiva, PTL

-----------------------------------------------------------------------------
(* What a step may not do.                                                  *)

\* A locked outcome keeps its text and goes only with its competence.
THEOREM BloqueadoQueda == Spec => BloqueadoIntacto
<1> DEFINE A == \A f \in filas : /\ f.tipo = "RESULTADO" /\ f.ra \in bloqueados
                                 => f \in filas' \/ f.comp \notin comps'
<1>1. ASSUME IndCatalogo, [Next]_vars PROVE A
  <2> SUFFICES ASSUME NEW f \in filas, f.tipo = "RESULTADO", f.ra \in bloqueados, f \notin filas'
               PROVE  f.comp \notin comps'
    OBVIOUS
  <2> USE <1>1 DEF IndCatalogo
  <2>1. CASE \E w \in Matrices : ConfirmarImportacion(w)
    BY <2>1 DEF ConfirmarImportacion, Vacio
  <2>2. CASE \E c \in Codigos : EliminarCompetencia(c)
    BY <2>2 DEF EliminarCompetencia
  <2>3. CASE \E c, d \in Codigos : ActualizarCompetencia(c, d)
    <3>1. PICK c \in Codigos, d \in Codigos : ActualizarCompetencia(c, d)
      BY <2>3
    <3>2. f.comp = c
      BY <3>1 DEF ActualizarCompetencia, ConCodigo
    <3> QED BY <3>1, <3>2 DEF ActualizarCompetencia
  <2>4. CASE Elementales
    BY <2>4 DEF Elementales, Agrega, Cambia, Reescribe, Quita
  <2>5. CASE \E g \in filas : EliminarResultado(g)
    BY <2>5 DEF EliminarResultado
  <2>6. CASE \E p \in pendientes, c \in Codigos : AsignarPendiente(p, c)
    BY <2>6 DEF AsignarPendiente
  <2>7. CASE EliminarCargue
    BY <2>7 DEF EliminarCargue
  <2>8. CASE filas' = filas
    BY <2>8
  <2>9. CASE UNCHANGED vars
    BY <2>8, <2>9 DEF vars
  <2>10. CASE \/ \E c \in Codigos : CrearCompetencia(c)
              \/ \E m \in MatricesProyecto : ImportarProyecto(m)
              \/ EliminarProyecto \/ CerrarPrograma
              \/ \E g \in filas : BloquearResultado(g)
              \/ \E r \in bloqueados : ReabrirResultado(r)
    BY <2>8, <2>10 DEF CrearCompetencia, ImportarProyecto, EliminarProyecto, CerrarPrograma,
                       BloquearResultado, ReabrirResultado
  <2> QED BY <2>1, <2>2, <2>3, <2>4, <2>5, <2>6, <2>7, <2>9, <2>10, Pasos
<1>2. IndCatalogo /\ [Next]_vars => [A]_vars
  BY <1>1
<1> QED BY <1>2, Inductiva, PTL DEF Spec, BloqueadoIntacto

\* What a confirmed workbook holds is in the catalogue or waits to be reconciled.
THEOREM TodoLlega == Spec => NadaSePierde
<1> DEFINE L(w, i) == \/ \E p \in pendientes' : p.orden = i
                      \/ \E f \in filas' : /\ f.tipo = w.elementos[i].tipo
                                           /\ f.comp = CodigoDe(w, w.elementos[i].comp)
                                           /\ norma[f.texto] = norma[w.elementos[i].texto]
<1>1. ASSUME NEW w \in Matrices, ConfirmarImportacion(w), NEW i \in DOMAIN w.elementos
      PROVE  L(w, i)
  <2>1. filas' = FilasDe(w) /\ pendientes' = PendientesDe(w)
    BY <1>1 DEF ConfirmarImportacion
  <2>2. CASE i \in PorConciliar(w)
    <3> DEFINE p == [orden |-> i, tipo |-> w.elementos[i].tipo, texto |-> w.elementos[i].texto,
                     asignado |-> FALSE, comp |-> Nada, ra |-> SinRA]
    <3>1. p \in pendientes' /\ p.orden = i
      BY <2>1, <2>2 DEF PendientesDe
    <3> QED BY <3>1
  <2>3. CASE i \in Asignables(w)
    <3>1. PICK j \in Conservadas(w) : Clave(w.elementos[j]) = Clave(w.elementos[i])
      BY <2>3, SeConserva
    <3>2. FilaDeElemento(w, j) \in filas'
      BY <2>1 DEF FilasDe
    <3>3. /\ w.elementos[j].comp = w.elementos[i].comp
          /\ w.elementos[j].tipo = w.elementos[i].tipo
          /\ norma[w.elementos[j].texto] = norma[w.elementos[i].texto]
      BY <3>1 DEF Clave
    <3>4. /\ FilaDeElemento(w, j).tipo = w.elementos[j].tipo
          /\ FilaDeElemento(w, j).comp = CodigoDe(w, w.elementos[j].comp)
          /\ FilaDeElemento(w, j).texto = w.elementos[j].texto
      BY DEF FilaDeElemento
    <3> QED BY <3>2, <3>3, <3>4
  <2> QED BY <2>2, <2>3 DEF PorConciliar
<1> DEFINE A == programa = "AUSENTE" => \A w \in Matrices : ConfirmarImportacion(w) =>
                    \A i \in DOMAIN w.elementos : L(w, i)
<1>2. [Next]_vars => [A]_vars
  BY <1>1
<1> QED BY <1>2, PTL DEF Spec, NadaSePierde
=============================================================================
