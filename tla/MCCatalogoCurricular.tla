------------------------ MODULE MCCatalogoCurricular ------------------------
(* Small instances of CatalogoCurricular.                                   *)
EXTENDS CatalogoCurricular, SequencesExt, TLC

CONSTANTS c1, c2, k1, k2, r1, a1, t1, t2, t3

\* t1 and t2 differ in their case, which SQL and the preview ignore, and t3 from
\* both in its spaces, which only the preview does.
MinusculasMC == [t \in Textos |-> IF t = t3 THEN t3 ELSE t1]
NormaMC == [t \in Textos |-> t1]
Simetria == Permutations({t1, t2})

Competencias == {<<[id |-> k1, codigo |-> c1]>>,
                 <<[id |-> k1, codigo |-> c1], [id |-> k2, codigo |-> c2]>>,
                 <<[id |-> k1, codigo |-> c1], [id |-> k1, codigo |-> c2]>>}
Resultado(k, t) == [comp |-> k, rap |-> r1, texto |-> t]
ResultadosExcel == {<<>>} \cup {<<Resultado(k1, t)>> : t \in Textos}
                   \cup {<<Resultado(k1, t), Resultado(k2, t)>> : t \in Textos}
Elementos(k) == [comp: {k}, rap: {r1, Nada}, tipo: {"SABER"}, texto: Textos]
UnoDe(tipo, t) == [comp |-> k1, rap |-> Nada, tipo |-> tipo, texto |-> t]

\* Workbooks with up to two elements, and one that is complete.
MatricesMC ==
    [competencias: Competencias, resultados: ResultadosExcel,
     elementos: SeqOf(Elementos(k1), 2) \cup Elementos(k1) \X Elementos(k2)]
    \cup {[competencias |-> <<[id |-> k1, codigo |-> c1]>>,
           resultados |-> <<Resultado(k1, t)>>,
           elementos |-> <<UnoDe("SABER", t), UnoDe("PROCESO", t), UnoDe("CRITERIO", t)>>] :
              t \in Textos}

MatricesProyectoMC == {<<[actividad |-> a1, codigo |-> c1, rap |-> r1]>>,
                       <<[actividad |-> a1, codigo |-> c2, rap |-> Nada]>>}

=============================================================================
