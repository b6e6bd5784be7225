---------------------------- MODULE CicloEntrega -----------------------------
(****************************************************************************)
(* What the review cycle promises to whoever follows the deliveries of a    *)
(* process.  A delivery is numbered once, and somebody has it at any time:  *)
(* the reviewers, the team, or nobody any more because it is approved.  The *)
(* reviewers have one delivery at most; a delivery they have sent back      *)
(* never returns to them, the team delivers a new one; only the latest can  *)
(* be approved; and nothing but an approval changes the workbook recorded   *)
(* in a delivery they look at or have approved.  The file people download   *)
(* is another matter: see OficialPreservado in MCRevisionCurricular.        *)
(****************************************************************************)
EXTENDS Naturals

CONSTANTS MaxVersion, Libros, SinLibro

VARIABLES ultima, turno, libro

Version == 1..MaxVersion

Turno == {"NADIE", "REVISORES", "EQUIPO", "APROBADA"}

Init ==
    /\ ultima = 0
    /\ turno = [v \in Version |-> "NADIE"]
    /\ libro = [v \in Version |-> SinLibro]

Entregar(d) ==
    /\ ultima < MaxVersion
    /\ \A v \in Version : turno[v] # "REVISORES"
    /\ turno[ultima + 1] = "NADIE"
    /\ ultima' = ultima + 1
    /\ turno' = [turno EXCEPT ![ultima + 1] = "REVISORES"]
    /\ libro' = [libro EXCEPT ![ultima + 1] = d]

\* The workbook of the approval is the one there is at that moment.
Aprobar(d) ==
    /\ ultima # 0
    /\ turno' = [turno EXCEPT ![ultima] = "APROBADA"]
    /\ libro' = [libro EXCEPT ![ultima] = d]
    /\ UNCHANGED ultima

\* The reviewers ask for adjustments, or an approval is withdrawn.
Devolver(v) ==
    /\ turno[v] \in {"REVISORES", "APROBADA"}
    /\ turno' = [turno EXCEPT ![v] = "EQUIPO"]
    /\ libro' = [libro EXCEPT ![v] = SinLibro]
    /\ UNCHANGED ultima

\* The contents changed: every approval falls at once.
Invalidar ==
    /\ \E v \in Version : turno[v] = "APROBADA"
    /\ turno' = [v \in Version |-> IF turno[v] = "APROBADA" THEN "EQUIPO" ELSE turno[v]]
    /\ libro' = [v \in Version |-> IF turno[v] = "APROBADA" THEN SinLibro ELSE libro[v]]
    /\ UNCHANGED ultima

Next ==
    \/ \E d \in Libros : Entregar(d) \/ Aprobar(d)
    \/ \E v \in Version : Devolver(v)
    \/ Invalidar

Spec == Init /\ [][Next]_<<ultima, turno, libro>>
=============================================================================
