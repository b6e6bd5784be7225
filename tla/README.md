# ASGARD: TLA+ models of curricular design, its review and who takes part

ASGARD supports the curricular design of training programs. A team loads a
program and a project, plans the learning results (RA, *resultados de
aprendizaje*) of each activity, generates one workbook for the whole project and
submits it to pedagogical reviewers, who observe, ask for adjustments or approve.
What was approved is locked until an administrator reopens it RA by RA.

This directory holds TLA+ modules of the backend under `src/backend/src`, the TLC
configurations that check them on small instances, and proofs checked by TLAPS
for every size. `PROJECT.json` maps every definition to the lines it models and
lists the runs, the hazards and the theorems.

## 1. Inventory

Paths are relative to `src/backend/src`; "services" is `application/services`,
"controllers" is `interfaces/http/controllers`.

| Component | State | Operations | What is hard | Correct when | Module |
| --- | --- | --- | --- | --- | --- |
| Pedagogical review cycle (`services/revision_curricular_service.py`) | deliveries by version, observations, reopening requests with their items, RA versions | submit (with or without generating), start review, observe, report, resolve, ask for adjustments, approve, verify a download, request / approve / reject a reopening | long legal sequences of handlers written apart; three places hold the lock of an RA | one delivery in review; approval and download agree; approved or reviewed contents change only through a reopening | `RevisionCurricular` |
| Plannings, RA locks, consolidated workbook (`services/planeacion_service.py`, `controllers/planeacion.py`) | plannings, lock columns of the RA, `ra_locks` JSON, document configuration, an object in MinIO | create, save, confirm, generate (individual, consolidated), configure, delete, download | "up to date" is deduced from timestamps; MinIO takes no part in transactions; controllers commit what a failed generation left | a workbook reported current is current | `RevisionCurricular`, in part |
| Sessions (`controllers/auth.py`, `interfaces/http/deps.py`) | `usuarios.token_version` and state, `user_sessions` | login, refresh, logout, change of password, revocation | concurrent requests under READ COMMITTED | single use of refresh tokens; a closed family stays closed; every request ends | `SesionesAuth` |
| Block drafts (`services/drafts.py`, the wizards of the frontend) | one draft per block and reference, copies in browser tabs | save, autosave, discard, heal, anchor | a draft names rows that others create and delete; an old tab writes an old copy whole | what drafts say never breaks the rows | `CicloBloques` |
| Closings and gate (`services/programa_cierre.py`, `proyecto_cierre.py`, `proyecto_gate.py`) | program and project states | validate, close, gate | the gate trusts drafts as well as rows; edits after a closing | a project is closed only under a closed program; a closed program only goes with its load | `CicloBloques`, `CatalogoCurricular` |
| Excel import (`services/programa_excel.py`, `proyecto_excel.py`) | drafts, then rows | preview, confirm | the preview and the tables compare differently; rows are dropped, deferred or linked | what the preview accepts can be confirmed and nothing is lost | `CicloBloques`, `CatalogoCurricular` |
| Loads, documents and storage (`services/proyecto_cargue.py`, `*_documentos.py`, `infrastructure/storage`) | rows and MinIO objects | upload, delete a document, delete a load | drafts of two references; failure between MinIO and the commit | deleting a load deletes its program | `CicloBloques`, in part |
| Curricular catalogue (`services/competencias.py`, `resultados_aprendizaje.py`, `conocimientos_*.py`, `criterios.py`, `pendientes_curriculares.py`) | competences, outcomes, knowledge, criteria, pending elements, links of the project | CRUD, reconciliation | seven services write rows that refer to each other | links stay in their competence, no duplicates, locked outcomes stay | `CatalogoCurricular` |
| Teams and processes (`services/team_admin.py`) | teams, memberships, leader, processes, authorised programs | create, edit, members, states, authorise, assign, delete, heal | constraints across rows that several administrators edit | a team has a specialty of its own coordination; references stay alive | `EquiposProcesos` |
| Access scope (`services/access_scope.py`) | none of its own; heals missing processes | authorise one process, list the allowed ones | a write inside a read; two ways to decide the same | nobody reaches a process of another team; lists agree with access | `EquiposProcesos`, `CicloBloques` |
| Organisation (`services/organization_admin.py`) | coordinations, specialties | create, (de)activate with cascade, delete | deletions clear columns of four tables | no reference to a deleted row | `EquiposProcesos` |
| User administration (`services/user_admin.py`) | users, roles, scopes, states | create, update, change state, reset, delete | demotions and deletions touch teams, members and sessions; the last active SUPERADMIN is counted without a lock | one active SUPERADMIN remains; no row names a deleted user | `EquiposProcesos`, `SesionesAuth`, in part |
| Dashboards, audit, notifications | audit events | queries, `eliminar_flujo` | the only write is a deletion of a flow | not applicable | `CicloBloques`, that deletion only |
| Frontend, migrations, deployment | browser state, schema | wizard, autosave, single-flight refresh | tabs that keep old copies | not applicable | `CicloBloques`, the tabs only |

Components meet through PostgreSQL rows: a handler of one reads what handlers of
another wrote, usually without a lock. Some meetings matter most. Saving,
deleting or configuring plannings calls `invalidate_approval_on_mutation` in the
controller, before the service. Submission calls the generator of the planning
service inside its own transaction. Every authenticated handler passes through
`get_current_user`, which reads the row of the user that the session operations
write. Every handler of the curricular blocks passes through
`require_process_access`, which may create the process it authorises with. The
drafts of the blocks name programs and projects by id, inside JSON that no foreign
key guards: deletions, imports and the gate read those ids back. The review locks
outcomes that the services of the catalogue edit, and a closing reads the whole
catalogue. Row locks are few (`with_for_update`). The review service locks the delivery,
the observation or the request it decides; requesting a reopening and approving one lock
the planning too, and an approval the plannings and the configuration. Submitting, saving
and reporting lock no planning and no workbook. `refresh_token` locks sessions. Nothing
else locks a row it reads.

## 2. Modules

| Module | Contents |
| --- | --- |
| `RevisionCurricular` | the review cycle and the plannings, one action per handler |
| `CicloEntrega` | abstract: what the review cycle promises about each delivery; `RevisionCurricular` refines it |
| `MCRevisionCurricular` | instances, symmetry, and the statements of the documentation that the code does not keep |
| `RevisionCurricularProofs` | proof of the type invariant |
| `RevisionCurricularSeguridad` | proofs about deliveries and the workbook, and of the refinement |
| `RevisionCurricularReapertura` | proofs about reopening, locks and RA versions |
| `RevisionCurricularCandados` | proofs about who unlocks an RA, edits and deliveries under review |
| `SesionesAuth` | the sessions of one user, one action per SQL statement; its fairness |
| `SesionesAuthProofs` | proofs about families of refresh tokens |
| `CicloPrograma` | abstract: what the cycle of a program and its project promises per code |
| `CicloBloques` | drafts, tabs, processes and rows of programs and projects; it refines `CicloPrograma` |
| `ConfirmacionesSolapadas` | `CicloBloques` with the confirmation of a project as a read and a later write, any number at once |
| `MCCicloBloques` | instances of `ConfirmacionesSolapadas`, and a statement of the documentation the code does not keep |
| `CicloBloquesProofs` | proofs about programs and projects, of the refinement, and of both when confirmations overlap |
| `CatalogoCurricular` | the rows of the catalogue of one program and the workbooks that create them |
| `MCCatalogoCurricular` | its instance |
| `CatalogoCurricularProofs` | proofs about links, duplicates, locks and the import |
| `EquiposProcesos` | coordinations, users, teams, processes and access to them |
| `MCEquiposProcesos` | its instance |
| `EquiposProcesosProofs` | proofs about references, specialties and access |

Names follow the source (`edit_status` is `edit`, `datos_complementarios["ra_locks"]`
is `raLocks`). Operators called `...Defecto...` are slips of the definition that
follows them, one for each checked property; no action uses them.

### RevisionCurricular and the code

One curricular process and its project. Handlers are atomic here: an action is
one HTTP request that committed, or, where it ends in `Falla` or `Rechazado`, one
that failed and kept part of its effects. The state is the tables:

* `entregas`, `ultima`: `entregas_revision_curricular`; an approved delivery keeps
  the plannings and the workbook of its snapshot.
* `observaciones`, `solicitudes`, `versiones`: `observaciones_revision_curricular`,
  `planning_edit_requests` with their items, `learning_result_versions`.
* `planeaciones`: state, review, approval and edit status, chosen RAs, contents.
* `resultados`: the lock columns of an RA, shared by all plannings that chose it.
* `raLocks`: the entries a planning has of its own for its RAs.
* `config`, `objeto`: `planeacion_documento_config` and the object in MinIO.

`Bloqueado(p, r)` is `_resolve_ra_lock_metadata`: the column of the RA, then the
reopening marks, then the entry of the planning, then the planning itself.
`config.alDia` is the answer of the timestamp comparison: every UPDATE of a
planning row renews `fecha_actualizacion` (`onupdate=func.now()`), `now()` is the
start of the transaction, and the generator stamps the workbook later in it, so
submitting with generation leaves the workbook current and submitting without it
does not. A handler that writes a planning with the values it had issues no
UPDATE. Workbooks are functions from plannings to a block (its RAs and contents):
the SHA-256 that the code compares tells exactly these apart.

`GuardarBorrador` always returns a planning to BORRADOR. `GenerarConsolidado`
confirms the drafts without gaps on the way; which ones are ready is the
nondeterministic set `listos`. A failed generation commits the drafts it had
confirmed. `GenerarYEnviarRechazado` and `EliminarPlaneacionFalla` roll the
database back and leave the object as they changed it. `EliminarPlaneacion`
loses the requests and the versions of the planning by cascade, and the failed
deletion of the consolidated object is swallowed (`objeto' \in {objeto, SinDoc}`,
which covers as well the case in which the key of the planning is the
consolidated one).

`CicloEntrega` is what the reviewers and the team may rely on without knowing
plannings, locks or requests: a delivery has a number, somebody who has it
(`turno`) and a workbook it shows (`libro`), which is the one recorded in its row and not
the object people download: `RevisionOficial` shows that one overwritten. The mapping is
computed row by row:
`TurnoDe` says "REVISORES" for the three states of `EnCurso`, "APROBADA" for APROBADO,
"NADIE" for a row that does not exist and "EQUIPO" for the rest; `LibroDe` is the
workbook of the row while the reviewers have it or it is approved. Taking up a
delivery, observing it, reporting and everything done to plannings and requests
that costs no approval is a stutter. `Aprobar` has no guard on who has the delivery,
because `aprobar_entrega` has none (`revision_curricular_service.py:1391`): a latest
delivery whose observations are resolved is approved wherever it is.

`Next` groups the handlers by the controller that calls them: `PlaneacionNext`,
`DocumentoNext`, `RevisionNext`, `ReaperturaNext`.

Left out, with the reason: roles and permissions (they only reject); the states of
the team, program and project, taken as active and complete; the activity of a
planning, fixed by `RAsDeActividad`; targets and texts of observations; individual
workbooks and the per-RA didactic data inside a planning (`contenido` is one value
for each planning); metadata and version numbers of the configuration; audit rows;
the difference between two rejections.

The unique key (planning, RA, version) of `learning_result_versions` is that of the
ORM model (`infrastructure/db/models/revision_curricular.py`). The migration
`alembic/versions` `f6a7b8c9d0e1` creates a plain index instead; on a database
built by migrations alone the second approval of a version would insert a second
row. The model follows the ORM.

### SesionesAuth and the code

The sessions of one user. Each request has a database transaction of its own,
opened by its first statement; the session factory has `autoflush=False`, so
writes reach the database at the flush of `add_event` or at the commit. An action
is a statement that reads or locks, or that flush and commit together:

* login: `IniciarLogin`, `ConfirmarLogin`;
* refresh: `IniciarRefresco` (reads the user, checks state and token_version),
  `BloquearSesion` (`FOR UPDATE` of the presented row), then `ConfirmarRotacion`,
  or `VerFamilia`, `BloquearFamilia`, `ConfirmarReplay` if the row was revoked;
* logout and change of password (`IniciarCierre`), resets and changes of role
  (`IniciarRevocacion`), deactivation or block (`IniciarBaja`): then `VerSesiones`
  (no lock), `EscribirUsuario`, `ConfirmarCierre`;
* activation: `IniciarAlta`, `ConfirmarAlta`;
* `Abortar`: a rejection, an error, a lost client, or the victim of a deadlock.

`peticiones[i].filas` are the rows a transaction has locked. A `SELECT ... FOR
UPDATE` under READ COMMITTED picks its rows in the snapshot of the statement,
waits for each and reads it again: hence two actions for the family.
`token_version` is written as the value read by the request plus one, so an
overlap loses an increment, as in the code. An inserted session takes only a key
lock on the user, which the UPDATE of other columns does not wait for: a rotation
commits while a closing has written the user, a login (which writes
`ultimo_acceso`) waits.

Left out: expiry, the rate limit, CSRF and cookies (they only reject or only talk
to the browser); deletion of the user; BLOQUEADO is merged with INACTIVO. A session
exists for the client only after its commit, because the answer is sent then.

A request that waits is served by `Servir` when its row is free; `Abrazada` is a
circle of requests that wait for each other, which PostgreSQL breaks by rolling
one back, and `Rendirse` is that, or a request for which the bounds leave no
identifier or version (`Agotada`).

### CicloBloques and the code

The drafts of the two blocks of each reference, the process that anchors it, the
rows of programs and projects, and one browser tab at a time. An action is a
handler that committed, with the healing of the process that precedes it. A draft
keeps of its JSON only what another handler reads: the ids it names in its three
places (`curricular.programa_formacion_id`, `confirmacion.programa_id`,
`meta.programaId`), the valid preview, the state, whether data and PDF are there.
`pestana` is the copy a wizard loaded: `Autoguardar` sends it whole, however old it
is, as `use-programa-wizard.ts` and `use-proyecto-wizard.ts` do.

The functions that resolve an id read the three places in different orders, and
the model keeps each order: `ProgramaSanado` for the healing, `ProgramaDeclarado`
for the gate, `ProgramaDelCargue` for the deletion of a load, which `CargueHuerfano`
is about. `scalar_one_or_none` raises when it finds two rows: those requests
reject and have no action. Ids of deleted rows are never used again, so a program
goes NUNCA, BORRADOR, COMPLETO, ELIMINADO.

`CicloPrograma` is what a reader of the tables may rely on, per code: a program is
imported, closed, removed; under it projects are formulated, closed and removed.
`Situacion` and `Proyectados` are the refinement mapping: the state of the row with
a code, LIBRE when there is none. Everything about drafts, processes and tabs is a
stutter.

`ConfirmacionesSolapadas` takes one handler apart. `confirm_project_excel_import` reads
the draft, the program and the projects, downloads the workbook, and only then inserts
and commits; nothing it read is locked and `proyectos_formativos` has no unique key.
`LeerConfirmacion` keeps what a request has read in `lecturas`; `EscribirConfirmacion`
uses it whatever has happened since: the draft goes back as it was read, the processes
are looked for again, the foreign key refuses a program that is gone. Any other handler
may come in between, with `LecturasTrasPaso`: a deleted draft makes the UPDATE fail. The
insert and the commit are one step, because from the insert on the foreign key holds
the row of the program; a confirmation that heals its process stays one step, because
that insert makes others wait.

### CatalogoCurricular and the code

The rows of one program: `filas` holds outcomes, knowledge of both types and
criteria, told apart by `tipo`, since their services and repositories do the same
but for what the three definitions of each action say. A workbook is a record of
four sequences of well-formed rows. `Valida` is the preview, `Materializable` what
the inserts of the confirmation require, `Conservadas` the elements that survive
`_move_duplicate_conocimientos_to_pending` and its twin, `PorConciliar` the ones
that become pending elements. `Chocan` is the duplicate check of the repositories
(`lower(descripcion)` in SQL), `norma` the one of the preview (spaces collapsed as
well); the assumption relates them: what SQL takes for equal the preview does too.

The operations are grouped by router: `EditarCompetencias`, `EditarResultados`,
`EditarSaberes`, `EditarProcesos`, `EditarCriterios`, `Conciliar`.

Abstractions: codes are compared up to case; which competences belong to the
practical stage is told by `Practicas` (the code looks at the name); outcomes keep
their opaque id while their code may be edited, so that a row of the project that
names a `rap_id` finds any outcome of the competence, or none; the copy of the
catalogue in the payload of the draft and the order column are left out.

### EquiposProcesos and the code

Rows of coordinations and specialties, users with their profile and scope, teams,
memberships, processes by reference, and the team and code each program draft
names. `PuedeAcceder` is `can_access_process`; `Permitidas` is
`get_allowed_referencias`, which decides the same for lists; `Sanado` and
`Autorizados` are the process that a request creates when the reference has none;
`Asegurados` is `_ensure_process_for_team_program` with what it reuses, relinks and
deletes. `Next` is the union of `OrganizacionNext`, `UsuariosNext`, `EquiposNext`,
`ProcesosNext` and `UsoNext`, one per router. ADMIN and SUPERADMIN are one profile, since access treats them alike. The
administrators that run the handlers are outside `Usuarios`: the guards that protect
the account of the one who acts are not modelled. A team authorises one program at
most (a bound), and a program is its code, which `CicloBloques!CodigoUnico`
justifies. `EliminarCargue` lets any load of a reference go, which `CicloBloques`
models in detail.

## 3. What the runs check

All runs check deadlock too.

| Run | Instance | Distinct states | Question |
| --- | --- | --- | --- |
| `RevisionCiclo` | 1 planning, 1 RA, 2 contents, 1 observation, 1 request, 3 deliveries | 259,628 | every order of submission, review, adjustments, approval and reopening; refinement of `CicloEntrega` |
| `RevisionProyecto` | 2 plannings of different activities, 2 contents, 1 request, 2 deliveries | 333,756 | what approval locks, and what edits cost, when plannings move independently |
| `RevisionParcial` | 1 planning, 2 RAs, 2 requests, 2 deliveries | 400,392 | partial and successive reopenings |
| `SesionesConcurrentes` | 2 concurrent requests, 3 sessions, token_version up to 2 | 433,065 | every interleaving of the statements of two requests, over any history of earlier ones; every request ends |
| `CicloBloques` | 2 references, one of them with a project and a tab, 2 programs of one code, 2 projects of one key, 1 confirmation that writes late | 359,664 | loads, closings, deletions, old tabs and overlapping confirmations in every order; refinement of `CicloPrograma` |
| `CatalogoCurricular` | 2 competences, one practical, 1 outcome each, 3 texts (two differ in case, one from both in spaces), 2 rows by editing | 185,443 | imports, edits, reconciliation, locks and deletions in every order |
| `EquiposProcesos` | 2 teams, 3 users, 2 coordinations with a specialty each, 1 reference | 370,381 | who reaches a process while everything around it changes |
| `CargueHuerfano`, `RevisionAjustes`, `RevisionDescarga`, `RevisionOficial`, `RevisionAutorizados` | as small as the counterexample allows | | statements of the documentation the code does not keep |

Properties of the review cycle:

* `UnaEntregaActiva`: only the latest delivery waits for reviewers.
* `DescargaCoherente`: download flag and state APROBADO agree.
* `RevisadoIntacto`: in review, a planning differs from the reviewed workbook only
  if it was deleted or reopened by a request still open.
* `AlDiaFiel`, `EntregaFiel`: a current workbook shows the complete plannings;
  a submission delivers them and that workbook.
* `SoloSolicitudDesbloquea`, `AutorizacionVigente`: only a request unlocks, and
  what it unlocked stays so until it is closed.
* `AprobadaBloqueada`, `EdicionInvalida`: approved plannings are locked; edits
  outside a reopening cost the approval.
* `PendienteUnico`, `VersionOficialUnica`: no RA waits for two decisions or has two
  official versions.
* `ImplementaEntregas`, the refinement: numbers are given out in order, a delivery the
  reviewers have sent back or whose approval fell never returns to them, the latest
  alone is approved, and no step changes the workbook of a delivery under review or
  approved but the approval itself.

Those about locks speak of RAs that no other planning can select (`Exclusivo`,
`Aislada`): the lock columns are global to the RA, and `RevisionAutorizados` shows
what happens to `SoloSolicitudDesbloquea` without the hypothesis.

Properties of the sessions: `FamiliaUnica` (single use), `FamiliaMuerta` (a closed
family is never revived), `ReplayCierraFamilia` and `CierreCierraFamilia` (no
usable session is left in the family, not even one that the revoking statement
could not see: the new token_version stops it), `RefrescosSinEsperaCircular`
(refreshes alone never deadlock on session rows), and `PeticionTermina`: no request
waits for ever, whichever rows the others hold.

Properties of the cycle of the blocks: `CodigoUnico` (one program per code),
`ProyectoTrasPrograma` (a project lives with its program and is
closed only under a closed one), `CompletoSoloSeRetira` (no draft, import or tab
opens a closed program again) and `ImplementaCiclo`, the refinement, which says all
three per step and for every code at once. All hold of `SpecSolapado`, overlapping
confirmations included. That a program has one project of a key is not among them: two
confirmations that both read before either writes leave two. The refinement says how
far that goes: a key is as far as its most advanced project, and the others change
nothing a reader of it sees.

Properties of the catalogue: `VistaPreviaImportable` (the confirmation of an
accepted workbook meets no duplicate), `NadaSePierde` (every element of a confirmed
workbook is in the catalogue or pending), `EnlaceEnCompetencia` (links name an
existing outcome of the competence), `SinDuplicados`, `BloqueadoIntacto` (a locked
outcome keeps its text and leaves only with its competence).

Properties of teams and access: `ReferenciasVivas` (no row names a deleted one),
`EspecialidadDelEquipo` (a team and its leader have a specialty of their own
coordination), `AccesoDelEquipo` (who is not an administrator reaches a process only
as the present leader or an active member of its active team), `ListadoFiel` (lists
and pages agree).

Bounds. In the review cycle two deliveries give submission, resubmission and a
decision on an old delivery; the third lets a reopening be closed by one
submission and judged by the next. Two contents tell an edit from none. A second
planning, RA or request appears in the run whose question needs it, never all at
once, which TLC would not finish in minutes. `MaxVersion` bounds deliveries in the guard
of `Enviar`, and token_version in those of `ConfirmarReplay` and `ConfirmarCierre`;
identifiers are used once, so observations and requests are bounded by
their sets. For sessions, two requests at a time are any pair of a rotation, a
replay and a closing, after any sequence of earlier requests; three sessions are a
family rotated twice or one rotated beside another family, and token_version can lose
an increment. The theorems of section 4 cover any number of requests, so also the
circles of three or more that two requests cannot close.

In `CicloBloques` the second program is the load after a deletion, the second
reference the one that loads the same code or keeps a stale draft; `Plenas` bounds
which references get to the project or keep a tab open, and programs, projects and
drafts are symmetric otherwise. One confirmation that reads and writes apart is enough
for two projects of a key, since another may read and write at once in between. The
CONSTRAINT `Acotado` keeps a second project, and the time between the read and the write,
to behaviours with the only program there has been and without the second reference; the
theorems need no such bound. `MaxFilas` bounds the rows that editing may add in the
catalogue; the three texts give every relation that its two comparisons can have;
workbooks have up to two elements, with the same or different competences, links and
texts, a repeated `competencia_id`, and one workbook is complete, so that closing
happens. In `EquiposProcesos` `Fijas` and `Movibles` name the
rows and users that do not change and those that come and go; with one reference
`Asegurados` has nothing to clean up and no scope of a team changes to another active
specialty of its coordination: TLC does not exercise these two branches, the proofs
cover them.

Fairness. Only `SesionesAuth` states it, in `SpecJusta`: strong fairness of `Servir(i)`
for each request and weak fairness of `Rendirse(i)`. A request that has started runs
on by itself (the handler awaits nothing but the database), so it cannot stop for
ever while its next statement is possible; the row locks of PostgreSQL are queues
served in order, so a request cannot be overtaken for ever by others that take the
row again, which is why fairness is strong; and the deadlock detector ends a circle,
which is `Rendirse`. Nothing says that anybody starts a request. Under it
`PeticionTermina` holds; if the rollback of circles is dropped it fails, because a
closing and a replay do wait for each other. The other modules have no liveness to
state: their steps are decisions of people, and nothing in the code retries or
schedules one.

### Where the code and its documentation differ

1. `RevisionAjustes`: asking for adjustments frees the planning and the RA column,
   not the entries in `ra_locks`; the team finds every RA locked.
2. `RevisionDescarga`: saving a planning that was reopened with authorisation makes
   the next download attempt revoke the approval as unauthorised.
3. `RevisionOficial`: the preserved official workbook and the working one share a
   storage key, so generating during a reopening replaces it.
4. `RevisionAutorizados`: approving a request opens the RA for every planning that
   shares it.
5. `CargueHuerfano`: after a load is deleted, loaded again and deleted again, the
   second program stays, because the project draft still names the first.

Seen while modelling, with no statement to check them against: an approval covers
the plannings and workbook that exist then, not those submitted; `aprobar` works
after the configuration was cleared in the middle of a review; reporting an
adjustment on a resolved observation of an approved delivery lets `SolicitarAjustes`
revoke it; a planning that shares an RA can be saved while APPROVED after its
partner is reopened.

In the cycle and the catalogue: two confirmations of a project at once both pass the check
for one of the same code and name and both insert (`proyecto_excel.py:442`, which means to
reject the second), after which deleting the load of the project raises; a complete program that is edited until it would no
longer close stays COMPLETO (`competencias.py:274`, against RN-49); a project starts
whatever the state of its program (`proyecto_excel.py:516`, against RN-35); with a
draft in both blocks and no process the healing raises (`access_scope.py:39`); the
process that takes a project may be one of another program (`proyecto_excel.py:457`); a
second project of a program makes `eliminar_cargue` raise (`proyecto_cargue.py:315`);
documents are deleted from MinIO before a commit that may fail
(`proyecto_cargue.py:240`). Loading a PDF reopens the draft of a complete project, and an
invalid preview the one of a complete program, though not their rows.

In teams and access: the import hands a process to the team of the draft without its
scope (`programa_excel.py:604`, against BUSINESS_RULES 30.6); starting a program
deletes unlinked processes of the team with their drafts (`team_admin.py:262`), and two
authorised programs that are not loaded share one process (`team_admin.py:186`);
healing a draft whose team is inactive gives the process to the team of whoever asks
(`access_scope.py:103`); `delete_process` imports a module that does not exist and
swallows the error, so the program stays (`team_admin.py:1079`); the leader of an active
team may lose role, scope or state without the team noticing; a team may be active
under an inactive specialty after reactivations. None of these is a property here,
since nothing is promised or what is promised does not hold; `PROJECT.json` lists the
ones that matter most among the hazards.

## 4. What is proved

The theorems hold for every value of the constants under the assumptions
each module names (`ConstantesAssumption`, `SesionesAssumption`, `SemillaAssumption`,
`FilasAssumption`): constants have their types, `Nada` is no row, seeded users have
scopes that exist, what SQL takes for equal the preview does too. TLC evaluates
them in the passing runs.

* `RevisionCurricularProofs`: `TipoCorrecto`, one lemma per handler.
* `RevisionCurricularSeguridad`: `EntregaActivaUnica`, `DescargaSoloAprobada`,
  `AlDiaSiempreFiel`, `EntregaSiempreFiel`. The handlers touch deliveries in a
  few ways only; a lemma classifies the steps by their effect and each invariant
  is preserved by each effect. They are inductive with the type invariant.
  `ImplementaCicloEntrega` is the refinement of `CicloEntrega`, one lemma per effect
  (`ImplementaEnvio`, `ImplementaDecision`, `ImplementaInvalidar`). It rests on
  `IndEntregas`: `UnaEntregaActiva`, without which a submission could find an older
  delivery with the reviewers; `Numeradas`, the rows that exist are those up to
  `ultima`, so a submission takes a row nobody has; and `ObservacionDeEntrega`, since
  `reportar_ajuste` and `solicitar_ajustes` reach a delivery only through its
  observations, and would otherwise call into being one that was never made.
* `RevisionCurricularReapertura`: `AutorizacionSiempreVigente`,
  `AprobadaSiempreBloqueada`, `OficialSiempreUnica`, `PendienteSiempreUnico`. The
  first three rest on the strengthening `IndReapertura`: every request names a
  planning that exists; the RAs of a planning are those of its activity; a planning
  not yet created was never approved; the RAs of an approved planning are locked by
  their own column (`AprobadaCerrada`), which `Bloqueado` reads first, before any
  reopening mark. That clause is why `AprobadaBloqueada` alone is not inductive: it
  also holds in states where only an entry of `ra_locks` holds the lock, and there
  a mark left by an old request would open the RA. `PendienteSiempreUnico` needs
  the types only.
* `RevisionCurricularCandados`: `SoloUnaSolicitudDesbloquea`, `EdicionSiempreInvalida`,
  `RevisadoSiempreIntacto`. A lock lives in three places (the column of the RA, the
  column of the planning, the entry in `ra_locks`) and each handler writes some of
  them. `solicitar_ajustes`, which may act on an older delivery than the one in
  review, opens the first two and leaves the third. It unlocks nothing because of
  `IndCandados`: a planning never approved repeats the lock of its RAs in its entries
  (`CandadoDoble`), no mark of reopening overrules them (`MarcaConEntrada`,
  `EntradaMarcada`), and a locked planning has an entry for each RA
  (`CandadoConEntrada`). `RevisadoIntacto` becomes inductive with its reason
  (`EnRevisionCerrada`): without an open request every RA of the planning is locked,
  so no save passes its guard; it rests on `AlDiaFiel` for what a submission
  delivers and on `UnaEntregaActiva` for the approval of another delivery.
* `SesionesAuthProofs`: `SesionesBienFormadas`, `FamiliaSiempreUnica`,
  `FamiliaSigueMuerta`, `ReplaySiempreCierra`, `CierreSiempreCierra`, for any number
  of requests and sessions. `IndSesiones` adds what the locks buy: a row has one
  owner; between its lock and its commit a rotation owns its row and the row stays
  active; a replay owns what it revokes; and what makes the increment of
  token_version enough: all sessions of a family carry the version of its root,
  and a request presents a session of the version it read.
  `RefrescosNuncaEnCirculo` rests on a second invariant, `IndEsperas`, since the
  property itself is lost by a step that adds a wait to a set of requests that had
  none: a refresh holds no row while it presents its token and only the row of that
  token, already consumed, while it waits for its family (`Sostiene`); and of any
  replays that have read their family, one saw the token of none of the others
  (`ReplaysOrdenados`). The last to read is that one, because it reads active rows and
  the tokens of the others are consumed for good (`ConsumidaSigue`). The invariant
  speaks of sets of requests, so it needs no rank along the chain of rotations and no
  bound on the requests.
* `CicloBloquesProofs`: `TiposCiclo`, `UnSoloPrograma`, `ProyectoConPrograma`,
  `ProgramaCerradoQueda`, `Implementa`, and all of them again of `SpecSolapado`. The handlers do six things to the rows
  (`Efecto`: a program or a project is born, closed or gone) or nothing; one lemma
  per handler says which, and every property, the refinement included, is proved of
  the effects only. `IndCiclo` is the types with `CodigoUnico` and
  `ProyectoTrasPrograma`, which need each other: a code is free again only because
  its projects went with the program. `Imagen` says what each effect does to the
  mapped state. No effect asks that a program have no other project of the key, so a
  confirmation that writes late has the effect of one that writes at once, and the
  theorems follow for any number of them (`EfectoSolapado`, `IndSolapado`).
* `EquiposProcesosProofs`: `TiposEquipos`, `SinReferenciasMuertas`,
  `EspecialidadPropia`, `SoloSuEquipo`, `ListaComoAcceso`. `AccesoDelEquipo` is not
  inductive: it lets an unassigned process keep a leader, whom a later import that
  returns the process to a team would let in. `Bueno` adds that a process without
  team has no leader and is not assigned, and that its leader is its team's.
* `CatalogoCurricularProofs`: `TiposCatalogo`, `LaVistaPreviaBasta`, `EnlacesVivos`,
  `NuncaDuplicados`, `BloqueadoQueda`, `TodoLlega`. `IndCatalogo` adds that an outcome
  has an id and that a program that is not there owns nothing. Links and duplicates
  need each other: a competence that takes a new code meets no row with it because
  every row hangs from a competence there is. `LaVistaPreviaBasta` rests on the ids of
  a valid workbook being told apart by the codes they lead to; `TodoLlega` on the first
  row of each key being kept, by the least element of a set of positions, which
  replaces an induction.

Every invariant and every safety action property that a passing run checks is the
statement of a theorem. Only model-checked: `PeticionTermina`. Liveness is beyond these
provers, as are ENABLED, induction over data and RECURSIVE operators, which no module
needs.

## 5. Plan

Done, in this order: the review cycle and its proofs; the sessions, their proofs and
their liveness; the catalogue; the cycle of the blocks with its abstract
specification; teams and access; the proofs of the last three; the locks of the review
cycle over one step.

What would add most next: the reads and the commits of saving, submitting, approving
and reporting as separate steps, with `ra_locks` written whole, to see which properties
of the review survive; concurrent administrators, with the last active SUPERADMIN and
the change of leader against the start of a process.

### Not modelled

* The transactions of the review cycle, of teams and of the blocks: handlers are
  atomic there but for the confirmation of a project, so the races the hazards name at
  `revision_curricular_service.py:279`, `revision_curricular_service.py:1226` (a report
  against an approval, which would break `DescargaCoherente`), `user_admin.py:66` and
  `access_scope.py:31` are outside the models. So is the confirmation of two programs
  at once: a unique key on code and version refuses the second, unless the version is
  NULL, which the key does not compare.
* Individual workbooks and the per-RA didactic data inside a planning: one content
  value stands for them, and the preservation of locked fields
  (`_enforce_ra_locks_on_mutation`) is not described field by field.
* The objects of the evidences in PDF and the failures between MinIO and the commit:
  only the consolidated workbook has its object.
* The cells of the workbooks and of the generated ones: parsing and layout.
* Expiry, the rate limit, CSRF, cookies: they only reject or talk to the browser.
* Dashboards but for `eliminar_flujo`, audit, notifications, migrations, scripts and
  presentation: no state the others depend on.
