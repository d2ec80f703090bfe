# ChambeApp backend: a TLA+ model

ChambeApp is a marketplace of informal work. A *solicitante* publishes a
request (solicitud), providers (*PDS*) make offers on it, an accepted offer
becomes a contract, the signed contract gets an execution record (chamba) with
its milestones, and the confirmed contract is settled in the provider's wallet.
Parts of a chamba can be passed on to other providers (adendas and marañas).
Around that stand payments through a gateway, accounts and their codes, identity
documents, businesses, messages, recommendations and a periodic worker. The
server is a Flask application over PostgreSQL; with few exceptions a handler is
one database transaction.

This directory models those parts, checks them with TLC on small instances and
proves the main properties with TLAPS for every instance. Names follow the
source (Spanish); comments are in English.

## 1. Inventory

| component | state | operations | modelled in |
|---|---|---|---|
| Solicitudes and ofertas | `Solicitud`, `Oferta` rows | publish, owner's and moderators' estado, offer (monthly plan limit), counter-offer, both acceptances, reject | `Contratacion` |
| Contratos | `Contract` row | create directly, aceptar (sign), completar, confirmar (and settle), cancelar, cancel/flag by administrators, complete/cancel by the superadmin | `Contratacion`, `CicloContrato` |
| Billetera, monedas, modalidades | `Wallet`, `Transaction`, `Coin`, `Modalidad` | deposit, withdraw, commission, credit, coins bought/earned/spent/expired, modality of a solicitud | `Billetera`, `Monedas`, `Contratacion`, `Tarifas` |
| Chamba | `Chamba` row | state machine (hitos 2 to 6), pause and resume, evidences, inspection, payment check-in, rating | `Chamba`, `HitosChamba` |
| Marañas and adendas | `Chamba.adendas` (JSON list), `Marana`, `MaranaOferta` | add, edit, delete, launch an adenda; postulate, negotiate, deliver, cancel, pay | `Maranas`, `Rebusque` |
| Hitos de pago | `Milestone` | create, approve, reject, automatic approval after 48 h (Celery) | `Hitos` |
| Pagos con pasarela, certificado | `Payment` | create, charge, confirm, refund, retry; certificate of income by months | `Pagos`, `Certificado` |
| Disputas y tickets | `Dispute`, `Ticket` | open, resolve; attend, close, reopen | `Pagos`, `Soporte` |
| Configuración y auditoría | settings, flags, terms, `AuditLog` | change a setting, publish terms, review an identity, each with its entry | `Soporte` |
| Sesiones y cuentas | `User`, codes, challenges and links in memory | login, 2FA, codes with attempts, reset, roles, suspension, revocation by role_version | `Codigos`, `Acceso` |
| KYC | documents, `verificado` | upload, review, recompute | `Verificacion` |
| Cascada y recomendación | `Cascade`, `RecommendationLog`, groups of the A/B test | phases and their worker, who ranks, the list, the log | partly: `Cascada`, `Recomendacion` |
| Suscripciones | `Subscription`, plan of a user | subscribe, change, cancel | `Suscripciones` |
| Métodos de pago | `MetodoPago`, methods of a merchant | link, mark as principal, delete with successor | `MetodosPago` |
| Anuncios | `Anuncio`, `Postulacion` | publish, close, reopen, apply, answer | `Anuncios` |
| Calificaciones, insignias, confianza | ratings, averages, badges, `TrustScore` | rate, recompute, award, score with a memoized answer | `Perfil`, `Negocios` |
| Habilidades y negocios | levels, endorsements, `Negocio` with hours, gallery, ratings, reports | quiz, certificate, endorse; create, hours, rate, report | partly: `Habilidades`, `Negocios` |
| Regiones y onboarding | region of a user, steps of the guide | edit zone, publish, assign, reindex; complete a step | `Regiones`, `Perfil` |
| Notificaciones y chat | conversations, messages, notices | send, read, notify | partly: `Mensajeria` |
| Rate limit | windows in memory | try, restart | `RateLimit` |
| Portafolio y almacenamiento | items, photo, object store | upload, delete | `Archivos` |
| Simulación de datos | everything a run of the script sows | stages with commits, reset, death | partly: `Semilla` |
| Textos legales, precios, exportes, proveedores, preferencias | rows nothing decides on | read, format | not modelled, see section 9 |

How they interact. There are no messages between components: handlers share
rows. The contract reads the *price* from the solicitud and the *modality* from
a row created lazily by its first reader; the signature of the contract writes
the estado of the solicitud and inserts the chamba; the settlement writes the
wallet and the coins inside the transaction that confirms the contract, under
an `except Exception: pass`. The chamba never reads its contract's estado. A
maraña points into the list of adendas of its chamba by position. Acceptance of
a login spends a code of `Codigos`. Notifications and socket events are outputs
that nothing decides on.

What is hard. Concurrency: gunicorn with one eventlet worker (every database
call is a switch point), threads in development, two Celery processes that
acknowledge early, PostgreSQL at READ COMMITTED, no row lock asked for and no
version column; a handler decides on the rows it loaded, its flush takes the
locks of the rows it writes until the commit, and an UPDATE carries only the
columns whose value changed. What is outside the transaction: the gateway, the
object store, the SMS, the queue of Celery, codes and windows in the memory of
the process. Protocols: three kinds of users move the same rows with guards that
look at some estados and not at others. Money: comparisons in Python, no CHECK
in the tables. Swallowed exceptions. The hazards, each at its line, are in
`PROJECT.json`.

## 2. Plan

Done: the core (`Contratacion`, `CicloContrato`, `Chamba`, `HitosChamba`,
`Billetera`), then marañas (`Maranas`, `Rebusque`), then what moves money outside
the wallet (`Cobros` with its modules) and what surrounds the work (`Plataforma`
with its modules). Every safety property that a run checks is proved for all
values of the constants (section 7); liveness is model-checked.

Left:

1. an abstract life of a payment and its charges, which `Pagos` implements until
   a request commits on a payment that had changed, as `Maranas` implements
   `Rebusque`;
2. the composition of `Contratacion` with `Chamba`, should a guard of a chamba
   begin to read its contract (today none does, so nothing that holds of the
   pair is more than what holds of each).

## 3. Modules

| module | what it is |
|---|---|
| `Tarifas` | commission, coins and modality shared by the modules that move money |
| `Contratacion` | rows, handlers and properties of negotiation, contracts, settlement; its refinement mapping and inductive invariant |
| `CicloContrato` | abstract: the phases of a contract and whether it was paid |
| `Chamba` | one execution record and the requests that race on it |
| `HitosChamba` | abstract: milestones reached one at a time, each after those it requires |
| `Billetera` | the wallet of one provider, the contracts settled in it, the requests that race on them |
| `Maranas` | the adendas of one chamba, the marañas launched from them, the offers on these, two requests in flight |
| `Rebusque` | abstract: the life of a maraña and the confirmations of its payment |
| `Servidor` | what every handler of the following modules shares: load, remember, commit, fall behind, die |
| `Pagos`, `Hitos`, `Monedas`, `Suscripciones`, `MetodosPago`, `Certificado` | one area each of what moves money outside the wallet |
| `Cobros` | those areas on one server, with the fairness of the periodic task |
| `Codigos`, `Acceso`, `Verificacion`, `Soporte` | accounts, identity, the desk of the staff |
| `Negocios`, `Anuncios`, `Habilidades`, `Perfil` | what users show of themselves |
| `Mensajeria`, `Cascada`, `Recomendacion`, `RateLimit` | what reaches them, and in which order |
| `Archivos`, `Regiones`, `Semilla` | object store, regions, the script of the simulation |
| `Plataforma` | those areas on one server |
| `MCContratacion`, `MCChamba`, `MCBilletera`, `MCMaranas`, `MCCobros`, `MCPlataforma` | small instances |
| `ContratacionProofs`, `ChambaProofs`, `BilleteraProofs`, `MaranasProofs`, `CobrosProofs` | theorems about the module they are named for |
| `VitrinaProofs` | inductive invariants of businesses, advertisements, skills, profiles, trust, hours and regions |
| `PlataformaProofs` | the ones of the other areas of `Plataforma`, and the theorems about all of them |
| `Lemas` | what the steps of `Servidor` do to requests, and sums over finite sets |

Operators whose comment starts with "Mutant" are variants of the definition that
follows them, with a plausible bug; they are not part of any specification. They
show that each property can fail.

## 4. Correspondence with the code

`Contratacion`: one action per handler (and per `accion` of a handler with
several). A row that does not exist yet has estado `inexistente`. Guards are the
handler's aborts, in particular what it does *not* look at: `Ofertar` ignores
the estado of the solicitud, both acceptances ignore the estado of the offer,
`CrearChamba` ignores the contract, moderation and overrides ignore the current
estado. `Formalizar` is the common part of both acceptances with the coins of
modality B, whose `ValueError` aborts. `ConfirmarContrato` is the settlement:
`PagoProcede` says when none of its calls raises; when one does, the contract is
confirmed and nothing else changes except the modality row created by
`get_modalidad`. `CambiaMes` is the calendar. `trato` is a history variable:
the price and the party of the acceptance that made each contract.

Data abstracted: texts, dates and schedules of an offer; ids; the notification
and recommendation rows; the reason of a cancellation (its absence is one more
abort). `int(monto * 0.12)` is exact integer arithmetic in the model; the code's
float product can be one peso lower.

`Chamba`: a request is `Leer` (the handler's `get_or_404`) followed by one of the
second halves, or by `Responder` when it aborts or only reads. Guards read the
columns as loaded (`peticion[h].foto`); assignments go to the committed row, and
a column whose new value equals the loaded one stays out of the UPDATE
(`SiCambia`). Dates are set or not; evidences are some or none. `obsoleta` is a
history variable: some commit hit a row that had changed since its load.

`Billetera`: a request is one transaction at READ COMMITTED. `Consultar`,
`Depositar`, `Retirar` and `CambiarEstado` are its arrival, its first load and
the aborts; then it goes through the `fase`s of its record: the contract is
flushed and locked (`TomaContrato`, at the query of `get_modalidad`), only then
the wallet is loaded (`LeeBilletera`), inserted (`CreaBilletera`, or
`LlaveDuplicada` when the UNIQUE `user_id` is taken by then) or updated
(`MueveBilletera`), and a commit action makes its writes visible and frees its
locks. So of two confirmations of one contract the second waits, reads the
wallet the first one left, and pays again: no update is lost, the contract is
paid twice. The values written are absolute, computed from the loaded row, and
only the columns the operation touches are written. `Procede` is the settlement
that raises nothing; otherwise `CommitSinPago`. `libro` stands for the
`transactions` table by its count, its sum and the sum withdrawn. `pagos` and
`obsoleta` are history. The modality rows are taken to exist (`Modo`), and the
badges a deposit or a confirmation awards, which nobody decides on here, are
left out, as are administrators (they are in `Contratacion`).

`Maranas`: `peticion[h]` holds what a request computed from its load: the list of
adendas it will write whole, the offers it will reject, whether its check-in
closes the payment. Amounts and texts are left out. The two queries of
`responder` are one step. A provider may accept a counter-offer on its own offer
that is pending or rejected, and a counter-offer on a rejected offer can give a
provider two active ones: the guards look at the maraña, not at the offer.
`origen` is history: which adenda an element of the list is, whatever its
position; `adenda_idx` of the maraña is the position at the launch and is not
corrected by a deletion.

`Servidor` is the same split for everything that follows, stated once. `Llega`
is the load with its aborts, `Termina` the commit, `Sigue` a commit after which
the request goes on in a new transaction, `Avanza` more loads in the same one,
`Falla` a rollback, `SePierden` the death of the process. A commit names the
rows it writes, and requests that had loaded one of them become `vieja`;
`obsoleta` says that such a request committed.

- `Pagos`: the gateway is asked between load and commit, so `cobros` (what it
  accepted) and `pago` (what was written) are separate, and `CaidaPagos` loses
  what lies between. A retry that is rejected only writes the error and leaves the estado.
  A payment that was never charged can be refunded, and a contract can be
  completed with an open dispute: no guard forbids either.
- `Hitos`: `tarea` is the transaction of a Celery worker; `Vence` is the clock;
  the query of the task and its commit are two steps, and it may die between.
- `Monedas`, `Suscripciones`: coins row by row, oldest first; the expiry task
  flushes and never commits, so it changes nothing. A subscription of a user
  who had one fails on its UNIQUE column.
- `MetodosPago`: a deletion is two transactions; an UPDATE of a row that is gone
  aborts, a DELETE of one only warns. A method deleted by a merchant keeps its
  principal flag.
- `Certificado`: a month is a pair; the window is the code's arithmetic on it.
- `Codigos`: codes, challenges and links in dictionaries of the process, which a
  restart forgets; a link is validated, its work is committed, and only then it
  is marked as used. `Acceso`: `role_version` is read, incremented and written back; a
  token carries the one it was made with.
- `Verificacion`: `verificado` is recomputed from the documents a review finds;
  an upload does not recompute it. The rol of the user is constant here.
- `Soporte`: a ticket, a setting, the terms and an identity, each with the log
  entry of its handler. In the panel the reviewer is the slot of its request.
- `Negocios`, `Perfil`: averages are recomputed from the ratings a request sees;
  the average is exact in 60ths in `Perfil`, in hundredths in `Negocios`. An
  administrator who deletes a rating recomputes nothing.
- `Negocios`, the directory: slugs with their suffix in seconds, hours in quarters
  of an hour; hours that end before they start never show as open, as in the code.
- `Cascada`: the next phase is queued before the commit, tasks run by a worker
  that may die, and the countdown of a phase is taken to be longer than the task
  that sets it. `start_cascade` and the trust service have no caller but tests.
- `Recomendacion`: the groups of the A/B test are one JSON value
  written whole; a learnt model may give any scores, ties come in any order,
  errors of the model fall back to the heuristic ranking.
- `Archivos`: keys of the object store, which is written before the commit and
  emptied before the row is deleted. The trust score of `Perfil` is in
  ten-thousandths, its answer memoized for an hour. `Regiones`: one user (rows of users are
  independent; only the reindexing loads all), the catalogue and what a text
  names as constants. The place of a solicitud overrides the zone until a
  reindexing turns it back.
- `Perfil`: a step is `max` of the loaded one and the one that is sent, so it may go
  beyond 999, which the end of the setup then writes over. `RateLimit`: the list
  of attempts is the set of the positions, in the history of the attempts let
  through, that it still holds; two attempts of one instant stay two.
- `Semilla`: rows by class, as counts; the shuffles are abstracted; rounding is
  the exact half-to-even of the decimal value. Each stage ends with its commit
  and the process may be killed between two. `validate_and_report` compares the
  counts and, unless the run was started with `--skip-ml-check` (`con_ml`), asks
  the dataset of the ranker for a hundred groups; `errores` is what it found. A
  group is a solicitud with a candidate chosen and one not: at most the accepted
  offers, and fewer when the offers that are dropped were the only rivals of
  some (`PuedeDescartar`). Data of others (`ajeno`) may add groups; building the
  dataset may also raise.
- Lists (`badges`, the log of a cascade) that are appended in place and therefore
  not written by SQLAlchemy are modelled as not written.

## 5. Runs

| run | question | bounds | states |
|---|---|---|---|
| `negociacion` | does an acceptance close the negotiation, with a contract, within the coins and under one modality? | 1 solicitud, 2 providers (one limited to 1 offer a month), 2 offers, 2 contracts, one price, 50 coins each | 676 731 |
| `contratos` | do signature, confirmation, cancellation, moderation and override keep stamps, money and life cycle? | 2 direct contracts on 1 solicitud, prices below/above each other, wallets absent or with 6 | 95 656 |
| `ejecucion` | what survives of the milestones when two requests race? | 2 request slots, 2 positions, 2 amounts | 256 965 |
| `saldos` | what survives of balance, Transactions and single payment when requests race on the wallet, and does every request end? | 2 request slots, 2 contracts (one with commission), wallet missing or with 0 or 10, deposits and withdrawals of 10, no arrival after 3 Transactions | 179 967 |
| `rebusques` | what survives of adendas and marañas when requests race, and do they live as promised while none does? | 2 slots, 2 providers, 2 adendas ever made, 3 rows of each table | 3 832 134 |
| `cobros` | what survives of payments, milestones, coins, methods and certificate under races, gateway, clock, worker and death? is every milestone decided? | 2 slots, 3 charges, 2 disputes, 3 milestones, 4 coins, 3 methods, 20 months | 607 196 |
| `plataforma` | the same for accounts, identity, desk, businesses, messages, cascade, ranking, files, trust, regions and the simulation | 2 slots, 2 or 3 rows of each table, 2 users, 3 phases, one death of a worker, clock up to two windows, 47 scales | about 1.30 million |
| `precio` | is a contract paid what was agreed? (no) | 1 offer, 2 contracts | violation |
| `contraoferta` | does a provider only accept counter-offers? (no) | 1 offer | violation |
| `pago_avisado` | is a confirmed contract paid? (no) | 1 contract | violation |
| `comision_doble` | is the commission 12%? (no) | 1 contract | violation |
| `pago_cruzado` | do two check-ins confirm the payment? (not when they race) | 2 slots | violation |

Amounts of the first four runs are scaled by 1000 (minimum budget and commission
threshold are 50, as constants). With one solicitud every pair of offers and
contracts competes for the same price and modality; a second solicitud adds no
guard that reads two of them. Two contracts are enough for one settlement to use
money of the other and for the accounting of `MovimientosRegistrados`. A balance
of 6 covers the commission of a price of 50 and not that of 60. `negociacion`
leaves the actions of a signed contract to `contratos`, whose solicitud takes no
offers. Two slots show every race of one load with one commit; the proofs cover
more. Three Transactions are enough for a payment made twice, and for a
withdrawal of money that a racing withdrawal took already. Two adendas are
enough for positions to shift, three marañas for one adenda launched twice
beside another. Three charges let a payment fail, be retried by two requests and
be confirmed; three milestones let two racing creations overlap.

The areas of `Cobros` and of `Plataforma` share no row, so a behaviour moves one
of them only; the states of the areas add up instead of multiplying (for example
accounts 284 870, identity 183 894, codes 143 179, regions 115 328,
advertisements 101 607, profiles 82 504, the limit 589). The scales of `Semilla`
are every second hundredth of the documented range 0.10 to 1.00, and 0.025, a
scale at which the script does not end.

`CHECK_DEADLOCK FALSE`: with finitely many identifiers all used, the models stop
where the real system takes a new id, or at a bound of the history. Requests
that wait for each other are excluded in `saldos` by `TodaPeticionResponde`; in
the other models no request ever waits.

Symmetry: slots (and the two providers of `rebusques`) are interchangeable in
`rebusques` and `plataforma`, which check no liveness. `cobros` checks liveness
and uses none.

Fairness. In `Billetera` `SF_vars(Avanza(h))` for every slot: the rest of a
handler is straight-line code that ends by itself, and PostgreSQL queues the
waiters of a row lock, so one that can go on again and again does. In `Cobros`
(`Equidad`): the clock runs (`WF` of `Vence(i)`), the beat starts the task every
30 minutes whatever became of the last run (`WF` of `TareaLee`), and a worker
that starts it again and again finishes some day (`SF` of `TareaCommit`, since
deaths disable it again and again). Arrivals are not fair: nobody has to send a
request.

## 6. What the properties say

- `AceptadaConContrato`, `CierreExcluyente`, `ModalidadFija`: the negotiation.
- `FirmaEnOrden`, `NoResucita`, `CicloCumplido`: the life of a contract under
  its parties, the administrators and the superadmin.
- `PagoUnico`, `SinSobregiro`, `MovimientosRegistrados`: the money.
  `PagoUnico` and `SinSobregiro` are statements about handlers that run one after
  another, as `Contratacion` models them.
- `HitosEnOrden`, `EstadoConHitos`, `FotosFieles`, `HitosCumplidos`: the
  execution record tells the truth whatever races.
- `PausaEnSerie`, `CongeladaEnSerie`: what only holds while no request commits
  on a row that changed since it loaded it. With races a late pause does reopen
  a finished chamba.
- `SaldoNoNegativo`, `SaldoConAsiento`: what no race breaks in the wallet. It
  never goes below zero, and its creation never undoes a deposit.
- `CuadraEnSerie`, `PagoUnicoEnSerie`: what only holds while no commit writes a
  row that changed since its load. With races updates are lost, and two
  confirmations, or a confirmation and a late `completar`, pay a contract twice.
- `TodaPeticionResponde`: contract and wallet are locked in one order and freed
  by every outcome, the failed creation of the wallet included.
- `ListaVeraz`, `PagadaConEntrega`: what no race breaks of adendas and marañas.
  `DerivadaUnaVezEnSerie`, `UnaAceptadaEnSerie` and the refinement of `Rebusque`
  hold until a request commits on rows that had changed: with races a maraña is
  left without its adenda, or with two accepted offers.
- `CobrosOK`: types, and what survives every race (a completed payment was
  charged, an approved milestone has its date, no coin is lost).
  `CobroUnicoEnSerie`: the accepted charges are the one the payment refers to and
  those on their way or lost; with races, or after a death and a retry, a
  contract is charged twice. `UnicosEnSerie`, `SumasCuadran`: one open dispute,
  one principal method, numbers of milestones; coins and certificate agree with
  their history.
- `DecisionFirmeEnSerie`, `HitoResuelto`: a decision is final until somebody
  commits on an old load (the task then approves what was rejected), and a
  milestone nobody decides on is approved in the end although workers die.
- `PlataformaOK`: what survives in every area (codes of one use, order of the
  phases, read marks, the limit per window, the coherence of what the simulation
  sows and what its validation says of it: no count is wrong, the dataset of the
  ranker has groups, a hundred from a scale of 0.7 on and never, without data of
  others, up to one half). `TokenVigenteEnSerie`: no token made before a change of rights
  is taken for current. `DerivadosEnSerie`: what is computed from other rows
  agrees with them. `UnaVezEnSerie`: what happens once at most.
  `ProgresoNoBaja`: the progress of a skill does not go down.

The suffix `EnSerie` marks what holds as long as no request commits on rows that
had changed since its load. It is the statement a team would use to decide where
a row lock or a version column is worth its price: the run shows that nothing
else breaks the property.

## 7. Proofs

`ContratacionProofs`. `FirmaEnOrden` and `PagoUnico` are not inductive: a
completed contract could lack its signature, an unconfirmed one its payment.
`IInv` adds that rows that do not exist are blank, that references point at rows
(`Referencias`) and that the estado implies its stamps (`SellosDelEstado`): an
active contract was not confirmed, hence not paid. Each handler gets a lemma
about the one contract it moves; the commission bounds (`0 <= Comision <= monto`
for a monto above zero) carry `SinSobregiro`. From `IInv` follow `SellosEnOrden`,
`UnSoloPago`, `NuncaSobregira`, the action property `NuncaResucita` and the
refinement `Implementa`. `Respaldada` (`AceptadaConContrato`) rests on two facts:
the step that accepts an offer inserts its contract (`OfertaAceptada`), and no
step takes a contract's party or solicitud away (`ContratoPermanece`). `Excluye`
looks at the accepting steps only; `Registrados` at the only one that moves a
balance (`SaldoPaso`). `FijaModalidad` needs that the solicitud of an offer
exists (`Vivas`): otherwise publishing it could reset a modality already chosen.

`ChambaProofs`. `HitosEnOrden` is not inductive because a commit relies on what
its request loaded earlier: `FotosFieles` says that what was loaded of the
milestones is still true, which holds because no commit undoes one. `EscribeInv`
reduces each handler to the row it writes; `Cumple` is the refinement of
`HitosChamba` for any number of racing requests. `PausaRecordada` and
`Congelada` add that a request that is not behind has loaded the row as it is, so
that a commit that leaves `obsoleta` false decided on the committed row.

`BilleteraProofs`. `SaldoNoNegativo` is not inductive: a commit writes what its
request computed from an older balance. `IInv` adds what each request knows
(`PeticionCoherente`: the loaded balance was never negative and suffices for the
amount) and what it holds (`Bloqueos`: the locks, and that a wallet it inserted is
missing for the others). `Ajenas` shows that a step of one request leaves what
the others know and hold; `TerminaInv` reduces each commit to the rows it
writes; `AbonaCuadra` and `EscribeEstadoUnico` treat wallet and contract apart.
`ComisionCabe`: twice the commission fits in the price, for every threshold.

`MaranasProofs`. The invariant has two layers. `Firme` is inductive by itself and
holds whatever races: what a request on its way will write is truthful and is
about rows that exist (`Coherente`), which survives because rows are only added
and facts such as the delivery are never taken back. On top of it
`EnSerie` says what a request knows while it is not behind (`AlDia`): `Crecen` and
`SoloCambia` show that a commit either leaves that, or makes the request old.
The refinement of `Rebusque` (`SpecCicloCumplido`) is proved from `Simula`, one case
per commit, with one step to `incierto` when a late commit happens.

`Lemas`. Requests are treated once, for any set of requests (`AlLlegar`,
`AlTerminar`, `AlEscribir`, `AlFallar`, `AlPerderse` over `SigueIgual`): a step of
another request leaves what a request remembers, and makes it old if it had
loaded a written row. Sums over a finite set (`SumFunctionOnSet`, a fold) need
induction over data, whose theorems take an operator as a parameter and cannot
be cited; `Lemas` argues by the least counterexample instead: `ElMenor` and
`Minimo` pick a smallest set or number of which a formula fails (`WFMin` speaks of
sets, so it can be cited), and the step from the set without one element refutes
it. `SumaQuita`, `SumaNat` and the others follow.

`CobrosProofs`. Each area has an invariant of its own, since only the area that
moves changes its rows (`DondeSeMueve`, `DondeSeDecide` and so on). Payments:
every accepted charge belongs to one request (`CobroPropio`), a pending or failed
payment refers to none, and a request that is not behind knows the estado it
loaded; from these `PasoCargo` shows that the charge that is written was the only
one not on its way. `DecisionFirme`: a request or a run of the task that is not
behind decides on pending milestones only, and milestones are created only on
an empty list. `Unicos`: what a deletion of a method leaves behind between its
two transactions is one principal too few, which its second one mends when it is
not behind; linking and marking unset the others in the commit that sets one.
`Cuadran`: a use takes whole rows of coins and leaves the rest of one, so that
the sum falls by what was asked; the window of the certificate is contiguous
months by the arithmetic of the code, so the sums of the months are the sum of
the window.

`VitrinaProofs` and `PlataformaProofs`. For each area `IInv...` is its type
invariant, its properties, and a predicate `SabeDe...` of every request: what it
remembers has its type whatever races, and, while it is not behind, is what the
committed rows say (the average a rating will write is that of the ratings with
its own; the document a review decides on is still the one it loaded). One lemma
per action shows that it survives; `...Quieta` that a stutter keeps it;
`...AlInicio` that it holds at the beginning. `Plataforma` puts them together:
`SoloSuArea` says that only the area that moves changes its rows, so
`IInv` is, for each area, its invariant if it moves and its initial state if it
does not. Some areas need more than their properties. Codes: a stored
code was not accepted yet, counts its comparisons and is in one store only
(`CodigosFirmes`, for `CodigoDeUnUso`). Cascade: which tasks are queued, running or lost, so that of
one phase there is one (`FaseUnaVezSinCaidas`). Rate limit: the list holds every
recent attempt, so the number let through in a window is at most the length of
the list when the last of them came. Files: until a process dies, a file whose
name nobody else used is stored while its row is there and not being deleted, or
while its row is on its way (`Coherentes`). Regions: `match_region` picks the
least region that a text names. Simulation: `build_sizes` rounds each count on
its own; `RedondeaCerca` bounds each within half a unit, and the rest is linear
arithmetic over the twenty counts: what the published solicitudes take up
(`TodaTalla`), that accepted offers fit among the offers, that the contracts in
progress are shared out without remainder (`ChambasCuadran`), and that from a
scale of a tenth on the loop that adds offers ends (`LaSiembraTermina`, which the
run checks on 47 scales and the theorem states for all). `GruposDeLaTalla` bounds
the groups of the dataset: all the offers that are dropped can be rivals, so the
accepted ones that keep a rival are at least one, and a hundred from 0.7 on; up
to 0.5 there are not a hundred accepted ones. Between the two the dataset may
have them or not.

Assumptions are the named `ASSUME`s of the modules, all evaluated by the runs:
identifiers, rows and requests are not NULL; amounts, scales, steps, quarters of
an hour and ids of regions are integers of the range their column or schema has;
limits, bounds and initial balances are natural numbers; ratings and authors are
finite sets; ratings are 1 to 5; a conversation has two participants; the gateway
answers yes or no. Nothing else is assumed; in particular the number of slots,
users and rows is arbitrary.

Only model-checked: the liveness properties `TodaPeticionResponde` and
`HitoResuelto` (temporal reasoning with fairness and `ENABLED` is out of the
prover's reach), and the five violations, which are counterexamples.

## 8. Disagreements met

Shown by a run: the five violations above (`PROJECT.json`, findings).
Seen in the code while modelling, without a run of their own. Paths are under
`src/app/` unless they start with `src/`.

Negotiation, contracts, chambas, marañas:

- Rejected offers can be accepted again (`controllers/ofertas.py:309` closes
  them, nothing keeps them closed).
- `POST /chambas/` says "a partir de un contrato firmado"
  (`controllers/chambas.py:138`) and does not look at the contract.
- "No se puede cancelar un contrato ya finalizado" (`controllers/contracts.py:261`),
  but a completed contract flagged by an administrator can be cancelled.
- Direct contracts of modality B never cost coins.
- Resuming "vuelve al estado previo" (`controllers/chambas.py:196`) accepts either
  working estado.
- The formalisation notice is sent after every PATCH (`controllers/contracts.py:286`),
  the cancellation included; `controllers/notifications.py:38` says "RF-10: al
  completarse el contrato".
- `Marana.adenda_idx` goes stale when an earlier adenda is deleted
  (`models/marana.py:46`).

Money:

- A second subscription always fails: `models/subscription.py:24` is UNIQUE, while
  `controllers/subscriptions.py:119` cancels "cualquier suscripción activa previa" and
  inserts another.
- The total of the certificate (`controllers/payments.py:252`) counts all
  payments; the docstring (`:234`) says "ultimos 12 meses".
- Linking a first bank account leaves the wallet principal too
  (`controllers/payment_methods.py:122`: "el resto deja de serlo").

Accounts, identity, people:

- The quiz passes at 80 % (`controllers/habilidades.py:44`); `:11`, `:173` and
  `models/habilidad.py:5` say 70 %. Certificates are never verified, so levels 4
  and 5 are out of reach.
- `award_badge` (`services/badges.py:24`) and `log_phase` (`models/cascade.py:110`)
  append in place to a JSON column, which SQLAlchemy does not see.
- `check_kyc_sla` (`tasks.py:105`) imports a class that does not exist.
- A new upload leaves `verificado` true.
- Items of a portfolio are never approved (no caller), so the public one is
  empty; the stored key (`controllers/portfolio.py:83`) is not the one of the file, so
  a deletion leaves the file.
- The trust score counts referrals as zero and no approved items: it stays at
  0.70 at most, and its highest level is out of reach. A row just created is
  answered as zero for an hour.
- Businesses are created `borrador` and no handler activates them; images have
  no limit where a comment says "Máximo 20 imágenes por negocio".
- Several notifications are added after the commit and never committed
  (`controllers/anuncios.py:191`, `controllers/maranas.py:136`).
- The connect and join handlers of the chat are overridden
  (`__init__.py:121`).
- `HybridRecommender.rank_services_for_provider` names an undefined class
  (`ai/recommender.py:226`).
- Keys of `por_categoria` are compared without normalizing accents; reading the
  preferences flushes a default row without a commit.

Simulation (`src/seed_simulacion_valledupar.py`; "consistentes entre si", lines 3-5):

- Assigned and paid marañas have no accepted offer (1709-1724); some assigned
  solicitudes have an accepted offer and no contract (1456-1470); balances are
  not the sum of their transactions (1165-1167).
- `--reset` fails when a report names a business that was not simulated
  (2358-2372; `:662` "Use --reset para reemplazarlos.").
- It sows `ml_ranking_activo` (674); the code reads `ml_ranking_enabled`.
- The help offers the scales 0.1 to 1.0 and the light profile of 0.25
  (2652-2653), but the validation asks for a hundred groups at each (2504): up to
  one half a default run on a fresh database always ends with errors; the hundred
  are certain from 0.7 on. `SemillaOK` states both.
- At scale 0.025, outside the documented range, the loop at 1393 never ends.

## 9. Not modelled

- Training of the ranker, the bandit and the values of features (floating point
  over learnt weights); the list of solicitudes ranked for a provider; errors of
  the feature extraction outside its `try`.
- Legal texts, prices, exports, the public list of providers, preferences and
  switches: they read and format, or write a row nothing decides on.
- Map, search, statistics and the plain edition of a business; socket rooms and
  events; rendering of notifications: no later step depends on them.
- The other two seeds (`src/seed.py`, `src/seed_solicitudes_valledupar.py`) insert
  fixed rows once.
- Promotional coins: nothing grants them (`dar_monedas_promocionales` has no
  caller), so their expiry is not reached.
- Two hazards have no property, each with its note in `PROJECT.json`: the monthly
  count of offers at `controllers/ofertas.py:77`, and the chamba that does not
  look at its contract (`controllers/chambas.py:182`).
