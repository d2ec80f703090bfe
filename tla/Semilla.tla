------------------------------- MODULE Semilla -------------------------------
(***************************************************************************)
(* The script that sows the simulation of Valledupar: from a scale it      *)
(* derives how many rows of each kind to write, and writes them in stages, *)
(* each with a commit of its own; at the end it validates what it wrote.   *)
(* It may die between two; the next run refuses to start over what is      *)
(* there, or deletes it first (--reset).                                   *)
(* A table is its number of rows, by class: the rows of a class differ     *)
(* only in random data.                                                    *)
(***************************************************************************)
EXTENDS Naturals, Sequences

CONSTANT Escalas     \* --scale, in thousandths

ASSUME EscalasNaturales == Escalas \subseteq Nat

VARIABLES
    ajeno,       \* the database has rows that the simulation did not create
    pasada,      \* the run: "quieta", "corre", "sin fin", "validada"
    con_ml,      \* run_ml_check: it was not started with --skip-ml-check
    errores,     \* what the validation of the run found
    talla,       \* what the run in progress, or the last one, has to write
    tablas       \* the rows of each committed stage, in order: class -> number

semillaVars == <<ajeno, pasada, con_ml, errores, talla, tablas>>

Mayor(a, b) == IF a > b THEN a ELSE b
Menos(a, b) == IF a > b THEN a - b ELSE 0
Primeras(n, total) == IF n < total THEN n ELSE total

\* Python rounds a half to the even neighbour.
Redondea(milesimas) ==
    LET q == milesimas \div 1000
        r == milesimas % 1000
    IN  IF r > 500 \/ (r = 500 /\ q % 2 = 1) THEN q + 1 ELSE q
scaled_count(base, e, minimo) == Mayor(minimo, Redondea(base * e))

EstadosBase == [completadas |-> 100, en_progreso |-> 50, asignadas |-> 35, publicadas |-> 80,
                canceladas |-> 20, ocultas |-> 5, rechazadas |-> 5, borradores |-> 5]
Suma(f) == f.completadas + f.en_progreso + f.asignadas + f.publicadas
               + f.canceladas + f.ocultas + f.rechazadas + f.borradores

\* Mutant: nothing takes up what the rounding left.
build_sizes_sin_ajuste(e) ==
    LET s == [x \in DOMAIN EstadosBase |->
                 scaled_count(EstadosBase[x], e, IF x = "completadas" THEN 2 ELSE 1)]
        total == scaled_count(300, e, 8)
    IN  [pds |-> scaled_count(150, e, 4), solicitantes |-> scaled_count(72, e, 4),
         merchants |-> scaled_count(10, e, 2), staff |-> scaled_count(8, e, 4),
         negocios |-> scaled_count(12, e, 2),
         solicitudes |-> total, valida |-> TRUE, estados |-> s,
         ofertas |-> scaled_count(720, e, 12),
         completado_pendiente |-> scaled_count(15, e, 1), pendiente |-> scaled_count(10, e, 1),
         cancelado |-> scaled_count(7, e, 1), marcado |-> scaled_count(3, e, 1),
         conversaciones |-> scaled_count(150, e, 8), disputas |-> scaled_count(15, e, 2)]

\* The published ones take up what the rounding of the others left; a scale for
\* which there would be less than none is refused.
build_sizes(e) ==
    LET s == [x \in DOMAIN EstadosBase |->
                 scaled_count(EstadosBase[x], e, IF x = "completadas" THEN 2 ELSE 1)]
        total == scaled_count(300, e, 8)
    IN  [pds |-> scaled_count(150, e, 4), solicitantes |-> scaled_count(72, e, 4),
         merchants |-> scaled_count(10, e, 2), staff |-> scaled_count(8, e, 4),
         negocios |-> scaled_count(12, e, 2),
         solicitudes |-> total, valida |-> s.publicadas + total >= Suma(s),
         estados |-> [s EXCEPT !.publicadas = Menos(@ + total, Suma(s))],
         ofertas |-> scaled_count(720, e, 12),
         completado_pendiente |-> scaled_count(15, e, 1), pendiente |-> scaled_count(10, e, 1),
         cancelado |-> scaled_count(7, e, 1), marcado |-> scaled_count(3, e, 1),
         conversaciones |-> scaled_count(150, e, 8), disputas |-> scaled_count(15, e, 2)]

InitSemilla ==
    /\ ajeno = FALSE /\ con_ml = TRUE /\ errores = {}
    /\ pasada = "quieta" /\ talla = build_sizes(1000) /\ tablas = <<>>
-----------------------------------------------------------------------------
(* What the stages write *)

Etapas == <<"usuarios", "suscripciones", "negocios", "finanzas", "solicitudes", "ofertas",
            "chambas", "maranas", "pagos", "calificaciones", "documentos", "comunicaciones">>
Filas(nombre) == tablas[CHOOSE i \in DOMAIN Etapas : Etapas[i] = nombre]

create_users(t) == [todos |-> t.pds + t.solicitantes + t.merchants + t.staff]
create_subscriptions(t) == [todas |-> t.pds + Primeras(20, t.solicitantes)]
create_businesses(t) == [todos |-> t.negocios, horarios |-> 7 * t.negocios]
create_financial_profiles(t) ==
    [billeteras |-> create_users(t).todos, principales |-> create_users(t).todos]
create_solicitudes(t) == t.estados

Canceladas(t) == Primeras(t.cancelado + t.marcado, t.estados.canceladas)
Aceptadas(t) == t.estados.completadas + t.estados.en_progreso + t.estados.asignadas + Canceladas(t)

\* A completed solicitud gets three or four offers.
Fijas(t) ==
    LET s == t.estados
    IN  2 * (s.en_progreso + s.asignadas + s.publicadas) + Canceladas(t) + s.canceladas
OfertasBase(t) == {3 * t.estados.completadas + Fijas(t) + i : i \in 0..t.estados.completadas}

\* The published and the assigned ones can be given more, until every provider has
\* made one.
PorOfertar(t) == t.estados.publicadas + t.estados.asignadas
Cupo(t) == PorOfertar(t) * Menos(t.pds, 2)
SinFin(t, base) == PorOfertar(t) > 0 /\ base < t.ofertas /\ t.ofertas - base > Cupo(t)

\* Offers are dropped, never an accepted one, or added until there are as many as
\* planned.
Total(t, base) ==
    IF base < t.ofertas /\ PorOfertar(t) = 0 THEN base ELSE Mayor(t.ofertas, Aceptadas(t))

\* The accepted offer of a solicitud gets a contract, in the estado the solicitud
\* calls for; of the assigned ones only as many as the sizes say.
Contratos(t) ==
    LET s == t.estados
        cp == Primeras(t.completado_pendiente, s.asignadas)
        canc == Primeras(t.cancelado, Canceladas(t))
    IN  [completado |-> s.completadas, en_progreso |-> s.en_progreso,
         completado_pendiente |-> cp, pendiente |-> Primeras(t.pendiente, s.asignadas - cp),
         cancelado |-> canc, marcado |-> Primeras(t.marcado, Canceladas(t) - canc)]
Suman(c) == c.completado + c.en_progreso + c.completado_pendiente + c.pendiente
                + c.cancelado + c.marcado
create_offers_and_contracts(t, base) ==
    [aceptadas |-> Aceptadas(t), otras |-> Total(t, base) - Aceptadas(t), contratos |-> Contratos(t)]

\* The contracts in progress take turns at the estados of a chamba.
create_chambas(c) ==
    LET vueltas == c.en_progreso \div 50
        resto == c.en_progreso % 50
    IN  [finalizada |-> c.completado, pendiente_validacion |-> c.completado_pendiente,
         programada |-> 15 * vueltas + Primeras(resto, 15),
         en_proceso |-> 20 * vueltas + Primeras(Menos(resto, 15), 20),
         en_ejecucion |-> 10 * vueltas + Primeras(Menos(resto, 35), 10),
         pausada |-> 5 * vueltas + Menos(resto, 45)]
SumanChambas(b) == b.finalizada + b.pendiente_validacion + b.programada
                       + b.en_proceso + b.en_ejecucion + b.pausada

\* One marana for each chamba with an adenda, ten at most.
create_maranas(b) ==
    LET con_adenda == Primeras(10, b.en_proceso + b.finalizada + b.pendiente_validacion)
    IN  [todas |-> IF con_adenda = 0 THEN Primeras(10, SumanChambas(b)) ELSE con_adenda]

create_payments(c) ==
    [completado |-> c.completado, pendiente |-> c.completado_pendiente,
     reembolsado |-> c.cancelado + c.marcado + Primeras(15, c.en_progreso),
     fallido |-> Primeras(Menos(c.en_progreso, 15), 10),
     hitos |-> 2 * Primeras(20, c.completado + c.en_progreso)]
create_ratings(c) == [todas |-> 2 * c.completado + Primeras(20, c.en_progreso)]
create_kyc(t) == [confianza |-> t.pds, insignias |-> 2 * t.pds, portafolio |-> 2 * t.pds]

\* The reports are about the first businesses there are, of the simulation or not.
create_communications(t, c) ==
    {[mensajes |-> 8 * t.conversaciones,
      disputas |-> Primeras(t.disputas, c.completado + c.en_progreso + c.cancelado),
      reportes_ajenos |-> n] : n \in IF ajeno THEN 0..3 ELSE {0}}

\* What the next stage may write.
Escribe(nombre) ==
    CASE nombre = "usuarios" -> {create_users(talla)}
      [] nombre = "suscripciones" -> {create_subscriptions(talla)}
      [] nombre = "negocios" -> {create_businesses(talla)}
      [] nombre = "finanzas" -> {create_financial_profiles(talla)}
      [] nombre = "solicitudes" -> {create_solicitudes(talla)}
      [] nombre = "ofertas" ->
            {create_offers_and_contracts(talla, b) : b \in {x \in OfertasBase(talla) : ~SinFin(talla, x)}}
      [] nombre = "chambas" -> {create_chambas(Filas("ofertas").contratos)}
      [] nombre = "maranas" -> {create_maranas(Filas("chambas"))}
      [] nombre = "pagos" -> {create_payments(Filas("ofertas").contratos)}
      [] nombre = "calificaciones" -> {create_ratings(Filas("ofertas").contratos)}
      [] nombre = "documentos" -> {create_kyc(talla)}
      [] nombre = "comunicaciones" -> create_communications(talla, Filas("ofertas").contratos)
-----------------------------------------------------------------------------
(* The dataset of the ranker *)

MinGrupos == 100

\* Offers are dropped in an order that the shuffle of the solicitudes decides: each
\* may be the only rival that an accepted one had.
PuedeDescartar(t) == Menos(4 * t.estados.completadas + Fijas(t), t.ofertas)

\* Mutant: the solicitudes whose labels are not mixed are groups too.
generate_training_data_sin_filtro(t) ==
    {Suma(t.estados) - t.estados.ocultas - t.estados.rechazadas - t.estados.borradores}

\* Groups: the solicitudes with a candidate who was chosen and one who was not.  An
\* accepted one that lost its rivals may have one in the logs of recommendations;
\* the solicitudes of other users count too, and are none or enough.
generate_training_data(t) ==
    LET propios == Menos(Aceptadas(t), PuedeDescartar(t))..Aceptadas(t)
    IN  propios \cup (IF ajeno THEN {n + MinGrupos : n \in propios} ELSE {})

\* Too few groups, none at all, or an exception.
ErroresML(t) ==
    {{"sin dataset"}} \cup
    {(IF g < MinGrupos THEN {"pocos grupos"} ELSE {}) \cup (IF g = 0 THEN {"sin mezcla"} ELSE {}) :
        g \in generate_training_data(t)}
-----------------------------------------------------------------------------
(* A run *)

\* The reset deletes, in one transaction, everything that hangs from the simulated
\* users; but not their reports on businesses of others, which name tickets that it
\* deletes: then it fails, and so does the run.
Borrable == Len(tablas) = Len(Etapas) => Filas("comunicaciones").reportes_ajenos = 0

\* Without --reset, the users of an earlier run stop this one.
Empieza(e, reset, ml) ==
    /\ pasada # "corre"
    /\ build_sizes(e).valida
    /\ tablas # <<>> => reset /\ Borrable
    /\ pasada' = "corre" /\ talla' = build_sizes(e) /\ tablas' = <<>>
    /\ con_ml' = ml /\ errores' = {}
    /\ UNCHANGED ajeno

\* A stage is one transaction.
Siembra ==
    /\ pasada = "corre" /\ Len(tablas) < Len(Etapas)
    /\ \E filas \in Escribe(Etapas[Len(tablas) + 1]) : tablas' = Append(tablas, filas)
    /\ UNCHANGED <<ajeno, pasada, con_ml, errores, talla>>

\* The loop that adds offers goes on for ever if no provider is left to add.
NoTermina ==
    /\ pasada = "corre" /\ Len(tablas) = 5
    /\ \E base \in OfertasBase(talla) : SinFin(talla, base)
    /\ pasada' = "sin fin"
    /\ UNCHANGED <<ajeno, con_ml, errores, talla, tablas>>

\* The counts of the rows against the sizes.
Esperadas ==
    /\ Filas("usuarios") = create_users(talla)
    /\ Suma(Filas("solicitudes")) = talla.solicitudes
    /\ Filas("ofertas").aceptadas + Filas("ofertas").otras = talla.ofertas
    /\ SumanChambas(Filas("chambas")) =
           talla.estados.completadas + talla.completado_pendiente + talla.estados.en_progreso

validate_and_report ==
    /\ pasada = "corre" /\ Len(tablas) = Len(Etapas)
    /\ \E ml \in IF con_ml THEN ErroresML(talla) ELSE {{}} :
            errores' = (IF Esperadas THEN {} ELSE {"conteos"}) \cup ml
    /\ pasada' = "validada"
    /\ UNCHANGED <<ajeno, con_ml, talla, tablas>>

Muere ==
    /\ pasada = "corre"
    /\ pasada' = "quieta"
    /\ UNCHANGED <<ajeno, con_ml, errores, talla, tablas>>

\* Somebody of outside the simulation opens a business, or has an offer accepted.
UsanOtros ==
    /\ ajeno' = TRUE
    /\ UNCHANGED <<pasada, con_ml, errores, talla, tablas>>

NextSemilla ==
    \/ UsanOtros \/ Siembra \/ NoTermina \/ validate_and_report \/ Muere
    \/ \E e \in Escalas, reset, ml \in BOOLEAN : Empieza(e, reset, ml)

SpecSemilla == InitSemilla /\ [][NextSemilla]_semillaVars
-----------------------------------------------------------------------------
\* For every scale, and wherever earlier runs died: from a tenth on, the loop that
\* adds offers ends; the counts that are validated are those of the sizes; the
\* dataset has groups, but the hundred that the validation asks for are certain only
\* from a scale of 0.7 on, and up to one half, light profile included, a default run
\* without the solicitudes of others never ends without errors; and every row has
\* what it stands on: a contract its accepted offer, a chamba its contract, a
\* marana its chamba, a payment its contract.
SemillaOK ==
    /\ pasada = "sin fin" => \A e \in {x \in Escalas : x >= 100} : talla # build_sizes(e)
    /\ errores \cap {"conteos", "sin mezcla"} = {}
    /\ "pocos grupos" \in errores => \A e \in {x \in Escalas : x >= 700} : talla # build_sizes(e)
    /\ pasada = "validada" /\ con_ml /\ errores = {} /\ ~ajeno =>
            \A e \in {x \in Escalas : x <= 500} : talla # build_sizes(e)
    /\ Len(tablas) >= 6 =>
        LET c == Filas("ofertas").contratos
        IN  /\ Suman(c) <= Filas("ofertas").aceptadas
            /\ Filas("ofertas").aceptadas <= Suma(Filas("solicitudes"))
            /\ Len(tablas) >= 7 =>
                SumanChambas(Filas("chambas")) + c.pendiente + c.cancelado + c.marcado = Suman(c)
            /\ Len(tablas) >= 8 => Filas("maranas").todas <= SumanChambas(Filas("chambas"))
            /\ Len(tablas) >= 9 =>
                LET p == Filas("pagos")
                IN  p.completado + p.pendiente + p.reembolsado + p.fallido <= Suman(c)
=============================================================================
