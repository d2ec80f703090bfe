------------------------------- MODULE Maranas -------------------------------
(***************************************************************************)
(* The adendas of one chamba, the maranas its solicitante launches from    *)
(* them, and the negotiation, delivery and payment of each marana, under   *)
(* racing requests.                                                        *)
(*                                                                         *)
(* A request is two steps: it arrives, loads its rows and passes its       *)
(* guards; later it commits what it computed from them.  The adendas are a *)
(* JSON column that is read and written whole.  An acceptance has a step   *)
(* in between: the query of the other offers flushes its own, whose row    *)
(* stays locked until the commit.                                          *)
(***************************************************************************)
EXTENDS Naturals, Sequences

CONSTANTS
    Solicitante,   \* of the chamba and of its maranas
    Pds,           \* providers that may postulate, the one of the chamba too
    Hilos,         \* request slots of the server
    MaxAdendas,    \* bound: adendas ever proposed
    MaxFilas,      \* bound: maranas and offers together
    Nada           \* NULL

ASSUME SolicitanteNoPostula == Solicitante \notin Pds
ASSUME NadaNoEsUsuario == Nada \notin Pds \cup {Solicitante}
ASSUME NadaNoEsNumero == Nada \notin Nat
ASSUME CotaNat == MaxFilas \in Nat

EstadoMarana == {"publicado", "asignado", "completado", "pagado", "cancelado"}
EstadoMaranaOferta == {"pendiente", "aceptada", "rechazada", "contraoferta"}
Activas == {"pendiente", "contraoferta"}

\* An adenda: which one it is (its fecha) and the marana it was derived to.
Adenda == [origen: Nat, marana: Nat \cup {Nada}]

\* The dates of a marana only matter as set or not: entrega, pagada.
MaranaRow == [origen: Nat, estado: EstadoMarana, pds: Pds \cup {Nada},
              entrega: BOOLEAN, pago_solicitante: BOOLEAN, pago_prestador: BOOLEAN,
              pagada: BOOLEAN]
OfertaRow == [marana: Nat, pds: Pds, estado: EstadoMaranaOferta]

VARIABLES
    finalizada,   \* the chamba was rated and closed
    adendas,      \* its list of adendas
    creadas,      \* history: adendas ever proposed
    maranas,      \* the maranas table, by id
    ofertas,      \* the maranas_ofertas table, by id
    peticion,     \* per slot: the request that loaded its rows, or Nada
    obsoleta      \* history: some request committed although a row it had
                  \* loaded had changed

filas == <<finalizada, adendas, creadas, maranas, ofertas>>
vars == <<finalizada, adendas, creadas, maranas, ofertas, peticion, obsoleta>>

\* A request: its operation, who asks, the rows it is about and what it will
\* write.  tomada: an acceptance that flushed its offer; vieja: a row that it
\* loaded was committed by another since.
Operacion == {"lista", "lanzar", "postular", "contraofertar", "rechazar", "aceptar",
              "completar", "cancelar", "pagar"}
Peticion == [op: Operacion, quien: Pds \cup {Solicitante}, m: Nat, o: Nat, i: Nat,
             lista: Seq(Adenda), cargada: EstadoMaranaOferta, cierra: BOOLEAN,
             otras: SUBSET Nat, tomada: BOOLEAN, vieja: BOOLEAN]

TypeOK ==
    /\ finalizada \in BOOLEAN
    /\ adendas \in Seq(Adenda)
    /\ creadas \in Nat
    /\ maranas \in Seq(MaranaRow)
    /\ ofertas \in Seq(OfertaRow)
    /\ peticion \in [Hilos -> Peticion \cup {Nada}]
    /\ obsoleta \in BOOLEAN

Init ==
    /\ finalizada = FALSE
    /\ adendas = <<>> /\ creadas = 0
    /\ maranas = <<>> /\ ofertas = <<>>
    /\ peticion = [h \in Hilos |-> Nada]
    /\ obsoleta = FALSE

\* A request as it arrives, before what its operation fills in.
Llegada(op, u) ==
    [op |-> op, quien |-> u, m |-> 0, o |-> 0, i |-> 0, lista |-> <<>>,
     cargada |-> "pendiente", cierra |-> FALSE, otras |-> {}, tomada |-> FALSE,
     vieja |-> FALSE]

Pide(h, p) ==
    /\ peticion[h] = Nada
    /\ peticion' = [peticion EXCEPT ![h] = p]
    /\ UNCHANGED <<finalizada, adendas, maranas, ofertas, obsoleta>>
-----------------------------------------------------------------------------
(* What a request has loaded, and what a commit does to the others. *)

OfertasDe(m) == {o \in DOMAIN ofertas : ofertas[o].marana = m}

\* The rows, and the sets of rows it queried, a request decides on.
Lee(p) ==
    CASE p.op \in {"lista", "lanzar"} -> {<<"chamba">>}
      [] p.op = "postular" -> {<<"marana", p.m>>, <<"ofertas", p.m, p.quien>>}
      [] p.op \in {"contraofertar", "rechazar"} -> {<<"marana", p.m>>, <<"oferta", p.o>>}
      [] p.op = "aceptar" ->
            {<<"marana", p.m>>, <<"oferta", p.o>>}
                \cup IF p.tomada THEN {<<"ofertas", p.m, q>> : q \in Pds} ELSE {}
      [] p.op \in {"completar", "cancelar", "pagar"} -> {<<"marana", p.m>>}

\* A write of the offer o, as the others see it.
Toca(o) == {<<"oferta", o>>, <<"ofertas", ofertas'[o].marana, ofertas'[o].pds>>}

\* The rows in escritas were committed: whoever had loaded one is behind.
Envejece(p, escritas) ==
    IF p # Nada /\ Lee(p) \cap escritas # {} THEN [p EXCEPT !.vieja = TRUE] ELSE p

\* The commit of h wrote the rows in escritas and ends the request.
Termina(h, escritas) ==
    /\ peticion' = [g \in Hilos |-> IF g = h THEN Nada ELSE Envejece(peticion[g], escritas)]
    /\ obsoleta' = (obsoleta \/ peticion[h].vieja)

Caben == Len(maranas) + Len(ofertas) < MaxFilas

Lista(h, op) == peticion[h] # Nada /\ peticion[h].op = op
-----------------------------------------------------------------------------
(* The adendas of the chamba *)

SinElemento(s, i) == SubSeq(s, 1, i - 1) \o SubSeq(s, i + 1, Len(s))

AgregarAdenda(h, u) ==
    /\ ~finalizada
    /\ creadas < MaxAdendas
    /\ creadas' = creadas + 1
    /\ Pide(h, [Llegada("lista", u) EXCEPT
            !.lista = Append(adendas, [origen |-> creadas + 1, marana |-> Nada])])

\* Mutant: a derived adenda can be deleted.
EliminarDerivada(h, u, i) ==
    /\ u = Solicitante
    /\ UNCHANGED creadas
    /\ Pide(h, [Llegada("lista", u) EXCEPT !.lista = SinElemento(adendas, i)])

\* PATCH and DELETE do not look at the estado of the chamba.
EditarAdenda(h, u, i) ==
    /\ u = Solicitante
    /\ adendas[i].marana = Nada
    /\ UNCHANGED creadas
    /\ Pide(h, [Llegada("lista", u) EXCEPT !.lista = adendas])

EliminarAdenda(h, u, i) ==
    /\ u = Solicitante
    /\ adendas[i].marana = Nada
    /\ UNCHANGED creadas
    /\ Pide(h, [Llegada("lista", u) EXCEPT !.lista = SinElemento(adendas, i)])

LanzarMarana(h, u, i) ==
    /\ u = Solicitante
    /\ ~finalizada
    /\ adendas[i].marana = Nada
    /\ Caben
    /\ UNCHANGED creadas
    /\ Pide(h, [Llegada("lanzar", u) EXCEPT !.lista = adendas, !.i = i])

CommitLista(h) ==
    /\ Lista(h, "lista")
    /\ adendas' = peticion[h].lista
    /\ Termina(h, {<<"chamba">>})
    /\ UNCHANGED <<finalizada, creadas, maranas, ofertas>>

Publicada(origen) ==
    [origen |-> origen, estado |-> "publicado", pds |-> Nada, entrega |-> FALSE,
     pago_solicitante |-> FALSE, pago_prestador |-> FALSE, pagada |-> FALSE]

\* Mutant: the adenda takes the id of the latest marana instead of the new one.
CommitLanzarAntes(h) ==
    LET p == peticion[h]
    IN  /\ Lista(h, "lanzar")
        /\ Caben
        /\ maranas' = Append(maranas, Publicada(p.lista[p.i].origen))
        /\ adendas' = [p.lista EXCEPT ![p.i].marana = Len(maranas)]
        /\ Termina(h, {<<"chamba">>})
        /\ UNCHANGED <<finalizada, creadas, ofertas>>

\* The INSERT gives the marana its id, and the whole list is written.
CommitLanzar(h) ==
    LET p == peticion[h]
    IN  /\ Lista(h, "lanzar")
        /\ Caben
        /\ maranas' = Append(maranas, Publicada(p.lista[p.i].origen))
        /\ adendas' = [p.lista EXCEPT ![p.i].marana = Len(maranas) + 1]
        /\ Termina(h, {<<"chamba">>})
        /\ UNCHANGED <<finalizada, creadas, ofertas>>

\* The rating of the chamba (module Chamba).
Finalizar ==
    /\ ~finalizada
    /\ finalizada' = TRUE
    /\ peticion' = [g \in Hilos |-> Envejece(peticion[g], {<<"chamba">>})]
    /\ UNCHANGED <<adendas, creadas, maranas, ofertas, obsoleta>>
-----------------------------------------------------------------------------
(* Offers on a marana *)

ActivasDe(m, u) ==
    {o \in OfertasDe(m) : ofertas[o].pds = u /\ ofertas[o].estado \in Activas}

Postular(h, u, m) ==
    /\ u \in Pds
    /\ maranas[m].estado = "publicado"
    /\ ActivasDe(m, u) = {}
    /\ Caben
    /\ UNCHANGED creadas
    /\ Pide(h, [Llegada("postular", u) EXCEPT !.m = m])

CommitPostular(h) ==
    LET p == peticion[h]
    IN  /\ Lista(h, "postular")
        /\ Caben
        /\ ofertas' = Append(ofertas, [marana |-> p.m, pds |-> p.quien,
                                       estado |-> "pendiente"])
        /\ Termina(h, Toca(Len(ofertas) + 1))
        /\ UNCHANGED <<finalizada, adendas, creadas, maranas>>

\* The estado of the marana is checked, that of the offer is not.
Responder(h, op, u, o) ==
    /\ maranas[ofertas[o].marana].estado = "publicado"
    /\ UNCHANGED creadas
    /\ Pide(h, [Llegada(op, u) EXCEPT !.m = ofertas[o].marana, !.o = o,
                                      !.cargada = ofertas[o].estado])

\* The solicitante, or the provider while a counter-offer is on the table.
Negocia(u, o) ==
    \/ u = Solicitante
    \/ u = ofertas[o].pds /\ ofertas[o].estado = "contraoferta"

Contraofertar(h, u, o) == Negocia(u, o) /\ Responder(h, "contraofertar", u, o)
Rechazar(h, u, o) == Negocia(u, o) /\ Responder(h, "rechazar", u, o)

\* aceptar, by the solicitante, and aceptar_contraoferta, by the provider of
\* the offer whether or not there is a counter-offer.
Aceptar(h, u, o) ==
    /\ u = Solicitante \/ u = ofertas[o].pds
    /\ Responder(h, "aceptar", u, o)

\* The offer o is locked by the acceptance of another slot.
Retenida(h, o) ==
    \E g \in Hilos \ {h} :
        peticion[g] # Nada /\ peticion[g].tomada /\ peticion[g].o = o

\* The UPDATE leaves out a column whose new value is the one that was loaded.
SiCambia(actual, cargado, nuevo) == IF nuevo = cargado THEN actual ELSE nuevo

CommitRespuesta(h, op, estado) ==
    LET p == peticion[h]
    IN  /\ Lista(h, op)
        /\ ~Retenida(h, p.o)
        /\ ofertas' = [ofertas EXCEPT ![p.o].estado = SiCambia(@, p.cargada, estado)]
        /\ Termina(h, Toca(p.o))
        /\ UNCHANGED <<finalizada, adendas, creadas, maranas>>

\* Mutant: only the pending offers are looked for.
TomaOfertaPendientes(h) ==
    LET p == peticion[h]
    IN  /\ Lista(h, "aceptar")
        /\ ~p.tomada
        /\ ~Retenida(h, p.o)
        /\ peticion' = [peticion EXCEPT ![h].tomada = TRUE,
                ![h].otras = {x \in OfertasDe(p.m) \ {p.o} : ofertas[x].estado = "pendiente"}]
        /\ UNCHANGED <<filas, obsoleta>>

\* The query of the other active offers flushes aceptada into the own one.
TomaOferta(h) ==
    LET p == peticion[h]
    IN  /\ Lista(h, "aceptar")
        /\ ~p.tomada
        /\ ~Retenida(h, p.o)
        /\ peticion' = [peticion EXCEPT ![h].tomada = TRUE,
                ![h].otras = {x \in OfertasDe(p.m) \ {p.o} : ofertas[x].estado \in Activas}]
        /\ UNCHANGED <<filas, obsoleta>>

\* The marana is assigned; the offers that were found active are closed, for
\* which their rows must be free.
CommitAceptar(h) ==
    LET p == peticion[h]
    IN  /\ Lista(h, "aceptar")
        /\ p.tomada
        /\ \A x \in p.otras : ~Retenida(h, x)
        /\ ofertas' = [x \in DOMAIN ofertas |->
                IF x = p.o THEN [ofertas[x] EXCEPT !.estado = "aceptada"]
                ELSE IF x \in p.otras THEN [ofertas[x] EXCEPT !.estado = "rechazada"]
                ELSE ofertas[x]]
        /\ maranas' = [maranas EXCEPT ![p.m].estado = "asignado",
                                      ![p.m].pds = ofertas[p.o].pds]
        /\ Termina(h, {<<"marana", p.m>>} \cup UNION {Toca(x) : x \in p.otras \cup {p.o}})
        /\ UNCHANGED <<finalizada, adendas, creadas>>

\* Two acceptances of one marana, one of which waits for the offer the other
\* has flushed while that one waits for the marana: PostgreSQL aborts either.
Interbloqueo(h) ==
    /\ Lista(h, "aceptar")
    /\ peticion[h].tomada
    /\ \E g \in Hilos \ {h} :
        /\ peticion[g] # Nada
        /\ peticion[g].tomada
        /\ peticion[g].o \in peticion[h].otras \/ peticion[h].o \in peticion[g].otras
    /\ peticion' = [peticion EXCEPT ![h] = Nada]
    /\ UNCHANGED <<filas, obsoleta>>
-----------------------------------------------------------------------------
(* Delivery, cancellation and payment *)

Completar(h, u, m) ==
    /\ maranas[m].pds = u
    /\ maranas[m].estado = "asignado"
    /\ UNCHANGED creadas
    /\ Pide(h, [Llegada("completar", u) EXCEPT !.m = m])

\* Mutant: a paid marana can be cancelled.
CancelarPagada(h, u, m) ==
    /\ u = Solicitante
    /\ maranas[m].estado # "cancelado"
    /\ UNCHANGED creadas
    /\ Pide(h, [Llegada("cancelar", u) EXCEPT !.m = m])

Cancelar(h, u, m) ==
    /\ u = Solicitante
    /\ maranas[m].estado \notin {"pagado", "cancelado"}
    /\ UNCHANGED creadas
    /\ Pide(h, [Llegada("cancelar", u) EXCEPT !.m = m])

\* Mutant: the check-in does not wait for the delivery.
PagarSinEntrega(h, u, m) ==
    LET row == maranas[m]
    IN  /\ u \in {Solicitante, row.pds}
        /\ UNCHANGED creadas
        /\ Pide(h, [Llegada("pagar", u) EXCEPT !.m = m,
                !.cierra = /\ row.pago_solicitante \/ u = Solicitante
                           /\ row.pago_prestador \/ u = row.pds])

\* The check-in of a party closes the marana when the other's was loaded.
Pagar(h, u, m) ==
    LET row == maranas[m]
    IN  /\ row.estado = "completado"
        /\ u \in {Solicitante, row.pds}
        /\ UNCHANGED creadas
        /\ Pide(h, [Llegada("pagar", u) EXCEPT !.m = m,
                !.cierra = /\ row.pago_solicitante \/ u = Solicitante
                           /\ row.pago_prestador \/ u = row.pds])

\* Commit of a request that only writes its marana.
EscribeMarana(h, op, row) ==
    /\ Lista(h, op)
    /\ maranas' = [maranas EXCEPT ![peticion[h].m] = row]
    /\ Termina(h, {<<"marana", peticion[h].m>>})
    /\ UNCHANGED <<finalizada, adendas, creadas, ofertas>>

Suya(h) == maranas[peticion[h].m]

CommitCompletar(h) ==
    EscribeMarana(h, "completar", [Suya(h) EXCEPT !.estado = "completado", !.entrega = TRUE])

CommitCancelar(h) ==
    EscribeMarana(h, "cancelar", [Suya(h) EXCEPT !.estado = "cancelado"])

CommitPagar(h) ==
    LET p == peticion[h]
    IN  EscribeMarana(h, "pagar", [Suya(h) EXCEPT
            !.pago_solicitante = @ \/ p.quien = Solicitante,
            !.pago_prestador = @ \/ p.quien # Solicitante,
            !.pagada = @ \/ p.cierra,
            !.estado = IF p.cierra THEN "pagado" ELSE @])
-----------------------------------------------------------------------------
Usuarios == Pds \cup {Solicitante}

Llega(h, u) ==
    \/ AgregarAdenda(h, u)
    \/ \E i \in DOMAIN adendas :
            EditarAdenda(h, u, i) \/ EliminarAdenda(h, u, i) \/ LanzarMarana(h, u, i)
    \/ \E m \in DOMAIN maranas :
            Postular(h, u, m) \/ Completar(h, u, m) \/ Cancelar(h, u, m) \/ Pagar(h, u, m)
    \/ \E o \in DOMAIN ofertas :
            Contraofertar(h, u, o) \/ Rechazar(h, u, o) \/ Aceptar(h, u, o)

Avanza(h) ==
    \/ CommitLista(h)
    \/ CommitLanzar(h)
    \/ CommitPostular(h)
    \/ CommitRespuesta(h, "contraofertar", "contraoferta")
    \/ CommitRespuesta(h, "rechazar", "rechazada")
    \/ TomaOferta(h)
    \/ CommitAceptar(h)
    \/ Interbloqueo(h)
    \/ CommitCompletar(h)
    \/ CommitCancelar(h)
    \/ CommitPagar(h)

Next == Finalizar \/ \E h \in Hilos : Avanza(h) \/ \E u \in Usuarios : Llega(h, u)

Spec == Init /\ [][Next]_vars
-----------------------------------------------------------------------------
(* Properties *)

\* A list is truthful: no adenda is in it twice, and one it shows as derived
\* names a marana that exists and was launched from that very adenda.
Veraz(lista) ==
    /\ \A i, j \in DOMAIN lista : lista[i].origen = lista[j].origen => i = j
    /\ \A i \in DOMAIN lista : lista[i].marana # Nada =>
            /\ lista[i].marana \in DOMAIN maranas
            /\ maranas[lista[i].marana].origen = lista[i].origen

\* However requests overwrite each other's list, what is committed is truthful.
ListaVeraz == Veraz(adendas)

\* While no request committed on rows that had changed, the work of a marana is
\* due in one place only: its adenda is still in the list, derived to it.
Enlaza(lista) ==
    \A m \in DOMAIN maranas : \E i \in DOMAIN lista :
        lista[i].marana = m /\ lista[i].origen = maranas[m].origen
DerivadaUnaVezEnSerie == ~obsoleta => Enlaza(adendas)

\* Whatever requests race, a marana that was paid was assigned, delivered and
\* confirmed by both parties, and nobody confirms before the delivery.
PagadaConEntrega ==
    \A m \in DOMAIN maranas :
        LET row == maranas[m]
        IN  /\ row.pagada => row.pago_solicitante /\ row.pago_prestador
            /\ row.pago_solicitante \/ row.pago_prestador => row.entrega
            /\ row.entrega => row.pds # Nada

\* While no request committed on rows that had changed, an assigned marana has
\* one accepted offer, of the assigned provider, and no active one; one that is
\* not assigned has none accepted.
UnaAceptadaEnSerie ==
    ~obsoleta => \A m \in DOMAIN maranas :
        LET aceptadas == {o \in OfertasDe(m) : ofertas[o].estado = "aceptada"}
            activas == {o \in OfertasDe(m) : ofertas[o].estado \in Activas}
        IN  IF maranas[m].pds = Nada THEN aceptadas = {}
            ELSE /\ activas = {}
                 /\ \E o \in aceptadas : aceptadas = {o} /\ ofertas[o].pds = maranas[m].pds

\* What a request on its way knows, whatever else commits: the list it will
\* write is truthful, the rows it is about exist, and a check-in follows a
\* delivery and closes only with the other's confirmation.
Coherente(p) ==
    /\ p.op \in {"lista", "lanzar"} =>
            Veraz(p.lista) /\ \A i \in DOMAIN p.lista : p.lista[i].origen <= creadas
    /\ p.op = "lanzar" => p.i \in DOMAIN p.lista /\ p.lista[p.i].marana = Nada
    /\ p.op \in {"postular", "contraofertar", "rechazar", "aceptar",
                 "completar", "cancelar", "pagar"} => p.m \in DOMAIN maranas
    /\ p.op \in {"contraofertar", "rechazar", "aceptar"} =>
            p.o \in DOMAIN ofertas /\ ofertas[p.o].marana = p.m
    /\ p.op = "aceptar" => p.otras \subseteq OfertasDe(p.m)
    /\ p.op = "postular" => p.quien \in Pds
    /\ p.op = "completar" => maranas[p.m].pds # Nada
    /\ p.op = "pagar" => maranas[p.m].entrega
    /\ p.op = "pagar" /\ p.cierra =>
            /\ maranas[p.m].pago_solicitante \/ p.quien = Solicitante
            /\ maranas[p.m].pago_prestador \/ p.quien # Solicitante

\* What it knows as long as none of its rows changed: the list it will write
\* still holds every derivation; the marana it answers about is in negotiation,
\* no active offer escaped it, and one it completes, cancels
\* or pays is where the request found it.
AlDia(p) ==
    /\ p.op \in {"lista", "lanzar"} => Enlaza(p.lista)
    /\ p.op \in {"postular", "contraofertar", "rechazar", "aceptar"} =>
            maranas[p.m].estado = "publicado"
    /\ p.op = "aceptar" /\ p.tomada =>
            \A o \in OfertasDe(p.m) : ofertas[o].estado \in Activas =>
                o \in p.otras \cup {p.o}
    /\ p.op = "completar" => maranas[p.m].estado = "asignado"
    /\ p.op = "cancelar" => maranas[p.m].estado \in {"publicado", "asignado", "completado"}
    /\ p.op = "pagar" =>
            /\ maranas[p.m].estado = "completado"
            /\ p.cierra <=> /\ maranas[p.m].pago_solicitante \/ p.quien = Solicitante
                            /\ maranas[p.m].pago_prestador \/ p.quien # Solicitante

\* The inductive invariant: what holds however requests race, ...
Firme ==
    /\ TypeOK
    /\ ListaVeraz /\ PagadaConEntrega
    /\ \A i \in DOMAIN adendas : adendas[i].origen <= creadas
    /\ \A m \in DOMAIN maranas :
            /\ maranas[m].estado = "publicado" => maranas[m].pds = Nada
            /\ maranas[m].estado = "completado" => maranas[m].entrega
    /\ \A o \in DOMAIN ofertas : ofertas[o].marana \in DOMAIN maranas
    /\ \A h \in Hilos : peticion[h] # Nada => Coherente(peticion[h])

\* ... and what holds until one commits on rows that had changed.
EnSerie ==
    /\ DerivadaUnaVezEnSerie /\ UnaAceptadaEnSerie
    /\ \A h \in Hilos : peticion[h] # Nada /\ ~obsoleta /\ ~peticion[h].vieja =>
            AlDia(peticion[h])

IInv == Firme /\ EnSerie

\* The maranas as Rebusque sees them.
Confirman(m) == (IF maranas[m].pago_solicitante THEN {"solicitante"} ELSE {})
                    \cup IF maranas[m].pago_prestador THEN {"prestador"} ELSE {}
CicloDe == [m \in 1..MaxFilas |->
    IF obsoleta THEN "incierto"
    ELSE IF m \in DOMAIN maranas THEN maranas[m].estado ELSE "inexistente"]
ConfirmanDe == [m \in 1..MaxFilas |->
    IF obsoleta \/ m \notin DOMAIN maranas THEN {} ELSE Confirman(m)]

Ciclo == INSTANCE Rebusque WITH ciclo <- CicloDe, confirman <- ConfirmanDe

\* Every marana goes through the life of Rebusque until a race.
CicloCumplido == Ciclo!Spec
=============================================================================
