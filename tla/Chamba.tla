------------------------------- MODULE Chamba -------------------------------
(***************************************************************************)
(* The execution record (chamba) of one signed contract, from the start of *)
(* the works to the final rating, and the requests that work on it.        *)
(*                                                                         *)
(* A request loads the row, decides on what it loaded and commits one      *)
(* UPDATE of the columns it changed.  The row carries neither a lock nor a *)
(* version, so another request may commit between the two: Leer is the     *)
(* first half of every handler, the other actions are the second halves.   *)
(***************************************************************************)
EXTENDS Naturals

CONSTANTS
    Solicitante, Prestador,   \* the two parties of the contract
    Hilos,                    \* request slots of the server
    Posiciones,               \* GPS positions a phone may report
    EnRadio,                  \* those within 100 m of the site (none when
                              \* the solicitud has no location)
    MontosFinales,            \* amounts a check-in may carry
    Nada                      \* NULL

ASSUME SitioEnMapa == EnRadio \subseteq Posiciones
ASSUME NadaAparte == Nada \notin MontosFinales /\ Nada \notin {Solicitante, Prestador}

EstadoChamba == {"programada", "en_proceso", "en_ejecucion", "pausada",
                 "pendiente_validacion", "liquidacion_confirmada", "finalizada"}
ASSUME NadaNoEsEstado == Nada \notin EstadoChamba

VARIABLES
    chamba,      \* the committed row
    peticion,    \* per slot: who asks and the columns as loaded, or Nada
    obsoleta     \* history: some request committed on a row that had changed

vars == <<chamba, peticion, obsoleta>>

Partes == {Solicitante, Prestador}

\* The dates of the row only matter as set or not, the evidences as some or none.
ChambaRow ==
    [estado: EstadoChamba, estado_previo: EstadoChamba \cup {Nada},
     inicio_obra: BOOLEAN, solicitud_cierre: BOOLEAN, validacion: BOOLEAN,
     liquidacion: BOOLEAN, finalizacion: BOOLEAN,
     evidencia_entrada: BOOLEAN, evidencia_salida: BOOLEAN,
     pago_solicitante: BOOLEAN, pago_prestador: BOOLEAN,
     pago_directo: BOOLEAN, monto_final: MontosFinales \cup {Nada}]

\* The columns some handler decides on.
Foto == [estado: EstadoChamba, estado_previo: EstadoChamba \cup {Nada},
         evidencia_salida: BOOLEAN,
         pago_solicitante: BOOLEAN, pago_prestador: BOOLEAN, pago_directo: BOOLEAN,
         monto_final: MontosFinales \cup {Nada}]

TypeOK ==
    /\ chamba \in ChambaRow
    /\ peticion \in [Hilos -> [usuario: Partes, foto: Foto] \cup {Nada}]
    /\ obsoleta \in BOOLEAN

\* The row as the signature of the contract leaves it.
Init ==
    /\ chamba = [estado |-> "programada", estado_previo |-> Nada,
                 inicio_obra |-> FALSE, solicitud_cierre |-> FALSE,
                 validacion |-> FALSE, liquidacion |-> FALSE, finalizacion |-> FALSE,
                 evidencia_entrada |-> FALSE, evidencia_salida |-> FALSE,
                 pago_solicitante |-> FALSE, pago_prestador |-> FALSE,
                 pago_directo |-> FALSE, monto_final |-> Nada]
    /\ peticion = [h \in Hilos |-> Nada]
    /\ obsoleta = FALSE

FotoDe(row) ==
    [estado |-> row.estado, estado_previo |-> row.estado_previo,
     evidencia_salida |-> row.evidencia_salida,
     pago_solicitante |-> row.pago_solicitante,
     pago_prestador |-> row.pago_prestador, pago_directo |-> row.pago_directo,
     monto_final |-> row.monto_final]

Leer(h, u) ==
    /\ peticion[h] = Nada
    /\ peticion' = [peticion EXCEPT ![h] = [usuario |-> u, foto |-> FotoDe(chamba)]]
    /\ UNCHANGED <<chamba, obsoleta>>

\* A handler that aborts, or one that only reads.
Responder(h) ==
    /\ peticion[h] # Nada
    /\ peticion' = [peticion EXCEPT ![h] = Nada]
    /\ UNCHANGED <<chamba, obsoleta>>

\* The UPDATE leaves out a column whose new value is the one that was loaded:
\* the committed one, actual, stays.
SiCambia(actual, cargado, nuevo) == IF nuevo = cargado THEN actual ELSE nuevo

\* The commit of h writes row and ends the request.
Escribe(h, row) ==
    /\ chamba' = row
    /\ peticion' = [peticion EXCEPT ![h] = Nada]
    /\ obsoleta' = (obsoleta \/ peticion[h].foto # FotoDe(chamba))
-----------------------------------------------------------------------------
(* PATCH /chambas/<id>/estado *)

\* Mutant: the panic button works before the works start.
TransicionesConPanico ==
    [programada |-> {"en_proceso", "pausada"},
     en_proceso |-> {"en_ejecucion", "pausada"},
     en_ejecucion |-> {"pendiente_validacion", "pausada"},
     pausada |-> {"en_proceso", "en_ejecucion"},
     pendiente_validacion |-> {"liquidacion_confirmada"},
     liquidacion_confirmada |-> {},
     finalizada |-> {}]

TransicionesValidas ==
    [programada |-> {"en_proceso"},
     en_proceso |-> {"en_ejecucion", "pausada"},
     en_ejecucion |-> {"pendiente_validacion", "pausada"},
     pausada |-> {"en_proceso", "en_ejecucion"},
     pendiente_validacion |-> {"liquidacion_confirmada"},
     liquidacion_confirmada |-> {},
     finalizada |-> {}]

\* h loaded the row in an estado from which nuevo is a valid transition.
Transita(h, nuevo) ==
    /\ peticion[h] # Nada
    /\ nuevo \in TransicionesValidas[peticion[h].foto.estado]

\* Mutant: estado_previo is not cleared.
ReanudarSinLimpiar(h, nuevo) ==
    /\ Transita(h, nuevo)
    /\ peticion[h].foto.estado = "pausada"
    /\ Escribe(h, [chamba EXCEPT !.estado = nuevo])

\* Either party, to either working estado: the previous one is not compared.
Reanudar(h, nuevo) ==
    /\ Transita(h, nuevo)
    /\ peticion[h].foto.estado = "pausada"
    /\ Escribe(h, [chamba EXCEPT
            !.estado = nuevo,
            !.estado_previo = SiCambia(@, peticion[h].foto.estado_previo, Nada)])

IniciarObra(h, posicion) ==
    /\ Transita(h, "en_proceso")
    /\ peticion[h].foto.estado # "pausada"
    /\ peticion[h].usuario = Prestador
    /\ posicion \in EnRadio
    /\ Escribe(h, [chamba EXCEPT !.estado = "en_proceso", !.inicio_obra = TRUE])

Ejecutar(h) ==
    /\ Transita(h, "en_ejecucion")
    /\ peticion[h].foto.estado # "pausada"
    /\ Escribe(h, [chamba EXCEPT !.estado = "en_ejecucion"])

\* Mutant: the closing is requested without final evidence.
CierreSinEvidencia(h) ==
    /\ Transita(h, "pendiente_validacion")
    /\ peticion[h].usuario = Prestador
    /\ Escribe(h, [chamba EXCEPT !.estado = "pendiente_validacion",
                                 !.solicitud_cierre = TRUE])

SolicitarCierre(h) ==
    /\ Transita(h, "pendiente_validacion")
    /\ peticion[h].usuario = Prestador
    /\ peticion[h].foto.evidencia_salida
    /\ Escribe(h, [chamba EXCEPT !.estado = "pendiente_validacion",
                                 !.solicitud_cierre = TRUE])

\* Mutant: the solicitante's own check-in is enough to settle.
LiquidarConUnPago(h) ==
    /\ Transita(h, "liquidacion_confirmada")
    /\ peticion[h].usuario = Solicitante
    /\ peticion[h].foto.pago_solicitante
    /\ Escribe(h, [chamba EXCEPT !.estado = "liquidacion_confirmada",
                                 !.liquidacion = TRUE])

Liquidar(h) ==
    /\ Transita(h, "liquidacion_confirmada")
    /\ peticion[h].usuario = Solicitante
    /\ peticion[h].foto.pago_directo
    /\ Escribe(h, [chamba EXCEPT !.estado = "liquidacion_confirmada",
                                 !.liquidacion = TRUE])

\* Mutant: the kind of the incident is stored as the estado.
PausarConTipo(h) ==
    /\ Transita(h, "pausada")
    /\ Escribe(h, [chamba EXCEPT !.estado = "panic",
                                 !.estado_previo = peticion[h].foto.estado])

Pausar(h) ==
    LET foto == peticion[h].foto
    IN  /\ Transita(h, "pausada")
        /\ Escribe(h, [chamba EXCEPT
                !.estado = "pausada",
                !.estado_previo = SiCambia(@, foto.estado_previo, foto.estado)])
-----------------------------------------------------------------------------
(* The other handlers of the chamba *)

\* Mutant: the inspection may also send the works back to execution.
ValidarORechazar(h) ==
    /\ peticion[h] # Nada
    /\ peticion[h].usuario = Solicitante
    /\ peticion[h].foto.estado = "pendiente_validacion"
    /\ \/ Escribe(h, [chamba EXCEPT !.validacion = TRUE])
       \/ Escribe(h, [chamba EXCEPT !.estado = "en_ejecucion",
                                    !.solicitud_cierre = FALSE])

Validar(h) ==
    /\ peticion[h] # Nada
    /\ peticion[h].usuario = Solicitante
    /\ peticion[h].foto.estado = "pendiente_validacion"
    /\ Escribe(h, [chamba EXCEPT !.validacion = TRUE])

EvidenciaEntrada(h) ==
    /\ peticion[h] # Nada
    /\ peticion[h].usuario = Prestador
    /\ peticion[h].foto.estado \in {"en_proceso", "en_ejecucion"}
    /\ Escribe(h, [chamba EXCEPT !.evidencia_entrada = TRUE])

EvidenciaSalida(h) ==
    /\ peticion[h] # Nada
    /\ peticion[h].usuario = Prestador
    /\ peticion[h].foto.estado \in {"en_ejecucion", "pendiente_validacion"}
    /\ Escribe(h, [chamba EXCEPT !.evidencia_salida = TRUE])

\* Mutant: the check-in does not look at the estado.
ConfirmarPagoSiempre(h, monto) ==
    LET foto == peticion[h].foto
        delSolicitante == peticion[h].usuario = Solicitante
        delPrestador == ~delSolicitante /\ peticion[h].usuario = Prestador
    IN  /\ peticion[h] # Nada
        /\ Escribe(h, [chamba EXCEPT
                !.pago_solicitante = @ \/ delSolicitante,
                !.pago_prestador = @ \/ delPrestador,
                !.pago_directo = @ \/ (/\ foto.pago_solicitante \/ delSolicitante
                                       /\ foto.pago_prestador \/ delPrestador),
                !.monto_final = IF monto = Nada THEN @ ELSE monto])

\* Check-in of one party, with or without an amount.  A flag that was loaded
\* as true is not written again.
ConfirmarPago(h, monto) ==
    LET foto == peticion[h].foto
        delSolicitante == peticion[h].usuario = Solicitante
        delPrestador == ~delSolicitante /\ peticion[h].usuario = Prestador
    IN  /\ peticion[h] # Nada
        /\ foto.estado \in {"pendiente_validacion", "liquidacion_confirmada"}
        /\ Escribe(h, [chamba EXCEPT
                !.pago_solicitante = @ \/ delSolicitante,
                !.pago_prestador = @ \/ delPrestador,
                !.pago_directo = @ \/ (/\ foto.pago_solicitante \/ delSolicitante
                                       /\ foto.pago_prestador \/ delPrestador),
                !.monto_final = IF monto = Nada THEN @
                                ELSE SiCambia(@, foto.monto_final, monto)])

\* The rating closes the chamba.
Calificar(h) ==
    /\ peticion[h] # Nada
    /\ peticion[h].usuario = Solicitante
    /\ peticion[h].foto.estado = "liquidacion_confirmada"
    /\ Escribe(h, [chamba EXCEPT
            !.estado = "finalizada", !.finalizacion = TRUE,
            !.estado_previo = SiCambia(@, peticion[h].foto.estado_previo, Nada)])
-----------------------------------------------------------------------------
Next ==
    \E h \in Hilos :
        \/ \E u \in Partes : Leer(h, u)
        \/ Responder(h)
        \/ \E e \in EstadoChamba : Reanudar(h, e)
        \/ \E p \in Posiciones : IniciarObra(h, p)
        \/ Ejecutar(h)
        \/ SolicitarCierre(h)
        \/ Liquidar(h)
        \/ Pausar(h)
        \/ Validar(h)
        \/ EvidenciaEntrada(h)
        \/ EvidenciaSalida(h)
        \/ \E m \in MontosFinales \cup {Nada} : ConfirmarPago(h, m)
        \/ Calificar(h)

Spec == Init /\ [][Next]_vars
-----------------------------------------------------------------------------
(* Safety *)

\* Whatever requests race, the dates of the row tell the truth: a rated chamba
\* was settled, a settled one was closed and paid by both parties, and one
\* whose closing was requested was started on site and shows its evidence.
HitosEnOrden ==
    /\ chamba.finalizacion => chamba.liquidacion
    /\ chamba.liquidacion => chamba.pago_directo
    /\ chamba.pago_directo => chamba.pago_solicitante /\ chamba.pago_prestador
    /\ (chamba.validacion \/ chamba.pago_solicitante \/ chamba.pago_prestador)
            => chamba.solicitud_cierre
    /\ chamba.solicitud_cierre => chamba.inicio_obra /\ chamba.evidencia_salida

\* Nor can the estado claim a milestone whose date is missing, even when it
\* was resumed from a pause or overwritten by a late commit.
EstadoConHitos ==
    /\ chamba.estado # "programada" => chamba.inicio_obra
    /\ chamba.estado = "pendiente_validacion" => chamba.solicitud_cierre
    /\ chamba.estado = "liquidacion_confirmada" => chamba.liquidacion
    /\ chamba.estado = "finalizada" => chamba.finalizacion

\* What a request loaded of the milestones is still true when it commits: a
\* decision on an old row may be late, but never rests on a milestone undone.
FotosFieles ==
    \A h \in Hilos : peticion[h] # Nada =>
        LET foto == peticion[h].foto
        IN  /\ foto.estado # "programada" => chamba.inicio_obra
            /\ foto.estado = "pendiente_validacion" => chamba.solicitud_cierre
            /\ foto.estado = "liquidacion_confirmada" => chamba.liquidacion
            /\ foto.estado = "finalizada" => chamba.finalizacion
            /\ foto.evidencia_salida => chamba.evidencia_salida
            /\ foto.pago_solicitante => chamba.pago_solicitante
            /\ foto.pago_prestador => chamba.pago_prestador
            /\ foto.pago_directo => chamba.pago_directo

\* As long as no request committed on a row that had changed since it loaded
\* it, a finalizada chamba is frozen: nothing reopens, pays or rates it again.
CongeladaEnSerie ==
    [][(chamba.estado = "finalizada" /\ ~obsoleta') => chamba' = chamba]_vars

\* In the same case estado_previo remembers exactly the pause that is open.
PausaEnSerie ==
    ~obsoleta => (chamba.estado = "pausada" <=> chamba.estado_previo # Nada)

\* The milestones a row shows.
Marcas(row) ==
    [inicio |-> row.inicio_obra, evidencia |-> row.evidencia_salida,
     cierre |-> row.solicitud_cierre, validacion |-> row.validacion,
     pago_solicitante |-> row.pago_solicitante,
     pago_prestador |-> row.pago_prestador,
     liquidacion |-> row.liquidacion, final |-> row.finalizacion]
HitosDe(row) == {x \in DOMAIN Marcas(row) : Marcas(row)[x]}

Hitos == INSTANCE HitosChamba WITH hitos <- HitosDe(chamba)

\* The handlers implement HitosChamba for any number of racing requests.
HitosCumplidos == Hitos!Spec
-----------------------------------------------------------------------------
(* What the docstring of confirmar_pago says and racing check-ins miss *)

\* services/chamba.py: "Cuando ambas partes confirman,
\* `pago_directo_confirmado` pasa a True."
AmbosConfirmanPago ==
    (Solicitante # Prestador /\ chamba.pago_solicitante /\ chamba.pago_prestador)
        => chamba.pago_directo
=============================================================================
