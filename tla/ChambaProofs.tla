---------------------------- MODULE ChambaProofs ----------------------------
(***************************************************************************)
(* Proofs about Chamba for any number of racing requests.                  *)
(***************************************************************************)
EXTENDS Chamba, TLAPS

\* HitosEnOrden and EstadoConHitos are not inductive alone: a request that
\* loaded an old row commits on it, so what it loaded must still hold.
IInv == TypeOK /\ HitosEnOrden /\ EstadoConHitos /\ FotosFieles

\* A commit that writes a well-typed row keeps the types.
LEMMA EscribeTipos ==
    ASSUME TypeOK, NEW h \in Hilos, NEW row \in ChambaRow, Escribe(h, row)
    PROVE  TypeOK'
  BY DEF TypeOK, Escribe

LEMMA FotoDeTipos ==
    ASSUME NEW row \in ChambaRow
    PROVE  FotoDe(row) \in Foto
  BY DEF FotoDe, ChambaRow, Foto

\* What TypeOK says of a slot in use.
LEMMA FotoTipos ==
    ASSUME TypeOK, NEW h \in Hilos, peticion[h] # Nada
    PROVE  /\ peticion[h].usuario \in Partes
           /\ peticion[h].foto \in Foto
           /\ chamba \in ChambaRow
  BY DEF TypeOK

\* A commit that loses no milestone keeps every picture faithful.
LEMMA EscribeFotos ==
    ASSUME TypeOK, FotosFieles, NEW h \in Hilos, NEW row \in ChambaRow, Escribe(h, row),
           chamba.inicio_obra => row.inicio_obra,
           chamba.solicitud_cierre => row.solicitud_cierre,
           chamba.liquidacion => row.liquidacion,
           chamba.finalizacion => row.finalizacion,
           chamba.evidencia_salida => row.evidencia_salida,
           chamba.pago_solicitante => row.pago_solicitante,
           chamba.pago_prestador => row.pago_prestador,
           chamba.pago_directo => row.pago_directo
    PROVE  FotosFieles'
  <1>1. SUFFICES ASSUME NEW g \in Hilos, peticion'[g] # Nada
                 PROVE  /\ peticion[g] # Nada
                        /\ peticion'[g] = peticion[g]
                        /\ chamba' = row
    BY DEF FotosFieles
  <1>2. peticion' = [peticion EXCEPT ![h] = Nada] /\ chamba' = row
    BY DEF Escribe
  <1>3. g # h
    BY <1>1, <1>2 DEF TypeOK
  <1>4. QED BY <1>1, <1>2, <1>3 DEF TypeOK
-----------------------------------------------------------------------------
(* One lemma per handler: its commit preserves the invariant. *)

\* What is left to prove for a commit: the orders of the row it writes.
LEMMA EscribeInv ==
    ASSUME IInv, NEW h \in Hilos, NEW row \in ChambaRow, Escribe(h, row),
           chamba.inicio_obra => row.inicio_obra,
           chamba.solicitud_cierre => row.solicitud_cierre,
           chamba.liquidacion => row.liquidacion,
           chamba.finalizacion => row.finalizacion,
           chamba.evidencia_salida => row.evidencia_salida,
           chamba.pago_solicitante => row.pago_solicitante,
           chamba.pago_prestador => row.pago_prestador,
           chamba.pago_directo => row.pago_directo,
           HitosEnOrden', EstadoConHitos'
    PROVE  IInv'
  BY EscribeTipos, EscribeFotos DEF IInv

\* In which estados a transition may have been decided, and what its picture
\* says of the row.
LEMMA TransitaDesde ==
    ASSUME IInv, NEW h \in Hilos, NEW e, Transita(h, e)
    PROVE  /\ peticion[h] # Nada
           /\ e = "en_proceso" => peticion[h].foto.estado \in {"programada", "pausada"}
           /\ e = "en_ejecucion" => peticion[h].foto.estado \in {"en_proceso", "pausada"}
           /\ e = "pendiente_validacion" => peticion[h].foto.estado = "en_ejecucion"
           /\ e = "liquidacion_confirmada" => peticion[h].foto.estado = "pendiente_validacion"
           /\ e = "pausada" => peticion[h].foto.estado \in {"en_proceso", "en_ejecucion"}
           /\ e \in {"en_proceso", "en_ejecucion", "pendiente_validacion",
                     "liquidacion_confirmada", "pausada"}
  <1>1. peticion[h] # Nada /\ e \in TransicionesValidas[peticion[h].foto.estado]
    BY DEF Transita
  <1>2. peticion[h].foto.estado \in EstadoChamba
    BY <1>1, FotoTipos DEF IInv, Foto
  <1>3. QED BY <1>1, <1>2 DEF TransicionesValidas, EstadoChamba

LEMMA ReanudarInv ==
    ASSUME IInv, NEW h \in Hilos, NEW e \in EstadoChamba, Reanudar(h, e)
    PROVE  IInv'
  <1> DEFINE previo == SiCambia(chamba.estado_previo, peticion[h].foto.estado_previo, Nada)
             row == [chamba EXCEPT !.estado = e, !.estado_previo = previo]
  <1>1. peticion[h] # Nada /\ Escribe(h, row)
    BY DEF Reanudar, Transita
  <1>2. peticion[h].foto \in Foto /\ chamba \in ChambaRow
    BY <1>1, FotoTipos DEF IInv
  <1>3. row \in ChambaRow /\ chamba' = row
    BY <1>1, <1>2 DEF ChambaRow, EstadoChamba, Foto, Escribe, SiCambia
  <1>4. HitosEnOrden' /\ EstadoConHitos'
    BY <1>1, <1>2, <1>3, TransitaDesde
       DEF Reanudar, IInv, HitosEnOrden, EstadoConHitos, FotosFieles, ChambaRow
  <1>5. QED BY <1>1, <1>2, <1>3, <1>4, EscribeInv DEF ChambaRow

LEMMA IniciarObraInv ==
    ASSUME IInv, NEW h \in Hilos, NEW p \in Posiciones, IniciarObra(h, p)
    PROVE  IInv'
  <1> DEFINE row == [chamba EXCEPT !.estado = "en_proceso", !.inicio_obra = TRUE]
  <1>1. peticion[h] # Nada /\ Escribe(h, row)
    BY DEF IniciarObra, Transita
  <1>2. peticion[h].foto \in Foto /\ chamba \in ChambaRow
    BY <1>1, FotoTipos DEF IInv
  <1>3. row \in ChambaRow /\ chamba' = row
    BY <1>1, <1>2 DEF ChambaRow, EstadoChamba, Foto, Escribe
  <1>4. HitosEnOrden' /\ EstadoConHitos'
    BY <1>1, <1>2, <1>3, TransitaDesde
       DEF IniciarObra, IInv, HitosEnOrden, EstadoConHitos, FotosFieles, ChambaRow
  <1>5. QED BY <1>1, <1>2, <1>3, <1>4, EscribeInv DEF ChambaRow

LEMMA EjecutarInv ==
    ASSUME IInv, NEW h \in Hilos, Ejecutar(h)
    PROVE  IInv'
  <1> DEFINE row == [chamba EXCEPT !.estado = "en_ejecucion"]
  <1>1. peticion[h] # Nada /\ Escribe(h, row)
    BY DEF Ejecutar, Transita
  <1>2. peticion[h].foto \in Foto /\ chamba \in ChambaRow
    BY <1>1, FotoTipos DEF IInv
  <1>3. row \in ChambaRow /\ chamba' = row
    BY <1>1, <1>2 DEF ChambaRow, EstadoChamba, Foto, Escribe
  <1>4. HitosEnOrden' /\ EstadoConHitos'
    BY <1>1, <1>2, <1>3, TransitaDesde
       DEF Ejecutar, IInv, HitosEnOrden, EstadoConHitos, FotosFieles, ChambaRow
  <1>5. QED BY <1>1, <1>2, <1>3, <1>4, EscribeInv DEF ChambaRow

LEMMA SolicitarCierreInv ==
    ASSUME IInv, NEW h \in Hilos, SolicitarCierre(h)
    PROVE  IInv'
  <1> DEFINE row == [chamba EXCEPT !.estado = "pendiente_validacion",
                                      !.solicitud_cierre = TRUE]
  <1>1. peticion[h] # Nada /\ Escribe(h, row)
    BY DEF SolicitarCierre, Transita
  <1>2. peticion[h].foto \in Foto /\ chamba \in ChambaRow
    BY <1>1, FotoTipos DEF IInv
  <1>3. row \in ChambaRow /\ chamba' = row
    BY <1>1, <1>2 DEF ChambaRow, EstadoChamba, Foto, Escribe
  <1>4. HitosEnOrden' /\ EstadoConHitos'
    BY <1>1, <1>2, <1>3, TransitaDesde
       DEF SolicitarCierre, IInv, HitosEnOrden, EstadoConHitos, FotosFieles, ChambaRow
  <1>5. QED BY <1>1, <1>2, <1>3, <1>4, EscribeInv DEF ChambaRow

LEMMA LiquidarInv ==
    ASSUME IInv, NEW h \in Hilos, Liquidar(h)
    PROVE  IInv'
  <1> DEFINE row == [chamba EXCEPT !.estado = "liquidacion_confirmada",
                                      !.liquidacion = TRUE]
  <1>1. peticion[h] # Nada /\ Escribe(h, row)
    BY DEF Liquidar, Transita
  <1>2. peticion[h].foto \in Foto /\ chamba \in ChambaRow
    BY <1>1, FotoTipos DEF IInv
  <1>3. row \in ChambaRow /\ chamba' = row
    BY <1>1, <1>2 DEF ChambaRow, EstadoChamba, Foto, Escribe
  <1>4. HitosEnOrden' /\ EstadoConHitos'
    BY <1>1, <1>2, <1>3, TransitaDesde
       DEF Liquidar, IInv, HitosEnOrden, EstadoConHitos, FotosFieles, ChambaRow
  <1>5. QED BY <1>1, <1>2, <1>3, <1>4, EscribeInv DEF ChambaRow

LEMMA PausarInv ==
    ASSUME IInv, NEW h \in Hilos, Pausar(h)
    PROVE  IInv'
  <1> DEFINE foto == peticion[h].foto
             previo == SiCambia(chamba.estado_previo, foto.estado_previo, foto.estado)
             row == [chamba EXCEPT !.estado = "pausada", !.estado_previo = previo]
  <1>1. peticion[h] # Nada /\ Escribe(h, row)
    BY DEF Pausar, Transita
  <1>2. peticion[h].foto \in Foto /\ chamba \in ChambaRow
    BY <1>1, FotoTipos DEF IInv
  <1>3. row \in ChambaRow /\ chamba' = row
    BY <1>1, <1>2 DEF ChambaRow, EstadoChamba, Foto, Escribe, SiCambia
  <1>4. HitosEnOrden' /\ EstadoConHitos'
    BY <1>1, <1>2, <1>3, TransitaDesde
       DEF Pausar, IInv, HitosEnOrden, EstadoConHitos, FotosFieles, ChambaRow
  <1>5. QED BY <1>1, <1>2, <1>3, <1>4, EscribeInv DEF ChambaRow

LEMMA ValidarInv ==
    ASSUME IInv, NEW h \in Hilos, Validar(h)
    PROVE  IInv'
  <1> DEFINE row == [chamba EXCEPT !.validacion = TRUE]
  <1>1. peticion[h] # Nada /\ Escribe(h, row)
    BY DEF Validar
  <1>2. peticion[h].foto \in Foto /\ chamba \in ChambaRow
    BY <1>1, FotoTipos DEF IInv
  <1>3. row \in ChambaRow /\ chamba' = row
    BY <1>1, <1>2 DEF ChambaRow, EstadoChamba, Foto, Escribe
  <1>4. HitosEnOrden' /\ EstadoConHitos'
    BY <1>1, <1>2, <1>3
       DEF Validar, IInv, HitosEnOrden, EstadoConHitos, FotosFieles, ChambaRow
  <1>5. QED BY <1>1, <1>2, <1>3, <1>4, EscribeInv DEF ChambaRow

LEMMA EvidenciaEntradaInv ==
    ASSUME IInv, NEW h \in Hilos, EvidenciaEntrada(h)
    PROVE  IInv'
  <1> DEFINE row == [chamba EXCEPT !.evidencia_entrada = TRUE]
  <1>1. peticion[h] # Nada /\ Escribe(h, row)
    BY DEF EvidenciaEntrada
  <1>2. peticion[h].foto \in Foto /\ chamba \in ChambaRow
    BY <1>1, FotoTipos DEF IInv
  <1>3. row \in ChambaRow /\ chamba' = row
    BY <1>1, <1>2 DEF ChambaRow, EstadoChamba, Foto, Escribe
  <1>4. HitosEnOrden' /\ EstadoConHitos'
    BY <1>1, <1>2, <1>3
       DEF EvidenciaEntrada, IInv, HitosEnOrden, EstadoConHitos, FotosFieles, ChambaRow
  <1>5. QED BY <1>1, <1>2, <1>3, <1>4, EscribeInv DEF ChambaRow

LEMMA EvidenciaSalidaInv ==
    ASSUME IInv, NEW h \in Hilos, EvidenciaSalida(h)
    PROVE  IInv'
  <1> DEFINE row == [chamba EXCEPT !.evidencia_salida = TRUE]
  <1>1. peticion[h] # Nada /\ Escribe(h, row)
    BY DEF EvidenciaSalida
  <1>2. peticion[h].foto \in Foto /\ chamba \in ChambaRow
    BY <1>1, FotoTipos DEF IInv
  <1>3. row \in ChambaRow /\ chamba' = row
    BY <1>1, <1>2 DEF ChambaRow, EstadoChamba, Foto, Escribe
  <1>4. HitosEnOrden' /\ EstadoConHitos'
    BY <1>1, <1>2, <1>3
       DEF EvidenciaSalida, IInv, HitosEnOrden, EstadoConHitos, FotosFieles, ChambaRow
  <1>5. QED BY <1>1, <1>2, <1>3, <1>4, EscribeInv DEF ChambaRow

LEMMA ConfirmarPagoInv ==
    ASSUME IInv, NEW h \in Hilos, NEW m \in MontosFinales \cup {Nada}, ConfirmarPago(h, m)
    PROVE  IInv'
  <1> DEFINE foto == peticion[h].foto
             sol == peticion[h].usuario = Solicitante
             pre == ~sol /\ peticion[h].usuario = Prestador
             row == [chamba EXCEPT
                        !.pago_solicitante = @ \/ sol,
                        !.pago_prestador = @ \/ pre,
                        !.pago_directo = @ \/ (/\ foto.pago_solicitante \/ sol
                                               /\ foto.pago_prestador \/ pre),
                        !.monto_final = IF m = Nada THEN @
                                        ELSE SiCambia(@, foto.monto_final, m)]
  <1>1. /\ peticion[h] # Nada /\ Escribe(h, row)
        /\ foto.estado \in {"pendiente_validacion", "liquidacion_confirmada"}
    BY DEF ConfirmarPago
  <1>2. foto \in Foto /\ chamba \in ChambaRow
    BY <1>1, FotoTipos DEF IInv
  <1>3. sol \in BOOLEAN /\ pre \in BOOLEAN
    OBVIOUS
  <1>4. /\ foto.pago_solicitante => chamba.pago_solicitante
        /\ foto.pago_prestador => chamba.pago_prestador
        /\ chamba.solicitud_cierre
    BY <1>1, <1>2 DEF IInv, FotosFieles, HitosEnOrden, ChambaRow
  <1>5. row \in ChambaRow /\ chamba' = row
    <2> DEFINE v == IF m = Nada THEN chamba.monto_final
                    ELSE SiCambia(chamba.monto_final, foto.monto_final, m)
               a == chamba.pago_solicitante \/ sol
               b == chamba.pago_prestador \/ pre
               c == chamba.pago_directo \/ (/\ foto.pago_solicitante \/ sol
                                            /\ foto.pago_prestador \/ pre)
    <2>1. v \in MontosFinales \cup {Nada}
      BY <1>2 DEF ChambaRow, SiCambia
    <2>2. a \in BOOLEAN /\ b \in BOOLEAN /\ c \in BOOLEAN
      OBVIOUS
    <2>3. row = [chamba EXCEPT !.pago_solicitante = a, !.pago_prestador = b,
                               !.pago_directo = c, !.monto_final = v]
      OBVIOUS
    <2> HIDE DEF a, b, c, v, row
    <2>4. row \in ChambaRow
      BY <1>2, <2>1, <2>2, <2>3 DEF ChambaRow
    <2>5. QED BY <1>1, <2>4 DEF Escribe
  <1>6. /\ row.pago_solicitante = (chamba.pago_solicitante \/ sol)
        /\ row.pago_prestador = (chamba.pago_prestador \/ pre)
        /\ row.pago_directo = (chamba.pago_directo \/ (/\ foto.pago_solicitante \/ sol
                                                       /\ foto.pago_prestador \/ pre))
    BY <1>2 DEF ChambaRow
  <1>7. /\ row.estado = chamba.estado
        /\ row.inicio_obra = chamba.inicio_obra
        /\ row.solicitud_cierre = chamba.solicitud_cierre
        /\ row.validacion = chamba.validacion
        /\ row.liquidacion = chamba.liquidacion
        /\ row.finalizacion = chamba.finalizacion
        /\ row.evidencia_salida = chamba.evidencia_salida
    BY <1>2 DEF ChambaRow
  <1> HIDE DEF row, sol, pre
  <1>8. HitosEnOrden' /\ EstadoConHitos'
    BY <1>3, <1>4, <1>5, <1>6, <1>7 DEF IInv, HitosEnOrden, EstadoConHitos
  <1>9. QED BY <1>1, <1>5, <1>6, <1>7, <1>8, EscribeInv

LEMMA CalificarInv ==
    ASSUME IInv, NEW h \in Hilos, Calificar(h)
    PROVE  IInv'
  <1> DEFINE previo == SiCambia(chamba.estado_previo, peticion[h].foto.estado_previo, Nada)
             row == [chamba EXCEPT !.estado = "finalizada", !.finalizacion = TRUE,
                                   !.estado_previo = previo]
  <1>1. peticion[h] # Nada /\ Escribe(h, row)
    BY DEF Calificar
  <1>2. peticion[h].foto \in Foto /\ chamba \in ChambaRow
    BY <1>1, FotoTipos DEF IInv
  <1>3. row \in ChambaRow /\ chamba' = row
    BY <1>1, <1>2 DEF ChambaRow, EstadoChamba, Foto, Escribe, SiCambia
  <1>4. HitosEnOrden' /\ EstadoConHitos'
    BY <1>1, <1>2, <1>3
       DEF Calificar, IInv, HitosEnOrden, EstadoConHitos, FotosFieles, ChambaRow
  <1>5. /\ row.inicio_obra = chamba.inicio_obra
        /\ row.solicitud_cierre = chamba.solicitud_cierre
        /\ row.liquidacion = chamba.liquidacion
        /\ row.finalizacion
        /\ row.evidencia_salida = chamba.evidencia_salida
        /\ row.pago_solicitante = chamba.pago_solicitante
        /\ row.pago_prestador = chamba.pago_prestador
        /\ row.pago_directo = chamba.pago_directo
    BY <1>2 DEF ChambaRow
  <1> HIDE DEF row
  <1>6. QED BY <1>1, <1>3, <1>4, <1>5, EscribeInv

\* A request loads the committed row: its picture is faithful by the orders
\* the row keeps.
LEMMA LeerInv ==
    ASSUME IInv, NEW h \in Hilos, NEW u \in Partes, Leer(h, u)
    PROVE  IInv'
  <1> DEFINE nueva == [usuario |-> u, foto |-> FotoDe(chamba)]
  <1>1. /\ peticion' = [peticion EXCEPT ![h] = nueva]
        /\ chamba' = chamba /\ obsoleta' = obsoleta
    BY DEF Leer
  <1>2. chamba \in ChambaRow /\ nueva \in [usuario: Partes, foto: Foto]
    BY FotoDeTipos DEF IInv, TypeOK
  <1>3. TypeOK'
    BY <1>1, <1>2 DEF IInv, TypeOK
  <1>4. HitosEnOrden' /\ EstadoConHitos'
    BY <1>1 DEF IInv, HitosEnOrden, EstadoConHitos
  <1>5. /\ nueva.foto.estado = chamba.estado
        /\ nueva.foto.evidencia_salida = chamba.evidencia_salida
        /\ nueva.foto.pago_solicitante = chamba.pago_solicitante
        /\ nueva.foto.pago_prestador = chamba.pago_prestador
        /\ nueva.foto.pago_directo = chamba.pago_directo
    BY DEF FotoDe
  <1> HIDE DEF nueva
  <1>6. FotosFieles'
    BY <1>1, <1>5 DEF IInv, TypeOK, FotosFieles, EstadoConHitos
  <1>7. QED BY <1>3, <1>4, <1>6 DEF IInv

LEMMA ResponderInv ==
    ASSUME IInv, NEW h \in Hilos, Responder(h)
    PROVE  IInv'
  <1>1. peticion' = [peticion EXCEPT ![h] = Nada] /\ UNCHANGED <<chamba, obsoleta>>
    BY DEF Responder
  <1>2. TypeOK' /\ HitosEnOrden' /\ EstadoConHitos'
    BY <1>1 DEF IInv, TypeOK, HitosEnOrden, EstadoConHitos
  <1>3. FotosFieles'
    BY <1>1 DEF IInv, TypeOK, FotosFieles
  <1>4. QED BY <1>2, <1>3 DEF IInv

LEMMA InvAlInicio == Init => IInv
  <1> SUFFICES ASSUME Init PROVE IInv
    OBVIOUS
  <1>1. TypeOK
    BY DEF Init, TypeOK, ChambaRow, EstadoChamba
  <1>2. HitosEnOrden /\ EstadoConHitos
    BY DEF Init, HitosEnOrden, EstadoConHitos
  <1>3. FotosFieles
    BY DEF Init, FotosFieles
  <1>4. QED BY <1>1, <1>2, <1>3 DEF IInv

LEMMA InvEnCadaPaso == IInv /\ [Next]_vars => IInv'
  <1>1. ASSUME IInv, Next PROVE IInv'
    BY <1>1, LeerInv, ResponderInv, ReanudarInv, IniciarObraInv, EjecutarInv,
       SolicitarCierreInv, LiquidarInv, PausarInv, ValidarInv, EvidenciaEntradaInv,
       EvidenciaSalidaInv, ConfirmarPagoInv, CalificarInv
       DEF Next
  <1>2. ASSUME IInv, UNCHANGED vars PROVE IInv'
    BY <1>2 DEF vars, IInv, TypeOK, HitosEnOrden, EstadoConHitos, FotosFieles
  <1>3. QED BY <1>1, <1>2
-----------------------------------------------------------------------------
(* Theorems *)

\* For any number of racing requests the inductive invariant holds.
THEOREM Invariante == Spec => []IInv
  BY InvAlInicio, InvEnCadaPaso, PTL DEF Spec

\* However many requests race, a settled chamba was paid by both parties and a
\* closed one was started on site and shows its evidence.
THEOREM Ordenada == Spec => []HitosEnOrden
  <1>1. IInv => HitosEnOrden
    BY DEF IInv
  <1>2. QED BY <1>1, Invariante, PTL

\* However many requests race, the estado never claims a milestone that the
\* dates of the row deny.
THEOREM EstadoVeraz == Spec => []EstadoConHitos
  <1>1. IInv => EstadoConHitos
    BY DEF IInv
  <1>2. QED BY <1>1, Invariante, PTL

\* The row and the requests keep their types.
THEOREM Tipos == Spec => []TypeOK
  <1>1. IInv => TypeOK
    BY DEF IInv
  <1>2. QED BY <1>1, Invariante, PTL

\* However many requests race, no milestone that a request on its way has
\* loaded is undone before it commits.
THEOREM Fieles == Spec => []FotosFieles
  <1>1. IInv => FotosFieles
    BY DEF IInv
  <1>2. QED BY <1>1, Invariante, PTL
-----------------------------------------------------------------------------
(* Until a request commits on a row that had changed *)

\* A commit that leaves obsoleta alone was decided on the committed row.
LEMMA FotoVigente ==
    ASSUME NEW h \in Hilos, NEW row, Escribe(h, row), ~obsoleta'
    PROVE  /\ ~obsoleta
           /\ peticion[h].foto.estado = chamba.estado
           /\ peticion[h].foto.estado_previo = chamba.estado_previo
  <1>1. ~obsoleta /\ peticion[h].foto = FotoDe(chamba)
    BY DEF Escribe
  <1>2. QED BY <1>1 DEF FotoDe

\* A commit that was decided on the committed row opens a pause with a previous
\* estado, closes it without one, and otherwise leaves a row that is not paused.
LEMMA PausaPaso ==
    ASSUME IInv, PausaEnSerie, NEW h \in Hilos, NEW row, Escribe(h, row), ~obsoleta',
           \/ /\ row.estado = "pausada"
              /\ row.estado_previo \in EstadoChamba
           \/ /\ row.estado # "pausada"
              /\ \/ row.estado_previo = Nada
                 \/ /\ row.estado_previo = chamba.estado_previo
                    /\ peticion[h].foto.estado # "pausada"
           \/ row.estado = chamba.estado /\ row.estado_previo = chamba.estado_previo
    PROVE  PausaEnSerie'
  <1>1. /\ ~obsoleta /\ peticion[h].foto.estado = chamba.estado
        /\ (chamba.estado = "pausada" <=> chamba.estado_previo # Nada)
    BY FotoVigente DEF PausaEnSerie
  <1>2. chamba' = row
    BY DEF Escribe
  <1>3. QED BY <1>1, <1>2, NadaNoEsEstado DEF PausaEnSerie

LEMMA PausaEnCadaPaso ==
    ASSUME IInv, PausaEnSerie, Next
    PROVE  PausaEnSerie'
  <1>1. SUFFICES ASSUME ~obsoleta' PROVE PausaEnSerie'
    BY DEF PausaEnSerie
  <1>2. chamba \in ChambaRow
    BY DEF IInv, TypeOK
  <1>3. ASSUME NEW h \in Hilos, NEW e \in EstadoChamba, Reanudar(h, e)
        PROVE  PausaEnSerie'
    <2> DEFINE previo == SiCambia(chamba.estado_previo, peticion[h].foto.estado_previo, Nada)
               row == [chamba EXCEPT !.estado = e, !.estado_previo = previo]
    <2>1. Transita(h, e) /\ Escribe(h, row) /\ peticion[h].foto.estado = "pausada"
      BY <1>3 DEF Reanudar
    <2>2. previo = Nada
      BY <1>1, <2>1, FotoVigente DEF SiCambia
    <2>3. e # "pausada"
      BY <2>1, TransitaDesde
    <2>4. row.estado = e /\ row.estado_previo = previo
      BY <1>2 DEF ChambaRow
    <2> HIDE DEF row, previo
    <2>5. QED BY <1>1, <2>1, <2>2, <2>3, <2>4, PausaPaso
  <1>4. ASSUME NEW h \in Hilos, Pausar(h)
        PROVE  PausaEnSerie'
    <2> DEFINE foto == peticion[h].foto
               previo == SiCambia(chamba.estado_previo, foto.estado_previo, foto.estado)
               row == [chamba EXCEPT !.estado = "pausada", !.estado_previo = previo]
    <2>1. Transita(h, "pausada") /\ Escribe(h, row)
      BY <1>4 DEF Pausar
    <2>2. previo = foto.estado
      BY <1>1, <2>1, FotoVigente DEF SiCambia
    <2>3. previo \in EstadoChamba
      BY <1>1, <1>2, <2>1, <2>2, FotoVigente DEF ChambaRow
    <2>4. row.estado = "pausada" /\ row.estado_previo = previo
      BY <1>2 DEF ChambaRow
    <2> HIDE DEF row, previo
    <2>5. QED BY <1>1, <2>1, <2>3, <2>4, PausaPaso
  <1>5. ASSUME NEW h \in Hilos, Calificar(h)
        PROVE  PausaEnSerie'
    <2> DEFINE previo == SiCambia(chamba.estado_previo, peticion[h].foto.estado_previo, Nada)
               row == [chamba EXCEPT !.estado = "finalizada", !.finalizacion = TRUE,
                                     !.estado_previo = previo]
    <2>1. Escribe(h, row)
      BY <1>5 DEF Calificar
    <2>2. previo = Nada
      BY <1>1, <2>1, FotoVigente DEF SiCambia
    <2>3. row.estado = "finalizada" /\ row.estado_previo = previo
      BY <1>2 DEF ChambaRow
    <2> HIDE DEF row, previo
    <2>4. QED BY <1>1, <2>1, <2>2, <2>3, PausaPaso
  <1>6. ASSUME NEW h \in Hilos,
               \/ \E p \in Posiciones : IniciarObra(h, p)
               \/ Ejecutar(h) \/ SolicitarCierre(h) \/ Liquidar(h)
        PROVE  PausaEnSerie'
    <2>1. /\ Escribe(h, chamba')
          /\ chamba'.estado # "pausada"
          /\ chamba'.estado_previo = chamba.estado_previo
          /\ peticion[h].foto.estado # "pausada"
      BY <1>2, <1>6, TransitaDesde
         DEF IniciarObra, Ejecutar, SolicitarCierre, Liquidar, Escribe, ChambaRow
    <2>2. PICK row : row = chamba'
      OBVIOUS
    <2>3. QED BY <1>1, <2>1, <2>2, PausaPaso
  <1>7. ASSUME NEW h \in Hilos,
               \/ Validar(h) \/ EvidenciaEntrada(h) \/ EvidenciaSalida(h)
               \/ \E m \in MontosFinales \cup {Nada} : ConfirmarPago(h, m)
        PROVE  PausaEnSerie'
    <2>1. /\ Escribe(h, chamba')
          /\ chamba'.estado = chamba.estado
          /\ chamba'.estado_previo = chamba.estado_previo
      BY <1>2, <1>7
         DEF Validar, EvidenciaEntrada, EvidenciaSalida, ConfirmarPago, Escribe, ChambaRow
    <2>2. PICK row : row = chamba'
      OBVIOUS
    <2>3. QED BY <1>1, <2>1, <2>2, PausaPaso
  <1>8. ASSUME NEW h \in Hilos, (\E u \in Partes : Leer(h, u)) \/ Responder(h)
        PROVE  PausaEnSerie'
    BY <1>8 DEF Leer, Responder, PausaEnSerie
  <1>9. QED BY <1>3, <1>4, <1>5, <1>6, <1>7, <1>8 DEF Next

\* Until a request commits on a row that had changed, estado_previo is set
\* exactly while the works are paused.
THEOREM PausaRecordada == Spec => []PausaEnSerie
  <1>1. Init => PausaEnSerie
    BY DEF Init, PausaEnSerie
  <1>2. IInv /\ PausaEnSerie /\ [Next]_vars => PausaEnSerie'
    <2>1. ASSUME PausaEnSerie, UNCHANGED vars PROVE PausaEnSerie'
      BY <2>1 DEF vars, PausaEnSerie
    <2>2. QED BY <2>1, PausaEnCadaPaso
  <1>3. QED BY <1>1, <1>2, Invariante, PTL DEF Spec

\* Until then, a chamba that was rated never changes again.
THEOREM Congelada == Spec => CongeladaEnSerie
  <1>1. ASSUME IInv, Next, chamba.estado = "finalizada", ~obsoleta'
        PROVE  chamba' = chamba
    <2>1. SUFFICES ASSUME NEW h \in Hilos, chamba' # chamba,
                          \/ \E e \in EstadoChamba : Reanudar(h, e)
                          \/ \E p \in Posiciones : IniciarObra(h, p)
                          \/ Ejecutar(h) \/ SolicitarCierre(h) \/ Liquidar(h)
                          \/ Pausar(h) \/ Validar(h)
                          \/ EvidenciaEntrada(h) \/ EvidenciaSalida(h)
                          \/ \E m \in MontosFinales \cup {Nada} : ConfirmarPago(h, m)
                          \/ Calificar(h)
                   PROVE  peticion[h].foto.estado # "finalizada" /\ Escribe(h, chamba')
      <3>1. ASSUME NEW h \in Hilos, Escribe(h, chamba') PROVE peticion[h].foto.estado = "finalizada"
        <4>1. PICK row : row = chamba'
          OBVIOUS
        <4>2. QED BY <1>1, <3>1, <4>1, FotoVigente
      <3>2. QED BY <1>1, <3>1 DEF Next, Leer, Responder
    <2>2. Escribe(h, chamba')
      BY <2>1 DEF Reanudar, IniciarObra, Ejecutar, SolicitarCierre, Liquidar, Pausar,
                  Validar, EvidenciaEntrada, EvidenciaSalida, ConfirmarPago, Calificar, Escribe
    <2>3. ASSUME NEW e, Transita(h, e) PROVE peticion[h].foto.estado # "finalizada"
      BY <1>1, <2>3, TransitaDesde
    <2>4. QED
      BY <2>1, <2>2, <2>3 DEF Reanudar, IniciarObra, Ejecutar, SolicitarCierre, Liquidar,
            Pausar, Validar, EvidenciaEntrada, EvidenciaSalida, ConfirmarPago, Calificar
  <1>2. IInv /\ [Next]_vars =>
            [(chamba.estado = "finalizada" /\ ~obsoleta') => chamba' = chamba]_vars
    BY <1>1
  <1>3. QED BY <1>2, Invariante, PTL DEF Spec, CongeladaEnSerie
-----------------------------------------------------------------------------
(* The handlers implement HitosChamba *)

\* The commit sets the column of the milestone x and no other.
Avanza(x) ==
    /\ chamba'.inicio_obra <=> (chamba.inicio_obra \/ x = "inicio")
    /\ chamba'.evidencia_salida <=> (chamba.evidencia_salida \/ x = "evidencia")
    /\ chamba'.solicitud_cierre <=> (chamba.solicitud_cierre \/ x = "cierre")
    /\ chamba'.validacion <=> (chamba.validacion \/ x = "validacion")
    /\ chamba'.pago_solicitante <=> (chamba.pago_solicitante \/ x = "pago_solicitante")
    /\ chamba'.pago_prestador <=> (chamba.pago_prestador \/ x = "pago_prestador")
    /\ chamba'.liquidacion <=> (chamba.liquidacion \/ x = "liquidacion")
    /\ chamba'.finalizacion <=> (chamba.finalizacion \/ x = "final")

\* A milestone is on a row exactly when its column says so.
LEMMA HitosDeLaFila ==
    ASSUME NEW row
    PROVE  /\ HitosDe(row) \subseteq Hitos!Hito
           /\ "inicio" \in HitosDe(row) <=> row.inicio_obra
           /\ "evidencia" \in HitosDe(row) <=> row.evidencia_salida
           /\ "cierre" \in HitosDe(row) <=> row.solicitud_cierre
           /\ "validacion" \in HitosDe(row) <=> row.validacion
           /\ "pago_solicitante" \in HitosDe(row) <=> row.pago_solicitante
           /\ "pago_prestador" \in HitosDe(row) <=> row.pago_prestador
           /\ "liquidacion" \in HitosDe(row) <=> row.liquidacion
           /\ "final" \in HitosDe(row) <=> row.finalizacion
  BY DEF HitosDe, Marcas, Hitos!Hito

LEMMA SinHito ==
    ASSUME NEW row, Marcas(row) = Marcas(chamba)
    PROVE  HitosDe(row) = HitosDe(chamba)
  BY DEF HitosDe

\* A commit that sets the column of x on a row that has what x requires is a
\* step of HitosChamba.
LEMMA PasoConHito ==
    ASSUME NEW x \in Hitos!Hito, Avanza(x), Hitos!Requiere[x] \subseteq HitosDe(chamba)
    PROVE  Hitos!Next
  <1>1. ASSUME NEW y \in Hitos!Hito
        PROVE  y \in HitosDe(chamba') <=> (y \in HitosDe(chamba) \/ y = x)
    BY HitosDeLaFila DEF Avanza, Hitos!Hito
  <1>2. HitosDe(chamba') \subseteq Hitos!Hito /\ HitosDe(chamba) \subseteq Hitos!Hito
    BY HitosDeLaFila
  <1>3. HitosDe(chamba') = HitosDe(chamba) \cup {x}
    BY <1>1, <1>2
  <1>4. QED BY <1>3 DEF Hitos!Next, Hitos!Alcanza

LEMMA CadaPasoCumple ==
    ASSUME IInv, Next
    PROVE  Hitos!Next \/ HitosDe(chamba') = HitosDe(chamba)
  <1>1. SUFFICES ASSUME NEW h \in Hilos,
                        \/ \E u \in Partes : Leer(h, u)
                        \/ Responder(h)
                        \/ \E e \in EstadoChamba : Reanudar(h, e)
                        \/ \E p \in Posiciones : IniciarObra(h, p)
                        \/ Ejecutar(h)
                        \/ SolicitarCierre(h)
                        \/ Liquidar(h)
                        \/ Pausar(h)
                        \/ Validar(h)
                        \/ EvidenciaEntrada(h)
                        \/ EvidenciaSalida(h)
                        \/ \E m \in MontosFinales \cup {Nada} : ConfirmarPago(h, m)
                        \/ Calificar(h)
                 PROVE  Hitos!Next \/ HitosDe(chamba') = HitosDe(chamba)
    BY DEF Next
  <1>2. chamba \in ChambaRow /\ HitosEnOrden /\ FotosFieles
    BY DEF IInv, TypeOK
  <1>3. CASE (\E u \in Partes : Leer(h, u)) \/ Responder(h)
    BY <1>3 DEF Leer, Responder
  <1>4. CASE (\E e \in EstadoChamba : Reanudar(h, e)) \/ Ejecutar(h) \/ Pausar(h)
             \/ EvidenciaEntrada(h)
    <2>1. Marcas(chamba') = Marcas(chamba)
      BY <1>2, <1>4 DEF Reanudar, Ejecutar, Pausar, EvidenciaEntrada, Escribe, Marcas,
                        ChambaRow
    <2>2. QED BY <2>1, SinHito
  <1>5. CASE \E p \in Posiciones : IniciarObra(h, p)
    <2>1. Avanza("inicio")
      BY <1>2, <1>5 DEF IniciarObra, Escribe, Avanza, ChambaRow
    <2>2. Hitos!Requiere["inicio"] \subseteq HitosDe(chamba) /\ "inicio" \in Hitos!Hito
      BY DEF Hitos!Requiere, Hitos!Hito
    <2>3. QED BY <2>1, <2>2, PasoConHito
  <1>6. CASE SolicitarCierre(h)
    <2>1. Avanza("cierre")
      BY <1>2, <1>6 DEF SolicitarCierre, Escribe, Avanza, ChambaRow
    <2>2. chamba.inicio_obra /\ chamba.evidencia_salida
      BY <1>2, <1>6, TransitaDesde DEF SolicitarCierre, FotosFieles
    <2>3. Hitos!Requiere["cierre"] \subseteq HitosDe(chamba) /\ "cierre" \in Hitos!Hito
      BY <2>2, HitosDeLaFila DEF Hitos!Requiere, Hitos!Hito
    <2>4. QED BY <2>1, <2>3, PasoConHito
  <1>7. CASE Liquidar(h)
    <2>1. Avanza("liquidacion")
      BY <1>2, <1>7 DEF Liquidar, Escribe, Avanza, ChambaRow
    <2>2. /\ chamba.solicitud_cierre
          /\ chamba.pago_solicitante
          /\ chamba.pago_prestador
      BY <1>2, <1>7, TransitaDesde DEF Liquidar, FotosFieles, HitosEnOrden
    <2>3. /\ Hitos!Requiere["liquidacion"] \subseteq HitosDe(chamba)
          /\ "liquidacion" \in Hitos!Hito
      BY <2>2, HitosDeLaFila DEF Hitos!Requiere, Hitos!Hito
    <2>4. QED BY <2>1, <2>3, PasoConHito
  <1>8. CASE Validar(h)
    <2>1. Avanza("validacion")
      BY <1>2, <1>8 DEF Validar, Escribe, Avanza, ChambaRow
    <2>2. chamba.solicitud_cierre
      BY <1>2, <1>8 DEF Validar, FotosFieles
    <2>3. /\ Hitos!Requiere["validacion"] \subseteq HitosDe(chamba)
          /\ "validacion" \in Hitos!Hito
      BY <2>2, HitosDeLaFila DEF Hitos!Requiere, Hitos!Hito
    <2>4. QED BY <2>1, <2>3, PasoConHito
  <1>9. CASE EvidenciaSalida(h)
    <2>1. Avanza("evidencia")
      BY <1>2, <1>9 DEF EvidenciaSalida, Escribe, Avanza, ChambaRow
    <2>2. chamba.inicio_obra
      BY <1>2, <1>9 DEF EvidenciaSalida, FotosFieles
    <2>3. /\ Hitos!Requiere["evidencia"] \subseteq HitosDe(chamba)
          /\ "evidencia" \in Hitos!Hito
      BY <2>2, HitosDeLaFila DEF Hitos!Requiere, Hitos!Hito
    <2>4. QED BY <2>1, <2>3, PasoConHito
  <1>10. CASE \E m \in MontosFinales \cup {Nada} : ConfirmarPago(h, m)
    <2>1. PICK m \in MontosFinales \cup {Nada} : ConfirmarPago(h, m)
      BY <1>10
    <2>2. chamba.solicitud_cierre
      BY <1>2, <2>1 DEF ConfirmarPago, FotosFieles, HitosEnOrden
    <2>3. peticion[h].usuario \in {Solicitante, Prestador}
      BY <2>1, FotoTipos DEF ConfirmarPago, IInv, Partes
    <2>4. CASE peticion[h].usuario = Solicitante
      <3>1. Avanza("pago_solicitante")
        BY <1>2, <2>1, <2>4 DEF ConfirmarPago, Escribe, Avanza, ChambaRow
      <3>2. /\ Hitos!Requiere["pago_solicitante"] \subseteq HitosDe(chamba)
            /\ "pago_solicitante" \in Hitos!Hito
        BY <2>2, HitosDeLaFila DEF Hitos!Requiere, Hitos!Hito
      <3>3. QED BY <3>1, <3>2, PasoConHito
    <2>5. CASE peticion[h].usuario # Solicitante /\ peticion[h].usuario = Prestador
      <3>1. Avanza("pago_prestador")
        BY <1>2, <2>1, <2>5 DEF ConfirmarPago, Escribe, Avanza, ChambaRow
      <3>2. /\ Hitos!Requiere["pago_prestador"] \subseteq HitosDe(chamba)
            /\ "pago_prestador" \in Hitos!Hito
        BY <2>2, HitosDeLaFila DEF Hitos!Requiere, Hitos!Hito
      <3>3. QED BY <3>1, <3>2, PasoConHito
    <2>6. QED BY <2>3, <2>4, <2>5
  <1>11. CASE Calificar(h)
    <2>1. Avanza("final")
      BY <1>2, <1>11 DEF Calificar, Escribe, Avanza, ChambaRow
    <2>2. chamba.liquidacion
      BY <1>2, <1>11 DEF Calificar, FotosFieles
    <2>3. Hitos!Requiere["final"] \subseteq HitosDe(chamba) /\ "final" \in Hitos!Hito
      BY <2>2, HitosDeLaFila DEF Hitos!Requiere, Hitos!Hito
    <2>4. QED BY <2>1, <2>3, PasoConHito
  <1>12. QED BY <1>1, <1>3, <1>4, <1>5, <1>6, <1>7, <1>8, <1>9, <1>10, <1>11

\* Any number of racing requests together implement the abstract execution:
\* each commit reaches one milestone whose requirements are met, or none, and
\* no commit undoes one.
THEOREM Cumple == Spec => HitosCumplidos
  <1>1. Init => Hitos!Init
    BY DEF Init, Hitos!Init, HitosDe, Marcas
  <1>2. IInv /\ [Next]_vars => [Hitos!Next]_(HitosDe(chamba))
    <2>1. ASSUME IInv, Next PROVE Hitos!Next \/ HitosDe(chamba') = HitosDe(chamba)
      BY <2>1, CadaPasoCumple
    <2>2. ASSUME UNCHANGED vars PROVE HitosDe(chamba') = HitosDe(chamba)
      BY <2>2 DEF vars
    <2>3. HitosDe(chamba)' = HitosDe(chamba')
      BY DEF HitosDe, Marcas
    <2>4. QED BY <2>1, <2>2, <2>3
  <1>3. QED BY <1>1, <1>2, Invariante, PTL DEF Spec, HitosCumplidos, Hitos!Spec
=============================================================================
