------------------------- MODULE ContratacionProofs -------------------------
(***************************************************************************)
(* Proofs about Contratacion for any number of users, solicitudes, ofertas *)
(* and contracts, any amounts, thresholds and initial wallets.             *)
(***************************************************************************)
EXTENDS Contratacion, TLAPS

\* A commission is never negative and never more than a positive price.
LEMMA ComisionAcotada ==
    ASSUME NEW modalidad, NEW monto \in Int
    PROVE  /\ Comision(modalidad, monto) \in Int
           /\ Comision(modalidad, monto) >= 0
           /\ monto > 0 => Comision(modalidad, monto) <= monto
  <1> USE UmbralNat DEF Comision
  <1>1. CASE modalidad = "A_comision" /\ monto >= UmbralComision
    <2>1. monto >= 0 BY <1>1
    <2> DEFINE c == (12 * monto) \div 100
    <2>2. c \in Int /\ c >= 0 /\ c <= monto BY <2>1
    <2>3. QED BY <1>1, <2>2
  <1>2. CASE ~(modalidad = "A_comision" /\ monto >= UmbralComision)
    BY <1>2
  <1>3. QED BY <1>1, <1>2

\* The amount and the commission of a settlement are integers, 0 <= c <= m.
LEMMA MontosDeLiquidacion ==
    ASSUME TypeOK, Referencias, NEW k \in Contratos, Existe(contratos[k])
    PROVE  /\ MontoTotal(k) \in Int
           /\ ComisionDe(k) \in Int
           /\ ComisionDe(k) >= 0
           /\ MontoTotal(k) > 0 => ComisionDe(k) <= MontoTotal(k)
  <1>1. contratos[k].solicitud \in Solicitudes BY DEF Referencias
  <1>2. solicitudes[contratos[k].solicitud].presupuesto \in Monto
    BY <1>1 DEF TypeOK, SolicitudRow
  <1>3. MontoTotal(k) \in Int BY <1>2 DEF MontoTotal, Monto
  <1>4. QED BY <1>3, ComisionAcotada DEF ComisionDe

LEMMA TiposAlInicio == Init => TypeOK
  <1> SUFFICES ASSUME Init PROVE TypeOK
    OBVIOUS
  <1> USE DEF Init
  <1>1. solicitudes \in [Solicitudes -> SolicitudRow]
    BY DEF SinSolicitud, SolicitudRow, Modalidad, Monto
  <1>2. ofertas \in [Ofertas -> OfertaRow]
    BY DEF SinOferta, OfertaRow, Monto
  <1>3. contratos \in [Contratos -> ContratoRow]
    BY DEF SinContrato, ContratoRow
  <1>4. saldo \in [Usuarios -> Monto] /\ monedas \in [Usuarios -> Int]
    <2>1. SaldosIniciales \subseteq Monto /\ MonedasIniciales \subseteq Int
      BY InicialesNaturales DEF Monto
    <2>2. QED BY <2>1
  <1>5. pagos \in [Contratos -> PagoRow] /\ trato \in [Contratos -> TratoRow]
    BY DEF SinPago, PagoRow, SinTrato, TratoRow, Monto
  <1>6. QED BY <1>1, <1>2, <1>3, <1>4, <1>5 DEF TypeOK

(* Types: one lemma per group of actions. *)

LEMMA TiposSolicitud == TypeOK /\ NextSolicitud => TypeOK'
  <1> SUFFICES ASSUME TypeOK, NextSolicitud PROVE TypeOK'
    OBVIOUS
  <1>1. UNCHANGED <<ofertas, contratos, chambas, saldo, monedas, pagos, trato>>
    BY DEF NextSolicitud, PublicarSolicitud, CambiarEstadoSolicitud,
           ModerarSolicitud, DefinirModalidad
  <1>2. solicitudes' \in [Solicitudes -> SolicitudRow]
    <2> USE DEF TypeOK, SolicitudRow, Modalidad, EstadoSolicitud
    <2>1. ASSUME NEW u \in Usuarios, NEW s \in Solicitudes, NEW m \in Montos \cup {Nada},
                 PublicarSolicitud(u, s, m)
          PROVE  solicitudes' \in [Solicitudes -> SolicitudRow]
      BY <2>1, MontosEnteros DEF PublicarSolicitud, Monto
    <2>2. ASSUME NEW u \in Usuarios, NEW s \in Solicitudes, NEW e \in EstadosManuales,
                 CambiarEstadoSolicitud(u, s, e) \/ ModerarSolicitud(s, e)
          PROVE  solicitudes' \in [Solicitudes -> SolicitudRow]
      <3>1. e \in EstadoSolicitud
        BY ManualesEstado
      <3>2. solicitudes' = [solicitudes EXCEPT ![s].estado = e]
        BY <2>2 DEF CambiarEstadoSolicitud, ModerarSolicitud
      <3>3. QED BY <3>1, <3>2
    <2>3. ASSUME NEW u \in Usuarios, NEW s \in Solicitudes, NEW t \in TipoModalidad,
                 DefinirModalidad(u, s, t)
          PROVE  solicitudes' \in [Solicitudes -> SolicitudRow]
      BY <2>3 DEF DefinirModalidad
    <2>4. QED BY <2>1, <2>2, <2>3 DEF NextSolicitud
  <1>3. QED BY <1>1, <1>2 DEF TypeOK

LEMMA TiposFormalizar ==
    ASSUME TypeOK, Referencias, NEW o \in Ofertas, NEW k \in Contratos,
           NEW porContra \in BOOLEAN, Existe(ofertas[o]), Formalizar(o, k, porContra)
    PROVE  TypeOK'
  <1> DEFINE s == ofertas[o].solicitud
             p == ofertas[o].pds
             m == MontoAcordado(o, porContra)
             c == MonedasAlAceptar(s)
  <1>1. s \in Solicitudes /\ p \in Usuarios
    BY DEF Referencias
  <1>2. m \in Monto
    BY <1>1 DEF MontoAcordado, TypeOK, OfertaRow, SolicitudRow
  <1>3. c \in Nat
    BY DEF MonedasAlAceptar, MonedasModalidadB
  <1>4. solicitudes' \in [Solicitudes -> SolicitudRow]
    <2>1. solicitudes' = [solicitudes EXCEPT
                ![s].presupuesto = IF m # Nada THEN m ELSE @,
                ![s].modalidad = ModalidadEfectiva(@)]
      BY DEF Formalizar
    <2> HIDE DEF s, m
    <2>2. QED BY <1>1, <1>2, <2>1
            DEF TypeOK, SolicitudRow, Modalidad, TipoModalidad, ModalidadEfectiva
  <1>5. ofertas' \in [Ofertas -> OfertaRow]
    BY DEF Formalizar, TrasAceptar, TypeOK, OfertaRow, EstadoOferta
  <1>6. contratos' \in [Contratos -> ContratoRow]
    BY <1>1 DEF Formalizar, SinContrato, TypeOK, ContratoRow, EstadoContrato
  <1>7. monedas' \in [Usuarios -> Int]
    BY <1>1, <1>3 DEF Formalizar, TypeOK
  <1>8. trato' \in [Contratos -> TratoRow]
    <2>1. trato' = [trato EXCEPT ![k] =
                [monto |-> m, quien |-> IF porContra THEN "pds" ELSE "solicitante",
                 contraofertada |-> ofertas[o].estado = "contraoferta"]]
      BY DEF Formalizar
    <2> HIDE DEF m
    <2>2. QED BY <1>2, <2>1 DEF TypeOK, TratoRow
  <1>9. QED BY <1>4, <1>5, <1>6, <1>7, <1>8 DEF Formalizar, TypeOK

LEMMA TiposOferta == TypeOK /\ Referencias /\ NextOferta => TypeOK'
  <1> SUFFICES ASSUME TypeOK, Referencias, NextOferta PROVE TypeOK'
    OBVIOUS
  <1>1. ASSUME NEW u \in Usuarios, NEW s \in Solicitudes, NEW o \in Ofertas,
               NEW m \in Montos \cup {Nada}, Ofertar(u, s, o, m)
        PROVE  TypeOK'
    <2>1. ofertas' \in [Ofertas -> OfertaRow]
      BY <1>1, MontosEnteros DEF Ofertar, TypeOK, OfertaRow, EstadoOferta, Monto
    <2>2. QED BY <1>1, <2>1 DEF Ofertar, TypeOK
  <1>2. CASE CambiaMes
    <2>1. ofertas' \in [Ofertas -> OfertaRow]
      BY <1>2 DEF CambiaMes, TypeOK, OfertaRow
    <2>2. QED BY <1>2, <2>1 DEF CambiaMes, TypeOK
  <1>3. ASSUME NEW u \in Usuarios, NEW o \in Ofertas, NEW k \in Contratos,
               AceptarOferta(u, o, k) \/ AceptarContraoferta(u, o, k)
        PROVE  TypeOK'
    BY <1>3, TiposFormalizar DEF AceptarOferta, AceptarContraoferta
  <1>4. ASSUME NEW u \in Usuarios, NEW o \in Ofertas, RechazarOferta(u, o)
        PROVE  TypeOK'
    <2>1. ofertas' \in [Ofertas -> OfertaRow]
      BY <1>4 DEF RechazarOferta, TypeOK, OfertaRow, EstadoOferta
    <2>2. QED BY <1>4, <2>1 DEF RechazarOferta, TypeOK
  <1>5. ASSUME NEW u \in Usuarios, NEW o \in Ofertas, NEW m \in Montos \cup {Nada},
               Contraofertar(u, o, m)
        PROVE  TypeOK'
    <2>1. ofertas' \in [Ofertas -> OfertaRow]
      <3>1. m \in Monto
        BY MontosEnteros DEF Monto
      <3>2. ofertas' = [ofertas EXCEPT ![o].estado = "contraoferta", ![o].contra = m]
        BY <1>5 DEF Contraofertar
      <3>3. QED BY <3>1, <3>2 DEF TypeOK, OfertaRow, EstadoOferta
    <2>2. QED BY <1>5, <2>1 DEF Contraofertar, TypeOK
  <1>6. QED BY <1>1, <1>2, <1>3, <1>4, <1>5 DEF NextOferta

LEMMA TiposLiquidar ==
    ASSUME TypeOK, Referencias, NEW k \in Contratos, Existe(contratos[k]),
           PagoProcede(k), Liquidar(k)
    PROVE  /\ saldo' \in [Usuarios -> Monto]
           /\ monedas' \in [Usuarios -> Int]
           /\ pagos' \in [Contratos -> PagoRow]
  <1> DEFINE p == contratos[k].proveedor
             c == ComisionDe(k)
             m == MontoTotal(k)
  <1>1. p \in Usuarios
    BY DEF Referencias
  <1>2. m \in Int /\ c \in Int
    BY MontosDeLiquidacion
  <1>3. /\ saldo' = [saldo EXCEPT ![p] = (IF @ = Nada THEN 0 ELSE @) - c + (m - c)]
        /\ monedas' = [monedas EXCEPT ![p] = @ + MonedasGanadas]
        /\ pagos' = [pagos EXCEPT ![k] =
                [veces |-> @.veces + 1, neto |-> @.neto + (m - c),
                 comision |-> @.comision + c]]
    BY DEF Liquidar
  <1> HIDE DEF p, c, m
  <1>4. saldo' \in [Usuarios -> Monto]
    BY <1>1, <1>2, <1>3 DEF TypeOK, Monto
  <1>5. monedas' \in [Usuarios -> Int]
    BY <1>1, <1>3 DEF TypeOK, MonedasGanadas
  <1>6. pagos' \in [Contratos -> PagoRow]
    BY <1>2, <1>3 DEF TypeOK, PagoRow
  <1>7. QED BY <1>4, <1>5, <1>6

LEMMA TiposContrato == TypeOK /\ Referencias /\ NextContrato => TypeOK'
  <1> SUFFICES ASSUME TypeOK, Referencias, NextContrato PROVE TypeOK'
    OBVIOUS
  <1> USE DEF ContratoRow, EstadoContrato
  <1>0. /\ contratos \in [Contratos -> ContratoRow]
        /\ solicitudes \in [Solicitudes -> SolicitudRow]
    BY DEF TypeOK
  <1>1. ASSUME NEW u \in Usuarios, NEW p \in Usuarios, NEW s \in Solicitudes,
               NEW k \in Contratos, CrearContrato(u, s, p, k)
        PROVE  TypeOK'
    <2>1. contratos' \in [Contratos -> ContratoRow]
      BY <1>1 DEF CrearContrato, TypeOK, SinContrato
    <2>2. solicitudes[s].presupuesto \in Monto
      BY DEF TypeOK, SolicitudRow
    <2>3. trato' \in [Contratos -> TratoRow]
      BY <1>1, <2>2 DEF CrearContrato, TypeOK, TratoRow
    <2>4. QED BY <1>1, <2>1, <2>3 DEF CrearContrato, TypeOK
  <1>2. ASSUME NEW u \in Usuarios, NEW k \in Contratos,
               FirmarContrato(u, k) \/ CompletarContrato(u, k)
        PROVE  TypeOK'
    <2>1. contratos' \in [Contratos -> ContratoRow]
      <3>1. CASE FirmarContrato(u, k)
        <4>1. contratos' = [contratos EXCEPT ![k].estado = "en_progreso",
                                             ![k].inicio_en = TRUE]
          BY <3>1 DEF FirmarContrato
        <4>2. QED BY <1>0, <4>1
      <3>2. CASE CompletarContrato(u, k)
        <4>1. contratos' = [contratos EXCEPT ![k].estado = "completado_pendiente",
                                             ![k].fin_en = TRUE]
          BY <3>2 DEF CompletarContrato
        <4>2. QED BY <1>0, <4>1
      <3>3. QED BY <1>2, <3>1, <3>2
    <2>2. solicitudes' \in [Solicitudes -> SolicitudRow]
      <3> DEFINE s == contratos[k].solicitud
      <3>1. \E e \in EstadoSolicitud : solicitudes' = [solicitudes EXCEPT ![s].estado = e]
        BY <1>2 DEF FirmarContrato, CompletarContrato, EstadoSolicitud
      <3> HIDE DEF s
      <3>2. QED BY <1>0, <3>1 DEF SolicitudRow
    <2>3. chambas' \in SUBSET Contratos
      BY <1>2 DEF FirmarContrato, CompletarContrato, TypeOK
    <2>4. QED BY <1>2, <2>1, <2>2, <2>3 DEF FirmarContrato, CompletarContrato, TypeOK
  <1>3. ASSUME NEW u \in Usuarios, NEW k \in Contratos, ConfirmarContrato(u, k)
        PROVE  TypeOK'
    <2>1. contratos' \in [Contratos -> ContratoRow]
      <3>1. contratos' = [contratos EXCEPT ![k].estado = "completado",
                                           ![k].confirmado_en = TRUE]
        BY <1>3 DEF ConfirmarContrato
      <3>2. QED BY <1>0, <3>1
    <2>2. solicitudes' \in [Solicitudes -> SolicitudRow]
      <3> DEFINE s == contratos[k].solicitud
      <3>1. solicitudes' = [solicitudes EXCEPT ![s].modalidad = ModalidadEfectiva(@)]
        BY <1>3 DEF ConfirmarContrato
      <3> HIDE DEF s
      <3>2. QED BY <1>0, <3>1 DEF SolicitudRow, Modalidad, TipoModalidad,
                            ModalidadEfectiva
    <2>3. Existe(contratos[k])
      BY <1>3 DEF ConfirmarContrato, Existe
    <2>4. /\ saldo' \in [Usuarios -> Monto]
          /\ monedas' \in [Usuarios -> Int]
          /\ pagos' \in [Contratos -> PagoRow]
      <3>1. CASE PagoProcede(k) /\ Liquidar(k)
        BY <2>3, <3>1, TiposLiquidar
      <3>2. CASE UNCHANGED <<saldo, monedas, pagos>>
        BY <3>2 DEF TypeOK
      <3>3. QED BY <1>3, <3>1, <3>2 DEF ConfirmarContrato
    <2>5. QED BY <1>3, <2>1, <2>2, <2>4 DEF ConfirmarContrato, TypeOK
  <1>4. ASSUME NEW u \in Usuarios, NEW k \in Contratos, CancelarContrato(u, k)
        PROVE  TypeOK'
    <2>1. contratos' \in [Contratos -> ContratoRow]
      <3>1. contratos' = [contratos EXCEPT ![k].estado = "cancelado"]
        BY <1>4 DEF CancelarContrato
      <3>2. QED BY <1>0, <3>1
    <2>2. QED BY <1>4, <2>1 DEF CancelarContrato, TypeOK
  <1>5. ASSUME NEW k \in Contratos, NEW e \in EstadoContrato,
               ModerarContrato(k, e) \/ ForzarContrato(k, e)
        PROVE  TypeOK'
    <2>1. contratos' \in [Contratos -> ContratoRow]
      <3>1. contratos' = [contratos EXCEPT ![k].estado = e]
        BY <1>5 DEF ModerarContrato, ForzarContrato
      <3>2. QED BY <1>0, <3>1
    <2>2. QED BY <1>5, <2>1 DEF ModerarContrato, ForzarContrato, TypeOK
  <1>6. ASSUME NEW u \in Usuarios, NEW k \in Contratos, CrearChamba(u, k)
        PROVE  TypeOK'
    BY <1>6 DEF CrearChamba, TypeOK
  <1>7. QED BY <1>1, <1>2, <1>3, <1>4, <1>5, <1>6 DEF NextContrato

LEMMA TiposEnCadaPaso == TypeOK /\ Referencias /\ [Next]_vars => TypeOK'
  <1>1. CASE Next
    BY <1>1, TiposSolicitud, TiposOferta, TiposContrato DEF Next
  <1>2. CASE UNCHANGED vars
    BY <1>2 DEF vars, TypeOK
  <1>3. QED BY <1>1, <1>2
-----------------------------------------------------------------------------
(* What a step does to one contract: the effects the invariants and the    *)
(* refinement are argued from.                                             *)

Quieto(k) == contratos'[k] = contratos[k] /\ pagos'[k] = pagos[k]

NaceContrato(k) ==
    /\ ~Existe(contratos[k])
    /\ pagos'[k] = pagos[k]
    /\ \E s \in Solicitudes, p \in Usuarios :
        contratos'[k] = [SinContrato EXCEPT !.estado = "pendiente",
                                            !.solicitud = s, !.proveedor = p]

SeFirma(k) ==
    /\ contratos[k].estado = "pendiente"
    /\ contratos'[k] = [contratos[k] EXCEPT !.estado = "en_progreso", !.inicio_en = TRUE]
    /\ pagos'[k] = pagos[k]
    /\ k \in chambas'

SeCompleta(k) ==
    /\ contratos[k].estado = "en_progreso"
    /\ contratos'[k] = [contratos[k] EXCEPT !.estado = "completado_pendiente",
                                            !.fin_en = TRUE]
    /\ pagos'[k] = pagos[k]

SeConfirma(k) ==
    /\ contratos[k].estado = "completado_pendiente"
    /\ contratos'[k] = [contratos[k] EXCEPT !.estado = "completado",
                                            !.confirmado_en = TRUE]
    /\ pagos'[k].veces \in {pagos[k].veces, pagos[k].veces + 1}

SeRetira(k) ==
    /\ Existe(contratos[k])
    /\ \E e \in {"completado", "cancelado", "marcado"} :
        contratos'[k] = [contratos[k] EXCEPT !.estado = e]
    /\ pagos'[k] = pagos[k]

Mueve(k) ==
    NaceContrato(k) \/ SeFirma(k) \/ SeCompleta(k) \/ SeConfirma(k) \/ SeRetira(k)

\* One handler moves at most one contract.
UnContrato ==
    \/ \A j \in Contratos : Quieto(j)
    \/ \E k \in Contratos : Mueve(k) /\ \A j \in Contratos \ {k} : Quieto(j)

\* Chambas are never deleted, and a new one belongs to an existing contract.
ChambasCrecen ==
    /\ chambas \subseteq chambas'
    /\ \A k \in chambas' \ chambas : Existe(contratos[k])

LEMMA PasoFormaliza ==
    ASSUME TypeOK, Referencias, NEW o \in Ofertas, NEW k \in Contratos,
           NEW porContra \in BOOLEAN, Existe(ofertas[o]), Formalizar(o, k, porContra)
    PROVE  UnContrato /\ ChambasCrecen
  <1> DEFINE s == ofertas[o].solicitud
             p == ofertas[o].pds
  <1>1. s \in Solicitudes /\ p \in Usuarios
    BY DEF Referencias
  <1>2. /\ ~Existe(contratos[k])
        /\ contratos' = [contratos EXCEPT ![k] =
                [SinContrato EXCEPT !.estado = "pendiente", !.solicitud = s,
                                    !.proveedor = p]]
        /\ UNCHANGED <<chambas, pagos>>
    BY DEF Formalizar
  <1>3. contratos \in [Contratos -> ContratoRow]
    BY DEF TypeOK
  <1> HIDE DEF s, p
  <1>4. NaceContrato(k)
    BY <1>1, <1>2, <1>3 DEF NaceContrato
  <1>5. \A j \in Contratos \ {k} : Quieto(j)
    BY <1>2, <1>3 DEF Quieto
  <1>6. QED BY <1>2, <1>4, <1>5 DEF UnContrato, Mueve, ChambasCrecen

LEMMA PasoContrato ==
    ASSUME TypeOK, Referencias, NextContrato
    PROVE  UnContrato /\ ChambasCrecen
  <1>0. /\ contratos \in [Contratos -> ContratoRow]
        /\ pagos \in [Contratos -> PagoRow]
    BY DEF TypeOK
  <1> USE <1>0
  <1>1. ASSUME NEW u \in Usuarios, NEW p \in Usuarios, NEW s \in Solicitudes,
               NEW k \in Contratos, CrearContrato(u, s, p, k)
        PROVE  UnContrato /\ ChambasCrecen
    <2>1. NaceContrato(k) /\ \A j \in Contratos \ {k} : Quieto(j)
      BY <1>1 DEF CrearContrato, NaceContrato, Quieto
    <2>2. QED BY <1>1, <2>1 DEF CrearContrato, UnContrato, Mueve, ChambasCrecen
  <1>2. ASSUME NEW u \in Usuarios, NEW k \in Contratos, FirmarContrato(u, k)
        PROVE  UnContrato /\ ChambasCrecen
    <2>1. SeFirma(k) /\ \A j \in Contratos \ {k} : Quieto(j)
      BY <1>2 DEF FirmarContrato, SeFirma, Quieto, ContratoRow
    <2>2. ChambasCrecen
      BY <1>2 DEF FirmarContrato, ChambasCrecen, Existe
    <2>3. QED BY <2>1, <2>2 DEF UnContrato, Mueve
  <1>3. ASSUME NEW u \in Usuarios, NEW k \in Contratos, CompletarContrato(u, k)
        PROVE  UnContrato /\ ChambasCrecen
    <2>1. SeCompleta(k) /\ \A j \in Contratos \ {k} : Quieto(j)
      BY <1>3 DEF CompletarContrato, SeCompleta, Quieto, ContratoRow
    <2>2. QED BY <1>3, <2>1 DEF CompletarContrato, UnContrato, Mueve, ChambasCrecen
  <1>4. ASSUME NEW u \in Usuarios, NEW k \in Contratos, ConfirmarContrato(u, k)
        PROVE  UnContrato /\ ChambasCrecen
    <2>1. /\ contratos[k].estado = "completado_pendiente"
          /\ contratos' = [contratos EXCEPT ![k].estado = "completado",
                                            ![k].confirmado_en = TRUE]
          /\ UNCHANGED chambas
          /\ Liquidar(k) \/ UNCHANGED pagos
      BY <1>4 DEF ConfirmarContrato
    <2>2. /\ pagos'[k].veces \in {pagos[k].veces, pagos[k].veces + 1}
          /\ \A j \in Contratos \ {k} : pagos'[j] = pagos[j]
      BY <2>1 DEF Liquidar
    <2>3. SeConfirma(k) /\ \A j \in Contratos \ {k} : Quieto(j)
      BY <2>1, <2>2 DEF SeConfirma, Quieto, ContratoRow
    <2>4. QED BY <2>1, <2>3 DEF UnContrato, Mueve, ChambasCrecen
  <1>5. ASSUME NEW u \in Usuarios, NEW k \in Contratos, CancelarContrato(u, k)
        PROVE  UnContrato /\ ChambasCrecen
    <2>1. SeRetira(k) /\ \A j \in Contratos \ {k} : Quieto(j)
      BY <1>5 DEF CancelarContrato, SeRetira, Quieto, ContratoRow
    <2>2. QED BY <1>5, <2>1 DEF CancelarContrato, UnContrato, Mueve, ChambasCrecen
  <1>6. ASSUME NEW k \in Contratos, NEW e \in EstadoContrato,
               ModerarContrato(k, e) \/ ForzarContrato(k, e)
        PROVE  UnContrato /\ ChambasCrecen
    <2>1. /\ Existe(contratos[k]) /\ e \in {"completado", "cancelado", "marcado"}
          /\ contratos' = [contratos EXCEPT ![k].estado = e]
          /\ UNCHANGED <<pagos, chambas>>
      BY <1>6 DEF ModerarContrato, ForzarContrato
    <2>2. SeRetira(k) /\ \A j \in Contratos \ {k} : Quieto(j)
      BY <2>1 DEF SeRetira, Quieto
    <2>3. QED BY <2>1, <2>2 DEF UnContrato, Mueve, ChambasCrecen
  <1>7. ASSUME NEW u \in Usuarios, NEW k \in Contratos, CrearChamba(u, k)
        PROVE  UnContrato /\ ChambasCrecen
    BY <1>7 DEF CrearChamba, UnContrato, Quieto, ChambasCrecen
  <1>8. QED BY <1>1, <1>2, <1>3, <1>4, <1>5, <1>6, <1>7 DEF NextContrato

LEMMA Paso ==
    ASSUME TypeOK, Referencias, [Next]_vars
    PROVE  UnContrato /\ ChambasCrecen
  <1>1. CASE UNCHANGED <<contratos, chambas, pagos>>
    BY <1>1 DEF UnContrato, Quieto, ChambasCrecen
  <1>2. CASE NextSolicitud
    BY <1>1, <1>2 DEF NextSolicitud, PublicarSolicitud, CambiarEstadoSolicitud,
                      ModerarSolicitud, DefinirModalidad
  <1>3. CASE NextOferta
    <2>1. ASSUME NEW u \in Usuarios, NEW o \in Ofertas, NEW k \in Contratos,
                 AceptarOferta(u, o, k) \/ AceptarContraoferta(u, o, k)
          PROVE  UnContrato /\ ChambasCrecen
      BY <2>1, PasoFormaliza DEF AceptarOferta, AceptarContraoferta
    <2>2. QED
      BY <1>1, <1>3, <2>1 DEF NextOferta, Ofertar, CambiaMes, RechazarOferta, Contraofertar
  <1>4. CASE NextContrato
    BY <1>4, PasoContrato
  <1>5. CASE UNCHANGED vars
    BY <1>1, <1>5 DEF vars
  <1>6. QED BY <1>2, <1>3, <1>4, <1>5 DEF Next
-----------------------------------------------------------------------------
(* The inductive invariant. *)

LEMMA InvAlInicio == Init => IInv
  <1> SUFFICES ASSUME Init PROVE IInv
    OBVIOUS
  <1>1. TypeOK
    BY TiposAlInicio
  <1>2. /\ \A k \in Contratos : contratos[k] = SinContrato /\ pagos[k] = SinPago
        /\ \A o \in Ofertas : ofertas[o] = SinOferta
        /\ chambas = {}
    BY DEF Init
  <1>3. Referencias
    BY <1>2 DEF Referencias, Existe, SinOferta, SinContrato
  <1>4. SellosDelEstado /\ FirmaEnOrden /\ PagoUnico
    <2>1. ASSUME NEW k \in Contratos
          PROVE  /\ contratos[k] = SinContrato /\ k \notin chambas
                 /\ contratos[k].estado = "inexistente" /\ ~contratos[k].confirmado_en
      <3>1. contratos[k] = SinContrato /\ k \notin chambas
        BY <1>2
      <3>2. SinContrato.estado = "inexistente"
        BY DEF SinContrato
      <3>3. ~SinContrato.confirmado_en
        BY DEF SinContrato
      <3>4. QED BY <3>1, <3>2, <3>3
    <2>2. SellosDelEstado
      BY <2>1 DEF SellosDelEstado
    <2>3. FirmaEnOrden
      BY <1>2 DEF FirmaEnOrden, SinContrato
    <2>4. PagoUnico
      BY <1>2 DEF PagoUnico, SinPago
    <2>5. QED BY <2>2, <2>3, <2>4
  <1>5. SinSobregiro
    <2>1. /\ saldo \in [Usuarios -> SaldosIniciales]
          /\ monedas \in [Usuarios -> MonedasIniciales]
      BY DEF Init
    <2>2. ASSUME NEW u \in Usuarios
          PROVE  (saldo[u] # Nada => saldo[u] >= 0) /\ monedas[u] >= 0
      <3>1. saldo[u] \in SaldosIniciales /\ monedas[u] \in MonedasIniciales
        BY <2>1
      <3>2. saldo[u] \in Nat \cup {Nada} /\ monedas[u] \in Nat
        BY <3>1, InicialesNaturales
      <3>3. QED BY <3>2
    <2>3. QED BY <2>2 DEF SinSobregiro
  <1>6. QED BY <1>1, <1>3, <1>4, <1>5 DEF IInv

\* A row that exists names an existing solicitud and a registered user.
LEMMA ReferenciasEnCadaPaso ==
    ASSUME TypeOK, Referencias, [Next]_vars
    PROVE  Referencias'
  <1>1. ASSUME NEW k \in Contratos, Existe(contratos[k])'
        PROVE  (contratos[k].solicitud \in Solicitudes /\ contratos[k].proveedor \in Usuarios)'
    <2> USE DEF Referencias, Existe
    <2>1. contratos \in [Contratos -> ContratoRow]
      BY DEF TypeOK
    <2>2. CASE Quieto(k)
      BY <1>1, <2>2 DEF Quieto
    <2>3. CASE NaceContrato(k)
      BY <2>3 DEF NaceContrato, SinContrato
    <2>4. CASE SeFirma(k) \/ SeCompleta(k) \/ SeConfirma(k) \/ SeRetira(k)
      <3>1. Existe(contratos[k])
        BY <2>4 DEF SeFirma, SeCompleta, SeConfirma, SeRetira
      <3>2. /\ contratos'[k].solicitud = contratos[k].solicitud
            /\ contratos'[k].proveedor = contratos[k].proveedor
        BY <2>1, <2>4 DEF SeFirma, SeCompleta, SeConfirma, SeRetira, ContratoRow
      <3>3. QED BY <3>1, <3>2
    <2>5. QED BY <2>2, <2>3, <2>4, Paso DEF UnContrato, Mueve
  <1>2. ASSUME NEW o \in Ofertas, Existe(ofertas[o])'
        PROVE  (ofertas[o].solicitud \in Solicitudes /\ ofertas[o].pds \in Usuarios)'
    <2> USE DEF Referencias, Existe
    <2>1. ofertas \in [Ofertas -> OfertaRow]
      BY DEF TypeOK
    <2>2. CASE UNCHANGED ofertas
      BY <1>2, <2>2
    <2>3. ASSUME NEW u \in Usuarios, NEW s \in Solicitudes, NEW x \in Ofertas,
                 NEW m \in Montos \cup {Nada}, Ofertar(u, s, x, m)
          PROVE  (ofertas[o].solicitud \in Solicitudes /\ ofertas[o].pds \in Usuarios)'
      BY <1>2, <2>1, <2>3 DEF Ofertar
    <2>4. CASE CambiaMes
      BY <1>2, <2>1, <2>4 DEF CambiaMes, OfertaRow
    <2>5. ASSUME NEW x \in Ofertas, Existe(ofertas[x]), ofertas' = TrasAceptar(x)
          PROVE  (ofertas[o].solicitud \in Solicitudes /\ ofertas[o].pds \in Usuarios)'
      BY <1>2, <2>1, <2>5 DEF TrasAceptar, OfertaRow, Abierta
    <2>6. ASSUME NEW u \in Usuarios, NEW x \in Ofertas, NEW m \in Montos \cup {Nada},
                 RechazarOferta(u, x) \/ Contraofertar(u, x, m)
          PROVE  (ofertas[o].solicitud \in Solicitudes /\ ofertas[o].pds \in Usuarios)'
      <3>1. Existe(ofertas[x])
        BY <2>6 DEF RechazarOferta, Contraofertar, NegociaOferta
      <3>2. \/ ofertas' = [ofertas EXCEPT ![x].estado = "rechazada"]
            \/ ofertas' = [ofertas EXCEPT ![x].estado = "contraoferta", ![x].contra = m]
        BY <2>6 DEF RechazarOferta, Contraofertar
      <3>3. QED BY <1>2, <2>1, <3>1, <3>2 DEF OfertaRow
    <2>7. CASE NextOferta
      <3>1. ASSUME NEW u \in Usuarios, NEW x \in Ofertas, NEW k \in Contratos,
                   AceptarOferta(u, x, k) \/ AceptarContraoferta(u, x, k)
            PROVE  Existe(ofertas[x]) /\ ofertas' = TrasAceptar(x)
        BY <3>1 DEF AceptarOferta, AceptarContraoferta, Formalizar
      <3>2. QED BY <2>3, <2>4, <2>5, <2>6, <2>7, <3>1 DEF NextOferta
    <2>8. CASE NextSolicitud
      BY <2>2, <2>8 DEF NextSolicitud, PublicarSolicitud, CambiarEstadoSolicitud,
                        ModerarSolicitud, DefinirModalidad
    <2>9. CASE NextContrato
      BY <2>2, <2>9 DEF NextContrato, CrearContrato, FirmarContrato, CompletarContrato,
                        ConfirmarContrato, CancelarContrato, CrearChamba, ModerarContrato,
                        ForzarContrato
    <2>10. CASE UNCHANGED vars
      BY <2>2, <2>10 DEF vars
    <2>11. QED BY <2>7, <2>8, <2>9, <2>10 DEF Next
  <1>3. QED BY <1>1, <1>2 DEF Referencias

\* The stamps and the payment of one contract, together, are preserved by
\* whatever a step does to it.
LEMMA SellosEnCadaPaso ==
    ASSUME TypeOK, Referencias, SellosDelEstado, FirmaEnOrden, PagoUnico, [Next]_vars
    PROVE  SellosDelEstado' /\ FirmaEnOrden' /\ PagoUnico'
  <1> DEFINE Sellos(k) ==
                /\ ~Existe(contratos[k]) => contratos[k] = SinContrato /\ k \notin chambas
                /\ contratos[k].estado = "en_progreso" => contratos[k].inicio_en
                /\ contratos[k].estado = "completado_pendiente" =>
                        contratos[k].inicio_en /\ contratos[k].fin_en
                /\ contratos[k].estado \in Activo => ~contratos[k].confirmado_en
             Orden(k) ==
                /\ contratos[k].confirmado_en => contratos[k].fin_en
                /\ contratos[k].fin_en => contratos[k].inicio_en
                /\ contratos[k].inicio_en => k \in chambas
             Pago(k) ==
                /\ pagos[k].veces <= 1
                /\ pagos[k].veces = 1 => contratos[k].confirmado_en
  <1>1. SUFFICES ASSUME NEW k \in Contratos
                 PROVE  Sellos(k)' /\ Orden(k)' /\ Pago(k)'
    BY DEF SellosDelEstado, FirmaEnOrden, PagoUnico
  <1>2. Sellos(k) /\ Orden(k) /\ Pago(k)
    BY DEF SellosDelEstado, FirmaEnOrden, PagoUnico
  <1>3. /\ contratos \in [Contratos -> ContratoRow]
        /\ pagos[k].veces \in Nat
    BY DEF TypeOK, PagoRow
  <1>4. chambas \subseteq chambas' /\ (k \in chambas' \ chambas => Existe(contratos[k]))
    BY Paso DEF ChambasCrecen
  <1> USE DEF Existe, Activo
  <1>5. CASE Quieto(k)
    BY <1>2, <1>4, <1>5 DEF Quieto
  <1>6. CASE NaceContrato(k)
    <2>1. contratos[k] = SinContrato /\ k \notin chambas
      BY <1>2, <1>6 DEF NaceContrato
    <2>2. /\ contratos'[k].estado = "pendiente"
          /\ contratos'[k].inicio_en = FALSE
          /\ contratos'[k].fin_en = FALSE
          /\ contratos'[k].confirmado_en = FALSE
      BY <1>6 DEF NaceContrato, SinContrato
    <2>3. pagos'[k].veces = 0
      <3>1. contratos[k].confirmado_en = FALSE
        BY <2>1 DEF SinContrato
      <3>2. QED BY <1>2, <1>3, <1>6, <3>1 DEF NaceContrato
    <2>4. QED BY <2>2, <2>3
  <1>7. CASE SeFirma(k)
    <2>1. /\ contratos'[k].estado = "en_progreso"
          /\ contratos'[k].inicio_en = TRUE
          /\ contratos'[k].fin_en = contratos[k].fin_en
          /\ contratos'[k].confirmado_en = contratos[k].confirmado_en
          /\ k \in chambas' /\ pagos'[k] = pagos[k]
      BY <1>3, <1>7 DEF SeFirma, ContratoRow
    <2>2. ~contratos[k].confirmado_en
      BY <1>2, <1>7 DEF SeFirma
    <2>3. QED BY <1>2, <2>1, <2>2
  <1>8. CASE SeCompleta(k)
    <2>1. /\ contratos'[k].estado = "completado_pendiente"
          /\ contratos'[k].inicio_en = contratos[k].inicio_en
          /\ contratos'[k].fin_en = TRUE
          /\ contratos'[k].confirmado_en = contratos[k].confirmado_en
          /\ pagos'[k] = pagos[k]
      BY <1>3, <1>8 DEF SeCompleta, ContratoRow
    <2>2. ~contratos[k].confirmado_en /\ contratos[k].inicio_en
      BY <1>2, <1>8 DEF SeCompleta
    <2>3. QED BY <1>2, <1>4, <2>1, <2>2
  <1>9. CASE SeConfirma(k)
    <2>1. /\ contratos'[k].estado = "completado"
          /\ contratos'[k].inicio_en = contratos[k].inicio_en
          /\ contratos'[k].fin_en = contratos[k].fin_en
          /\ contratos'[k].confirmado_en = TRUE
          /\ pagos'[k].veces \in {pagos[k].veces, pagos[k].veces + 1}
      BY <1>3, <1>9 DEF SeConfirma, ContratoRow
    <2>2. ~contratos[k].confirmado_en /\ contratos[k].inicio_en /\ contratos[k].fin_en
      BY <1>2, <1>9 DEF SeConfirma
    <2>3. pagos[k].veces = 0
      BY <1>2, <1>3, <2>2
    <2>4. QED BY <1>2, <1>4, <2>1, <2>2, <2>3
  <1>10. CASE SeRetira(k)
    <2>1. PICK e \in {"completado", "cancelado", "marcado"} :
            contratos'[k] = [contratos[k] EXCEPT !.estado = e]
      BY <1>10 DEF SeRetira
    <2>2. /\ contratos'[k].estado = e
          /\ contratos'[k].inicio_en = contratos[k].inicio_en
          /\ contratos'[k].fin_en = contratos[k].fin_en
          /\ contratos'[k].confirmado_en = contratos[k].confirmado_en
      BY <1>3, <2>1 DEF ContratoRow
    <2>3. pagos'[k] = pagos[k]
      BY <1>10 DEF SeRetira
    <2>4. QED BY <1>2, <1>4, <2>2, <2>3
  <1>11. QED
    BY <1>5, <1>6, <1>7, <1>8, <1>9, <1>10, Paso DEF UnContrato, Mueve

\* A settlement leaves at least nothing: the commission is covered by the
\* balance, and what is left of the price is never negative.
LEMMA SobregiroEnCadaPaso ==
    ASSUME TypeOK, Referencias, SinSobregiro, [Next]_vars
    PROVE  SinSobregiro'
  <1>0. saldo \in [Usuarios -> Monto] /\ monedas \in [Usuarios -> Int]
    BY DEF TypeOK
  <1>1. CASE UNCHANGED <<saldo, monedas>>
    BY <1>1 DEF SinSobregiro
  <1>2. ASSUME NEW o \in Ofertas, NEW k \in Contratos, NEW porContra \in BOOLEAN,
               Existe(ofertas[o]), Formalizar(o, k, porContra)
        PROVE  SinSobregiro'
    <2> DEFINE p == ofertas[o].pds
               c == MonedasAlAceptar(ofertas[o].solicitud)
    <2>1. p \in Usuarios
      BY <1>2 DEF Referencias
    <2>2. c \in Nat
      BY DEF MonedasAlAceptar, MonedasModalidadB
    <2>3. /\ monedas[p] >= c
          /\ monedas' = [monedas EXCEPT ![p] = @ - c]
          /\ saldo' = saldo
      BY <1>2 DEF Formalizar, MonedasBastan
    <2> HIDE DEF p, c
    <2>4. QED BY <1>0, <2>1, <2>2, <2>3 DEF SinSobregiro
  <1>3. ASSUME NEW k \in Contratos, Existe(contratos[k]), PagoProcede(k), Liquidar(k)
        PROVE  SinSobregiro'
    <2> DEFINE p == contratos[k].proveedor
               c == ComisionDe(k)
               m == MontoTotal(k)
               base == IF saldo[p] = Nada THEN 0 ELSE saldo[p]
    <2>1. p \in Usuarios
      BY <1>3 DEF Referencias
    <2>2. /\ saldo' = [saldo EXCEPT ![p] = base - c + (m - c)]
          /\ monedas' = [monedas EXCEPT ![p] = @ + MonedasGanadas]
      BY <1>3 DEF Liquidar
    <2>3. m \in Int /\ c \in Int /\ c >= 0 /\ m > 0 /\ c <= m
      BY <1>3, MontosDeLiquidacion DEF PagoProcede
    <2>4. base \in Int /\ base >= 0 /\ base >= c
      <3>1. saldo[p] \in Monto /\ (saldo[p] # Nada => saldo[p] >= 0)
        BY <1>0, <2>1 DEF SinSobregiro
      <3>2. c > 0 => saldo[p] # Nada /\ saldo[p] >= c
        BY <1>3 DEF PagoProcede
      <3> HIDE DEF c, p
      <3>3. QED BY <2>3, <3>1, <3>2 DEF Monto
    <2> HIDE DEF p, c, m, base
    <2>5. base - c + (m - c) \in Int /\ base - c + (m - c) >= 0
      BY <2>3, <2>4
    <2>6. ASSUME NEW u \in Usuarios
          PROVE  (saldo'[u] # Nada => saldo'[u] >= 0) /\ monedas'[u] >= 0
      <3>1. saldo'[u] # Nada => saldo'[u] >= 0
        BY <1>0, <2>1, <2>2, <2>5 DEF SinSobregiro
      <3>2. monedas'[u] >= 0
        BY <1>0, <2>1, <2>2 DEF SinSobregiro, MonedasGanadas
      <3>3. QED BY <3>1, <3>2
    <2>7. QED BY <2>6 DEF SinSobregiro
  <1>4. CASE NextSolicitud
    BY <1>1, <1>4 DEF NextSolicitud, PublicarSolicitud, CambiarEstadoSolicitud,
                      ModerarSolicitud, DefinirModalidad
  <1>5. CASE NextOferta
    BY <1>1, <1>2, <1>5 DEF NextOferta, Ofertar, CambiaMes, AceptarOferta,
                            AceptarContraoferta, RechazarOferta, Contraofertar
  <1>6. CASE NextContrato
    <2>1. ASSUME NEW u \in Usuarios, NEW k \in Contratos, ConfirmarContrato(u, k)
          PROVE  SinSobregiro'
      <3>1. Existe(contratos[k])
        BY <2>1 DEF ConfirmarContrato, Existe
      <3>2. (PagoProcede(k) /\ Liquidar(k)) \/ UNCHANGED <<saldo, monedas>>
        BY <2>1 DEF ConfirmarContrato
      <3>3. QED BY <1>1, <1>3, <3>1, <3>2
    <2>2. QED BY <1>1, <1>6, <2>1
            DEF NextContrato, CrearContrato, FirmarContrato, CompletarContrato,
                CancelarContrato, CrearChamba, ModerarContrato, ForzarContrato
  <1>7. CASE UNCHANGED vars
    BY <1>1, <1>7 DEF vars
  <1>8. QED BY <1>4, <1>5, <1>6, <1>7 DEF Next
-----------------------------------------------------------------------------
(* What a step does to the offers. *)

\* A contract that exists goes on existing, with its provider and solicitud.
LEMMA ContratoPermanece ==
    ASSUME TypeOK, Referencias, [Next]_vars, NEW k \in Contratos, Existe(contratos[k])
    PROVE  /\ Existe(contratos'[k])
           /\ contratos'[k].proveedor = contratos[k].proveedor
           /\ contratos'[k].solicitud = contratos[k].solicitud
  <1>1. contratos \in [Contratos -> ContratoRow]
    BY DEF TypeOK
  <1>2. CASE Quieto(k)
    BY <1>2 DEF Quieto
  <1>3. CASE SeFirma(k) \/ SeCompleta(k) \/ SeConfirma(k) \/ SeRetira(k)
    BY <1>1, <1>3 DEF SeFirma, SeCompleta, SeConfirma, SeRetira, ContratoRow, Existe
  <1>4. QED BY <1>2, <1>3, Paso DEF UnContrato, Mueve, NaceContrato

\* An acceptance answers to this; every other handler leaves o as accepted, or as
\* little accepted, as it was.
AceptaAhora(o) ==
    \E k \in Contratos, porContra \in BOOLEAN :
        Existe(ofertas[o]) /\ Formalizar(o, k, porContra)

LEMMA OfertaAceptada ==
    ASSUME TypeOK, [Next]_vars, NEW o \in Ofertas, ofertas'[o].estado = "aceptada"
    PROVE  \/ AceptaAhora(o)
           \/ /\ ofertas[o].estado = "aceptada"
              /\ ofertas'[o].solicitud = ofertas[o].solicitud
              /\ ofertas'[o].pds = ofertas[o].pds
  <1> DEFINE Sigue == /\ ofertas[o].estado = "aceptada"
                      /\ ofertas'[o].solicitud = ofertas[o].solicitud
                      /\ ofertas'[o].pds = ofertas[o].pds
  <1>1. ofertas \in [Ofertas -> OfertaRow]
    BY DEF TypeOK
  <1>2. CASE UNCHANGED ofertas
    BY <1>2
  <1>3. ASSUME NEW u \in Usuarios, NEW s \in Solicitudes, NEW x \in Ofertas,
               NEW m \in Montos \cup {Nada}, Ofertar(u, s, x, m)
        PROVE  Sigue
    BY <1>1, <1>3 DEF Ofertar
  <1>4. CASE CambiaMes
    BY <1>1, <1>4 DEF CambiaMes, OfertaRow
  <1>5. ASSUME NEW x \in Ofertas, NEW k \in Contratos, NEW porContra \in BOOLEAN,
               Existe(ofertas[x]), Formalizar(x, k, porContra)
        PROVE  AceptaAhora(o) \/ Sigue
    <2>1. CASE x = o
      BY <1>5, <2>1 DEF AceptaAhora
    <2>2. CASE x # o
      <3>1. ofertas' = TrasAceptar(x)
        BY <1>5 DEF Formalizar
      <3>2. QED BY <1>1, <2>2, <3>1 DEF TrasAceptar, OfertaRow
    <2>3. QED BY <2>1, <2>2
  <1>6. ASSUME NEW u \in Usuarios, NEW x \in Ofertas, NEW m \in Montos \cup {Nada},
               RechazarOferta(u, x) \/ Contraofertar(u, x, m)
        PROVE  Sigue
    <2>1. \/ ofertas' = [ofertas EXCEPT ![x].estado = "rechazada"]
          \/ ofertas' = [ofertas EXCEPT ![x].estado = "contraoferta", ![x].contra = m]
      BY <1>6 DEF RechazarOferta, Contraofertar
    <2>2. QED BY <1>1, <2>1 DEF OfertaRow
  <1>7. CASE NextOferta
    <2>1. ASSUME NEW u \in Usuarios, NEW x \in Ofertas, NEW k \in Contratos,
                 AceptarOferta(u, x, k) \/ AceptarContraoferta(u, x, k)
          PROVE  AceptaAhora(o) \/ Sigue
      BY <1>5, <2>1 DEF AceptarOferta, AceptarContraoferta
    <2>2. ASSUME NEW u \in Usuarios, NEW x \in Ofertas, RechazarOferta(u, x)
          PROVE  Sigue
      BY <1>6, <2>2
    <2>3. QED BY <1>3, <1>4, <1>6, <1>7, <2>1, <2>2 DEF NextOferta
  <1>8. CASE NextSolicitud
    BY <1>2, <1>8 DEF NextSolicitud, PublicarSolicitud, CambiarEstadoSolicitud,
                      ModerarSolicitud, DefinirModalidad
  <1>9. CASE NextContrato
    BY <1>2, <1>9 DEF NextContrato, CrearContrato, FirmarContrato, CompletarContrato,
                      ConfirmarContrato, CancelarContrato, CrearChamba, ModerarContrato,
                      ForzarContrato
  <1>10. CASE UNCHANGED vars
    BY <1>2, <1>10 DEF vars
  <1>11. QED BY <1>7, <1>8, <1>9, <1>10 DEF Next

\* The acceptance creates the contract that backs the offer, in the same step.
LEMMA RespaldoEnCadaPaso ==
    ASSUME TypeOK, Referencias, AceptadaConContrato, [Next]_vars
    PROVE  AceptadaConContrato'
  <1> SUFFICES ASSUME NEW o \in Ofertas, ofertas'[o].estado = "aceptada"
               PROVE  \E k \in Contratos :
                        /\ Existe(contratos'[k])
                        /\ contratos'[k].proveedor = ofertas'[o].pds
                        /\ contratos'[k].solicitud = ofertas'[o].solicitud
    BY DEF AceptadaConContrato, Existe
  <1>1. CASE AceptaAhora(o)
    <2>1. PICK k \in Contratos, porContra \in BOOLEAN : Formalizar(o, k, porContra)
      BY <1>1 DEF AceptaAhora
    <2>2. /\ ofertas \in [Ofertas -> OfertaRow]
          /\ contratos \in [Contratos -> ContratoRow]
      BY DEF TypeOK
    <2>3. /\ ofertas' = TrasAceptar(o)
          /\ contratos' = [contratos EXCEPT ![k] =
                [SinContrato EXCEPT !.estado = "pendiente",
                                    !.solicitud = ofertas[o].solicitud,
                                    !.proveedor = ofertas[o].pds]]
      BY <2>1 DEF Formalizar
    <2>4. ofertas'[o].pds = ofertas[o].pds /\ ofertas'[o].solicitud = ofertas[o].solicitud
      BY <2>2, <2>3 DEF TrasAceptar, OfertaRow
    <2>5. /\ Existe(contratos'[k])
          /\ contratos'[k].proveedor = ofertas[o].pds
          /\ contratos'[k].solicitud = ofertas[o].solicitud
      BY <2>2, <2>3 DEF SinContrato, Existe
    <2>6. QED BY <2>4, <2>5
  <1>2. CASE /\ ofertas[o].estado = "aceptada"
             /\ ofertas'[o].solicitud = ofertas[o].solicitud
             /\ ofertas'[o].pds = ofertas[o].pds
    <2>1. PICK k \in Contratos : /\ Existe(contratos[k])
                                 /\ contratos[k].proveedor = ofertas[o].pds
                                 /\ contratos[k].solicitud = ofertas[o].solicitud
      BY <1>2 DEF AceptadaConContrato
    <2>2. QED BY <1>2, <2>1, ContratoPermanece
  <1>3. QED BY <1>1, <1>2, OfertaAceptada
\* Only a settlement moves a balance or records a payment.
LEMMA SaldoPaso ==
    ASSUME [Next]_vars
    PROVE  \/ UNCHANGED <<saldo, pagos>>
           \/ \E k \in Contratos : Existe(contratos[k]) /\ Liquidar(k)
  <1> DEFINE Paga == \E k \in Contratos : Existe(contratos[k]) /\ Liquidar(k)
  <1>1. ASSUME NEW u \in Usuarios, NEW k \in Contratos, ConfirmarContrato(u, k)
        PROVE  UNCHANGED <<saldo, pagos>> \/ Paga
    BY <1>1 DEF ConfirmarContrato, Existe
  <1>2. ASSUME NEW o \in Ofertas, NEW k \in Contratos, NEW porContra \in BOOLEAN,
               Formalizar(o, k, porContra)
        PROVE  UNCHANGED <<saldo, pagos>>
    BY <1>2 DEF Formalizar
  <1>3. CASE NextSolicitud
    BY <1>3 DEF NextSolicitud, PublicarSolicitud, CambiarEstadoSolicitud,
                ModerarSolicitud, DefinirModalidad
  <1>4. CASE NextOferta
    BY <1>2, <1>4 DEF NextOferta, Ofertar, CambiaMes, AceptarOferta,
                      AceptarContraoferta, RechazarOferta, Contraofertar
  <1>5. CASE NextContrato
    BY <1>1, <1>5 DEF NextContrato, CrearContrato, FirmarContrato, CompletarContrato,
                CancelarContrato, CrearChamba, ModerarContrato, ForzarContrato
  <1>6. CASE UNCHANGED vars
    BY <1>6 DEF vars
  <1>7. QED BY <1>3, <1>4, <1>5, <1>6 DEF Next

\* A row without a solicitud chose no modality, and rows name one that exists.
SolicitudesVivas ==
    /\ \A s \in Solicitudes :
            ~Existe(solicitudes[s]) => solicitudes[s].modalidad = "ninguna"
    /\ \A o \in Ofertas : Existe(ofertas[o]) => Existe(solicitudes[ofertas[o].solicitud])
    /\ \A k \in Contratos :
            Existe(contratos[k]) => Existe(solicitudes[contratos[k].solicitud])

\* What a step does to the solicitudes: one is published, or their estados
\* change, or a modality is chosen where there was none.
SolicitudPaso(s) ==
    \/ /\ Existe(solicitudes[s]) <=> Existe(solicitudes'[s])
       /\ solicitudes'[s].modalidad = solicitudes[s].modalidad
    \/ /\ ~Existe(solicitudes[s]) /\ Existe(solicitudes'[s])
       /\ solicitudes'[s].modalidad = "ninguna"
    \/ /\ Existe(solicitudes[s]) /\ Existe(solicitudes'[s])
       /\ solicitudes[s].modalidad = "ninguna"

LEMMA CadaSolicitud ==
    ASSUME TypeOK, Referencias, SolicitudesVivas, [Next]_vars, NEW s \in Solicitudes
    PROVE  SolicitudPaso(s)
  <1> USE DEF SolicitudPaso, Existe
  <1>1. solicitudes \in [Solicitudes -> SolicitudRow]
    BY DEF TypeOK
  <1>2. CASE UNCHANGED solicitudes
    BY <1>2
  <1>3. ASSUME NEW x \in Solicitudes, NEW e \in EstadoSolicitud,
               Existe(solicitudes[x]), solicitudes' = [solicitudes EXCEPT ![x].estado = e]
        PROVE  SolicitudPaso(s)
    BY <1>1, <1>3 DEF SolicitudRow, EstadoSolicitud
  <1>4. CASE NextSolicitud
    <2>1. ASSUME NEW u \in Usuarios, NEW x \in Solicitudes, NEW m \in Montos \cup {Nada},
                 PublicarSolicitud(u, x, m)
          PROVE  SolicitudPaso(s)
      BY <1>1, <2>1 DEF PublicarSolicitud
    <2>2. ASSUME NEW u \in Usuarios, NEW x \in Solicitudes, NEW e \in EstadosManuales,
                 CambiarEstadoSolicitud(u, x, e) \/ ModerarSolicitud(x, e)
          PROVE  SolicitudPaso(s)
      BY <1>3, <2>2, ManualesEstado DEF CambiarEstadoSolicitud, ModerarSolicitud
    <2>3. ASSUME NEW u \in Usuarios, NEW x \in Solicitudes, NEW t \in TipoModalidad,
                 DefinirModalidad(u, x, t)
          PROVE  SolicitudPaso(s)
      BY <1>1, <2>3 DEF DefinirModalidad, SolicitudRow
    <2>4. QED BY <1>4, <2>1, <2>2, <2>3 DEF NextSolicitud
  <1>5. ASSUME NEW x \in Solicitudes, Existe(solicitudes[x]), NEW pr,
               solicitudes' = [solicitudes EXCEPT
                    ![x].presupuesto = pr, ![x].modalidad = ModalidadEfectiva(@)]
        PROVE  SolicitudPaso(s)
    BY <1>1, <1>5 DEF SolicitudRow, ModalidadEfectiva
  <1>6. CASE NextOferta
    <2>1. ASSUME NEW o \in Ofertas, NEW k \in Contratos, NEW porContra \in BOOLEAN,
                 Existe(ofertas[o]), Formalizar(o, k, porContra)
          PROVE  SolicitudPaso(s)
      <3>1. ofertas[o].solicitud \in Solicitudes /\ Existe(solicitudes[ofertas[o].solicitud])
        BY <2>1 DEF Referencias, SolicitudesVivas
      <3>2. PICK x \in Solicitudes : x = ofertas[o].solicitud
        BY <3>1
      <3>3. \E pr : solicitudes' = [solicitudes EXCEPT
                    ![x].presupuesto = pr, ![x].modalidad = ModalidadEfectiva(@)]
        <4>1. solicitudes' = [solicitudes EXCEPT
                    ![x].presupuesto = IF MontoAcordado(o, porContra) # Nada
                                       THEN MontoAcordado(o, porContra) ELSE @,
                    ![x].modalidad = ModalidadEfectiva(@)]
          BY <2>1, <3>2 DEF Formalizar
        <4>2. QED BY <4>1
      <3>4. QED BY <1>5, <3>1, <3>2, <3>3
    <2>2. ASSUME NEW u \in Usuarios, NEW o \in Ofertas, NEW k \in Contratos,
                 AceptarOferta(u, o, k) \/ AceptarContraoferta(u, o, k)
          PROVE  SolicitudPaso(s)
      BY <2>1, <2>2 DEF AceptarOferta, AceptarContraoferta
    <2>3. QED BY <1>2, <1>6, <2>2
            DEF NextOferta, Ofertar, CambiaMes, RechazarOferta, Contraofertar
  <1>7. CASE NextContrato
    <2>1. ASSUME NEW u \in Usuarios, NEW k \in Contratos,
                 FirmarContrato(u, k) \/ CompletarContrato(u, k)
          PROVE  SolicitudPaso(s)
      <3>1. Existe(contratos[k])
        BY <2>1 DEF FirmarContrato, CompletarContrato
      <3>2. PICK x \in Solicitudes : x = contratos[k].solicitud
        BY <3>1 DEF Referencias
      <3>3. Existe(solicitudes[x])
        BY <3>1, <3>2 DEF SolicitudesVivas
      <3>4. \E e \in EstadoSolicitud : solicitudes' = [solicitudes EXCEPT ![x].estado = e]
        BY <2>1, <3>2 DEF FirmarContrato, CompletarContrato, EstadoSolicitud
      <3>5. QED BY <1>3, <3>3, <3>4
    <2>2. ASSUME NEW u \in Usuarios, NEW k \in Contratos, ConfirmarContrato(u, k)
          PROVE  SolicitudPaso(s)
      <3>1. Existe(contratos[k])
        BY <2>2 DEF ConfirmarContrato
      <3>2. PICK x \in Solicitudes : x = contratos[k].solicitud
        BY <3>1 DEF Referencias
      <3>3. Existe(solicitudes[x])
        BY <3>1, <3>2 DEF SolicitudesVivas
      <3>4. solicitudes' = [solicitudes EXCEPT ![x].modalidad = ModalidadEfectiva(@)]
        BY <2>2, <3>2 DEF ConfirmarContrato
      <3>5. QED BY <1>1, <3>3, <3>4 DEF SolicitudRow, ModalidadEfectiva
    <2>3. QED BY <1>2, <1>7, <2>1, <2>2
            DEF NextContrato, CrearContrato, CancelarContrato, CrearChamba,
                ModerarContrato, ForzarContrato
  <1>8. CASE UNCHANGED vars
    BY <1>2, <1>8 DEF vars
  <1>9. QED BY <1>4, <1>6, <1>7, <1>8 DEF Next

\* An offer that exists after a step was there before, on the same solicitud, or
\* was just made on one that exists.
LEMMA OfertaNombra ==
    ASSUME TypeOK, [Next]_vars, NEW o \in Ofertas, Existe(ofertas'[o])
    PROVE  \/ Existe(ofertas[o]) /\ ofertas'[o].solicitud = ofertas[o].solicitud
           \/ \E s \in Solicitudes :
                Existe(solicitudes[s]) /\ ofertas'[o].solicitud = s
  <1> USE DEF Existe
  <1> DEFINE Sigue == Existe(ofertas[o]) /\ ofertas'[o].solicitud = ofertas[o].solicitud
             Nace == \E s \in Solicitudes :
                        Existe(solicitudes[s]) /\ ofertas'[o].solicitud = s
  <1>1. ofertas \in [Ofertas -> OfertaRow]
    BY DEF TypeOK
  <1>2. CASE UNCHANGED ofertas
    BY <1>2
  <1>3. ASSUME NEW u \in Usuarios, NEW s \in Solicitudes, NEW x \in Ofertas,
               NEW m \in Montos \cup {Nada}, Ofertar(u, s, x, m)
        PROVE  Sigue \/ Nace
    <2>1. CASE x = o
      <3>1. Existe(solicitudes[s]) /\ ofertas'[o].solicitud = s
        BY <1>1, <1>3, <2>1 DEF Ofertar
      <3>2. QED BY <3>1
    <2>2. CASE x # o
      BY <1>1, <1>3, <2>2 DEF Ofertar
    <2>3. QED BY <2>1, <2>2
  <1>4. CASE CambiaMes
    BY <1>1, <1>4 DEF CambiaMes, OfertaRow
  <1>5. ASSUME NEW x \in Ofertas, Existe(ofertas[x]), ofertas' = TrasAceptar(x)
        PROVE  Sigue
    BY <1>1, <1>5 DEF TrasAceptar, OfertaRow, Abierta
  <1>6. ASSUME NEW u \in Usuarios, NEW x \in Ofertas, NEW m \in Montos \cup {Nada},
               RechazarOferta(u, x) \/ Contraofertar(u, x, m)
        PROVE  Sigue
    <2>1. Existe(ofertas[x])
      BY <1>6 DEF RechazarOferta, Contraofertar, NegociaOferta
    <2>2. \/ ofertas' = [ofertas EXCEPT ![x].estado = "rechazada"]
          \/ ofertas' = [ofertas EXCEPT ![x].estado = "contraoferta", ![x].contra = m]
      BY <1>6 DEF RechazarOferta, Contraofertar
    <2>3. QED BY <1>1, <2>1, <2>2 DEF OfertaRow
  <1>7. CASE NextOferta
    <2>1. ASSUME NEW u \in Usuarios, NEW x \in Ofertas, NEW k \in Contratos,
                 AceptarOferta(u, x, k) \/ AceptarContraoferta(u, x, k)
          PROVE  Sigue
      <3>1. Existe(ofertas[x]) /\ ofertas' = TrasAceptar(x)
        BY <2>1 DEF AceptarOferta, AceptarContraoferta, Formalizar
      <3>2. QED BY <1>5, <3>1
    <2>2. ASSUME NEW u \in Usuarios, NEW x \in Ofertas, RechazarOferta(u, x)
          PROVE  Sigue
      BY <1>6, <2>2
    <2>3. QED BY <1>3, <1>4, <1>6, <1>7, <2>1, <2>2 DEF NextOferta
  <1>8. CASE NextSolicitud
    BY <1>2, <1>8 DEF NextSolicitud, PublicarSolicitud, CambiarEstadoSolicitud,
                      ModerarSolicitud, DefinirModalidad
  <1>9. CASE NextContrato
    BY <1>2, <1>9 DEF NextContrato, CrearContrato, FirmarContrato, CompletarContrato,
                      ConfirmarContrato, CancelarContrato, CrearChamba, ModerarContrato,
                      ForzarContrato
  <1>10. CASE UNCHANGED vars
    BY <1>2, <1>10 DEF vars
  <1>11. QED BY <1>7, <1>8, <1>9, <1>10 DEF Next

\* The same of a contract.
LEMMA ContratoNombra ==
    ASSUME TypeOK, Referencias, SolicitudesVivas, [Next]_vars,
           NEW k \in Contratos, Existe(contratos'[k])
    PROVE  \/ Existe(contratos[k]) /\ contratos'[k].solicitud = contratos[k].solicitud
           \/ \E s \in Solicitudes :
                Existe(solicitudes[s]) /\ contratos'[k].solicitud = s
  <1> USE DEF Existe
  <1> DEFINE Nace == \E s \in Solicitudes :
                        Existe(solicitudes[s]) /\ contratos'[k].solicitud = s
  <1>1. CASE Existe(contratos[k])
    BY <1>1, ContratoPermanece
  <1>2. CASE ~Existe(contratos[k])
    <2>1. contratos \in [Contratos -> ContratoRow]
      BY DEF TypeOK
    <2>2. CASE UNCHANGED contratos
      BY <1>2, <2>2
    <2>3. ASSUME NEW u \in Usuarios, NEW p \in Usuarios, NEW s \in Solicitudes,
                 NEW j \in Contratos, CrearContrato(u, s, p, j)
          PROVE  Nace
      <3>1. Existe(solicitudes[s])
        BY <2>3 DEF CrearContrato
      <3>2. contratos'[k].solicitud = s
        BY <1>2, <2>1, <2>3 DEF CrearContrato, SinContrato
      <3>3. QED BY <3>1, <3>2
    <2>4. ASSUME NEW o \in Ofertas, NEW j \in Contratos, NEW porContra \in BOOLEAN,
                 Existe(ofertas[o]), Formalizar(o, j, porContra)
          PROVE  Nace
      <3>1. ofertas[o].solicitud \in Solicitudes /\ Existe(solicitudes[ofertas[o].solicitud])
        BY <2>4 DEF Referencias, SolicitudesVivas
      <3>2. contratos'[k].solicitud = ofertas[o].solicitud
        BY <1>2, <2>1, <2>4 DEF Formalizar, SinContrato
      <3>3. QED BY <3>1, <3>2
    <2>5. CASE NextOferta
      <3>1. ASSUME NEW u \in Usuarios, NEW o \in Ofertas, NEW j \in Contratos,
                   AceptarOferta(u, o, j) \/ AceptarContraoferta(u, o, j)
            PROVE  Nace
        BY <2>4, <3>1 DEF AceptarOferta, AceptarContraoferta
      <3>2. QED BY <2>2, <2>5, <3>1
              DEF NextOferta, Ofertar, CambiaMes, RechazarOferta, Contraofertar
    <2>6. CASE NextSolicitud
      BY <2>2, <2>6 DEF NextSolicitud, PublicarSolicitud, CambiarEstadoSolicitud,
                        ModerarSolicitud, DefinirModalidad
    <2>7. ASSUME NEW j \in Contratos, Existe(contratos[j]),
                 \A i \in Contratos \ {j} : contratos'[i] = contratos[i]
          PROVE  FALSE
      BY <1>2, <2>7
    <2>8. CASE NextContrato
      <3>1. \/ \E u, p \in Usuarios, s \in Solicitudes, j \in Contratos :
                    CrearContrato(u, s, p, j)
            \/ UNCHANGED contratos
            \/ \E j \in Contratos : /\ Existe(contratos[j])
                                    /\ \A i \in Contratos \ {j} : contratos'[i] = contratos[i]
        <4>1. ASSUME NEW u \in Usuarios, NEW j \in Contratos,
                     \/ FirmarContrato(u, j) \/ CompletarContrato(u, j)
                     \/ ConfirmarContrato(u, j) \/ CancelarContrato(u, j)
              PROVE  /\ Existe(contratos[j])
                     /\ \A i \in Contratos \ {j} : contratos'[i] = contratos[i]
          BY <2>1, <4>1 DEF FirmarContrato, CompletarContrato, ConfirmarContrato,
                            CancelarContrato
        <4>2. ASSUME NEW j \in Contratos, NEW e \in EstadoContrato,
                     ModerarContrato(j, e) \/ ForzarContrato(j, e)
              PROVE  /\ Existe(contratos[j])
                     /\ \A i \in Contratos \ {j} : contratos'[i] = contratos[i]
          BY <2>1, <4>2 DEF ModerarContrato, ForzarContrato
        <4>3. ASSUME NEW u \in Usuarios, NEW j \in Contratos, CrearChamba(u, j)
              PROVE  UNCHANGED contratos
          BY <4>3 DEF CrearChamba
        <4>4. QED BY <2>8, <4>1, <4>2, <4>3 DEF NextContrato
      <3>2. QED BY <2>2, <2>3, <2>7, <3>1
    <2>9. CASE UNCHANGED vars
      BY <2>2, <2>9 DEF vars
    <2>10. QED BY <2>5, <2>6, <2>8, <2>9 DEF Next
  <1>3. QED BY <1>1, <1>2

-----------------------------------------------------------------------------
(* Theorems of the specification. *)

\* The inductive invariant holds in every reachable state, for any number of
\* users, rows and amounts.
THEOREM Invariante == Spec => []IInv
  <1>1. Init => IInv
    BY InvAlInicio
  <1>2. IInv /\ [Next]_vars => IInv'
    BY TiposEnCadaPaso, ReferenciasEnCadaPaso, SellosEnCadaPaso, SobregiroEnCadaPaso
       DEF IInv
  <1>3. QED BY <1>1, <1>2, PTL DEF Spec

\* Every row keeps its columns' types: no handler stores a NULL where another
\* would compute with it.
THEOREM Tipos == Spec => []TypeOK
  <1>1. IInv => TypeOK
    BY DEF IInv
  <1>2. QED BY <1>1, Invariante, PTL

\* A contract is confirmed only after it was completed, completed only after
\* it was signed, and a signed one has its chamba.
THEOREM SellosEnOrden == Spec => []FirmaEnOrden
  <1>1. IInv => FirmaEnOrden
    BY DEF IInv
  <1>2. QED BY <1>1, Invariante, PTL

\* No contract pays its provider twice, nor before its confirmation.
THEOREM UnSoloPago == Spec => []PagoUnico
  <1>1. IInv => PagoUnico
    BY DEF IInv
  <1>2. QED BY <1>1, Invariante, PTL

\* No wallet and no coin purse ever goes below zero, although the commission
\* is taken before the net is credited.
THEOREM NuncaSobregira == Spec => []SinSobregiro
  <1>1. IInv => SinSobregiro
    BY DEF IInv
  <1>2. QED BY <1>1, Invariante, PTL

\* A contract that was cancelled, completed or flagged is never again in a
\* working estado.
THEOREM NuncaResucita == Spec => NoResucita
  <1> DEFINE Muere(k) == (Existe(contratos[k]) /\ contratos[k].estado \notin Activo)
                             => contratos'[k].estado \notin Activo
  <1>1. ASSUME IInv, [Next]_vars, NEW k \in Contratos
        PROVE  Muere(k)
    <2>1. contratos \in [Contratos -> ContratoRow]
      BY <1>1 DEF IInv, TypeOK
    <2>2. Quieto(k) \/ Mueve(k)
      BY <1>1, Paso DEF IInv, UnContrato
    <2>3. CASE Quieto(k)
      BY <2>3 DEF Quieto
    <2>4. CASE NaceContrato(k) \/ SeFirma(k) \/ SeCompleta(k) \/ SeConfirma(k)
      BY <2>4 DEF NaceContrato, SeFirma, SeCompleta, SeConfirma, Activo
    <2>5. CASE SeRetira(k)
      BY <2>1, <2>5 DEF SeRetira, Activo, ContratoRow
    <2>6. QED BY <2>2, <2>3, <2>4, <2>5 DEF Mueve
  <1>2. IInv /\ [Next]_vars => [\A k \in Contratos : Muere(k)]_vars
    BY <1>1
  <1>3. QED BY <1>2, Invariante, PTL DEF Spec, NoResucita

\* Whatever the order of acceptances, rejections and counter-offers, an offer
\* that reads accepted has a contract of its provider on its solicitud.
THEOREM Respaldada == Spec => []AceptadaConContrato
  <1>1. Init => AceptadaConContrato
    BY DEF Init, AceptadaConContrato, SinOferta
  <1>2. IInv /\ AceptadaConContrato /\ [Next]_vars => AceptadaConContrato'
    BY RespaldoEnCadaPaso DEF IInv
  <1>3. QED BY <1>1, <1>2, Invariante, PTL DEF Spec

\* The step that accepts an offer leaves none of its rivals open.
THEOREM Excluye == Spec => CierreExcluyente
  <1> DEFINE Cierra(o, x) ==
                (/\ ofertas[o].estado # "aceptada" /\ ofertas'[o].estado = "aceptada"
                 /\ x # o /\ ofertas[x].solicitud = ofertas[o].solicitud)
                    => ofertas'[x].estado \notin Abierta
  <1>1. ASSUME IInv, [Next]_vars, NEW o \in Ofertas, NEW x \in Ofertas
        PROVE  Cierra(o, x)
    <2> SUFFICES ASSUME ofertas[o].estado # "aceptada", ofertas'[o].estado = "aceptada",
                        x # o, ofertas[x].solicitud = ofertas[o].solicitud
                 PROVE  ofertas'[x].estado \notin Abierta
      OBVIOUS
    <2>1. TypeOK
      BY <1>1 DEF IInv
    <2>2. ofertas \in [Ofertas -> OfertaRow]
      BY <2>1 DEF TypeOK
    <2>3. AceptaAhora(o)
      BY <1>1, <2>1, OfertaAceptada
    <2>4. ofertas' = TrasAceptar(o)
      BY <2>3 DEF AceptaAhora, Formalizar
    <2>5. QED BY <2>2, <2>4 DEF TrasAceptar, OfertaRow, Abierta
  <1>2. IInv /\ [Next]_vars => [\A o, x \in Ofertas : Cierra(o, x)]_vars
    BY <1>1
  <1>3. QED BY <1>2, Invariante, PTL DEF Spec, CierreExcluyente

\* A balance moves only with the entries of one contract of its owner, which say
\* by how much.
THEOREM Registrados == Spec => MovimientosRegistrados
  <1> DEFINE Asentado(u) == saldo'[u] # saldo[u] =>
                \E k \in Contratos :
                    /\ contratos[k].proveedor = u
                    /\ Libro(u, saldo') - Libro(u, saldo) =
                          (pagos'[k].neto - pagos[k].neto)
                              - (pagos'[k].comision - pagos[k].comision)
                    /\ \A j \in Contratos \ {k} : pagos'[j] = pagos[j]
  <1>1. ASSUME IInv, [Next]_vars, NEW u \in Usuarios
        PROVE  Asentado(u)
    <2> SUFFICES ASSUME saldo'[u] # saldo[u]
                 PROVE  \E k \in Contratos :
                    /\ contratos[k].proveedor = u
                    /\ Libro(u, saldo') - Libro(u, saldo) =
                          (pagos'[k].neto - pagos[k].neto)
                              - (pagos'[k].comision - pagos[k].comision)
                    /\ \A j \in Contratos \ {k} : pagos'[j] = pagos[j]
      OBVIOUS
    <2>1. TypeOK /\ Referencias
      BY <1>1 DEF IInv
    <2>2. PICK k \in Contratos : Existe(contratos[k]) /\ Liquidar(k)
      BY <1>1, SaldoPaso
    <2>3. PICK p \in Usuarios : p = contratos[k].proveedor
      BY <2>1, <2>2 DEF Referencias
    <2>4. PICK m, c \in Int : m = MontoTotal(k) /\ c = ComisionDe(k)
      BY <2>1, <2>2, MontosDeLiquidacion
    <2>5. /\ saldo' = [saldo EXCEPT ![p] = (IF @ = Nada THEN 0 ELSE @) - c + (m - c)]
          /\ pagos' = [pagos EXCEPT ![k] =
                [veces |-> @.veces + 1, neto |-> @.neto + (m - c),
                 comision |-> @.comision + c]]
      BY <2>2, <2>3, <2>4 DEF Liquidar
    <2>6. saldo \in [Usuarios -> Monto] /\ pagos \in [Contratos -> PagoRow]
      BY <2>1 DEF TypeOK
    <2>7. u = p
      BY <2>5, <2>6
    <2>8. PICK b \in Int : b = Libro(p, saldo)
      BY <2>6 DEF Libro, Monto
    <2>9. Libro(p, saldo') = b - c + (m - c)
      <3>1. saldo'[p] = b - c + (m - c)
        BY <2>5, <2>6, <2>8 DEF Libro
      <3>2. saldo'[p] # Nada
        BY <3>1, MontosEnteros
      <3>3. QED BY <3>1, <3>2 DEF Libro
    <2>10. PICK a, d \in Int : a = pagos[k].neto /\ d = pagos[k].comision
      BY <2>6 DEF PagoRow
    <2>11. pagos'[k].neto = a + (m - c) /\ pagos'[k].comision = d + c
      BY <2>5, <2>6, <2>10
    <2>12. Libro(u, saldo') - Libro(u, saldo) =
              (pagos'[k].neto - pagos[k].neto) - (pagos'[k].comision - pagos[k].comision)
      BY <2>7, <2>8, <2>9, <2>10, <2>11
    <2>13. \A j \in Contratos \ {k} : pagos'[j] = pagos[j]
      BY <2>5, <2>6
    <2>14. QED BY <2>3, <2>7, <2>12, <2>13
  <1>2. IInv /\ [Next]_vars => [\A u \in Usuarios : Asentado(u)]_vars
    BY <1>1
  <1>3. QED BY <1>2, Invariante, PTL DEF Spec, MovimientosRegistrados

\* The rows an offer or a contract names are there.
THEOREM Vivas == Spec => []SolicitudesVivas
  <1>1. Init => SolicitudesVivas
    BY DEF Init, SolicitudesVivas, SinSolicitud, SinOferta, SinContrato, Existe
  <1>2. ASSUME IInv, SolicitudesVivas, [Next]_vars
        PROVE  SolicitudesVivas'
    <2>0. /\ ofertas \in [Ofertas -> OfertaRow] /\ contratos \in [Contratos -> ContratoRow]
          /\ TypeOK /\ Referencias
      BY <1>2 DEF IInv, TypeOK
    <2>1. \A s \in Solicitudes :
            /\ ~Existe(solicitudes'[s]) => solicitudes'[s].modalidad = "ninguna"
            /\ Existe(solicitudes[s]) => Existe(solicitudes'[s])
      BY <1>2, <2>0, CadaSolicitud DEF SolicitudPaso, SolicitudesVivas
    <2>2. ASSUME NEW o \in Ofertas, Existe(ofertas'[o])
          PROVE  Existe(solicitudes'[ofertas'[o].solicitud])
      BY <1>2, <2>0, <2>1, <2>2, OfertaNombra DEF Referencias, SolicitudesVivas
    <2>3. ASSUME NEW k \in Contratos, Existe(contratos'[k])
          PROVE  Existe(solicitudes'[contratos'[k].solicitud])
      BY <1>2, <2>0, <2>1, <2>3, ContratoNombra DEF Referencias, SolicitudesVivas
    <2>4. QED BY <2>1, <2>2, <2>3 DEF SolicitudesVivas, Existe
  <1>3. QED BY <1>1, <1>2, Invariante, PTL DEF Spec

\* The first choice of a modality stands, and an acceptance costs coins exactly
\* under the one without commission.
THEOREM FijaModalidad == Spec => ModalidadFija
  <1> DEFINE Queda(s) == solicitudes[s].modalidad # "ninguna"
                            => solicitudes'[s].modalidad = solicitudes[s].modalidad
             Cuesta(o) ==
                (ofertas[o].estado # "aceptada" /\ ofertas'[o].estado = "aceptada") =>
                    LET m == solicitudes'[ofertas[o].solicitud].modalidad
                        p == ofertas[o].pds
                    IN  /\ m # "ninguna"
                        /\ monedas'[p] < monedas[p] <=> m = "B_sin_comision"
  <1>1. ASSUME IInv, SolicitudesVivas, [Next]_vars, NEW s \in Solicitudes
        PROVE  Queda(s)
    <2>1. SolicitudPaso(s)
      BY <1>1, CadaSolicitud DEF IInv
    <2>2. QED BY <1>1, <2>1 DEF SolicitudPaso, SolicitudesVivas
  <1>2. ASSUME IInv, [Next]_vars, NEW o \in Ofertas,
               ofertas[o].estado # "aceptada", ofertas'[o].estado = "aceptada"
        PROVE  /\ solicitudes'[ofertas[o].solicitud].modalidad # "ninguna"
               /\ monedas'[ofertas[o].pds] < monedas[ofertas[o].pds]
                    <=> solicitudes'[ofertas[o].solicitud].modalidad = "B_sin_comision"
    <2>1. TypeOK /\ Referencias
      BY <1>2 DEF IInv
    <2>2. PICK k \in Contratos, porContra \in BOOLEAN :
            Existe(ofertas[o]) /\ Formalizar(o, k, porContra)
      BY <1>2, <2>1, OfertaAceptada DEF AceptaAhora
    <2>3. PICK s \in Solicitudes, p \in Usuarios :
            s = ofertas[o].solicitud /\ p = ofertas[o].pds
      BY <2>1, <2>2 DEF Referencias
    <2>4. PICK c \in Nat : /\ c = MonedasAlAceptar(s)
                           /\ c > 0 <=> solicitudes[s].modalidad = "B_sin_comision"
      BY DEF MonedasAlAceptar, MonedasModalidadB
    <2>5. monedas' = [monedas EXCEPT ![p] = @ - c]
      BY <2>2, <2>3, <2>4 DEF Formalizar
    <2>6. monedas[p] \in Int /\ monedas'[p] = monedas[p] - c
      BY <2>1, <2>5 DEF TypeOK
    <2>7. solicitudes'[s].modalidad = ModalidadEfectiva(solicitudes[s].modalidad)
      <3>1. solicitudes \in [Solicitudes -> SolicitudRow]
        BY <2>1 DEF TypeOK
      <3>2. solicitudes' = [solicitudes EXCEPT
                ![s].presupuesto = IF MontoAcordado(o, porContra) # Nada
                                   THEN MontoAcordado(o, porContra) ELSE @,
                ![s].modalidad = ModalidadEfectiva(@)]
        BY <2>2, <2>3 DEF Formalizar
      <3>3. QED BY <3>1, <3>2 DEF SolicitudRow
    <2>8. /\ solicitudes'[s].modalidad # "ninguna"
          /\ solicitudes'[s].modalidad = "B_sin_comision"
                <=> solicitudes[s].modalidad = "B_sin_comision"
      BY <2>7 DEF ModalidadEfectiva
    <2>9. QED BY <2>3, <2>4, <2>6, <2>8
  <1>3. IInv /\ SolicitudesVivas /\ [Next]_vars =>
            [(\A s \in Solicitudes : Queda(s)) /\ (\A o \in Ofertas : Cuesta(o))]_vars
    BY <1>1, <1>2
  <1>4. QED BY <1>3, Invariante, Vivas, PTL DEF Spec, ModalidadFija

\* The handlers implement the abstract life cycle of a contract: their initial
\* states are its initial states, and each of their steps is one of its steps or
\* leaves it where it was.
THEOREM Implementa == Spec => CicloCumplido
  <1> DEFINE F == [k \in Contratos |-> contratos[k].estado]
             C == [k \in Contratos |-> pagos[k].veces > 0]
  <1>1. Init => Ciclo!Init
    <2>1. SUFFICES ASSUME Init PROVE F = [k \in Contratos |-> "inexistente"]
                                     /\ C = [k \in Contratos |-> FALSE]
      BY DEF Ciclo!Init
    <2>2. \A k \in Contratos : contratos[k].estado = "inexistente"
      BY <2>1 DEF Init, SinContrato
    <2>3. \A k \in Contratos : (pagos[k].veces > 0) = FALSE
      BY <2>1 DEF Init, SinPago
    <2>4. F = [k \in Contratos |-> "inexistente"]
      BY <2>2
    <2>5. C = [k \in Contratos |-> FALSE]
      BY <2>3
    <2>6. QED BY <2>4, <2>5
  <1>2. IInv /\ [Next]_vars => [Ciclo!Next]_(Ciclo!vars)
    <2>1. SUFFICES ASSUME IInv, [Next]_vars
                   PROVE  [Ciclo!Next]_(Ciclo!vars)
      OBVIOUS
    <2>2. CASE \A j \in Contratos : Quieto(j)
      BY <2>2 DEF Ciclo!vars, Quieto
    <2>3. ASSUME NEW k \in Contratos, Mueve(k), \A j \in Contratos \ {k} : Quieto(j)
          PROVE  Ciclo!Next
      <3>1. \A e : contratos'[k].estado = e => F' = [F EXCEPT ![k] = e]
        BY <2>3 DEF Quieto
      <3>2. pagos'[k].veces = pagos[k].veces => C' = C
        BY <2>3 DEF Quieto
      <3>3. contratos \in [Contratos -> ContratoRow] /\ pagos[k].veces \in Nat
        BY <2>1 DEF IInv, TypeOK, PagoRow
      <3> HIDE DEF F, C
      <3>4. F[k] = contratos[k].estado
        BY DEF F
      <3>5. CASE NaceContrato(k)
        <4>1. F[k] = "inexistente" /\ contratos'[k].estado = "pendiente"
          BY <3>4, <3>5 DEF NaceContrato, Existe, SinContrato
        <4>2. F' = [F EXCEPT ![k] = "pendiente"] /\ C' = C
          BY <3>1, <3>2, <3>5, <4>1 DEF NaceContrato
        <4>3. QED BY <4>1, <4>2 DEF F, C, Ciclo!Next, Ciclo!Nace, Ciclo!Avanza
      <3>6. CASE SeFirma(k)
        <4>1. F[k] = "pendiente" /\ contratos'[k].estado = "en_progreso"
          BY <3>3, <3>4, <3>6 DEF SeFirma, ContratoRow
        <4>2. F' = [F EXCEPT ![k] = "en_progreso"] /\ C' = C
          BY <3>1, <3>2, <3>6, <4>1 DEF SeFirma
        <4>3. QED BY <4>1, <4>2 DEF F, C, Ciclo!Next, Ciclo!Firma, Ciclo!Avanza
      <3>7. CASE SeCompleta(k)
        <4>1. F[k] = "en_progreso" /\ contratos'[k].estado = "completado_pendiente"
          BY <3>3, <3>4, <3>7 DEF SeCompleta, ContratoRow
        <4>2. F' = [F EXCEPT ![k] = "completado_pendiente"] /\ C' = C
          BY <3>1, <3>2, <3>7, <4>1 DEF SeCompleta
        <4>3. QED BY <4>1, <4>2 DEF F, C, Ciclo!Next, Ciclo!Entrega, Ciclo!Avanza
      <3>8. CASE SeConfirma(k)
        <4>1. F[k] = "completado_pendiente" /\ contratos'[k].estado = "completado"
          BY <3>3, <3>4, <3>8 DEF SeConfirma, ContratoRow
        <4>2. F' = [F EXCEPT ![k] = "completado"]
          BY <3>1, <4>1
        <4>3. ~C[k]
          <5>1. ~contratos[k].confirmado_en
            BY <2>1, <3>8 DEF IInv, SellosDelEstado, SeConfirma, Activo
          <5>2. ~(pagos[k].veces > 0)
            BY <2>1, <3>3, <5>1 DEF IInv, PagoUnico
          <5>3. QED BY <5>2 DEF C
        <4>4. \E pago \in BOOLEAN : C' = [C EXCEPT ![k] = pago]
          <5>1. (pagos'[k].veces > 0) \in BOOLEAN
            OBVIOUS
          <5>2. C' = [C EXCEPT ![k] = pagos'[k].veces > 0]
            BY <2>3 DEF C, Quieto
          <5>3. QED BY <5>1, <5>2
        <4>5. QED BY <4>1, <4>2, <4>3, <4>4 DEF F, C, Ciclo!Next, Ciclo!Confirma
      <3>9. CASE SeRetira(k)
        <4>1. PICK e \in {"completado", "cancelado", "marcado"} :
                contratos'[k].estado = e
          BY <3>3, <3>9 DEF SeRetira, ContratoRow
        <4>2. F[k] # "inexistente" /\ F' = [F EXCEPT ![k] = e] /\ C' = C
          BY <3>1, <3>2, <3>4, <3>9, <4>1 DEF SeRetira, Existe
        <4>3. QED BY <4>2 DEF F, C, Ciclo!Next, Ciclo!Interviene, Ciclo!Inactiva
      <3>10. QED BY <2>3, <3>5, <3>6, <3>7, <3>8, <3>9 DEF Mueve
    <2>4. QED BY <2>1, <2>2, <2>3, Paso DEF IInv, UnContrato
  <1>3. QED BY <1>1, <1>2, Invariante, PTL DEF Spec, CicloCumplido, Ciclo!Spec
=============================================================================
