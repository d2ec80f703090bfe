------------------------------- MODULE Cobros -------------------------------
(***************************************************************************)
(* What moves money outside the wallet: payments and disputes, milestones, *)
(* coins, the subscription, payment methods and the income certificate.    *)
(* They run on one server (Servidor) but share no row, so no step of one   *)
(* can disturb another; a behaviour is explored for each area on its own.  *)
(***************************************************************************)
EXTENDS Pagos, Hitos, Monedas, Suscripciones, MetodosPago, Certificado

VARIABLE area     \* the area that moves

Areas == {"pagos", "hitos", "monedas", "suscripcion", "metodos", "comercio", "certificado"}

vars == <<area, servidor, pagos, hitosVars, monedasVars, suscripcionVars, metodosVars,
          certificadoVars>>

Init ==
    /\ area \in Areas
    /\ InitServidor
    /\ InitPagos /\ InitHitos /\ InitMonedas /\ InitSuscripciones /\ InitMetodos
    /\ InitCertificado

EnPagos ==
    /\ area = "pagos" /\ NextPagos
    /\ UNCHANGED <<area, hitosVars, monedasVars, suscripcionVars, metodosVars, certificadoVars>>
EnHitos ==
    /\ area = "hitos" /\ NextHitos
    /\ UNCHANGED <<area, pagos, monedasVars, suscripcionVars, metodosVars, certificadoVars>>
EnMonedas ==
    /\ area = "monedas" /\ NextMonedas
    /\ UNCHANGED <<area, pagos, hitosVars, suscripcionVars, metodosVars, certificadoVars>>
EnSuscripcion ==
    /\ area = "suscripcion" /\ NextSuscripciones
    /\ UNCHANGED <<area, pagos, hitosVars, monedasVars, metodosVars, certificadoVars>>
EnMetodos ==
    /\ \/ area = "metodos" /\ NextMetodos
       \/ area = "comercio" /\ NextComercio
    /\ UNCHANGED <<area, pagos, hitosVars, monedasVars, suscripcionVars, certificadoVars>>
EnCertificado ==
    /\ area = "certificado" /\ NextCertificado
    /\ UNCHANGED <<area, servidor, pagos, hitosVars, monedasVars, suscripcionVars, metodosVars>>

Next == EnPagos \/ EnHitos \/ EnMonedas \/ EnSuscripcion \/ EnMetodos \/ EnCertificado

\* The clock runs; the beat starts the task again and again (crontab, every 30
\* minutes); a worker that starts it again and again finishes some day.
Solo(A) ==
    /\ A
    /\ UNCHANGED <<area, pagos, monedasVars, suscripcionVars, metodosVars, certificadoVars>>
Equidad ==
    /\ \A i \in 1..MaxFilasHitos : WF_vars(Solo(i \in DOMAIN hitos /\ Vence(i)))
    /\ WF_vars(Solo(TareaLee))
    /\ SF_vars(Solo(TareaCommit))

Spec == Init /\ [][Next]_vars /\ Equidad
-----------------------------------------------------------------------------
\* Types, and what survives every race: an approved milestone has its date, a
\* completed payment its charge, no coin is lost, a plan has its subscription.
CobrosOK ==
    /\ PagosOK /\ HitosOK /\ MonedasOK /\ SuscripcionesOK /\ MetodosOK
    /\ CompletadoCobrado /\ AprobadoConFecha /\ NadiePierdeMonedas /\ PlanSuscrito
    /\ VentanaContigua

\* What is unique while no request commits on rows that had changed: the open
\* dispute, the numbers of milestones, the principal payment method.
UnicosEnSerie == DisputaUnicaEnSerie /\ NumerosUnicosEnSerie /\ PrincipalEnSerie

\* The sums agree: coins with their history, the certificate with its months.
SumasCuadran == MonedasEnSerie /\ HistorialCuadra
=============================================================================
