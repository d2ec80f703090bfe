---------------------------- MODULE Certificado ----------------------------
(***************************************************************************)
(* The income certificate of one provider: the total of the completed      *)
(* payments and a history of the last twelve months, computed on request   *)
(* while months pass, payments are completed and refunded.                 *)
(***************************************************************************)
EXTENDS Naturals, Sequences, Functions

CONSTANTS
    Inicio,        \* the month the run starts in: <<year, month>>
    Netos,         \* what a payment leaves the provider (monto - comision_pds)
    MaxMeses,      \* bound: months that pass
    MaxIngresos    \* bound: payments

ASSUME InicioEsMes == Inicio \in Nat \X (1..12) /\ Inicio[1] > 2
ASSUME NetosNaturales == Netos \subseteq Nat

VARIABLES
    hoy,        \* the current month
    pasados,    \* history: months that passed
    ingresos    \* the payments: month of creation, net amount, estado

certificadoVars == <<hoy, pasados, ingresos>>

InitCertificado == hoy = Inicio /\ pasados = 0 /\ ingresos = <<>>
-----------------------------------------------------------------------------
\* Mutant: a window that forgets to take a year back.
MesesSinAnio(mes) ==
    [k \in 1..12 |-> LET m == mes[2] + k
                     IN  IF m > 12 THEN <<mes[1], m - 12>> ELSE <<mes[1], m>>]

\* The last 12 months up to mes, ascending: mes[2] - 11, ..., mes[2], with 12
\* added and a year taken while the month is not positive.
MesesVentana(mes) ==
    [k \in 1..12 |-> LET m == mes[2] + k
                     IN  IF m > 12 THEN <<mes[1], m - 12>> ELSE <<mes[1] - 1, m>>]

MesSiguiente(mes) == IF mes[2] = 12 THEN <<mes[1] + 1, 1>> ELSE <<mes[1], mes[2] + 1>>

SumaDe(ids) == SumFunctionOnSet([i \in DOMAIN ingresos |-> ingresos[i].neto], ids)
Completados == {i \in DOMAIN ingresos : ingresos[i].estado = "completado"}

\* A payment counts in the month that starts at mes and ends before the next.
MesAntes(a, b) == a[1] < b[1] \/ (a[1] = b[1] /\ a[2] < b[2])
IngresoDelMes(mes) ==
    SumaDe({i \in Completados :
                ~MesAntes(ingresos[i].mes, mes) /\ MesAntes(ingresos[i].mes, MesSiguiente(mes))})

historial == [k \in 1..12 |-> IngresoDelMes(MesesVentana(hoy)[k])]
total_ingresos == SumaDe(Completados)
-----------------------------------------------------------------------------
PasaMes ==
    /\ pasados < MaxMeses
    /\ pasados' = pasados + 1
    /\ hoy' = MesSiguiente(hoy)
    /\ UNCHANGED ingresos

SeCrea ==
    /\ Len(ingresos) < MaxIngresos
    /\ \E n \in Netos :
        ingresos' = Append(ingresos, [mes |-> hoy, neto |-> n, estado |-> "pendiente"])
    /\ UNCHANGED <<hoy, pasados>>

\* Completed or refunded in any month after (module Pagos).
SePagaOReembolsa ==
    /\ \E i \in DOMAIN ingresos, e \in {"completado", "reembolsado"} :
        /\ ingresos[i].estado # "reembolsado"
        /\ ingresos' = [ingresos EXCEPT ![i].estado = e]
    /\ UNCHANGED <<hoy, pasados>>

NextCertificado == PasaMes \/ SeCrea \/ SePagaOReembolsa

\* The history counts once every completed payment of the last twelve months
\* and no other: what is missing of the total is older than the window.
HistorialCuadra ==
    SumFunctionOnSet(historial, 1..12)
        = SumaDe({i \in Completados : ~MesAntes(ingresos[i].mes, MesesVentana(hoy)[1])})

\* The months of the window follow one another and end today.
VentanaContigua ==
    LET v == MesesVentana(hoy)
    IN  v[12] = hoy /\ \A k \in 1..11 : v[k + 1] = MesSiguiente(v[k])
=============================================================================
