------------------------------- MODULE Monedas -------------------------------
(***************************************************************************)
(* The coins of one user: rows that are granted when a package is bought   *)
(* or a service completed, and drained kind by kind when coins are used    *)
(* (by the user's request, or by an acceptance under modality B).          *)
(***************************************************************************)
EXTENDS Servidor, Sequences, Functions

CONSTANTS
    Paquetes,      \* coins of each package, its bonus included
    Ganadas,       \* coins a completed contract grants
    Usos,          \* quantities asked for; the schema wants at least 1
    MaxMonedas     \* bound: rows

ASSUME CantidadesPositivas == Paquetes \cup Ganadas \cup Usos \subseteq Nat \ {0}

\* The kinds, in the order in which they are spent.  No handler grants
\* promotional coins, so the task that expires them finds none.
TipoMoneda == {"promocional", "ganada", "comprada"}
Turno == [promocional |-> 1, ganada |-> 2, comprada |-> 3]
CoinRow == [tipo: TipoMoneda, cantidad: Nat]

PeticionUso ==
    Peticion({"usar"}, {"coin"} \X Nat, [usa: Nat, leidas: Seq(Nat), deja: Seq(Nat)])

ASSUME NadaNoEsUso == Nada \notin PeticionUso

VARIABLES
    monedas,     \* the rows in coins, by id
    otorgadas,   \* history: coins granted
    gastadas     \* history: coins spent by committed uses

monedasVars == <<monedas, otorgadas, gastadas>>

InitMonedas == monedas = <<>> /\ otorgadas = 0 /\ gastadas = 0

Coin(i) == <<"coin", i>>
SumaEn(filas, ids) == SumFunctionOnSet([i \in DOMAIN filas |-> filas[i].cantidad], ids)
Suma(filas) == SumaEn(filas, DOMAIN filas)
-----------------------------------------------------------------------------
\* An INSERT, which depends on nothing that was loaded.
Otorga(tipo, n) ==
    /\ Len(monedas) < MaxMonedas
    /\ monedas' = Append(monedas, [tipo |-> tipo, cantidad |-> n])
    /\ otorgadas' = otorgadas + n
    /\ UNCHANGED <<gastadas, servidor>>

ComprarMonedas == \E n \in Paquetes : Otorga("comprada", n)
GanarMonedas == \E n \in Ganadas : Otorga("ganada", n)

\* The rows drained before row i; those of one kind in the order of their ids.
Anteriores(filas, i) ==
    {j \in DOMAIN filas :
        \/ Turno[filas[j].tipo] < Turno[filas[i].tipo]
        \/ filas[j].tipo = filas[i].tipo /\ j < i}

\* Mutant: a row that does not suffice is drained for nothing.
DejaRegalada(filas, n, i) ==
    LET c == filas[i].cantidad
        previas == SumaEn(filas, Anteriores(filas, i))
    IN  IF previas >= n THEN c ELSE 0

\* What n coins leave of row i.
Deja(filas, n, i) ==
    LET c == filas[i].cantidad
        previas == SumaEn(filas, Anteriores(filas, i))
    IN  IF previas >= n THEN c ELSE IF previas + c <= n THEN 0 ELSE previas + c - n

\* All rows are loaded once; the amounts written are computed from them.
UsarMonedas(h, n) ==
    /\ Suma(monedas) >= n
    /\ Llega(h, "usar", {Coin(i) : i \in DOMAIN monedas},
             [usa |-> n, leidas |-> [i \in DOMAIN monedas |-> monedas[i].cantidad],
              deja |-> [i \in DOMAIN monedas |-> Deja(monedas, n, i)]])
    /\ UNCHANGED monedasVars

\* Only the rows whose amount changed are written.
CommitUso(h) ==
    LET d == Dato(h)
        escritas == {i \in DOMAIN d.deja : d.deja[i] # d.leidas[i]}
    IN  /\ EnCurso(h, "usar")
        /\ monedas' = [i \in DOMAIN monedas |->
                IF i \in escritas THEN [monedas[i] EXCEPT !.cantidad = d.deja[i]] ELSE monedas[i]]
        /\ gastadas' = gastadas + d.usa
        /\ Termina(h, {Coin(i) : i \in escritas})
        /\ UNCHANGED otorgadas

NextMonedas ==
    \/ ComprarMonedas
    \/ GanarMonedas
    \/ \E h \in Hilos : CommitUso(h) \/ \E n \in Usos : UsarMonedas(h, n)

MonedasOK == monedas \in Seq(CoinRow) /\ otorgadas \in Nat /\ gastadas \in Nat

\* While no use committed on rows that had changed, the rows hold exactly what
\* was granted and not spent.
MonedasEnSerie == ~obsoleta => Suma(monedas) + gastadas = otorgadas

\* Whatever races, no user loses coins that no use asked for.
NadiePierdeMonedas == Suma(monedas) + gastadas >= otorgadas
=============================================================================
