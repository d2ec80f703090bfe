---------------------------- MODULE MCPlataforma ----------------------------
(* The instance of Plataforma that TLC checks.  Slots of requests are       *)
(* interchangeable, and no property is a liveness one: symmetry is sound.   *)
EXTENDS Plataforma, TLC

CONSTANTS h1, h2

DosHilos == {h1, h2}
Simetria == Permutations(DosHilos)
CotaCodigos == "desafio" :> 1 @@ "celular" :> 2
RutaDosNiveles == 0 :> "quiz" @@ 1 :> "certificacion"
DosInsignias == <<"primer_contrato", "verificado">>

\* "norte y sur" names departments of two regions, and "otro" of none.
DosTextos == "norte y sur" :> {"n", "s"} @@ "otro" :> {}
DosRegiones == <<{"n"}, {"s"}>>

\* Hours in quarters: by day, over midnight, open without times, closed.
Horas(a, desde, hasta) == [abierto |-> a, apertura |-> desde, cierre |-> hasta]
CuatroHorarios == {Horas(TRUE, 1, 5), Horas(TRUE, 5, 1), Horas(TRUE, Nada, Nada),
                   Horas(FALSE, Nada, Nada)}

\* Profiles that differ in what ranks them.
Ficha(c, a, e, v, z) ==
    [completo |-> c, afin |-> a, estrellas |-> e, verificado |-> v, cerca |-> z]
CincoFichas == {Ficha(FALSE, TRUE, 5, TRUE, TRUE), Ficha(TRUE, TRUE, 0, FALSE, FALSE),
                Ficha(TRUE, FALSE, 5, TRUE, TRUE), Ficha(TRUE, TRUE, 4, TRUE, TRUE),
                Ficha(TRUE, FALSE, 0, FALSE, TRUE)}

\* A provider of no level, and one at the highest score there is.
Hecho(v, estrellas10, n) == [verificado |-> v, promedio |-> estrellas10, contratos |-> n]
TresSituaciones == {Hecho(FALSE, 0, 0), Hecho(TRUE, 40, 0), Hecho(TRUE, 50, 60)}

\* One scale at which the script does not end, and every second of its documentation.
EscalasDeAyuda == {25} \cup {100 + 20 * i : i \in 0..45}
=============================================================================
