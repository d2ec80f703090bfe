--------------------------- MODULE Recomendacion ---------------------------
(***************************************************************************)
(* Recommendations of providers for a solicitud: the list itself, by the   *)
(* heuristic or the learnt model, and the experiment around it, the groups *)
(* of the A/B test and the log of what was recommended, answered, accepted. *)
(***************************************************************************)
EXTENDS Servidor, Sequences, FiniteSets
-----------------------------------------------------------------------------
(* The experiment.  Each user is put in a group of the A/B test the first  *)
(* time, in one JSON value of SystemConfig that is read and written whole; *)
(* each recommendation is logged with the group of the user who asked for  *)
(* it, and its answer and acceptance fed back.                             *)

CONSTANTS Usuarios,        \* users who ask for recommendations
          MaxRegistros     \* bound: rows of recommendation_logs

Grupos == {"A", "B"}
Mapas == [Usuarios -> Grupos \cup {Nada}]

\* A request remembers whom it recommends to, in which group, and with which value.
PeticionRecomendacion ==
    Peticion({"asignar", "anotar"}, {<<"ab_test_groups">>},
             [usuario: Usuarios, grupo: Grupos, mapa: Mapas, nueva: BOOLEAN]
                \cup [usuario: Usuarios, grupo: Grupos])

ASSUME NadaNoEsGrupo == Nada \notin Grupos \cup Mapas \cup PeticionRecomendacion

VARIABLES
    grupos,       \* ab_test_groups: user -> group, or Nada; Nada without the row
    registros     \* recommendation_logs: usuario, grupo, respondio, aceptado

recomendacionVars == <<grupos, registros>>

InitRecomendacion == grupos = Nada /\ registros = <<>>

GrupoDe(mapa, u) == IF mapa = Nada THEN Nada ELSE mapa[u]
ConGrupo(mapa, u, g) ==
    IF mapa = Nada THEN [v \in Usuarios |-> IF v = u THEN g ELSE Nada] ELSE [mapa EXCEPT ![u] = g]
FilaGrupos == {<<"ab_test_groups">>}
-----------------------------------------------------------------------------
\* Mutant: a group is drawn every time.
RecomendarSorteando(h, u) ==
    /\ \E g \in Grupos : Llega(h, "asignar", FilaGrupos,
            [usuario |-> u, grupo |-> g, mapa |-> ConGrupo(grupos, u, g), nueva |-> grupos = Nada])
    /\ UNCHANGED recomendacionVars

\* get_group: the group the user has, or one drawn now.
Recomendar(h, u) ==
    /\ IF GrupoDe(grupos, u) # Nada
       THEN Llega(h, "anotar", {}, [usuario |-> u, grupo |-> grupos[u]])
       ELSE \E g \in Grupos : Llega(h, "asignar", FilaGrupos,
                [usuario |-> u, grupo |-> g, mapa |-> ConGrupo(grupos, u, g),
                 nueva |-> grupos = Nada])
    /\ UNCHANGED recomendacionVars

\* set_value looks for the row again and writes the whole value.  Two first writers
\* that both miss it insert the same key, which is UNIQUE: the loser answers its
\* recommendations without a log; one that finds it by now writes over it.
CommitAsignar(h) ==
    LET d == Dato(h)
    IN  /\ EnCurso(h, "asignar")
        /\ \/ d.nueva /\ grupos # Nada /\ Falla(h) /\ UNCHANGED grupos
           \/ /\ grupos' = d.mapa
              /\ Sigue(h, FilaGrupos, "anotar", {}, [usuario |-> d.usuario, grupo |-> d.grupo])
        /\ UNCHANGED registros

Anotar(h) ==
    /\ EnCurso(h, "anotar")
    /\ Len(registros) < MaxRegistros
    /\ registros' = Append(registros, [usuario |-> Dato(h).usuario, grupo |-> Dato(h).grupo,
                                       respondio |-> FALSE, aceptado |-> FALSE])
    /\ Termina(h, {})
    /\ UNCHANGED grupos

\* mark_response, mark_accepted: one UPDATE of all the rows of the pair.
MarcarRespuesta(u, aceptada) ==
    /\ registros' = [i \in DOMAIN registros |->
            IF registros[i].usuario = u
            THEN [registros[i] EXCEPT !.respondio = TRUE, !.aceptado = @ \/ aceptada]
            ELSE registros[i]]
    /\ UNCHANGED <<grupos, servidor>>

NextRecomendacion ==
    \/ \E u \in Usuarios, b \in BOOLEAN : MarcarRespuesta(u, b)
    \/ \E h \in Hilos :
        \/ CommitAsignar(h) \/ Anotar(h)
        \/ \E u \in Usuarios : Recomendar(h, u)
-----------------------------------------------------------------------------
RecomendacionOK ==
    /\ grupos \in Mapas \cup {Nada}
    /\ registros \in Seq([usuario: Usuarios, grupo: Grupos, respondio: BOOLEAN, aceptado: BOOLEAN])
    /\ \A i \in DOMAIN registros : registros[i].aceptado => registros[i].respondio

\* Unless two first requests raced on the value: a user never changes group, so
\* all its recommendations are logged in the group it has.
GrupoEstableEnSerie ==
    ~obsoleta => \A i \in DOMAIN registros :
        GrupoDe(grupos, registros[i].usuario) = registros[i].grupo
-----------------------------------------------------------------------------
(* The list.  The feature flags choose who ranks it: the transparent       *)
(* heuristic over every complete profile, or the learnt model over those   *)
(* nearby, which gives way to the heuristic when it cannot answer; in shadow *)
(* mode the heuristic answers.                                             *)

CONSTANTS
    Proveedores,     \* users with rol PDS
    Fichas,          \* profiles: [completo, afin, estrellas, verificado, cerca]
    MaxLista         \* top_n

ASSUME ProveedoresFinitos == IsFiniteSet(Proveedores) /\ MaxLista \in Nat \ {0}

\* Stars are a number; a profile is not born complete.
ASSUME FichasConEstrellas ==
    (\A f \in Fichas : f.estrellas \in Nat) /\ (\E f \in Fichas : ~f.completo)

VARIABLES
    fichas,          \* the profile of each provider
    banderas,        \* feature flags [ml, sombra], and whether a model is trained
    respuesta        \* the last answer: [por, lista, puntos], or <<>>

clasificacionVars == <<fichas, banderas, respuesta>>

InitClasificacion ==
    /\ fichas = [p \in Proveedores |-> CHOOSE f \in Fichas : ~f.completo]
    /\ banderas = [ml |-> FALSE, sombra |-> TRUE, modelo |-> FALSE]
    /\ respuesta = <<>>

Elegibles == {p \in Proveedores : fichas[p].completo}
Cercanos == {p \in Elegibles : fichas[p].cerca}

\* In hundredths: 0.6 category, 0.3 reputation over five stars, 0.1 verified.
Afinidad(p) ==
    (IF fichas[p].afin THEN 60 ELSE 0) + 6 * fichas[p].estrellas
        + (IF fichas[p].verificado THEN 10 ELSE 0)

\* Mutant: the list is cut before it is sorted.
ListasCortadas(quienes, puntos) ==
    LET largo == IF Cardinality(quienes) < MaxLista THEN Cardinality(quienes) ELSE MaxLista
    IN  {l \in [1..largo -> quienes] :
            \A i, j \in 1..largo : i < j => l[i] # l[j] /\ puntos[l[i]] >= puntos[l[j]]}

\* Scores never increase along the list, which is cut at top_n; providers with the
\* same score come in any order.
Listas(quienes, puntos) ==
    LET largo == IF Cardinality(quienes) < MaxLista THEN Cardinality(quienes) ELSE MaxLista
    IN  {l \in [1..largo -> quienes] :
            /\ \A i, j \in 1..largo : i < j => l[i] # l[j] /\ puntos[l[i]] >= puntos[l[j]]
            /\ \A p \in quienes : p \in {l[i] : i \in 1..largo}
                                    \/ (\A i \in 1..largo : puntos[l[i]] >= puntos[p])}
-----------------------------------------------------------------------------
Heuristica ==
    LET puntos == [p \in Elegibles |-> Afinidad(p)]
    IN  {[por |-> "heuristica", lista |-> l, puntos |-> puntos] : l \in Listas(Elegibles, puntos)}

\* What the model says of a provider is any score.
Aprendida ==
    UNION {{[por |-> "modelo", lista |-> l, puntos |-> puntos] : l \in Listas(Cercanos, puntos)} :
              puntos \in [Cercanos -> {0, 50, 100}]}

\* A solicitud without coordinates, or with nobody nearby, and a model that is not
\* trained are answered by the heuristic.
Hibrida(coordenadas) ==
    IF ~coordenadas \/ Cercanos = {} \/ ~banderas.modelo THEN Heuristica ELSE Aprendida

Recomienda(coordenadas) ==
    /\ respuesta' \in IF banderas.ml /\ ~banderas.sombra THEN Hibrida(coordenadas) ELSE Heuristica
    /\ UNCHANGED <<fichas, banderas>>

\* The superadmin flips a flag; a model is trained.
CambianBanderas(b) ==
    /\ banderas' = [banderas EXCEPT ![b] = IF b = "modelo" THEN TRUE ELSE ~@]
    /\ respuesta' = <<>>
    /\ UNCHANGED fichas

\* A profile changes: it is completed, verified, rated, or its owner moves.
CambiaFicha(p, f) ==
    /\ fichas' = [fichas EXCEPT ![p] = f]
    /\ respuesta' = <<>>
    /\ UNCHANGED banderas

NextClasificacion ==
    \/ \E p \in Proveedores, f \in Fichas : CambiaFicha(p, f)
    \/ \E c \in BOOLEAN : Recomienda(c)
    \/ \E b \in {"ml", "sombra", "modelo"} : CambianBanderas(b)
-----------------------------------------------------------------------------
Listados(r) == {r.lista[i] : i \in DOMAIN r.lista}

\* Whoever answers and however it fell back: the list is not empty if some provider
\* has a complete profile, recommends no incomplete one, and leaves out nobody that
\* its author scored higher than somebody listed; and the model only speaks for
\* those nearby, with its flag on and the shadow off.
ClasificacionOK ==
    respuesta # <<>> =>
        /\ Elegibles # {} => Listados(respuesta) # {}
        /\ Listados(respuesta) \subseteq Elegibles
        /\ \A p \in DOMAIN respuesta.puntos \ Listados(respuesta), q \in Listados(respuesta) :
                respuesta.puntos[p] <= respuesta.puntos[q]
        /\ respuesta.por = "modelo" =>
                banderas.ml /\ ~banderas.sombra /\ Listados(respuesta) \subseteq Cercanos
=============================================================================
