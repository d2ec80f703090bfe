------------------------------- MODULE Perfil -------------------------------
(***************************************************************************)
(* What others see of one user: the profile with its ratings, setup and    *)
(* badges, and the trust score.                                            *)
(***************************************************************************)
EXTENDS Servidor, Sequences, FiniteSets, Functions
-----------------------------------------------------------------------------
(* The profile: the ratings of its works with the average that each rating *)
(* computes again, the moderation of ratings, the guided setup and badges. *)

CONSTANTS Resenas,       \* (solicitud, autor) pairs that may rate the user
          Notables,      \* badges, in the order in which they are awarded
          Estrellas,     \* 1..5
          Pasos          \* steps of the guided setup (a negative one changes nothing)

ASSUME ResenasFinitas == IsFiniteSet(Resenas)
ASSUME EstrellasHastaCinco == Estrellas \subseteq 1..5
ASSUME PasosEnteros == Pasos \subseteq Nat
ASSUME NotablesEnOrden == DOMAIN Notables \subseteq Nat

VARIABLES
    resenas,       \* ratings_solicitud: the puntaje of each pair, or Nada
    perfil,        \* the row of profiles
    moderada       \* history: a rating was deleted since the last computation

perfilVars == <<resenas, perfil, moderada>>

InitPerfil ==
    /\ resenas = [r \in Resenas |-> Nada]
    /\ perfil = [promedio |-> 0, insignias |-> <<>>, paso |-> 0, terminado |-> FALSE]
    /\ moderada = FALSE

Hechas(votos) == {r \in Resenas : votos[r] # Nada}

\* sum / len, in 60ths: exact for up to six ratings.
Media(votos) ==
    IF Hechas(votos) = {} THEN 0
    ELSE (60 * SumFunctionOnSet(votos, Hechas(votos))) \div Cardinality(Hechas(votos))

Ultimo == 999
Del(fila) == <<"perfil", fila>>

\* The badges that a list may show, and what requests on a profile remember.
Vitrina == {<<>>} \cup {<<Notables[i]>> : i \in DOMAIN Notables}
PerfilRow ==
    [promedio: 0..300, insignias: Vitrina, paso: Pasos \cup {0, Ultimo}, terminado: BOOLEAN]
PeticionPerfil ==
    Peticion({"resena", "paso", "premio"},
             {Del("resenas"), Del("promedio"), Del("paso"), Del("insignias")},
             [resena: Resenas, puntaje: Estrellas, promedio: 0..300, cargado: 0..300]
                \cup [cargado: Pasos \cup {0, Ultimo}, paso: Pasos \cup {0, Ultimo}]
                \cup [termina: BOOLEAN, paso: {Ultimo, Nada}, insignias: Vitrina \cup {Nada}])

ASSUME NadaNoEsPerfil == Nada \notin PeticionPerfil \cup Vitrina
-----------------------------------------------------------------------------
(* Ratings *)

\* UNIQUE (service, autor): a second insertion waits for the first, and fails.
Resenando(r) == \E h \in Hilos : EnCurso(h, "resena") /\ Dato(h).resena = r

\* Mutant: the average is taken before the new rating is flushed.
ResenarSinLaNueva(h, r, p) ==
    /\ resenas[r] = Nada /\ ~Resenando(r)
    /\ Llega(h, "resena", {Del("resenas"), Del("promedio")},
             [resena |-> r, puntaje |-> p, promedio |-> Media(resenas),
              cargado |-> perfil.promedio])
    /\ UNCHANGED perfilVars

\* The solicitud is completed and the pair has not rated.
Resenar(h, r, p) ==
    /\ resenas[r] = Nada /\ ~Resenando(r)
    /\ Llega(h, "resena", {Del("resenas"), Del("promedio")},
             [resena |-> r, puntaje |-> p, promedio |-> Media([resenas EXCEPT ![r] = p]),
              cargado |-> perfil.promedio])
    /\ UNCHANGED perfilVars

CommitResenar(h) ==
    LET d == Dato(h)
    IN  /\ EnCurso(h, "resena")
        /\ resenas' = [resenas EXCEPT ![d.resena] = d.puntaje]
        /\ perfil' = [perfil EXCEPT !.promedio = IF d.promedio = d.cargado THEN @ ELSE d.promedio]
        /\ moderada' = FALSE
        /\ Termina(h, {Del("resenas"), Del("promedio")})

\* hide only sets reportado, which nothing reads; delete leaves the average.
BorrarResena(r) ==
    /\ resenas[r] # Nada
    /\ resenas' = [resenas EXCEPT ![r] = Nada]
    /\ moderada' = TRUE
    /\ Escriben({Del("resenas")})
    /\ UNCHANGED perfil
-----------------------------------------------------------------------------
(* Guided setup and badges *)

\* Badges are awarded in the order of Notables.
Primera(ganadas) ==
    CHOOSE i \in DOMAIN Notables :
        /\ Notables[i] \in ganadas
        /\ \A j \in DOMAIN Notables : Notables[j] \in ganadas => i <= j

\* award_badge adds to the list it loaded.  Into an empty list it puts a new
\* list, which is written; to any other it appends in place, which the session
\* does not see: of several, only a first badge is written.
Premia(insignias, ganadas) ==
    IF insignias = <<>> /\ ganadas # {} THEN <<Notables[Primera(ganadas)]>> ELSE insignias

AvanzarPaso(h, n) ==
    /\ Llega(h, "paso", {Del("paso")},
             [cargado |-> perfil.paso, paso |-> IF n > perfil.paso THEN n ELSE perfil.paso])
    /\ UNCHANGED perfilVars

CommitPaso(h) ==
    LET d == Dato(h)
    IN  /\ EnCurso(h, "paso")
        /\ perfil' = [perfil EXCEPT !.paso = IF d.paso = d.cargado THEN @ ELSE d.paso]
        /\ Termina(h, {Del("paso")})
        /\ UNCHANGED <<resenas, moderada>>

\* The end of the setup, an edition of the profile or a confirmed contract award
\* every badge earned (an input: the facts belong to other components).  What
\* keeps its loaded value (Nada) is not written.
Premiar(h, termina, ganadas) ==
    /\ Llega(h, "premio", {Del("paso"), Del("insignias")},
             [termina |-> termina,
              paso |-> IF termina /\ perfil.paso # Ultimo THEN Ultimo ELSE Nada,
              insignias |-> IF Premia(perfil.insignias, ganadas) = perfil.insignias THEN Nada
                            ELSE Premia(perfil.insignias, ganadas)])
    /\ UNCHANGED perfilVars

CommitPremiar(h) ==
    LET d == Dato(h)
    IN  /\ EnCurso(h, "premio")
        /\ perfil' = [perfil EXCEPT
                !.terminado = @ \/ d.termina,
                !.paso = IF d.paso = Nada THEN @ ELSE d.paso,
                !.insignias = IF d.insignias = Nada THEN @ ELSE d.insignias]
        /\ Termina(h, {Del("paso"), Del("insignias")})
        /\ UNCHANGED <<resenas, moderada>>

NextPerfil ==
    \/ \E r \in Resenas : BorrarResena(r)
    \/ \E h \in Hilos :
        \/ CommitResenar(h) \/ CommitPaso(h) \/ CommitPremiar(h)
        \/ \E r \in Resenas, p \in Estrellas : Resenar(h, r, p)
        \/ \E n \in Pasos : AvanzarPaso(h, n)
        \/ \E b \in BOOLEAN, ganadas \in SUBSET {Notables[i] : i \in DOMAIN Notables} :
                Premiar(h, b, ganadas)
-----------------------------------------------------------------------------
PerfilOK ==
    /\ resenas \in [Resenas -> Estrellas \cup {Nada}]
    /\ perfil \in PerfilRow /\ moderada \in BOOLEAN

\* Unless requests raced: the average is that of the ratings (or one of them was
\* deleted after it was computed), and a finished setup is at its last step (or
\* at a step that the schema lets the front end send beyond it).
PerfilEnSerie ==
    ~obsoleta =>
        /\ moderada \/ perfil.promedio = Media(resenas)
        /\ perfil.terminado => perfil.paso >= Ultimo
-----------------------------------------------------------------------------
(* The trust score of one provider: a row with a snapshot of what it was   *)
(* computed from, recomputed when somebody asks after an hour, by request  *)
(* or for everybody, and an answer that is memoized for an hour.  No       *)
(* handler calls the service: its callers are the tests of the repository. *)

CONSTANTS
    Hechos,       \* situations: [verificado, promedio (tenths of a star),
                  \* contratos (completed)]
    MaxVersiones  \* bound: computations

VARIABLES
    hechos,       \* what other components know of the provider
    confianza,    \* the row of trust_scores, or Nada
    reciente,     \* the row was written less than an hour ago
    memo,         \* the memoized answer, or Nada
    calculos      \* history: [hechos: committed computations,
                  \*           masivo: recalculate_all wrote after the memo was stored]

confianzaVars == <<hechos, confianza, reciente, memo, calculos>>

\* Nobody approves an item of a portfolio, and _contar_referidos is 0.
SinHechos == [verificado |-> FALSE, promedio |-> 0, contratos |-> 0]
Situaciones == [verificado: BOOLEAN, promedio: Nat, contratos: Nat]
ASSUME HechosPosibles == SinHechos \in Hechos /\ Hechos \subseteq Situaciones

Menor(a, b) == IF a < b THEN a ELSE b

\* The weighted sum, in ten-thousandths: 0.25 KYC, 0.25 rating, 0.20 contracts.
Puntua(x) ==
    (IF x.verificado THEN 2500 ELSE 0)
        + 50 * Menor(x.promedio, 50) + 40 * Menor(x.contratos, 50)

\* With what is known of a provider no sum exceeds 0.70.
Puntuaciones == 0..7000

Umbral == [experto |-> 8000, verificado |-> 6000, confiable |-> 4000, nuevo |-> 0]
NivelDe(puntos) ==
    CHOOSE n \in DOMAIN Umbral :
        /\ puntos >= Umbral[n]
        /\ \A m \in DOMAIN Umbral : puntos >= Umbral[m] => Umbral[m] <= Umbral[n]

\* Who asks for a computation; a row, and what requests about it remember.
Motivos == {"consulta", "peticion", "masivo"}
ConfianzaRow ==
    [de: Situaciones, puntuacion: Puntuaciones, nivel: DOMAIN Umbral \ {"experto"}, version: Nat \ {0}]
PeticionConfianza ==
    Peticion({"crear", "calculo", "respuesta"}, {"confianza"},
             Motivos \cup ConfianzaRow \cup [para: Motivos, cargada: ConfianzaRow, de: Situaciones])

ASSUME NadaNoEsConfianza == Nada \notin PeticionConfianza \cup ConfianzaRow

FilaNueva == [de |-> SinHechos, puntuacion |-> 0, nivel |-> "nuevo", version |-> 1]

InitConfianza ==
    /\ hechos = SinHechos
    /\ confianza = Nada /\ reciente = FALSE /\ memo = Nada
    /\ calculos = [hechos |-> 0, masivo |-> FALSE]
-----------------------------------------------------------------------------
CambianHechos(x) ==
    /\ hechos' = x
    /\ UNCHANGED <<confianza, reciente, memo, calculos, servidor>>

PasaUnaHora ==
    /\ reciente' = FALSE /\ memo' = Nada
    /\ UNCHANGED <<hechos, confianza, calculos, servidor>>

\* get_or_create commits a row of zeros before anything is computed.  Its date is
\* that of its creation: get_trust finds it recent, and does not compute.
CrearFila(h, para) ==
    /\ confianza = Nada
    /\ \A g \in Hilos : ~EnCurso(g, "crear")
    /\ Llega(h, "crear", {}, para)
    /\ UNCHANGED confianzaVars

CommitFila(h) ==
    /\ EnCurso(h, "crear")
    /\ confianza' = FilaNueva /\ reciente' = TRUE
    /\ IF Dato(h) = "consulta"
       THEN Sigue(h, {}, "respuesta", {"confianza"}, FilaNueva)
       ELSE Sigue(h, {}, "calculo", {"confianza"},
                  [para |-> Dato(h), cargada |-> FilaNueva, de |-> hechos])
    /\ UNCHANGED <<hechos, memo, calculos>>

\* recalculate and recalculate_all: the facts are read with the row.
Calcular(h, para) ==
    /\ confianza # Nada
    /\ calculos.hechos < MaxVersiones
    /\ para = "consulta" => ~reciente /\ memo = Nada
    /\ Llega(h, "calculo", {"confianza"}, [para |-> para, cargada |-> confianza, de |-> hechos])
    /\ UNCHANGED confianzaVars

\* What a computation writes: the columns that differ from the loaded ones.
Cambia(antes, ahora, fila) == IF ahora = antes THEN fila ELSE ahora
Fundida(antes, ahora, fila) ==
    [verificado |-> Cambia(antes.verificado, ahora.verificado, fila.verificado),
     promedio |-> Cambia(antes.promedio, ahora.promedio, fila.promedio),
     contratos |-> Cambia(antes.contratos, ahora.contratos, fila.contratos)]

\* Mutant: the level is that of the score before.
RecalculadaNivelViejo(d, fila) ==
    LET c == d.cargada
        puntos == Puntua(d.de)
    IN  [de |-> Fundida(c.de, d.de, fila.de),
         puntuacion |-> Cambia(c.puntuacion, puntos, fila.puntuacion),
         nivel |-> Cambia(c.nivel, NivelDe(c.puntuacion), fila.nivel),
         version |-> c.version + 1]

Recalculada(d, fila) ==
    LET c == d.cargada
        puntos == Puntua(d.de)
    IN  [de |-> Fundida(c.de, d.de, fila.de),
         puntuacion |-> Cambia(c.puntuacion, puntos, fila.puntuacion),
         nivel |-> Cambia(c.nivel, NivelDe(puntos), fila.nivel),
         version |-> c.version + 1]

\* A query goes on to answer and memoize; recalculate drops the memoized answer,
\* recalculate_all does not.
CommitCalculo(h) ==
    LET d == Dato(h)
    IN  /\ EnCurso(h, "calculo")
        /\ confianza' = Recalculada(d, confianza)
        /\ reciente' = TRUE
        /\ memo' = IF d.para = "peticion" THEN Nada ELSE memo
        /\ calculos' = [hechos |-> calculos.hechos + 1,
                        masivo |-> IF d.para = "peticion" THEN FALSE
                                   ELSE calculos.masivo \/ d.para = "masivo"]
        /\ IF d.para = "consulta"
           THEN Sigue(h, {"confianza"}, "respuesta", {"confianza"}, confianza')
           ELSE Termina(h, {"confianza"})
        /\ UNCHANGED hechos

\* A row of less than an hour is answered as it is.
Consultar(h) ==
    /\ confianza # Nada /\ reciente /\ memo = Nada
    /\ Llega(h, "respuesta", {"confianza"}, confianza)
    /\ UNCHANGED confianzaVars

Memorizar(h) ==
    /\ EnCurso(h, "respuesta")
    /\ memo' = Dato(h)
    /\ calculos' = [calculos EXCEPT !.masivo = FALSE]
    /\ Termina(h, {})
    /\ UNCHANGED <<hechos, confianza, reciente>>

NextConfianza ==
    \/ PasaUnaHora
    \/ \E x \in Hechos : CambianHechos(x)
    \/ \E h \in Hilos :
        \/ CommitFila(h) \/ CommitCalculo(h) \/ Consultar(h) \/ Memorizar(h)
        \/ \E para \in Motivos : CrearFila(h, para) \/ Calcular(h, para)
-----------------------------------------------------------------------------
ConfianzaOK ==
    /\ hechos \in Hechos /\ reciente \in BOOLEAN
    /\ calculos \in [hechos: Nat, masivo: BOOLEAN]
    /\ memo \in ConfianzaRow \cup {Nada}
    /\ confianza # Nada =>
        confianza \in ConfianzaRow /\ confianza.version \in 1..(calculos.hechos + 1)

\* Unless two computations raced: the score and the level are those of the
\* snapshot they are stored with, the version counts the computations, and the
\* memoized answer is the row, or about to be replaced by it (unless everybody was
\* recomputed meanwhile).
ConfianzaEnSerie ==
    ~obsoleta /\ confianza # Nada =>
        /\ confianza.puntuacion = Puntua(confianza.de)
        /\ confianza.nivel = NivelDe(confianza.puntuacion)
        /\ confianza.version = calculos.hechos + 1
        /\ memo # Nada =>
            \/ memo = confianza \/ calculos.masivo
            \/ \E h \in Hilos : EnCurso(h, "respuesta") /\ Dato(h) = confianza
=============================================================================
