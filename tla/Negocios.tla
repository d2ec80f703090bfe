------------------------------ MODULE Negocios ------------------------------
(***************************************************************************)
(* The directory of businesses: one business with its ratings and gallery, *)
(* and the addresses (slugs) and weekly hours as visitors see them.        *)
(***************************************************************************)
EXTENDS Servidor, Sequences, FiniteSets, Functions
-----------------------------------------------------------------------------
(* One business: its ratings with their average and count, which each rating *)
(* computes again from all of them, and its gallery, a JSON list that every *)
(* change reads and writes whole.                                          *)

CONSTANTS Autores,        \* users who may rate it
          Puntajes,       \* 1..5
          MaxImagenes,    \* images of an upload (20)
          MaxSubidas      \* bound: images ever added

ASSUME AutoresFinitos == IsFiniteSet(Autores)
ASSUME PuntajesHastaCinco == Puntajes \subseteq 1..5
ASSUME SubidasEnteras == MaxSubidas \in Nat

VARIABLES
    negocio,       \* the row [promedio, total, imagenes], or Nada once deleted
    calificado,    \* negocio_ratings: the puntaje of each author, or Nada
    subidas,       \* history: images ever added
    quitadas       \* history: images taken out

negociosVars == <<negocio, calificado, subidas, quitadas>>

InitNegocios ==
    /\ negocio = [promedio |-> 0, total |-> 0, imagenes |-> <<>>]
    /\ calificado = [a \in Autores |-> Nada]
    /\ subidas = 0 /\ quitadas = {}

Autoria(votos) == {a \in Autores : votos[a] # Nada}

\* round(promedio, 2), in hundredths.
Promedio(votos) ==
    LET n == Cardinality(Autoria(votos))
        suma == SumFunctionOnSet(votos, Autoria(votos))
    IN  IF n = 0 THEN 0 ELSE (200 * suma + n) \div (2 * n)

La(fila) == <<"negocio", fila>>

\* The business, and what requests on it remember.
NegocioRow ==
    [promedio: 0..500, total: 0..Cardinality(Autores), imagenes: Seq(1..MaxSubidas)]
PeticionNegocio ==
    Peticion({"calificar", "galeria"}, {La("ratings"), La("resumen"), La("galeria")},
             [autor: Autores, puntaje: Puntajes, cargado: NegocioRow,
              promedio: 0..500, total: 0..Cardinality(Autores)]
                \cup [lista: Seq(1..MaxSubidas), quita: SUBSET (1..MaxSubidas)])

ASSUME NadaNoEsNegocio == Nada \notin PeticionNegocio \cup NegocioRow
-----------------------------------------------------------------------------
\* UNIQUE (negocio, autor): a second insertion by one author waits and fails.
Calificando(a) == \E h \in Hilos : EnCurso(h, "calificar") /\ Dato(h).autor = a

\* Mutant: the ratings are read before the new one is flushed.
CalificarSinLaNueva(h, a, p) ==
    /\ negocio # Nada /\ calificado[a] = Nada /\ ~Calificando(a)
    /\ Llega(h, "calificar", {La("ratings"), La("resumen")},
             [autor |-> a, puntaje |-> p, cargado |-> negocio,
              promedio |-> Promedio(calificado), total |-> Cardinality(Autoria(calificado))])
    /\ UNCHANGED negociosVars

\* The rating is flushed, and all the committed ones are read with it.
CalificarNegocio(h, a, p) ==
    LET votos == [calificado EXCEPT ![a] = p]
    IN  /\ negocio # Nada /\ calificado[a] = Nada /\ ~Calificando(a)
        /\ Llega(h, "calificar", {La("ratings"), La("resumen")},
                 [autor |-> a, puntaje |-> p, cargado |-> negocio,
                  promedio |-> Promedio(votos), total |-> Cardinality(Autoria(votos))])
        /\ UNCHANGED negociosVars

CommitCalificarNegocio(h) ==
    LET d == Dato(h)
    IN  /\ EnCurso(h, "calificar")
        /\ negocio # Nada
        /\ calificado' = [calificado EXCEPT ![d.autor] = d.puntaje]
        /\ negocio' = [negocio EXCEPT
                !.promedio = IF d.promedio = d.cargado.promedio THEN @ ELSE d.promedio,
                !.total = IF d.total = d.cargado.total THEN @ ELSE d.total]
        /\ Termina(h, {La("ratings"), La("resumen")})
        /\ UNCHANGED <<subidas, quitadas>>

\* POST of an URL has no limit; the upload of a file has, and stores the file
\* before it writes the list it loaded.
AgregarImagen(h, esArchivo) ==
    /\ negocio # Nada
    /\ esArchivo => Len(negocio.imagenes) < MaxImagenes
    /\ subidas < MaxSubidas
    /\ subidas' = subidas + 1
    /\ Llega(h, "galeria", {La("galeria")},
             [lista |-> Append(negocio.imagenes, subidas'), quita |-> {}])
    /\ UNCHANGED <<negocio, calificado, quitadas>>

\* By its position in the list.
QuitarImagen(h, i) ==
    LET lista == negocio.imagenes
    IN  /\ negocio # Nada /\ i \in DOMAIN lista
        /\ Llega(h, "galeria", {La("galeria")},
                 [lista |-> SubSeq(lista, 1, i - 1) \o SubSeq(lista, i + 1, Len(lista)),
                  quita |-> {lista[i]}])
        /\ UNCHANGED negociosVars

CommitGaleria(h) ==
    /\ EnCurso(h, "galeria")
    /\ negocio # Nada
    /\ negocio' = [negocio EXCEPT !.imagenes = Dato(h).lista]
    /\ quitadas' = quitadas \cup Dato(h).quita
    /\ Termina(h, {La("galeria")})
    /\ UNCHANGED <<calificado, subidas>>

\* The ratings, hours and reports go with it.
EliminarNegocio ==
    /\ negocio # Nada
    /\ negocio' = Nada
    /\ calificado' = [a \in Autores |-> Nada]
    /\ UNCHANGED <<subidas, quitadas, servidor>>

\* An UPDATE or a foreign key that finds no business.
NegocioEliminado(h) ==
    /\ EnCurso(h, "calificar") \/ EnCurso(h, "galeria")
    /\ negocio = Nada
    /\ Falla(h)
    /\ UNCHANGED negociosVars

NextNegocios ==
    \/ EliminarNegocio
    \/ \E h \in Hilos :
        \/ CommitCalificarNegocio(h) \/ CommitGaleria(h) \/ NegocioEliminado(h)
        \/ \E a \in Autores, p \in Puntajes : CalificarNegocio(h, a, p)
        \/ \E b \in BOOLEAN : AgregarImagen(h, b)
        \/ \E i \in 1..MaxSubidas : QuitarImagen(h, i)
-----------------------------------------------------------------------------
NegociosOK ==
    /\ negocio \in NegocioRow \cup {Nada}
    /\ calificado \in [Autores -> Puntajes \cup {Nada}]
    /\ subidas \in 0..MaxSubidas /\ quitadas \subseteq 1..MaxSubidas

\* Images in a request that has not written its list.
PorSubir == UNION {{Dato(h).lista[i] : i \in DOMAIN Dato(h).lista} :
                   h \in {g \in Hilos : EnCurso(g, "galeria")}}

\* Unless a change was computed from a business that had changed: the average
\* and the count are those of the ratings, and no image is lost or comes back.
NegocioEnSerie ==
    ~obsoleta /\ negocio # Nada =>
        /\ negocio.promedio = Promedio(calificado)
        /\ negocio.total = Cardinality(Autoria(calificado))
        /\ LET puestas == {negocio.imagenes[i] : i \in DOMAIN negocio.imagenes}
           IN  /\ (1..subidas) \ (quitadas \cup PorSubir) \subseteq puestas
               /\ puestas \cap quitadas = {}
               /\ \A i, j \in DOMAIN negocio.imagenes :
                        negocio.imagenes[i] = negocio.imagenes[j] => i = j
-----------------------------------------------------------------------------
(* The directory: the address (slug) each business gets when it is created, *)
(* and the weekly hours of one of them with what they say at a given time. *)

CONSTANTS
    Titulos,       \* names of businesses, as generar_slug leaves them
    Dias,          \* weekdays
    Propuestas,    \* the hours that owners send for a day
    Cuartos,       \* times of a day, in quarters of an hour
    MaxSegundos,   \* bound on time.time()
    MaxHorarios    \* bound: updates of hours

ASSUME CuartosNaturales == Cuartos \subseteq Nat

VARIABLES
    direcciones,   \* the slugs of negocios: [base, sufijo], sufijo 0 if none
    segundo,       \* time.time()
    rechazo,       \* history: a creation failed although nobody had created a
                   \* business of that name since it looked, or in that second
    horario,       \* negocio_horarios: the row of each weekday
    enviado,       \* history: what was last sent for each weekday
    cambios        \* bound: updates of hours

directorioVars == <<direcciones, segundo, rechazo, horario, enviado, cambios>>

\* Hours are optional, open or not.
Horario == [abierto: BOOLEAN, apertura: Cuartos \cup {Nada}, cierre: Cuartos \cup {Nada}]

\* Every business is created with its seven rows, closed; nothing deletes one, so
\* that the branch of PUT that creates a missing row is never taken.
InitDirectorio ==
    /\ direcciones = {} /\ segundo = 1 /\ rechazo = FALSE
    /\ horario = [d \in Dias |-> [abierto |-> FALSE, apertura |-> Nada, cierre |-> Nada]]
    /\ enviado = horario
    /\ cambios = 0

Fila(d) == <<"horario", d>>

\* What requests of the directory remember.
Slug == [base: Titulos, sufijo: Nat]
PeticionDirectorio ==
    Peticion({"negocio", "horario"},
             {<<"slug", n>> : n \in Titulos} \cup {Fila(d) : d \in Dias},
             [slug: Slug, segundo: Nat]
                \cup [cargado: [Dias -> Horario],
                      nuevo: UNION {[ds -> Propuestas] : ds \in SUBSET Dias}])

ASSUME PropuestasSonHorarios == Propuestas \subseteq Horario
ASSUME NadaNoEsDirectorio == Nada \notin PeticionDirectorio
-----------------------------------------------------------------------------
(* Creation *)

\* Mutant: whoever comes second gets the same slug.
slug_sin_sufijo(nombre) == [base |-> nombre, sufijo |-> 0]

\* A slug that exists gets the second as its suffix.
generar_slug(nombre) ==
    [base |-> nombre,
     sufijo |-> IF \E s \in direcciones : s.base = nombre /\ s.sufijo = 0 THEN segundo ELSE 0]

CrearNegocio(h, nombre) ==
    /\ Llega(h, "negocio", {<<"slug", nombre>>}, [slug |-> generar_slug(nombre), segundo |-> segundo])
    /\ UNCHANGED directorioVars

CommitNegocio(h) ==
    LET s == Dato(h).slug
    IN  /\ EnCurso(h, "negocio")
        /\ s \notin direcciones
        /\ direcciones' = direcciones \cup {s}
        /\ Termina(h, {<<"slug", s.base>>})
        /\ UNCHANGED <<segundo, rechazo, horario, enviado, cambios>>

\* UNIQUE slug.
SlugRepetido(h) ==
    LET d == Dato(h)
    IN  /\ EnCurso(h, "negocio")
        /\ d.slug \in direcciones
        /\ rechazo' = (rechazo \/ (~peticion[h].vieja /\ d.slug.sufijo # d.segundo))
        /\ Falla(h)
        /\ UNCHANGED <<direcciones, segundo, horario, enviado, cambios>>

PasaSegundo ==
    /\ segundo < MaxSegundos
    /\ segundo' = segundo + 1
    /\ UNCHANGED <<direcciones, rechazo, horario, enviado, cambios, servidor>>
-----------------------------------------------------------------------------
(* Hours *)

\* PUT of some days.
CambiarHorario(h, nuevo) ==
    /\ cambios < MaxHorarios
    /\ cambios' = cambios + 1
    /\ Llega(h, "horario", {Fila(d) : d \in DOMAIN nuevo}, [cargado |-> horario, nuevo |-> nuevo])
    /\ UNCHANGED <<direcciones, segundo, rechazo, horario, enviado>>

SoloLoCambiado(antes, nueva, fila) ==
    [c \in DOMAIN nueva |-> IF nueva[c] = antes[c] THEN fila[c] ELSE nueva[c]]

\* Mutant: only the days that open are written.
CommitHorarioAbiertos(h) ==
    LET d == Dato(h)
    IN  /\ EnCurso(h, "horario")
        /\ horario' = [x \in Dias |->
                IF x \in DOMAIN d.nuevo /\ d.nuevo[x].abierto
                THEN SoloLoCambiado(d.cargado[x], d.nuevo[x], horario[x]) ELSE horario[x]]
        /\ enviado' = [x \in Dias |-> IF x \in DOMAIN d.nuevo THEN d.nuevo[x] ELSE enviado[x]]
        /\ Termina(h, {Fila(x) : x \in DOMAIN d.nuevo})
        /\ UNCHANGED <<direcciones, segundo, rechazo, cambios>>

\* Only the columns that differ from the loaded ones are written.
CommitHorario(h) ==
    LET d == Dato(h)
    IN  /\ EnCurso(h, "horario")
        /\ horario' = [x \in Dias |->
                IF x \in DOMAIN d.nuevo
                THEN SoloLoCambiado(d.cargado[x], d.nuevo[x], horario[x]) ELSE horario[x]]
        /\ enviado' = [x \in Dias |-> IF x \in DOMAIN d.nuevo THEN d.nuevo[x] ELSE enviado[x]]
        /\ Termina(h, {Fila(x) : x \in DOMAIN d.nuevo})
        /\ UNCHANGED <<direcciones, segundo, rechazo, cambios>>

\* What a day's row says at time t; a closing time before the opening one never
\* opens, and "closes soon" is at most half an hour away.
esta_abierto(fila, t) ==
    /\ fila.abierto
    /\ fila.apertura # Nada /\ fila.cierre # Nada
    /\ fila.apertura <= t /\ t <= fila.cierre

\* Mutant: it warns only at the time of closing.
cierra_ya(fila, t) == esta_abierto(fila, t) /\ fila.cierre - t <= 0

cierra_pronto(fila, t) == esta_abierto(fila, t) /\ fila.cierre - t <= 2

NextDirectorio ==
    \/ PasaSegundo
    \/ \E h \in Hilos :
        \/ CommitNegocio(h) \/ SlugRepetido(h) \/ CommitHorario(h)
        \/ \E n \in Titulos : CrearNegocio(h, n)
        \/ \E ds \in SUBSET Dias \ {{}} : \E nuevo \in [ds -> Propuestas] : CambiarHorario(h, nuevo)
-----------------------------------------------------------------------------
\* A visitor who is not told that a business closes soon finds it open half an
\* hour later; and a creation is refused only to somebody who was overtaken, or
\* came in the second in which the name had been taken with a suffix.
DirectorioOK ==
    /\ horario \in [Dias -> Horario]
    /\ \A d \in Dias, t \in Cuartos :
            esta_abierto(horario[d], t) /\ ~cierra_pronto(horario[d], t) =>
                esta_abierto(horario[d], t + 2)
    /\ ~rechazo

\* Unless requests raced, each day has the hours last sent for it.
HorarioEnSerie == ~obsoleta => horario = enviado
=============================================================================
