------------------------------ MODULE Regiones ------------------------------
(***************************************************************************)
(* The region of each user: derived from the zone of its profile or the    *)
(* place of a solicitud it publishes, decided by the superadmin for the    *)
(* staff, and derived again for everybody by a reindexing.  The place of a *)
(* staff member bounds the cases it may work on.                           *)
(***************************************************************************)
EXTENDS Servidor, Sequences

CONSTANTS
    Gente,          \* users
    Textos,         \* places that users write
    Nombra,         \* text -> the departments it contains, in lower case
    Catalogo,       \* regions: the departments of each, by id
    MaxMudanzas     \* bound: texts written

Region == DOMAIN Catalogo

ASSUME RegionesNumeradas == Region \subseteq Nat

VARIABLES
    personas,    \* users and profiles: [interno, zona, ubicacion, region]
    decidida,    \* history: the region each one had when it joined the staff, or
                 \* was given there by the superadmin
    indexada,    \* history: everybody was reindexed, and nothing moved since
    mudanzas     \* bound: texts written

regionesVars == <<personas, decidida, indexada, mudanzas>>

InitRegiones ==
    /\ personas = [u \in Gente |->
           [interno |-> FALSE, zona |-> Nada, ubicacion |-> Nada, region |-> Nada]]
    /\ decidida = [u \in Gente |-> Nada]
    /\ indexada = FALSE /\ mudanzas = 0

Coinciden(texto) == {r \in Region : Catalogo[r] \cap Nombra[texto] # {}}

\* The first region, by id, one of whose departments appears in the text.
match_region(texto) ==
    IF texto = Nada \/ Coinciden(texto) = {} THEN Nada
    ELSE CHOOSE r \in Coinciden(texto) : \A s \in Coinciden(texto) : r <= s

\* What a request assigns to the user it loaded: never to staff, and nothing when
\* no region matches.  Without a text it takes the zone.
assign_region(p, texto) ==
    LET r == match_region(IF texto = Nada THEN p.zona ELSE texto)
    IN  IF p.interno \/ r = Nada THEN p.region ELSE r

De(fila, u) == <<fila, u>>

\* All the rows that a reindexing loads.
FilasDeGente == {De(f, u) : f \in {"user", "perfil", "solicitudes"}, u \in Gente}

\* A user, and what requests on users remember.
Persona == [interno: BOOLEAN, zona: Textos \cup {Nada}, ubicacion: Textos \cup {Nada},
            region: Region \cup {Nada}]
PeticionRegion ==
    Peticion({"zona", "staff", "reindexar"}, FilasDeGente,
             [u: Gente, cargada: Persona, zona: Textos \cup {Nada},
              ubicacion: Textos \cup {Nada}, region: Region \cup {Nada}]
                \cup [u: Gente, cargada: Region \cup {Nada}, nueva: Region \cup {Nada}]
                \cup [cargadas: [Gente -> Persona], regiones: [Gente -> Region \cup {Nada}]])

ASSUME NadaNoEsRegion == Nada \notin PeticionRegion

SiEscribe(antes, ahora, fila) == IF ahora = antes THEN fila ELSE ahora
-----------------------------------------------------------------------------
\* What a request will write of user u: its zone or the place of a new solicitud
\* (Nada: none), and the region that follows.
Escribira(u, zona, ubicacion) ==
    LET p == IF zona = Nada THEN personas[u] ELSE [personas[u] EXCEPT !.zona = zona]
    IN  [u |-> u, cargada |-> personas[u], zona |-> zona, ubicacion |-> ubicacion,
         region |-> assign_region(p, IF zona = Nada THEN ubicacion ELSE zona)]

\* The profile is edited, or a step of the guided setup gives a zone.
EditarZona(h, u, texto) ==
    /\ mudanzas < MaxMudanzas /\ mudanzas' = mudanzas + 1
    /\ Llega(h, "zona", {De("user", u), De("perfil", u)}, Escribira(u, texto, Nada))
    /\ UNCHANGED <<personas, decidida, indexada>>

\* A solicitud is published, by no staff: its place decides, whatever the zone says.
PublicarEn(h, u, texto) ==
    /\ ~personas[u].interno
    /\ mudanzas < MaxMudanzas /\ mudanzas' = mudanzas + 1
    /\ Llega(h, "zona", {De("user", u)}, Escribira(u, Nada, texto))
    /\ UNCHANGED <<personas, decidida, indexada>>

CommitZona(h) ==
    LET d == Dato(h)
        p == personas[d.u]
    IN  /\ EnCurso(h, "zona")
        /\ personas' = [personas EXCEPT ![d.u] =
                [p EXCEPT !.zona = IF d.zona \in {Nada, d.cargada.zona} THEN @ ELSE d.zona,
                          !.ubicacion = IF d.ubicacion = Nada THEN @ ELSE d.ubicacion,
                          !.region = SiEscribe(d.cargada.region, d.region, @)]]
        /\ indexada' = FALSE
        /\ Termina(h, {De(IF d.zona = Nada THEN "solicitudes" ELSE "perfil", d.u)}
                       \cup (IF d.region = d.cargada.region THEN {} ELSE {De("user", d.u)}))
        /\ UNCHANGED <<decidida, mudanzas>>

\* The rol of the user changes, to the staff or back.
CambiarRol(u) ==
    /\ personas' = [personas EXCEPT ![u].interno = ~@]
    /\ decidida' = [decidida EXCEPT ![u] = personas[u].region]
    /\ indexada' = FALSE
    /\ Escriben({De("user", u)})
    /\ UNCHANGED mudanzas

\* The superadmin gives a member of the staff a region, or none.
DarRegion(h, u, r) ==
    /\ personas[u].interno
    /\ Llega(h, "staff", {De("user", u)}, [u |-> u, cargada |-> personas[u].region, nueva |-> r])
    /\ UNCHANGED regionesVars

CommitDarRegion(h) ==
    LET d == Dato(h)
        r == SiEscribe(d.cargada, d.nueva, personas[d.u].region)
    IN  /\ EnCurso(h, "staff")
        /\ personas' = [personas EXCEPT ![d.u].region = r]
        /\ decidida' = [decidida EXCEPT ![d.u] = d.nueva]
        /\ indexada' = FALSE
        /\ Termina(h, {De("user", d.u)})
        /\ UNCHANGED mudanzas

\* Users and profiles are loaded at once, and the last solicitud of whoever has no
\* zone.
Fuente(p) == IF p.zona # Nada THEN p.zona ELSE p.ubicacion
\* Mutant: the first region that matches any user serves for the staff too.
ReindexarConStaff(h) ==
    /\ Llega(h, "reindexar", FilasDeGente,
             [cargadas |-> personas,
              regiones |-> [u \in Gente |->
                  assign_region([personas[u] EXCEPT !.interno = FALSE], Fuente(personas[u]))]])
    /\ UNCHANGED regionesVars

Reindexar(h) ==
    /\ Llega(h, "reindexar", FilasDeGente,
             [cargadas |-> personas,
              regiones |-> [u \in Gente |-> assign_region(personas[u], Fuente(personas[u]))]])
    /\ UNCHANGED regionesVars

CommitReindexar(h) ==
    LET d == Dato(h)
        cambian == {u \in Gente : d.regiones[u] # d.cargadas[u].region}
    IN  /\ EnCurso(h, "reindexar")
        /\ personas' = [u \in Gente |->
                IF u \in cambian THEN [personas[u] EXCEPT !.region = d.regiones[u]]
                ELSE personas[u]]
        /\ indexada' = TRUE
        /\ Termina(h, {De("user", u) : u \in cambian})
        /\ UNCHANGED <<decidida, mudanzas>>

NextRegiones ==
    \/ \E u \in Gente : CambiarRol(u)
    \/ \E h \in Hilos :
        \/ CommitZona(h) \/ CommitDarRegion(h) \/ Reindexar(h) \/ CommitReindexar(h)
        \/ \E u \in Gente, t \in Textos : EditarZona(h, u, t) \/ PublicarEn(h, u, t)
        \/ \E u \in Gente, r \in Region \cup {Nada} : DarRegion(h, u, r)
-----------------------------------------------------------------------------
RegionesOK ==
    /\ personas \in [Gente -> Persona]
    /\ decidida \in [Gente -> Region \cup {Nada}]

\* Unless requests raced: the place of a staff member is the one the superadmin
\* gave it, or the one it came with; and after a reindexing everybody else is in
\* the region of its zone, or of its last solicitud, if that names one.
RegionEnSerie ==
    ~obsoleta => \A u \in Gente :
        /\ personas[u].interno => personas[u].region = decidida[u]
        /\ indexada /\ ~personas[u].interno /\ match_region(Fuente(personas[u])) # Nada =>
                personas[u].region = match_region(Fuente(personas[u]))
=============================================================================
