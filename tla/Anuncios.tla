------------------------------ MODULE Anuncios ------------------------------
(***************************************************************************)
(* One job advertisement of a business and the postulations to it, which   *)
(* bind nobody: the business contacts or discards each.                    *)
(***************************************************************************)
EXTENDS Servidor, Sequences

CONSTANTS Postulantes,          \* pds that may answer it
          MaxPostulaciones,     \* bound: rows of anuncios_postulaciones
          MaxAvisos             \* bound: notifications of one postulation

ASSUME MaxAvisosEsNatural == MaxAvisos \in Nat

EstadoAnuncio == {"publicado", "cerrado"}
EstadoPostulacion == {"pendiente", "contactado", "descartado"}
PostulacionRow == [pds: Postulantes, avisos: 0..MaxAvisos, abierto: BOOLEAN,
                   estado: EstadoPostulacion]

\* A request remembers the estado it gives, who postulates, or what it decides.
PeticionAnuncio ==
    Peticion({"anuncio", "postularse", "gestion"},
             {<<"anuncio">>, <<"postulaciones">>} \cup {"postulacion"} \X Nat,
             EstadoAnuncio \cup Postulantes
                \cup [fila: Nat, nuevo: EstadoPostulacion, era: EstadoPostulacion])

ASSUME NadaNoEsAnuncio == Nada \notin EstadoAnuncio \cup PeticionAnuncio

VARIABLES
    anuncio,           \* its estado, or Nada
    postulaciones      \* rows: pds, estado, and as history whether the
                       \* advertisement was open when it was committed and the
                       \* notifications "anuncio_contactado" committed

anunciosVars == <<anuncio, postulaciones>>

InitAnuncios == anuncio = Nada /\ postulaciones = <<>>

Postulacion(i) == <<"postulacion", i>>
PostuladosDe(p) == {i \in DOMAIN postulaciones : postulaciones[i].pds = p}
-----------------------------------------------------------------------------
PublicarAnuncio ==
    /\ anuncio = Nada
    /\ anuncio' = "publicado"
    /\ UNCHANGED <<postulaciones, servidor>>

\* cerrar, reabrir: only to the other estado.
CambiarAnuncio(h, nuevo) ==
    /\ anuncio \notin {Nada, nuevo}
    /\ Llega(h, "anuncio", {<<"anuncio">>}, nuevo)
    /\ UNCHANGED anunciosVars

CommitAnuncio(h) ==
    /\ EnCurso(h, "anuncio")
    /\ anuncio' = Dato(h)
    /\ Termina(h, {<<"anuncio">>})
    /\ UNCHANGED postulaciones

\* Mutant: a second postulation is not refused.
PostularseSinMirar(h, p) ==
    /\ anuncio = "publicado"
    /\ Llega(h, "postularse", {<<"anuncio">>, <<"postulaciones">>}, p)
    /\ UNCHANGED anunciosVars

Postularse(h, p) ==
    /\ anuncio = "publicado" /\ PostuladosDe(p) = {}
    /\ Llega(h, "postularse", {<<"anuncio">>, <<"postulaciones">>}, p)
    /\ UNCHANGED anunciosVars

\* No constraint forbids a second row.  The notification to the business is
\* added after the commit, and no commit follows: it is dropped.
CommitPostularse(h) ==
    /\ EnCurso(h, "postularse")
    /\ Len(postulaciones) < MaxPostulaciones
    /\ postulaciones' = Append(postulaciones,
            [pds |-> Dato(h), estado |-> "pendiente", avisos |-> 0,
             abierto |-> anuncio = "publicado"])
    /\ Termina(h, {<<"postulaciones">>, Postulacion(Len(postulaciones'))})
    /\ UNCHANGED anuncio

\* contactar, descartar: whatever the estado is.
GestionarPostulacion(h, i, nuevo) ==
    /\ Llega(h, "gestion", {Postulacion(i)},
             [fila |-> i, nuevo |-> nuevo, era |-> postulaciones[i].estado])
    /\ UNCHANGED anunciosVars

\* A contact notifies the pds in the same commit, even if it changes nothing.
CommitGestion(h) ==
    LET d == Dato(h)
        p == postulaciones[d.fila]
        avisa == IF d.nuevo = "contactado" THEN 1 ELSE 0
    IN  /\ EnCurso(h, "gestion")
        /\ p.avisos + avisa <= MaxAvisos
        /\ postulaciones' = [postulaciones EXCEPT ![d.fila] =
                [p EXCEPT !.estado = IF d.nuevo = d.era THEN @ ELSE d.nuevo,
                          !.avisos = @ + avisa]]
        /\ Termina(h, {Postulacion(d.fila)})
        /\ UNCHANGED anuncio

NextAnuncios ==
    \/ PublicarAnuncio
    \/ \E h \in Hilos :
        \/ CommitAnuncio(h) \/ CommitPostularse(h) \/ CommitGestion(h)
        \/ \E nuevo \in EstadoAnuncio : CambiarAnuncio(h, nuevo)
        \/ \E p \in Postulantes : Postularse(h, p)
        \/ \E i \in DOMAIN postulaciones, nuevo \in {"contactado", "descartado"} :
                GestionarPostulacion(h, i, nuevo)
-----------------------------------------------------------------------------
\* Whoever appears as contacted was notified, in every race.
AnunciosOK ==
    /\ anuncio \in EstadoAnuncio \cup {Nada}
    /\ postulaciones \in Seq(PostulacionRow)
    /\ \A i \in DOMAIN postulaciones :
            postulaciones[i].estado = "contactado" => postulaciones[i].avisos > 0

\* Unless two requests raced: a pds has one postulation, made while the
\* advertisement was open.
PostulacionEnSerie ==
    ~obsoleta =>
        /\ \A i, j \in DOMAIN postulaciones :
                postulaciones[i].pds = postulaciones[j].pds => i = j
        /\ \A i \in DOMAIN postulaciones : postulaciones[i].abierto
=============================================================================
