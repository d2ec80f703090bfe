------------------------------ MODULE Servidor ------------------------------
(***************************************************************************)
(* What all handlers share: a request loads rows and passes its guards in  *)
(* one step and commits what it computed from them in another, with other  *)
(* requests in between.  A request is its operation, the rows it loaded    *)
(* (names of rows, or of sets of rows it queried), and what it remembers.  *)
(***************************************************************************)
EXTENDS Naturals

CONSTANTS Hilos,   \* slots of requests in flight
          Nada     \* NULL; no request

\* The requests of the operations ops, which load some of filas.
Peticion(ops, filas, datos) ==
    [op: ops, lee: SUBSET filas, dato: datos, vieja: BOOLEAN]

ASSUME NadaNoEsNumero == Nada \notin Nat

VARIABLES peticion,   \* per slot: the request in flight, or Nada
          obsoleta    \* history: some request committed although a row it
                      \* had loaded was committed by another meanwhile

servidor == <<peticion, obsoleta>>

InitServidor == peticion = [h \in Hilos |-> Nada] /\ obsoleta = FALSE

EnCurso(h, op) == peticion[h] # Nada /\ peticion[h].op = op
Dato(h) == peticion[h].dato

\* A request arrives, loads lee, and will remember dato.
Llega(h, op, lee, dato) ==
    /\ peticion[h] = Nada
    /\ peticion' = [peticion EXCEPT ![h] =
            [op |-> op, lee |-> lee, dato |-> dato, vieja |-> FALSE]]
    /\ UNCHANGED obsoleta

\* The rows in escritas were committed: whoever had loaded one is behind.
Envejece(p, escritas) ==
    IF p # Nada /\ p.lee \cap escritas # {} THEN [p EXCEPT !.vieja = TRUE] ELSE p

\* The commit of h writes escritas and ends the request.
Termina(h, escritas) ==
    /\ peticion' = [g \in Hilos |-> IF g = h THEN Nada ELSE Envejece(peticion[g], escritas)]
    /\ obsoleta' = (obsoleta \/ peticion[h].vieja)

\* The request of h commits escritas and goes on, with what it loads now.
Sigue(h, escritas, op, lee, dato) ==
    /\ peticion' = [g \in Hilos |->
            IF g = h THEN [op |-> op, lee |-> lee, dato |-> dato, vieja |-> FALSE]
            ELSE Envejece(peticion[g], escritas)]
    /\ obsoleta' = (obsoleta \/ peticion[h].vieja)

\* The request of h goes on within its transaction, loading more rows.
Avanza(h, op, lee, dato) ==
    /\ peticion' = [peticion EXCEPT ![h].op = op, ![h].lee = @ \cup lee, ![h].dato = dato]
    /\ UNCHANGED obsoleta

\* The transaction of h fails (a UNIQUE column): it is rolled back.
Falla(h) ==
    /\ peticion' = [peticion EXCEPT ![h] = Nada]
    /\ UNCHANGED obsoleta

\* A commit that depends on nothing it loaded.
Escriben(escritas) ==
    /\ peticion' = [g \in Hilos |-> Envejece(peticion[g], escritas)]
    /\ UNCHANGED obsoleta

\* The process dies with all its requests.
SePierden ==
    /\ peticion' = [h \in Hilos |-> Nada]
    /\ UNCHANGED obsoleta
=============================================================================
