------------------------------ MODULE Codigos ------------------------------
(***************************************************************************)
(* One-time codes and links.  The code of a two-step login and the code    *)
(* sent to a phone follow one algorithm; the links that reset a password   *)
(* or verify an email another.  All live in the memory of the process.     *)
(* Codes are numbered as they are issued; two never coincide.              *)
(***************************************************************************)
EXTENDS Servidor, Sequences

CONSTANTS MaxIntentos,   \* comparisons per code (5)
          MaxCodigos,    \* bound, per store: codes ever issued
          MaxEnlaces     \* bound: links ever issued

ASSUME MaxIntentosEsNatural == MaxIntentos \in Nat

Almacenes == {"desafio", "celular"}

GuardadoRow == [codigo: Nat, intentos: Nat, vencido: BOOLEAN]
EnlaceRow == [usado: BOOLEAN, vencido: BOOLEAN]
PeticionCodigo == Peticion({"sms", "enlace"}, {"enlace"} \X Nat, Nat)

ASSUME NadaNoEsCodigo == Nada \notin GuardadoRow \cup EnlaceRow \cup PeticionCodigo

VARIABLES
    guardado,   \* per store: the code in it, or Nada
    codigos,    \* history: per code, comparisons, acceptances, was the SMS sent
    enlaces,    \* _reset_tokens, _verification_tokens: per link its entry, or Nada
    usos        \* history: per link, how often it did its work

codigosVars == <<guardado, codigos, enlaces, usos>>

InitCodigos ==
    /\ guardado = [a \in Almacenes |-> Nada]
    /\ codigos = <<>>
    /\ enlaces = <<>>
    /\ usos = <<>>

Enlace(i) == <<"enlace", i>>
-----------------------------------------------------------------------------
(* Codes *)

\* A new code replaces the one in store, with its attempts.
Genera(a) ==
    /\ Len(codigos) < MaxCodigos[a]
    /\ codigos' = Append(codigos, [pruebas |-> 0, aceptado |-> 0, enviado |-> FALSE])
    /\ guardado' = [guardado EXCEPT ![a] =
            [codigo |-> Len(codigos'), intentos |-> 0, vencido |-> FALSE]]

Agotado(g) == g.vencido \/ g.intentos >= MaxIntentos
Acepta(a, acierta) == guardado[a] # Nada /\ ~Agotado(guardado[a]) /\ acierta

\* Mutant: the right code stays in store.
PruebaSinConsumir(a, acierta) ==
    LET g == guardado[a]
    IN  /\ g # Nada
        /\ IF Agotado(g)
           THEN guardado' = [guardado EXCEPT ![a] = Nada] /\ UNCHANGED codigos
           ELSE /\ guardado' = [guardado EXCEPT ![a].intentos = @ + 1]
                /\ codigos' = [codigos EXCEPT
                        ![g.codigo].pruebas = @ + 1,
                        ![g.codigo].aceptado = @ + IF acierta THEN 1 ELSE 0]

\* A code is compared: an expired or exhausted one is dropped, any other counts
\* the attempt first, and the right one is consumed.
Prueba(a, acierta) ==
    LET g == guardado[a]
    IN  /\ g # Nada
        /\ IF Agotado(g)
           THEN guardado' = [guardado EXCEPT ![a] = Nada] /\ UNCHANGED codigos
           ELSE /\ guardado' = [guardado EXCEPT ![a] =
                        IF acierta THEN Nada ELSE [g EXCEPT !.intentos = @ + 1]]
                /\ codigos' = [codigos EXCEPT
                        ![g.codigo].pruebas = @ + 1,
                        ![g.codigo].aceptado = @ + IF acierta THEN 1 ELSE 0]

CodigoVence(a) ==
    /\ guardado[a] # Nada /\ ~guardado[a].vencido
    /\ guardado' = [guardado EXCEPT ![a].vencido = TRUE]
    /\ UNCHANGED <<codigos, enlaces, usos, servidor>>

\* The code is in store before the gateway is asked to send it.
EnviarOtp(h) ==
    /\ Genera("celular")
    /\ Llega(h, "sms", {}, Len(codigos'))
    /\ UNCHANGED <<enlaces, usos>>

\* A failed sending drops what is in store for the phone, whichever code it is.
RespuestaSms(h, exito) ==
    /\ EnCurso(h, "sms")
    /\ IF exito
       THEN codigos' = [codigos EXCEPT ![Dato(h)].enviado = TRUE] /\ UNCHANGED guardado
       ELSE guardado' = [guardado EXCEPT !["celular"] = Nada] /\ UNCHANGED codigos
    /\ Falla(h)
    /\ UNCHANGED <<enlaces, usos>>

VerificarOtp(acierta) ==
    /\ Prueba("celular", acierta)
    /\ UNCHANGED <<enlaces, usos, servidor>>
-----------------------------------------------------------------------------
(* Links *)

EmitirEnlace ==
    /\ Len(enlaces) < MaxEnlaces
    /\ enlaces' = Append(enlaces, [usado |-> FALSE, vencido |-> FALSE])
    /\ usos' = Append(usos, 0)
    /\ UNCHANGED <<guardado, codigos, servidor>>

EnlaceVence(i) ==
    /\ enlaces[i] # Nada /\ ~enlaces[i].vencido
    /\ enlaces' = [enlaces EXCEPT ![i].vencido = TRUE]
    /\ UNCHANGED <<guardado, codigos, usos, servidor>>

\* The link is validated; the account is loaded and the password hashed after it.
UsarEnlace(h, i) ==
    /\ enlaces[i] # Nada /\ ~enlaces[i].usado /\ ~enlaces[i].vencido
    /\ Llega(h, "enlace", {Enlace(i)}, i)
    /\ UNCHANGED codigosVars

\* Mutant: the link is not marked.
CommitEnlaceSinMarcar(h) ==
    /\ EnCurso(h, "enlace")
    /\ usos' = [usos EXCEPT ![Dato(h)] = @ + 1]
    /\ Termina(h, {Enlace(Dato(h))})
    /\ UNCHANGED <<guardado, codigos, enlaces>>

\* It is marked used, and the new password (or the verified email) committed.
CommitEnlace(h) ==
    /\ EnCurso(h, "enlace")
    /\ enlaces' = [enlaces EXCEPT ![Dato(h)].usado = TRUE]
    /\ usos' = [usos EXCEPT ![Dato(h)] = @ + 1]
    /\ Termina(h, {Enlace(Dato(h))})
    /\ UNCHANGED <<guardado, codigos>>

\* The commit fails: the link is spent all the same.
EnlaceGastado(h) ==
    /\ EnCurso(h, "enlace")
    /\ enlaces' = [enlaces EXCEPT ![Dato(h)].usado = TRUE]
    /\ Termina(h, {Enlace(Dato(h))})
    /\ UNCHANGED <<guardado, codigos, usos>>

\* The process restarts: codes, links and requests are gone.
Olvida ==
    /\ guardado' = [a \in Almacenes |-> Nada]
    /\ enlaces' = [i \in DOMAIN enlaces |-> Nada]
    /\ SePierden
    /\ UNCHANGED <<codigos, usos>>

NextCodigos ==
    \/ Olvida \/ CodigoVence("celular") \/ EmitirEnlace
    \/ \E acierta \in BOOLEAN : VerificarOtp(acierta)
    \/ \E i \in DOMAIN enlaces : EnlaceVence(i)
    \/ \E h \in Hilos :
        \/ EnviarOtp(h) \/ CommitEnlace(h) \/ EnlaceGastado(h)
        \/ \E exito \in BOOLEAN : RespuestaSms(h, exito)
        \/ \E i \in DOMAIN enlaces : UsarEnlace(h, i)
-----------------------------------------------------------------------------
CodigosOK ==
    /\ \A a \in Almacenes : guardado[a] # Nada =>
            /\ guardado[a].codigo \in DOMAIN codigos
            /\ guardado[a].intentos \in 0..MaxIntentos
            /\ guardado[a].vencido \in BOOLEAN
    /\ \A i \in DOMAIN enlaces : enlaces[i] = Nada \/ enlaces[i].usado \in BOOLEAN

\* A code is accepted once and compared MaxIntentos times at most, over all its
\* life; a code in store for a phone was sent or is being sent.
CodigoDeUnUso ==
    /\ \A c \in DOMAIN codigos :
            codigos[c].aceptado <= 1 /\ codigos[c].pruebas <= MaxIntentos
    /\ guardado["celular"] # Nada =>
            LET c == guardado["celular"].codigo
            IN  codigos[c].enviado \/ \E h \in Hilos : EnCurso(h, "sms") /\ Dato(h) = c

\* Unless two requests validated a link before either marked it, it resets the
\* password once.
EnlaceUnaVezEnSerie == ~obsoleta => \A i \in DOMAIN usos : usos[i] <= 1
=============================================================================
