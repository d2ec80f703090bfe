----------------------------- MODULE Mensajeria -----------------------------
(***************************************************************************)
(* The conversation of two users and the notification centre of one, with  *)
(* the notification about formalization that every change of a contract    *)
(* tries to leave once.  A message reaches its reader through the history: *)
(* nobody enters the room of a conversation, because the handlers of       *)
(* "connect" and "join" registered last replace those of the chat.         *)
(***************************************************************************)
EXTENDS Servidor, Sequences

CONSTANTS Participantes,     \* the two of the conversation
          MaxMensajes,       \* bound: messages
          MaxAvisosUsuario   \* bound: notifications

ASSUME SonDos == \E a, b \in Participantes : a # b /\ Participantes = {a, b}

MensajeRow == [autor: Participantes, leido: BOOLEAN, lectores: SUBSET Participantes]
AvisoRow == [tipo: {"otro", "formalizacion"}, leida: BOOLEAN]
PeticionMensajeria ==
    Peticion({"conversar", "leer", "formalizar"}, {<<"conversacion">>, <<"formalizacion">>},
             {Nada} \cup [lector: Participantes, cuales: SUBSET Nat])

ASSUME NadaNoEsMensajeria == Nada \notin PeticionMensajeria

VARIABLES
    conversacion,    \* does the row exist
    mensajes,        \* rows: autor, leido; as history, who has read them
    avisos           \* rows of notifications of one user: tipo, leida

mensajeriaVars == <<conversacion, mensajes, avisos>>

InitMensajeria == conversacion = FALSE /\ mensajes = <<>> /\ avisos = <<>>
-----------------------------------------------------------------------------
(* Conversation: the pair is normalized, so both ask for the same row. *)

Conversar(h) ==
    /\ ~conversacion
    /\ Llega(h, "conversar", {<<"conversacion">>}, Nada)
    /\ UNCHANGED mensajeriaVars

CommitConversar(h) ==
    /\ EnCurso(h, "conversar")
    /\ ~conversacion
    /\ conversacion' = TRUE
    /\ Termina(h, {<<"conversacion">>})
    /\ UNCHANGED <<mensajes, avisos>>

\* UNIQUE: the loser fails.
ParRepetido(h) ==
    /\ EnCurso(h, "conversar")
    /\ conversacion
    /\ Falla(h)
    /\ UNCHANGED mensajeriaVars

\* By the route or by the socket.
Enviar(p) ==
    /\ conversacion
    /\ Len(mensajes) < MaxMensajes
    /\ mensajes' = Append(mensajes, [autor |-> p, leido |-> FALSE, lectores |-> {}])
    /\ UNCHANGED <<conversacion, avisos, servidor>>

\* Mutant: the reader's own messages too.
LeerTodos(h, p) ==
    /\ conversacion
    /\ Llega(h, "leer", {},
             [lector |-> p, cuales |-> {i \in DOMAIN mensajes : ~mensajes[i].leido}])
    /\ UNCHANGED mensajeriaVars

\* The messages of the other that are not read yet.
Leer(h, p) ==
    /\ conversacion
    /\ Llega(h, "leer", {},
             [lector |-> p, cuales |-> {i \in DOMAIN mensajes :
                                            ~mensajes[i].leido /\ mensajes[i].autor # p}])
    /\ UNCHANGED mensajeriaVars

\* The answer is those same messages.
CommitLeer(h) ==
    LET d == Dato(h)
    IN  /\ EnCurso(h, "leer")
        /\ mensajes' = [i \in DOMAIN mensajes |->
                IF i \in d.cuales
                THEN [mensajes[i] EXCEPT !.leido = TRUE, !.lectores = @ \cup {d.lector}]
                ELSE mensajes[i]]
        /\ Termina(h, {})
        /\ UNCHANGED <<conversacion, avisos>>
-----------------------------------------------------------------------------
(* Notifications *)

\* Some operation of another component notifies the user in its commit.
Avisar ==
    /\ Len(avisos) < MaxAvisosUsuario
    /\ avisos' = Append(avisos, [tipo |-> "otro", leida |-> FALSE])
    /\ UNCHANGED <<conversacion, mensajes, servidor>>

HayFormalizacion == \E i \in DOMAIN avisos : avisos[i].tipo = "formalizacion"

\* After any change of the contract, in a transaction of its own.
Formalizar(h) ==
    /\ ~HayFormalizacion
    /\ Llega(h, "formalizar", {<<"formalizacion">>}, Nada)
    /\ UNCHANGED mensajeriaVars

CommitFormalizar(h) ==
    /\ EnCurso(h, "formalizar")
    /\ Len(avisos) < MaxAvisosUsuario
    /\ avisos' = Append(avisos, [tipo |-> "formalizacion", leida |-> FALSE])
    /\ Termina(h, {<<"formalizacion">>})
    /\ UNCHANGED <<conversacion, mensajes>>

\* It fails: rolled back, and the contract stays as it was committed.
FormalizarFalla(h) ==
    /\ EnCurso(h, "formalizar")
    /\ Falla(h)
    /\ UNCHANGED mensajeriaVars

\* One, or all in one UPDATE.
MarcarLeidas(cuales) ==
    /\ avisos' = [i \in DOMAIN avisos |->
            IF i \in cuales THEN [avisos[i] EXCEPT !.leida = TRUE] ELSE avisos[i]]
    /\ UNCHANGED <<conversacion, mensajes, servidor>>

NextMensajeria ==
    \/ Avisar
    \/ MarcarLeidas(DOMAIN avisos)
    \/ \E i \in DOMAIN avisos : MarcarLeidas({i})
    \/ \E p \in Participantes : Enviar(p)
    \/ \E h \in Hilos :
        \/ Conversar(h) \/ CommitConversar(h) \/ ParRepetido(h)
        \/ CommitLeer(h)
        \/ Formalizar(h) \/ CommitFormalizar(h) \/ FormalizarFalla(h)
        \/ \E p \in Participantes : Leer(h, p)
-----------------------------------------------------------------------------
\* A message is marked read only once the other participant has received it.
MensajeriaOK ==
    /\ mensajes \in Seq(MensajeRow)
    /\ avisos \in Seq(AvisoRow)
    /\ \A i \in DOMAIN mensajes :
            mensajes[i].leido => mensajes[i].lectores = Participantes \ {mensajes[i].autor}

\* Unless two changes of the contract ran together, the user is told once.
FormalizacionUnaVezEnSerie ==
    ~obsoleta => \A i, j \in DOMAIN avisos :
        avisos[i].tipo = "formalizacion" /\ avisos[j].tipo = "formalizacion" => i = j
=============================================================================
