---------------------------- MODULE Verificacion ----------------------------
(***************************************************************************)
(* The documents of one user and the flag profile.verificado, which every  *)
(* review computes again from all of them.  An upload sends a document to  *)
(* review again, and leaves the flag alone.                                *)
(***************************************************************************)
EXTENDS Servidor, Sequences

CONSTANTS Unicos,           \* obligatory documents with a single copy
          Multiples,        \* obligatory documents with several, told apart by
          Instancias,       \* their instancia
          MaxDocumentos     \* bound: rows of documentos_usuario

ASSUME HayObligatorios == Unicos \cup Multiples # {}

\* A row of documentos_usuario; instancia is Nada (NULL) for a single copy.
Documentos == (Unicos \X {Nada}) \cup (Multiples \X Instancias)
EstadoDocumento == {"enviado", "aprobado", "rechazado"}
DocumentoRow == [doc: Documentos, estado: EstadoDocumento]

\* An upload, a decision, and a decision whose flag is computed.
PeticionVerificacion ==
    Peticion({"subir", "revisar", "revision"},
             {<<"documentos">>, <<"perfil">>} \cup {"documento"} \X Nat,
             [doc: Documentos, fila: Nat, era: EstadoDocumento \cup {Nada}]
                \cup [fila: Nat, decision: EstadoDocumento, era: EstadoDocumento]
                \cup [fila: Nat, estado: EstadoDocumento, verificado: BOOLEAN, cargado: BOOLEAN])

ASSUME NadaNoEsDocumento == Nada \notin Instancias \cup PeticionVerificacion

VARIABLES
    documentos,   \* the rows of the user: which document, and its estado
    verificado    \* profile.verificado

verificacionVars == <<documentos, verificado>>

InitVerificacion == documentos = <<>> /\ verificado = FALSE

Documento(i) == <<"documento", i>>
TodosLosDocumentos == {<<"documentos">>} \cup {Documento(i) : i \in DOMAIN documentos}
FilasDe(doc) == {i \in DOMAIN documentos : documentos[i].doc = doc}

\* A reviewer holds the lock of the row it has written and not committed.
EnRevision(i) == \E h \in Hilos : EnCurso(h, "revision") /\ Dato(h).fila = i
-----------------------------------------------------------------------------
\* The row of this document, any of them if there are several; 0 for a new one.
Subir(h, doc) ==
    /\ IF FilasDe(doc) = {}
       THEN Llega(h, "subir", {<<"documentos">>}, [doc |-> doc, fila |-> 0, era |-> Nada])
       ELSE \E i \in FilasDe(doc) :
                Llega(h, "subir", {Documento(i)},
                      [doc |-> doc, fila |-> i, era |-> documentos[i].estado])
    /\ UNCHANGED verificacionVars

\* UNIQUE covers the instancia; NULLs are all different, so a document with a
\* single copy may get two rows.
Repetido(doc) == doc[2] # Nada /\ FilasDe(doc) # {}

\* An estado that was "enviado" when loaded stays out of the UPDATE.
CommitSubir(h) ==
    LET d == Dato(h)
    IN  /\ EnCurso(h, "subir")
        /\ IF d.fila = 0
           THEN /\ ~Repetido(d.doc) /\ Len(documentos) < MaxDocumentos
                /\ documentos' = Append(documentos, [doc |-> d.doc, estado |-> "enviado"])
                /\ Termina(h, {<<"documentos">>, Documento(Len(documentos'))})
           ELSE /\ ~EnRevision(d.fila)
                /\ documentos' = [documentos EXCEPT ![d.fila].estado =
                        IF d.era = "enviado" THEN @ ELSE "enviado"]
                /\ Termina(h, {Documento(d.fila)})
        /\ UNCHANGED verificado

SubidaRepetida(h) ==
    /\ EnCurso(h, "subir") /\ Dato(h).fila = 0 /\ Repetido(Dato(h).doc)
    /\ Falla(h)
    /\ UNCHANGED verificacionVars

Revisar(h, i, decision) ==
    /\ Llega(h, "revisar", {Documento(i)},
             [fila |-> i, decision |-> decision, era |-> documentos[i].estado])
    /\ UNCHANGED verificacionVars

Completos(docs) ==
    \A clave \in Unicos \cup Multiples :
        \E i \in DOMAIN docs : docs[i].doc[1] = clave /\ docs[i].estado = "aprobado"

\* Mutant: the flag is computed before the decision reaches the database.
RecalcularAntes(h) ==
    LET d == Dato(h)
        vistos == [documentos EXCEPT ![d.fila].estado = IF d.era = d.decision THEN @ ELSE d.decision]
    IN  /\ EnCurso(h, "revisar")
        /\ ~EnRevision(d.fila)
        /\ Avanza(h, "revision", TodosLosDocumentos \cup {<<"perfil">>},
                  [fila |-> d.fila, estado |-> vistos[d.fila].estado,
                   verificado |-> Completos(documentos), cargado |-> verificado])
        /\ UNCHANGED verificacionVars

\* _recalcular_verificado: the decision is flushed (and its row locked), then
\* the approved documents are read.
Recalcular(h) ==
    LET d == Dato(h)
        vistos == [documentos EXCEPT ![d.fila].estado = IF d.era = d.decision THEN @ ELSE d.decision]
    IN  /\ EnCurso(h, "revisar")
        /\ ~EnRevision(d.fila)
        /\ Avanza(h, "revision", TodosLosDocumentos \cup {<<"perfil">>},
                  [fila |-> d.fila, estado |-> vistos[d.fila].estado,
                   verificado |-> Completos(vistos), cargado |-> verificado])
        /\ UNCHANGED verificacionVars

CommitRevision(h) ==
    LET d == Dato(h)
    IN  /\ EnCurso(h, "revision")
        /\ documentos' = [documentos EXCEPT ![d.fila].estado = d.estado]
        /\ verificado' = IF d.verificado = d.cargado THEN verificado ELSE d.verificado
        /\ Termina(h, {Documento(d.fila), <<"perfil">>})

NextVerificacion ==
    \E h \in Hilos :
        \/ CommitSubir(h) \/ SubidaRepetida(h) \/ Recalcular(h) \/ CommitRevision(h)
        \/ \E doc \in Documentos : Subir(h, doc)
        \/ \E i \in DOMAIN documentos, decision \in {"aprobado", "rechazado"} :
                Revisar(h, i, decision)
-----------------------------------------------------------------------------
VerificacionOK ==
    /\ documentos \in Seq(DocumentoRow)
    /\ verificado \in BOOLEAN
    /\ \A doc \in Multiples \X Instancias : \A i, j \in FilasDe(doc) : i = j

\* Unless a review decided on documents that changed meanwhile: a user with all
\* the documents approved is verified, and a verified user has no obligatory
\* document without a copy approved or sent again since.
VerificadoEnSerie ==
    ~obsoleta =>
        /\ Completos(documentos) => verificado
        /\ verificado => \A clave \in Unicos \cup Multiples :
                \E i \in DOMAIN documentos :
                    documentos[i].doc[1] = clave /\ documentos[i].estado # "rechazado"
=============================================================================
