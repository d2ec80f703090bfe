---------------------------- MODULE Habilidades ----------------------------
(***************************************************************************)
(* One skill with its route of levels, the levels one pds certified in it, *)
(* the endorsements of one contract, and the 1 to 5 progression computed   *)
(* from them.  The rows that point at the skill keep it from being deleted.*)
(***************************************************************************)
EXTENDS Servidor, FiniteSets

CONSTANTS Ruta,            \* level -> "quiz" or "certificacion"
          Competencias,    \* of the skill
          Preguntas,       \* questions of a quiz
          Trabajos,        \* numbers of completed works to look at
          Notas            \* averages to look at, in tenths

Metodos == {"quiz", "certificacion"}

ASSUME RutaDeMetodos == \A n \in DOMAIN Ruta : Ruta[n] \in Metodos

PeticionHabilidad ==
    Peticion({"nivel", "endoso", "eliminar"},
             {<<"habilidad">>, <<"endosos">>} \cup {"nivel"} \X DOMAIN Ruta,
             [nivel: DOMAIN Ruta, era: Metodos \cup {Nada}] \cup Competencias \cup {Nada})

ASSUME NadaNoEsHabilidad == Nada \notin Metodos \cup PeticionHabilidad

VARIABLES
    habilidad,    \* does the row exist
    niveles,      \* habilidad_niveles: per level, the metodo, or Nada
    endosos       \* endoso_habilidades: competences endorsed

habilidadesVars == <<habilidad, niveles, endosos>>

InitHabilidades ==
    /\ habilidad = TRUE
    /\ niveles = [n \in DOMAIN Ruta |-> Nada]
    /\ endosos = {}

Certificados == {n \in DOMAIN Ruta : niveles[n] # Nada}

\* At least 80% of the answers are right.
Aprueba(aciertos, total) == 10 * aciertos >= 8 * total

\* The progression: what the code counts are quizzes passed, a verified title,
\* completed works and the average.
NivelOficio(quiz, titulo, trabajos, nota) ==
    IF quiz /\ titulo /\ trabajos >= 70 /\ nota >= 48 THEN 5
    ELSE IF quiz /\ titulo /\ trabajos >= 35 /\ nota >= 47 THEN 4
    ELSE IF quiz /\ trabajos >= 15 /\ nota >= 45 THEN 3
    ELSE IF quiz /\ trabajos >= 3 /\ nota >= 40 THEN 2
    ELSE 1

\* No code ever gives a title the estado "verificado".
Progreso(trabajos, nota) ==
    NivelOficio(\E n \in DOMAIN Ruta : niveles[n] = "quiz", FALSE, trabajos, nota)
-----------------------------------------------------------------------------
\* A quiz, or a document.
CertificarNivel(h, n, aciertos) ==
    /\ habilidad
    /\ Ruta[n] = "quiz" => Aprueba(aciertos, Preguntas)
    /\ Llega(h, "nivel", {<<"nivel", n>>, <<"habilidad">>}, [nivel |-> n, era |-> niveles[n]])
    /\ UNCHANGED habilidadesVars

\* Mutant: whatever the way, it is recorded as a document.
RegistrarComoDocumento(h) ==
    LET d == Dato(h)
    IN  /\ EnCurso(h, "nivel")
        /\ habilidad /\ (d.era = Nada => niveles[d.nivel] = Nada)
        /\ niveles' = [niveles EXCEPT ![d.nivel] =
                IF @ = Nada THEN Ruta[d.nivel] ELSE "certificacion"]
        /\ Termina(h, {<<"nivel", d.nivel>>})
        /\ UNCHANGED <<habilidad, endosos>>

\* _registrar_nivel: one row per level, written again if it was there.
RegistrarNivel(h) ==
    LET d == Dato(h)
    IN  /\ EnCurso(h, "nivel")
        /\ habilidad /\ (d.era = Nada => niveles[d.nivel] = Nada)
        /\ niveles' = [niveles EXCEPT ![d.nivel] = Ruta[d.nivel]]
        /\ Termina(h, {<<"nivel", d.nivel>>})
        /\ UNCHANGED <<habilidad, endosos>>

\* A competence of a completed contract is endorsed once.
Endosar(h, c) ==
    /\ habilidad /\ c \notin endosos
    /\ Llega(h, "endoso", {<<"endosos">>, <<"habilidad">>}, c)
    /\ UNCHANGED habilidadesVars

CommitEndoso(h) ==
    /\ EnCurso(h, "endoso")
    /\ habilidad /\ Dato(h) \notin endosos
    /\ endosos' = endosos \cup {Dato(h)}
    /\ Termina(h, {<<"endosos">>})
    /\ UNCHANGED <<habilidad, niveles>>

\* UNIQUE, or the foreign key to a skill that is gone.
FilaRechazada(h) ==
    /\ \/ /\ EnCurso(h, "nivel")
          /\ habilidad => Dato(h).era = Nada /\ niveles[Dato(h).nivel] # Nada
       \/ /\ EnCurso(h, "endoso")
          /\ habilidad => Dato(h) \in endosos
    /\ Falla(h)
    /\ UNCHANGED habilidadesVars

\* Only if nobody certified a level; nobody asks for endorsements.
EliminarHabilidad(h) ==
    /\ habilidad /\ Certificados = {}
    /\ Llega(h, "eliminar", {<<"habilidad">>}, Nada)
    /\ UNCHANGED habilidadesVars

CommitEliminar(h) ==
    /\ EnCurso(h, "eliminar")
    /\ IF Certificados = {} /\ endosos = {}
       THEN habilidad' = FALSE /\ Termina(h, {<<"habilidad">>})
       ELSE UNCHANGED habilidad /\ Falla(h)
    /\ UNCHANGED <<niveles, endosos>>

NextHabilidades ==
    \E h \in Hilos :
        \/ RegistrarNivel(h) \/ CommitEndoso(h) \/ FilaRechazada(h)
        \/ EliminarHabilidad(h) \/ CommitEliminar(h)
        \/ \E n \in DOMAIN Ruta, aciertos \in 0..Preguntas : CertificarNivel(h, n, aciertos)
        \/ \E c \in Competencias : Endosar(h, c)
-----------------------------------------------------------------------------
HabilidadesOK ==
    /\ habilidad \in BOOLEAN /\ endosos \subseteq Competencias
    /\ niveles \in [DOMAIN Ruta -> Metodos \cup {Nada}]
    /\ ~habilidad => Certificados = {} /\ endosos = {}

\* Whatever is certified again or deleted, the progression of a pds does not go
\* down while its works and average do not.
ProgresoNoBaja ==
    [][\A trabajos \in Trabajos, nota \in Notas :
            Progreso(trabajos, nota)' >= Progreso(trabajos, nota)]_habilidadesVars
=============================================================================
