------------------------------ MODULE Archivos ------------------------------
(***************************************************************************)
(* The files of one provider in the object store (MinIO) and the rows that *)
(* point at them: the items of the portfolio and the photo of the profile. *)
(* The store is outside the transaction: a file is put before the row is   *)
(* committed, and taken out before the row is deleted.                     *)
(***************************************************************************)
EXTENDS Servidor, Sequences

CONSTANTS Nombres,       \* names of the uploaded files
          MaxItems       \* bound: uploads ever

TipoItem == {"foto", "video", "documento"}

VARIABLES
    almacen,     \* key -> the upload whose bytes it holds
    items,       \* portfolio_items: upload -> [tipo, nombre]
    foto,        \* Profile.foto_perfil: the key, or Nada
    nombres,     \* history: the name of each upload
    interrumpida \* history: a process died between the two

archivosVars == <<almacen, items, foto, nombres, interrumpida>>

InitArchivos ==
    /\ almacen = <<>> /\ items = <<>> /\ foto = Nada /\ nombres = <<>>
    /\ interrumpida = FALSE

\* A file of at most the size of its kind; an image is stored again as WebP.
Llave(tipo, nombre) ==
    CASE tipo = "foto" -> <<"portfolio", nombre, "webp">>
      [] tipo = "video" -> <<"portfolio", nombre>>
      [] tipo = "documento" -> <<"kyc", nombre>>
LlaveAvatar(nombre) == <<"avatar", nombre, "webp">>

\* What the row keeps as s3_key, whatever the kind.
s3_key(nombre) == <<"portfolio", nombre>>

\* What requests on files remember; the one that deletes, the upload of its item.
Avatares == {LlaveAvatar(nombre) : nombre \in Nombres}
PeticionArchivos ==
    Peticion({"item", "foto", "borrar"}, {},
             [n: Nat, tipo: TipoItem, nombre: Nombres]
                \cup [cargada: Avatares \cup {Nada}, llave: Avatares \cup {Nada}]
                \cup Nat)

ASSUME NadaNoEsArchivo == Nada \notin PeticionArchivos \cup Avatares

Guarda(llave, n) == [k \in DOMAIN almacen \cup {llave} |-> IF k = llave THEN n ELSE almacen[k]]
Sin(funcion, llave) == [k \in DOMAIN funcion \ {llave} |-> funcion[k]]
-----------------------------------------------------------------------------
\* Mutant: the file is stored by a job, once the row is there.
SubirItemDespues(h, tipo, nombre) ==
    LET n == Len(nombres) + 1
    IN  /\ n <= MaxItems
        /\ nombres' = Append(nombres, nombre)
        /\ Llega(h, "item", {}, [n |-> n, tipo |-> tipo, nombre |-> nombre])
        /\ UNCHANGED <<almacen, items, foto, interrumpida>>

\* The file goes to the store; a store that is down or a file that is no image
\* ends the request with nothing done.
SubirItem(h, tipo, nombre) ==
    LET n == Len(nombres) + 1
    IN  /\ n <= MaxItems
        /\ nombres' = Append(nombres, nombre)
        /\ almacen' = Guarda(Llave(tipo, nombre), n)
        /\ Llega(h, "item", {}, [n |-> n, tipo |-> tipo, nombre |-> nombre])
        /\ UNCHANGED <<items, foto, interrumpida>>

CommitItem(h) ==
    LET d == Dato(h)
    IN  /\ EnCurso(h, "item")
        /\ items' = [i \in DOMAIN items \cup {d.n} |->
                IF i = d.n THEN [tipo |-> d.tipo, nombre |-> d.nombre] ELSE items[i]]
        /\ Termina(h, {})
        /\ UNCHANGED <<almacen, foto, nombres, interrumpida>>

\* delete_file takes the s3_key of the row, and says nothing of a key that is not
\* in the store.
BorrarItem(h, i) ==
    /\ i \in DOMAIN items
    /\ almacen' = Sin(almacen, s3_key(items[i].nombre))
    /\ Llega(h, "borrar", {}, i)
    /\ UNCHANGED <<items, foto, nombres, interrumpida>>

\* A DELETE of a row that is gone only warns.
CommitBorrar(h) ==
    /\ EnCurso(h, "borrar")
    /\ items' = Sin(items, Dato(h))
    /\ Termina(h, {})
    /\ UNCHANGED <<almacen, foto, nombres, interrumpida>>

SubirFoto(h, nombre) ==
    LET n == Len(nombres) + 1
    IN  /\ n <= MaxItems
        /\ nombres' = Append(nombres, nombre)
        /\ almacen' = Guarda(LlaveAvatar(nombre), n)
        /\ Llega(h, "foto", {}, [cargada |-> foto, llave |-> LlaveAvatar(nombre)])
        /\ UNCHANGED <<items, foto, interrumpida>>

\* The file stays in the store.
QuitarFoto(h) ==
    /\ Llega(h, "foto", {}, [cargada |-> foto, llave |-> Nada])
    /\ UNCHANGED archivosVars

CommitFoto(h) ==
    LET d == Dato(h)
    IN  /\ EnCurso(h, "foto")
        /\ foto' = IF d.llave = d.cargada THEN foto ELSE d.llave
        /\ Termina(h, {})
        /\ UNCHANGED <<almacen, items, nombres, interrumpida>>

CaidaArchivos ==
    /\ ~interrumpida /\ \E h \in Hilos : peticion[h] # Nada
    /\ interrumpida' = TRUE
    /\ SePierden
    /\ UNCHANGED <<almacen, items, foto, nombres>>

NextArchivos ==
    \/ CaidaArchivos
    \/ \E h \in Hilos :
        \/ CommitItem(h) \/ CommitBorrar(h) \/ QuitarFoto(h) \/ CommitFoto(h)
        \/ \E tipo \in TipoItem, nombre \in Nombres : SubirItem(h, tipo, nombre)
        \/ \E nombre \in Nombres : SubirFoto(h, nombre)
        \/ \E i \in 1..MaxItems : BorrarItem(h, i)
-----------------------------------------------------------------------------
MismoNombre(n) == \E m \in DOMAIN nombres : m # n /\ nombres[m] = nombres[n]
Borrandose(i) == \E h \in Hilos : EnCurso(h, "borrar") /\ Dato(h) = i

\* The photo of the profile is in the store.  As long as no process died between
\* the two and no other upload had its name: an item shows the file that was
\* uploaded with it until its deletion begins, and a video in the store is that of
\* an item, or of an upload on its way.
ArchivosOK ==
    /\ DOMAIN items \subseteq 1..Len(nombres)
    /\ foto # Nada => foto \in DOMAIN almacen
    /\ ~interrumpida => \A n \in DOMAIN nombres : ~MismoNombre(n) =>
        /\ n \in DOMAIN items /\ ~Borrandose(n) =>
            LET k == Llave(items[n].tipo, nombres[n])
            IN  k \in DOMAIN almacen /\ almacen[k] = n
        /\ s3_key(nombres[n]) \in DOMAIN almacen =>
            \/ n \in DOMAIN items
            \/ \E h \in Hilos : EnCurso(h, "item") /\ Dato(h).n = n
=============================================================================
