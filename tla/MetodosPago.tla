---------------------------- MODULE MetodosPago ----------------------------
(***************************************************************************)
(* The payment methods of one user: the virtual wallet, which the system   *)
(* creates when the list is first asked for, and linked bank accounts.     *)
(***************************************************************************)
EXTENDS Servidor, Sequences

CONSTANT MaxMetodos     \* bound: rows ever inserted

\* A row of metodos_pago; ids are never used again.
MetodoRow == [tipo: {"billetera", "banco"}, principal: BOOLEAN]
ComercioRow == [principal: BOOLEAN, activo: BOOLEAN]

\* A request remembers the row it inserts, the flags it changes, the row it
\* deletes, the successor, or the merchant's row.
PeticionMetodo ==
    Peticion({"billetera", "vincular", "marcar", "desvincular", "suceder", "agregar"},
             {<<"metodos">>, <<"principales">>} \cup ({"metodo"} \X (1..MaxMetodos)),
             UNION {MetodoRow, 1..MaxMetodos,
                    [elegido: 1..MaxMetodos, cambian: SUBSET (1..MaxMetodos)],
                    [borra: 1..MaxMetodos, era: BOOLEAN],
                    [principal: BOOLEAN, desmarca: SUBSET (1..MaxMetodos)]})

ASSUME MaxMetodosEsNatural == MaxMetodos \in Nat
ASSUME NadaNoEsMetodo == Nada \notin MetodoRow \cup PeticionMetodo

VARIABLES
    metodos,      \* the rows of the user, by id; Nada where there is none
    ultimo,       \* history: the last id given
    cortada,      \* history: a deletion ended without its second transaction
    comercio      \* the methods of a merchant, by id (table of their own)

metodosVars == <<metodos, ultimo, cortada, comercio>>

InitMetodos ==
    /\ metodos = [i \in 1..MaxMetodos |-> Nada] /\ ultimo = 0 /\ cortada = FALSE
    /\ comercio = <<>>

Filas == {i \in DOMAIN metodos : metodos[i] # Nada}
Bancos == {i \in Filas : metodos[i].tipo = "banco"}
Billeteras == Filas \ Bancos
Principales == {i \in Filas : metodos[i].principal}

Metodo(i) == <<"metodo", i>>
LaLista == {<<"metodos">>} \cup {Metodo(i) : i \in DOMAIN metodos}
-----------------------------------------------------------------------------
Inserta(h, op) ==
    /\ EnCurso(h, op)
    /\ ultimo < MaxMetodos
    /\ ultimo' = ultimo + 1
    /\ metodos' = [metodos EXCEPT ![ultimo'] = Dato(h)]
    /\ Termina(h, {<<"metodos">>, Metodo(ultimo')})
    /\ UNCHANGED <<cortada, comercio>>

\* GET of the list: _asegurar_billetera.
ListarMetodos(h) ==
    /\ Billeteras = {}
    /\ Llega(h, "billetera", LaLista, [tipo |-> "billetera", principal |-> Principales = {}])
    /\ UNCHANGED metodosVars

\* Mutant: the first linked account is not made principal, as if the wallet were.
VincularBancoSinRol(h) ==
    /\ Llega(h, "vincular", LaLista, [tipo |-> "banco", principal |-> FALSE])
    /\ UNCHANGED metodosVars

\* The first linked account becomes principal, and nobody stops being so.
VincularBanco(h) ==
    /\ Llega(h, "vincular", LaLista, [tipo |-> "banco", principal |-> Bancos = {}])
    /\ UNCHANGED metodosVars

\* A loaded row whose flag does not change stays out of the UPDATE.
MarcarPrincipal(h, i) ==
    /\ Llega(h, "marcar", LaLista,
             [elegido |-> i, cambian |-> {j \in Filas : metodos[j].principal # (j = i)}])
    /\ UNCHANGED metodosVars

\* The UPDATE of a row that is gone fails.
CommitMarcar(h) ==
    LET d == Dato(h)
    IN  /\ EnCurso(h, "marcar")
        /\ d.cambian \subseteq Filas
        /\ metodos' = [j \in DOMAIN metodos |->
                IF j \in d.cambian THEN [metodos[j] EXCEPT !.principal = (j = d.elegido)]
                ELSE metodos[j]]
        /\ Termina(h, {Metodo(j) : j \in d.cambian})
        /\ UNCHANGED <<ultimo, cortada, comercio>>

Desvincular(h, i) ==
    /\ metodos[i].tipo = "banco"
    /\ Llega(h, "desvincular", LaLista, [borra |-> i, era |-> metodos[i].principal])
    /\ UNCHANGED metodosVars

\* The DELETE, which may find the row gone, is a transaction of its own; if the
\* row was principal, another one marks a successor: the first account, or the
\* wallet.
CommitDesvincular(h) ==
    LET d == Dato(h)
        resto == Filas \ {d.borra}
        cuentas == resto \cap Bancos
        entre == IF cuentas # {} THEN cuentas ELSE resto
    IN  /\ EnCurso(h, "desvincular")
        /\ metodos' = [metodos EXCEPT ![d.borra] = Nada]
        /\ IF d.era /\ resto # {}
           THEN Sigue(h, {<<"metodos">>, Metodo(d.borra)}, "suceder", LaLista,
                      CHOOSE j \in entre : \A k \in entre : j <= k)
           ELSE Termina(h, {<<"metodos">>, Metodo(d.borra)})
        /\ UNCHANGED <<ultimo, cortada, comercio>>

CommitSuceder(h) ==
    /\ EnCurso(h, "suceder")
    /\ Dato(h) \in Filas
    /\ metodos' = [metodos EXCEPT ![Dato(h)].principal = TRUE]
    /\ Termina(h, {Metodo(Dato(h))})
    /\ UNCHANGED <<ultimo, cortada, comercio>>

\* An UPDATE that finds no row aborts its request.
FilaDesaparecida(h) ==
    /\ \/ EnCurso(h, "marcar") /\ ~(Dato(h).cambian \subseteq Filas)
       \/ EnCurso(h, "suceder") /\ Dato(h) \notin Filas
    /\ cortada' = (cortada \/ EnCurso(h, "suceder"))
    /\ Falla(h)
    /\ UNCHANGED <<metodos, ultimo, comercio>>

\* Process crash between the two transactions of a DELETE.
CaidaMetodos ==
    /\ \E h \in Hilos : EnCurso(h, "suceder")
    /\ cortada' = TRUE
    /\ SePierden
    /\ UNCHANGED <<metodos, ultimo, comercio>>
-----------------------------------------------------------------------------
(* The methods of a merchant (controllers/merchant.py) *)

\* Mutant: the others are not unmarked.
AgregarSinDesmarcar(h, principal) ==
    /\ Len(comercio) < MaxMetodos
    /\ Llega(h, "agregar", {}, [principal |-> principal, desmarca |-> {}])
    /\ UNCHANGED metodosVars

\* One UPDATE unmarks the principal ones it finds, then the row is inserted.
AgregarMetodo(h, principal) ==
    /\ Len(comercio) < MaxMetodos
    /\ Llega(h, "agregar", IF principal THEN {<<"principales">>} ELSE {},
             [principal |-> principal,
              desmarca |-> {i \in DOMAIN comercio : principal /\ comercio[i].principal}])
    /\ UNCHANGED metodosVars

CommitAgregar(h) ==
    LET d == Dato(h)
        nuevo == [principal |-> d.principal, activo |-> TRUE]
    IN  /\ EnCurso(h, "agregar")
        /\ Len(comercio) < MaxMetodos
        /\ comercio' = Append([i \in DOMAIN comercio |->
                IF i \in d.desmarca THEN [comercio[i] EXCEPT !.principal = FALSE]
                ELSE comercio[i]], nuevo)
        /\ Termina(h, IF d.principal THEN {<<"principales">>} ELSE {})
        /\ UNCHANGED <<metodos, ultimo, cortada>>

\* A deleted method keeps its principal flag; the list leaves it out.
DesactivarMetodo(i) ==
    /\ comercio[i].activo
    /\ comercio' = [comercio EXCEPT ![i].activo = FALSE]
    /\ UNCHANGED <<metodos, ultimo, cortada, servidor>>

NextComercio ==
    \/ \E i \in DOMAIN comercio : DesactivarMetodo(i)
    \/ \E h \in Hilos : CommitAgregar(h) \/ \E b \in BOOLEAN : AgregarMetodo(h, b)

NextMetodos ==
    \/ CaidaMetodos
    \/ \E h \in Hilos :
        \/ ListarMetodos(h) \/ Inserta(h, "billetera")
        \/ VincularBanco(h) \/ Inserta(h, "vincular")
        \/ CommitMarcar(h) \/ CommitDesvincular(h) \/ CommitSuceder(h) \/ FilaDesaparecida(h)
        \/ \E i \in Filas : MarcarPrincipal(h, i) \/ Desvincular(h, i)

MetodosOK ==
    /\ metodos \in [1..MaxMetodos -> MetodoRow \cup {Nada}]
    /\ ultimo \in 0..MaxMetodos
    /\ cortada \in BOOLEAN
    /\ comercio \in Seq(ComercioRow)

\* While no request committed on rows that had changed, there is one wallet at
\* most, one principal account at most, and some principal method as long as
\* there is any, unless a deletion is looking for the successor.
PrincipalEnSerie ==
    ~obsoleta =>
        /\ \A i, j \in Billeteras : i = j
        /\ \A i, j \in Principales \cap Bancos : i = j
        /\ Filas # {} /\ ~cortada /\ (\A h \in Hilos : ~EnCurso(h, "suceder"))
                => Principales # {}
        /\ \A i, j \in DOMAIN comercio : comercio[i].principal /\ comercio[j].principal => i = j
=============================================================================
