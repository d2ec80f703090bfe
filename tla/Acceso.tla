------------------------------- MODULE Acceso -------------------------------
(***************************************************************************)
(* One account and its sessions: registration, login in one or two steps,  *)
(* renewal, and the changes of role and status that revoke tokens through  *)
(* role_version, a counter each change reads, adds to and writes back.     *)
(***************************************************************************)
EXTENDS Codigos

CONSTANTS Publicos,     \* roles anybody may register with
          Internos,     \* roles of staff
          Estados,      \* active, suspended, banned
          MaxVersion    \* bound: role_version

ASSUME ActivaEsEstado == "active" \in Estados
ASSUME MaxVersionEsPositivo == MaxVersion \in Nat \ {0}

Roles == Publicos \cup Internos
CuentaRow == [rol: Roles, status: Estados, version: 1..MaxVersion, dosPasos: BOOLEAN]

\* A request remembers a role, the claims of its tokens, or the change it makes.
PeticionAcceso ==
    Peticion({"registrar", "entregar", "login", "gestionar"}, {<<"cuenta">>},
             UNION {Roles, {Nada}, [rol: Roles, version: 1..MaxVersion],
                    [rol: Roles \cup {Nada}, status: Estados \cup {Nada},
                     version: 1..MaxVersion]})

ASSUME NadaNoEsAcceso == Nada \notin CuentaRow \cup PeticionAcceso

VARIABLES
    cuenta,    \* the row of users, or Nada
    tokens     \* every token handed out: role claim (Nada in a refresh token),
               \* role_v, and whether the registration gave it

accesoVars == <<cuenta, tokens>>

InitAcceso == cuenta = Nada /\ tokens = {}

FilaCuenta == {<<"cuenta">>}
Activa == cuenta # Nada /\ cuenta.status = "active"

\* An access token and a refresh token.
Pareja(rol, v, alta) == {[rol |-> r, v |-> v, alta |-> alta] : r \in {rol, Nada}}
-----------------------------------------------------------------------------
Registrar(h, rol) ==
    /\ cuenta = Nada
    /\ Llega(h, "registrar", FilaCuenta, rol)
    /\ UNCHANGED <<accesoVars, codigosVars>>

\* The public registration loads the row again for its tokens; an account made
\* by a superadmin or a regional admin gets none.
CommitRegistrar(h) ==
    /\ EnCurso(h, "registrar")
    /\ cuenta = Nada
    /\ cuenta' = [rol |-> Dato(h), status |-> "active", version |-> 1, dosPasos |-> FALSE]
    /\ IF Dato(h) \in Publicos THEN Sigue(h, FilaCuenta, "entregar", {}, Nada)
       ELSE Termina(h, FilaCuenta)
    /\ UNCHANGED <<tokens, codigosVars>>

EmailTomado(h) ==
    /\ EnCurso(h, "registrar")
    /\ cuenta # Nada
    /\ Falla(h)
    /\ UNCHANGED <<accesoVars, codigosVars>>

Entregar(h) ==
    /\ EnCurso(h, "entregar")
    /\ tokens' = tokens \cup Pareja(cuenta.rol, cuenta.version, TRUE)
    /\ Termina(h, {})
    /\ UNCHANGED <<cuenta, codigosVars>>

\* The claims come from the row as loaded; the answer waits for last_login.
Identificado(h) ==
    /\ Llega(h, "login", {}, [rol |-> cuenta.rol, version |-> cuenta.version])
    /\ UNCHANGED accesoVars

Login(h) ==
    /\ Activa /\ ~cuenta.dosPasos
    /\ Identificado(h)
    /\ UNCHANGED codigosVars

CommitLogin(h) ==
    /\ EnCurso(h, "login")
    /\ tokens' = tokens \cup Pareja(Dato(h).rol, Dato(h).version, FALSE)
    /\ Termina(h, {})
    /\ UNCHANGED <<cuenta, codigosVars>>

\* With the second step on, a login only issues a challenge.
LoginDosPasos ==
    /\ Activa /\ cuenta.dosPasos
    /\ Genera("desafio")
    /\ UNCHANGED <<accesoVars, enlaces, usos, servidor>>

VerificarDesafio(h, acierta) ==
    /\ Activa
    /\ Prueba("desafio", acierta)
    /\ IF Acepta("desafio", acierta) THEN Identificado(h)
       ELSE UNCHANGED <<accesoVars, servidor>>
    /\ UNCHANGED <<enlaces, usos>>

CambiarDosPasos(b) ==
    /\ cuenta # Nada /\ cuenta.dosPasos # b
    /\ cuenta' = [cuenta EXCEPT !.dosPasos = b]
    /\ UNCHANGED <<tokens, codigosVars, servidor>>

\* A refresh token is answered from one load of the row.
Renovar(t) ==
    /\ Activa
    /\ t.rol = Nada /\ t.v = cuenta.version
    /\ tokens' = tokens \cup Pareja(cuenta.rol, cuenta.version, FALSE)
    /\ UNCHANGED <<cuenta, codigosVars, servidor>>

\* The changes a request may ask for.  An admin gives a role or a status; a
\* superadmin, to staff, any of role, status and region, each adding one.
Cambios ==
    LET roles == Roles \cup {Nada}
        estados == Estados \cup {Nada}
    IN  {[rol |-> r, status |-> s, region |-> g] : r \in roles, s \in estados, g \in BOOLEAN}
Sube(c) == (IF c.rol # Nada THEN 1 ELSE 0) + (IF c.status # Nada THEN 1 ELSE 0)
           + IF c.region THEN 1 ELSE 0
Admisible(c) ==
    \/ Sube(c) = 1 /\ ~c.region
    \/ cuenta.rol \in Internos /\ Sube(c) > 0 /\ c.rol \in Internos \cup {Nada}

\* A column that keeps its loaded value stays out of the UPDATE.
SiCambiaCuenta(nuevo, cargado) == IF nuevo = cargado THEN Nada ELSE nuevo

\* Mutant: only a new role counts.
GestionarSinRevocar(h, c) ==
    /\ cuenta # Nada /\ Admisible(c)
    /\ cuenta.version + Sube(c) <= MaxVersion
    /\ Llega(h, "gestionar", FilaCuenta,
             [rol |-> SiCambiaCuenta(c.rol, cuenta.rol),
              status |-> SiCambiaCuenta(c.status, cuenta.status),
              version |-> cuenta.version + IF c.rol # Nada THEN 1 ELSE 0])
    /\ UNCHANGED <<accesoVars, codigosVars>>

\* The new version is computed from the loaded one.
Gestionar(h, c) ==
    /\ cuenta # Nada /\ Admisible(c)
    /\ cuenta.version + Sube(c) <= MaxVersion
    /\ Llega(h, "gestionar", FilaCuenta,
             [rol |-> SiCambiaCuenta(c.rol, cuenta.rol),
              status |-> SiCambiaCuenta(c.status, cuenta.status),
              version |-> cuenta.version + Sube(c)])
    /\ UNCHANGED <<accesoVars, codigosVars>>

CommitGestionar(h) ==
    LET d == Dato(h)
    IN  /\ EnCurso(h, "gestionar")
        /\ cuenta' = [cuenta EXCEPT !.rol = IF d.rol = Nada THEN @ ELSE d.rol,
                                    !.status = IF d.status = Nada THEN @ ELSE d.status,
                                    !.version = d.version]
        /\ Termina(h, FilaCuenta)
        /\ UNCHANGED <<tokens, codigosVars>>

Reinicio == Olvida /\ UNCHANGED accesoVars

NextAcceso ==
    \/ Reinicio \/ LoginDosPasos
    \/ CodigoVence("desafio") /\ UNCHANGED accesoVars
    \/ \E t \in tokens : Renovar(t)
    \/ \E b \in BOOLEAN : CambiarDosPasos(b)
    \/ \E h \in Hilos :
        \/ CommitRegistrar(h) \/ EmailTomado(h) \/ Entregar(h)
        \/ Login(h) \/ CommitLogin(h) \/ CommitGestionar(h)
        \/ \E rol \in Roles : Registrar(h, rol)
        \/ \E acierta \in BOOLEAN : VerificarDesafio(h, acierta)
        \/ \E c \in Cambios : Gestionar(h, c)
-----------------------------------------------------------------------------
AccesoOK ==
    /\ cuenta \in CuentaRow \cup {Nada}
    /\ tokens \subseteq [rol: Roles \cup {Nada}, v: 1..MaxVersion, alta: BOOLEAN]

\* A token whose role_v is the account's carries its present role, and unless
\* the registration gave it, belongs to an active account: as long as no change
\* of role or status was computed from a row that had changed (two racing
\* changes lose one increment).  A login may race with any change.
TokenVigenteEnSerie ==
    ~obsoleta /\ cuenta # Nada =>
        \A t \in tokens : t.v = cuenta.version =>
            t.rol \in {Nada, cuenta.rol} /\ (t.alta \/ cuenta.status = "active")
=============================================================================
