------------------------------ MODULE RateLimit ------------------------------
(***************************************************************************)
(* The rate limit of login, registration and password reset: the times of  *)
(* the recent attempts of one client for one of them, in the memory of the *)
(* process.                                                                *)
(***************************************************************************)
EXTENDS Naturals, Sequences, FiniteSets

CONSTANTS MaxAttempts,      \* LOGIN_MAX_ATTEMPTS and the others
          WindowSeconds,    \* LOGIN_WINDOW_SECONDS and the others
          MaxReloj          \* bound: the clock

ASSUME RateLimitAssumption == MaxAttempts \in Nat /\ WindowSeconds \in Nat \ {0}

VARIABLES
    reloj,        \* time.time()
    admitidos,    \* history: times of the attempts let through since the start
    intentos      \* _rate_limits[full_key]: which of them its list holds

rateLimitVars == <<reloj, intentos, admitidos>>

InitRateLimit == reloj = 0 /\ intentos = {} /\ admitidos = <<>>

Recientes == {i \in intentos : reloj - admitidos[i] < WindowSeconds}
-----------------------------------------------------------------------------
Pasa == reloj < MaxReloj /\ reloj' = reloj + 1 /\ UNCHANGED <<intentos, admitidos>>

\* Mutant: an attempt is let through at the limit.
IntentaDeMas ==
    IF Cardinality(Recientes) > MaxAttempts
    THEN intentos' = Recientes /\ UNCHANGED <<reloj, admitidos>>
    ELSE /\ admitidos' = Append(admitidos, reloj)
         /\ intentos' = Recientes \cup {Len(admitidos')}
         /\ UNCHANGED reloj

\* _check_rate_limit: a refused attempt does not count.
Intenta ==
    IF Cardinality(Recientes) >= MaxAttempts
    THEN intentos' = Recientes /\ UNCHANGED <<reloj, admitidos>>
    ELSE /\ admitidos' = Append(admitidos, reloj)
         /\ intentos' = Recientes \cup {Len(admitidos')}
         /\ UNCHANGED reloj

\* The process restarts and forgets.
OlvidaIntentos == intentos' = {} /\ admitidos' = <<>> /\ UNCHANGED reloj

NextRateLimit == Pasa \/ Intenta \/ OlvidaIntentos
-----------------------------------------------------------------------------
\* In no window of time since the process started are more attempts let through
\* than the limit, although the list is pruned and refused attempts are not in it.
LimitePorVentana ==
    \A t \in 0..reloj :
        Cardinality({i \in DOMAIN admitidos :
            admitidos[i] <= t /\ t - admitidos[i] < WindowSeconds}) <= MaxAttempts
=============================================================================
