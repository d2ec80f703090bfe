----------------------------- MODULE Plataforma -----------------------------
(***************************************************************************)
(* What surrounds the work: codes and links, accounts and tokens, identity *)
(* documents, the desk of the staff, the directory of businesses and their *)
(* advertisements, skills, profiles, messages, the cascade, recommendations *)
(* and their experiment, the rate limit, files, trust, regions, and the    *)
(* script that sows a simulation.  They run on one server (Servidor) but   *)
(* share no row (accounts use codes), so no step of one can disturb        *)
(* another; a behaviour is explored for each area on its own.              *)
(***************************************************************************)
EXTENDS Codigos, Acceso, Verificacion, Soporte, Negocios, Anuncios, Habilidades,
        Perfil, Mensajeria, Cascada, Recomendacion, RateLimit, Archivos,
        Regiones, Semilla

VARIABLE area     \* the area that moves

Areas == {"codigos", "acceso", "kyc", "soporte", "panel", "negocio", "anuncio",
          "habilidad", "perfil", "directorio", "mensajeria", "cascada",
          "recomendacion", "clasificacion", "limite", "archivos", "confianza",
          "region", "semilla"}

varsCuentas == <<codigosVars, accesoVars, verificacionVars, soporteVars>>
varsVitrina == <<negociosVars, anunciosVars, habilidadesVars, perfilVars,
                 directorioVars>>
varsAvisos == <<mensajeriaVars, cascadaVars, recomendacionVars, clasificacionVars,
                rateLimitVars>>
varsDatos == <<archivosVars, confianzaVars, regionesVars, semillaVars>>
vars == <<area, servidor, varsCuentas, varsVitrina, varsAvisos, varsDatos>>

Init ==
    /\ area \in Areas
    /\ InitServidor
    /\ InitCodigos /\ InitAcceso /\ InitVerificacion /\ InitSoporte
    /\ InitNegocios /\ InitAnuncios /\ InitHabilidades /\ InitPerfil
    /\ InitDirectorio /\ InitMensajeria /\ InitCascada /\ InitRecomendacion
    /\ InitClasificacion /\ InitRateLimit /\ InitArchivos /\ InitConfianza
    /\ InitRegiones /\ InitSemilla

EnCodigos ==
    /\ area = "codigos" /\ NextCodigos
    /\ UNCHANGED <<area, accesoVars, verificacionVars, soporteVars, varsVitrina,
                   varsAvisos, varsDatos>>
EnAcceso ==
    /\ area = "acceso" /\ NextAcceso
    /\ UNCHANGED <<area, verificacionVars, soporteVars, varsVitrina, varsAvisos,
                   varsDatos>>
EnVerificacion ==
    /\ area = "kyc" /\ NextVerificacion
    /\ UNCHANGED <<area, codigosVars, accesoVars, soporteVars, varsVitrina, varsAvisos,
                   varsDatos>>
EnSoporte ==
    /\ area = "soporte" /\ NextMesa
    /\ UNCHANGED <<area, codigosVars, accesoVars, verificacionVars, varsVitrina,
                   varsAvisos, varsDatos>>
EnPanel ==
    /\ area = "panel" /\ NextPanel
    /\ UNCHANGED <<area, codigosVars, accesoVars, verificacionVars, varsVitrina,
                   varsAvisos, varsDatos>>
EnNegocios ==
    /\ area = "negocio" /\ NextNegocios
    /\ UNCHANGED <<area, anunciosVars, habilidadesVars, perfilVars, directorioVars,
                   varsCuentas, varsAvisos, varsDatos>>
EnAnuncios ==
    /\ area = "anuncio" /\ NextAnuncios
    /\ UNCHANGED <<area, negociosVars, habilidadesVars, perfilVars, directorioVars,
                   varsCuentas, varsAvisos, varsDatos>>
EnHabilidades ==
    /\ area = "habilidad" /\ NextHabilidades
    /\ UNCHANGED <<area, negociosVars, anunciosVars, perfilVars, directorioVars,
                   varsCuentas, varsAvisos, varsDatos>>
EnPerfil ==
    /\ area = "perfil" /\ NextPerfil
    /\ UNCHANGED <<area, negociosVars, anunciosVars, habilidadesVars, directorioVars,
                   varsCuentas, varsAvisos, varsDatos>>
EnDirectorio ==
    /\ area = "directorio" /\ NextDirectorio
    /\ UNCHANGED <<area, negociosVars, anunciosVars, habilidadesVars, perfilVars,
                   varsCuentas, varsAvisos, varsDatos>>
EnMensajeria ==
    /\ area = "mensajeria" /\ NextMensajeria
    /\ UNCHANGED <<area, cascadaVars, recomendacionVars, clasificacionVars,
                   rateLimitVars, varsCuentas, varsVitrina, varsDatos>>
EnCascada ==
    /\ area = "cascada" /\ NextCascada
    /\ UNCHANGED <<area, mensajeriaVars, recomendacionVars, clasificacionVars,
                   rateLimitVars, varsCuentas, varsVitrina, varsDatos>>
EnRecomendacion ==
    /\ area = "recomendacion" /\ NextRecomendacion
    /\ UNCHANGED <<area, mensajeriaVars, cascadaVars, clasificacionVars, rateLimitVars,
                   varsCuentas, varsVitrina, varsDatos>>
EnClasificacion ==
    /\ area = "clasificacion" /\ NextClasificacion
    /\ UNCHANGED <<area, servidor, mensajeriaVars, cascadaVars, recomendacionVars,
                   rateLimitVars, varsCuentas, varsVitrina, varsDatos>>
EnRateLimit ==
    /\ area = "limite" /\ NextRateLimit
    /\ UNCHANGED <<area, servidor, mensajeriaVars, cascadaVars, recomendacionVars,
                   clasificacionVars, varsCuentas, varsVitrina, varsDatos>>
EnArchivos ==
    /\ area = "archivos" /\ NextArchivos
    /\ UNCHANGED <<area, confianzaVars, regionesVars, semillaVars, varsCuentas,
                   varsVitrina, varsAvisos>>
EnConfianza ==
    /\ area = "confianza" /\ NextConfianza
    /\ UNCHANGED <<area, archivosVars, regionesVars, semillaVars, varsCuentas,
                   varsVitrina, varsAvisos>>
EnRegiones ==
    /\ area = "region" /\ NextRegiones
    /\ UNCHANGED <<area, archivosVars, confianzaVars, semillaVars, varsCuentas,
                   varsVitrina, varsAvisos>>
EnSemilla ==
    /\ area = "semilla" /\ NextSemilla
    /\ UNCHANGED <<area, servidor, archivosVars, confianzaVars, regionesVars,
                   varsCuentas, varsVitrina, varsAvisos>>

Next ==
    \/ EnCodigos \/ EnAcceso \/ EnVerificacion \/ EnSoporte
    \/ EnPanel \/ EnNegocios \/ EnAnuncios \/ EnHabilidades
    \/ EnPerfil \/ EnDirectorio \/ EnMensajeria \/ EnCascada
    \/ EnRecomendacion \/ EnClasificacion \/ EnRateLimit \/ EnArchivos
    \/ EnConfianza \/ EnRegiones \/ EnSemilla

Spec == Init /\ [][Next]_vars
-----------------------------------------------------------------------------
\* Types, and what survives every race, timeout, death and restart: codes are
\* used once, whoever was contacted was notified, a message marked read was
\* received, the phases of a cascade go in order, a recommendation is ranked, the
\* photo shown is stored, the simulation is coherent, and the rate limit holds.
PlataformaOK ==
    /\ AccesoOK /\ VerificacionOK /\ SoporteOK /\ NegociosOK /\ AnunciosOK
    /\ HabilidadesOK /\ PerfilOK /\ DirectorioOK /\ MensajeriaOK /\ CascadaOK
    /\ RecomendacionOK /\ ClasificacionOK /\ ArchivosOK /\ ConfianzaOK /\ RegionesOK
    /\ SemillaOK
    /\ CodigosOK /\ CodigoDeUnUso /\ LimitePorVentana

\* What is computed from other rows agrees with them while no request commits on
\* rows that had changed: verificado, the averages and counts of ratings, the
\* gallery, the audit log, the trust score, the regions, the hours.
DerivadosEnSerie ==
    /\ VerificadoEnSerie /\ NegocioEnSerie /\ PerfilEnSerie /\ AuditoriaEnSerie
    /\ ConfianzaEnSerie /\ RegionEnSerie /\ HorarioEnSerie

\* What happens once at most while nothing races (and no process dies): a link,
\* a postulation, a notification of formalization, a phase, a group.
UnaVezEnSerie ==
    /\ EnlaceUnaVezEnSerie /\ PostulacionEnSerie /\ FormalizacionUnaVezEnSerie
    /\ FaseUnaVezSinCaidas /\ GrupoEstableEnSerie
=============================================================================
