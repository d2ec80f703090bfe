CONSTANTS
    Nada = Nada
    h1 = h1
    h2 = h2
    Hilos <- DosHilos
    MaxIntentos = 2
    MaxCodigos <- CotaCodigos
    MaxEnlaces = 2
    Publicos = {"pds"}
    Internos = {"soporte"}
    Estados = {"active", "suspended"}
    MaxVersion = 3
    Unicos = {"cedula"}
    Multiples = {"cuenta"}
    Instancias = {"x"}
    MaxDocumentos = 3
    MaxCambios = 2
    Autores = {"ana", "beto"}
    Puntajes = {1, 5}
    MaxImagenes = 2
    MaxSubidas = 3
    Postulantes = {"ana", "beto"}
    MaxPostulaciones = 2
    MaxAvisos = 2
    Ruta <- RutaDosNiveles
    Competencias = {"soldar", "medir"}
    Preguntas = 5
    Trabajos = {0, 3, 15, 70}
    Notas = {39, 40, 45, 48}
    Resenas = {"r1", "r2"}
    Estrellas = {2, 5}
    Pasos = {1, 1000}
    Notables <- DosInsignias
    Participantes = {"ana", "beto"}
    MaxMensajes = 2
    MaxAvisosUsuario = 3
    NumFases = 3
    MaxCaidas = 1
    Usuarios = {"ana", "beto"}
    MaxRegistros = 3
    MaxAttempts = 2
    WindowSeconds = 3
    MaxReloj = 7
    Nombres = {"a", "b"}
    MaxItems = 2
    Hechos <- TresSituaciones
    MaxVersiones = 2
    Gente = {"ana"}
    Textos = {"norte y sur", "otro"}
    Nombra <- DosTextos
    Catalogo <- DosRegiones
    MaxMudanzas = 2
    Titulos = {"taller"}
    Dias = {1, 2}
    Propuestas <- CuatroHorarios
    Cuartos = {0, 1, 2, 3, 4, 5}
    MaxSegundos = 2
    MaxHorarios = 2
    Proveedores = {"ana", "beto", "caro"}
    Fichas <- CincoFichas
    MaxLista = 2
    Escalas <- EscalasDeAyuda
SPECIFICATION Spec
SYMMETRY Simetria
CHECK_DEADLOCK FALSE
INVARIANTS PlataformaOK TokenVigenteEnSerie DerivadosEnSerie UnaVezEnSerie
PROPERTIES ProgresoNoBaja
