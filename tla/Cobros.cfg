CONSTANTS
    Nada = Nada
    Hilos <- DosHilos
    Respuestas = {TRUE, FALSE}
    MaxCobros = 3
    MaxDisputas = 2
    MaxHitos = 2
    MaxFilasHitos = 3
    Paquetes = {2}
    Ganadas = {1}
    Usos = {1, 2, 3}
    MaxMonedas = 4
    Planes = {"free", "basico", "profesional"}
    MaxMetodos = 3
    Inicio <- Junio
    Netos = {0, 3}
    MaxMeses = 20
    MaxIngresos = 2
SPECIFICATION Spec
CHECK_DEADLOCK FALSE
INVARIANTS CobrosOK CobroUnicoEnSerie UnicosEnSerie SumasCuadran
PROPERTIES DecisionFirmeEnSerie HitoResuelto
