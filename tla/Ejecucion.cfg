CONSTANTS
    h1 = h1
    h2 = h2
    Nada = Nada
    Solicitante = sol
    Prestador = pds
    Hilos <- DosHilos
    Posiciones = {sitio, lejos}
    EnRadio = {sitio}
    MontosFinales = {m1, m2}
SPECIFICATION Spec
INVARIANTS TypeOK HitosEnOrden EstadoConHitos FotosFieles PausaEnSerie
PROPERTIES CongeladaEnSerie HitosCumplidos
