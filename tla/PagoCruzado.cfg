CONSTANTS
    h1 = h1
    h2 = h2
    Nada = Nada
    Solicitante = sol
    Prestador = pds
    Hilos <- DosHilos
    Posiciones = {sitio, lejos}
    EnRadio = {sitio}
    MontosFinales = {m1}
SPECIFICATION Spec
INVARIANT AmbosConfirmanPago
