CONSTANTS
    h1 = h1
    h2 = h2
    grande = grande
    chico = chico
    Nada = Nada
    UmbralComision = 50
    Hilos <- DosHilos
    Contratos <- DosContratos
    Precio <- PrecioMC
    Modo <- ModoMC
    Depositos = {10}
    Retiros = {10}
    SaldosIniciales = {0, 10}
    MaxEntradas = 3
SPECIFICATION Spec
CHECK_DEADLOCK FALSE
INVARIANTS IInv SaldoNoNegativo CuadraEnSerie PagoUnicoEnSerie
PROPERTIES SaldoConAsiento TodaPeticionResponde
