CONSTANTS
    sol = sol
    p1 = p1
    p2 = p2
    Nada = Nada
    Usuarios <- MCUsuarios
    PDS <- MCPDS
    Solicitudes = {s1}
    Ofertas = {o1, o2}
    Contratos = {k1, k2}
    Montos = {50}
    MontoMinimo = 50
    UmbralComision = 50
    Limite <- MCLimite
    EstadosManuales = {"publicado", "cancelado"}
    SaldosIniciales = {6}
    MonedasIniciales = {50}
SPECIFICATION SpecNegociacion
INVARIANTS AceptadaConContrato SinSobregiro
PROPERTIES CierreExcluyente ModalidadFija
CHECK_DEADLOCK FALSE
