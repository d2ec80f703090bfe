CONSTANTS
    sol = sol
    p1 = p1
    p2 = p2
    Nada = Nada
    Usuarios <- UnaPareja
    PDS <- UnPDS
    Solicitudes = {s1}
    Ofertas = {}
    Contratos = {k1}
    Montos = {20, 50}
    MontoMinimo = 50
    UmbralComision = 50
    Limite <- SinLimite
    EstadosManuales = {"publicado"}
    SaldosIniciales = {Nada, 6}
    MonedasIniciales = {0}
SPECIFICATION Spec
PROPERTY GananciaMenosComision
CHECK_DEADLOCK FALSE
