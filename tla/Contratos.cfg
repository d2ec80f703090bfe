CONSTANTS
    sol = sol
    p1 = p1
    p2 = p2
    Nada = Nada
    Usuarios <- UnaPareja
    PDS <- UnPDS
    Solicitudes = {s1}
    Ofertas = {}
    Contratos = {k1, k2}
    Montos = {50, 60}
    MontoMinimo = 50
    UmbralComision = 50
    Limite <- SinLimite
    EstadosManuales = {"publicado"}
    SaldosIniciales = {Nada, 6}
    MonedasIniciales = {0}
SPECIFICATION Spec
INVARIANTS IInv FirmaEnOrden PagoUnico
PROPERTIES NoResucita MovimientosRegistrados CicloCumplido
CHECK_DEADLOCK FALSE
