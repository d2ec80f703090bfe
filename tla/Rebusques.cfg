CONSTANTS
    h1 = h1
    h2 = h2
    Nada = Nada
    Solicitante = sol
    p1 = p1
    p2 = p2
    Pds <- DosPds
    Hilos <- DosHilos
    MaxAdendas = 2
    MaxFilas = 3
SYMMETRY Simetria
SPECIFICATION Spec
CHECK_DEADLOCK FALSE
INVARIANTS IInv ListaVeraz DerivadaUnaVezEnSerie PagadaConEntrega UnaAceptadaEnSerie
PROPERTIES CicloCumplido
