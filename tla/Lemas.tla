-------------------------------- MODULE Lemas --------------------------------
(***************************************************************************)
(* The lemmas that the proofs about several components cite.               *)
(*                                                                         *)
(* What the steps of Servidor do to the slots of requests, whatever the    *)
(* requests are; and sums over finite sets, as the modules write them      *)
(* (SumFunctionOnSet of Functions).  Induction is by the least             *)
(* counterexample: WFMin speaks of sets, so that it can be cited for any   *)
(* property.                                                               *)
(***************************************************************************)
EXTENDS Servidor, FiniteSetTheorems, TLAPS

-----------------------------------------------------------------------------
(* The server *)

\* What a step that declares W leaves of the request of slot g.
SigueIgual(g, W) ==
    /\ peticion'[g] = Nada <=> peticion[g] = Nada
    /\ peticion[g] # Nada =>
            /\ peticion'[g].op = peticion[g].op
            /\ peticion'[g].lee = peticion[g].lee
            /\ peticion'[g].dato = peticion[g].dato
            /\ ~peticion'[g].vieja => ~peticion[g].vieja /\ peticion[g].lee \cap W = {}

\* A set of requests as Servidor makes them.
DePeticiones(Q) == Nada \notin Q /\ \E O, F, D : Q = Peticion(O, F, D)
PeticionNueva(op, lee, d) == [op |-> op, lee |-> lee, dato |-> d, vieja |-> FALSE]

\* Every slot is free or holds a request of Q.
Ranuras(Q) ==
    /\ peticion \in [Hilos -> Q \cup {Nada}]
    /\ obsoleta \in BOOLEAN

LEMMA Envejecida ==
    ASSUME NEW Q, DePeticiones(Q), NEW p \in Q, NEW W
    PROVE  LET q == Envejece(p, W)
           IN  /\ q \in Q
               /\ q.op = p.op /\ q.lee = p.lee /\ q.dato = p.dato
               /\ ~q.vieja /\ p # Nada => ~p.vieja /\ p.lee \cap W = {}
  <1>0. PICK O, F, D : Q = [op: O, lee: SUBSET F, dato: D, vieja: BOOLEAN]
    BY DEF DePeticiones, Peticion
  <1>1. [p EXCEPT !.vieja = TRUE] \in Q /\ [p EXCEPT !.vieja = TRUE].vieja = TRUE
    BY <1>0
  <1>2. CASE p # Nada /\ p.lee \cap W # {}
    <2>1. Envejece(p, W) = [p EXCEPT !.vieja = TRUE]
      BY <1>2 DEF Envejece
    <2>2. QED BY <1>0, <1>1, <2>1
  <1>3. CASE ~(p # Nada /\ p.lee \cap W # {})
    <2>1. Envejece(p, W) = p
      BY <1>3 DEF Envejece
    <2>2. QED BY <1>3, <2>1
  <1>4. QED BY <1>2, <1>3

\* The slots a step ages, whatever it does to the one of its own request.
LEMMA Envejecidas ==
    ASSUME NEW Q, DePeticiones(Q), Ranuras(Q), NEW W, NEW H \in SUBSET Hilos,
           \A g \in H : peticion'[g] = Envejece(peticion[g], W)
    PROVE  \A g \in H : /\ peticion'[g] \in Q \cup {Nada}
                        /\ SigueIgual(g, W)
  <1> SUFFICES ASSUME NEW g \in H
               PROVE  peticion'[g] \in Q \cup {Nada} /\ SigueIgual(g, W)
    OBVIOUS
  <1>1. peticion[g] \in Q \cup {Nada}
    BY DEF Ranuras
  <1>2. CASE peticion[g] = Nada
    BY <1>2 DEF Envejece, SigueIgual
  <1>3. CASE peticion[g] \in Q
    <2>1. peticion[g] # Nada /\ Nada \notin Q
      BY <1>3 DEF DePeticiones
    <2>2. QED BY <1>3, <2>1, Envejecida DEF SigueIgual
  <1>4. QED BY <1>1, <1>2, <1>3

LEMMA AlLlegar ==
    ASSUME NEW Q, DePeticiones(Q), Ranuras(Q), NEW h \in Hilos,
           NEW op, NEW lee, NEW d, PeticionNueva(op, lee, d) \in Q,
           Llega(h, op, lee, d)
    PROVE  /\ Ranuras(Q)' /\ obsoleta' = obsoleta
           /\ peticion[h] = Nada
           /\ peticion'[h] # Nada
           /\ peticion'[h].op = op /\ peticion'[h].lee = lee /\ peticion'[h].dato = d
           /\ \A g \in Hilos \ {h} : peticion'[g] = peticion[g]
  <1> DEFINE r == PeticionNueva(op, lee, d)
  <1>1. r \in Q
    BY DEF DePeticiones, Peticion, PeticionNueva
  <1>2. peticion' = [peticion EXCEPT ![h] = r] /\ peticion[h] = Nada /\ obsoleta' = obsoleta
    BY DEF Llega, PeticionNueva
  <1>3. r.op = op /\ r.lee = lee /\ r.dato = d
    BY DEF PeticionNueva
  <1>4. Nada \notin Q
    BY DEF DePeticiones
  <1> HIDE DEF r
  <1>5. QED BY <1>1, <1>2, <1>3, <1>4 DEF Ranuras

LEMMA AlTerminar ==
    ASSUME NEW Q, DePeticiones(Q), Ranuras(Q), NEW h \in Hilos, NEW W,
           peticion[h] # Nada, Termina(h, W)
    PROVE  /\ Ranuras(Q)'
           /\ ~obsoleta' => ~obsoleta /\ ~peticion[h].vieja
           /\ peticion'[h] = Nada
           /\ \A g \in Hilos \ {h} : SigueIgual(g, W)
  <1>1. /\ peticion' = [g \in Hilos |-> IF g = h THEN Nada ELSE Envejece(peticion[g], W)]
        /\ obsoleta' = (obsoleta \/ peticion[h].vieja)
    BY DEF Termina
  <1>2. \A g \in Hilos \ {h} : peticion'[g] = Envejece(peticion[g], W)
    BY <1>1
  <1>3. \A g \in Hilos \ {h} : peticion'[g] \in Q \cup {Nada} /\ SigueIgual(g, W)
    BY <1>2, Envejecidas
  <1>4. peticion'[h] = Nada
    BY <1>1
  <1>5. peticion' \in [Hilos -> Q \cup {Nada}]
    BY <1>1, <1>3, <1>4
  <1>6. peticion[h].vieja \in BOOLEAN
    BY DEF Ranuras, DePeticiones, Peticion
  <1>7. QED BY <1>1, <1>3, <1>4, <1>5, <1>6 DEF Ranuras

LEMMA AlSeguir ==
    ASSUME NEW Q, DePeticiones(Q), Ranuras(Q), NEW h \in Hilos, NEW W,
           NEW op, NEW lee, NEW d, PeticionNueva(op, lee, d) \in Q,
           peticion[h] # Nada, Sigue(h, W, op, lee, d)
    PROVE  /\ Ranuras(Q)'
           /\ ~obsoleta' => ~obsoleta /\ ~peticion[h].vieja
           /\ peticion'[h] # Nada
           /\ peticion'[h].op = op /\ peticion'[h].lee = lee /\ peticion'[h].dato = d
           /\ \A g \in Hilos \ {h} : SigueIgual(g, W)
  <1> DEFINE r == PeticionNueva(op, lee, d)
  <1>0. r \in Q /\ r.op = op /\ r.lee = lee /\ r.dato = d
    BY DEF DePeticiones, Peticion, PeticionNueva
  <1>1. /\ peticion' = [g \in Hilos |-> IF g = h THEN r ELSE Envejece(peticion[g], W)]
        /\ obsoleta' = (obsoleta \/ peticion[h].vieja)
    BY DEF Sigue, PeticionNueva
  <1> HIDE DEF r
  <1>2. \A g \in Hilos \ {h} : peticion'[g] = Envejece(peticion[g], W)
    BY <1>1
  <1>3. \A g \in Hilos \ {h} : peticion'[g] \in Q \cup {Nada} /\ SigueIgual(g, W)
    BY <1>2, Envejecidas
  <1>4. peticion'[h] = r
    BY <1>1
  <1>5. peticion' \in [Hilos -> Q \cup {Nada}]
    BY <1>0, <1>1, <1>3, <1>4
  <1>6. peticion[h].vieja \in BOOLEAN
    BY DEF Ranuras, DePeticiones, Peticion
  <1>7. Nada \notin Q
    BY DEF DePeticiones
  <1>8. QED BY <1>0, <1>7, <1>1, <1>3, <1>4, <1>5, <1>6 DEF Ranuras

LEMMA AlAvanzar ==
    ASSUME NEW Q, DePeticiones(Q), Ranuras(Q), NEW h \in Hilos,
           NEW op, NEW lee, NEW d, PeticionNueva(op, lee, d) \in Q,
           peticion[h] # Nada, Avanza(h, op, lee, d)
    PROVE  /\ Ranuras(Q)' /\ obsoleta' = obsoleta
           /\ peticion'[h] # Nada
           /\ peticion'[h].op = op /\ peticion'[h].lee = peticion[h].lee \cup lee
           /\ peticion'[h].dato = d /\ (peticion'[h].vieja <=> peticion[h].vieja)
           /\ \A g \in Hilos \ {h} : peticion'[g] = peticion[g]
  <1>1. PICK O, F, D : Q = [op: O, lee: SUBSET F, dato: D, vieja: BOOLEAN]
    BY DEF DePeticiones, Peticion
  <1>2. op \in O /\ lee \in SUBSET F /\ d \in D
    BY <1>1 DEF PeticionNueva
  <1>3. peticion[h] \in [op: O, lee: SUBSET F, dato: D, vieja: BOOLEAN]
    BY <1>1 DEF Ranuras
  <1>4. PICK r : r = [peticion[h] EXCEPT !.op = op, !.lee = @ \cup lee, !.dato = d]
    OBVIOUS
  <1>5. /\ r \in Q /\ r.op = op /\ r.lee = peticion[h].lee \cup lee /\ r.dato = d
        /\ r.vieja = peticion[h].vieja
    BY <1>1, <1>2, <1>3, <1>4
  <1>6. peticion' = [peticion EXCEPT ![h] = r] /\ obsoleta' = obsoleta
    <2>1. /\ peticion' = [peticion EXCEPT ![h].op = op, ![h].lee = @ \cup lee, ![h].dato = d]
          /\ obsoleta' = obsoleta
      BY DEF Avanza
    <2>2. peticion \in [Hilos -> Q \cup {Nada}]
      BY DEF Ranuras
    <2>3. QED BY <1>3, <1>4, <2>1, <2>2
  <1>7. r # Nada
    BY <1>5 DEF DePeticiones
  <1>8. QED BY <1>5, <1>6, <1>7 DEF Ranuras

LEMMA AlEscribir ==
    ASSUME NEW Q, DePeticiones(Q), Ranuras(Q), NEW W, Escriben(W)
    PROVE  /\ Ranuras(Q)' /\ obsoleta' = obsoleta
           /\ \A g \in Hilos : SigueIgual(g, W)
  <1>1. /\ peticion' = [g \in Hilos |-> Envejece(peticion[g], W)]
        /\ obsoleta' = obsoleta
    BY DEF Escriben
  <1>2. \A g \in Hilos : peticion'[g] \in Q \cup {Nada} /\ SigueIgual(g, W)
    BY <1>1, Envejecidas
  <1>3. peticion' \in [Hilos -> Q \cup {Nada}]
    BY <1>1, <1>2
  <1>4. QED BY <1>1, <1>2, <1>3 DEF Ranuras

LEMMA AlFallar ==
    ASSUME NEW Q, Ranuras(Q), NEW h \in Hilos, Falla(h)
    PROVE  /\ Ranuras(Q)' /\ obsoleta' = obsoleta
           /\ peticion'[h] = Nada
           /\ \A g \in Hilos \ {h} : peticion'[g] = peticion[g]
  BY DEF Ranuras, Falla

LEMMA AlPerderse ==
    ASSUME NEW Q, Ranuras(Q), SePierden
    PROVE  /\ Ranuras(Q)' /\ obsoleta' = obsoleta
           /\ \A h \in Hilos : peticion'[h] = Nada
  BY DEF Ranuras, SePierden

\* A slot that is as it was, or free.
LEMMA IgualSinAge ==
    ASSUME NEW g, peticion'[g] = peticion[g]
    PROVE  SigueIgual(g, {})
  BY DEF SigueIgual

\* Nothing is in flight at the start.
LEMMA ServidorLibre ==
    ASSUME InitServidor, NEW Q
    PROVE  Ranuras(Q) /\ \A h \in Hilos : peticion[h] = Nada
  BY DEF InitServidor, Ranuras

-----------------------------------------------------------------------------
(* Sums *)

LEMMA Minimo ==
    ASSUME NEW M \in SUBSET Nat, M # {}
    PROVE  \E n \in M : \A m \in M : n <= m
  <1>1. PICK R : R = OpToRel(<, Nat)
    OBVIOUS
  <1>2. \A x, y \in Nat : <<x, y>> \in R <=> x < y
    BY <1>1 DEF OpToRel
  <1>3. IsWellFoundedOn(R, Nat)
    BY <1>1, NatLessThanWellFounded
  <1>4. \E n \in M : \A m \in M : ~(<<m, n>> \in R)
    BY <1>3, WFMin
  <1>5. PICK n \in M : \A m \in M : ~(m < n)
    BY <1>2, <1>4
  <1>6. QED BY <1>5

\* A set of finite sets, if not empty, has one of the fewest elements.
LEMMA ElMenor ==
    ASSUME NEW C, C # {}, \A s \in C : IsFiniteSet(s)
    PROVE  \E s \in C : \A t \in C : Cardinality(s) <= Cardinality(t)
  <1>1. \A s \in C : Cardinality(s) \in Nat
    BY FS_CardinalityType
  <1>2. PICK M : M = {Cardinality(s) : s \in C}
    OBVIOUS
  <1>3. M \in SUBSET Nat /\ M # {}
    BY <1>1, <1>2
  <1>4. PICK n \in M : \A m \in M : n <= m
    BY <1>3, Minimo
  <1>5. QED BY <1>2, <1>4

\* Without one element a set is smaller.
LEMMA UnoMenos ==
    ASSUME NEW s, IsFiniteSet(s), NEW x \in s
    PROVE  /\ IsFiniteSet(s \ {x})
           /\ Cardinality(s \ {x}) < Cardinality(s)
           /\ Cardinality(s) \in Nat /\ Cardinality(s \ {x}) = Cardinality(s) - 1
  <1>1. Cardinality(s) \in Nat
    BY FS_CardinalityType
  <1>2. IsFiniteSet(s \ {x}) /\ Cardinality(s \ {x}) = Cardinality(s) - 1
    BY FS_RemoveElement
  <1>3. QED BY <1>1, <1>2
-----------------------------------------------------------------------------
(* The recursion behind the sum *)

Uno(s) == CHOOSE x \in s : TRUE
Vuelta(g, f, s) == IF s = {} THEN 0 ELSE f[Uno(s)] + g[s \ {Uno(s)}]
EsSuma(g, f, D) == g = [s \in D |-> Vuelta(g, f, s)]

LEMMA ElUno == ASSUME NEW s, s # {} PROVE Uno(s) \in s
  BY DEF Uno

\* The recursion has a solution on the subsets of up to n elements.
Hasta(S, n) == {s \in SUBSET S : Cardinality(s) <= n}
Resuelta(f, S, n) == \E g : EsSuma(g, f, Hasta(S, n))

LEMMA Resuelve ==
    ASSUME NEW f, NEW S, IsFiniteSet(S), NEW n \in Nat
    PROVE  Resuelta(f, S, n)
  <1> SUFFICES ASSUME ~Resuelta(f, S, n) PROVE FALSE
    OBVIOUS
  <1>1. PICK M : M = {m \in Nat : ~Resuelta(f, S, m)}
    OBVIOUS
  <1>2. PICK m \in M : \A k \in M : m <= k
    BY <1>1, Minimo
  <1>3. m \in Nat /\ ~Resuelta(f, S, m)
    BY <1>1, <1>2
  <1>4. \A s \in SUBSET S : IsFiniteSet(s) /\ Cardinality(s) \in Nat
    BY FS_Subset, FS_CardinalityType
  <1>5. CASE m = 0
    <2>1. \A s \in Hasta(S, 0) : s = {}
      BY <1>4, FS_EmptySet DEF Hasta
    <2>2. EsSuma([s \in Hasta(S, 0) |-> 0], f, Hasta(S, 0))
      BY <2>1 DEF EsSuma, Vuelta
    <2>3. QED BY <1>3, <1>5, <2>2 DEF Resuelta
  <1>6. CASE m > 0
    <2>1. m - 1 \in Nat /\ m - 1 \notin M
      BY <1>2, <1>3, <1>6
    <2>2. PICK g : EsSuma(g, f, Hasta(S, m - 1))
      BY <1>1, <2>1 DEF Resuelta
    <2>3. PICK h : h = [s \in Hasta(S, m) |-> Vuelta(g, f, s)]
      OBVIOUS
    <2>4. ASSUME NEW s \in Hasta(S, m)
          PROVE  Vuelta(g, f, s) = Vuelta(h, f, s)
      <3>1. CASE s = {}
        BY <3>1 DEF Vuelta
      <3>2. CASE s # {}
        <4>1. Uno(s) \in s /\ s \in SUBSET S /\ IsFiniteSet(s)
          BY <1>4, <3>2, ElUno DEF Hasta
        <4>2. s \ {Uno(s)} \in Hasta(S, m - 1) /\ s \ {Uno(s)} \in Hasta(S, m)
          <5>1. Cardinality(s) \in Nat /\ Cardinality(s) <= m
            BY <1>4, <4>1 DEF Hasta
          <5>2. PICK t : t = s \ {Uno(s)}
            OBVIOUS
          <5>3. Cardinality(t) = Cardinality(s) - 1 /\ t \in SUBSET S
            BY <4>1, <5>2, UnoMenos
          <5>4. QED BY <1>3, <5>1, <5>2, <5>3 DEF Hasta
        <4>3. PICK t : t = s \ {Uno(s)}
          OBVIOUS
        <4>4. g[t] = Vuelta(g, f, t) /\ h[t] = Vuelta(g, f, t)
          BY <2>2, <2>3, <4>2, <4>3 DEF EsSuma
        <4>5. QED BY <3>2, <4>3, <4>4 DEF Vuelta
      <3>3. QED BY <3>1, <3>2
    <2>5. EsSuma(h, f, Hasta(S, m))
      BY <2>3, <2>4 DEF EsSuma
    <2>6. QED BY <1>3, <2>5 DEF Resuelta
  <1>7. QED BY <1>3, <1>5, <1>6

\* Two solutions agree where both are defined.
LEMMA UnaSola ==
    ASSUME NEW f, NEW g, NEW h, NEW S, NEW T, IsFiniteSet(S),
           EsSuma(g, f, SUBSET S), EsSuma(h, f, SUBSET T),
           NEW r, r \in SUBSET S, r \in SUBSET T
    PROVE  g[r] = h[r]
  <1> SUFFICES ASSUME g[r] # h[r] PROVE FALSE
    OBVIOUS
  <1>1. PICK C : C = {s \in SUBSET S : s \in SUBSET T /\ g[s] # h[s]}
    OBVIOUS
  <1>2. C # {} /\ \A s \in C : IsFiniteSet(s)
    BY <1>1, FS_Subset
  <1>3. PICK s \in C : \A t \in C : Cardinality(s) <= Cardinality(t)
    BY <1>2, ElMenor
  <1>4. g[s] = Vuelta(g, f, s) /\ h[s] = Vuelta(h, f, s)
    BY <1>1, <1>3 DEF EsSuma
  <1>5. s # {}
    BY <1>1, <1>3, <1>4 DEF Vuelta
  <1>6. PICK t : t = s \ {Uno(s)}
    OBVIOUS
  <1>7. Uno(s) \in s /\ IsFiniteSet(s)
    BY <1>2, <1>5, ElUno
  <1>8. Cardinality(t) < Cardinality(s) /\ Cardinality(s) \in Nat /\ Cardinality(t) \in Nat
    BY <1>6, <1>7, UnoMenos, FS_CardinalityType
  <1>9. t \notin C
    BY <1>3, <1>8
  <1>10. g[t] = h[t]
    BY <1>1, <1>6, <1>9
  <1>11. QED BY <1>1, <1>3, <1>4, <1>5, <1>6, <1>10 DEF Vuelta

LEMMA LaSuma ==
    ASSUME NEW f, NEW S, IsFiniteSet(S)
    PROVE  \E g : EsSuma(g, f, SUBSET S) /\ SumFunctionOnSet(f, S) = g[S]
  <1>1. PICK n : n = Cardinality(S) /\ n \in Nat
    BY FS_CardinalityType
  <1>2. Hasta(S, n) = SUBSET S
    BY <1>1, FS_Subset DEF Hasta
  <1>3. \E g : EsSuma(g, f, SUBSET S)
    <2>1. Resuelta(f, S, n)
      BY <1>1, Resuelve
    <2>2. QED BY <1>2, <2>1 DEF Resuelta
  <1>4. EsSuma(CHOOSE g : EsSuma(g, f, SUBSET S), f, SUBSET S)
    BY <1>3
  <1>5. SumFunctionOnSet(f, S) = (CHOOSE g : EsSuma(g, f, SUBSET S))[S]
    BY DEF SumFunctionOnSet, FoldFunctionOnSet, MapThenFoldSet, EsSuma, Vuelta, Uno
  <1>6. QED BY <1>4, <1>5
-----------------------------------------------------------------------------
(* What a sum is *)

LEMMA SumaNada ==
    ASSUME NEW f
    PROVE  SumFunctionOnSet(f, {}) = 0
  <1>1. PICK g : EsSuma(g, f, SUBSET {}) /\ SumFunctionOnSet(f, {}) = g[{}]
    BY LaSuma, FS_EmptySet
  <1>2. QED BY <1>1 DEF EsSuma, Vuelta

LEMMA SumaUno ==
    ASSUME NEW f, NEW S, IsFiniteSet(S), S # {}
    PROVE  SumFunctionOnSet(f, S) = f[Uno(S)] + SumFunctionOnSet(f, S \ {Uno(S)})
  <1>1. PICK t : t = S \ {Uno(S)}
    OBVIOUS
  <1>2. IsFiniteSet(t) /\ t \in SUBSET S
    BY <1>1, FS_Subset
  <1>3. PICK g : EsSuma(g, f, SUBSET S) /\ SumFunctionOnSet(f, S) = g[S]
    BY LaSuma
  <1>4. PICK h : EsSuma(h, f, SUBSET t) /\ SumFunctionOnSet(f, t) = h[t]
    BY <1>2, LaSuma
  <1>5. g[t] = h[t]
    BY <1>2, <1>3, <1>4, UnaSola
  <1>6. g[S] = Vuelta(g, f, S)
    BY <1>3 DEF EsSuma
  <1>7. QED BY <1>1, <1>3, <1>4, <1>5, <1>6 DEF Vuelta

\* The sum of naturals is one.
LEMMA SumaNat ==
    ASSUME NEW f, NEW S, IsFiniteSet(S), \A x \in S : f[x] \in Nat
    PROVE  SumFunctionOnSet(f, S) \in Nat
  <1> SUFFICES ASSUME SumFunctionOnSet(f, S) \notin Nat PROVE FALSE
    OBVIOUS
  <1>1. PICK C : C = {s \in SUBSET S : SumFunctionOnSet(f, s) \notin Nat}
    OBVIOUS
  <1>2. C # {} /\ \A s \in C : IsFiniteSet(s)
    BY <1>1, FS_Subset
  <1>3. PICK s \in C : \A t \in C : Cardinality(s) <= Cardinality(t)
    BY <1>2, ElMenor
  <1>4. s # {} /\ s \in SUBSET S /\ IsFiniteSet(s)
    <2>1. SumFunctionOnSet(f, {}) \in Nat
      BY SumaNada
    <2>2. QED BY <1>1, <1>2, <1>3, <2>1
  <1>5. PICK c : c = Uno(s) /\ c \in s
    BY <1>4, ElUno
  <1>6. s \ {c} \notin C
    <2>1. Cardinality(s \ {c}) < Cardinality(s) /\ Cardinality(s) \in Nat
          /\ Cardinality(s \ {c}) = Cardinality(s) - 1
      BY <1>4, <1>5, UnoMenos
    <2>2. QED BY <1>3, <2>1
  <1>7. SumFunctionOnSet(f, s \ {c}) \in Nat
    BY <1>1, <1>4, <1>6
  <1>8. SumFunctionOnSet(f, s) = f[c] + SumFunctionOnSet(f, s \ {c})
    BY <1>4, <1>5, SumaUno
  <1>9. QED BY <1>1, <1>3, <1>4, <1>5, <1>7, <1>8

\* Whichever element is taken out.
LEMMA SumaQuita ==
    ASSUME NEW f, NEW S, IsFiniteSet(S), \A x \in S : f[x] \in Nat, NEW e \in S
    PROVE  SumFunctionOnSet(f, S) = f[e] + SumFunctionOnSet(f, S \ {e})
  <1> DEFINE Sale(s) == \A x \in s :
                SumFunctionOnSet(f, s) = f[x] + SumFunctionOnSet(f, s \ {x})
  <1> SUFFICES ASSUME ~Sale(S) PROVE FALSE
    OBVIOUS
  <1> HIDE DEF Sale
  <1>1. PICK C : C = {s \in SUBSET S : ~Sale(s)}
    OBVIOUS
  <1>2. C # {} /\ \A s \in C : IsFiniteSet(s)
    BY <1>1, FS_Subset
  <1>3. PICK s \in C : \A t \in C : Cardinality(s) <= Cardinality(t)
    BY <1>2, ElMenor
  <1>4. s \in SUBSET S /\ IsFiniteSet(s) /\ ~Sale(s)
    BY <1>1, <1>2, <1>3
  <1>5. PICK x \in s : SumFunctionOnSet(f, s) # f[x] + SumFunctionOnSet(f, s \ {x})
    BY <1>4 DEF Sale
  <1>6. PICK c : c = Uno(s) /\ c \in s
    BY <1>5, ElUno
  <1>7. SumFunctionOnSet(f, s) = f[c] + SumFunctionOnSet(f, s \ {c})
    BY <1>4, <1>5, <1>6, SumaUno
  <1>8. c # x
    BY <1>5, <1>7
  <1>9. ASSUME NEW y \in s
        PROVE  Sale(s \ {y})
    <2>1. Cardinality(s \ {y}) < Cardinality(s) /\ Cardinality(s) \in Nat
          /\ Cardinality(s \ {y}) = Cardinality(s) - 1
      BY <1>4, UnoMenos
    <2>2. s \ {y} \notin C /\ s \ {y} \in SUBSET S
      BY <1>3, <1>4, <2>1
    <2>3. QED BY <1>1, <2>2
  <1>10. PICK r : r = s \ {c, x}
    OBVIOUS
  <1>11. (s \ {c}) \ {x} = r /\ (s \ {x}) \ {c} = r
    BY <1>10
  <1>12. SumFunctionOnSet(f, s \ {c}) = f[x] + SumFunctionOnSet(f, r)
    BY <1>5, <1>6, <1>8, <1>9, <1>11 DEF Sale
  <1>13. SumFunctionOnSet(f, s \ {x}) = f[c] + SumFunctionOnSet(f, r)
    BY <1>5, <1>6, <1>8, <1>9, <1>11 DEF Sale
  <1>14. SumFunctionOnSet(f, r) \in Nat /\ f[x] \in Nat /\ f[c] \in Nat
    <2>1. IsFiniteSet(r) /\ \A y \in r : f[y] \in Nat
      BY <1>4, <1>10, FS_Subset
    <2>2. QED BY <1>4, <1>5, <1>6, <2>1, SumaNat
  <1>15. QED BY <1>5, <1>7, <1>12, <1>13, <1>14

LEMMA SumaAgrega ==
    ASSUME NEW f, NEW S, IsFiniteSet(S), NEW e, e \notin S,
           f[e] \in Nat, \A x \in S : f[x] \in Nat
    PROVE  SumFunctionOnSet(f, S \cup {e}) = SumFunctionOnSet(f, S) + f[e]
  <1>1. PICK T : T = S \cup {e}
    OBVIOUS
  <1>2. IsFiniteSet(T) /\ e \in T /\ T \ {e} = S /\ \A x \in T : f[x] \in Nat
    BY <1>1, FS_AddElement
  <1>3. SumFunctionOnSet(f, T) = f[e] + SumFunctionOnSet(f, S)
    BY <1>2, SumaQuita
  <1>4. SumFunctionOnSet(f, S) \in Nat
    BY SumaNat
  <1>5. QED BY <1>1, <1>3, <1>4

LEMMA SumaCeros ==
    ASSUME NEW f, NEW S, IsFiniteSet(S), \A x \in S : f[x] = 0
    PROVE  SumFunctionOnSet(f, S) = 0
  <1> SUFFICES ASSUME SumFunctionOnSet(f, S) # 0 PROVE FALSE
    OBVIOUS
  <1>1. PICK C : C = {s \in SUBSET S : SumFunctionOnSet(f, s) # 0}
    OBVIOUS
  <1>2. C # {} /\ \A s \in C : IsFiniteSet(s)
    BY <1>1, FS_Subset
  <1>3. PICK s \in C : \A t \in C : Cardinality(s) <= Cardinality(t)
    BY <1>2, ElMenor
  <1>4. s \in SUBSET S /\ IsFiniteSet(s) /\ SumFunctionOnSet(f, s) # 0
    BY <1>1, <1>2, <1>3
  <1>5. s # {}
    BY <1>4, SumaNada
  <1>6. PICK c : c = Uno(s) /\ c \in s
    BY <1>5, ElUno
  <1>7. Cardinality(s \ {c}) < Cardinality(s) /\ Cardinality(s) \in Nat
        /\ Cardinality(s \ {c}) = Cardinality(s) - 1
    BY <1>4, <1>6, UnoMenos
  <1>8. s \ {c} \notin C
    BY <1>3, <1>7
  <1>9. SumFunctionOnSet(f, s \ {c}) = 0
    BY <1>1, <1>4, <1>8
  <1>10. SumFunctionOnSet(f, s) = f[c] + SumFunctionOnSet(f, s \ {c})
    BY <1>4, <1>5, <1>6, SumaUno
  <1>11. QED BY <1>4, <1>6, <1>9, <1>10

\* Term by term: a sum is monotone, and the sum of sums is the sum.
LEMMA SumaMayor ==
    ASSUME NEW f, NEW g, NEW S, IsFiniteSet(S),
           \A x \in S : f[x] \in Nat /\ g[x] \in Nat /\ f[x] <= g[x]
    PROVE  SumFunctionOnSet(f, S) <= SumFunctionOnSet(g, S)
  <1> DEFINE Bajo(s) == SumFunctionOnSet(f, s) <= SumFunctionOnSet(g, s)
  <1> SUFFICES ASSUME ~Bajo(S) PROVE FALSE
    OBVIOUS
  <1>0. Bajo({})
    BY SumaNada
  <1> HIDE DEF Bajo
  <1>1. PICK C : C = {s \in SUBSET S : ~Bajo(s)}
    OBVIOUS
  <1>2. C # {} /\ \A s \in C : IsFiniteSet(s)
    BY <1>1, FS_Subset
  <1>3. PICK s \in C : \A t \in C : Cardinality(s) <= Cardinality(t)
    BY <1>2, ElMenor
  <1>4. s \in SUBSET S /\ IsFiniteSet(s) /\ ~Bajo(s) /\ s # {}
    BY <1>0, <1>1, <1>2, <1>3
  <1>5. PICK c \in s : TRUE
    BY <1>4
  <1>6. PICK t : t = s \ {c}
    OBVIOUS
  <1>7. IsFiniteSet(t) /\ t \in SUBSET S /\ Bajo(t)
    <2>1. IsFiniteSet(t) /\ Cardinality(t) < Cardinality(s) /\ Cardinality(s) \in Nat
          /\ Cardinality(t) = Cardinality(s) - 1
      BY <1>4, <1>6, UnoMenos
    <2>2. QED BY <1>1, <1>3, <1>4, <1>6, <2>1
  <1>8. /\ SumFunctionOnSet(f, s) = f[c] + SumFunctionOnSet(f, t)
        /\ SumFunctionOnSet(g, s) = g[c] + SumFunctionOnSet(g, t)
    BY <1>4, <1>6, SumaQuita
  <1>9. SumFunctionOnSet(f, t) \in Nat /\ SumFunctionOnSet(g, t) \in Nat
    BY <1>7, SumaNat
  <1>10. f[c] \in Nat /\ g[c] \in Nat /\ f[c] <= g[c]
    BY <1>4
  <1>11. QED BY <1>4, <1>7, <1>8, <1>9, <1>10 DEF Bajo

LEMMA SumaIgual ==
    ASSUME NEW f, NEW g, NEW S, IsFiniteSet(S), \A x \in S : f[x] \in Nat /\ g[x] = f[x]
    PROVE  SumFunctionOnSet(g, S) = SumFunctionOnSet(f, S)
  <1>1. SumFunctionOnSet(f, S) \in Nat /\ SumFunctionOnSet(g, S) \in Nat
    BY SumaNat
  <1>2. SumFunctionOnSet(f, S) <= SumFunctionOnSet(g, S)
    BY SumaMayor
  <1>3. SumFunctionOnSet(g, S) <= SumFunctionOnSet(f, S)
    BY SumaMayor
  <1>4. QED BY <1>1, <1>2, <1>3

LEMMA SumaMas ==
    ASSUME NEW f, NEW g, NEW h, NEW S, IsFiniteSet(S),
           \A x \in S : f[x] \in Nat /\ g[x] \in Nat /\ h[x] = f[x] + g[x]
    PROVE  SumFunctionOnSet(h, S) = SumFunctionOnSet(f, S) + SumFunctionOnSet(g, S)
  <1> DEFINE Junta(s) ==
        SumFunctionOnSet(h, s) = SumFunctionOnSet(f, s) + SumFunctionOnSet(g, s)
  <1> SUFFICES ASSUME ~Junta(S) PROVE FALSE
    OBVIOUS
  <1>0. Junta({})
    BY SumaNada
  <1> HIDE DEF Junta
  <1>1. PICK C : C = {s \in SUBSET S : ~Junta(s)}
    OBVIOUS
  <1>2. C # {} /\ \A s \in C : IsFiniteSet(s)
    BY <1>1, FS_Subset
  <1>3. PICK s \in C : \A t \in C : Cardinality(s) <= Cardinality(t)
    BY <1>2, ElMenor
  <1>4. s \in SUBSET S /\ IsFiniteSet(s) /\ ~Junta(s) /\ s # {}
    BY <1>0, <1>1, <1>2, <1>3
  <1>5. PICK c \in s : TRUE
    BY <1>4
  <1>6. PICK t : t = s \ {c}
    OBVIOUS
  <1>7. IsFiniteSet(t) /\ t \in SUBSET S /\ Junta(t)
    <2>1. IsFiniteSet(t) /\ Cardinality(t) < Cardinality(s) /\ Cardinality(s) \in Nat
          /\ Cardinality(t) = Cardinality(s) - 1
      BY <1>4, <1>6, UnoMenos
    <2>2. QED BY <1>1, <1>3, <1>4, <1>6, <2>1
  <1>8. /\ SumFunctionOnSet(f, s) = f[c] + SumFunctionOnSet(f, t)
        /\ SumFunctionOnSet(g, s) = g[c] + SumFunctionOnSet(g, t)
        /\ SumFunctionOnSet(h, s) = h[c] + SumFunctionOnSet(h, t)
    <2>1. \A x \in s : f[x] \in Nat /\ g[x] \in Nat /\ h[x] \in Nat
      BY <1>4
    <2>2. QED BY <1>4, <1>6, <2>1, SumaQuita
  <1>9. SumFunctionOnSet(f, t) \in Nat /\ SumFunctionOnSet(g, t) \in Nat
    BY <1>7, SumaNat
  <1>10. f[c] \in Nat /\ g[c] \in Nat /\ h[c] = f[c] + g[c]
    BY <1>4
  <1>11. QED BY <1>4, <1>7, <1>8, <1>9, <1>10 DEF Junta

LEMMA SumaUnion ==
    ASSUME NEW f, NEW S, NEW T, IsFiniteSet(S), IsFiniteSet(T), S \cap T = {},
           \A x \in S \cup T : f[x] \in Nat
    PROVE  SumFunctionOnSet(f, S \cup T) = SumFunctionOnSet(f, S) + SumFunctionOnSet(f, T)
  <1> DEFINE Junta(s) ==
        SumFunctionOnSet(f, S \cup s) = SumFunctionOnSet(f, S) + SumFunctionOnSet(f, s)
  <1> SUFFICES ASSUME ~Junta(T) PROVE FALSE
    OBVIOUS
  <1>0. Junta({})
    <2>1. SumFunctionOnSet(f, S) \in Nat /\ S \cup {} = S
      BY SumaNat
    <2>2. QED BY <2>1, SumaNada
  <1> HIDE DEF Junta
  <1>1. PICK C : C = {s \in SUBSET T : ~Junta(s)}
    OBVIOUS
  <1>2. C # {} /\ \A s \in C : IsFiniteSet(s)
    BY <1>1, FS_Subset
  <1>3. PICK s \in C : \A t \in C : Cardinality(s) <= Cardinality(t)
    BY <1>2, ElMenor
  <1>4. s \in SUBSET T /\ IsFiniteSet(s) /\ ~Junta(s) /\ s # {}
    BY <1>0, <1>1, <1>2, <1>3
  <1>5. PICK c \in s : TRUE
    BY <1>4
  <1>6. PICK t : t = s \ {c}
    OBVIOUS
  <1>7. IsFiniteSet(t) /\ t \in SUBSET T /\ Junta(t)
    <2>1. IsFiniteSet(t) /\ Cardinality(t) < Cardinality(s) /\ Cardinality(s) \in Nat
          /\ Cardinality(t) = Cardinality(s) - 1
      BY <1>4, <1>6, UnoMenos
    <2>2. QED BY <1>1, <1>3, <1>4, <1>6, <2>1
  <1>8. /\ SumFunctionOnSet(f, s) = f[c] + SumFunctionOnSet(f, t)
        /\ SumFunctionOnSet(f, S \cup s) = f[c] + SumFunctionOnSet(f, S \cup t)
    <2>1. /\ IsFiniteSet(S \cup s) /\ c \in S \cup s /\ \A x \in S \cup s : f[x] \in Nat
          /\ (S \cup s) \ {c} = S \cup t
      BY <1>4, <1>5, <1>6, FS_Union
    <2>2. SumFunctionOnSet(f, S \cup s) = f[c] + SumFunctionOnSet(f, S \cup t)
      BY <2>1, SumaQuita
    <2>3. SumFunctionOnSet(f, s) = f[c] + SumFunctionOnSet(f, t)
      BY <1>4, <1>6, <2>1, SumaQuita
    <2>4. QED BY <2>2, <2>3
  <1>9. SumFunctionOnSet(f, t) \in Nat /\ SumFunctionOnSet(f, S) \in Nat /\ f[c] \in Nat
    BY <1>4, <1>7, SumaNat
  <1>10. QED BY <1>4, <1>7, <1>8, <1>9 DEF Junta

LEMMA Cociente ==
    ASSUME NEW a \in Nat, NEW n \in Nat, NEW k \in Nat, a < (k + 1) * n
    PROVE  a \div n \in 0..k
  <1>1. PICK q : q = a \div n
    OBVIOUS
  <1>2. q \in Int /\ n * q <= a /\ a < n * q + n
    BY <1>1
  <1>3. q >= 0
    BY <1>2
  <1>4. q <= k
    BY <1>2
  <1>5. QED BY <1>1, <1>2, <1>3, <1>4

\* No sum is more than its terms at their highest, nor an average.
LEMMA SumaHasta ==
    ASSUME NEW f, NEW S, IsFiniteSet(S), NEW k \in Nat, \A x \in S : f[x] \in 0..k
    PROVE  SumFunctionOnSet(f, S) <= k * Cardinality(S)
  <1> DEFINE Bajo(s) == SumFunctionOnSet(f, s) <= k * Cardinality(s)
  <1> SUFFICES ASSUME ~Bajo(S) PROVE FALSE
    OBVIOUS
  <1>0. Bajo({})
    BY SumaNada, FS_EmptySet
  <1> HIDE DEF Bajo
  <1>1. PICK C : C = {s \in SUBSET S : ~Bajo(s)}
    OBVIOUS
  <1>2. C # {} /\ \A s \in C : IsFiniteSet(s)
    BY <1>1, FS_Subset
  <1>3. PICK s \in C : \A t \in C : Cardinality(s) <= Cardinality(t)
    BY <1>2, ElMenor
  <1>4. s \in SUBSET S /\ IsFiniteSet(s) /\ ~Bajo(s) /\ s # {}
    BY <1>0, <1>1, <1>2, <1>3
  <1>5. PICK c \in s : TRUE
    BY <1>4
  <1>6. PICK t : t = s \ {c}
    OBVIOUS
  <1>7. /\ IsFiniteSet(t) /\ t \in SUBSET S /\ Bajo(t)
        /\ Cardinality(s) \in Nat /\ Cardinality(t) = Cardinality(s) - 1
    <2>1. IsFiniteSet(t) /\ Cardinality(t) < Cardinality(s) /\ Cardinality(s) \in Nat
          /\ Cardinality(t) = Cardinality(s) - 1
      BY <1>4, <1>6, UnoMenos
    <2>2. QED BY <1>1, <1>3, <1>4, <1>6, <2>1
  <1>8. SumFunctionOnSet(f, s) = f[c] + SumFunctionOnSet(f, t)
    BY <1>4, <1>6, SumaQuita
  <1>9. SumFunctionOnSet(f, t) \in Nat /\ f[c] \in 0..k
    BY <1>4, <1>7, SumaNat
  <1>10. k * Cardinality(s) = k * (Cardinality(s) - 1) + k
    BY <1>7
  <1>11. QED BY <1>4, <1>7, <1>8, <1>9, <1>10 DEF Bajo
=============================================================================
