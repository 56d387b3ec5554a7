------------------------------ MODULE MCSchedules ------------------------------
EXTENDS Schedules

CONSTANTS d1, d2

P(type, at, days, run_at) == [type |-> type, at |-> at, days |-> days, run_at |-> run_at]
MCPlantillas == {P(Once, SinHora, {}, 2), P("daily", 1, {}, 0), P("weekly", 0, {1}, 0)}
MCZonas == {-1}
Caso(cr, f, ca, t) == [creaciones |-> cr, fallos |-> f, cambios |-> ca, aLaVez |-> t]
MCCasos ==
  {Caso(1, 1, 1, 1), Caso(1, 1, 0, 2), Caso(1, 0, 1, 2), Caso(1, 0, 2, 1), Caso(2, 1, 0, 1)}

\* A calendar of longer minutes, days and weeks for the pure policies.
C == INSTANCE Calendario WITH SegMin <- 2, MinDia <- 3, DiasSem <- 3

\* Whole weeks, every hour, set of days and zone: the next run is the reference one.
ASSUME ProximoEsElPrimero ==
  \A tipo \in {"daily", "weekly"}, at \in 0..2, dias \in SUBSET (0..2), zona \in -3..3,
     desde \in 6..30 :
    C!proximo_run(tipo, at, dias, zona, desde) = C!Primero(tipo, at, dias, zona, desde)

\* Every window, also those that cross midnight; with equal ends it is always open, and
\* an end that cannot be read is midnight.
ASSUME VentanaEsEntreHoras ==
  \A start \in -1..2, end \in -1..2, zona \in -3..3, t \in 6..18 :
    LET ini == IF start = C!SinHora THEN 0 ELSE start
        fin == IF end = C!SinHora THEN 0 ELSE end
    IN  C!ventana_abierta(t, TRUE, start, end, zona) <=>
        ini = fin \/ C!EntreHoras(t, ini, fin, zona)

\* As many lots as it takes, none of them empty.
ASSUME LotesJustos ==
  \A n \in 0..12, valor \in {<<>>} \cup {<<k>> : k \in -1..6} :
    LET b == C!cap_batch_size(valor, 4)
        k == C!total_lotes(n, b)
    IN  b \in 1..4 /\ k * b >= n /\ (n > 0 => (k - 1) * b < n)
ASSUME DelayEnRango ==
  \A a \in -2..3, b \in -2..3 :
    C!delay_aleatorio(a, b) \subseteq 0..3 /\ C!delay_aleatorio(a, b) # {}
=============================================================================
