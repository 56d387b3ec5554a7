------------------------------ MODULE Calendario ------------------------------
(***************************************************************************)
(* The pure policies of time and size: domain/schedules.py (when a         *)
(* schedule fires next) and domain/scheduling.py (send windows, lot sizes  *)
(* and delays), each beside the definition it is checked against. The      *)
(* lengths of a minute, a day and a week are parameters, so that TLC can   *)
(* go through whole weeks; Python has 60, 1440 and 7.                      *)
(***************************************************************************)
EXTENDS Integers, FiniteSetsExt

CONSTANTS
  SegMin,     \* seconds in a minute
  MinDia,     \* minutes in a day
  DiasSem     \* days in a week

ASSUME CalendarioAssumption ==
  SegMin \in Nat \ {0} /\ MinDia \in Nat \ {0} /\ DiasSem \in Nat \ {0}

Dia == MinDia * SegMin
Once == "once"
Tipos == {Once, "daily", "weekly"}
SinHora == -1          \* hhmm: not a valid "HH:MM"
Horas == {SinHora} \cup 0..(MinDia - 1)
SinRun == 0            \* None, and a next_run of 0
-----------------------------------------------------------------------------
(* domain/schedules.py: instants are epochs, tz an offset in minutes.      *)

Local(epoch, tz) == epoch + tz * SegMin
Epoch(local, tz) == local - tz * SegMin
Medianoche(local) == (local \div Dia) * Dia
\* The epoch began on a Thursday: weekday 3.
Weekday(local) == (local \div Dia + 3) % DiasSem

\* today .. +DiasSem days, the first that is allowed and still to come.
SemanaDesde(cand, base, dias) ==
  {c \in {cand + add * Dia : add \in 0..DiasSem} : Weekday(c) \in dias /\ c > base}

proximo_run(tipo, at, dias, tz, desde) ==
  LET base == Local(desde, tz)
      cand == Medianoche(base) + at * SegMin
  IN  IF tipo = Once \/ at = SinHora THEN SinRun
      ELSE IF tipo = "daily"
             THEN Epoch(IF cand <= base THEN cand + Dia ELSE cand, tz)
             ELSE IF SemanaDesde(cand, base, dias) = {} THEN SinRun
                  ELSE Epoch(Min(SemanaDesde(cand, base, dias)), tz)

\* The reference: the instants at which a recurrent schedule fires, by the local
\* clock, and the first of them strictly after an instant.
Dispara(tipo, at, dias, tz, t) ==
  /\ at # SinHora /\ Local(t, tz) % Dia = at * SegMin
  /\ tipo = "daily" \/ (tipo = "weekly" /\ Weekday(Local(t, tz)) \in dias)
Primero(tipo, at, dias, tz, desde) ==
  LET ts == {t \in (desde + 1)..(desde + (DiasSem + 1) * Dia) :
               Dispara(tipo, at, dias, tz, t)}
  IN  IF ts = {} THEN SinRun ELSE Min(ts)
-----------------------------------------------------------------------------
(* domain/scheduling.py.                                                   *)

\* start and end in minutes; an invalid text falls back to 0 and to MinDia.
ventana_abierta(now, enabled, start, end, tz) ==
  LET minuto == (Local(now, tz) % Dia) \div SegMin
      ini == IF start = SinHora THEN 0 ELSE start
      fin == IF end = SinHora THEN MinDia ELSE end
  IN  IF ~enabled \/ ini = fin THEN TRUE
      ELSE IF ini < fin THEN ini <= minuto /\ minuto < fin
           ELSE minuto >= ini \/ minuto < fin

\* The reference: going round the clock from the opening, the present comes before
\* the closing.
EntreHoras(now, start, end, tz) ==
  \E k \in 0..(MinDia - 1) :
    /\ (start + k) % MinDia = (Local(now, tz) \div SegMin) % MinDia
    /\ \A j \in 0..k : (start + j) % MinDia # end

total_lotes(total, batch_size) ==
  LET bs == IF batch_size < 1 THEN 1 ELSE batch_size
  IN  IF total <= 0 THEN 0 ELSE (total + bs - 1) \div bs

\* What the panel saved: <<n>>, or <<>> when it is no finite number.
cap_batch_size(value, maximo) ==
  IF value = <<>> THEN maximo ELSE Max({1, Min({value[1], maximo})})

\* Any number of a range, of which it is only known that it lies in it.
delay_aleatorio(minimo, maximo) ==
  LET lo == IF maximo < minimo THEN maximo ELSE minimo
      hi == IF maximo < minimo THEN minimo ELSE maximo
  IN  IF hi <= 0 THEN {0} ELSE (IF lo < 0 THEN 0 ELSE lo)..hi
=============================================================================
