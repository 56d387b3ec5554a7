---------------------------- MODULE SchedulesProofs ----------------------------
(***************************************************************************)
(* The calendar and the scheduled messages, for any lengths of the minute, *)
(* the day and the week, any zone, schedules, ticks at once, requests of   *)
(* the panel, failures and deaths: proximo_run is the first instant of the *)
(* calendar, the state is well typed, a schedule goes out once for each of *)
(* its hours, and its next run is always the right one.                    *)
(***************************************************************************)
EXTENDS Schedules, FiniteSetTheorems, WellFoundedInduction, TLAPS
-----------------------------------------------------------------------------
(* Integers.                                                               *)

\* A finite set of integers has a least element: the sets of what is below each of
\* its elements are finite, and a least one of them is that of the least element.
LEMMA HayMinimo ==
  ASSUME NEW A \in SUBSET Int, IsFiniteSet(A), A # {}
  PROVE  \E m \in A : \A y \in A : m <= y
<1> DEFINE Bajo(x) == {y \in A : y <= x}
           T == {Bajo(x) : x \in A}
<1>1. T \subseteq FiniteSubsetsOf(A) /\ T # {}
  <2>1. \A x \in A : Bajo(x) \in SUBSET A
    OBVIOUS
  <2>2. \A x \in A : IsFiniteSet(Bajo(x))
    BY <2>1, FS_Subset
  <2> QED
    BY <2>1, <2>2 DEF FiniteSubsetsOf
<1>2. PICK t \in T : \A u \in T : ~(<<u, t>> \in StrictSubsetOrdering(A))
  BY <1>1, FS_StrictSubsetOrderingWellFounded, WFMin
<1>3. PICK m \in A : t = Bajo(m)
  OBVIOUS
<1>4. ASSUME NEW y \in A, ~(m <= y) PROVE FALSE
  <2>1. y \in Int /\ m \in Int /\ y < m
    BY <1>4
  <2>2. \A z \in A : z <= y => z <= m
    BY <2>1
  <2>3. m <= m /\ ~(m <= y)
    BY <2>1
  <2>4. Bajo(y) \subseteq Bajo(m) /\ m \in Bajo(m) /\ m \notin Bajo(y)
    BY <2>2, <2>3
  <2>5. <<Bajo(y), Bajo(m)>> \in StrictSubsetOrdering(A)
    BY <2>4 DEF StrictSubsetOrdering
  <2> QED
    BY <1>2, <1>3, <2>5
<1> QED
  BY <1>4

\* Min is the least element.
LEMMA MinEs ==
  ASSUME NEW A \in SUBSET Int, NEW m \in A, \A y \in A : m <= y
  PROVE  Min(A) = m
<1>1. \A x \in A : (\A y \in A : x <= y) => x = m
  OBVIOUS
<1> QED
  BY <1>1 DEF Min

\* Quotient and remainder, and that there are no others.
LEMMA DivMod ==
  ASSUME NEW x \in Int, NEW d \in Nat \ {0}
  PROVE  /\ x \div d \in Int /\ x % d \in Int /\ 0 <= x % d /\ x % d < d
         /\ x = d * (x \div d) + (x % d)
<1>1. x \div d \in Int /\ x % d \in Int
  OBVIOUS
<1>2. 0 <= x % d /\ x % d < d
  OBVIOUS
<1>3. x = d * (x \div d) + (x % d)
  OBVIOUS
<1> QED
  BY <1>1, <1>2, <1>3

\* Quotient and remainder are those of any such decomposition.
LEMMA ModUnico ==
  ASSUME NEW d \in Nat \ {0}, NEW k \in Int, NEW r \in 0..(d - 1)
  PROVE  (d * k + r) \div d = k /\ (d * k + r) % d = r
OBVIOUS

\* Products keep the order.
LEMMA Producto ==
  ASSUME NEW d \in Nat \ {0}, NEW i \in Int, NEW j \in Int
  PROVE  /\ d * i \in Int
         /\ i < j <=> d * i + d <= d * j
         /\ i <= j <=> d * i <= d * j
         /\ i < j <=> d * i < d * j
<1>1. d * i \in Int /\ d * j \in Int
  OBVIOUS
<1>2. i < j => d * i + d <= d * j
  <2> SUFFICES ASSUME i < j PROVE d * i + d <= d * j
    OBVIOUS
  <2>1. PICK n \in Nat : j = i + 1 + n
    <3>1. j - i - 1 \in Nat /\ j = i + 1 + (j - i - 1)
      OBVIOUS
    <3> QED
      BY <3>1
  <2>2. d * j = d * i + d + d * n
    BY <2>1
  <2>3. d * n \in Nat
    OBVIOUS
  <2> QED
    BY <1>1, <2>2, <2>3
<1>3. j < i => d * j + d <= d * i
  <2> SUFFICES ASSUME j < i PROVE d * j + d <= d * i
    OBVIOUS
  <2>1. PICK n \in Nat : i = j + 1 + n
    <3>1. i - j - 1 \in Nat /\ i = j + 1 + (i - j - 1)
      OBVIOUS
    <3> QED
      BY <3>1
  <2>2. d * i = d * j + d + d * n
    BY <2>1
  <2>3. d * n \in Nat
    OBVIOUS
  <2> QED
    BY <1>1, <2>2, <2>3
<1>4. i = j => d * i = d * j
  OBVIOUS
<1>5. i < j \/ i = j \/ j < i
  OBVIOUS
<1> DEFINE x == d * i
           y == d * j
<1>6. x \in Int /\ y \in Int /\ (i < j => x + d <= y) /\ (j < i => y + d <= x) /\ (i = j => x = y)
  BY <1>1, <1>2, <1>3, <1>4
<1> HIDE DEF x, y
<1>7. /\ x \in Int
      /\ i < j <=> x + d <= y
      /\ i <= j <=> x <= y
      /\ i < j <=> x < y
  BY <1>5, <1>6
<1> QED
  BY <1>7 DEF x, y
-----------------------------------------------------------------------------
(* The next run of a schedule.                                             *)

\* The local clock at an instant, from the candidate of its day: the days since the
\* epoch, the time of the schedule within its day.
Base(zona, desde) == Local(desde, zona)
Hoy(zona, desde) == Base(zona, desde) \div Dia
Cand(at, zona, desde) == Dia * Hoy(zona, desde) + at * SegMin
Toca(tipo, dias, zona, desde, m) ==
  tipo = "daily" \/ (tipo = "weekly" /\ (Hoy(zona, desde) + m + 3) % DiasSem \in dias)

\* The lengths of the parts of a day; an hour lies within its day.
LEMMA Dias ==
  /\ Dia \in Nat \ {0} /\ SegMin \in Nat \ {0} /\ MinDia \in Nat \ {0} /\ DiasSem \in Nat \ {0}
  /\ \A at \in 0..(MinDia - 1) : at * SegMin \in 0..(Dia - 1)
<1>1. SegMin \in Nat \ {0} /\ MinDia \in Nat \ {0} /\ DiasSem \in Nat \ {0}
  BY CalendarioAssumption
<1>2. Dia \in Nat \ {0}
  <2>1. \A i, j \in Nat \ {0} : i * j \in Nat \ {0}
    <3> SUFFICES ASSUME NEW i \in Nat \ {0}, NEW j \in Nat \ {0} PROVE i * j \in Nat \ {0}
      OBVIOUS
    <3>1. i * 0 < i * j
      BY Producto
    <3>2. i * 0 = 0 /\ i * j \in Int
      OBVIOUS
    <3> QED
      BY <3>1, <3>2
  <2> QED
    BY <1>1, <2>1 DEF Dia
<1>3. ASSUME NEW at \in 0..(MinDia - 1) PROVE at * SegMin \in 0..(Dia - 1)
  <2>1. SegMin * 0 <= SegMin * at /\ SegMin * at < SegMin * MinDia
    BY <1>1, Producto
  <2>2. SegMin * 0 = 0 /\ SegMin * at = at * SegMin /\ SegMin * MinDia = Dia /\ SegMin * at \in Int
    BY <1>1 DEF Dia
  <2> DEFINE x == at * SegMin
  <2>3. 0 <= x /\ x < Dia /\ x \in Int
    BY <2>1, <2>2
  <2> HIDE DEF x
  <2>4. x \in 0..(Dia - 1)
    BY <1>2, <2>3
  <2> QED
    BY <2>4 DEF x
<1> QED
  BY <1>1, <1>2, <1>3

\* The day of the candidate, and what the calendar of its days is.
LEMMA CandTipo ==
  ASSUME NEW at \in 0..(MinDia - 1), NEW zona \in Int, NEW desde \in Int
  PROVE  /\ Base(zona, desde) \in Int /\ Hoy(zona, desde) \in Int /\ Cand(at, zona, desde) \in Int
         /\ Cand(at, zona, desde) = Medianoche(Base(zona, desde)) + at * SegMin
         /\ Base(zona, desde) < Cand(at, zona, desde) + Dia
         /\ Cand(at, zona, desde) < Base(zona, desde) + Dia
<1> DEFINE b == Base(zona, desde)
           q == Hoy(zona, desde)
           a == at * SegMin
<1>1. b \in Int
  BY Dias DEF Base, Local
<1>2. q \in Int /\ a \in 0..(Dia - 1) /\ Dia \in Nat \ {0}
  BY <1>1, Dias, DivMod DEF Hoy
<1>3. b = Dia * q + (b % Dia) /\ b % Dia \in Int /\ 0 <= b % Dia /\ b % Dia < Dia
  BY <1>1, Dias, DivMod DEF Hoy
<1>4. Medianoche(b) = Dia * q /\ Dia * q \in Int
  BY <1>2 DEF Medianoche, Hoy
<1>5. Cand(at, zona, desde) = Dia * q + a
  BY DEF Cand
<1> DEFINE p == Dia * q
           r == b % Dia
<1>6. b = p + r /\ r \in Int /\ 0 <= r /\ r < Dia /\ p \in Int /\ Medianoche(b) = p /\ Cand(at, zona, desde) = p + a
  BY <1>3, <1>4, <1>5
<1> HIDE DEF b, q, a, p, r
<1>7. b < p + a + Dia /\ p + a < b + Dia /\ p + a \in Int
  BY <1>2, <1>6
<1> QED
  BY <1>1, <1>2, <1>6, <1>7 DEF b, q, a

\* The instants at which a schedule fires are the candidates of the days it is due.
LEMMA DisparaEs ==
  ASSUME NEW tipo, NEW at \in 0..(MinDia - 1), NEW dias, NEW zona \in Int, NEW desde \in Int,
         NEW t \in Int
  PROVE  Dispara(tipo, at, dias, zona, t) <=>
           \E m \in Int : Local(t, zona) = Cand(at, zona, desde) + Dia * m /\ Toca(tipo, dias, zona, desde, m)
<1> DEFINE x == Local(t, zona)
           q == Hoy(zona, desde)
           a == at * SegMin
<1>1. /\ x \in Int /\ q \in Int /\ a \in 0..(Dia - 1) /\ Dia \in Nat \ {0} /\ at # SinHora
      /\ Cand(at, zona, desde) = Dia * q + a
  BY Dias, CandTipo DEF Local, Cand, SinHora
<1>2. \A m \in Int : Dia * q + a + Dia * m = Dia * (q + m) + a /\ q + m \in Int
  <2> HIDE DEF q, a
  <2> QED
    BY <1>1
<1>3. ASSUME NEW m \in Int, x = Cand(at, zona, desde) + Dia * m
      PROVE  x % Dia = a /\ x \div Dia = q + m
  <2> DEFINE k == q + m
  <2>1. x = Dia * k + a /\ k \in Int
    BY <1>1, <1>2, <1>3
  <2>2. a \in 0..(Dia - 1) /\ Dia \in Nat \ {0}
    BY <1>1
  <2> HIDE DEF x, q, a, k
  <2>3. (Dia * k + a) \div Dia = k /\ (Dia * k + a) % Dia = a
    BY <2>1, <2>2, ModUnico
  <2> QED
    BY <2>1, <2>3 DEF k
<1>4. ASSUME x % Dia = a
      PROVE  \E m \in Int : x = Cand(at, zona, desde) + Dia * m
  <2> DEFINE k == x \div Dia
             m == k - q
  <2>1. k \in Int /\ x = Dia * k + a
    <3>1. x \in Int /\ Dia \in Nat \ {0}
      BY <1>1
    <3> HIDE DEF x
    <3>2. x \div Dia \in Int /\ x = Dia * (x \div Dia) + (x % Dia)
      BY <3>1, DivMod
    <3> QED
      BY <1>4, <3>2
  <2>2. m \in Int /\ q + m = k
    <3> HIDE DEF k, q
    <3> QED
      BY <1>1, <2>1
  <2>3. x = Cand(at, zona, desde) + Dia * m
    <3>1. Dia * q + a + Dia * m = Dia * (q + m) + a
      BY <1>2, <2>2
    <3> QED
      BY <1>1, <2>1, <2>2, <3>1
  <2> QED
    BY <2>2, <2>3
<1>5. ASSUME NEW m \in Int, x = Cand(at, zona, desde) + Dia * m
      PROVE  Weekday(x) = (q + m + 3) % DiasSem
  BY <1>3, <1>5 DEF Weekday
<1>6. Dispara(tipo, at, dias, zona, t) <=>
        x % Dia = a /\ (tipo = "daily" \/ (tipo = "weekly" /\ Weekday(x) \in dias))
  BY <1>1 DEF Dispara
<1> HIDE DEF x, q, a
<1>7. \A m \in Int : x = Cand(at, zona, desde) + Dia * m =>
        (Toca(tipo, dias, zona, desde, m) <=>
           tipo = "daily" \/ (tipo = "weekly" /\ Weekday(x) \in dias))
  BY <1>5 DEF Toca, q
<1> QED
  BY <1>3, <1>4, <1>6, <1>7 DEF x
\* The days, counted from the present one, whose candidate is due and still to come.
Pendientes(tipo, at, dias, zona, desde) ==
  {m \in 0..DiasSem : /\ Toca(tipo, dias, zona, desde, m)
                      /\ Cand(at, zona, desde) + Dia * m > Base(zona, desde)}

\* A candidate after an instant is of the present day or of a later one; up to so many
\* days later if it is not further away.
LEMMA Adelante ==
  ASSUME NEW at \in 0..(MinDia - 1), NEW zona \in Int, NEW desde \in Int, NEW m \in Int
  PROVE  /\ Dia * m \in Int
         /\ Cand(at, zona, desde) + Dia * m > Base(zona, desde) => m >= 0
         /\ m >= 1 => Cand(at, zona, desde) + Dia * m > Base(zona, desde)
         /\ Dia * (DiasSem + 1) \in Int /\ Dia * (DiasSem + 1) = (DiasSem + 1) * Dia
         /\ Cand(at, zona, desde) + Dia * m <= Base(zona, desde) + (DiasSem + 1) * Dia
              => m <= DiasSem + 1
         /\ m <= DiasSem
              => Cand(at, zona, desde) + Dia * m <= Base(zona, desde) + (DiasSem + 1) * Dia
<1> DEFINE c == Cand(at, zona, desde)
           b == Base(zona, desde)
           p == Dia * m
           u == Dia * (DiasSem + 1)
           v == Dia * (DiasSem + 2)
           n == Dia * (-1)
           w == Dia * DiasSem
           k == Dia
           o == Dia * 1
<1>1. c \in Int /\ b \in Int /\ b < c + k /\ c < b + k /\ k \in Nat \ {0} /\ DiasSem \in Nat
  BY CandTipo, Dias
<1>2. u = (DiasSem + 1) * Dia /\ v = u + k /\ n = 0 - k /\ u = w + k /\ o = k
  BY <1>1
<1>3. p \in Int /\ u \in Int /\ v \in Int /\ w \in Int
  BY <1>1
<1>4. (-1 < m <=> n < p) /\ (m < DiasSem + 2 <=> p < v) /\ (m <= DiasSem <=> p <= w) /\ (1 <= m <=> o <= p)
  <2>1. -1 < m <=> Dia * (-1) < Dia * m
    BY <1>1, Producto
  <2>2. DiasSem + 2 \in Int /\ (m < DiasSem + 2 <=> Dia * m < Dia * (DiasSem + 2))
    BY <1>1, Producto
  <2>3. m <= DiasSem <=> Dia * m <= Dia * DiasSem
    BY <1>1, Producto
  <2>4. 1 <= m <=> Dia * 1 <= Dia * m
    BY <1>1, Producto
  <2> QED
    BY <2>1, <2>2, <2>3, <2>4
<1> HIDE DEF c, b, p, u, v, n, w, k, o
<1>5. c + p > b => m >= 0
  <2>1. c + p > b => n < p
    BY <1>1, <1>2, <1>3
  <2> QED
    BY <1>4, <2>1
<1>6. m >= 1 => c + p > b
  BY <1>1, <1>2, <1>3, <1>4
<1>7. c + p <= b + u => m <= DiasSem + 1
  <2>1. c + p <= b + u => p < v
    BY <1>1, <1>2, <1>3
  <2> QED
    BY <1>1, <1>4, <2>1
<1>8. m <= DiasSem => c + p <= b + u
  BY <1>1, <1>2, <1>3, <1>4
<1> QED
  BY <1>2, <1>3, <1>5, <1>6, <1>7, <1>8 DEF c, b, p, u

\* The days of the week come round.
LEMMA Vuelta ==
  ASSUME NEW x \in Int, NEW d \in Nat \ {0}
  PROVE  (x + d) % d = x % d
<1> DEFINE k == x \div d
           r == x % d
<1>1. k \in Int /\ r \in 0..(d - 1) /\ x = d * k + r
  <2>1. k \in Int /\ r \in Int /\ 0 <= r /\ r < d /\ x = d * k + r
    BY DivMod
  <2> HIDE DEF k, r
  <2> QED
    BY <2>1
<1>2. k + 1 \in Int
  BY <1>1
<1> HIDE DEF k, r
<1>3. d * (k + 1) + r = x + d
  <2>1. d * (k + 1) = d * k + d /\ d * k \in Int
    BY <1>1
  <2> DEFINE y == d * k
  <2>2. d * (k + 1) = y + d /\ y \in Int /\ x = y + r
    BY <1>1, <2>1
  <2> HIDE DEF y
  <2> QED
    BY <1>1, <2>2
<1>4. (d * (k + 1) + r) % d = r
  BY <1>1, <1>2, ModUnico
<1> QED
  BY <1>3, <1>4 DEF r

\* The reference is the first of the candidates that are due, if there is one.
LEMMA PrimeroEs ==
  ASSUME NEW tipo \in {"daily", "weekly"}, NEW at \in 0..(MinDia - 1), NEW dias,
         NEW zona \in Int, NEW desde \in Nat
  PROVE  LET J == Pendientes(tipo, at, dias, zona, desde)
         IN  /\ J = {} => Primero(tipo, at, dias, zona, desde) = SinRun
             /\ J # {} => \E m \in J :
                  /\ \A y \in J : m <= y
                  /\ Primero(tipo, at, dias, zona, desde) = Epoch(Cand(at, zona, desde) + Dia * m, zona)
                  /\ Primero(tipo, at, dias, zona, desde) \in
                       (desde + 1)..(desde + (DiasSem + 1) * Dia)
<1> DEFINE J == Pendientes(tipo, at, dias, zona, desde)
           z == zona * SegMin
           c == Cand(at, zona, desde)
           b == Base(zona, desde)
           u == (DiasSem + 1) * Dia
           ts == {t \in (desde + 1)..(desde + u) : Dispara(tipo, at, dias, zona, t)}
<1>0. desde \in Int
  OBVIOUS
<1>9. ASSUME NEW m \in Int
      PROVE  /\ Dia * m \in Int
             /\ c + Dia * m > b => m >= 0
             /\ m >= 1 => c + Dia * m > b
             /\ c + Dia * m <= b + u => m <= DiasSem + 1
             /\ m <= DiasSem => c + Dia * m <= b + u
  <2> HIDE DEF c, b, u
  <2> QED
    BY <1>0, Adelante DEF c, b, u
<1>1. /\ b = desde + z /\ z \in Int /\ c \in Int /\ b \in Int /\ u \in Int
      /\ \A x : Local(x, zona) = x + z /\ Epoch(x, zona) = x - z
      /\ \A m \in Int : Dia * m \in Int
  <2>1. b = desde + z /\ c \in Int /\ b \in Int
    BY <1>0, CandTipo DEF Base, Local
  <2>2. z \in Int
    BY Dias
  <2>3. u \in Int /\ \A m \in Int : Dia * m \in Int
    BY Dias
  <2> QED
    BY <2>1, <2>2, <2>3 DEF Local, Epoch
<1>2. Primero(tipo, at, dias, zona, desde) = IF ts = {} THEN SinRun ELSE Min(ts)
  BY DEF Primero
<1>3. ASSUME NEW t \in ts
      PROVE  \E m \in J \cup {DiasSem + 1} : t = c + Dia * m - z /\ Toca(tipo, dias, zona, desde, m)
  <2>1. t \in Int /\ desde < t /\ t <= desde + u /\ Dispara(tipo, at, dias, zona, t)
    BY <1>1
  <2>2. PICK m \in Int : Local(t, zona) = c + Dia * m /\ Toca(tipo, dias, zona, desde, m)
    BY <2>1, DisparaEs
  <2> DEFINE p == Dia * m
  <2>3. p \in Int /\ t + z = c + p
    BY <1>1, <2>2
  <2>4. (c + p > b => m >= 0) /\ (c + p <= b + u => m <= DiasSem + 1)
    BY <1>9
  <2>5. DiasSem \in Nat
    BY Dias
  <2> HIDE DEF p, z, c, b, u, ts, J
  <2>6. c + p > b /\ c + p <= b + u /\ t = c + p - z
    BY <1>1, <2>1, <2>3
  <2>7. m \in 0..DiasSem \/ m = DiasSem + 1
    BY <2>4, <2>5, <2>6
  <2>8. m \in 0..DiasSem => m \in J
    BY <2>2, <2>6 DEF J, p, c, b, Pendientes
  <2> QED
    BY <2>2, <2>6, <2>7, <2>8 DEF p
<1>4. ASSUME NEW m \in J
      PROVE  /\ m \in 0..DiasSem /\ c + Dia * m - z \in ts
  <2>1. m \in 0..DiasSem /\ Toca(tipo, dias, zona, desde, m) /\ c + Dia * m > b
    BY DEF Pendientes
  <2> DEFINE p == Dia * m
             t == c + p - z
  <2>2. DiasSem \in Nat /\ m \in Int
    BY <2>1, Dias
  <2>3. p \in Int /\ c + p > b /\ c + p <= b + u
    <3>1. m <= DiasSem
      BY <2>1, <2>2
    <3> QED
      BY <1>9, <2>1, <2>2, <3>1
  <2>4. t \in Int /\ t > desde /\ t <= desde + u /\ t + z = c + p
    <3> HIDE DEF p, z, c, b, u
    <3> QED
      BY <1>1, <2>3
  <2>5. Dispara(tipo, at, dias, zona, t)
    <3>1. Local(t, zona) = c + Dia * m
      BY <1>1, <2>4
    <3>2. t \in Int
      BY <2>4
    <3> HIDE DEF t
    <3> QED
      BY <2>1, <2>2, <3>1, <3>2, DisparaEs
  <2>6. t \in (desde + 1)..(desde + u)
    <3> HIDE DEF t, u
    <3> QED
      BY <1>1, <2>4
  <2> QED
    BY <2>1, <2>5, <2>6
<1>5. \A m \in Int : Toca(tipo, dias, zona, desde, m + DiasSem) <=> Toca(tipo, dias, zona, desde, m)
  <2> TAKE m \in Int
  <2>1. Hoy(zona, desde) \in Int /\ DiasSem \in Nat \ {0}
    BY CandTipo, Dias
  <2> DEFINE x == Hoy(zona, desde) + m + 3
  <2>2. x \in Int /\ Hoy(zona, desde) + (m + DiasSem) + 3 = x + DiasSem
    BY <2>1
  <2>3. (x + DiasSem) % DiasSem = x % DiasSem
    BY <2>1, <2>2, Vuelta
  <2> QED
    BY <2>2, <2>3 DEF Toca
<1>6. CASE J = {}
  <2>1. ~Toca(tipo, dias, zona, desde, 1)
    <3>1. 1 \in 0..DiasSem /\ c + Dia * 1 > b
      BY <1>9, Dias
    <3> QED
      BY <1>6, <3>1 DEF Pendientes
  <2>2. ~Toca(tipo, dias, zona, desde, DiasSem + 1)
    <3>1. 1 + DiasSem = DiasSem + 1
      BY Dias
    <3> QED
      BY <1>5, <2>1, <3>1
  <2>3. ts = {}
    BY <1>3, <1>6, <2>2
  <2> QED
    BY <1>2, <1>6, <2>3
<1>7. CASE J # {}
  <2>1. PICK m \in J : \A y \in J : m <= y
    <3>1. J \in SUBSET (0..DiasSem) /\ DiasSem \in Nat
      BY Dias DEF Pendientes
    <3>2. IsFiniteSet(0..DiasSem)
      BY <3>1, FS_Interval
    <3>3. IsFiniteSet(J) /\ J \in SUBSET Int
      BY <3>1, <3>2, FS_Subset
    <3> HIDE DEF J
    <3> QED
      BY <1>7, <3>3, HayMinimo
  <2> DEFINE t0 == c + Dia * m - z
  <2>2. t0 \in ts /\ m \in 0..DiasSem
    BY <1>4
  <2>3. \A y \in ts : t0 <= y
    <3> TAKE y \in ts
    <3>1. PICK n \in J \cup {DiasSem + 1} : y = c + Dia * n - z
      BY <1>3
    <3>2. m \in Int /\ n \in Int /\ m <= n
      <4>1. DiasSem \in Nat /\ m \in 0..DiasSem
        BY <2>2, Dias
      <4>2. J \subseteq 0..DiasSem
        BY DEF Pendientes
      <4> HIDE DEF J
      <4> QED
        BY <2>1, <4>1, <4>2
    <3>3. Dia * m <= Dia * n /\ Dia * m \in Int /\ Dia * n \in Int
      BY <1>1, <3>2, Dias, Producto
    <3> DEFINE p == Dia * m
               w == Dia * n
    <3>4. p <= w /\ p \in Int /\ w \in Int /\ t0 = c + p - z /\ y = c + w - z
      BY <3>1, <3>3
    <3> HIDE DEF p, w, c, z, t0
    <3> QED
      BY <1>1, <3>4
  <2>4. ts \in SUBSET Int /\ ts # {}
    BY <1>1, <2>2
  <2>5. Min(ts) = t0
    <3> HIDE DEF ts, t0
    <3> QED
      BY <2>2, <2>3, <2>4, MinEs
  <2>6. t0 = Epoch(c + Dia * m, zona) /\ t0 \in (desde + 1)..(desde + u)
    BY <1>1, <2>2
  <2>7. Primero(tipo, at, dias, zona, desde) = t0
    BY <1>2, <2>4, <2>5
  <2> QED
    BY <1>7, <2>1, <2>6, <2>7
<1> QED
  BY <1>6, <1>7

\* Two daily candidates cover every instant, and a week and a day of candidates every
\* set of days.
LEMMA AlgunoPendiente ==
  ASSUME NEW tipo \in {"daily", "weekly"}, NEW at \in 0..(MinDia - 1),
         NEW dias \in SUBSET (0..(DiasSem - 1)), NEW zona \in Int, NEW desde \in Int,
         tipo = "weekly" => dias # {}
  PROVE  Pendientes(tipo, at, dias, zona, desde) # {}
<1>1. ASSUME NEW m \in 1..DiasSem, Toca(tipo, dias, zona, desde, m)
      PROVE  m \in Pendientes(tipo, at, dias, zona, desde)
  <2>1. m \in Int /\ m >= 1 /\ m \in 0..DiasSem
    BY Dias
  <2>2. Cand(at, zona, desde) + Dia * m > Base(zona, desde)
    BY <2>1, Adelante
  <2> QED
    BY <1>1, <2>1, <2>2 DEF Pendientes
<1>2. CASE tipo = "daily"
  <2>1. 1 \in 1..DiasSem /\ Toca(tipo, dias, zona, desde, 1)
    BY <1>2, Dias DEF Toca
  <2> QED
    BY <1>1, <2>1
<1>3. CASE tipo = "weekly"
  <2>1. PICK d \in 0..(DiasSem - 1) : d \in dias
    BY <1>3
  <2>2. Hoy(zona, desde) \in Int /\ DiasSem \in Nat \ {0} /\ d \in Int
    BY CandTipo, Dias, <2>1
  <2> DEFINE x == d - Hoy(zona, desde) - 4
             k == x \div DiasSem
             r == x % DiasSem
             m == r + 1
  <2>3. x \in Int
    BY <2>2
  <2>4. k \in Int /\ r \in Int /\ 0 <= r /\ r < DiasSem /\ x = DiasSem * k + r
    <3> HIDE DEF x
    <3> QED
      BY <2>2, <2>3, DivMod
  <2>5. m \in 1..DiasSem /\ -k \in Int
    <3> HIDE DEF k, r
    <3> QED
      BY <2>2, <2>4
  <2>6. Hoy(zona, desde) + m + 3 = DiasSem * (-k) + d
    <3>1. DiasSem * (-k) = -(DiasSem * k) /\ DiasSem * k \in Int
      <4> HIDE DEF k
      <4> QED
        BY <2>2, <2>4
    <3> DEFINE p == DiasSem * k
               n == DiasSem * (-k)
    <3>2. n = -p /\ p \in Int /\ x = p + r /\ r \in Int
      BY <3>1, <2>4
    <3> HIDE DEF n, p, k, r
    <3> QED
      BY <2>2, <3>2 DEF n
  <2>7. (DiasSem * (-k) + d) % DiasSem = d
    <3> HIDE DEF k
    <3> QED
      BY <2>1, <2>2, <2>5, ModUnico
  <2>8. Toca(tipo, dias, zona, desde, m)
    BY <1>3, <2>1, <2>6, <2>7 DEF Toca
  <2> HIDE DEF m
  <2> QED
    BY <1>1, <2>5, <2>8
<1> QED
  BY <1>2, <1>3

\* proximo_run is the first instant of the calendar after the given one, in any zone, at
\* any hour, for any set of days and any lengths of the minute, the day and the week:
\* local midnight and the days ahead it goes through miss none and repeat none.
THEOREM ProximoEsPrimero ==
  ASSUME NEW tipo \in {"daily", "weekly"}, NEW at \in Horas,
         NEW dias \in SUBSET (0..(DiasSem - 1)), NEW zona \in Int, NEW desde \in Nat
  PROVE  proximo_run(tipo, at, dias, zona, desde) = Primero(tipo, at, dias, zona, desde)
<1>1. CASE at = SinHora
  <2>1. proximo_run(tipo, at, dias, zona, desde) = SinRun
    BY <1>1 DEF proximo_run
  <2>2. Primero(tipo, at, dias, zona, desde) = SinRun
    BY <1>1 DEF Primero, Dispara
  <2> QED
    BY <2>1, <2>2
<1>2. CASE at \in 0..(MinDia - 1)
  <2> DEFINE J == Pendientes(tipo, at, dias, zona, desde)
             c == Cand(at, zona, desde)
             b == Base(zona, desde)
  <2>1. /\ at # SinHora /\ tipo # Once /\ desde \in Int /\ DiasSem \in Nat \ {0} /\ Dia \in Nat \ {0}
        /\ Medianoche(b) + at * SegMin = c /\ b = Local(desde, zona)
        /\ c \in Int /\ b \in Int /\ b < c + Dia
    <3>1. at # SinHora /\ tipo # Once /\ desde \in Int
      BY <1>2, Dias DEF SinHora, Once
    <3>2. DiasSem \in Nat \ {0} /\ Dia \in Nat \ {0} /\ b = Local(desde, zona)
      BY Dias DEF Base
    <3>3. c \in Int /\ b \in Int /\ b < c + Dia /\ c = Medianoche(b) + at * SegMin
      <4> HIDE DEF c, b
      <4> QED
        BY <1>2, <3>1, CandTipo DEF c, b
    <3> QED
      BY <3>1, <3>2, <3>3
  <2>2. proximo_run(tipo, at, dias, zona, desde) =
          IF tipo = "daily" THEN Epoch(IF c <= b THEN c + Dia ELSE c, zona)
          ELSE IF SemanaDesde(c, b, dias) = {} THEN SinRun
               ELSE Epoch(Min(SemanaDesde(c, b, dias)), zona)
    BY <2>1 DEF proximo_run
  <2>3. CASE tipo = "daily"
    <3>1. PICK m \in J : /\ \A y \in J : m <= y
                         /\ Primero(tipo, at, dias, zona, desde) = Epoch(c + Dia * m, zona)
      <4>1. J # {}
        BY <1>2, <2>1, <2>3, AlgunoPendiente
      <4> QED
        BY <1>2, <4>1, PrimeroEs
    <3>2. \A y \in 0..DiasSem : y \in J <=> c + Dia * y > b
      BY <2>3 DEF Pendientes, Toca
    <3>3. Dia * 0 = 0 /\ Dia * 1 = Dia /\ 0 \in 0..DiasSem /\ 1 \in 0..DiasSem
      BY <2>1
    <3>4. m = IF c <= b THEN 1 ELSE 0
      <4>1. m \in Nat
        BY DEF Pendientes
      <4>2. 0 \in J <=> c + 0 > b
        BY <3>2, <3>3
      <4>3. 1 \in J
        <5>1. c + Dia > b
          BY <2>1
        <5> QED
          BY <3>2, <3>3, <5>1
      <4>4. c <= b => m # 0
        BY <2>1, <4>2
      <4>5. ~(c <= b) => m <= 0
        BY <2>1, <3>1, <4>2
      <4>6. m <= 1
        BY <3>1, <4>3
      <4> QED
        BY <4>1, <4>4, <4>5, <4>6
    <3>5. c + Dia * m = IF c <= b THEN c + Dia ELSE c
      <4>1. c + 0 = c
        BY <2>1
      <4> QED
        BY <3>3, <3>4, <4>1
    <3> QED
      BY <2>2, <2>3, <3>1, <3>5
  <2>4. CASE tipo = "weekly"
    <3>1. \A y \in 0..DiasSem : Weekday(c + y * Dia) = (Hoy(zona, desde) + y + 3) % DiasSem /\ c + y * Dia = c + Dia * y
      <4> TAKE y \in 0..DiasSem
      <4>1. y \in Int /\ y * Dia = Dia * y
        BY <2>1
      <4> DEFINE q == Hoy(zona, desde)
                 a == at * SegMin
                 k == q + y
      <4>2. q \in Int /\ a \in 0..(Dia - 1) /\ c = Dia * q + a
        BY <1>2, <2>1, CandTipo, Dias DEF Cand
      <4>3. c + Dia * y = Dia * k + a /\ k \in Int
        <5> HIDE DEF q, a, c
        <5> QED
          BY <2>1, <4>1, <4>2
      <4>4. (Dia * k + a) \div Dia = k
        <5> HIDE DEF k, a
        <5> QED
          BY <2>1, <4>2, <4>3, ModUnico
      <4> QED
        BY <4>1, <4>3, <4>4 DEF Weekday
    <3>2. SemanaDesde(c, b, dias) = {c + Dia * y : y \in J}
      <4>1. \A y \in 0..DiasSem : y \in J <=> Weekday(c + y * Dia) \in dias /\ c + y * Dia > b
        BY <2>4, <3>1 DEF Pendientes, Toca
      <4>2. \A y \in 0..DiasSem : c + y * Dia = c + Dia * y
        BY <3>1
      <4>3. J \subseteq 0..DiasSem
        BY DEF Pendientes
      <4> HIDE DEF J, c, b
      <4> QED
        BY <4>1, <4>2, <4>3 DEF SemanaDesde
    <3>3. CASE J = {}
      <4>1. SemanaDesde(c, b, dias) = {}
        BY <3>2, <3>3
      <4>2. Primero(tipo, at, dias, zona, desde) = SinRun
        BY <1>2, <3>3, PrimeroEs
      <4> QED
        BY <2>2, <2>4, <4>1, <4>2
    <3>4. CASE J # {}
      <4>1. PICK m \in J : /\ \A y \in J : m <= y
                           /\ Primero(tipo, at, dias, zona, desde) = Epoch(c + Dia * m, zona)
        BY <1>2, <3>4, PrimeroEs
      <4>2. J \subseteq Int
        BY <2>1 DEF Pendientes
      <4>3. \A y \in J : Dia * y \in Int /\ Dia * m <= Dia * y
        <5> TAKE y \in J
        <5>1. m \in Int /\ y \in Int /\ m <= y
          BY <4>1, <4>2
        <5> QED
          BY <2>1, <5>1, Producto
      <4>4. {c + Dia * y : y \in J} \in SUBSET Int /\ \A w \in {c + Dia * y : y \in J} : c + Dia * m <= w
        <5> SUFFICES ASSUME NEW y \in J PROVE c + Dia * y \in Int /\ c + Dia * m <= c + Dia * y
          OBVIOUS
        <5> DEFINE p == Dia * m
                   w == Dia * y
        <5>1. p \in Int /\ w \in Int /\ p <= w
          BY <4>3
        <5> HIDE DEF p, w, c
        <5>2. c + w \in Int /\ c + p <= c + w
          BY <2>1, <5>1
        <5> QED
          BY <5>2 DEF p, w
      <4>5. Min(SemanaDesde(c, b, dias)) = c + Dia * m
        <5> DEFINE A == SemanaDesde(c, b, dias)
                   v == c + Dia * m
        <5>1. A \in SUBSET Int /\ v \in A /\ \A w \in A : v <= w
          BY <3>2, <4>4
        <5> HIDE DEF A, v
        <5>2. Min(A) = v
          BY <5>1, MinEs
        <5> QED
          BY <5>2 DEF A, v
      <4>6. SemanaDesde(c, b, dias) # {}
        BY <3>2, <3>4
      <4> QED
        BY <2>2, <2>4, <4>1, <4>5, <4>6
    <3> QED
      BY <3>3, <3>4
  <2> QED
    BY <2>3, <2>4
<1> QED
  BY <1>1, <1>2 DEF Horas

\* The next run lies ahead, at most a week and a day; a recurrent schedule has one.
LEMMA ProximoRango ==
  ASSUME NEW tipo \in Tipos, NEW at \in Horas,
         NEW dias \in SUBSET (0..(DiasSem - 1)), NEW zona \in Int, NEW desde \in Nat
  PROVE  /\ \/ proximo_run(tipo, at, dias, zona, desde) = SinRun
            \/ proximo_run(tipo, at, dias, zona, desde) \in
                 (desde + 1)..(desde + (DiasSem + 1) * Dia)
         /\ tipo = Once => proximo_run(tipo, at, dias, zona, desde) = SinRun
         /\ tipo # Once /\ at # SinHora /\ (tipo = "weekly" => dias # {})
              => proximo_run(tipo, at, dias, zona, desde) # SinRun
<1>1. CASE tipo = Once \/ at = SinHora
  BY <1>1 DEF proximo_run
<1>2. CASE tipo # Once /\ at # SinHora
  <2>1. tipo \in {"daily", "weekly"} /\ at \in 0..(MinDia - 1) /\ desde \in Int
    BY <1>2 DEF Horas, Tipos
  <2>2. proximo_run(tipo, at, dias, zona, desde) = Primero(tipo, at, dias, zona, desde)
    BY <2>1, ProximoEsPrimero
  <2> DEFINE J == Pendientes(tipo, at, dias, zona, desde)
  <2>3. J = {} => Primero(tipo, at, dias, zona, desde) = SinRun
    BY <2>1, PrimeroEs
  <2>4. J # {} => Primero(tipo, at, dias, zona, desde) \in (desde + 1)..(desde + (DiasSem + 1) * Dia)
    BY <2>1, PrimeroEs
  <2>5. (tipo = "weekly" => dias # {}) => J # {}
    BY <2>1, AlgunoPendiente
  <2>6. SinRun \notin (desde + 1)..(desde + (DiasSem + 1) * Dia)
    <3>1. (DiasSem + 1) * Dia \in Int
      BY Dias
    <3> DEFINE u == (DiasSem + 1) * Dia
    <3> HIDE DEF u
    <3> QED
      BY <3>1 DEF u, SinRun
  <2> HIDE DEF J
  <2> QED
    BY <1>2, <2>2, <2>3, <2>4, <2>5, <2>6
<1> QED
  BY <1>1, <1>2

-----------------------------------------------------------------------------
(* Windows, lots and delays.                                               *)

\* Going round a cycle of n once at most.
LEMMA DaLaVuelta ==
  ASSUME NEW n \in Nat \ {0}, NEW a \in 0..(2 * n - 1)
  PROVE  a % n = IF a < n THEN a ELSE a - n
<1>1. CASE a < n
  <2>1. a \in 0..(n - 1) /\ a = n * 0 + a
    BY <1>1
  <2>2. (n * 0 + a) % n = a
    BY <2>1, ModUnico
  <2> QED
    BY <1>1, <2>1, <2>2
<1>2. CASE ~(a < n)
  <2>1. a - n \in 0..(n - 1) /\ a = n * 1 + (a - n)
    BY <1>2
  <2>2. (n * 1 + (a - n)) % n = a - n
    BY <2>1, ModUnico
  <2> QED
    BY <1>2, <2>1, <2>2
<1> QED
  BY <1>1, <1>2

\* Going on from a point of the cycle.
LEMMA SumaDaLaVuelta ==
  ASSUME NEW n \in Nat \ {0}, NEW i \in 0..(n - 1), NEW j \in 0..(n - 1)
  PROVE  (i + j) % n = IF i + j < n THEN i + j ELSE i + j - n
<1>1. PICK a \in 0..(2 * n - 1) : a = i + j
  OBVIOUS
<1>2. a % n = IF a < n THEN a ELSE a - n
  BY DaLaVuelta
<1> QED
  BY <1>1, <1>2

\* The minute of the day: whole minutes since the epoch, round the day.
LEMMA MinutoDelDia ==
  ASSUME NEW l \in Int
  PROVE  /\ (l % Dia) \div SegMin = (l \div SegMin) % MinDia
         /\ (l \div SegMin) % MinDia \in 0..(MinDia - 1)
<1> DEFINE a == l \div SegMin
           r == l % SegMin
           q == a \div MinDia
           x == a % MinDia
<1>1. SegMin \in Nat \ {0} /\ MinDia \in Nat \ {0} /\ Dia \in Nat \ {0}
  BY CalendarioAssumption DEF Dia
<1>2. a \in Int /\ r \in 0..(SegMin - 1) /\ l = SegMin * a + r
  BY <1>1, DivMod
<1>3. q \in Int /\ x \in 0..(MinDia - 1) /\ a = MinDia * q + x
  BY <1>1, <1>2, DivMod
<1> HIDE DEF a, r, q, x
<1>4. l = Dia * q + (SegMin * x + r)
  <2>1. SegMin * a = SegMin * (MinDia * q) + SegMin * x
    BY <1>1, <1>3
  <2>2. SegMin * (MinDia * q) = Dia * q
    BY <1>1, <1>3 DEF Dia
  <2> QED
    BY <1>1, <1>2, <1>3, <2>1, <2>2
<1>5. SegMin * x + r \in 0..(Dia - 1)
  <2>1. SegMin * x + SegMin <= SegMin * MinDia /\ SegMin * 0 <= SegMin * x /\ SegMin * x \in Int
    BY <1>1, <1>3, Producto
  <2>2. SegMin * MinDia = Dia /\ SegMin * 0 = 0
    BY <1>1 DEF Dia
  <2> DEFINE s == SegMin * x
  <2>3. s \in Int /\ 0 <= s /\ s + SegMin <= Dia
    BY <2>1, <2>2
  <2> HIDE DEF s
  <2>4. s + r \in 0..(Dia - 1)
    BY <1>1, <1>2, <2>3
  <2> QED
    BY <2>4 DEF s
<1>6. l % Dia = SegMin * x + r
  BY <1>1, <1>3, <1>4, <1>5, ModUnico
<1>7. (SegMin * x + r) \div SegMin = x
  BY <1>1, <1>2, <1>3, ModUnico
<1> QED
  BY <1>3, <1>6, <1>7 DEF a, x

\* Between two hours that can be read.
LEMMA VentanaLegible ==
  ASSUME NEW now \in Int, NEW zona \in Int, NEW ini \in 0..(MinDia - 1), NEW fin \in 0..(MinDia - 1)
  PROVE  ventana_abierta(now, TRUE, ini, fin, zona) <=> ini = fin \/ EntreHoras(now, ini, fin, zona)
<1> DEFINE x == (Local(now, zona) \div SegMin) % MinDia
<1>1. MinDia \in Nat \ {0} /\ SegMin \in Nat \ {0} /\ Local(now, zona) \in Int
  BY CalendarioAssumption DEF Local
<1>2. x \in 0..(MinDia - 1) /\ (Local(now, zona) % Dia) \div SegMin = x
  BY <1>1, MinutoDelDia
<1>3. \A j \in 0..(MinDia - 1) :
        (ini + j) % MinDia = IF ini + j < MinDia THEN ini + j ELSE ini + j - MinDia
  BY <1>1, SumaDaLaVuelta
<1>4. ventana_abierta(now, TRUE, ini, fin, zona) <=>
        IF ini = fin THEN TRUE ELSE IF ini < fin THEN ini <= x /\ x < fin ELSE x >= ini \/ x < fin
  <2>1. ini # SinHora /\ fin # SinHora
    BY <1>1 DEF SinHora
  <2> QED
    BY <1>2, <2>1 DEF ventana_abierta
<1>5. EntreHoras(now, ini, fin, zona) <=>
        \E k \in 0..(MinDia - 1) : (ini + k) % MinDia = x /\ \A j \in 0..k : (ini + j) % MinDia # fin
  BY DEF EntreHoras
<1> HIDE DEF x
<1>6. ASSUME ini # fin, IF ini < fin THEN ini <= x /\ x < fin ELSE x >= ini \/ x < fin
      PROVE  \E k \in 0..(MinDia - 1) : (ini + k) % MinDia = x /\ \A j \in 0..k : (ini + j) % MinDia # fin
  <2> DEFINE k == IF ini <= x THEN x - ini ELSE x - ini + MinDia
  <2>1. k \in 0..(MinDia - 1)
    BY <1>1, <1>2
  <2>2. (ini + k) % MinDia = x
    BY <1>1, <1>2, <1>3, <2>1
  <2>3. ASSUME NEW j \in 0..k
        PROVE  (ini + j) % MinDia # fin
    <3>1. j \in 0..(MinDia - 1)
      BY <1>1, <2>1
    <3>2. (ini + j) % MinDia = IF ini + j < MinDia THEN ini + j ELSE ini + j - MinDia
      BY <1>3, <3>1
    <3> QED
      BY <1>1, <1>2, <1>6, <3>1, <3>2
  <2> HIDE DEF k
  <2> QED
    BY <2>1, <2>2, <2>3
<1>7. ASSUME ini # fin, NEW k \in 0..(MinDia - 1), (ini + k) % MinDia = x,
             \A j \in 0..k : (ini + j) % MinDia # fin
      PROVE  IF ini < fin THEN ini <= x /\ x < fin ELSE x >= ini \/ x < fin
  <2> DEFINE c == IF ini < fin THEN fin - ini ELSE fin - ini + MinDia
  <2>1. c \in 0..(MinDia - 1)
    BY <1>1, <1>7
  <2>2. (ini + c) % MinDia = fin
    BY <1>1, <1>3, <2>1
  <2> HIDE DEF c
  <2>3. k < c
    <3>1. c <= k => c \in 0..k
      BY <2>1
    <3> QED
      BY <1>7, <2>1, <2>2, <3>1
  <2>4. x = IF ini + k < MinDia THEN ini + k ELSE ini + k - MinDia
    BY <1>3, <1>7
  <2> QED
    BY <1>1, <1>2, <1>7, <2>1, <2>3, <2>4 DEF c
<1> QED
  BY <1>4, <1>5, <1>6, <1>7

\* A window is open exactly from its opening to its closing, going round the clock: also
\* one that crosses midnight, in any zone, and at instants before the epoch. With equal
\* ends it never closes, and an end that cannot be read, whichever of the two, stands
\* for midnight (ventana_abierta, _hhmm_a_minutos).
THEOREM VentanaDaLaVuelta ==
  ASSUME NEW now \in Int, NEW zona \in Int,
         NEW start \in 0..(MinDia - 1) \cup {SinHora}, NEW end \in 0..(MinDia - 1) \cup {SinHora}
  PROVE  LET ini == IF start = SinHora THEN 0 ELSE start
             fin == IF end = SinHora THEN 0 ELSE end
         IN  ventana_abierta(now, TRUE, start, end, zona) <=> ini = fin \/ EntreHoras(now, ini, fin, zona)
<1> DEFINE ini == IF start = SinHora THEN 0 ELSE start
           fin == IF end = SinHora THEN 0 ELSE end
           x == (Local(now, zona) % Dia) \div SegMin
<1>1. MinDia \in Nat \ {0} /\ SinHora \notin 0..(MinDia - 1) /\ Local(now, zona) \in Int
  BY CalendarioAssumption DEF Local, SinHora
<1>2. ini \in 0..(MinDia - 1) /\ fin \in 0..(MinDia - 1)
  BY <1>1
<1>3. x \in 0..(MinDia - 1)
  BY <1>1, MinutoDelDia
<1>4. ventana_abierta(now, TRUE, start, end, zona) <=> ventana_abierta(now, TRUE, ini, fin, zona)
  <2>1. ini # SinHora /\ fin # SinHora
    BY <1>1, <1>2
  <2> DEFINE f == IF end = SinHora THEN MinDia ELSE end
             Abierta(b) == IF ini = b THEN TRUE
                           ELSE IF ini < b THEN ini <= x /\ x < b ELSE x >= ini \/ x < b
  <2>2. ventana_abierta(now, TRUE, ini, fin, zona) <=> Abierta(fin)
    BY <2>1 DEF ventana_abierta
  <2>3. ventana_abierta(now, TRUE, start, end, zona) <=> Abierta(f)
    BY DEF ventana_abierta
  <2>4. Abierta(f) <=> Abierta(fin)
    <3>1. CASE end = SinHora
      <4>1. f = MinDia /\ fin = 0
        BY <3>1
      <4> HIDE DEF f, fin, ini, x
      <4> QED
        BY <1>1, <1>2, <1>3, <4>1
    <3>2. CASE end # SinHora
      <4>1. f = fin
        BY <3>2
      <4> HIDE DEF f, fin, ini, x
      <4> QED
        BY <4>1
    <3> QED
      BY <3>1, <3>2
  <2> HIDE DEF Abierta, f, fin, ini, x
  <2> QED
    BY <2>2, <2>3, <2>4, Zenon
<1> HIDE DEF ini, fin, x
<1>5. ventana_abierta(now, TRUE, ini, fin, zona) <=> ini = fin \/ EntreHoras(now, ini, fin, zona)
  BY <1>2, VentanaLegible
<1>6. ventana_abierta(now, TRUE, start, end, zona) <=> ini = fin \/ EntreHoras(now, ini, fin, zona)
  BY <1>4, <1>5
<1> QED
  BY <1>6 DEF ini, fin

\* As many lots as it takes, the last of them not empty (total_lotes).
THEOREM LotesJustosSiempre ==
  ASSUME NEW total \in Int, NEW batch_size \in Int
  PROVE  LET bs == IF batch_size < 1 THEN 1 ELSE batch_size
             k == total_lotes(total, batch_size)
         IN  k \in Nat /\ total <= bs * k /\ (total > 0 => bs * (k - 1) < total)
<1> DEFINE bs == IF batch_size < 1 THEN 1 ELSE batch_size
           k == total_lotes(total, batch_size)
<1>1. bs \in Nat \ {0}
  OBVIOUS
<1>2. CASE total <= 0
  <2>1. k = 0 /\ bs * 0 = 0
    BY <1>1, <1>2 DEF total_lotes
  <2> QED
    BY <1>2, <2>1
<1>3. CASE total > 0
  <2> DEFINE y == total + bs - 1
             s == y % bs
             b == bs * k
  <2>1. k = y \div bs /\ y \in Int
    BY <1>3 DEF total_lotes
  <2> HIDE DEF k, y, bs
  <2>2. k \in Int /\ s \in Int /\ 0 <= s /\ s < bs /\ y = bs * k + s
    BY <1>1, <2>1, DivMod
  <2>3. bs * (k - 1) = b - bs /\ b \in Int
    BY <1>1, <2>2
  <2>4. y = b + s /\ y = total + bs - 1
    BY <2>2 DEF y
  <2>5. 0 <= k
    <3>1. k < 0 => bs * k + bs <= bs * 0
      BY <1>1, <2>2, Producto
    <3>2. bs * 0 = 0
      BY <1>1
    <3> HIDE DEF s
    <3>3. k < 0 => b + bs <= 0
      BY <3>1, <3>2
    <3> HIDE DEF b
    <3> QED
      BY <1>1, <1>3, <2>2, <2>3, <2>4, <3>3
  <2> HIDE DEF b, s
  <2>6. total <= b /\ b - bs < total
    BY <1>1, <2>2, <2>3, <2>4
  <2> QED
    BY <1>3, <2>2, <2>3, <2>5, <2>6 DEF b, bs, k
<1> QED
  BY <1>2, <1>3

\* A size that the panel saved is brought within bounds, and taken as it is when it lies
\* within them (cap_batch_size).
THEOREM TamanoAcotado ==
  ASSUME NEW v \in Int, NEW maximo \in Nat \ {0}
  PROVE  /\ cap_batch_size(<<v>>, maximo) \in 1..maximo
         /\ v \in 1..maximo => cap_batch_size(<<v>>, maximo) = v
         /\ cap_batch_size(<<>>, maximo) = maximo
<1> DEFINE m == Min({v, maximo})
<1>1. m = IF v <= maximo THEN v ELSE maximo
  <2>1. CASE v <= maximo
    BY <2>1, MinEs
  <2>2. CASE ~(v <= maximo)
    BY <2>2, MinEs
  <2> QED
    BY <2>1, <2>2
<1>2. m \in Int
  BY <1>1
<1> HIDE DEF m
<1>3. Max({1, m}) = IF m <= 1 THEN 1 ELSE m
  <2>1. \E x \in {1, m} : \A y \in {1, m} : x >= y
    BY <1>2
  <2>2. Max({1, m}) \in {1, m} /\ \A y \in {1, m} : Max({1, m}) >= y
    BY <2>1 DEF Max
  <2> QED
    BY <1>2, <2>2
<1>4. cap_batch_size(<<v>>, maximo) = Max({1, m})
  BY DEF cap_batch_size, m
<1> QED
  BY <1>1, <1>3, <1>4 DEF cap_batch_size

\* There is always a delay to wait, never a negative one, and it lies between the two ends
\* in whatever order they come (delay_aleatorio).
THEOREM DelayEntreExtremos ==
  ASSUME NEW a \in Int, NEW b \in Int
  PROVE  /\ delay_aleatorio(a, b) # {}
         /\ \A d \in delay_aleatorio(a, b) :
              d \in Nat /\ (d >= a \/ d >= b) /\ (d = 0 \/ d <= a \/ d <= b)
BY DEF delay_aleatorio

-----------------------------------------------------------------------------
(* What is always true of the parts.                                       *)

\* An item, whatever happens to it: only those that exist are recurrent, and these have
\* an hour and, by weeks, a day.
Sano(it) == /\ it.est # "si" => it.type = Once
            /\ it.type # Once => /\ it.at # SinHora
                                 /\ it.type = "weekly" => it.days # {}
            /\ it.est \in {"nuevo", "borrado"} => it = Falta(it.est)

\* The next run that an item ought to have, worked out in a zone from an instant.
Calculado(it, z, t) ==
  it.type # Once => it.next_run = proximo_run(it.type, it.at, it.days, z, t)

\* A tick, at an instant and with some items in the table: it looked before, and what it
\* holds was due then.
Marcha == [en : {"no", "config", "avanza", "envia"}, pend : Seq([sid : Sids, item : Item]),
           activos : BOOLEAN, ahora : Nat]
EnRegla(r, t, its) ==
  r.en # "no" =>
    /\ r.pend # <<>> /\ r.ahora \in Inicio..t
    /\ \A i \in 1..Len(r.pend) :
         /\ Vence(r.pend[i].item, r.ahora) /\ Sano(r.pend[i].item)
         /\ its[r.pend[i].sid].est # "nuevo"

\* A request of the panel: what it read, and what it is going to write.
Pedido == [sid : Sids, leido : Item, desde : Nat, todo : BOOLEAN, campos : Item,
           activa : SUBSET BOOLEAN]
Formulario(r, t, its, z) ==
  /\ r.desde \in Inicio..t /\ Sano(r.leido) /\ its[r.sid].est # "nuevo"
  /\ r.todo => /\ r.campos.next_run > r.desde /\ r.campos.est = "si" /\ Sano(r.campos)
               /\ Calculado(r.campos, z, r.desde)
  /\ ~r.todo => IF r.leido.type = Once
                  THEN r.leido.next_run = SinRun \/ r.leido.next_run > r.desde
                  ELSE r.campos.next_run =
                         proximo_run(r.leido.type, r.leido.at, r.leido.days, z, r.desde)

DelMundo == ahora \in Inicio..Fin /\ activos \in BOOLEAN /\ tz \in Zonas
DeLaTabla == items \in [Sids -> Item] /\ \A s \in Sids : Sano(items[s])
DeLosTicks == /\ tick \in [Ticks -> Marcha]
              /\ \A d \in Ticks : EnRegla(tick[d], ahora, items)
DelPanel == \/ panel = SinPedido
            \/ \E r \in Pedido : panel = <<r>> /\ Formulario(r, ahora, items, tz)
DeLaHistoria == /\ enviado \in [Sids -> [Instantes -> 0..2]] /\ calculado \in [Sids -> Nat]
                /\ cruzados \subseteq Sids /\ perdidos \subseteq Sids /\ tocados \subseteq Sids
                /\ quedan \in [creaciones : Nat, fallos : Nat, cambios : Nat, aLaVez : Nat]
BInv == DelMundo /\ DeLaTabla /\ DeLosTicks /\ DelPanel /\ DeLaHistoria
-----------------------------------------------------------------------------
(* The order of what happens to an item.                                   *)

\* Its last calculation lies after everything that was sent and before its next run.
Ordenado(it, c, e, t, z) ==
  /\ c <= t
  /\ \A i \in Instantes : e[i] <= 1 /\ (e[i] > 0 => i <= c)
  /\ it.enabled => it.next_run = SinRun \/ it.next_run > c
  /\ it.est = "si" => Calculado(it, z, c)

\* What a tick is about to send is not after the last calculation, and nobody else
\* has sent it or is about to.
EnviaDe(r, s) == r.en = "envia" /\ Head(r.pend).sid = s
HoraDe(r) == Head(r.pend).item.next_run
Adelantado(s) ==
  \A d \in Ticks : EnviaDe(tick[d], s) =>
    /\ HoraDe(tick[d]) <= calculado[s] /\ enviado[s][HoraDe(tick[d])] = 0
    /\ \A e \in Ticks \ {d} : EnviaDe(tick[e], s) => HoraDe(tick[e]) # HoraDe(tick[d])

\* If the item is again what the panel read, nothing was calculated in between: a tick
\* only disables it or moves its next run forward.
Vigente(r, it, c) ==
  /\ it.enabled => r.leido.enabled /\ it.next_run >= r.leido.next_run
  /\ \/ c <= r.desde
     \/ r.leido.enabled /\ (it.enabled => it.next_run > r.leido.next_run)
Vigentes == \A r \in Pedido : panel = <<r>> /\ r.sid \notin cruzados =>
              Vigente(r, items[r.sid], calculado[r.sid])

OInv == /\ \A s \in Sids \ cruzados : /\ Ordenado(items[s], calculado[s], enviado[s], ahora, tz)
                                      /\ Adelantado(s)
        /\ Vigentes
-----------------------------------------------------------------------------
(* Instants, items and forms.                                              *)

\* The instants: all positive; up to the end, and a week and a day from each one.
LEMMA LosInstantes ==
  /\ Inicio \in Nat /\ Fin \in Nat /\ Inicio > 0 /\ SinRun = 0
  /\ \A t \in Instantes : t \in Nat /\ t > 0
  /\ \A t \in Inicio..Fin : t \in Nat /\ t > 0 /\ t \in Instantes
  /\ \A desde \in Inicio..Fin : \A t \in (desde + 1)..(desde + (DiasSem + 1) * Dia) :
       t \in Instantes /\ t > desde /\ t # SinRun
<1> DEFINE u == (DiasSem + 1) * Dia
<1>1. u \in Nat /\ Inicio \in Nat /\ Fin \in Nat /\ Inicio > 0
  BY Dias, SchedulesAssumption
<1>2. Instantes = Inicio..(Fin + u)
  BY DEF Instantes
<1> HIDE DEF u
<1> QED
  BY <1>1, <1>2 DEF SinRun, u

\* The elements of a sequence, its head and its tail.
LEMMA Elementos ==
  ASSUME NEW S, NEW p \in Seq(S)
  PROVE  /\ Len(p) \in Nat /\ \A i \in 1..Len(p) : p[i] \in S
         /\ p # <<>> => Len(p) \in Nat \ {0} /\ Head(p) = p[1] /\ Head(p) \in S
         /\ p # <<>> /\ Len(p) # 1 =>
              /\ Tail(p) \in Seq(S) /\ Tail(p) # <<>> /\ Len(Tail(p)) = Len(p) - 1
              /\ \A i \in 1..Len(Tail(p)) : i + 1 \in 1..Len(p) /\ Tail(p)[i] = p[i + 1]
<1>1. Len(p) \in Nat /\ \A i \in 1..Len(p) : p[i] \in S
  OBVIOUS
<1>2. ASSUME p # <<>> PROVE Len(p) \in Nat \ {0} /\ Head(p) = p[1] /\ Head(p) \in S
  BY <1>2
<1>3. ASSUME p # <<>>, Len(p) # 1
      PROVE  /\ Tail(p) \in Seq(S) /\ Len(Tail(p)) = Len(p) - 1
             /\ \A i \in 1..Len(Tail(p)) : i + 1 \in 1..Len(p) /\ Tail(p)[i] = p[i + 1]
  BY <1>3
<1>4. ASSUME p # <<>>, Len(p) # 1 PROVE Tail(p) # <<>>
  <2>1. Len(Tail(p)) # 0 /\ Len(<<>>) = 0
    BY <1>2, <1>3, <1>4
  <2> QED
    BY <2>1
<1> QED
  BY <1>1, <1>2, <1>3, <1>4

\* A function on 1..n is a sequence of that length.
LEMMA DeFuncion ==
  ASSUME NEW S, NEW n \in Nat, NEW f \in [1..n -> S]
  PROVE  f \in Seq(S) /\ Len(f) = n
<1>1. f \in Seq(S)
  OBVIOUS
<1>2. DOMAIN f = 1..n
  OBVIOUS
<1> QED
  BY <1>1, <1>2

\* Zones are integers.
LEMMA LasZonas == \A z \in Zonas : z \in Int
BY SchedulesAssumption

\* The fields of an item.
LEMMA CamposDe ==
  ASSUME NEW it \in Item
  PROVE  /\ it.est \in {"nuevo", "si", "borrado", "fantasma"} /\ it.type \in Tipos
         /\ it.at \in Horas /\ it.days \in SUBSET (0..(DiasSem - 1))
         /\ it.next_run \in {SinRun} \cup Instantes /\ it.next_run \in Nat
         /\ it.enabled \in BOOLEAN
BY LosInstantes DEF Item, SinRun

\* There being no item is an item like the others.
LEMMA FaltaTipo ==
  \A e \in {"nuevo", "borrado"} :
    /\ Falta(e) \in Item /\ Sano(Falta(e)) /\ Falta(e).est = e /\ ~Falta(e).enabled
    /\ Falta(e).type = Once /\ Falta(e).next_run = SinRun
BY DEF Falta, Item, Sano, Tipos, Horas

\* The next run of an item lies ahead and among the instants; a recurrent one has one.
LEMMA ProximoDe ==
  ASSUME NEW it \in Item, Sano(it), NEW z \in Zonas, NEW t \in Inicio..Fin
  PROVE  LET n == proximo_run(it.type, it.at, it.days, z, t)
         IN  /\ n \in {SinRun} \cup Instantes /\ n \in Nat
             /\ n # SinRun => n > t
             /\ it.type = Once => n = SinRun
             /\ it.type # Once => n # SinRun
<1> DEFINE n == proximo_run(it.type, it.at, it.days, z, t)
<1>1. /\ it.type \in Tipos /\ it.at \in Horas /\ it.days \in SUBSET (0..(DiasSem - 1))
      /\ z \in Int /\ t \in Nat
  BY CamposDe, LasZonas, LosInstantes
<1>2. /\ n = SinRun \/ n \in (t + 1)..(t + (DiasSem + 1) * Dia)
      /\ it.type = Once => n = SinRun
      /\ it.type # Once /\ it.at # SinHora /\ (it.type = "weekly" => it.days # {})
           => n # SinRun
  BY <1>1, ProximoRango
<1>3. n \in {SinRun} \cup Instantes /\ (n # SinRun => n > t)
  <2> HIDE DEF n
  <2> QED
    BY <1>2, LosInstantes
<1>4. n \in Nat
  <2> HIDE DEF n
  <2> QED
    BY <1>3, LosInstantes
<1> QED
  BY <1>2, <1>3, <1>4 DEF Sano

\* What an update writes.
Renueva(hoy, b, n) == [hoy EXCEPT !.enabled = b, !.next_run = n]

\* An item is updated: over a deleted one there is a phantom from then on.
LEMMA Renovado ==
  ASSUME NEW hoy \in Item, Sano(hoy), hoy.est # "nuevo", NEW b \in BOOLEAN,
         NEW n \in {SinRun} \cup Instantes
  PROVE  LET a == Actualizado(Renueva(hoy, b, n))
         IN  /\ a \in Item /\ Sano(a) /\ a.est # "nuevo" /\ a.enabled = b /\ a.next_run = n
             /\ a.type = hoy.type /\ a.at = hoy.at /\ a.days = hoy.days
             /\ a.est = "si" <=> hoy.est = "si"
<1> DEFINE it == Renueva(hoy, b, n)
           a == Actualizado(it)
<1>1. it \in Item /\ it = [est |-> hoy.est, type |-> hoy.type, at |-> hoy.at, days |-> hoy.days, next_run |-> n, enabled |-> b]
  <2>1. it = [est |-> hoy.est, type |-> hoy.type, at |-> hoy.at, days |-> hoy.days, next_run |-> n, enabled |-> b]
    <3>1. ASSUME NEW x, x = [hoy EXCEPT !.enabled = b, !.next_run = n]
          PROVE  x \in Item /\ x = [est |-> hoy.est, type |-> hoy.type, at |-> hoy.at, days |-> hoy.days, next_run |-> n, enabled |-> b]
      BY <3>1 DEF Item
    <3>2. it = [hoy EXCEPT !.enabled = b, !.next_run = n]
      BY DEF Renueva
    <3> HIDE DEF it
    <3> QED
      BY <3>1, <3>2
  <2> HIDE DEF it
  <2> QED
    BY <2>1, CamposDe DEF Item
<1>2. a = [est |-> IF hoy.est = "borrado" THEN "fantasma" ELSE hoy.est, type |-> hoy.type, at |-> hoy.at,
           days |-> hoy.days, next_run |-> n, enabled |-> b]
  <2>1. a = [it EXCEPT !.est = IF it.est = "borrado" THEN "fantasma" ELSE it.est] /\ it.est = hoy.est
    BY <1>1 DEF Actualizado
  <2> HIDE DEF a, it
  <2> QED
    BY <1>1, <2>1
<1> HIDE DEF it
<1>3. /\ a.est = (IF hoy.est = "borrado" THEN "fantasma" ELSE hoy.est) /\ a.type = hoy.type
      /\ a.at = hoy.at /\ a.days = hoy.days /\ a.next_run = n /\ a.enabled = b
  BY <1>2
<1>4. a.est \in {"si", "fantasma"} /\ (a.est = "si" <=> hoy.est = "si")
  BY <1>3, CamposDe
<1>5. a \in Item
  BY <1>2, CamposDe DEF Item
<1>6. Sano(a)
  BY <1>3, <1>4 DEF Sano
<1> QED
  BY <1>3, <1>4, <1>5, <1>6 DEF it

\* The fields the panel works out: they make a sound item, with a next run ahead.
Peticion == [type : Tipos, at : Horas, days : SUBSET (0..(DiasSem - 1)),
             run_at : {SinRun} \cup Instantes \cup 0..Fin]
\* What _campos_schedule makes of a valid request is a sound item with its next run ahead.
LEMMA FormularioBien ==
  ASSUME DelMundo, NEW p \in Peticion, Vale(p), NEW b \in BOOLEAN
  PROVE  LET c == Campos(p, "si", b)
         IN  /\ c \in Item /\ Sano(c) /\ c.est = "si" /\ c.enabled = b
             /\ c.next_run > ahora /\ Calculado(c, tz, ahora)
<1> DEFINE c == Campos(p, "si", b)
           n == Proximo(p)
<1>1. /\ p.type \in Tipos /\ p.at \in Horas /\ p.days \in SUBSET (0..(DiasSem - 1))
      /\ p.run_at \in {SinRun} \cup Instantes \cup 0..Fin
  BY DEF Peticion
<1>2. /\ ahora \in Inicio..Fin /\ tz \in Int /\ ahora \in Nat /\ ahora >= Inicio
  BY LasZonas, LosInstantes DEF DelMundo
<1>3. /\ c.est = "si" /\ c.type = p.type /\ c.at = (IF p.type = Once THEN SinHora ELSE p.at)
      /\ c.days = (IF p.type = "weekly" THEN p.days ELSE {}) /\ c.next_run = n /\ c.enabled = b
      /\ c = [est |-> "si", type |-> p.type, at |-> IF p.type = Once THEN SinHora ELSE p.at,
              days |-> IF p.type = "weekly" THEN p.days ELSE {}, next_run |-> n, enabled |-> b]
  BY DEF Campos
<1>4. n \in Instantes /\ n > ahora
  <2>1. CASE p.type = Once
    <3>1. n = p.run_at /\ p.run_at > ahora
      BY <2>1 DEF Proximo, Vale
    <3>2. CASE p.run_at \in 0..Fin
      <4>1. p.run_at \in Inicio..Fin
        BY <1>2, <3>1, <3>2, LosInstantes
      <4> QED
        BY <3>1, <4>1, LosInstantes
    <3>3. p.run_at # SinRun
      BY <1>2, <3>1, LosInstantes
    <3> QED
      BY <1>1, <3>1, <3>2, <3>3
  <2>2. CASE p.type # Once
    <3>1. n = proximo_run(p.type, p.at, p.days, tz, ahora) /\ n # SinRun
      BY <2>2 DEF Proximo, Vale
    <3>2. n = SinRun \/ n \in (ahora + 1)..(ahora + (DiasSem + 1) * Dia)
      BY <1>1, <1>2, <3>1, ProximoRango
    <3> HIDE DEF n
    <3> QED
      BY <1>2, <3>1, <3>2, LosInstantes
  <2> QED
    BY <2>1, <2>2
<1>5. c \in Item
  <2> HIDE DEF n
  <2> QED
    BY <1>1, <1>3, <1>4 DEF Item, Horas
<1>6. p.type # Once => p.at # SinHora /\ (p.type = "weekly" => p.days # {})
  BY DEF Vale
<1>7. Sano(c)
  <2> HIDE DEF c
  <2> QED
    BY <1>3, <1>6 DEF Sano
<1>8. Calculado(c, tz, ahora)
  <2> SUFFICES ASSUME p.type # Once PROVE n = proximo_run(p.type, c.at, c.days, tz, ahora)
    BY <1>3 DEF Calculado
  <2>1. n = proximo_run(p.type, p.at, p.days, tz, ahora) /\ c.at = p.at
    BY <1>3 DEF Proximo
  <2>2. CASE p.type = "weekly"
    BY <1>3, <2>1, <2>2
  <2>3. CASE p.type # "weekly"
    <3>1. p.type = "daily"
      BY <1>1, <2>3 DEF Tipos
    <3>2. proximo_run(p.type, p.at, p.days, tz, ahora) = proximo_run(p.type, p.at, c.days, tz, ahora)
      BY <3>1 DEF proximo_run
    <3> QED
      BY <2>1, <3>2
  <2> QED
    BY <2>2, <2>3
<1> QED
  BY <1>3, <1>4, <1>5, <1>7, <1>8
-----------------------------------------------------------------------------
(* Each step keeps the parts.                                              *)

\* Time goes on, no item is new again.
Creciente == /\ ahora \in Inicio..Fin /\ ahora' \in Inicio..Fin /\ ahora <= ahora' /\ tz' = tz
             /\ \A s \in Sids : items[s].est # "nuevo" => items'[s].est # "nuevo"

\* A tick stays in order as time goes on and items come to be.
LEMMA EnReglaSigue ==
  ASSUME NEW r \in Marcha, NEW t \in Int, NEW u \in Int, t <= u, NEW its, NEW otros,
         \A s \in Sids : its[s].est # "nuevo" => otros[s].est # "nuevo", EnRegla(r, t, its)
  PROVE  EnRegla(r, u, otros)
<1> SUFFICES ASSUME r.en # "no" PROVE EnRegla(r, u, otros)
  BY DEF EnRegla
<1>1. r.pend # <<>> /\ r.ahora \in Inicio..t
  BY DEF EnRegla
<1>2. r.ahora \in Inicio..u
  BY <1>1, LosInstantes
<1>3. ASSUME NEW i \in 1..Len(r.pend)
      PROVE  /\ Vence(r.pend[i].item, r.ahora) /\ Sano(r.pend[i].item)
             /\ otros[r.pend[i].sid].est # "nuevo"
  <2>1. r.pend[i].sid \in Sids
    <3>1. r.pend \in Seq([sid : Sids, item : Item])
      BY DEF Marcha
    <3>2. r.pend[i] \in [sid : Sids, item : Item]
      BY <3>1, Elementos
    <3> QED
      BY <3>2
  <2> QED
    BY <2>1 DEF EnRegla
<1> QED
  BY <1>1, <1>2, <1>3 DEF EnRegla

\* So does a request of the panel.
LEMMA FormularioSigue ==
  ASSUME NEW r \in Pedido, NEW t \in Int, NEW u \in Int, t <= u, NEW its, NEW otros, NEW z,
         \A s \in Sids : its[s].est # "nuevo" => otros[s].est # "nuevo",
         Formulario(r, t, its, z)
  PROVE  Formulario(r, u, otros, z)
<1>1. r.sid \in Sids /\ r.desde \in Inicio..t
  BY DEF Pedido, Formulario
<1>2. r.desde \in Inicio..u /\ otros[r.sid].est # "nuevo"
  BY <1>1, LosInstantes DEF Formulario
<1> QED
  BY <1>2 DEF Formulario

\* The ticks that do not step stay in order, and so does a request.
LEMMA TicksQuedan ==
  ASSUME DeLosTicks, Creciente, tick' = tick
  PROVE  DeLosTicks'
<1>1. ahora \in Int /\ ahora' \in Int
  BY LosInstantes DEF Creciente
<1>2. \A d \in Ticks : EnRegla(tick[d], ahora', items')
  BY <1>1, EnReglaSigue DEF DeLosTicks, Creciente
<1>3. tick' \in [Ticks -> Marcha] /\ \A d \in Ticks : EnRegla(tick'[d], ahora', items')
  BY <1>2 DEF DeLosTicks
<1> QED
  BY <1>3 DEF DeLosTicks

\* A tick takes a new state that is in order; the others stay in theirs.
LEMMA TickPone ==
  ASSUME DeLosTicks, Creciente, NEW d \in Ticks, NEW r \in Marcha, EnRegla(r, ahora, items),
         tick' = [tick EXCEPT ![d] = r]
  PROVE  DeLosTicks'
<1>1. ahora \in Int /\ ahora' \in Int
  BY LosInstantes DEF Creciente
<1>2. \A e \in Ticks : EnRegla(tick[e], ahora', items')
  BY <1>1, EnReglaSigue DEF DeLosTicks, Creciente
<1>3. EnRegla(r, ahora', items')
  BY <1>1, EnReglaSigue DEF Creciente
<1>4. tick' \in [Ticks -> Marcha] /\ \A e \in Ticks : tick'[e] = IF e = d THEN r ELSE tick[e]
  BY DEF DeLosTicks
<1>5. \A e \in Ticks : EnRegla(tick'[e], ahora', items')
  BY <1>2, <1>3, <1>4
<1> QED
  BY <1>4, <1>5 DEF DeLosTicks

\* A request that is not written yet stays in order.
LEMMA PanelQueda ==
  ASSUME DelPanel, Creciente, panel' = panel
  PROVE  DelPanel'
<1>1. ahora \in Int /\ ahora' \in Int /\ tz' = tz
  BY LosInstantes DEF Creciente
<1>2. ASSUME NEW r \in Pedido, panel = <<r>>, Formulario(r, ahora, items, tz)
      PROVE  Formulario(r, ahora', items', tz')
  BY <1>1, <1>2, FormularioSigue DEF Creciente
<1>3. panel' = SinPedido \/ \E r \in Pedido : panel' = <<r>> /\ Formulario(r, ahora', items', tz')
  BY <1>2 DEF DelPanel
<1> QED
  BY <1>3 DEF DelPanel, SinPedido

\* A sound item takes its place in the table.
LEMMA ItemPone ==
  ASSUME DeLaTabla, NEW s \in Sids, NEW it \in Item, Sano(it), it.est # "nuevo",
         items' = [items EXCEPT ![s] = it]
  PROVE  /\ DeLaTabla' /\ items'[s] = it /\ \A r \in Sids \ {s} : items'[r] = items[r]
         /\ \A r \in Sids : items[r].est # "nuevo" => items'[r].est # "nuevo"
<1>1. items' \in [Sids -> Item] /\ \A r \in Sids : items'[r] = IF r = s THEN it ELSE items[r]
  BY DEF DeLaTabla
<1>2. \A r \in Sids : Sano(items'[r])
  BY <1>1 DEF DeLaTabla
<1> QED
  BY <1>1, <1>2 DEF DeLaTabla

\* actualizar leaves a sound item in the table, and the others alone.
LEMMA ActualizarBien ==
  ASSUME DeLaTabla, DeLaHistoria, NEW s \in Sids, NEW h \in Item, Sano(h),
         h.est # "nuevo", NEW b \in BOOLEAN, NEW n \in {SinRun} \cup Instantes, NEW leido, NEW desde \in Nat,
         actualizar(s, leido, Renueva(h, b, n), desde)
  PROVE  /\ DeLaTabla' /\ items'[s] = Actualizado(Renueva(h, b, n))
         /\ \A r \in Sids \ {s} : items'[r] = items[r] /\ calculado'[r] = calculado[r]
         /\ \A r \in Sids : items[r].est # "nuevo" => items'[r].est # "nuevo"
         /\ calculado' \in [Sids -> Nat] /\ calculado'[s] = desde
         /\ cruzados' \subseteq Sids /\ cruzados \subseteq cruzados'
         /\ s \notin cruzados' => items[s] = leido /\ s \notin cruzados
<1> DEFINE a == Actualizado(Renueva(h, b, n))
<1>2. a \in Item /\ Sano(a) /\ a.est # "nuevo"
  BY Renovado
<1>3. items' = [items EXCEPT ![s] = a]
  BY DEF actualizar
<1>4. /\ calculado' = [calculado EXCEPT ![s] = desde] /\ calculado \in [Sids -> Nat]
      /\ cruzados' = (IF items[s] = leido THEN cruzados ELSE cruzados \cup {s})
      /\ cruzados \subseteq Sids
  BY DEF actualizar, DeLaHistoria
<1>5. calculado' \in [Sids -> Nat] /\ calculado'[s] = desde /\ \A r \in Sids \ {s} : calculado'[r] = calculado[r]
  BY <1>4
<1>6. cruzados' \subseteq Sids /\ cruzados \subseteq cruzados' /\ (s \notin cruzados' => items[s] = leido /\ s \notin cruzados)
  BY <1>4
<1>7. /\ DeLaTabla' /\ items'[s] = a /\ \A r \in Sids \ {s} : items'[r] = items[r]
      /\ \A r \in Sids : items[r].est # "nuevo" => items'[r].est # "nuevo"
  <2> HIDE DEF a
  <2> QED
    BY <1>2, <1>3, ItemPone
<1> QED
  BY <1>5, <1>6, <1>7

\* What a tick has in hand, and its moves.
LEMMA EnManoBien ==
  ASSUME BInv, NEW d \in Ticks, tick[d].en # "no"
  PROVE  /\ tick[d] \in Marcha /\ EnRegla(tick[d], ahora, items) /\ tick[d].ahora \in Inicio..Fin
         /\ tick[d].ahora \in Nat /\ ahora \in Nat /\ tick[d].ahora <= ahora
         /\ tick[d].pend \in Seq([sid : Sids, item : Item]) /\ Len(tick[d].pend) \in Nat \ {0}
         /\ EnMano(d).sid \in Sids /\ EnMano(d).item \in Item
         /\ Vence(EnMano(d).item, tick[d].ahora) /\ Sano(EnMano(d).item)
         /\ items[EnMano(d).sid].est # "nuevo" /\ items[EnMano(d).sid] \in Item
         /\ Sano(items[EnMano(d).sid])
<1>1. tick[d] \in Marcha /\ EnRegla(tick[d], ahora, items)
  BY DEF BInv, DeLosTicks
<1>2. /\ tick[d].pend \in Seq([sid : Sids, item : Item]) /\ tick[d].pend # <<>>
      /\ tick[d].ahora \in Inicio..ahora
  BY <1>1 DEF Marcha, EnRegla
<1>3. Len(tick[d].pend) \in Nat \ {0} /\ 1 \in 1..Len(tick[d].pend) /\ EnMano(d) = tick[d].pend[1]
  BY <1>2, Elementos DEF EnMano
<1>4. EnMano(d) \in [sid : Sids, item : Item]
  BY <1>2, Elementos DEF EnMano
<1>5. /\ Vence(EnMano(d).item, tick[d].ahora) /\ Sano(EnMano(d).item)
      /\ items[EnMano(d).sid].est # "nuevo"
  BY <1>1, <1>3 DEF EnRegla
<1>6. EnMano(d).sid \in Sids /\ EnMano(d).item \in Item
  BY <1>4
<1>7. items[EnMano(d).sid] \in Item /\ Sano(items[EnMano(d).sid])
  BY <1>6 DEF BInv, DeLaTabla
<1>8. ahora \in Inicio..Fin
  BY DEF BInv, DelMundo
<1>9. tick[d].ahora \in Inicio..Fin /\ tick[d].ahora \in Nat /\ ahora \in Nat /\ tick[d].ahora <= ahora
  BY <1>2, <1>8, LosInstantes
<1> QED
  BY <1>1, <1>2, <1>3, <1>5, <1>6, <1>7, <1>9

\* A tick that is not running holds nothing.
LEMMA ParadoBien == Parado \in Marcha /\ Parado.en = "no" /\ \A t, its : EnRegla(Parado, t, its)
<1>1. <<>> \in Seq([sid : Sids, item : Item])
  OBVIOUS
<1>2. Parado \in Marcha
  BY <1>1 DEF Parado, Marcha
<1>3. Parado.en = "no"
  BY DEF Parado
<1> QED
  BY <1>2, <1>3 DEF EnRegla

\* A tick that goes on with what it holds is in order.
LEMMA PuntoBien ==
  ASSUME BInv, NEW d \in Ticks, tick[d].en # "no", NEW en \in {"avanza", "envia"},
         NEW act \in BOOLEAN
  PROVE  LET r == Punto(en, tick[d].pend, act, d)
         IN  /\ r \in Marcha /\ EnRegla(r, ahora, items) /\ r.en = en /\ r.pend = tick[d].pend
             /\ r.activos = act /\ r.ahora = tick[d].ahora
<1> DEFINE r == Punto(en, tick[d].pend, act, d)
<1>1. /\ r.en = en /\ r.pend = tick[d].pend /\ r.activos = act /\ r.ahora = tick[d].ahora
      /\ r = [en |-> en, pend |-> tick[d].pend, activos |-> act, ahora |-> tick[d].ahora]
  BY DEF Punto
<1>2. r \in Marcha
  BY <1>1, EnManoBien DEF Marcha
<1>3. EnRegla(tick[d], ahora, items)
  BY EnManoBien
<1>4. EnRegla(r, ahora, items)
  <2> HIDE DEF r
  <2> QED
    BY <1>1, <1>3 DEF EnRegla
<1> QED
  BY <1>1, <1>2, <1>4

\* So is one that leaves the schedule in hand for the next one, or ends.
LEMMA SigueBien ==
  ASSUME BInv, NEW d \in Ticks, tick[d].en # "no", Sigue(d)
  PROVE  \E r \in Marcha : /\ tick' = [tick EXCEPT ![d] = r] /\ EnRegla(r, ahora, items)
                           /\ r.en \in {"no", "avanza"}
<1> DEFINE p == tick[d].pend
           r == Punto("avanza", Tail(p), tick[d].activos, d)
<1>1. CASE Len(p) = 1
  BY <1>1, ParadoBien DEF Sigue
<1>2. CASE Len(p) # 1
  <2>1. /\ p \in Seq([sid : Sids, item : Item]) /\ Len(p) \in Nat \ {0} /\ tick[d] \in Marcha
        /\ EnRegla(tick[d], ahora, items)
    BY EnManoBien
  <2>2. /\ Tail(p) \in Seq([sid : Sids, item : Item]) /\ Tail(p) # <<>>
        /\ \A i \in 1..Len(Tail(p)) : i + 1 \in 1..Len(p) /\ Tail(p)[i] = p[i + 1]
    <3>1. p # <<>>
      BY <2>1, EnManoBien DEF EnRegla
    <3> HIDE DEF p
    <3> QED
      BY <1>2, <2>1, <3>1, Elementos
  <2>3. r = [en |-> "avanza", pend |-> Tail(p), activos |-> tick[d].activos, ahora |-> tick[d].ahora]
    BY DEF Punto
  <2>4. r \in Marcha
    <3>1. tick[d].activos \in BOOLEAN /\ tick[d].ahora \in Nat
      BY <2>1 DEF Marcha
    <3> HIDE DEF r, p
    <3> QED
      BY <2>2, <2>3, <3>1 DEF Marcha
  <2>5. r.en = "avanza" /\ r.pend = Tail(p) /\ r.ahora = tick[d].ahora
    <3> HIDE DEF r, p
    <3> QED
      BY <2>3
  <2>7. EnRegla(r, ahora, items)
    <3> HIDE DEF r, p
    <3>1. /\ tick[d].ahora \in Inicio..ahora
          /\ \A i \in 1..Len(p) : /\ Vence(p[i].item, tick[d].ahora) /\ Sano(p[i].item)
                                  /\ items[p[i].sid].est # "nuevo"
      BY <2>1 DEF EnRegla, p
    <3>2. \A i \in 1..Len(Tail(p)) : /\ Vence(Tail(p)[i].item, tick[d].ahora)
                                     /\ Sano(Tail(p)[i].item)
                                     /\ items[Tail(p)[i].sid].est # "nuevo"
      BY <2>2, <3>1
    <3> QED
      BY <2>2, <2>5, <3>1, <3>2 DEF EnRegla
  <2>8. tick' = [tick EXCEPT ![d] = r]
    BY <1>2 DEF Sigue
  <2> QED
    BY <2>4, <2>5, <2>7, <2>8
<1> QED
  BY <1>1, <1>2

\* An update of one field is an update that leaves the other as it is.
LEMMA Escribirlo ==
  ASSUME NEW h \in Item
  PROVE  /\ \A b \in BOOLEAN : [h EXCEPT !.enabled = b] = Renueva(h, b, h.next_run)
         /\ \A n \in {SinRun} \cup Instantes : [h EXCEPT !.next_run = n] = Renueva(h, h.enabled, n)
<1>1. ASSUME NEW b \in BOOLEAN, NEW x, x = [h EXCEPT !.enabled = b],
             NEW y, y = [h EXCEPT !.enabled = b, !.next_run = h.next_run]
      PROVE  x \in Item /\ y \in Item /\ x = y
  BY <1>1 DEF Item
<1>2. ASSUME NEW n \in {SinRun} \cup Instantes, NEW x, x = [h EXCEPT !.next_run = n],
             NEW y, y = [h EXCEPT !.enabled = h.enabled, !.next_run = n]
      PROVE  x \in Item /\ y \in Item /\ x = y
  BY <1>2 DEF Item
<1> QED
  BY <1>1, <1>2 DEF Renueva

\* What _avanzar writes: the schedule goes off, or on to its next run.
LEMMA AvanceEs ==
  ASSUME BInv, NEW d \in Ticks, tick[d].en # "no"
  PROVE  \E b \in BOOLEAN, n \in {SinRun} \cup Instantes :
           /\ Avance(d) = Renueva(items[EnMano(d).sid], b, n)
           /\ \/ b = FALSE /\ EnMano(d).item.type = Once /\ n = items[EnMano(d).sid].next_run
              \/ /\ EnMano(d).item.type # Once /\ n > tick[d].ahora
                 /\ n = proximo_run(EnMano(d).item.type, EnMano(d).item.at,
                                    EnMano(d).item.days, tz, tick[d].ahora)
                 /\ b = items[EnMano(d).sid].enabled
<1> DEFINE it == EnMano(d).item
           hoy == items[EnMano(d).sid]
           n == proximo_run(it.type, it.at, it.days, tz, tick[d].ahora)
<1>1. hoy \in Item /\ it \in Item /\ Sano(it) /\ tick[d].ahora \in Inicio..Fin /\ tz \in Zonas
  BY EnManoBien DEF BInv, DelMundo
<1>2. /\ n \in {SinRun} \cup Instantes /\ (n # SinRun => n > tick[d].ahora)
      /\ (it.type = Once => n = SinRun) /\ (it.type # Once => n # SinRun)
  <2> HIDE DEF it
  <2> QED
    BY <1>1, ProximoDe
<1>3. Avance(d) = IF it.type = Once \/ n = SinRun THEN [hoy EXCEPT !.enabled = FALSE]
                  ELSE [hoy EXCEPT !.next_run = n]
  BY DEF Avance
<1>4. hoy.enabled \in BOOLEAN /\ hoy.next_run \in {SinRun} \cup Instantes
  BY <1>1, CamposDe
<1>5. /\ [hoy EXCEPT !.enabled = FALSE] = Renueva(hoy, FALSE, hoy.next_run)
      /\ [hoy EXCEPT !.next_run = n] = Renueva(hoy, hoy.enabled, n)
  <2> HIDE DEF hoy, n
  <2> QED
    BY <1>1, <1>2, Escribirlo
<1>6. CASE it.type = Once
  <2>1. Avance(d) = Renueva(hoy, FALSE, hoy.next_run)
    BY <1>3, <1>5, <1>6
  <2> QED
    BY <1>4, <1>6, <2>1
<1>7. CASE it.type # Once
  <2>1. Avance(d) = Renueva(hoy, hoy.enabled, n) /\ n > tick[d].ahora
    BY <1>2, <1>3, <1>5, <1>7
  <2> QED
    BY <1>2, <1>4, <1>7, <2>1
<1> QED
  BY <1>6, <1>7

\* The bounds.
LEMMA CotasBien ==
  ASSUME DeLaHistoria, Bien \/ Falla \/ Cambia
  PROVE  quedan' \in [creaciones : Nat, fallos : Nat, cambios : Nat, aLaVez : Nat]
<1> DEFINE Cotas == [creaciones : Nat, fallos : Nat, cambios : Nat, aLaVez : Nat]
<1>1. quedan \in Cotas
  BY DEF DeLaHistoria
<1>2. Bien => quedan' \in Cotas
  BY <1>1 DEF Bien
<1>3. Falla => quedan' \in Cotas
  BY <1>1 DEF Falla
<1>4. Cambia => quedan' \in Cotas
  BY <1>1 DEF Cambia
<1> QED
  BY <1>2, <1>3, <1>4

\* A step of a tick.
LEMMA DelTick ==
  ASSUME BInv, mundo' = mundo, panel' = panel, NEW d \in Ticks, NEW r \in Marcha,
         EnRegla(r, ahora, items), tick' = [tick EXCEPT ![d] = r],
         \A s \in Sids : items[s].est # "nuevo" => items'[s].est # "nuevo",
         DeLaTabla', DeLaHistoria'
  PROVE  BInv' /\ Creciente
<1>1. ahora' = ahora /\ tz' = tz /\ activos' = activos
  BY DEF mundo
<1>2. DelMundo'
  BY <1>1 DEF BInv, DelMundo
<1>3. Creciente
  <2>1. ahora \in Inicio..Fin /\ ahora <= ahora
    BY LosInstantes DEF BInv, DelMundo
  <2> QED
    BY <1>1, <2>1 DEF Creciente
<1>4. DeLosTicks' /\ DelPanel'
  BY <1>3, TickPone, PanelQueda DEF BInv
<1> QED
  BY <1>2, <1>3, <1>4 DEF BInv

\* A tick starts: what it holds is due and was created.
LEMMA EmpiezaBien ==
  ASSUME BInv, NEW d \in Ticks, Empieza(d)
  PROVE  BInv' /\ Creciente
<1>1. PICK pend \in vencidos(ahora) :
        /\ pend # <<>>
        /\ tick' = [tick EXCEPT ![d] = [en |-> "config", pend |-> pend, activos |-> FALSE,
                                        ahora |-> ahora]]
  BY DEF Empieza
<1> DEFINE S == {s \in Sids : Vence(items[s], ahora)}
           r == [en |-> "config", pend |-> pend, activos |-> FALSE, ahora |-> ahora]
           n == Cardinality(S)
<1>2. n \in Nat
  <2>1. IsFiniteSet(Sids) /\ S \subseteq Sids
    BY SchedulesAssumption
  <2> HIDE DEF S
  <2>2. IsFiniteSet(S)
    BY <2>1, FS_Subset
  <2> QED
    BY <2>2, FS_CardinalityType
<1>3. PICK o \in [1..n -> S] : pend = [i \in DOMAIN o |-> [sid |-> o[i], item |-> items[o[i]]]]
  <2>1. pend \in {[i \in DOMAIN o |-> [sid |-> o[i], item |-> items[o[i]]]] : o \in EnOrden(S)}
    BY <1>1 DEF vencidos
  <2>2. EnOrden(S) \subseteq [1..n -> S]
    BY DEF EnOrden
  <2> HIDE DEF S, n
  <2> QED
    BY <2>1, <2>2
<1>4. /\ pend \in Seq([sid : Sids, item : Item]) /\ Len(pend) = n
      /\ \A i \in 1..n : /\ pend[i].sid \in S /\ pend[i].item = items[pend[i].sid]
  <2>1. \A s \in S : s \in Sids /\ items[s] \in Item
    BY DEF BInv, DeLaTabla
  <2>2. \A i \in 1..n : o[i] \in S /\ [sid |-> o[i], item |-> items[o[i]]] \in [sid : Sids, item : Item]
    BY <2>1
  <2>3. pend = [i \in 1..n |-> [sid |-> o[i], item |-> items[o[i]]]]
    BY <1>3
  <2> HIDE DEF S, n
  <2>4. pend \in [1..n -> [sid : Sids, item : Item]] /\ \A i \in 1..n : pend[i].sid = o[i] /\ pend[i].item = items[o[i]]
    BY <2>2, <2>3
  <2>5. pend \in Seq([sid : Sids, item : Item]) /\ Len(pend) = n
    <3> DEFINE R == [sid : Sids, item : Item]
    <3>1. pend \in [1..n -> R]
      BY <2>4
    <3> HIDE DEF R
    <3>2. pend \in Seq(R) /\ Len(pend) = n
      BY <1>2, <3>1, DeFuncion
    <3> QED
      BY <3>2 DEF R
  <2> QED
    BY <2>2, <2>4, <2>5
<1>5. ahora \in Inicio..Fin /\ ahora \in Nat /\ ahora \in Inicio..ahora
  BY LosInstantes DEF BInv, DelMundo
<1>6. r \in Marcha
  <2> HIDE DEF n, S
  <2> QED
    BY <1>4, <1>5 DEF Marcha
<1>7. EnRegla(r, ahora, items)
  <2>1. \A i \in 1..Len(pend) : /\ Vence(pend[i].item, ahora) /\ Sano(pend[i].item)
                                /\ items[pend[i].sid].est # "nuevo"
    <3> SUFFICES ASSUME NEW i \in 1..n
                 PROVE  /\ Vence(pend[i].item, ahora) /\ Sano(pend[i].item)
                        /\ items[pend[i].sid].est # "nuevo"
      BY <1>4
    <3>1. pend[i].sid \in S /\ pend[i].item = items[pend[i].sid]
      BY <1>4
    <3>2. pend[i].sid \in Sids /\ Vence(items[pend[i].sid], ahora) /\ Sano(items[pend[i].sid])
      BY <3>1 DEF BInv, DeLaTabla
    <3>3. items[pend[i].sid].enabled
      BY <3>2 DEF Vence
    <3> QED
      BY <3>1, <3>2, <3>3, FaltaTipo DEF Sano
  <2>2. r.pend = pend /\ r.ahora = ahora
    OBVIOUS
  <2> HIDE DEF r
  <2> QED
    BY <1>1, <1>5, <2>1, <2>2 DEF EnRegla
<1>8. /\ mundo' = mundo /\ panel' = panel /\ items' = items /\ enviado' = enviado
      /\ historia' = historia /\ quedan' = quedan /\ tick' = [tick EXCEPT ![d] = r]
  BY <1>1 DEF Empieza
<1>9. DeLaTabla' /\ DeLaHistoria'
  BY <1>8 DEF BInv, DeLaTabla, DeLaHistoria, historia
<1> HIDE DEF r
<1> QED
  BY <1>6, <1>7, <1>8, <1>9, DelTick

\* A tick reads the configuration, or fails.
LEMMA LeeConfigBien ==
  ASSUME BInv, NEW d \in Ticks, LeeConfig(d)
  PROVE  BInv' /\ Creciente
<1>1. /\ mundo' = mundo /\ panel' = panel /\ items' = items /\ enviado' = enviado
      /\ historia' = historia /\ tick[d].en # "no" /\ (Bien \/ Falla)
  BY DEF LeeConfig
<1>2. DeLaTabla' /\ DeLaHistoria'
  BY <1>1, CotasBien DEF BInv, DeLaTabla, DeLaHistoria, historia
<1>3. \E r \in Marcha : tick' = [tick EXCEPT ![d] = r] /\ EnRegla(r, ahora, items)
  <2>1. CASE tick' = [tick EXCEPT ![d] = Punto("avanza", tick[d].pend, activos, d)]
    <3>1. activos \in BOOLEAN
      BY DEF BInv, DelMundo
    <3> QED
      BY <1>1, <2>1, <3>1, PuntoBien
  <2>2. CASE tick' = [tick EXCEPT ![d] = Parado]
    BY <2>2, ParadoBien
  <2> QED
    BY <2>1, <2>2 DEF LeeConfig
<1> QED
  BY <1>1, <1>2, <1>3, DelTick

\* A tick advances a schedule, or leaves it, or fails.
LEMMA AvanzaBien ==
  ASSUME BInv, NEW d \in Ticks, Avanza(d)
  PROVE  BInv' /\ Creciente
<1> DEFINE s == EnMano(d).sid
<1>1. /\ mundo' = mundo /\ panel' = panel /\ enviado' = enviado /\ tocados' = tocados
      /\ tick[d].en # "no" /\ (Bien \/ Falla)
  BY DEF Avanza
<1>2. quedan' \in [creaciones : Nat, fallos : Nat, cambios : Nat, aLaVez : Nat]
  BY <1>1, CotasBien DEF BInv
<1>3. /\ s \in Sids /\ items[s] \in Item /\ Sano(items[s]) /\ items[s].est # "nuevo"
      /\ tick[d].ahora \in Nat
  BY <1>1, EnManoBien
<1>4. \E r \in Marcha : tick' = [tick EXCEPT ![d] = r] /\ EnRegla(r, ahora, items)
  <2>1. CASE Sigue(d)
    BY <1>1, <2>1, SigueBien
  <2>2. CASE tick' = [tick EXCEPT ![d] = Punto("envia", tick[d].pend, TRUE, d)]
    BY <1>1, <2>2, PuntoBien
  <2> QED
    BY <2>1, <2>2 DEF Avanza
<1>5. /\ DeLaTabla' /\ calculado' \in [Sids -> Nat] /\ cruzados' \subseteq Sids
      /\ \A x \in Sids : items[x].est # "nuevo" => items'[x].est # "nuevo"
  <2>1. CASE UNCHANGED <<items, calculado, cruzados>>
    BY <2>1 DEF BInv, DeLaTabla, DeLaHistoria
  <2>2. CASE actualizar(s, EnMano(d).item, Avance(d), tick[d].ahora)
    <3>1. PICK b \in BOOLEAN, n \in {SinRun} \cup Instantes : Avance(d) = Renueva(items[s], b, n)
      BY <1>1, AvanceEs
    <3>2. actualizar(s, EnMano(d).item, Renueva(items[s], b, n), tick[d].ahora)
      BY <2>2, <3>1
    <3> HIDE DEF s
    <3> QED
      BY <1>3, <3>2, ActualizarBien DEF BInv
  <2> QED
    BY <2>1, <2>2 DEF Avanza
<1>6. perdidos' \subseteq Sids
  <2>1. perdidos' \in {perdidos, perdidos \cup {s}}
    BY DEF Avanza
  <2> HIDE DEF s
  <2> QED
    BY <1>3, <2>1 DEF BInv, DeLaHistoria
<1>7. DeLaHistoria'
  BY <1>1, <1>2, <1>5, <1>6 DEF BInv, DeLaHistoria
<1> HIDE DEF s
<1> QED
  BY <1>1, <1>4, <1>5, <1>7, DelTick

\* How often an occurrence was sent.
LEMMA SumaBien ==
  ASSUME DeLaHistoria, NEW s \in Sids, NEW n \in Instantes, Suma(s, n)
  PROVE  /\ enviado' \in [Sids -> [Instantes -> 0..2]]
         /\ \A x \in Sids \ {s} : enviado'[x] = enviado[x]
         /\ \A t \in Instantes \ {n} : enviado'[s][t] = enviado[s][t]
         /\ enviado'[s][n] = IF enviado[s][n] = 2 THEN 2 ELSE enviado[s][n] + 1
<1> DEFINE v == [enviado[s] EXCEPT ![n] = IF enviado[s][n] = 2 THEN 2 ELSE enviado[s][n] + 1]
<1>1. enviado' = [enviado EXCEPT ![s] = v]
  BY DEF Suma
<1>2. enviado \in [Sids -> [Instantes -> 0..2]] /\ enviado[s] \in [Instantes -> 0..2]
  BY DEF DeLaHistoria
<1>3. /\ v \in [Instantes -> 0..2] /\ \A t \in Instantes \ {n} : v[t] = enviado[s][t]
      /\ v[n] = IF enviado[s][n] = 2 THEN 2 ELSE enviado[s][n] + 1
  <2>1. enviado[s][n] \in 0..2
    BY <1>2
  <2>2. (IF enviado[s][n] = 2 THEN 2 ELSE enviado[s][n] + 1) \in 0..2
    BY <2>1
  <2> QED
    BY <1>2, <2>2
<1> HIDE DEF v
<1> QED
  BY <1>1, <1>2, <1>3

\* A tick sends, or fails.
LEMMA EnviaBien ==
  ASSUME BInv, NEW d \in Ticks, Envia(d)
  PROVE  BInv' /\ Creciente
<1> DEFINE s == EnMano(d).sid
           n == EnMano(d).item.next_run
<1>1. /\ mundo' = mundo /\ panel' = panel /\ items' = items /\ calculado' = calculado
      /\ cruzados' = cruzados /\ tocados' = tocados
      /\ tick[d].en # "no" /\ (Bien \/ Falla) /\ Sigue(d)
  BY DEF Envia
<1>2. quedan' \in [creaciones : Nat, fallos : Nat, cambios : Nat, aLaVez : Nat]
  BY <1>1, CotasBien DEF BInv
<1>3. s \in Sids /\ n \in Instantes
  <2>1. /\ s \in Sids /\ EnMano(d).item \in Item /\ Vence(EnMano(d).item, tick[d].ahora)
    BY <1>1, EnManoBien
  <2>2. n \in {SinRun} \cup Instantes /\ 0 < n
    BY <2>1, CamposDe DEF Vence
  <2> HIDE DEF n
  <2> QED
    BY <2>1, <2>2 DEF SinRun
<1>4. enviado' \in [Sids -> [Instantes -> 0..2]]
  <2>1. CASE Suma(s, n)
    <3> HIDE DEF s, n
    <3> QED
      BY <1>3, <2>1, SumaBien DEF BInv
  <2>2. CASE enviado' = enviado
    BY <2>2 DEF BInv, DeLaHistoria
  <2> QED
    BY <2>1, <2>2 DEF Envia
<1>5. perdidos' \subseteq Sids
  <2>1. perdidos' \in {perdidos, perdidos \cup {s}}
    BY DEF Envia
  <2> HIDE DEF s
  <2> QED
    BY <1>3, <2>1 DEF BInv, DeLaHistoria
<1>6. DeLaTabla' /\ DeLaHistoria'
  BY <1>1, <1>2, <1>4, <1>5 DEF BInv, DeLaTabla, DeLaHistoria
<1>7. \E r \in Marcha : tick' = [tick EXCEPT ![d] = r] /\ EnRegla(r, ahora, items)
  BY <1>1, SigueBien
<1> QED
  BY <1>1, <1>6, <1>7, DelTick

\* A tick dies.
LEMMA MuereBien ==
  ASSUME BInv, NEW d \in Ticks, Muere(d)
  PROVE  BInv' /\ Creciente
<1>1. /\ mundo' = mundo /\ panel' = panel /\ items' = items /\ calculado' = calculado
      /\ cruzados' = cruzados /\ tocados' = tocados /\ enviado' = enviado
      /\ tick[d].en # "no" /\ Falla /\ tick' = [tick EXCEPT ![d] = Parado]
      /\ perdidos' \in {perdidos, perdidos \cup {EnMano(d).sid}}
  BY DEF Muere
<1>2. EnMano(d).sid \in Sids
  BY <1>1, EnManoBien
<1>3. perdidos' \subseteq Sids
  BY <1>1, <1>2 DEF BInv, DeLaHistoria
<1>4. DeLaTabla' /\ DeLaHistoria'
  BY <1>1, <1>3, CotasBien DEF BInv, DeLaTabla, DeLaHistoria
<1> QED
  BY <1>1, <1>4, ParadoBien, DelTick

\* A step of the panel, or of nobody: the ticks stay where they are.
LEMMA DeFuera ==
  ASSUME BInv, tick' = tick, DelMundo', tz' = tz, ahora <= ahora', DeLaTabla', DeLaHistoria',
         \A s \in Sids : items[s].est # "nuevo" => items'[s].est # "nuevo",
         panel' = panel \/ DelPanel'
  PROVE  BInv' /\ Creciente
<1>1. ahora \in Inicio..Fin /\ ahora' \in Inicio..Fin
  BY DEF BInv, DelMundo
<1>2. Creciente
  BY <1>1 DEF Creciente
<1>3. DeLosTicks' /\ DelPanel'
  BY <1>2, TicksQuedan, PanelQueda DEF BInv
<1> QED
  BY <1>2, <1>3 DEF BInv

\* Clock, switch and zone stay as they are.
LEMMA MundoQueda ==
  ASSUME BInv, mundo' = mundo
  PROVE  DelMundo' /\ tz' = tz /\ ahora' = ahora /\ ahora <= ahora'
<1>1. ahora' = ahora /\ tz' = tz /\ activos' = activos /\ ahora \in Nat
  BY LosInstantes DEF BInv, DelMundo, mundo
<1> QED
  BY <1>1 DEF BInv, DelMundo

\* The panel creates a schedule.
LEMMA crearBien ==
  ASSUME BInv, NEW s \in Sids, NEW p \in Plantillas, crear(s, p)
  PROVE  BInv' /\ Creciente
<1> DEFINE c == Campos(p, "si", TRUE)
<1>1. /\ mundo' = mundo /\ tick' = tick /\ panel' = panel /\ enviado' = enviado
      /\ cruzados' = cruzados /\ perdidos' = perdidos /\ tocados' = tocados
      /\ items' = [items EXCEPT ![s] = c] /\ calculado' = [calculado EXCEPT ![s] = ahora]
      /\ quedan.creaciones > 0 /\ quedan' = [quedan EXCEPT !.creaciones = @ - 1]
  BY DEF crear
<1>2. c \in Item /\ Sano(c) /\ c.est = "si"
  <2>1. p \in Peticion
    BY SchedulesAssumption DEF Plantilla, Peticion
  <2>2. Vale(p)
    BY DEF crear
  <2> QED
    BY <2>1, <2>2, FormularioBien DEF BInv
<1>3. quedan' \in [creaciones : Nat, fallos : Nat, cambios : Nat, aLaVez : Nat]
  BY <1>1 DEF BInv, DeLaHistoria
<1>4. calculado' \in [Sids -> Nat]
  BY <1>1, LosInstantes DEF BInv, DeLaHistoria, DelMundo
<1>5. DeLaTabla' /\ \A r \in Sids : items[r].est # "nuevo" => items'[r].est # "nuevo"
  <2> HIDE DEF c
  <2> QED
    BY <1>1, <1>2, ItemPone DEF BInv
<1>6. DeLaHistoria'
  BY <1>1, <1>3, <1>4 DEF BInv, DeLaHistoria
<1> QED
  BY <1>1, <1>5, <1>6, MundoQueda, DeFuera

\* The requests of the panel that are still to be written.
LEMMA PideBien ==
  ASSUME BInv, mundo' = mundo, items' = items, tick' = tick, enviado' = enviado,
         calculado' = calculado, cruzados' = cruzados, perdidos' = perdidos, Cambia,
         NEW s \in Sids, tocados' = tocados \cup {s},
         NEW r \in Pedido, Formulario(r, ahora, items, tz), panel' = <<r>>
  PROVE  BInv' /\ Creciente
<1>1. DelMundo' /\ tz' = tz /\ ahora' = ahora /\ ahora <= ahora'
  BY MundoQueda
<1>2. DeLaTabla'
  BY DEF BInv, DeLaTabla
<1>3. DeLaHistoria'
  BY CotasBien DEF BInv, DeLaHistoria
<1>4. DelPanel'
  <2>1. Formulario(r, ahora', items', tz')
    BY <1>1
  <2> QED
    BY <2>1 DEF DelPanel
<1> QED
  BY <1>1, <1>2, <1>3, <1>4, DeFuera

\* The panel reads a schedule in order to edit it.
LEMMA PideUpdateBien ==
  ASSUME BInv, NEW s \in Sids, NEW activa \in SUBSET BOOLEAN,
         NEW p \in Plantillas \cup {Heredado(items[s])}, PideUpdate(s, p, activa)
  PROVE  BInv' /\ Creciente
<1> DEFINE c == Campos(p, "si", TRUE \in activa)
           r == [sid |-> s, leido |-> items[s], desde |-> ahora, todo |-> TRUE, campos |-> c,
                 activa |-> activa]
<1>1. /\ panel' = <<r>> /\ tocados' = tocados \cup {s} /\ mundo' = mundo /\ items' = items
      /\ tick' = tick /\ enviado' = enviado /\ calculado' = calculado /\ cruzados' = cruzados
      /\ perdidos' = perdidos /\ Cambia /\ Vale(p) /\ Existe(s)
  BY DEF PideUpdate
<1>2. items[s] \in Item /\ Sano(items[s]) /\ ahora \in Nat /\ ahora \in Inicio..ahora
  BY LosInstantes DEF BInv, DeLaTabla, DelMundo
<1>3. p \in Peticion
  <2>1. CASE p \in Plantillas
    BY <2>1, SchedulesAssumption DEF Plantilla, Peticion
  <2>2. CASE p = Heredado(items[s])
    BY <1>2, <2>2, CamposDe DEF Heredado, Peticion
  <2> QED
    BY <2>1, <2>2
<1>4. c \in Item /\ Sano(c) /\ c.est = "si" /\ c.next_run > ahora /\ Calculado(c, tz, ahora)
  <2>1. (TRUE \in activa) \in BOOLEAN
    OBVIOUS
  <2>2. DelMundo /\ Vale(p)
    BY <1>1 DEF BInv
  <2> DEFINE b == TRUE \in activa
  <2> HIDE DEF b
  <2> QED
    BY <1>3, <2>1, <2>2, FormularioBien DEF b
<1>5. /\ r.sid = s /\ r.leido = items[s] /\ r.desde = ahora /\ r.todo /\ r.campos = c
      /\ r \in Pedido
  <2> HIDE DEF c
  <2> QED
    BY <1>2, <1>4 DEF Pedido
<1>6. items[s].est # "nuevo"
  BY <1>1 DEF Existe
<1> HIDE DEF c, r
<1>7. Formulario(r, ahora, items, tz)
  BY <1>2, <1>4, <1>5, <1>6 DEF Formulario
<1> QED
  BY <1>1, <1>5, <1>7, PideBien

\* The panel reads a schedule in order to enable it.
LEMMA PideActivarBien ==
  ASSUME BInv, NEW s \in Sids, PideActivar(s)
  PROVE  BInv' /\ Creciente
<1> DEFINE it == items[s]
           nr == proximo_run(it.type, it.at, it.days, tz, ahora)
           c == [it EXCEPT !.enabled = TRUE, !.next_run = IF nr = SinRun THEN it.next_run ELSE nr]
           r == [sid |-> s, leido |-> it, desde |-> ahora, todo |-> FALSE, campos |-> c,
                 activa |-> {TRUE}]
<1>1. /\ panel' = <<r>> /\ tocados' = tocados \cup {s} /\ mundo' = mundo /\ items' = items
      /\ tick' = tick /\ enviado' = enviado /\ calculado' = calculado /\ cruzados' = cruzados
      /\ perdidos' = perdidos /\ Cambia /\ it.est # "nuevo" /\ (Existe(s) => Reactivable(it))
  BY DEF PideActivar
<1>2. /\ it \in Item /\ Sano(it) /\ ahora \in Nat /\ ahora \in Inicio..ahora
      /\ ahora \in Inicio..Fin /\ tz \in Zonas
  BY LosInstantes DEF BInv, DeLaTabla, DelMundo
<1>3. /\ nr \in {SinRun} \cup Instantes /\ (it.type # Once => nr # SinRun)
  <2> HIDE DEF it
  <2> QED
    BY <1>2, ProximoDe
<1>4. it.est \in {"nuevo", "si", "borrado", "fantasma"} /\ it.next_run \in {SinRun} \cup Instantes
  BY <1>2, CamposDe
<1>5. c \in Item /\ (it.type # Once => c.next_run = nr)
  <2> HIDE DEF it, nr
  <2>1. (IF nr = SinRun THEN it.next_run ELSE nr) \in {SinRun} \cup Instantes
    BY <1>3, <1>4
  <2>2. c \in Item /\ c.next_run = IF nr = SinRun THEN it.next_run ELSE nr
    BY <1>2, <2>1 DEF Item
  <2> QED
    BY <1>3, <2>2
<1>6. it.type = Once => it.next_run = SinRun \/ it.next_run > ahora
  <2>1. CASE it.est \in {"si", "fantasma"}
    BY <1>1, <2>1 DEF Existe, Reactivable
  <2>2. CASE it.est = "borrado"
    <3>1. it = Falta("borrado")
      BY <1>2, <2>2 DEF Sano
    <3> QED
      BY <3>1, FaltaTipo
  <2> QED
    BY <1>1, <1>4, <2>1, <2>2
<1>7. /\ r.sid = s /\ r.leido = it /\ r.desde = ahora /\ ~r.todo /\ r.campos = c
      /\ r \in Pedido
  <2> HIDE DEF c, it
  <2> QED
    BY <1>2, <1>5 DEF Pedido
<1> HIDE DEF c, r, nr
<1>8. Formulario(r, ahora, items, tz)
  BY <1>1, <1>2, <1>5, <1>6, <1>7 DEF Formulario, nr
<1> QED
  BY <1>1, <1>7, <1>8, PideBien

\* Whether an edited schedule is left active: what the body says, or what it was.
LEMMA ActivoEs ==
  ASSUME NEW r \in Pedido, NEW hoy \in Item
  PROVE  Activo(r, hoy) \in BOOLEAN
<1>1. hoy.enabled \in BOOLEAN
  BY CamposDe
<1>2. CASE r.activa = {}
  BY <1>1, <1>2 DEF Activo
<1>3. CASE r.activa # {}
  <2>1. Activo(r, hoy) = (TRUE \in r.activa)
    BY <1>3, Zenon DEF Activo
  <2>2. (TRUE \in r.activa) \in BOOLEAN
    OBVIOUS
  <2> QED
    BY <2>1, <2>2
<1> QED
  BY <1>2, <1>3

\* What the write of the panel leaves in the table.
LEMMA EscritoEs ==
  ASSUME BInv, NEW r \in Pedido, panel = <<r>>, Formulario(r, ahora, items, tz)
  PROVE  /\ r.sid \in Sids /\ r.desde \in Nat
         /\ r.todo => Escrito(r) = Renueva(r.campos, Activo(r, items[r.sid]), r.campos.next_run)
         /\ ~r.todo => Escrito(r) = Renueva(items[r.sid], TRUE,
                                            IF r.leido.type = Once THEN items[r.sid].next_run
                                            ELSE r.campos.next_run)
<1>1. /\ r.sid \in Sids /\ r.desde \in Nat /\ r.campos \in Item
      /\ items[r.sid].enabled \in BOOLEAN /\ r.activa \in SUBSET BOOLEAN
  BY CamposDe DEF Pedido, BInv, DeLaTabla
<1>2. CASE r.todo
  <2>1. Escrito(r) = [r.campos EXCEPT !.enabled = Activo(r, items[r.sid])]
    BY <1>2 DEF Escrito
  <2>2. Activo(r, items[r.sid]) \in BOOLEAN
    BY ActivoEs DEF BInv, DeLaTabla, Pedido
  <2> QED
    BY <1>1, <1>2, <2>1, <2>2, Escribirlo
<1>3. CASE ~r.todo
  BY <1>1, <1>3 DEF Escrito, Renueva
<1> QED
  BY <1>1, <1>2, <1>3

\* The panel writes what it read and worked out.
LEMMA EscribeBien ==
  ASSUME BInv, Escribe
  PROVE  BInv' /\ Creciente
<1>1. panel # SinPedido /\ panel' = SinPedido /\ mundo' = mundo /\ tick' = tick /\ enviado' = enviado
      /\ perdidos' = perdidos /\ quedan' = quedan
  BY DEF Escribe
<1>2. PICK r \in Pedido : panel = <<r>> /\ Formulario(r, ahora, items, tz)
  BY <1>1 DEF BInv, DelPanel
<1>3. /\ actualizar(r.sid, r.leido, Escrito(r), r.desde)
      /\ tocados' \in {tocados, tocados \ {r.sid}}
  <2>1. Head(panel) = r
    BY <1>2
  <2> QED
    BY <2>1 DEF Escribe
<1>4. /\ r.sid \in Sids /\ r.desde \in Nat /\ r.campos \in Item /\ r.leido \in Item
      /\ items[r.sid] \in Item /\ Sano(items[r.sid]) /\ items[r.sid].est # "nuevo"
  BY <1>2 DEF Pedido, Formulario, BInv, DeLaTabla
<1>5. \E h \in Item, b \in BOOLEAN, n \in {SinRun} \cup Instantes :
        Sano(h) /\ h.est # "nuevo" /\ Escrito(r) = Renueva(h, b, n)
  <2>1. CASE r.todo
    <3>1. Sano(r.campos) /\ r.campos.est = "si" /\ r.campos.next_run \in {SinRun} \cup Instantes
      BY <1>2, <1>4, <2>1, CamposDe DEF Formulario
    <3>2. Activo(r, items[r.sid]) \in BOOLEAN
      BY <1>4, ActivoEs
    <3> QED
      BY <1>2, <1>4, <2>1, <3>1, <3>2, EscritoEs
  <2>2. CASE ~r.todo
    <3>1. (IF r.leido.type = Once THEN items[r.sid].next_run ELSE r.campos.next_run)
            \in {SinRun} \cup Instantes
      BY <1>4, CamposDe
    <3> QED
      BY <1>2, <1>4, <2>2, <3>1, EscritoEs
  <2> QED
    BY <2>1, <2>2
<1>6. /\ DeLaTabla' /\ calculado' \in [Sids -> Nat] /\ cruzados' \subseteq Sids
      /\ \A x \in Sids : items[x].est # "nuevo" => items'[x].est # "nuevo"
  BY <1>3, <1>4, <1>5, ActualizarBien DEF BInv
<1>7. DeLaHistoria'
  BY <1>1, <1>3, <1>6 DEF BInv, DeLaHistoria
<1>8. DelPanel'
  BY <1>1 DEF DelPanel
<1> QED
  BY <1>1, <1>6, <1>7, <1>8, MundoQueda, DeFuera

\* The panel disables a schedule, also one that is gone.
LEMMA DesactivaBien ==
  ASSUME BInv, NEW s \in Sids, Desactiva(s)
  PROVE  BInv' /\ Creciente
<1>1. /\ mundo' = mundo /\ tick' = tick /\ panel' = panel /\ enviado' = enviado
      /\ perdidos' = perdidos /\ tocados' = tocados \cup {s} /\ Cambia
      /\ items[s].est # "nuevo"
      /\ actualizar(s, items[s], [items[s] EXCEPT !.enabled = FALSE], calculado[s])
  BY DEF Desactiva
<1>2. /\ items[s] \in Item /\ Sano(items[s]) /\ calculado[s] \in Nat
      /\ items[s].next_run \in {SinRun} \cup Instantes
  BY CamposDe DEF BInv, DeLaTabla, DeLaHistoria
<1>3. actualizar(s, items[s], Renueva(items[s], FALSE, items[s].next_run), calculado[s])
  <2>1. [items[s] EXCEPT !.enabled = FALSE] = Renueva(items[s], FALSE, items[s].next_run)
    BY <1>2, Escribirlo
  <2> QED
    BY <1>1, <2>1
<1>4. /\ DeLaTabla' /\ calculado' \in [Sids -> Nat] /\ cruzados' \subseteq Sids
      /\ \A x \in Sids : items[x].est # "nuevo" => items'[x].est # "nuevo"
  BY <1>1, <1>2, <1>3, ActualizarBien DEF BInv
<1>5. DeLaHistoria'
  BY <1>1, <1>4, CotasBien DEF BInv, DeLaHistoria
<1> QED
  BY <1>1, <1>4, <1>5, MundoQueda, DeFuera

\* The panel deletes a schedule.
LEMMA borrarBien ==
  ASSUME BInv, NEW s \in Sids, borrar(s)
  PROVE  BInv' /\ Creciente
<1>1. /\ mundo' = mundo /\ tick' = tick /\ panel' = panel /\ enviado' = enviado
      /\ perdidos' = perdidos /\ tocados' = tocados \cup {s} /\ Cambia
      /\ calculado' = calculado /\ cruzados' = cruzados
      /\ items' = [items EXCEPT ![s] = Falta("borrado")]
  BY DEF borrar
<1>2. /\ DeLaTabla' /\ \A x \in Sids : items[x].est # "nuevo" => items'[x].est # "nuevo"
  <2>1. Falta("borrado") \in Item /\ Sano(Falta("borrado")) /\ Falta("borrado").est = "borrado"
    BY FaltaTipo
  <2> QED
    BY <1>1, <2>1, ItemPone DEF BInv
<1>3. DeLaHistoria'
  BY <1>1, CotasBien DEF BInv, DeLaHistoria
<1> QED
  BY <1>1, <1>2, <1>3, MundoQueda, DeFuera

\* The master switch.
LEMMA ConmutaBien ==
  ASSUME BInv, Conmuta
  PROVE  BInv' /\ Creciente
<1>1. /\ activos' = ~activos /\ ahora' = ahora /\ tz' = tz /\ items' = items /\ tick' = tick
      /\ panel' = panel /\ enviado' = enviado /\ historia' = historia /\ Cambia
  BY DEF Conmuta
<1>2. DelMundo' /\ ahora <= ahora'
  BY <1>1, LosInstantes DEF BInv, DelMundo
<1>3. DeLaTabla' /\ DeLaHistoria'
  BY <1>1, CotasBien DEF BInv, DeLaTabla, DeLaHistoria, historia
<1> QED
  BY <1>1, <1>2, <1>3, DeFuera

\* The clock.
LEMMA PasaBien ==
  ASSUME BInv, Pasa
  PROVE  BInv' /\ Creciente
<1>1. /\ activos' = activos /\ ahora' = ahora + 1 /\ ahora < Fin /\ tz' = tz /\ items' = items
      /\ tick' = tick /\ panel' = panel /\ enviado' = enviado /\ historia' = historia
      /\ quedan' = quedan
  BY DEF Pasa
<1>2. DelMundo' /\ ahora <= ahora'
  <2>1. ahora \in Nat /\ Inicio <= ahora /\ Inicio \in Nat /\ Fin \in Nat
    BY LosInstantes DEF BInv, DelMundo
  <2>2. ahora' \in Inicio..Fin /\ ahora <= ahora'
    BY <1>1, <2>1
  <2> QED
    BY <1>1, <2>2 DEF BInv, DelMundo
<1>3. DeLaTabla' /\ DeLaHistoria'
  BY <1>1 DEF BInv, DeLaTabla, DeLaHistoria, historia
<1> QED
  BY <1>1, <1>2, <1>3, DeFuera

\* The steps, one by one.
LEMMA LosPasos ==
  ASSUME NEW A, Next,
         \A d \in Ticks : /\ (Empieza(d) => A) /\ (LeeConfig(d) => A) /\ (Avanza(d) => A)
                          /\ (Envia(d) => A) /\ (Muere(d) => A),
         \A s \in Sids : /\ \A p \in Plantillas : crear(s, p) => A
                         /\ \A activa \in SUBSET BOOLEAN : \A p \in Plantillas \cup {Heredado(items[s])} :
                              PideUpdate(s, p, activa) => A
                         /\ (PideActivar(s) => A) /\ (Desactiva(s) => A) /\ (borrar(s) => A),
         Escribe => A, Conmuta => A, Pasa => A
  PROVE  A
<1>1. CASE \E d \in Ticks : TickPaso(d) \/ Muere(d)
  BY <1>1 DEF TickPaso
<1>2. CASE Panel
  BY <1>2 DEF Panel
<1> QED
  BY <1>1, <1>2 DEF Next

\* The parts are in order at the beginning.
LEMMA BInvInicio == Init => BInv
<1> SUFFICES ASSUME Init PROVE BInv
  OBVIOUS
<1>1. DelMundo
  <2>1. Inicio \in Inicio..Fin
    BY SchedulesAssumption, LosInstantes
  <2> QED
    BY <2>1 DEF Init, DelMundo
<1>2. DeLaTabla
  BY FaltaTipo DEF Init, DeLaTabla
<1>3. DeLosTicks
  <2>1. tick \in [Ticks -> Marcha] /\ \A d \in Ticks : tick[d] = Parado
    BY ParadoBien DEF Init
  <2> QED
    BY <2>1, ParadoBien DEF DeLosTicks
<1>4. DelPanel
  BY DEF Init, DelPanel
<1>5. DeLaHistoria
  <2>1. quedan \in [creaciones : Nat, fallos : Nat, cambios : Nat, aLaVez : Nat]
    BY SchedulesAssumption DEF Init
  <2> QED
    BY <2>1 DEF Init, DeLaHistoria
<1> QED
  BY <1>1, <1>2, <1>3, <1>4, <1>5 DEF BInv

\* Every step keeps the parts in order, and goes forward.
LEMMA BInvPaso ==
  ASSUME BInv, [Next]_vars
  PROVE  BInv' /\ Creciente
<1>1. CASE Next
  BY <1>1, LosPasos, EmpiezaBien, LeeConfigBien, AvanzaBien, EnviaBien, MuereBien, crearBien,
     PideUpdateBien, PideActivarBien, DesactivaBien, borrarBien, EscribeBien, ConmutaBien,
     PasaBien
<1>2. CASE UNCHANGED vars
  <2>1. /\ mundo' = mundo /\ items' = items /\ tick' = tick /\ panel' = panel
        /\ enviado' = enviado /\ historia' = historia /\ quedan' = quedan
    BY <1>2 DEF vars, mundo, historia
  <2>2. DeLaTabla' /\ DeLaHistoria'
    BY <2>1 DEF BInv, DeLaTabla, DeLaHistoria, historia
  <2> QED
    BY <2>1, <2>2, MundoQueda, DeFuera
<1> QED
  BY <1>1, <1>2

\* Types, and what the parts hold at each point.
THEOREM Partes == Spec => []BInv
<1>1. BInv /\ [Next]_vars => BInv'
  BY BInvPaso
<1> QED
  BY BInvInicio, <1>1, PTL DEF Spec

\* Every variable of the scheduled messages keeps its type.
THEOREM TiposSchedules == Spec => []TypeOK
<1>1. BInv => TypeOK
  <2> SUFFICES ASSUME BInv PROVE TypeOK
    OBVIOUS
  <2>1. /\ ahora \in Inicio..Fin /\ activos \in BOOLEAN /\ tz \in Zonas
        /\ items \in [Sids -> Item]
    BY DEF BInv, DelMundo, DeLaTabla
  <2>2. /\ tick \in [Ticks -> [en : {"no", "config", "avanza", "envia"},
                         pend : Seq([sid : Sids, item : Item]), activos : BOOLEAN,
                         ahora : Nat]]
        /\ \A d \in Ticks : tick[d].en # "no" => tick[d].pend # <<>>
    BY DEF BInv, DeLosTicks, Marcha, EnRegla
  <2>3. /\ panel \in Seq([sid : Sids, leido : Item, desde : Nat, todo : BOOLEAN, campos : Item,
                          activa : SUBSET BOOLEAN])
        /\ Len(panel) <= 1
    <3>1. CASE panel = SinPedido
      BY <3>1 DEF SinPedido
    <3>2. CASE \E r \in Pedido : panel = <<r>>
      BY <3>2 DEF Pedido
    <3> QED
      BY <3>1, <3>2 DEF BInv, DelPanel
  <2>4. DeLaHistoria
    BY DEF BInv
  <2> QED
    BY <2>1, <2>2, <2>3, <2>4 DEF TypeOK, DeLaHistoria
<1> QED
  BY Partes, <1>1, PTL
-----------------------------------------------------------------------------
(* Each step keeps the order.                                              *)

\* Time goes on: what was in order stays so.
LEMMA OrdenSigue ==
  ASSUME NEW it, NEW c \in Nat, NEW e, NEW t \in Nat, NEW u \in Nat, t <= u, NEW z,
         Ordenado(it, c, e, t, z)
  PROVE  Ordenado(it, c, e, u, z)
<1>1. c <= u
  BY DEF Ordenado
<1> QED
  BY <1>1 DEF Ordenado

\* The hour of the schedule that a tick has in hand.
LEMMA HoraBien ==
  ASSUME BInv, NEW d \in Ticks, tick[d].en # "no"
  PROVE  /\ HoraDe(tick[d]) = EnMano(d).item.next_run /\ HoraDe(tick[d]) \in Instantes
         /\ HoraDe(tick[d]) \in Nat /\ HoraDe(tick[d]) > 0
         /\ HoraDe(tick[d]) <= tick[d].ahora /\ EnMano(d).item.enabled
<1>1. HoraDe(tick[d]) = EnMano(d).item.next_run
  BY DEF HoraDe, EnMano
<1>2. /\ EnMano(d).item.next_run \in {SinRun} \cup Instantes /\ EnMano(d).item.next_run \in Nat
      /\ Vence(EnMano(d).item, tick[d].ahora)
  BY EnManoBien, CamposDe
<1> QED
  BY <1>1, <1>2, LosInstantes DEF Vence

\* What has not changed for a schedule stays in order.
LEMMA OrdenQueda ==
  ASSUME BInv, BInv', Creciente, NEW s \in Sids, items'[s] = items[s],
         calculado'[s] = calculado[s], enviado'[s] = enviado[s],
         Ordenado(items[s], calculado[s], enviado[s], ahora, tz)
  PROVE  Ordenado(items'[s], calculado'[s], enviado'[s], ahora', tz')
<1>1. /\ calculado[s] \in Nat /\ ahora \in Nat /\ ahora' \in Nat /\ ahora <= ahora'
      /\ tz' = tz
  BY LosInstantes DEF BInv, DeLaHistoria, Creciente
<1> QED
  BY <1>1, OrdenSigue

\* The ticks about to send a schedule still are the only ones, if nobody joins them.
LEMMA AdelantadoSigue ==
  ASSUME BInv, BInv', NEW s \in Sids, Adelantado(s), calculado[s] <= calculado'[s],
         \A d \in Ticks : EnviaDe(tick'[d], s) =>
           /\ tick'[d] = tick[d]
           /\ enviado'[s][HoraDe(tick[d])] = enviado[s][HoraDe(tick[d])]
  PROVE  Adelantado(s)'
<1>1. calculado[s] \in Nat /\ calculado'[s] \in Nat
  BY DEF BInv, DeLaHistoria
<1>2. ASSUME NEW d \in Ticks, EnviaDe(tick'[d], s)
      PROVE  /\ HoraDe(tick'[d]) <= calculado'[s] /\ enviado'[s][HoraDe(tick'[d])] = 0
             /\ \A e \in Ticks \ {d} : EnviaDe(tick'[e], s) => HoraDe(tick'[e]) # HoraDe(tick'[d])
  <2>1. tick'[d] = tick[d] /\ EnviaDe(tick[d], s)
    BY <1>2
  <2>2. /\ HoraDe(tick[d]) <= calculado[s] /\ enviado[s][HoraDe(tick[d])] = 0
        /\ \A e \in Ticks \ {d} : EnviaDe(tick[e], s) => HoraDe(tick[e]) # HoraDe(tick[d])
    BY <2>1 DEF Adelantado
  <2>3. tick[d].en # "no"
    BY <2>1 DEF EnviaDe
  <2>4. HoraDe(tick[d]) \in Nat
    BY <2>3, HoraBien
  <2>5. HoraDe(tick'[d]) <= calculado'[s]
    BY <1>1, <2>1, <2>2, <2>4
  <2>6. enviado'[s][HoraDe(tick'[d])] = 0
    BY <1>2, <2>1, <2>2
  <2>7. \A e \in Ticks \ {d} : EnviaDe(tick'[e], s) => HoraDe(tick'[e]) # HoraDe(tick'[d])
    BY <2>1, <2>2
  <2> QED
    BY <2>5, <2>6, <2>7
<1> QED
  BY <1>2 DEF Adelantado

\* What a request read is still as old as it was, if nobody writes that item.
LEMMA VigentesQuedan ==
  ASSUME OInv, panel' = panel, cruzados \subseteq cruzados',
         \A r \in Pedido : panel = <<r>> /\ r.sid \notin cruzados' =>
           \/ items'[r.sid] = items[r.sid] /\ calculado'[r.sid] = calculado[r.sid]
           \/ Vigente(r, items'[r.sid], calculado'[r.sid])
  PROVE  Vigentes'
<1>1. ASSUME NEW r \in Pedido, panel' = <<r>>, r.sid \notin cruzados'
      PROVE  Vigente(r, items'[r.sid], calculado'[r.sid])
  <2>1. Vigente(r, items[r.sid], calculado[r.sid])
    BY <1>1 DEF OInv, Vigentes
  <2> QED
    BY <1>1, <2>1
<1> QED
  BY <1>1 DEF Vigentes

\* Nothing is written and no tick starts to send.
LEMMA QuietoEnOrden ==
  ASSUME BInv, BInv', Creciente, OInv, items' = items, calculado' = calculado,
         enviado' = enviado, cruzados' = cruzados,
         \A d \in Ticks : tick'[d] = tick[d] \/ tick'[d].en # "envia",
         panel' = panel \/ Vigentes'
  PROVE  OInv'
<1>1. ASSUME NEW s \in Sids \ cruzados'
      PROVE  Ordenado(items'[s], calculado'[s], enviado'[s], ahora', tz') /\ Adelantado(s)'
  <2>1. Ordenado(items[s], calculado[s], enviado[s], ahora, tz) /\ Adelantado(s)
    BY DEF OInv
  <2>2. \A d \in Ticks : EnviaDe(tick'[d], s) => tick'[d] = tick[d]
    BY DEF EnviaDe
  <2>3. calculado[s] <= calculado'[s]
    BY DEF BInv, DeLaHistoria
  <2> QED
    BY <2>1, <2>2, <2>3, OrdenQueda, AdelantadoSigue
<1>2. Vigentes'
  BY VigentesQuedan
<1> QED
  BY <1>1, <1>2 DEF OInv

\* One item is written: only it has to be looked at.
LEMMA UnoEnOrden ==
  ASSUME BInv, BInv', Creciente, OInv, NEW s \in Sids, enviado' = enviado,
         \A x \in Sids \ {s} : items'[x] = items[x] /\ calculado'[x] = calculado[x],
         cruzados \subseteq cruzados', cruzados' \subseteq cruzados \cup {s},
         s \notin cruzados' =>
           /\ Ordenado(items'[s], calculado'[s], enviado[s], ahora', tz')
           /\ Adelantado(s)',
         \A d \in Ticks : tick'[d] = tick[d] \/ tick'[d].en # "envia"
                          \/ Head(tick'[d].pend).sid = s,
         Vigentes'
  PROVE  OInv'
<1>1. ASSUME NEW x \in Sids \ cruzados', x # s
      PROVE  Ordenado(items'[x], calculado'[x], enviado'[x], ahora', tz') /\ Adelantado(x)'
  <2>1. Ordenado(items[x], calculado[x], enviado[x], ahora, tz) /\ Adelantado(x)
    BY DEF OInv
  <2>2. \A d \in Ticks : EnviaDe(tick'[d], x) => tick'[d] = tick[d]
    BY <1>1 DEF EnviaDe
  <2>3. calculado'[x] = calculado[x] /\ items'[x] = items[x]
    BY <1>1
  <2>4. calculado[x] <= calculado'[x]
    BY <2>3 DEF BInv, DeLaHistoria
  <2> QED
    BY <2>1, <2>2, <2>3, <2>4, OrdenQueda, AdelantadoSigue
<1> QED
  BY <1>1 DEF OInv

\* A move to the next schedule does not start to send.
LEMMA SigueQuieto ==
  ASSUME BInv, NEW d \in Ticks, tick[d].en # "no", Sigue(d)
  PROVE  /\ tick'[d].en # "envia"
         /\ \A e \in Ticks : tick'[e] = tick[e] \/ tick'[e].en # "envia"
         /\ \A e \in Ticks \ {d} : tick'[e] = tick[e]
<1>1. PICK r \in Marcha : tick' = [tick EXCEPT ![d] = r] /\ r.en \in {"no", "avanza"}
  BY SigueBien
<1>2. tick \in [Ticks -> Marcha]
  BY DEF BInv, DeLosTicks
<1>3. tick'[d] = r /\ \A e \in Ticks \ {d} : tick'[e] = tick[e]
  BY <1>1, <1>2
<1> QED
  BY <1>1, <1>3

\* A tick that starts, reads the configuration or dies writes nothing.
LEMMA TicksEnOrden ==
  ASSUME BInv, BInv', Creciente, OInv, NEW d \in Ticks, Empieza(d) \/ LeeConfig(d) \/ Muere(d)
  PROVE  OInv'
<1>1. /\ items' = items /\ calculado' = calculado /\ enviado' = enviado /\ cruzados' = cruzados
      /\ panel' = panel
  BY DEF Empieza, LeeConfig, Muere, historia
<1>2. \E r : tick' = [tick EXCEPT ![d] = r] /\ r.en # "envia"
  <2>1. CASE Empieza(d)
    BY <2>1 DEF Empieza
  <2>2. CASE LeeConfig(d)
    BY <2>2, ParadoBien DEF LeeConfig, Punto
  <2>3. CASE Muere(d)
    BY <2>3, ParadoBien DEF Muere
  <2> QED
    BY <2>1, <2>2, <2>3
<1>3. \A e \in Ticks : tick'[e] = tick[e] \/ tick'[e].en # "envia"
  BY <1>2 DEF BInv, DeLosTicks
<1> QED
  BY <1>1, <1>3, QuietoEnOrden

\* Advancing: if the item is as the tick read it, its next run was after everything
\* sent, and goes now beyond the tick's instant.
LEMMA AvanzaEnOrden ==
  ASSUME BInv, BInv', Creciente, OInv, NEW d \in Ticks, Avanza(d)
  PROVE  OInv'
<1> DEFINE it == EnMano(d).item
           t == tick[d].ahora
           n == HoraDe(tick[d])
<1>0. PICK s \in Sids : s = EnMano(d).sid
  <2>1. tick[d].en # "no"
    BY DEF Avanza
  <2> QED
    BY <2>1, EnManoBien
<1>1. /\ panel' = panel /\ enviado' = enviado /\ tick[d].en # "no" /\ ahora' = ahora /\ tz' = tz
  BY DEF Avanza, mundo
<1>2. CASE items' = items /\ calculado' = calculado /\ cruzados' = cruzados /\ Sigue(d)
  BY <1>1, <1>2, SigueQuieto, QuietoEnOrden
<1>3. CASE /\ actualizar(s, it, Avance(d), t)
           /\ Sigue(d) \/ tick' = [tick EXCEPT ![d] = Punto("envia", tick[d].pend, TRUE, d)]
  <2>1. /\ s \in Sids /\ items[s] \in Item /\ Sano(items[s]) /\ items[s].est # "nuevo"
        /\ t \in Nat /\ t \in Inicio..Fin /\ ahora \in Nat /\ t <= ahora /\ it \in Item
        /\ Vence(it, t) /\ Sano(it)
    BY <1>0, <1>1, EnManoBien
  <2>2. n = it.next_run /\ n \in Instantes /\ n \in Nat /\ n > 0 /\ n <= t /\ it.enabled
    BY <1>1, HoraBien
  <2>3. PICK b \in BOOLEAN, m \in {SinRun} \cup Instantes :
          /\ Avance(d) = Renueva(items[s], b, m)
          /\ \/ b = FALSE /\ it.type = Once /\ m = items[s].next_run
             \/ /\ it.type # Once /\ m > t /\ m = proximo_run(it.type, it.at, it.days, tz, t)
                /\ b = items[s].enabled
    BY <1>0, <1>1, AvanceEs
  <2> DEFINE a == Actualizado(Renueva(items[s], b, m))
  <2> HIDE DEF it, t, n
  <2>4. /\ items'[s] = a /\ calculado'[s] = t
        /\ \A x \in Sids \ {s} : items'[x] = items[x] /\ calculado'[x] = calculado[x]
        /\ cruzados \subseteq cruzados'
        /\ s \notin cruzados' => items[s] = it /\ s \notin cruzados
    <3>1. actualizar(s, it, Renueva(items[s], b, m), t)
      BY <1>3, <2>3
    <3> QED
      BY <2>1, <3>1, ActualizarBien DEF BInv
  <2>5. cruzados' \subseteq cruzados \cup {s}
    BY <1>3 DEF actualizar
  <2>6. /\ a.enabled = b /\ a.next_run = m /\ a.type = items[s].type /\ a.at = items[s].at
        /\ a.days = items[s].days /\ (a.est = "si" <=> items[s].est = "si")
    <3> HIDE DEF a
    <3> QED
      BY <2>1, Renovado DEF a
  <2> HIDE DEF a
  <2>7. ASSUME s \notin cruzados'
        PROVE  /\ items[s] = it /\ calculado[s] \in Nat /\ n > calculado[s] /\ enviado[s][n] = 0
               /\ Ordenado(items[s], calculado[s], enviado[s], ahora, tz) /\ Adelantado(s)
    <3>1. items[s] = it /\ s \notin cruzados
      BY <2>4, <2>7
    <3>2. Ordenado(items[s], calculado[s], enviado[s], ahora, tz) /\ Adelantado(s)
      BY <2>1, <3>1 DEF OInv
    <3>3. calculado[s] \in Nat /\ enviado[s] \in [Instantes -> 0..2]
      BY <2>1 DEF BInv, DeLaHistoria
    <3>4. n > calculado[s]
      BY <2>2, <3>1, <3>2 DEF Ordenado, SinRun
    <3>5. enviado[s][n] = 0
      <4>1. enviado[s][n] > 0 => n <= calculado[s]
        BY <2>2, <3>2 DEF Ordenado
      <4>2. enviado[s][n] \in 0..2
        BY <2>2, <3>3
      <4> QED
        BY <2>2, <3>3, <3>4, <4>1, <4>2
    <3> QED
      BY <3>1, <3>2, <3>3, <3>4, <3>5
  <2>8. s \notin cruzados' => Ordenado(items'[s], calculado'[s], enviado[s], ahora', tz')
    <3> SUFFICES ASSUME s \notin cruzados' PROVE Ordenado(a, t, enviado[s], ahora, tz)
      BY <1>1, <2>4
    <3>1. \A i \in Instantes : enviado[s][i] <= 1 /\ (enviado[s][i] > 0 => i <= t)
      <4> TAKE i \in Instantes
      <4>1. enviado[s][i] <= 1 /\ (enviado[s][i] > 0 => i <= calculado[s])
        BY <2>7 DEF Ordenado
      <4>2. i \in Nat
        BY LosInstantes
      <4> QED
        BY <2>1, <2>2, <2>7, <4>1, <4>2
    <3>2. a.enabled => a.next_run = SinRun \/ a.next_run > t
      BY <2>3, <2>6
    <3>3. Calculado(a, tz, t)
      BY <2>3, <2>6, <2>7 DEF Calculado
    <3> QED
      BY <2>1, <3>1, <3>2, <3>3 DEF Ordenado
  <2>9. /\ tick \in [Ticks -> Marcha]
        /\ \A e \in Ticks \ {d} : tick'[e] = tick[e]
        /\ tick'[d].en = "envia" => Head(tick'[d].pend).sid = s /\ HoraDe(tick'[d]) = n
    <3>1. tick \in [Ticks -> Marcha]
      BY DEF BInv, DeLosTicks
    <3>2. CASE Sigue(d)
      BY <1>1, <3>1, <3>2, SigueQuieto
    <3>3. CASE tick' = [tick EXCEPT ![d] = Punto("envia", tick[d].pend, TRUE, d)]
      <4>1. tick'[d] = Punto("envia", tick[d].pend, TRUE, d) /\ \A e \in Ticks \ {d} : tick'[e] = tick[e]
        BY <3>1, <3>3
      <4>2. tick'[d].pend = tick[d].pend
        BY <4>1 DEF Punto
      <4> QED
        BY <1>0, <3>1, <4>1, <4>2 DEF n, EnMano, HoraDe
    <3> QED
      BY <1>3, <3>2, <3>3
  <2>10. s \notin cruzados' => Adelantado(s)'
    <3> SUFFICES ASSUME s \notin cruzados' PROVE Adelantado(s)'
      OBVIOUS
    <3>1. ASSUME NEW e \in Ticks \ {d}, EnviaDe(tick'[e], s)
          PROVE  /\ tick'[e] = tick[e] /\ EnviaDe(tick[e], s) /\ HoraDe(tick[e]) \in Nat
                 /\ HoraDe(tick[e]) <= calculado[s] /\ HoraDe(tick[e]) < n
                 /\ enviado[s][HoraDe(tick[e])] = 0
      <4>1. tick'[e] = tick[e] /\ EnviaDe(tick[e], s)
        BY <2>9, <3>1
      <4>2. HoraDe(tick[e]) <= calculado[s] /\ enviado[s][HoraDe(tick[e])] = 0
        BY <2>7, <4>1 DEF Adelantado
      <4>3. tick[e].en # "no"
        BY <4>1 DEF EnviaDe
      <4>4. HoraDe(tick[e]) \in Nat
        BY <4>3, HoraBien
      <4> QED
        BY <2>2, <2>7, <4>1, <4>2, <4>4
    <3>2. ASSUME NEW e \in Ticks, EnviaDe(tick'[e], s)
          PROVE  HoraDe(tick'[e]) <= calculado'[s] /\ enviado'[s][HoraDe(tick'[e])] = 0
      <4>1. CASE e = d
        <5>1. HoraDe(tick'[e]) = n
          BY <2>9, <3>2, <4>1 DEF EnviaDe
        <5> QED
          BY <1>1, <2>2, <2>4, <2>7, <5>1
      <4>2. CASE e # d
        <5>1. /\ tick'[e] = tick[e] /\ HoraDe(tick[e]) \in Nat
              /\ HoraDe(tick[e]) < n /\ enviado[s][HoraDe(tick[e])] = 0
          BY <3>1, <3>2, <4>2
        <5> QED
          BY <1>1, <2>1, <2>2, <2>4, <5>1
      <4> QED
        BY <4>1, <4>2
    <3>3. ASSUME NEW e \in Ticks, NEW f \in Ticks \ {e}, EnviaDe(tick'[e], s), EnviaDe(tick'[f], s)
          PROVE  HoraDe(tick'[f]) # HoraDe(tick'[e])
      <4>1. CASE e = d
        <5>1. HoraDe(tick'[e]) = n /\ HoraDe(tick'[f]) < n /\ HoraDe(tick'[f]) \in Nat
          BY <2>9, <3>1, <3>3, <4>1 DEF EnviaDe
        <5> QED
          BY <2>2, <5>1
      <4>2. CASE f = d
        <5>1. HoraDe(tick'[f]) = n /\ HoraDe(tick'[e]) < n /\ HoraDe(tick'[e]) \in Nat
          BY <2>9, <3>1, <3>3, <4>2 DEF EnviaDe
        <5> QED
          BY <2>2, <5>1
      <4>3. CASE e # d /\ f # d
        <5>1. tick'[e] = tick[e] /\ tick'[f] = tick[f] /\ EnviaDe(tick[e], s) /\ EnviaDe(tick[f], s)
          BY <3>1, <3>3, <4>3
        <5> QED
          BY <2>7, <5>1 DEF Adelantado
      <4> QED
        BY <4>1, <4>2, <4>3
    <3> QED
      BY <3>2, <3>3 DEF Adelantado
  <2>11. Vigentes'
    <3> SUFFICES ASSUME NEW r \in Pedido, panel = <<r>>, r.sid \notin cruzados', r.sid = s
                 PROVE  Vigente(r, a, t)
      <4>1. \A r \in Pedido : r.sid \in Sids
        BY DEF Pedido
      <4> QED
        BY <1>1, <2>4, <4>1, VigentesQuedan
    <3>1. Vigente(r, it, calculado[s]) /\ it.enabled
      BY <2>2, <2>4 DEF OInv, Vigentes
    <3>2. r.leido.enabled /\ n >= r.leido.next_run
      BY <2>2, <3>1 DEF Vigente
    <3>3. r.leido.next_run \in Nat
      BY CamposDe DEF Pedido
    <3>4. a.enabled => a.next_run > r.leido.next_run
      <4>1. m \in Nat
        BY LosInstantes
      <4>2. b => m > t
        BY <2>3
      <4> QED
        BY <2>1, <2>2, <2>6, <3>2, <3>3, <4>1, <4>2
    <3>5. a.enabled => a.next_run >= r.leido.next_run
      <4>1. m \in Nat
        BY LosInstantes
      <4> QED
        BY <2>6, <3>3, <3>4, <4>1
    <3> QED
      BY <3>2, <3>4, <3>5 DEF Vigente
  <2>12. \A e \in Ticks : tick'[e] = tick[e] \/ tick'[e].en # "envia" \/ Head(tick'[e].pend).sid = s
    BY <2>9
  <2> QED
    BY <1>1, <2>1, <2>4, <2>5, <2>8, <2>10, <2>11, <2>12, UnoEnOrden
<1> QED
  BY <1>0, <1>2, <1>3 DEF Avanza

\* Sending: what it advanced was sent by nobody, and the others have other hours.
LEMMA EnviaEnOrden ==
  ASSUME BInv, BInv', Creciente, OInv, NEW d \in Ticks, Envia(d)
  PROVE  OInv'
<1> DEFINE n == EnMano(d).item.next_run
<1>0. PICK s \in Sids : s = EnMano(d).sid
  <2>1. tick[d].en # "no"
    BY DEF Envia
  <2> QED
    BY <2>1, EnManoBien
<1>1. /\ panel' = panel /\ items' = items /\ calculado' = calculado /\ cruzados' = cruzados
      /\ tick[d].en = "envia" /\ Sigue(d)
  BY DEF Envia
<1>2. /\ tick'[d].en # "envia" /\ \A e \in Ticks : tick'[e] = tick[e] \/ tick'[e].en # "envia"
      /\ \A e \in Ticks \ {d} : tick'[e] = tick[e]
  <2>1. tick[d].en # "no"
    BY <1>1
  <2> QED
    BY <1>1, <2>1, SigueQuieto
<1>3. CASE enviado' = enviado
  BY <1>1, <1>2, <1>3, QuietoEnOrden
<1>4. CASE Suma(s, n)
  <2>1. s \in Sids /\ n \in Instantes /\ n = HoraDe(tick[d])
    <3>1. tick[d].en # "no"
      BY <1>1
    <3> QED
      BY <3>1, HoraBien, EnManoBien
  <2> HIDE DEF n
  <2>2. /\ \A x \in Sids \ {s} : enviado'[x] = enviado[x]
        /\ \A t \in Instantes \ {n} : enviado'[s][t] = enviado[s][t]
        /\ enviado'[s][n] = IF enviado[s][n] = 2 THEN 2 ELSE enviado[s][n] + 1
    BY <1>4, <2>1, SumaBien DEF BInv
  <2>3. ASSUME NEW x \in Sids \ cruzados', x # s
        PROVE  Ordenado(items'[x], calculado'[x], enviado'[x], ahora', tz') /\ Adelantado(x)'
    <3>1. Ordenado(items[x], calculado[x], enviado[x], ahora, tz) /\ Adelantado(x)
      BY <1>1 DEF OInv
    <3>2. \A e \in Ticks : EnviaDe(tick'[e], x) => tick'[e] = tick[e]
      BY <1>2 DEF EnviaDe
    <3>3. calculado[x] <= calculado'[x]
      BY <1>1 DEF BInv, DeLaHistoria
    <3>4. enviado'[x] = enviado[x]
      BY <2>2, <2>3
    <3> QED
      BY <1>1, <3>1, <3>2, <3>3, <3>4, OrdenQueda, AdelantadoSigue
  <2>4. ASSUME s \notin cruzados'
        PROVE  Ordenado(items'[s], calculado'[s], enviado'[s], ahora', tz') /\ Adelantado(s)'
    <3>1. Ordenado(items[s], calculado[s], enviado[s], ahora, tz) /\ Adelantado(s)
      BY <1>1, <2>1, <2>4 DEF OInv
    <3>2. EnviaDe(tick[d], s)
      BY <1>0, <1>1 DEF EnviaDe, EnMano
    <3>3. /\ n <= calculado[s] /\ enviado[s][n] = 0
          /\ \A e \in Ticks \ {d} : EnviaDe(tick[e], s) => HoraDe(tick[e]) # n
      BY <2>1, <3>1, <3>2 DEF Adelantado
    <3>4. enviado'[s][n] = 1
      BY <2>2, <3>3
    <3>5. Ordenado(items[s], calculado[s], enviado'[s], ahora, tz)
      <4>1. \A i \in Instantes : enviado'[s][i] <= 1 /\ (enviado'[s][i] > 0 => i <= calculado[s])
        <5> TAKE i \in Instantes
        <5>1. CASE i = n
          BY <3>3, <3>4, <5>1
        <5>2. CASE i # n
          BY <2>2, <3>1, <5>2 DEF Ordenado
        <5> QED
          BY <5>1, <5>2
      <4> QED
        BY <3>1, <4>1 DEF Ordenado
    <3>6. /\ calculado[s] \in Nat /\ ahora \in Nat /\ ahora' \in Nat /\ ahora <= ahora' /\ tz' = tz
      BY <2>1, LosInstantes DEF BInv, DeLaHistoria, Creciente
    <3>7. Ordenado(items'[s], calculado'[s], enviado'[s], ahora', tz')
      BY <1>1, <3>5, <3>6, OrdenSigue
    <3>8. \A e \in Ticks : EnviaDe(tick'[e], s) =>
            /\ tick'[e] = tick[e]
            /\ enviado'[s][HoraDe(tick[e])] = enviado[s][HoraDe(tick[e])]
      <4> SUFFICES ASSUME NEW e \in Ticks, EnviaDe(tick'[e], s)
                   PROVE  /\ tick'[e] = tick[e]
                          /\ enviado'[s][HoraDe(tick[e])] = enviado[s][HoraDe(tick[e])]
        OBVIOUS
      <4>1. e # d /\ tick'[e] = tick[e] /\ EnviaDe(tick[e], s)
        BY <1>2 DEF EnviaDe
      <4>2. HoraDe(tick[e]) # n
        BY <3>3, <4>1
      <4>3. tick[e].en # "no"
        BY <4>1 DEF EnviaDe
      <4>4. HoraDe(tick[e]) \in Instantes
        BY <4>3, HoraBien
      <4> QED
        BY <2>2, <4>1, <4>2, <4>4
    <3>9. calculado[s] <= calculado'[s]
      BY <1>1, <3>6
    <3> QED
      BY <2>1, <3>1, <3>7, <3>8, <3>9, AdelantadoSigue
  <2>5. Vigentes'
    BY <1>1, VigentesQuedan
  <2> QED
    BY <2>3, <2>4, <2>5 DEF OInv
<1> QED
  BY <1>0, <1>3, <1>4 DEF Envia

\* A schedule that is created has never been sent after the present instant.
LEMMA crearEnOrden ==
  ASSUME BInv, BInv', Creciente, OInv, NEW s \in Sids, NEW p \in Plantillas, crear(s, p)
  PROVE  OInv'
<1> DEFINE c == Campos(p, "si", TRUE)
<1>1. /\ tick' = tick /\ panel' = panel /\ enviado' = enviado /\ cruzados' = cruzados
      /\ items' = [items EXCEPT ![s] = c] /\ calculado' = [calculado EXCEPT ![s] = ahora]
      /\ items[s].est = "nuevo" /\ ahora' = ahora /\ tz' = tz /\ Vale(p)
  BY DEF crear, mundo
<1>2. c \in Item /\ c.est = "si" /\ c.next_run > ahora /\ Calculado(c, tz, ahora)
  <2>1. p \in Peticion
    BY SchedulesAssumption DEF Plantilla, Peticion
  <2> QED
    BY <1>1, <2>1, FormularioBien DEF BInv
<1> HIDE DEF c
<1>3. /\ items'[s] = c /\ calculado'[s] = ahora
      /\ \A x \in Sids \ {s} : items'[x] = items[x] /\ calculado'[x] = calculado[x]
  BY <1>1 DEF BInv, DeLaTabla, DeLaHistoria
<1>4. ahora \in Nat /\ calculado[s] \in Nat
  BY LosInstantes DEF BInv, DelMundo, DeLaHistoria
<1>5. ASSUME s \notin cruzados'
      PROVE  /\ Ordenado(items'[s], calculado'[s], enviado[s], ahora', tz') /\ Adelantado(s)'
  <2>1. Ordenado(items[s], calculado[s], enviado[s], ahora, tz) /\ Adelantado(s)
    BY <1>1, <1>5 DEF OInv
  <2>2. calculado[s] <= ahora
    BY <2>1 DEF Ordenado
  <2>3. \A i \in Instantes : enviado[s][i] <= 1 /\ (enviado[s][i] > 0 => i <= ahora)
    <3> TAKE i \in Instantes
    <3>1. i \in Nat /\ enviado[s][i] <= 1 /\ (enviado[s][i] > 0 => i <= calculado[s])
      BY <2>1, LosInstantes DEF Ordenado
    <3> QED
      BY <1>4, <2>2, <3>1
  <2>4. Ordenado(c, ahora, enviado[s], ahora, tz)
    BY <1>2, <1>4, <2>3 DEF Ordenado
  <2>5. Ordenado(items'[s], calculado'[s], enviado[s], ahora', tz')
    BY <1>1, <1>3, <2>4
  <2> QED
    BY <1>1, <1>3, <2>1, <2>2, <2>5, AdelantadoSigue
<1>6. Vigentes'
  <2>1. \A r \in Pedido : panel = <<r>> => r.sid # s /\ r.sid \in Sids
    <3> SUFFICES ASSUME NEW r \in Pedido, panel = <<r>> PROVE r.sid # s /\ r.sid \in Sids
      OBVIOUS
    <3>1. PICK q \in Pedido : panel = <<q>> /\ Formulario(q, ahora, items, tz)
      <4>1. panel # <<>>
        OBVIOUS
      <4> QED
        BY <4>1 DEF BInv, DelPanel, SinPedido
    <3>2. q = r
      BY <3>1
    <3> QED
      BY <1>1, <3>1, <3>2 DEF Formulario, Pedido
  <2> QED
    BY <1>1, <1>3, <2>1, VigentesQuedan
<1> QED
  BY <1>1, <1>3, <1>5, <1>6, UnoEnOrden

\* A request takes note of the item as it is.
LEMMA PideEnOrden ==
  ASSUME BInv, BInv', Creciente, OInv, NEW s \in Sids,
         \/ \E activa \in SUBSET BOOLEAN : \E p \in Plantillas \cup {Heredado(items[s])} :
              PideUpdate(s, p, activa)
         \/ PideActivar(s)
  PROVE  OInv'
<1>1. /\ items' = items /\ tick' = tick /\ enviado' = enviado /\ calculado' = calculado
      /\ cruzados' = cruzados
      /\ \E r : panel' = <<r>> /\ r.sid = s /\ r.leido = items[s] /\ r.desde = ahora
  <2>1. CASE PideActivar(s)
    <3> DEFINE it == items[s]
               nr == proximo_run(it.type, it.at, it.days, tz, ahora)
               c == [it EXCEPT !.enabled = TRUE,
                               !.next_run = IF nr = SinRun THEN it.next_run ELSE nr]
    <3>1. /\ panel' = <<[sid |-> s, leido |-> it, desde |-> ahora, todo |-> FALSE,
                         campos |-> c, activa |-> {TRUE}]>>
          /\ items' = items /\ tick' = tick /\ enviado' = enviado
          /\ calculado' = calculado /\ cruzados' = cruzados
      BY <2>1 DEF PideActivar
    <3> DEFINE r == [sid |-> s, leido |-> it, desde |-> ahora, todo |-> FALSE, campos |-> c,
                     activa |-> {TRUE}]
    <3> HIDE DEF c, nr
    <3>2. r.sid = s /\ r.leido = items[s] /\ r.desde = ahora
      OBVIOUS
    <3>3. panel' = <<r>>
      BY <3>1
    <3> HIDE DEF r
    <3> QED
      BY <3>1, <3>2, <3>3
  <2>2. CASE \E activa \in SUBSET BOOLEAN : \E p \in Plantillas \cup {Heredado(items[s])} :
              PideUpdate(s, p, activa)
    <3>1. PICK activa \in SUBSET BOOLEAN, p \in Plantillas \cup {Heredado(items[s])} :
            PideUpdate(s, p, activa)
      BY <2>2
    <3> DEFINE c == Campos(p, "si", TRUE \in activa)
    <3>2. /\ panel' = <<[sid |-> s, leido |-> items[s], desde |-> ahora, todo |-> TRUE,
                         campos |-> c, activa |-> activa]>>
          /\ items' = items /\ tick' = tick /\ enviado' = enviado
          /\ calculado' = calculado /\ cruzados' = cruzados
      BY <3>1 DEF PideUpdate
    <3> HIDE DEF c
    <3> QED
      BY <3>2
  <2> QED
    BY <2>1, <2>2
<1>2. Vigentes'
  <2> SUFFICES ASSUME NEW r \in Pedido, panel' = <<r>>, r.sid \notin cruzados'
               PROVE  Vigente(r, items'[r.sid], calculado'[r.sid])
    BY DEF Vigentes
  <2>1. r.sid = s /\ r.leido = items[s] /\ r.desde = ahora
    BY <1>1
  <2>2. Ordenado(items[s], calculado[s], enviado[s], ahora, tz)
    BY <1>1, <2>1 DEF OInv
  <2>3. items[s].next_run \in Nat
    BY CamposDe DEF BInv, DeLaTabla
  <2> QED
    BY <1>1, <2>1, <2>2, <2>3 DEF Vigente, Ordenado
<1> QED
  BY <1>1, <1>2, QuietoEnOrden

\* A request writes: if the item is still as it was read, nothing was calculated since.
LEMMA EscribeEnOrden ==
  ASSUME BInv, BInv', Creciente, OInv, Escribe
  PROVE  OInv'
<1>1. /\ panel # SinPedido /\ panel' = SinPedido /\ tick' = tick /\ enviado' = enviado
      /\ ahora' = ahora /\ tz' = tz
  BY DEF Escribe, mundo
<1>2. PICK r \in Pedido : panel = <<r>> /\ Formulario(r, ahora, items, tz)
  BY <1>1 DEF BInv, DelPanel
<1> DEFINE s == r.sid
           t == r.desde
<1>3. actualizar(s, r.leido, Escrito(r), t)
  <2>1. Head(panel) = r
    BY <1>2
  <2> QED
    BY <2>1 DEF Escribe
<1>4. /\ s \in Sids /\ t \in Nat /\ r.campos \in Item /\ r.leido \in Item
      /\ items[s] \in Item /\ Sano(items[s]) /\ items[s].est # "nuevo"
      /\ t \in Inicio..ahora /\ t <= ahora /\ ahora \in Nat
  <2>1. /\ s \in Sids /\ t \in Nat /\ r.campos \in Item /\ r.leido \in Item /\ t \in Inicio..ahora
        /\ items[s].est # "nuevo"
    BY <1>2 DEF Pedido, Formulario
  <2>2. ahora \in Nat
    BY LosInstantes DEF BInv, DelMundo
  <2> QED
    BY <2>1, <2>2, LosInstantes DEF BInv, DeLaTabla
<1>5. PICK h \in Item, b \in BOOLEAN, n \in {SinRun} \cup Instantes :
        /\ Sano(h) /\ h.est # "nuevo" /\ Escrito(r) = Renueva(h, b, n)
        /\ \/ r.todo /\ h = r.campos /\ n = r.campos.next_run
           \/ ~r.todo /\ h = items[s] /\ n = (IF r.leido.type = Once THEN items[s].next_run
                                              ELSE r.campos.next_run)
  <2>1. CASE r.todo
    <3>1. Sano(r.campos) /\ r.campos.est = "si" /\ r.campos.next_run \in {SinRun} \cup Instantes
      BY <1>2, <1>4, <2>1, CamposDe DEF Formulario
    <3>2. Activo(r, items[s]) \in BOOLEAN
      BY <1>4, ActivoEs
    <3> QED
      BY <1>2, <1>4, <2>1, <3>1, <3>2, EscritoEs
  <2>2. CASE ~r.todo
    <3>1. (IF r.leido.type = Once THEN items[s].next_run ELSE r.campos.next_run)
            \in {SinRun} \cup Instantes
      BY <1>4, CamposDe
    <3> QED
      BY <1>2, <1>4, <2>2, <3>1, EscritoEs
  <2> QED
    BY <2>1, <2>2
<1> DEFINE a == Actualizado(Renueva(h, b, n))
<1>6. /\ items'[s] = a /\ calculado'[s] = t
      /\ \A x \in Sids \ {s} : items'[x] = items[x] /\ calculado'[x] = calculado[x]
      /\ cruzados \subseteq cruzados' /\ (s \notin cruzados' => items[s] = r.leido /\ s \notin cruzados)
  BY <1>3, <1>4, <1>5, ActualizarBien DEF BInv
<1>7. cruzados' \subseteq cruzados \cup {s}
  BY <1>3 DEF actualizar
<1>8. /\ a.enabled = b /\ a.next_run = n /\ a.type = h.type /\ a.at = h.at /\ a.days = h.days
      /\ (a.est = "si" <=> h.est = "si")
  <2> HIDE DEF a
  <2> QED
    BY <1>5, Renovado DEF a
<1> HIDE DEF a, s, t
<1>9. ASSUME s \notin cruzados'
      PROVE  Ordenado(items'[s], calculado'[s], enviado[s], ahora', tz') /\ Adelantado(s)'
  <2>1. /\ items[s] = r.leido /\ Ordenado(items[s], calculado[s], enviado[s], ahora, tz)
        /\ Adelantado(s)
    BY <1>4, <1>6, <1>9 DEF OInv
  <2>2. calculado[s] <= t
    <3>1. Vigente(r, items[s], calculado[s])
      BY <1>2, <1>6, <1>9 DEF OInv, Vigentes, s
    <3>2. items[s].next_run \in Nat
      BY <1>4, CamposDe
    <3> QED
      BY <2>1, <3>1, <3>2 DEF Vigente, t
  <2>3. n = SinRun \/ n > t
    <3>1. CASE r.todo
      BY <1>2, <1>5, <3>1 DEF Formulario, t
    <3>2. CASE ~r.todo /\ r.leido.type = Once
      BY <1>2, <1>5, <2>1, <3>2 DEF Formulario, t
    <3>3. CASE ~r.todo /\ r.leido.type # Once
      <4>1. n = proximo_run(r.leido.type, r.leido.at, r.leido.days, tz, t)
        BY <1>2, <1>5, <3>3 DEF Formulario, t
      <4>2. r.leido \in Item /\ Sano(r.leido) /\ tz \in Zonas /\ t \in Inicio..Fin
        <5>1. ahora \in Inicio..Fin /\ tz \in Zonas
          BY DEF BInv, DelMundo
        <5>2. t \in Inicio..Fin
          BY <1>4, <5>1, LosInstantes
        <5> QED
          BY <1>2, <1>4, <5>1, <5>2 DEF Formulario
      <4> QED
        BY <4>1, <4>2, ProximoDe
    <3> QED
      BY <3>1, <3>2, <3>3
  <2>4. a.est = "si" => Calculado(a, tz, t)
    <3>1. CASE r.todo
      BY <1>2, <1>5, <1>8, <3>1 DEF Formulario, Calculado, t
    <3>2. CASE ~r.todo
      BY <1>2, <1>5, <1>8, <2>1, <3>2 DEF Formulario, Calculado, t
    <3> QED
      BY <3>1, <3>2
  <2>5. \A i \in Instantes : enviado[s][i] <= 1 /\ (enviado[s][i] > 0 => i <= t)
    <3> TAKE i \in Instantes
    <3>1. i \in Nat /\ enviado[s][i] <= 1 /\ (enviado[s][i] > 0 => i <= calculado[s])
      BY <2>1, LosInstantes DEF Ordenado
    <3>2. calculado[s] \in Nat
      BY <1>4 DEF BInv, DeLaHistoria
    <3> QED
      BY <1>4, <2>2, <3>1, <3>2
  <2>6. Ordenado(a, t, enviado[s], ahora, tz)
    BY <1>4, <1>8, <2>3, <2>4, <2>5 DEF Ordenado
  <2>7. Adelantado(s)'
    BY <1>1, <1>4, <1>6, <2>1, <2>2, AdelantadoSigue
  <2> QED
    BY <1>1, <1>6, <2>6, <2>7
<1>10. Vigentes'
  BY <1>1 DEF Vigentes, SinPedido
<1> QED
  BY <1>1, <1>4, <1>6, <1>7, <1>9, <1>10, UnoEnOrden

\* A schedule that goes off, or away, keeps its last calculation.
LEMMA ApagaEnOrden ==
  ASSUME BInv, BInv', Creciente, OInv, NEW s \in Sids, Desactiva(s) \/ borrar(s)
  PROVE  OInv'
<1>1. /\ tick' = tick /\ panel' = panel /\ enviado' = enviado /\ ahora' = ahora /\ tz' = tz
  BY DEF Desactiva, borrar, mundo
<1>2. /\ items[s] \in Item /\ Sano(items[s]) /\ calculado[s] \in Nat
      /\ items[s].next_run \in {SinRun} \cup Instantes
  BY CamposDe DEF BInv, DeLaTabla, DeLaHistoria
<1>3. /\ ~items'[s].enabled /\ calculado'[s] = calculado[s] /\ cruzados' = cruzados
      /\ \A x \in Sids \ {s} : items'[x] = items[x] /\ calculado'[x] = calculado[x]
      /\ items'[s].est = "si" =>
           /\ items[s].est = "si" /\ items'[s].type = items[s].type /\ items'[s].at = items[s].at
           /\ items'[s].days = items[s].days /\ items'[s].next_run = items[s].next_run
  <2>1. CASE Desactiva(s)
    <3>1. /\ items[s].est # "nuevo"
          /\ actualizar(s, items[s], [items[s] EXCEPT !.enabled = FALSE], calculado[s])
      BY <2>1 DEF Desactiva
    <3>0. PICK b \in BOOLEAN : b = FALSE
      OBVIOUS
    <3> DEFINE h == Renueva(items[s], b, items[s].next_run)
    <3>2. [items[s] EXCEPT !.enabled = FALSE] = h
      BY <1>2, <3>0, Escribirlo
    <3>3. /\ items'[s] = Actualizado(h) /\ calculado'[s] = calculado[s]
          /\ \A x \in Sids \ {s} : items'[x] = items[x] /\ calculado'[x] = calculado[x]
      <4>1. actualizar(s, items[s], Renueva(items[s], b, items[s].next_run), calculado[s])
        BY <3>1, <3>2
      <4>2. DeLaTabla /\ DeLaHistoria /\ items[s].est # "nuevo"
        BY <3>1 DEF BInv
      <4> QED
        BY <1>2, <4>1, <4>2, ActualizarBien
    <3>4. cruzados' = cruzados
      BY <3>1 DEF actualizar
    <3> DEFINE a == Actualizado(h)
    <3>5. /\ ~a.enabled /\ a.next_run = items[s].next_run /\ a.type = items[s].type
          /\ a.at = items[s].at /\ a.days = items[s].days /\ (a.est = "si" <=> items[s].est = "si")
      <4> HIDE DEF a
      <4> QED
        BY <1>2, <3>0, <3>1, Renovado DEF a
    <3> HIDE DEF h
    <3> QED
      BY <3>3, <3>4, <3>5
  <2>2. CASE borrar(s)
    <3>1. /\ items' = [items EXCEPT ![s] = Falta("borrado")] /\ calculado' = calculado
          /\ cruzados' = cruzados
      BY <2>2 DEF borrar
    <3>2. /\ items'[s] = Falta("borrado") /\ \A x \in Sids \ {s} : items'[x] = items[x]
      BY <3>1 DEF BInv, DeLaTabla
    <3>3. Falta("borrado").est = "borrado" /\ ~Falta("borrado").enabled
      BY FaltaTipo
    <3> QED
      BY <3>1, <3>2, <3>3
  <2> QED
    BY <2>1, <2>2
<1>4. ASSUME s \notin cruzados'
      PROVE  Ordenado(items'[s], calculado'[s], enviado[s], ahora', tz') /\ Adelantado(s)'
  <2>1. Ordenado(items[s], calculado[s], enviado[s], ahora, tz) /\ Adelantado(s)
    BY <1>3, <1>4 DEF OInv
  <2>2. items'[s].est = "si" => Calculado(items'[s], tz, calculado[s])
    BY <1>3, <2>1 DEF Ordenado, Calculado
  <2>3. Ordenado(items'[s], calculado[s], enviado[s], ahora, tz)
    BY <1>3, <2>1, <2>2 DEF Ordenado
  <2>4. calculado[s] <= calculado'[s]
    BY <1>2, <1>3
  <2> QED
    BY <1>1, <1>3, <2>1, <2>3, <2>4, AdelantadoSigue
<1>5. Vigentes'
  <2> SUFFICES ASSUME NEW r \in Pedido, panel = <<r>>, r.sid \notin cruzados', r.sid = s
               PROVE  Vigente(r, items'[s], calculado'[s])
    <3>1. \A r \in Pedido : r.sid \in Sids
      BY DEF Pedido
    <3> QED
      BY <1>1, <1>3, <3>1, VigentesQuedan
  <2>1. Vigente(r, items[s], calculado[s])
    BY <1>3 DEF OInv, Vigentes
  <2> QED
    BY <1>3, <2>1 DEF Vigente
<1> QED
  BY <1>1, <1>3, <1>4, <1>5, UnoEnOrden

\* The order holds at the beginning.
LEMMA OInvInicio == Init => OInv
<1> SUFFICES ASSUME Init PROVE OInv
  OBVIOUS
<1>1. ASSUME NEW s \in Sids
      PROVE  Ordenado(items[s], calculado[s], enviado[s], ahora, tz) /\ Adelantado(s)
  <2>1. /\ items[s] = Falta("nuevo") /\ calculado[s] = 0 /\ ahora \in Nat
        /\ \A i \in Instantes : enviado[s][i] = 0
    BY LosInstantes DEF Init
  <2>2. ~items[s].enabled /\ items[s].est = "nuevo"
    BY <2>1, FaltaTipo
  <2>3. \A i \in Instantes : enviado[s][i] <= 1 /\ ~(enviado[s][i] > 0)
    BY <2>1
  <2>4. calculado[s] <= ahora
    BY <2>1
  <2>5. Ordenado(items[s], calculado[s], enviado[s], ahora, tz)
    BY <2>2, <2>3, <2>4 DEF Ordenado
  <2>6. \A d \in Ticks : tick[d].en = "no"
    BY ParadoBien DEF Init
  <2>7. Adelantado(s)
    BY <2>6 DEF Adelantado, EnviaDe
  <2> QED
    BY <2>5, <2>7
<1>2. Vigentes
  BY DEF Init, Vigentes, SinPedido
<1> QED
  BY <1>1, <1>2 DEF OInv

\* Every step keeps the order.
LEMMA OInvPaso ==
  ASSUME BInv, BInv', Creciente, OInv, [Next]_vars
  PROVE  OInv'
<1>1. CASE Next
  <2>1. CASE Conmuta \/ Pasa
    <3>1. /\ items' = items /\ calculado' = calculado /\ enviado' = enviado
          /\ cruzados' = cruzados /\ tick' = tick /\ panel' = panel
      BY <2>1 DEF Conmuta, Pasa, historia
    <3> QED
      BY <3>1, QuietoEnOrden
  <2> QED
    BY <1>1, <2>1, LosPasos, TicksEnOrden, AvanzaEnOrden, EnviaEnOrden, crearEnOrden,
       PideEnOrden, ApagaEnOrden, EscribeEnOrden
<1>2. CASE UNCHANGED vars
  <2>1. /\ items' = items /\ calculado' = calculado /\ enviado' = enviado
        /\ cruzados' = cruzados /\ tick' = tick /\ panel' = panel
    BY <1>2 DEF vars, historia
  <2> QED
    BY <2>1, QuietoEnOrden
<1> QED
  BY <1>1, <1>2

\* The inductive invariant: the parts, and the order of what happens to each schedule.
THEOREM EnOrdenSiempre == Spec => [](BInv /\ OInv)
<1>1. BInv /\ OInv /\ [Next]_vars => (BInv /\ OInv)'
  BY BInvPaso, OInvPaso
<1> QED
  BY BInvInicio, OInvInicio, <1>1, PTL DEF Spec

\* No occurrence is sent twice, with any number of schedules, ticks at once, failures,
\* deaths and changes, unless the schedule was written from a reading no longer current.
THEOREM NadaDosVeces == Spec => []UnaVez
<1>1. OInv => UnaVez
  BY DEF OInv, Ordenado, UnaVez
<1> QED
  BY EnOrdenSiempre, <1>1, PTL

\* The next run of a recurrent schedule is the first of its calendar after the instant it
\* was worked out from, whatever was created, advanced, edited or reactivated.
THEOREM SiempreEnHora == Spec => []EnHora
<1>1. BInv /\ OInv => EnHora
  <2> SUFFICES ASSUME BInv, OInv, NEW s \in Sids \ cruzados, items[s].est = "si",
                      items[s].type # Once
               PROVE  items[s].next_run = Primero(items[s].type, items[s].at, items[s].days, tz,
                                                  calculado[s])
    BY DEF EnHora
  <2>1. items[s].next_run = proximo_run(items[s].type, items[s].at, items[s].days, tz, calculado[s])
    BY DEF OInv, Ordenado, Calculado
  <2>2. /\ items[s].type \in {"daily", "weekly"} /\ items[s].at \in Horas
        /\ items[s].days \in SUBSET (0..(DiasSem - 1))
    <3>1. items[s] \in Item
      BY DEF BInv, DeLaTabla
    <3> QED
      BY <3>1, CamposDe DEF Tipos
  <2>3. tz \in Int /\ calculado[s] \in Nat
    BY LasZonas DEF BInv, DelMundo, DeLaHistoria
  <2> QED
    BY <2>1, <2>2, <2>3, ProximoEsPrimero
<1> QED
  BY EnOrdenSiempre, <1>1, PTL
================================================================================
