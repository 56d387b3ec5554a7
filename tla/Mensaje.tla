------------------------------- MODULE Mensaje --------------------------------
(***************************************************************************)
(* What a post is turned into before it is sent: domain/message.py and     *)
(* domain/markup.py. A text is a sequence of lines, a line a sequence of   *)
(* pieces, each of a kind (t): "sym" a currency symbol (s), "cop" the word *)
(* COP, "num" an amount (v; mal: with a zero in front), "resto" a comma    *)
(* and digits glued to what comes before, "tel" a telephone with its       *)
(* label, "lugar" what a pattern of brand, address or hours finds, "pal"   *)
(* any other word. Which characters make which piece is left to the tests. *)
(***************************************************************************)
EXTENDS Integers, Sequences, SequencesExt

Blanca == <<>>
Con(ln, tipos) == \E i \in DOMAIN ln : ln[i].t \in tipos

\* Runs of blank lines become one, those at the ends go.
Recorta(lineas) ==
  LET junta == FoldLeft(LAMBDA out, ln :
                          IF ln = Blanca /\ (out = <<>> \/ Last(out) = Blanca) THEN out
                          ELSE Append(out, ln), <<>>, lineas)
  IN  IF junta # <<>> /\ Last(junta) = Blanca THEN Front(junta) ELSE junta

quitar_lineas(texto, patrones) ==
  IF patrones = {} THEN texto
  ELSE Recorta(SelectSeq(texto, LAMBDA ln : ~Con(ln, patrones)))

\* M3: only the telephone goes, and its line when nothing with a letter or a digit is left.
quitar_telefonos(texto) ==
  LET Limpia(ln) == SelectSeq(ln, LAMBDA x : x.t # "tel")
      quedan == SelectSeq(texto, LAMBDA ln :
                  ~Con(ln, {"tel"}) \/ Con(ln, {"num", "cop", "resto", "pal", "lugar"}))
  IN  Recorta([j \in DOMAIN quedan |-> Limpia(quedan[j])])
-----------------------------------------------------------------------------
Sym(s) == [t |-> "sym", s |-> s]
Num(v, mal) == [t |-> "num", v |-> v, mal |-> mal]

\* _price_pattern: the length of the price that starts at i of a line, 0 if none does. An
\* emoji is no $ for the form COP $.
Ancho(ln, i) ==
  LET Hay(j, tipo) == j \in DOMAIN ln /\ ln[j].t = tipo
  IN  CASE Hay(i, "sym") /\ Hay(i + 1, "num") -> 2
        [] Hay(i, "cop") /\ Hay(i + 1, "num") -> 2
        [] Hay(i, "cop") /\ Hay(i + 1, "sym") /\ Hay(i + 2, "num") ->
             IF ln[i + 1].s = "$" THEN 3 ELSE 0
        [] Hay(i, "num") /\ (Hay(i + 1, "sym") \/ Hay(i + 1, "cop")) -> 2
        [] OTHER -> 0

\* Where the prices of a line start: from left to right, without overlaps.
Precios(ln) ==
  LET desde[i \in 1..(Len(ln) + 1)] ==
        IF i > Len(ln) THEN <<>>
        ELSE IF Ancho(ln, i) = 0 THEN desde[i + 1]
        ELSE <<i>> \o desde[i + Ancho(ln, i)]
  IN  desde[1]

\* _escalar, by a percentage in hundredths (Decimal: exact), up to the next thousand.
Techo(a, b) == -((-a) \div b)
_escalar(v, p) == 1000 * Techo(v * (10000 + p), 10000000)

\* replacer: a price followed by a comma and digits (B3) or with a zero in front is let be.
Cambia(ln, i, p) ==
  LET ancho == Ancho(ln, i)
      precio == SubSeq(ln, i, i + ancho - 1)
      num == CHOOSE x \in ToSet(precio) : x.t = "num"
      simbolo == IF ~Con(precio, {"cop"}) THEN CHOOSE x \in ToSet(precio) : x.t = "sym"
                 ELSE Sym("$")
      intacto == \/ i + ancho \in DOMAIN ln /\ ln[i + ancho].t = "resto"
                 \/ num.mal
  IN  IF intacto THEN precio ELSE <<simbolo, Num(_escalar(num.v, p), FALSE)>>

_marca_linea(ln, p) ==
  LET sale[i \in 1..(Len(ln) + 1)] ==
        IF i > Len(ln) THEN <<>>
        ELSE IF Ancho(ln, i) = 0 THEN <<ln[i]>> \o sale[i + 1]
        ELSE Cambia(ln, i, p) \o sale[i + Ancho(ln, i)]
  IN  sale[1]

aplicar_markup(texto, p) == [j \in DOMAIN texto |-> _marca_linea(texto[j], p)]

\* The n-th price of the clean text is shown beside the n-th of the marked one.
Casan(ln) == [j \in DOMAIN Precios(ln) |->
                SubSeq(ln, Precios(ln)[j], Precios(ln)[j] + Ancho(ln, Precios(ln)[j]) - 1)]
desglosar_precios(limpio, marcado) ==
  LET ant == FlattenSeq([j \in DOMAIN limpio |->
               [k \in DOMAIN Casan(limpio[j]) |-> <<limpio[j], Casan(limpio[j])[k]>>]])
      nue == FlattenSeq([j \in DOMAIN marcado |-> Casan(marcado[j])])
      n == IF Len(ant) < Len(nue) THEN Len(ant) ELSE Len(nue)
  IN  SelectSeq([j \in 1..n |-> [producto |-> ant[j][1], anterior |-> ant[j][2],
                                 nuevo |-> nue[j]]],
                LAMBDA f : f.anterior # f.nuevo)

\* M4: with nothing left there is no message, not one with the footer alone.
componer_con_desglose(texto, p, patrones, footer) ==
  LET limpio == quitar_telefonos(quitar_lineas(texto, patrones))
      marcado == aplicar_markup(limpio, p)
  IN  IF \A j \in DOMAIN marcado : marcado[j] = Blanca THEN <<<<>>, <<>>>>
      ELSE <<IF footer = <<>> THEN marcado ELSE marcado \o <<Blanca>> \o footer,
             desglosar_precios(limpio, marcado)>>
=============================================================================
