------------------------------- MODULE MCIngest --------------------------------
(* Small instances of Ingest. *)
EXTENDS Ingest, TLC

CONSTANTS h1, h2, h3, u1, u2, eh, eu, ec

\* One body of the hub with three messages (one without text, one that the cleaning leaves
\* empty), and one post of a channel and one command as updates of Telegram.
MCCuerpo == (eh :> <<h3, h1, h2>>) @@ (eu :> <<u1>>) @@ (ec :> <<u2>>)
MCHub == {h1, h2, h3}
\* The sources share nothing but the switches: two posts, or one request, which
\* may be delivered to two invocations at once.
MCEscenarios ==
  {[posts |-> 2, envios |-> {}]} \cup {[posts |-> 0, envios |-> {e}] : e \in {eh, eu, ec}}
MCLotes == [k \in {1, 2, h1, h2, h3, u1, u2} |-> IF k = u1 THEN 2 ELSE 1]
\* Sending on to a list, in fractions: each switch may change once.
MCConfigs ==
  {[capturar |-> TRUE, enviar |-> TRUE, lista |-> TRUE, fraccionar |-> TRUE, token |-> TRUE]}
-----------------------------------------------------------------------------
\* The cleaning and the prices, over every line of up to four pieces.
M == INSTANCE Mensaje

Hasta(S, n) == UNION {[1..k -> S] : k \in 0..n}
Piezas == {M!Sym("$"), M!Sym("emoji"), [t |-> "cop"], M!Num(12000, FALSE), M!Num(1500, TRUE),
           [t |-> "resto"], [t |-> "pal"]}
Lineas == Hasta(Piezas, 4)
Numeros(ln) == SelectSeq(ln, LAMBDA x : x.t = "num")
Donde(ln) == SelectSeq([i \in DOMAIN ln |-> i], LAMBDA i : ln[i].t = "num")
Hay(ln, i, tipos) == i \in DOMAIN ln /\ ln[i].t \in tipos
\* Two amounts in a row, the second with the mark of a currency behind it.
Pegados(ln) == \E i \in DOMAIN ln : Hay(ln, i, {"num"}) /\ Hay(ln, i + 1, {"num"})

\* Amounts stay in their order; only one with the mark of a currency beside it changes
\* (models, measures and telephones do not), and one right after its symbol does change,
\* unless digits follow a comma (B3) or it starts with a zero.
ASSUME SoloPrecios ==
  \A ln \in Lineas, p \in {0, 1500} :
    LET antes == Numeros(ln)
        luego == Numeros(M!_marca_linea(ln, p))
        Subido(x) == M!Num(M!_escalar(x.v, p), FALSE)
    IN  /\ Len(luego) = Len(antes)
        /\ \A j \in DOMAIN antes :
             LET i == Donde(ln)[j]
             IN  /\ luego[j] \in {antes[j], Subido(antes[j])}
                 /\ ln[i].mal \/ ~(Hay(ln, i - 1, {"sym", "cop"}) \/ Hay(ln, i + 1, {"sym", "cop"}))
                      => luego[j] = antes[j]
                 /\ Hay(ln, i - 1, {"sym"}) /\ ~ln[i].mal /\ ~Hay(ln, i + 1, {"resto"}) /\ ~Hay(ln, i - 2, {"num"})
                      => luego[j] = Subido(antes[j])

\* What the panel shows as the old and the new price are those of one amount, as long as
\* no amount without currency stands right before another one: the symbol that was behind
\* the second one goes to its front, and there the first one takes it. Even their
\* number may change then, and the pairs of the lines that follow shift.
Emparejado(ln) ==
  LET marcada == M!_marca_linea(ln, 1500)
  IN  /\ Len(M!Casan(marcada)) = Len(M!Casan(ln))
      /\ \A j \in DOMAIN M!Casan(ln) :
           Numeros(M!Casan(marcada)[j]) = Numeros(M!Cambia(ln, M!Precios(ln)[j], 1500))
ASSUME DesgloseAlineado == \A ln \in Lineas : Pegados(ln) \/ Emparejado(ln)
ASSUME DesgloseDesalineado ==
  \E ln \in Lineas : Len(M!Casan(M!_marca_linea(ln, 1500))) # Len(M!Casan(ln))

\* Telephones and addresses are gone, amounts are not (M3) unless their line was one of the
\* source's own, blank lines are single and inside, and no message is the footer alone (M4).
Textos == Hasta({<<>>, <<[t |-> "tel"]>>, <<[t |-> "tel"], M!Sym("$")>>, <<[t |-> "lugar"]>>,
                 <<M!Sym("$"), M!Num(1000, FALSE), [t |-> "tel"]>>,
                 <<[t |-> "lugar"], M!Num(2000, FALSE)>>}, 5)
Todo(texto) == M!FlattenSeq(texto)
ASSUME LimpiaSinPerder ==
  \A texto \in Textos :
    LET limpio == M!quitar_telefonos(M!quitar_lineas(texto, {"lugar"}))
        suyas == SelectSeq(texto, LAMBDA ln : ~M!Con(ln, {"lugar"}))
        mensaje == M!componer_con_desglose(texto, 0, {"lugar"}, <<<<[t |-> "pal"]>>>>)[1]
    IN  /\ \A j \in DOMAIN limpio : ~M!Con(limpio[j], {"tel", "lugar"})
        /\ Numeros(Todo(limpio)) = Numeros(Todo(suyas))
        /\ \A j \in DOMAIN limpio :
             limpio[j] = <<>> => /\ j > 1 /\ j < Len(limpio)
                                /\ limpio[j + 1] # <<>>
        /\ mensaje = <<>> <=> Numeros(Todo(suyas)) = <<>>
=============================================================================
