--------------------------- MODULE MCWhatsAppService ---------------------------
EXTENDS WhatsAppService, TLC

CONSTANTS p1, p2

Cero == [c \in Clases |-> 0]
SinDifusion == [via |-> "propio", modo |-> "all", listas |-> <<>>, exclude |-> {}, patron |-> {},
        excepto |-> {}]
\* By list: of jids 1 to 4, list 3, 1, 3, 2 without 4.
PorLista(via) == [SinDifusion EXCEPT !.via = via, !.modo = "only", !.listas = <<3, 1, 3, 2>>]
Todos == [SinDifusion EXCEPT !.exclude = {4}, !.patron = {2}, !.excepto = {2}]
Menos == [SinDifusion EXCEPT !.modo = "except", !.listas = <<4>>, !.patron = {4}]

\* Without a broadcast: the socket. With one: each kind of thing that disturbs it.
Envio == [Cero EXCEPT !.envio = 1, !.fallo = 1]
MCDifusiones ==
  ([Cero EXCEPT !.caida = 1, !.fallo = 1, !.peticion = 1, !.pair = 1] :> {SinDifusion}) @@
  ([Cero EXCEPT !.caida = 1, !.fallo = 1, !.pair = 2] :> {SinDifusion}) @@
  ([Cero EXCEPT !.peticion = 1, !.pair = 2] :> {SinDifusion}) @@
  ([Cero EXCEPT !.caida = 2, !.fallo = 1, !.pair = 1] :> {SinDifusion}) @@
  ([Envio EXCEPT !.caida = 1] :> {PorLista("propio"), PorLista("hub")}) @@
  ([Envio EXCEPT !.peticion = 1] :> {Todos}) @@
  ([Envio EXCEPT !.limpia = 1, !.caida = 1] :> {Menos}) @@
  ([Cero EXCEPT !.envio = 1, !.caida = 1, !.nuevo = 1] :> {Todos})
MCCupos == DOMAIN MCDifusiones

\* A link by code, with nothing else going on.
SoloPair == [Cero EXCEPT !.pair = 1]
DifusionesPair == SoloPair :> {SinDifusion}
CuposPair == {SoloPair}
=============================================================================
