-------------------------------- MODULE MCPanel --------------------------------
EXTENDS Panel

CONSTANTS manual, post, ana, luz

Jobs(ids, canales, envios, borrados, fallos) ==
  [ids |-> ids, canales |-> canales, envios |-> envios, borrados |-> borrados,
   fallos |-> fallos]
MCCasosJobs ==
  {Jobs({post}, {{"telegram"}, {"whatsapp"}, Canales}, 2, 2, 0),
   Jobs({manual}, {{"telegram"}, {"whatsapp"}, Canales}, 1, 2, 1),
   Jobs({manual, post}, {{"telegram"}}, 2, 1, 0)}

Auth(publicas, sesiones, fallos) ==
  [publicas |-> publicas, sesiones |-> sesiones, fallos |-> fallos]
MCCasosAuth == {Auth(4, 0, 1), Auth(2, 1, 1), Auth(0, 2, 0)}

Sesion(logins, peticiones, cambios, fallos, bajas) ==
  [logins |-> logins, peticiones |-> peticiones, cambios |-> cambios, fallos |-> fallos,
   bajas |-> bajas]
MCCasosSesion ==
  {Sesion(2, 2, 0, 0, 1), Sesion(2, 2, 0, 1, 0), Sesion(1, 2, 1, 0, 0), Sesion(1, 1, 0, 1, 1)}

\* Two logins, one of each account; the second one has a password of its own.
MCCuentas == <<ana, luz>>
MCCambios ==
  {[capture_enabled |-> FALSE], [send_mode |-> "bot"], [telethon_session |-> SinSesion],
   [sending_enabled |-> TRUE], [sending_enabled |-> TRUE, auto_telegram_list |-> "lista"],
   [sending_enabled |-> FALSE, whatsapp_enabled |-> TRUE]}
-----------------------------------------------------------------------------
\* The recipients, over every list of up to three contacts, some with the same name.
R == INSTANCE Recipients WITH coinciden <- {<<"Ana FAM", "fam">>, <<"Luz", "l">>}

Contactos == {[id |-> i, name |-> n] : i \in 1..2, n \in {"Ana FAM", "Luz", ""}}
Hasta(S, n) == UNION {[1..k -> S] : k \in 0..n}
Listas == {[name |-> n, ids |-> I] : n \in {"A", "B"}, I \in SUBSET (1..2)}
Destinos == [mode : {"all", "only", "except"}, lists : SUBSET {"A", "B"}]

\* The patterns of all users, each once, in the order in which they first appear.
ASSUME UnionOrdenada ==
  \A l \in Hasta(Hasta({"", "x", "y"}, 2), 3) : R!EsUnion(R!union_ordenada(l), l)

\* Who is picked is picked in the order of the contacts and is never somebody excluded;
\* in the modes "only" and "except" the lists part those that are left in two.
ASSUME FiltraLosSuyos ==
  \A todos \in Hasta(1..3, 3), lists \in Hasta(Listas, 1), nombres \in SUBSET {"A", "B"},
     excl \in SUBSET (1..2) :
    LET Filtra(mode) ==
          R!filtrar_destinatarios(todos, lists, [mode |-> mode, lists |-> nombres], excl)
    IN  /\ \A mode \in {"all", "only", "except"} :
             R!Subsecuencia(Filtra(mode), todos) /\ R!ToSet(Filtra(mode)) \cap excl = {}
        /\ R!ToSet(Filtra("all")) = R!ToSet(todos) \ excl
        /\ R!ToSet(Filtra("only")) \cap R!ToSet(Filtra("except")) = {}
        /\ R!ToSet(Filtra("only")) \cup R!ToSet(Filtra("except")) = R!ToSet(Filtra("all"))

\* An id excluded by hand receives nothing but what was addressed to it by hand; a name
\* that matches a pattern keeps its contact out of broad sendings and only of those.
ASSUME ExclusionesDeTelegram ==
  \A agenda \in Hasta(Contactos, 2), target \in Destinos, excl \in SUBSET (1..2),
     patrones \in SUBSET {"fam", "l"}, excepciones \in SUBSET {1}, ids \in SUBSET (1..2),
     lista \in {"", "A"} :
    LET config == [contactos |-> agenda, lists |-> <<[name |-> "A", ids |-> {1}]>>,
                   target |-> target, excluded_ids |-> excl, patrones |-> patrones,
                   excepciones |-> excepciones]
        clientes == R!ToSet(R!_tg_clientes(config, lista, ids))
        amplio == ids = {} /\ R!_target_para(lista, target).mode # "only"
    IN  /\ ids # {} => clientes = ids \cap {agenda[i].id : i \in DOMAIN agenda}
        /\ ids = {} => clientes \cap excl = {}
        /\ amplio => clientes \cap R!_excluidos_patron_tg(config) = {}

\* A sending that is not refused has somebody to go to, and by WhatsApp named contacts.
ASSUME NuncaATodosPorWhatsApp ==
  \A target \in Destinos, ids \in SUBSET {1}, lista \in {"", "A", "B"}, tg, wa \in BOOLEAN,
     agenda \in Hasta(Contactos, 1) :
    LET config == [contactos |-> agenda, lists |-> <<[name |-> "A", ids |-> {2}]>>,
                   target |-> target, excluded_ids |-> {}, patrones |-> {"l"},
                   excepciones |-> {}]
        destino == R!_wa_destino(config, lista, ids)
        clientes == R!_tg_clientes(config, lista, {})
    IN  ~R!Rechaza(tg, wa, clientes, destino) =>
          /\ wa => destino.mode = "only" /\ destino.ids # {}
          /\ (wa /\ destino.ids # {}) \/ (tg /\ clientes # <<>>)
=============================================================================
