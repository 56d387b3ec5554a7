------------------------------ MODULE Recipients ------------------------------
(***************************************************************************)
(* Who receives a sending: domain/recipients.py and the uses BroadcastList *)
(* makes of it. A contact is its id; coinciden is the set of pairs <<name, *)
(* pattern>> where the name contains the pattern.                          *)
(***************************************************************************)
EXTENDS Naturals, Sequences, SequencesExt, FiniteSetsExt

CONSTANT coinciden

ids_de_listas_activas(lists, target) ==
  UNION {l.ids : l \in {l \in ToSet(lists) : l.name \in target.lists}}

\* Blanks are left out; what was seen before is not repeated.
union_ordenada(listas) ==
  FoldLeft(LAMBDA out, x : IF x = "" \/ Contains(out, x) THEN out ELSE Append(out, x),
           <<>>, FlattenSeq(listas))

\* What a field of destinations amounts to for a sending: the configuration's own and those
\* of every user of the panel.
Efectivos(propios, usuarios) == union_ordenada(<<propios>> \o usuarios)

\* No pattern, nobody; a contact without a name matches none.
ids_excluidos_por_patron(contactos, patrones) ==
  {c.id : c \in {c \in ToSet(contactos) : \E p \in patrones : <<c.name, p>> \in coinciden}}

Elegido(c, seleccion, mode) ==
  /\ mode = "only" => c \in seleccion
  /\ mode = "except" => c \notin seleccion

filtrar_destinatarios(todos, lists, target, excluidos) ==
  SelectSeq(todos, LAMBDA c : /\ c \notin excluidos
                              /\ Elegido(c, ids_de_listas_activas(lists, target), target.mode))
-----------------------------------------------------------------------------
(* cfg: [contactos, lists, target, excluded_ids, patrones, excepciones]     *)
Ids(contactos) == [i \in DOMAIN contactos |-> contactos[i].id]

\* When the contacts cannot be read for this nobody is excluded by name.
_excluidos_patron_tg(cfg) ==
  ids_excluidos_por_patron(cfg.contactos, cfg.patrones) \ cfg.excepciones

\* The patterns of names do not touch an explicit list.
_destinatarios_telegram(cfg, target) ==
  filtrar_destinatarios(Ids(cfg.contactos), cfg.lists, target,
    cfg.excluded_ids \cup (IF target.mode = "only" THEN {} ELSE _excluidos_patron_tg(cfg)))

\* No list chosen, no automatic sending (A12): the empty sequence stands for None.
_auto_target(lista) == IF lista = "" THEN <<>> ELSE <<[mode |-> "only", lists |-> {lista}]>>

_target_para(lista, target) ==
  IF lista = "" THEN target ELSE [mode |-> "only", lists |-> {lista}]

\* Contacts picked by hand go as they are, whatever is excluded.
_tg_clientes(cfg, lista, ids) ==
  IF ids # {} THEN SelectSeq(Ids(cfg.contactos), LAMBDA c : c \in ids)
  ELSE _destinatarios_telegram(cfg, _target_para(lista, cfg.target))

_wa_destino(cfg, lista, ids) ==
  LET t == _target_para(lista, cfg.target)
  IN  IF ids # {} THEN [mode |-> "only", ids |-> ids]
      ELSE [mode |-> t.mode, ids |-> ids_de_listas_activas(cfg.lists, t)]

\* enviar_manual refuses WhatsApp without named contacts, and a sending to nobody.
Rechaza(tg, wa, clientes, destino) ==
  \/ wa /\ (destino.mode # "only" \/ destino.ids = {})
  \/ ~wa /\ (~tg \/ clientes = <<>>)
-----------------------------------------------------------------------------
(* What the functions promise, said another way.                           *)
Subsecuencia(s, t) ==
  \E pos \in [1..Len(s) -> 1..Len(t)] :
    /\ \A i, j \in 1..Len(s) : i < j => pos[i] < pos[j]
    /\ \A i \in 1..Len(s) : s[i] = t[pos[i]]

\* Each once, in the order in which it first appears.
EsUnion(out, listas) ==
  LET todas == FlattenSeq(listas)
      Primera(x) == Min({i \in 1..Len(todas) : todas[i] = x})
  IN  /\ ToSet(out) = ToSet(todas) \ {""}
      /\ \A i, j \in 1..Len(out) : i < j => Primera(out[i]) < Primera(out[j])
=============================================================================
