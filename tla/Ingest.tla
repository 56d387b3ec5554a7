-------------------------------- MODULE Ingest ---------------------------------
(***************************************************************************)
(* What enters Replica: the posts of the source channel, read by the       *)
(* poller behind a high-water mark, and the requests of the webhook        *)
(* receiver (updates of Telegram and the bodies of wa-hub) behind the      *)
(* dedup table. Both end in BroadcastList, which captures, creates a plan  *)
(* or enqueues at once.                                                    *)
(*                                                                         *)
(* Every invocation is a process; a call that leaves it (DynamoDB, SQS) is *)
(* a step that may fail, also after having worked, and an invocation may   *)
(* die before any of them. Telegram and the hub repeat a request until it  *)
(* is answered with a 200, also while an earlier delivery is being served. *)
(***************************************************************************)
EXTENDS Integers, Sequences, FiniteSets

CONSTANTS
  MaxPosts,     \* bound on the posts of the channel, numbered by message_id
  Escenarios,   \* bound: how many posts get published and which requests are sent
  Visibles,     \* how many posts, the last ones, the readers may return
  Hub,          \* messages of wa-hub
  Updates,      \* updates of Telegram (update_id)
  Comandos,     \* those that are private commands, not posts of the channel
  SinTexto,     \* messages of the hub without text
  Vacios,       \* keys with nothing left to send after the cleaning
  Cuerpo,       \* [request |-> the keys it carries, in order]
  Corridas,     \* invocations of the poller
  Peticiones,   \* invocations of the receiver
  Lotes,        \* [key |-> Telegram lots of its broadcast]
  Configs,      \* configurations to start from
  MaxFallos,    \* bound on failed calls, lost answers and deaths
  MaxCambios    \* bound on changes of the configuration

Posts == 1..MaxPosts
Claves == Posts \cup Hub \cup Updates
Envios == DOMAIN Cuerpo
Indices(k) == 0..(Lotes[k] - 1)
Config == [capturar : BOOLEAN, enviar : BOOLEAN, lista : BOOLEAN,
           fraccionar : BOOLEAN, token : BOOLEAN]

ASSUME IngestAssumption ==
  /\ MaxPosts \in Nat /\ Visibles \subseteq Nat \ {0} /\ Lotes \in [Claves -> Nat \ {0}]
  /\ Hub \cap Updates = {} /\ Hub \cap Posts = {} /\ Updates \cap Posts = {}
  /\ Comandos \subseteq Updates /\ SinTexto \subseteq Hub /\ Vacios \subseteq Claves
  /\ \A e \in Envios : \/ Cuerpo[e] \in Seq(Hub) \ {<<>>}
                       \/ \E u \in Updates : Cuerpo[e] = <<u>>
  /\ Corridas \cap Peticiones = {}
  /\ Configs \subseteq Config
  /\ Escenarios \subseteq [posts : 0..MaxPosts, envios : SUBSET Envios]
  /\ MaxFallos \in Nat /\ MaxCambios \in Nat

VARIABLES
  publicados,   \* posts published so far
  escenario,    \* what is to be published and sent; it does not change
  hwm,          \* high-water mark of the channel, SinMarca before the first run
  marcas,       \* keys in the dedup table
  trabajo,      \* [key |-> source of its item in Broadcasts] (id fixed by the key)
  sueltas,      \* keys captured under a random id (sending on, no list chosen)
  plan,         \* [key |-> its plan and the items of its lots]
  emitido,      \* [key |-> times each lot has gone out to its recipients, up to 2]
  ejecutados,   \* private commands carried out
  proc,         \* local state of each invocation
  acusados,     \* requests answered with a 200 that reached the sender
  cfg,          \* the switches of the configuration that matter here
  semilla,      \* history: the highest mark a first run has stored
  perdible,     \* history: keys that met a weak spot where they may be lost
  repetible,    \* history: keys that met one where they may be sent twice
  fallos, cambios   \* used part of MaxFallos and of MaxCambios

vars == <<publicados, escenario, hwm, marcas, trabajo, sueltas, plan, emitido, ejecutados,
          proc, acusados, cfg, semilla, perdible, repetible, fallos, cambios>>
canal == <<publicados, hwm, semilla>>
registro == <<trabajo, sueltas>>
salida == <<plan, emitido>>
entrada == <<escenario, marcas, ejecutados, acusados>>
riesgos == <<perdible, repetible>>
entorno == <<cfg, cambios>>
-----------------------------------------------------------------------------
SinMarca == -1
Ninguno == [est |-> "no", next |-> 0, escritos |-> {}]
Plan(k) == [est : {"no", "pending", "done"}, next : 0..Lotes[k], escritos : SUBSET Indices(k)]

Libre == [en |-> "libre", envio |-> <<>>, pend |-> <<>>, i |-> 0]
EnDifusion == {"difunde", "plan", "lotes", "encola"}
Proceso == [en : EnDifusion \cup {"libre", "mira", "siembra", "guarda", "dedup", "revierte", "responde"},
            envio : {<<>>} \cup {<<e>> : e \in Envios}, pend : Seq(Claves), i : Nat]

TypeOK ==
  /\ publicados \in 0..MaxPosts
  /\ hwm \in {SinMarca, 0} \cup Posts /\ semilla \in {SinMarca, 0} \cup Posts
  /\ marcas \in SUBSET (Hub \cup Updates)
  /\ trabajo \in [Claves -> {"no", "capture", "channel"}]
  /\ sueltas \in SUBSET Claves
  /\ DOMAIN plan = Claves /\ \A k \in Claves : plan[k] \in Plan(k)
  /\ DOMAIN emitido = Claves /\ \A k \in Claves : emitido[k] \in [Indices(k) -> 0..2]
  /\ ejecutados \in SUBSET Comandos
  /\ proc \in [Corridas \cup Peticiones -> Proceso]
  /\ escenario \in Escenarios /\ acusados \in SUBSET escenario.envios
  /\ cfg \in Config
  /\ perdible \in SUBSET Claves /\ repetible \in SUBSET Claves
  /\ fallos \in 0..MaxFallos /\ cambios \in 0..MaxCambios

Init ==
  /\ publicados = 0
  /\ hwm \in {SinMarca, 0} /\ semilla = hwm   \* 0: a mark of earlier times
  /\ marcas = {} /\ ejecutados = {} /\ acusados = {}
  /\ escenario \in Escenarios
  /\ trabajo = [k \in Claves |-> "no"] /\ sueltas = {}
  /\ plan = [k \in Claves |-> Ninguno]
  /\ emitido = [k \in Claves |-> [i \in Indices(k) |-> 0]]
  /\ proc = [p \in Corridas \cup Peticiones |-> Libre]
  /\ cfg \in Configs
  /\ perdible = {} /\ repetible = {}
  /\ fallos = 0 /\ cambios = 0
-----------------------------------------------------------------------------
clave(p) == Head(proc[p].pend)
EnManos(k) == {p \in Corridas \cup Peticiones :
                 proc[p].en \in EnDifusion \cup {"guarda", "revierte"} /\ clave(p) = k}
Ir(p, r) == proc' = [proc EXCEPT ![p] = r]
A(p, en) == [proc[p] EXCEPT !.en = en]
Bien == UNCHANGED fallos
Falla == fallos < MaxFallos /\ fallos' = fallos + 1
Suma(k, i) ==
  emitido' = [emitido EXCEPT ![k] = [emitido[k] EXCEPT ![i] =
                                       IF emitido[k][i] = 2 THEN 2 ELSE emitido[k][i] + 1]]

\* The loop of a request goes on with its next message, or is answered.
SigueMensaje(r) ==
  [r EXCEPT !.en = IF Len(r.pend) = 1 THEN "responde" ELSE "dedup", !.pend = Tail(@), !.i = 0]

\* BroadcastList returns to the poller (which saves the mark) or to the receiver.
Vuelve(p) == IF p \in Corridas THEN [A(p, "guarda") EXCEPT !.i = 0] ELSE SigueMensaje(proc[p])

\* BroadcastList raises: the run of the poller ends (EventBridge starts another);
\* the entry of the hub answers 500 and keeps its mark; the webhook goes to revert it.
Lanza(p) ==
  IF p \in Peticiones /\ clave(p) \in Updates THEN A(p, "revierte") ELSE Libre
\* What an exception or a death with k in hand puts at stake.
QuedaMarcado(p) == IF p \in Peticiones THEN {clave(p)} \cap marcas ELSE {}
LanzaPerdible(p) ==
  IF p \in Peticiones /\ clave(p) \in Hub THEN perdible \cup QuedaMarcado(p) ELSE perdible
-----------------------------------------------------------------------------
(* The poller: poller.lambda_handler and PollChannel.                      *)

Publica ==
  /\ publicados < escenario.posts
  /\ publicados' = publicados + 1
  /\ UNCHANGED <<hwm, semilla, registro, salida, entrada, proc, entorno, riesgos, fallos>>

\* lambda_handler polls nothing while capture_enabled is off; leer_publicaciones
\* gives the last posts, or none when every reader fails (and then nothing happens).
Leidos(n) == IF publicados <= n THEN [j \in 1..publicados |-> j]
             ELSE [j \in 1..n |-> publicados - n + j]
Corre(p) ==
  /\ proc[p].en = "libre"
  /\ cfg.capturar
  /\ publicados > 0
  /\ \E n \in Visibles : Ir(p, [A(p, "mira") EXCEPT !.pend = Leidos(n)])
  /\ UNCHANGED <<canal, registro, salida, entrada, entorno, riesgos, fallos>>

\* A run that finds no mark only stores one, later: other runs may have stored theirs
\* meanwhile, and gone on from it. Later runs take what is beyond the mark.
Mut_Nuevo(x, marca) == x >= marca
Nuevo(x, marca) == x > marca
\* Does a run have x among the posts it goes through?
Lleva(q, x) ==
  /\ proc[q].en \in EnDifusion \cup {"guarda"}
  /\ \E j \in 1..Len(proc[q].pend) : proc[q].pend[j] = x
\* The posts that a mark stored now gives back to the runs to come.
Retrocede(marca) == {x \in Posts : marca < x /\ x <= hwm}
Primera(p) ==
  /\ proc[p].en = "mira"
  /\ hwm = SinMarca
  /\ Ir(p, A(p, "siembra"))
  /\ Bien
  /\ UNCHANGED <<canal, registro, salida, entrada, entorno, riesgos>>
Siembra(p) ==
  LET pend == proc[p].pend
  IN  /\ proc[p].en = "siembra"
      /\ hwm' = pend[Len(pend)]
      /\ semilla' = IF semilla < hwm' THEN hwm' ELSE semilla
      /\ repetible' = repetible \cup Retrocede(hwm')
      /\ Ir(p, Libre)
      /\ Bien
      /\ UNCHANGED <<publicados, registro, salida, entrada, entorno, perdible>>
Mira(p) ==
  LET pend == proc[p].pend
  IN  /\ proc[p].en = "mira"
      /\ hwm # SinMarca
      /\ \E j \in 1..(Len(pend) + 1) :
           \* the new ones, in order, are the end of what was read
           /\ \A i \in 1..Len(pend) : Nuevo(pend[i], hwm) <=> i >= j
           /\ Ir(p, IF j > Len(pend) THEN Libre
                    ELSE [A(p, "difunde") EXCEPT !.pend = SubSeq(pend, j, Len(pend))])
           \* two runs at once over the same post
           /\ repetible' = repetible \cup
                {pend[i] : i \in {i \in j..Len(pend) : \E q \in Corridas \ {p} : Lleva(q, pend[i])}}
      \* posts no longer among the last ones
      /\ perdible' = perdible \cup {x \in Posts : hwm < x /\ x < Head(pend)}
      /\ Bien
      /\ UNCHANGED <<canal, registro, salida, entrada, entorno>>

\* hwm.guardar after each post, whatever another run has stored meanwhile.
Mut_GuardaUltimo(r) == r.pend[Len(r.pend)]
Mut_GuardaNada(r) == hwm
PorGuardar(r) == Head(r.pend)
Guarda(p) ==
  LET r == proc[p]
  IN  /\ r.en = "guarda"
      /\ hwm' = PorGuardar(r)
      /\ repetible' = repetible \cup Retrocede(PorGuardar(r))
      /\ Ir(p, IF Len(r.pend) = 1 THEN Libre ELSE [A(p, "difunde") EXCEPT !.pend = Tail(@)])
      /\ Bien
      /\ UNCHANGED <<publicados, semilla, registro, salida, entrada, entorno, perdible>>
GuardaFalla(p) ==
  /\ proc[p].en = "guarda"
  /\ Falla
  /\ repetible' = repetible \cup {clave(p)}
  /\ Ir(p, Libre)
  /\ UNCHANGED <<canal, registro, salida, entrada, entorno, perdible>>
-----------------------------------------------------------------------------
(* The receiver: receiver.lambda_handler, _entrada_hub, CapturarDesdeHub.  *)

\* A request not yet answered arrives, perhaps beside an earlier delivery of it.
\* Without hub_token the hub gets a 503, and a signature that does not verify a
\* 403: nothing changes, and it will try again.
DelHub(e) == Cuerpo[e] \in Seq(Hub)
Llega(p, e) ==
  /\ proc[p].en = "libre"
  /\ e \in escenario.envios \ acusados
  /\ DelHub(e) => cfg.token
  /\ Ir(p, [en |-> "dedup", envio |-> <<e>>, pend |-> Cuerpo[e], i |-> 0])
  /\ UNCHANGED <<canal, registro, salida, entrada, entorno, riesgos, fallos>>

\* a_captura skips what has no text, before any mark.
Saltado(k) == k \in SinTexto
Salta(p) ==
  /\ proc[p].en = "dedup"
  /\ Saltado(clave(p))
  /\ Ir(p, SigueMensaje(proc[p]))
  /\ UNCHANGED <<canal, registro, salida, entrada, entorno, riesgos, fallos>>

\* marcar_estricto: put_item if absent. A duplicate is left out.
Marca(p) ==
  /\ proc[p].en = "dedup"
  /\ ~Saltado(clave(p))
  /\ marcas' = marcas \cup {clave(p)}
  /\ Ir(p, IF clave(p) \in marcas THEN SigueMensaje(proc[p]) ELSE A(p, "difunde"))
  /\ Bien
  /\ UNCHANGED <<canal, registro, salida, escenario, ejecutados, acusados, entorno, riesgos>>

\* A8: when the table cannot confirm, with or without the mark written, go on.
Mut_SinConfirmar(p) == SigueMensaje(proc[p])
SinConfirmar(p) == A(p, "difunde")
MarcaFalla(p) ==
  /\ proc[p].en = "dedup"
  /\ ~Saltado(clave(p))
  /\ Falla
  /\ \E m \in {{}, {clave(p)}} : marcas' = marcas \cup m
  /\ repetible' = repetible \cup {clave(p)}
  /\ Ir(p, SinConfirmar(p))
  /\ UNCHANGED <<canal, registro, salida, escenario, ejecutados, acusados, entorno, perdible>>

\* HandleCommand: /start and /stop write the subscriber; the answer is best effort.
Ejecuta(p) ==
  /\ proc[p].en = "difunde"
  /\ clave(p) \in Comandos
  /\ ejecutados' = ejecutados \cup {clave(p)}
  /\ Ir(p, SigueMensaje(proc[p]))
  /\ Bien
  /\ UNCHANGED <<canal, registro, salida, escenario, marcas, acusados, entorno, riesgos>>

\* _revertir_dedup, unless a part of the broadcast is already in the queue.
Reversible(r) == r.i = 0
\* Has another delivery of the request been answered, or is it about to be, as a
\* duplicate of the one that now fails?
Trae(e, k) == \E j \in 1..Len(Cuerpo[e]) : Cuerpo[e][j] = k
YaContestado(p) ==
  \E e \in Envios :
    /\ Trae(e, clave(p))
    /\ e \in acusados \/ \E q \in Peticiones \ {p} : proc[q].envio = <<e>>
Revierte(p) ==
  LET k == clave(p)
  IN  /\ proc[p].en = "revierte"
      /\ \/ /\ Reversible(proc[p])
            /\ marcas' = marcas \ {k}
            /\ perdible' = IF YaContestado(p) THEN perdible \cup {k} ELSE perdible
            /\ Bien
         \/ /\ Reversible(proc[p])
            /\ Falla
            /\ perdible' = perdible \cup {k}
            /\ UNCHANGED marcas
         \/ /\ ~Reversible(proc[p])
            /\ perdible' = perdible \cup {k}
            /\ Bien
            /\ UNCHANGED marcas
      /\ Ir(p, Libre)
      /\ UNCHANGED <<canal, registro, salida, escenario, ejecutados, acusados, entorno, repetible>>

\* The 200, which may be lost on its way.
Responde(p) ==
  /\ proc[p].en = "responde"
  /\ \/ acusados' = acusados \cup {proc[p].envio[1]} /\ Bien
     \/ UNCHANGED acusados /\ Falla
  /\ Ir(p, Libre)
  /\ UNCHANGED <<canal, registro, salida, escenario, marcas, ejecutados, entorno, riesgos>>
-----------------------------------------------------------------------------
(* BroadcastList.__call__ for the key in hand.                             *)

Difunde(p, k) == proc[p].en = "difunde" /\ clave(p) = k /\ k \notin Comandos

\* M4: nothing left after the cleaning.
DescartaVacio(p) ==
  /\ Difunde(p, clave(p))
  /\ clave(p) \in Vacios
  /\ Ir(p, Vuelve(p))
  /\ Bien
  /\ UNCHANGED <<canal, registro, salida, entrada, entorno, riesgos>>

\* solo_capturar (always so from the hub) or sending off: only capture. The item
\* has the id of the key, and put_item overwrites; _registrar swallows its failures.
Mut_SoloCapturar(k) == ~cfg.enviar
SoloCapturar(k) == k \in Hub \/ ~cfg.enviar
Captura(p) ==
  LET k == clave(p)
  IN  /\ Difunde(p, k)
      /\ k \notin Vacios
      /\ SoloCapturar(k)
      /\ \/ trabajo' = [trabajo EXCEPT ![k] = "capture"] /\ Bien /\ UNCHANGED perdible
         \/ perdible' = perdible \cup {k} /\ Falla /\ UNCHANGED trabajo
      /\ Ir(p, Vuelve(p))
      /\ UNCHANGED <<canal, sueltas, salida, entrada, entorno, repetible>>

\* A12: sending on and no list chosen: captured as well, under a random id.
CapturaSinLista(p) ==
  LET k == clave(p)
  IN  /\ Difunde(p, k)
      /\ k \notin Vacios
      /\ ~SoloCapturar(k)
      /\ ~cfg.lista
      /\ \/ sueltas' = sueltas \cup {k} /\ Bien /\ UNCHANGED perdible
         \/ perdible' = perdible \cup {k} /\ Falla /\ UNCHANGED sueltas
      /\ Ir(p, Vuelve(p))
      /\ UNCHANGED <<canal, trabajo, salida, entrada, entorno, repetible>>

\* The sending: recipients, job item, then a plan or the queue. The item of a capture made
\* meanwhile (a run that overlaps, a change of the switches) is overwritten, so that the
\* post is kept nowhere if the sending then fails.
Registra(p) ==
  LET k == clave(p)
  IN  /\ Difunde(p, k)
      /\ k \notin Vacios
      /\ ~SoloCapturar(k)
      /\ cfg.lista
      /\ \/ /\ trabajo' = [trabajo EXCEPT ![k] = "channel"]
            /\ perdible' = IF trabajo[k] = "capture" THEN perdible \cup {k} ELSE perdible
            /\ Bien
         \/ UNCHANGED <<trabajo, perdible>> /\ Falla
      /\ Ir(p, A(p, IF cfg.fraccionar THEN "plan" ELSE "encola"))
      /\ UNCHANGED <<canal, sueltas, salida, entrada, entorno, repetible>>

\* The configuration or the recipients (or the subscriber) cannot be read or written.
DifundeFalla(p) ==
  /\ proc[p].en = "difunde"
  /\ Falla
  /\ Ir(p, Lanza(p))
  /\ perdible' = LanzaPerdible(p)
  /\ UNCHANGED <<canal, registro, salida, entrada, entorno, repetible>>

\* DynamoDbPlanStore.crear: the first write carries the PLAN item and some of the
\* lots, in any order; the others follow. What was there is overwritten.
Mut_LotesDelPlan(k) == 0..(Lotes[k] - 2)
LotesDelPlan(k) == Indices(k)
NuevoPlan(k, s) == [est |-> "pending", next |-> 0, escritos |-> plan[k].escritos \cup s]
CreaPlan(p) ==
  LET k == clave(p)
  IN  /\ proc[p].en = "plan"
      /\ \E s \in SUBSET LotesDelPlan(k) :
            /\ plan' = [plan EXCEPT ![k] = NuevoPlan(k, s)]
            /\ Ir(p, IF s = LotesDelPlan(k) THEN Vuelve(p) ELSE A(p, "lotes"))
      /\ Bien
      /\ UNCHANGED <<canal, registro, emitido, entrada, entorno, riesgos>>
EscribeLotes(p) ==
  LET k == clave(p)
  IN  /\ proc[p].en = "lotes"
      /\ plan' = [plan EXCEPT ![k] = [plan[k] EXCEPT !.escritos = plan[k].escritos \cup LotesDelPlan(k)]]
      /\ Ir(p, Vuelve(p))
      /\ Bien
      /\ UNCHANGED <<canal, registro, emitido, entrada, entorno, riesgos>>
CreaFalla(p) ==
  /\ proc[p].en \in {"plan", "lotes"}
  /\ Falla
  /\ Ir(p, Lanza(p))
  /\ repetible' = repetible \cup {clave(p)}
  /\ UNCHANGED <<canal, registro, salida, entrada, entorno, perdible>>

\* SqsBroadcastQueue.encolar: lot after lot; PartialEnqueueError after the retries.
EncolaLote(p) ==
  LET r == proc[p]
  IN  /\ r.en = "encola"
      /\ Suma(clave(p), r.i)
      /\ Ir(p, IF r.i = Lotes[clave(p)] - 1 THEN Vuelve(p) ELSE [r EXCEPT !.i = @ + 1])
      /\ Bien
      /\ UNCHANGED <<canal, registro, plan, entrada, entorno, riesgos>>
EncolaFalla(p) ==
  /\ proc[p].en = "encola"
  /\ Falla
  /\ Ir(p, Lanza(p))
  /\ repetible' = repetible \cup {clave(p)}
  /\ UNCHANGED <<canal, registro, salida, entrada, entorno, perdible>>

\* An invocation dies. A key marked and unfinished is taken for a duplicate later;
\* a post unfinished or unsaved is read again. Elsewhere a death leaves no trace.
Muere(p) ==
  LET k == clave(p)
  IN  /\ proc[p].en \in EnDifusion \cup {"guarda", "revierte"}
      /\ Falla
      /\ perdible' = perdible \cup ({k} \cap marcas)
      /\ repetible' = repetible \cup {k}
      /\ Ir(p, Libre)
      /\ UNCHANGED <<canal, registro, salida, entrada, entorno>>
-----------------------------------------------------------------------------
(* The dispatcher claims the next lot and reads its item (see PlanDispatch). *)
Mut_Cierra(k, next) == next = Lotes[k] + 1
Cierra(k, next) == next = Lotes[k]
Despacha(k) ==
  LET m == plan[k]
  IN  /\ m.est = "pending"
      /\ plan' = [plan EXCEPT ![k] =
                    [m EXCEPT !.next = m.next + 1,
                              !.est = IF Cierra(k, m.next + 1) THEN "done" ELSE m.est]]
      /\ IF m.next \in m.escritos THEN Suma(k, m.next) ELSE UNCHANGED emitido
      /\ UNCHANGED <<canal, registro, entrada, proc, entorno, riesgos, fallos>>

CambiaConfig ==
  /\ cambios < MaxCambios
  /\ cambios' = cambios + 1
  /\ \E c \in DOMAIN cfg : cfg' = [cfg EXCEPT ![c] = ~@]
  /\ UNCHANGED <<canal, registro, salida, entrada, proc, riesgos, fallos>>

\* What goes well in an invocation, and what fails.
Sondea(p) == Corre(p) \/ Primera(p) \/ Siembra(p) \/ Mira(p) \/ Guarda(p)
Atiende(p) ==
  \/ \E e \in Envios : Llega(p, e)
  \/ Salta(p) \/ Marca(p) \/ Ejecuta(p) \/ Revierte(p) \/ Responde(p)
Emite(p) ==
  \/ DescartaVacio(p) \/ Captura(p) \/ CapturaSinLista(p) \/ Registra(p)
  \/ CreaPlan(p) \/ EscribeLotes(p) \/ EncolaLote(p)
Tropieza(p) ==
  GuardaFalla(p) \/ MarcaFalla(p) \/ DifundeFalla(p) \/ CreaFalla(p) \/ EncolaFalla(p) \/ Muere(p)

Next ==
  \/ Publica
  \/ CambiaConfig
  \/ \E p \in Corridas : Sondea(p)
  \/ \E p \in Peticiones : Atiende(p)
  \/ \E p \in Corridas \cup Peticiones : Emite(p) \/ Tropieza(p)
  \/ \E k \in Claves : Despacha(k)

\* EventBridge starts the poller again and again, Telegram and the hub repeat what
\* is not answered, and an invocation that lives goes on. (The dispatcher is
\* PlanDispatch's: nothing here waits for it.)
Fairness ==
  /\ \A p \in Corridas : WF_vars(Sondea(p) \/ Emite(p))
  /\ \A p \in Peticiones : WF_vars(Atiende(p) \/ Emite(p))

Spec == Init /\ [][Next]_vars
FairSpec == Spec /\ Fairness
-----------------------------------------------------------------------------
\* What the system has done with a key: left out, captured, planned, sent or run.
Atendido(k) ==
  \/ k \in SinTexto \cup Vacios \cup sueltas \cup ejecutados
  \/ trabajo[k] = "capture"
  \/ plan[k].est # "no"
  \/ \A i \in Indices(k) : emitido[k][i] > 0

\* What comes from a group through the hub is captured and never sent to the
\* contacts, whatever the switches say and however they change (hub_entrada.py:
\* solo_capturar=True always).
HubNuncaDifunde ==
  \A k \in Hub : /\ trabajo[k] # "channel"
                 /\ plan[k] = Ninguno
                 /\ \A i \in Indices(k) : emitido[k][i] = 0

\* A request answered with 200 leaves nothing behind: each of its keys has been
\* attended, is being so by some invocation, or met one of the weak spots of the
\* code: a death after the mark, an exception in the entry of the hub, a revert
\* that failed, a partial enqueue, a capture whose item could not be written.
NadaSePierde ==
  \A e \in acusados : \A j \in 1..Len(Cuerpo[e]) :
     \/ Atendido(Cuerpo[e][j])
     \/ Cuerpo[e][j] \in perdible
     \/ EnManos(Cuerpo[e][j]) # {}

\* The mark never passes a post of its time that has not been attended: only the
\* backlog of the first runs, and posts beyond those the reader returns, are left out.
MarcaNoSalta ==
  \A x \in Posts : semilla < x /\ x <= hwm =>
     Atendido(x) \/ x \in perdible

\* Without overlapping runs, deaths, exceptions or a dedup table that fails, a key
\* goes out once: no lot of it reaches its recipients twice.
UnaVez ==
  \A k \in Claves \ repetible : \A i \in Indices(k) : emitido[k][i] <= 1

\* A lot is claimed without its recipients only while the plan is being written, or
\* after its writing was cut short (the PLAN item is visible before its lots).
HuecoSoloAMedias ==
  [][\A k \in Claves :
       plan'[k].next = plan[k].next + 1 /\ plan[k].next \notin plan[k].escritos =>
         \/ k \in repetible
         \/ \E p \in Corridas \cup Peticiones : proc[p].en = "lotes" /\ clave(p) = k]_vars

\* With the capture on for good the mark catches up with the channel, and with the
\* token of the hub in place every request ends up answered.
TodoSeAtiende ==
  /\ <>[]cfg.capturar => <>[](publicados = 0 \/ hwm = publicados)
  /\ <>[]cfg.token => <>[](acusados = escenario.envios)
=============================================================================
