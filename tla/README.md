# A formal model of Replica, the Telegram and WhatsApp sender

TLA+ specifications, TLC runs and TLAPS proofs for the program under `src/`:
AWS Lambda functions in Python (`src/src/lambda`) over DynamoDB and SQS, and a
Node.js service that holds the WhatsApp socket (`src/whatsapp-service`). The
names of the source are kept where TLA+ allows it, so the modules mix its
Spanish and English.

## 1. The system

| Part | State it keeps | Operations | Who it works with |
|---|---|---|---|
| Broadcasts (`application/broadcasting.py`) | none | capture a post, send at once, compose by hand | writes a job and a plan; or puts lots straight into SQS |
| Plan store (`DynamoDbPlanStore`) | per plan: status, two cursors, dispatched counts, the lot in flight | create, claim (`registrar_dispatch`), `limpiar_inflight`, `resolver_wa`, `finalizar`, `cancelar`, `borrar`, `descartar` | shared by the dispatcher, the worker and the panel |
| Dispatcher (`application/dispatch.py`) | none between ticks; a snapshot within one | one tick a minute: measure the lot in flight, then claim and hand over one lot | plan store, job counters, SQS, WhatsApp service |
| Queue and DLQ (`adapters/sqs.py`, template) | messages, receptions | send, receive, return, redrive, purge | dispatcher to worker |
| Worker (`entrypoints/worker.py`, `application/deliver_batch.py`) | none between invocations | gates, delivery by recipient, counting, anti-ban strikes | dedup, jobs, plans, configuration, Telegram |
| Dedup store | marks with a TTL of a day | `marcar`, `marcar_estricto`, `procesado`, `borrar` | worker, receiver, hub |
| Job store (`DynamoDbBroadcastStore`) | counters per channel, text, errors | create, increment, `progreso`, delete | dispatcher reads what the worker and the service add |
| Configuration | pause, strikes, windows, lists, users | get, set, strikes | everybody |
| WhatsApp service (`index.js`) | socket and its generation, contacts, failures | `/count`, `/send`, `/pair`, `/reconnect`, `/reset`, `/blocked/clear` | dispatcher; job counters; session, agenda and failures in DynamoDB |
| Poller (`poll_channel.py`, `entrypoints/poller.py`) | high-water mark; caches of contacts and of the account's status | read the channel, refresh the caches | broadcasts; panel |
| Receiver, hub entry (`receiver.py`, `hub_entrada.py`) | dedup marks | an update of Telegram, a signed call with several messages | broadcasts |
| Schedules (`materialize_schedules.py`, `DynamoDbScheduleStore`) | next run of each message | advance, then send; create, edit, toggle, delete | at the head of each tick; panel |
| Panel (`entrypoints/admin.py`) | lockout counter; users, codes and login in the configuration table | cancel, delete, pause, purge, users, reset codes, login of the account | all the stores |

**Where it is hard.** Nothing is transactional: a tick reads a plan and then acts
on the snapshot through separate conditional or unconditional updates, while
other ticks, the worker and the panel write the same item; EventBridge and SQS
deliver at least once; any invocation may die between two calls; most failures
of the bookkeeping are swallowed on purpose ("fail-open"). The order of two
calls decides whether a death loses a message or repeats it, and the code has
chosen that order case by case.

**What makes it correct.** A lot is handed over at most once, and one at a time;
progress and cursor agree; cancel wins; "done" means delivered; no plan stays
active for ever; a redelivered lot repeats nothing that was marked; what a
worker counts adds up to what the dispatcher waits for; the pause stops what is
automatic and nothing else; failures in a row pause the sending, however many workers overlap. What
comes in is attended to once and not lost, and what comes from a group through
the hub is never sent on. A schedule goes out once, at its hour. The WhatsApp
session is wiped only on request, neither a QR nor a code of a dead socket is shown as
good, and the service ends up connected; nobody is
excluded for a failure that was not theirs. No deletion leaves a sending without
its job; a reset code is good for one password and a few tries; what the panel
shows of the account ends up being true.
`PROJECT.json` lists, line by line, the hazards these properties are for.

## 2. The modules

| Module | Models | Kind |
|---|---|---|
| `PlanDispatch` | plan store, ticks of the dispatcher, what they see of the other parts | detailed |
| `PlanContract` | what the plan store promises about lots | abstract |
| `LotDelivery` | queue, DLQ, worker, `DeliverBatch`, dedup marks, strikes | detailed |
| `LotContract` | what the dispatcher may assume of a lot it handed over | abstract |
| `PlanDispatchProofs`, `PlanSafetyProofs` | typing and safety of `PlanDispatch` | proofs |
| `LotDeliveryProofs`, `LotSafetyProofs` | types, idempotence, counts, strikes and contract of `LotDelivery` | proofs |
| `Ingest` | poller, receiver, hub entry, `BroadcastList.__call__`, creation of a plan item by item | detailed |
| `IngestProofs` | typing, safety and the action property of `Ingest` | proofs |
| `WhatsAppSocket` | the socket, its starts, pairing and session | detailed |
| `WhatsAppService` | slices, agenda, failures, the hub adapter; extends `WhatsAppSocket` | composition |
| `Calendario` | `proximo_run`, windows, lot sizes, delays | pure operators |
| `Schedules` | schedule store, ticks that materialize, panel; extends `Calendario` | detailed |
| `SchedulesProofs` | the calendar on every input; typing and safety of `Schedules` | proofs |
| `BroadcastJob` | jobs beside the status of their plans, deletions | detailed |
| `PanelAuth` | lockout, users, reset codes | detailed |
| `PanelSession` | configuration, login, status and contacts of the Telegram account | detailed |
| `Recipients` | `domain/recipients.py` and its uses | pure operators |
| `Mensaje` | `domain/message.py` and `domain/markup.py`, on the pieces of a line | pure operators |
| `Panel` | the three fronts of the panel together | composition |
| `PanelProofs` | a plan in flight has its job; the codes; the types of the three fronts of `Panel` | proofs |
| `WhatsAppProofs` | pairing, session, failures and slices of `WhatsAppService` | proofs |
| `MCPlanDispatch`, `MCLotDelivery`, `MCIngest`, `MCWhatsAppService`, `MCSchedules`, `MCPanel` | instances for TLC | model checking |

### PlanDispatch

`meta[p]` is the `(pid, "PLAN")` item. A tick of `DispatchCampaigns.__call__` is
cut at each call: `Inicia` (configuration, `activos`, the oldest ready plan and
its snapshot `m`), `MideVuelo` and `LimpiaVuelo` (the lot in flight), then
`ReclamaTg` / `EncolaOk` / `EncolaFalla`, or `CuentaWa` / `ResuelveWa` /
`EsperaWa` / `ReclamaWa` / `ReenviaOk` / `ReenviaFalla`, `SueltaVuelo`, and
`Difiere` or `Finaliza`. `Muere` ends an invocation at any point, which also
stands for a claim that was applied and whose answer was lost. Updates without
condition recreate a missing item, as DynamoDB does (status `fantasma`). `anomalos`
are the plans with a lot let go unfinished (stale, or not accepted) or counted twice.
`pisados` (`Pisa`) are those on which a tick wrote over what it had not read, in the three places
where the code lets it: it cleared a lot in flight that another tick had claimed
meanwhile, it claimed on one channel while a lot of the other was in flight, or it
resolved WhatsApp again with another count.
`Entrega` is the other side of the queue at the grain of a lot; `LotDelivery`
opens it. `Vuelve` brings a Telegram lot back from the DLQ (`dlq_redrive`), or one that
the gate discarded and SQS delivers again; no fairness makes it happen. Time appears as events: `Envejece` (a lot older than `stale_seconds`),
`Vence` (`not_before`), `Abre` and `Cierra` (windows).

Abstractions: lots are numbers of recipients; the read of a lot's ids is part of
its claim, and its size is the planned one, where `dispatch.py:131` takes `len(ids)` as
read (they differ only while `crear` is writing its items, which `Ingest` models); `activos`
is an eventually consistent scan (`dynamodb.py:958-965`), and a tick that is given an older
item stands here as one that read it then and overlapped with what came since; creating or deleting a plan and its lots is one step; the worker's
gate reads pause and plan together (`LotDelivery` splits them); a slice of
WhatsApp reports once, at its end, where the code also reports every 20;
`registrar_error`, `ping`, logs and audit are left out; ties of `created_at`,
the TTL of plans, plans without `broadcast_id` and `marcar_whatsapp_fallido` are
not modelled here. `Ingest` has the creation item by item and a poller that
writes a plan again.

### LotDelivery

One worker invocation takes one message (`BatchSize: 1`). `Recibe` includes the
read of the pause, which comes first; then one action per call: gates
(`Descarta`, `YaEntregado`, `Entra`), signing of the image (`FirmaFalla`), and
per recipient the dedup reads (`Empieza`, `Salta`), the call to Telegram
(`Llega`, `Repite`, `Bloquea`, `Lanza`) and the mark (`Marca`, first for the photo and then
for the text when they travel apart); then `Termina`, `Cuenta`, `Cierra`,
`Reinicia`, `Confirma`, or `Strike`, `PausaAuto`, `Devuelve`. Reads that fail
open and writes that are swallowed take a unit of `MaxFallos`. A message is
hidden while it is being processed, since the visibility timeout (360 s) exceeds
that of the worker (300 s). `Reaparece` is a redelivery of what was already
deleted, `Caduca` the expiry of marks while the lot sits in the DLQ.

Work is named by its dedup key: a recipient's text, its photo, the lot's count.
`hechas` counts how often each was really done; `riesgo` collects the pieces
whose mark was not written, was lost or could not be read, and those that `_post` sent
again within one call because Telegram took them and answered 5xx (`Repite`,
`telegram.py:52-75`). So "at most once" is
stated without hiding the places where the code accepts a repetition.

With scheduling off a manual broadcast travels through `encolar`, whose messages carry
no `manual` flag (`sqs.py:61`), so that a pause drops it (`worker.py:107`), although
`broadcasting.py:495-498` says that a manual one always goes out. The model has it
(`SinPlan`), `ManualNoSePierde` excepts it, and no run is spent on it.

Abstractions: a lot with a short text and a photo is one piece; the repetitions of
`_post` are bounded by `MaxFallos`, not by their number of four; logging,
`registrar_error` and `marcar_inactivo` are left out; the deployed
`maxReceiveCount` is 5, the runs use 2 and 3.

### Ingest

`proc[p]` is an invocation, of the poller (`Corridas`) or of the receiver
(`Peticiones`): where it is (`mira`, `guarda`, `dedup`, `difunde`, `plan`, `lotes`,
`encola`, `revierte`, `responde`), the keys it has in hand and the one it is at.
A post's key is its number, a request carries the keys of its messages. The
poller reads what is beyond the mark, broadcasts one post and saves the mark
after each; a first run only saves the last post it saw, in two calls (`Primera`,
`Siembra`), between which an overlapping one may save a later mark: `semilla` is the highest
mark so saved, and `Retrocede` the posts that a lower one brings back; the receiver marks (`Marca`, `MarcaFalla`: A8), broadcasts, and on an
exception reverts the mark (`Revierte`), unless it came through the hub or a part
is already enqueued. `Difunde` stands for the gates of `BroadcastList.__call__`
in their order (empty text, capture only, no list chosen, sending), `CreaPlan` and
`EscribeLotes` for the PLAN item and then its lots, `EncolaLote` for the direct
path. `Despacha` is the dispatcher, only as far as claiming lots of a plan whose
items may not be there yet. Telegram and the hub repeat a request until they are
answered, also while an earlier delivery is still being served.

The code accepts losses and repetitions at some points; the history variables
`perdible` and `repetible` collect the keys that went through one, each
at the action where it happens, and the properties speak of the others:

* lost: a death after the mark; an exception or a death in the hub entry, whose
  mark is never reverted, so that the retry is taken for a duplicate
  (`receiver.py:192-195` holds the contrary: that this "es lo único que no puede
  pasar"); a duplicate answered with 200 while the first delivery fails later and
  reverts; a revert that fails; a partial enqueue; a capture whose item could not
  be written (`_registrar` swallows it) or that a second run writes over; posts beyond the window of the reader;
* twice: overlapping runs of the poller, a mark that goes back because the slower
  run saves last, a death between the plan and the mark. The plan is then written
  again with its cursors at zero, although `poll_channel.py:54-57` relies on the
  deterministic key not to duplicate.

### WhatsAppSocket and WhatsAppService

JavaScript runs one callback at a time, so that a step is what runs between two
awaits. `WhatsAppSocket` has `doStart` cut at its awaits (`Arranca`, wiping,
reading, creation of the socket), the chain that serializes starts, the events of
the socket in use and of those already replaced, pairing by QR (`LlegaQR`, `QRPintado`, as the
image is painted after an await) and by code, the
reconnection timer, and the requests `/pair`, `/reconnect` and `/reset`. Losses of
the connection, failing calls, requests and restarts of the process are bounded by
`cupo`. `WhatsAppService` adds `resolverTargets`, `/count`, `/send`, `enviarLote`
message by message (`Envia`, `Resulta`, `Incr`), the agenda, the failures with
their delayed writes, of which several may be in flight and land in any order,
`/blocked/clear`, and `HubWhatsAppForwarder`, which sends a slice itself.

What the properties except, by history variables or, `Conecta`, by its own conditions:

* `rancio`: `doStart` does not reset `connected` when it replaces a connected
  socket, as after `/reconnect` or `/reset`: `/send` is accepted on a socket that
  is not open yet, and every contact of the slice counts a failure, contrary to
  what `index.js:620-624` and `649-651` (A10) are for;
* `aMedias`: a `clearAll` that fails leaves its flag up; if the socket of that
  start gets linked, the restart that follows deletes the new session, contrary to
  `index.js:187-188`;
* `revivible`: a delayed write of the failures in flight may land after that of
  `/blocked/clear`, and a failing one is swallowed;
* `Conecta` promises a connection for a session that stays alive, but for four cases in
  which the service stays down until somebody acts: ceded to another host (440); told
  that the session was over (401, `loggedOut`), where `index.js:329-336` neither clears nor
  reconnects although `whatsapp-service/README.md:109-111` holds that it recovers by itself;
  a socket created without credentials while the session is another host's; and a close
  while pairing. The last one is a dead end of the code (`index.js:325-328`) that the
  documents deny: `whatsapp_linked_by_code` shows it;
* `movido`, `perdido`, `dudosos`: targets that changed since `/count`, reports
  that were lost, messages that arrived although their socket fell.

Seen while modelling and not stated as properties: neither `doStart` nor `/reconnect`
clears the QR of the socket they replace, so an old one is shown until the new socket paints
its own (`CodigoVivo` speaks of the code, and of the QR only while pairing by code); the error of an old
`requestPairingCode` is stored without looking at its generation; two requests of
`/pair` share number and code; with the hub, `pattern_exceptions` lift an explicit
exclusion, which the own service does not, and the answer of its `forward` carries
no `accepted`, so that the dispatcher marks those sendings as failed.

### Calendario and Schedules

`Calendario` has `proximo_run`, `ventana_abierta`, `total_lotes`,
`cap_batch_size` and `delay_aleatorio`, parameterised by the lengths of a minute, a
day and a week, each with the definition it is checked against. In `Schedules` a
tick reads the due ones, the configuration, then advances and sends one after
another, and may die or meet a failing call in between; the panel reads an item and
writes it back in another step, with a body that may bring `enabled` true, false or not at
all (`Activo`). `cruzados` are the schedules written from a reading
no longer current (overlapping ticks send twice there: no update has a condition),
`perdidos` those with an occurrence let go by a failure after the advance, which the
code accepts, `tocados` those the panel is changing. Seen on the way: a partial update
after a deletion recreates an item without text (`fantasma`); enabling a schedule
already due skips that occurrence; a pause that is read just before it is lifted loses
one.

### Panel

One behaviour has the requests of one front (`frente`), since the three work on
different items; `MCPanel` starts from all of them.

* `BroadcastJob`: a sending writes its job and then its plan (`_registrar`,
  `_crear_plan`), a deletion of finished jobs reads the plans in flight, then the
  jobs, then deletes one by one (`activos`, `borrar_terminados`,
  `BorraTerminado`), any other deletes the plan and then the job
  (`_borrar_difusion`). `_estado` derives the status shown from the counters and
  from the age. Deletions that cross a sending of the same id, and failing calls,
  are in `causas`: when the plans in flight cannot be read, none is taken to be
  in flight and the jobs of long sendings are deleted; a deletion between job and
  plan leaves a plan without job.
* `PanelAuth`: users and codes are an item each, read whole and written back whole
  by containers that overlap. `_autorizado` and `_auth_fallo` are the lock, the
  operations on users share `LeeUsuarios` and `set_users`, the codes
  `_auth_forgot`, `PideReset`, `_auth_reset` and `set_resets`. `pisados` collects the
  codes whose record was written from a reading no longer current or by a call that
  failed: there a code may be tried more often, or used again. A failing read of the users is
  swallowed where a password is checked (`LeeUsers`), and leaves the password of the
  environment alone. Seen on the way: a record is dropped after five wrong codes
  (`admin.py:372-373`), and with it the waits and the number of codes sent that
  `admin.py:340-346` count in it (A5), so that a user who asks again starts afresh: `CodigoAcotado`
  speaks of the tries of each code, not of a user's;
  changes of two users made at once lose each other; a reset, a change of password
  or of patterns that overlaps with a deletion recreates the record without a
  role, and a record without role is read as an administrator's, against
  `admin.py:248-250`, which counts on new users always having one.
* `PanelSession`: login in two requests with what Telegram knows of each session,
  logout, `POST /api/config` with A12 (checked only when sending is switched on),
  and the two caches with their TTLs, written by the poller and by live readings.
  A slow reading of an earlier session may be written after a login; the caches are
  not cleared by login or logout. Where the configuration has no session, `TELETHON_SESSION`
  of the environment is used (`entorno`, `Usada`; `telethon_user.py:38`): after a logout
  the account of the deployment goes on sending, although the panel says (`admin.py:3512`) that
  it "dejará de poder enviar hasta que la reconectes aquí". `account` reads the
  configuration twice, and stores "not authorized" when the second reading finds that the
  account is no longer the one that sends. `EstadoAlDia` says that the caches end up telling the
  truth of the session in use, wherever it comes from, and of there being none.
* `Recipients` is checked by the ASSUMEs of `MCPanel`.

### Mensaje

Lines are sequences of pieces (a symbol, COP, an amount, a telephone, a word), and
the operators are what the regular expressions do to them: a price is a symbol or COP
beside an amount, found from left to right without overlaps. Which characters make
which piece stays with the tests. Seen on the way: `desglosar_precios`
(`markup.py:77-82`) pairs the n-th price of the clean text with the n-th of the marked
one because the markup keeps their order and number. It does, but for an amount without
currency right before one whose symbol comes behind: "120000 325000$" becomes "120000
$374.000", and the panel shows "325000$ → 120000 $". The ASSUMEs `DesgloseAlineado`
and `DesgloseDesalineado` of `MCIngest` say exactly that.

### The contracts

`PlanContract` knows a plan's life, its cursors, the lots in somebody's hands and
the lots handed over: a lot is taken only at the cursor of a live plan, the
cursor moves with it, and it is handed over once or lost. `LotContract` is the
other half: a lot is taken or discarded, then counted whole or lost; what was lost
or discarded may come back. Its steps are the ones `PlanDispatch` gives to the
far side of the queue, and `LotDelivery` is shown to implement it.

## 3. The runs

| Run | Instance | What it shows |
|---|---|---|
| `plan_overlap` | 1 plan, 3 Telegram recipients in lots of 2, a `/count` that answers 0 or 1, two ticks, one change, no failures | safety under overlap, one lot at a time and done means delivered outside `pisados`, refinement of `PlanContract` |
| `plan_sequential` | 2 plans (one scheduled and automatic, one manual with WhatsApp), one tick, one failure, one change, fairness | one lot at a time, done means delivered, every plan ends |
| `lot_redelivery` | an automatic lot of 2 recipients, a manual lot of 1 with a photo, one worker, 2 receptions, one failure, one change, fairness | idempotence, marks, counts, the pause, refinement of `LotContract`, every lot leaves the queue |
| `ingest` | 2 posts, or 1 request with 3 messages of the hub, a post or a command; 2 runs of the poller, 2 deliveries; 1 failure, 1 change | nothing lost or sent twice outside the named causes, holes in a plan only while it is written, everything attended to |
| `whatsapp_service` | 4 contacts, slices of 2, threshold 1; each scenario of `MCDifusiones` joins a broadcast with losses, failures, requests or a late contact, or has pairing and no broadcast | failures are real, nobody twice, counters add up, session and codes, it connects in the end |
| `schedules` | 2 schedules (once, daily, weekly) over 4 instants of a week of 2 days of 2 minutes; by scenario 2 overlapping ticks with a failure or a change, 1 tick with 2 changes or with one of each, or 2 creations | once, at its hour, all attended to |
| `panel` | 2 ids and the 3 sets of channels; 2 users, 2 containers, 2 tries to a code; 2 logins of 2 accounts, 2 requests at once, with and without a session in the environment | jobs of plans in flight, codes, caches |
| `plan_ticks_together` | 1 plan of 3 lots, two ticks, nothing fails | **violated**: two lots of one channel at once |
| `plan_deleted_lot` | 1 plan, one tick, a deletion | **violated**: a lot of a deleted plan is delivered |
| `plan_whatsapp_down` | 2 plans, WhatsApp may stay down | **violated**: an outage of WhatsApp stops Telegram |
| `lot_failed_vanishes` | 1 lot that fails whole, 3 receptions | **violated**: it is acknowledged instead of going to the DLQ |
| `whatsapp_linked_by_code` | one `/pair`, nothing fails | **violated**: the session just linked stays down |

Bounds. Two ticks are enough for every race here: a tick interferes with another
one through a single plan item, and a third only adds a second stale snapshot.
Three recipients in lots of two give a full and a short lot; `MaxCambios` and
`MaxFallos` of 1 put one disturbance at every point of every interleaving, and
the proofs remove these bounds for most of the safety properties.
`MaxRecibe` 2 reaches the DLQ, and a redrive starts the count again. Two plans
are needed for head-of-line blocking, two lots for the mixture of automatic and
manual ones and for a streak of failures. In `ingest` the sources share nothing but
the switches, so that a scenario has posts or one request. In `whatsapp_service`
two slices and a third contact to shift them are enough for an overlap; the threshold
of 1 makes one failure exclude. In `schedules` a daily, a weekly and a single
schedule fire more than once within the 4 instants; whole weeks are gone through by
the ASSUMEs over `Calendario`. In `panel` two stale readings of one item need two
containers, and a code that is tried, sent again and used needs four requests; jobs
are deleted by age with `EdadTerminal` at 1. Deadlock is not checked: once every
plan is closed, every lot is out of the queue and the bounds are spent, the
system rests.

Pure functions. `MCSchedules` holds as ASSUMEs, which TLC evaluates on every run,
that `proximo_run` is the first instant of the calendar after the given one, that
windows open between their ends going round the clock, that lots are as many as
it takes and none empty; `MCPanel` that unions keep the first appearance, that lists
part the contacts in two, that exclusions hold except for what is addressed by hand,
and that WhatsApp is never addressed to everybody by a manual sending; `MCIngest` that
the markup changes well-formed prices and nothing else, that the prices shown side by
side are those of one amount, and that cleaning a post loses no amount and leaves no
telephone or address.

`UnLoteALaVez` and `TerminadoEntregado` except the plans in `anomalos`, where the code gives
up the promise, and says so, and those in `pisados`. Nothing is assumed of how many ticks overlap:
`DispatcherReservedConcurrency` defaults to 0 (`template.yaml:132-140`), which reserves
nothing, and says that sequentiality does not depend on it. So the exception is
the list of the places where it does: `plan_overlap` and the theorems show that no
other interleaving of ticks breaks it, `plan_ticks_together` that the first of the three does.
The worker's reservation is 1 in the template, but both deployments set 0
(`deploy.yml:16,97`, `deploy.ps1:47`): the strikes are therefore bounded by the number of
workers that overlap (`RachaAcotada`), which is proved and not in a run, since two workers
are more than a run explores; idempotence and the contract are proved for any number
of workers, and `lot_redelivery` has one.

Fairness. EventBridge fires every minute and an invocation that does not die runs
on: weak fairness of each tick. SQS keeps invoking the worker: weak fairness of
each worker and of the move to the DLQ. Time passes: windows open, `not_before`
and `stale_seconds` arrive. `PlanTermina` also assumes that the operator ends a
pause and that WhatsApp comes back; `plan_whatsapp_down` drops the last one.
Failures, deaths and the panel have no fairness.
In `ingest`, EventBridge starts the poller again and again, Telegram and the hub
repeat what is not answered, and an invocation that lives goes on; the dispatcher has
no fairness there. In `whatsapp_service` the process does what it has queued or
timed and WhatsApp answers to a session; nobody has to scan or to type a code, and
`Conecta` only speaks of sessions that are valid. In `schedules`, ticks. In `panel`, the
runs of the poller and the TTL of the contacts, nothing of what users do.

### What the violated runs say

1. `dispatcher.py` (M28) and the template hold that two simultaneous ticks can at
   worst claim one lot of each channel, the latter (139-140) that sequentiality does not
   depend on the reservation. `limpiar_inflight` has no condition: tick
   A reads the plan with lot 0 in flight and finished; tick B clears it and claims
   lot 1; A now clears lot 1; a third tick claims lot 2.
2. Deleting a broadcast is meant to make the worker discard its lots, as the plan
   is gone. A tick that read the plan before writes `limpiar_inflight` after,
   DynamoDB recreates the item, and `descartar` finds a plan that is not canceled.
3. "An outage of WhatsApp NEVER blocks the Telegram lots" holds within one plan.
   Across plans, the oldest one waits for its count and the tick ends there.
4. One automatic lot that fails whole twice is two strikes; sending is paused and
   its third delivery is acknowledged by the pause gate. It is neither retried
   nor in the DLQ, against the contract at the head of `worker.py`.
5. The service's README and `vincular-whatsapp-local.ps1` end the link by code as the link
   by QR: it says "CONECTADO" by itself. After the code is typed WhatsApp closes the
   socket for a restart (515), "normal justo tras vincular" (`index.js:91`), but
   `pairNumber` is still set, as only an open clears it, and `connection.update` returns
   before reconnecting (`index.js:325-328`). The session is saved and good, and nothing
   starts a socket with it until somebody calls `/reconnect` or the process restarts.

## 4. The proofs

All for every value of the constants that satisfies the module's assumption, so
for any number of plans, ticks, recipients, failures and changes.

* `TypeCorrect`: `TypeOK` is inductive; one lemma for the updates of the item, one
  for each group of actions.
* `LotOnce`, `HandsApart`: "handed over at most once" is not inductive. It needs
  `ManoUnica`: ticks and lots only speak of plans that were created (`Nacidos`);
  while a plan can be claimed from, its cursor is past every lot that a tick
  holds or that was handed over (`CursorPasado`); no two hands hold one lot
  (`ManosDistintas`). The claim preserves it because its condition compares the
  cursor; recreated items have no cursor and cannot be claimed from.
* `FlightCoherent`: the claim writes both sides, every other update keeps them.
* `DispatchedExact`: needs `FotoExacta`, that the snapshots are exact as well.
* `CancelWins`: an action property, from what each update does to a canceled plan.
* `ImplementsContract`: initial states map to initial states, each step maps to a
  step of `PlanContract` or a stutter, with `ManoUnica` as invariant.
* `OneLotAtATime`, `DoneMeansDelivered`: `UnLoteALaVez` and `TerminadoEntregado`, for any
  number of ticks that overlap. `EnSecuencia` (`PlansInOrder`) is inductive: of a
  plan in neither `anomalos` nor `pisados`, what may still be delivered is its lot in flight (`UnoSolo`:
  outstanding, or lost or discarded, since a redrive or SQS may bring it back), and
  the counters of its job leave room for that lot (`Acotado`), so that the count reaches
  the target only when the lot was counted whole; every claimed lot but the one in
  flight was delivered (`Cumplido`); what the tick read agrees with the plan, unless
  the plan can no longer be claimed from (`Sigue`); and a deleted plan cannot be claimed from
  (`Origen`). No sum over lots is needed.

Of `LotDelivery`, for any number of workers, lots, recipients and receptions, every safety
property and the refinement:

* `TypeCorrect`, by step; with it `EnRango`, that a worker sends and marks only
  recipients of its lot.
* `Idempotent`: `AloSumoUnaVez` alone is not inductive. A redelivered lot repeats
  nothing because (`UnaMano`) a message is hidden while one worker, and only one,
  holds it, (`SinMarca`) what that worker is about to do has no mark that could
  still be trusted, and (`Anotado`) what was done is marked, or in the hands of
  the worker that is going to mark it, or at risk. `Dentro` adds that what is
  about to be marked was done. `LotSafetyProofs` first shows that every step is of
  one of four kinds (`Aparta`, `Hace`, `Anota`, `Olvida`), and then argues from the
  kinds alone.
* `AtMostOnce`, `MarksAreDone`, `ManualKept` follow; the last one because only
  `Descarta`, `YaEntregado` and `Confirma` delete a message, and the panel never
  brings a plan back.
* `SentArrived`: `EnviadoLlego` with `InvEnviado`: a worker has reached, in this attempt
  or an earlier one, as many recipients of its lot as it has counted as sent, and a job
  counts no more than were reached of the lots counted in it. A lot counted for the
  first time brings recipients that were in no earlier count.
* `StrikesBounded`: `RachaAcotada` with `InvRacha`, for any finite set of workers: at most
  `Umbral` automatic lots failed whole in a row for each worker before the sending is
  paused. Two workers may both be let in before the first one fails, so that less is not
  true of more than one. While the sending is on, each
  worker may have added one failure to the row that no strike shows, because another
  one cleared the strikes after it, and one that it has not written yet; once it is off,
  only the lots already let in lengthen the row.
* `ImplementsLotContract`: `CumpleContrato`, with `InvCuenta`: the recipients a worker has been
  through are those it counted one way or another, so what it adds to the job is the
  whole lot; and past the gate its lot is in `entro`. `VidaTrabajo`, `VidaPropia` and
  `VidaEntorno` say what each step does to the life of each lot.

Of the panel, for any ids, posts, clock, channels and failures:

* `RunningHasJob`: `EnVueloTieneJob` holds because a sending writes its job before
  its plan (`EnvioTieneJob`: a request between the two calls has its job) and a
  deletion is only about to take the job of a plan that is not in flight
  (`BorraParados`: what was read before the jobs covers the plans in flight; what
  is being taken has had its plan deleted first). The requests of the other two
  fronts do not touch these items.

Of `Ingest`, for any posts, requests, lots, invocations, switches and failures, every
invariant and the action property:

* `Tipos` (and `TiposIngest`): what an invocation holds at each point of its code
  (`Forma`): a run of the poller a stretch of consecutive posts, a delivery what is left
  of its request; where a plan is live, its cursor is below its lots.
* `NadaDelHubSale`: a delivery from the hub never reaches the direct path nor writes a
  plan, whatever switch changes on the way.
* `MarcaSinSaltos`: `MarcaNoSalta` with `Pasados`: a run that broadcasts a post or saves
  the mark explains every post between the mark and its own.
* `NadaPerdido`: `MarcasVivas`, a mark of the dedup table stands for a key that is
  resolved or in the hands of an invocation that goes on with it or reverts it, and
  `DebidasVivas`, a key that has been answered for is resolved or marked.
* `NadaDosVeces`: `Una(k)` for each key outside `repetible`: at most one invocation has it
  in hand, and as long as one has it nothing of it is out that the invocation did not
  put there; the mark of the channel or of the table keeps the others away.
* `HuecosSoloAMedias`: a pending plan has all its lots, or is being written (`Completo`).
* `PrecioAlAlza`: what `_escalar` of `Mensaje` gives for every price and every percentage from
  -100 up: whole thousands, between the exact amount and a thousand more, in the order of
  the prices.

Of the scheduled messages, for any number of schedules, ticks, requests, failures and
lengths of the day and the week, all the invariants:

* `ProximoEsPrimero`: `proximo_run` is the first instant of the calendar after the given
  one (`Primero`), on every input. The calendar has a least next instant (`HayMinimo`, from
  the well-foundedness of strict inclusion on finite sets, where an induction would
  be natural) and it cannot lie on any day but those the code tries (`Adelante`, `Vuelta`).
* `VentanaDaLaVuelta`, `LotesJustosSiempre`, `TamanoAcotado`, `DelayEntreExtremos`: what
  `MCSchedules` evaluates on small calendars of windows, lots, sizes and delays, on every
  input; an end of a window that `_hhmm_a_minutos` cannot read stands for midnight.
* `Partes`, and `TiposSchedules` from it: the items are what a form or an advance can
  write, a tick has in hand what was due when it read, a request what the panel checked.
* `EnOrdenSiempre`: `UnaVez` and `EnHora` are not inductive. For an item that nobody wrote
  from a stale reading, its last calculation lies after everything that was sent for
  it and before its next run (`Ordenado`), and a tick that is about to send is alone with
  that hour and has already advanced the item (`Adelantado`). That a reading is still
  current is compared by value, so an item could have changed and come back:
  `Vigente` shows that then nothing was calculated in between that matters.
* `NadaDosVeces` and `SiempreEnHora` follow.

Of the codes to reset a password, for any number of containers, users and codes, and of
the three fronts of the panel:

* `CodesBounded`: `CodigoAcotado` is not inductive. Its records are read whole and written
  back whole without condition, so what a request carries between the two calls counts as
  much as what is stored. Wherever a code is, stored, carried or sent last, it is of one
  user (`Duenos`); a number not sent yet is nobody's and untouched (`Frescos`); a write is
  its reading but for one user, whose code was tried once more, dropped or new
  (`Escritura`, `EnCurso`); and a stored code that no stale reading and no failing call
  met has counted each of its wrong tries, has reset nothing and is the last of its user
  (`Vigor`).
* `PanelTypes`: `TypeOK`. The codes sent are bounded by a count of the requests let
  through (`FormaAuth`); what a request or a run of the poller carries is what the step
  it is at is going to write (`Procesos`, `PedidoBien`), and a body may only bring fields
  of the configuration with values they may have (`Cabe`).

Of the WhatsApp service and the hub, for any number of contacts, slices, requests,
failures, losses and restarts:

* `WhatsAppTypes`: `TypeOK`, part by part (`ServicioInv`). A slice that has its contacts
  still to send owes less than one report (`LoteSano`); the targets are distinct because
  `Ordenados` lists a set without repeating (`OrdenadosBien`: the ranks of the elements of
  a finite set are all the numbers up to its size) and the hub keeps the first of each id.
* `LiveCode`: `CodigoVivo` with `CodigoInv`: while a start is due or runs, or nobody is
  pairing, no code is shown, a pairing by code has no QR (`QRInv`: the request clears it, and
  an image still being painted is of a socket about to be replaced), and a request of a code in flight of the current socket
  belongs to a socket without credentials that nothing is about to replace.
* `DeletedOnRequest`: `BorradoAPedido`, an action property, with `BorradoInv`: a start
  clears the session only with the flag up, and the flag, which a request puts up while it
  forgets the link, comes down with the deletion unless it failed.
* `OnlyRealFailures`: `SoloFallosReales` bounds what is in memory; what is stored and what
  is being written may come back, so `FallosInv` bounds them all. A message leaves only on
  an open socket while none was replaced connected (`RancioInv`).
* `NobodyTwice`: `NadieDosVeces` with `UnaInv`: the positions of the counted targets that a
  slice may still send to (`Pendientes`) hold contacts that have received nothing. The
  slices lie apart (`SlicesSeparadas`) and the targets do not repeat, so that what
  one slice sends, or what was on its way when the process died, is pending nowhere else.
  The hub resolves the targets anew in every slice, and always to those counted
  (`ContadoInv`).
* `ExactCount`: `CuentaExacta` with `CuentaInv`: what arrived through the service is what
  the job counts as sent, what is in doubt and what the slices still owe; and, while the
  targets stay, what is counted and owed is not more than the positions that a slice is
  done with (`Hechas`), of which there are at most as many as targets. Both are sums, over
  contacts and over slices: `EsSuma` shows `MapThenSumSet` to be the size of a set of marks,
  by the well-foundedness of strict inclusion, so that adding one to a summand
  adds one mark (`SumaCambia`) and no induction over data is left.


Only model-checked: all the liveness properties (the provers do not handle fairness).

## 5. Not modelled, and the plan

Done: `PlanDispatch` and its contract, `LotDelivery` and its contract, `Ingest`,
`WhatsAppService`, `Schedules`, `Panel`, with the proofs of section 4. Next:

* what of the liveness can be argued as safety (ranking invariants).

Partly modelled: of the job store, `registrar_error`, `metricas` and the formatting of
`listar`, which keep texts or only read; of the configuration, the normalisation of
texts and numbers; `previsualizar`,
which computes what `enviar_manual` would and sends nothing; of the panel, listings,
the registration of the webhook and the proxies to the WhatsApp service.

Left out for good: HTML, CSS and JavaScript of the panel, the characters
behind the regular expressions of posts and prices, mail, images, audit, wiring, hashing,
the cryptography of the WhatsApp session, and the deployment template beyond the queue's redrive policy and timeouts and the reserved concurrencies it leaves open.
