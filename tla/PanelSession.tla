----------------------------- MODULE PanelSession -----------------------------
(***************************************************************************)
(* The configuration the panel edits and the account that sends by         *)
(* Telegram: the login in two requests, its status and its contacts, both  *)
(* cached for the panel by the poller and read live when the cache is old. *)
(* Each call to DynamoDB or to Telegram is a step; a request and a run of  *)
(* the poller read the configuration again whenever the code does.         *)
(***************************************************************************)
EXTENDS Integers, FiniteSets

CONSTANTS
  Cuentas,       \* [number of a login -> account whose phone was given]
  Con2FA,        \* accounts that ask for a password after the code
  Cambios,       \* bodies of POST /api/config: functions from fields to values
  Sesiones,      \* requests of the panel that may overlap
  Entornos,      \* logins whose session the deployment may bring, or SinSesion
  CasosSesion    \* bounds, one of them: logins, requests, changes, failures, revocations

Logins == DOMAIN Cuentas
SinSesion == 0   \* an empty telethon_session
CupoSesion == [logins : Nat, peticiones : Nat, cambios : Nat, fallos : Nat, bajas : Nat]

ASSUME PanelSessionAssumption ==
  /\ Logins \subseteq Nat \ {0} /\ Entornos \subseteq Logins \cup {SinSesion}
  /\ \A c \in CasosSesion : c \in CupoSesion

VARIABLES
  entorno,    \* TELETHON_SESSION of the environment; it does not change
  cfg,        \* the fields of the configuration that decide here
  login,      \* the item __telethon_login__, or SinLogin
  tg_status,  \* the item __tg_status__; vigente while it is younger than its TTL
  contactos,  \* the item __contacts__: whose they are; vigente as above
  telegram,   \* [login -> how far it is with Telegram]
  poller,     \* the run of the poller
  pedido,     \* [request -> where it is, or SinPedidoS]
  margen      \* what is left of the bounds

varsSesion == <<entorno, cfg, login, tg_status, contactos, telegram, poller, pedido, margen>>
-----------------------------------------------------------------------------
SinLogin == [session |-> SinSesion, phone_code_hash |-> SinSesion]
Ninguna == "ninguna"
CuentasSin == {Cuentas[n] : n \in Logins} \cup {Ninguna}
SinPedidoS == [en |-> "no"]
Editables ==
  {"capture_enabled", "sending_enabled", "auto_telegram_list", "auto_whatsapp_list",
   "whatsapp_enabled", "send_mode", "telethon_session"}
NoVaciar == {"telethon_session"}
Config == [capture_enabled : BOOLEAN, sending_enabled : BOOLEAN, whatsapp_enabled : BOOLEAN,
           auto_telegram_list : {"", "lista"}, auto_whatsapp_list : {"", "lista"},
           send_mode : {"bot", "userbot"}, telethon_session : Logins \cup {SinSesion}]

\* Each field a body brings has a value it may have.
Cabe(cambios) == \E c \in Config : \A k \in DOMAIN cambios \cap Editables : cambios[k] = c[k]
ASSUME CambiosAssumption == \A cuerpo \in Cambios : Cabe(cuerpo)

SesionTypeOK ==
  /\ entorno \in Entornos
  /\ cfg \in Config
  /\ login \in [session : Logins \cup {SinSesion}, phone_code_hash : Logins \cup {SinSesion}]
  /\ tg_status \in [connected : {"nunca", "si", "no"}, me : CuentasSin, vigente : BOOLEAN]
  /\ contactos \in [de : CuentasSin, vigente : BOOLEAN]
  /\ telegram \in [Logins -> {"nuevo", "codigo", "2fa", "valida", "revocada"}]
  /\ poller.en \in {"no", "poll", "contactos", "listar", "set_contacts", "cuenta",
                    "estado", "previo", "put_status"}
  /\ margen \in CupoSesion

\* The defaults of the store. A deployment that brings a session sends with it.
_defaults ==
  [capture_enabled |-> TRUE, sending_enabled |-> TRUE, whatsapp_enabled |-> FALSE,
   auto_telegram_list |-> "", auto_whatsapp_list |-> "",
   send_mode |-> IF entorno = SinSesion THEN "bot" ELSE "userbot",
   telethon_session |-> entorno]

InitSesion ==
  /\ entorno \in Entornos
  /\ cfg = _defaults /\ login = SinLogin
  /\ tg_status = [connected |-> "nunca", me |-> Ninguna, vigente |-> FALSE]
  /\ contactos = [de |-> Ninguna, vigente |-> FALSE]
  /\ telegram = [n \in Logins |-> IF n = entorno THEN "valida" ELSE "nuevo"]
  /\ poller = [en |-> "no"] /\ pedido = [s \in Sesiones |-> SinPedidoS]
  /\ margen \in CasosSesion

BienS == UNCHANGED margen
FallaS == margen.fallos > 0 /\ margen' = [margen EXCEPT !.fallos = @ - 1]
Gasta(que) == margen[que] > 0 /\ margen' = [margen EXCEPT ![que] = @ - 1]
Userbot == cfg.send_mode = "userbot"
\* Where there is no session in the configuration, the one of the environment is used.
Usada(n) == IF n = SinSesion THEN entorno ELSE n
Autorizada(n) == n # SinSesion /\ telegram[n] = "valida"
-----------------------------------------------------------------------------
(* What Telegram answers of a session, and what is stored of it: steps     *)
(* that the poller and the panel share, each with its own process r.       *)
\* A call to Telegram comes out, if it can, or fails; then it writes nothing.
Llama(posible, sale) ==
  \/ sale = posible /\ BienS
  \/ ~sale /\ FallaS

estado(r) ==
  [r EXCEPT !.en = "previo", !.connected = IF Autorizada(r.session) THEN "si" ELSE "no",
            !.me = IF Autorizada(r.session) THEN Cuentas[r.session] ELSE Ninguna]

\* set_tg_status keeps the identity it finds when none is given.
LeePrevio(r) ==
  [r EXCEPT !.en = "put_status", !.me = IF @ = Ninguna THEN tg_status.me ELSE @]

set_tg_status(r) ==
  \/ tg_status' = [connected |-> r.connected, me |-> r.me, vigente |-> TRUE] /\ BienS
  \/ FallaS /\ UNCHANGED tg_status

\* GetContacts works while the session does.
listar(r) == [r EXCEPT !.en = "set_contacts", !.me = Cuentas[r.session]]

set_contacts(r) ==
  \/ contactos' = [de |-> r.me, vigente |-> TRUE] /\ BienS
  \/ FallaS /\ UNCHANGED contactos

Proceso(paso) == [en |-> paso, session |-> Usada(cfg.telethon_session), connected |-> "no",
                  me |-> Ninguna]
-----------------------------------------------------------------------------
(* The poller: it reads the channel unless the capture is paused, and then *)
(* refreshes the contacts, if they are old, and the status, always.        *)
Va(r) == poller' = r
Mut_TrasLaCaptura == [en |-> IF cfg.capture_enabled THEN "poll" ELSE "no"]

TrasLaCaptura == [en |-> IF cfg.capture_enabled THEN "poll" ELSE "contactos"]

lambda_handler ==
  \/ /\ poller.en = "no" /\ Va(TrasLaCaptura) /\ BienS
     /\ UNCHANGED <<tg_status, contactos>>
  \/ /\ poller.en = "poll"   \* an exception of the reading ends the run
     /\ \/ Va([en |-> "contactos"]) /\ BienS
        \/ Va([en |-> "no"]) /\ FallaS
     /\ UNCHANGED <<tg_status, contactos>>

_refresh_contacts ==
  \/ /\ poller.en = "contactos" /\ BienS
     /\ Va(IF Userbot /\ ~contactos.vigente THEN Proceso("listar") ELSE [en |-> "cuenta"])
     /\ UNCHANGED <<tg_status, contactos>>
  \/ /\ poller.en = "listar"
     /\ \E sale \in BOOLEAN : /\ Llama(Autorizada(poller.session), sale)
                              /\ Va(IF sale THEN listar(poller) ELSE [en |-> "cuenta"])
     /\ UNCHANGED <<tg_status, contactos>>
  \/ /\ poller.en = "set_contacts" /\ set_contacts(poller) /\ Va([en |-> "cuenta"])
     /\ UNCHANGED tg_status

_refresh_tg_status ==
  \/ /\ poller.en = "cuenta" /\ BienS
     /\ Va(IF Userbot THEN Proceso("estado") ELSE [en |-> "no"])
     /\ UNCHANGED <<tg_status, contactos>>
  \/ /\ poller.en = "estado"
     /\ \E sale \in BOOLEAN : /\ Llama(TRUE, sale)
                              /\ Va(IF sale THEN estado(poller) ELSE [en |-> "no"])
     /\ UNCHANGED <<tg_status, contactos>>
  \/ /\ poller.en = "previo" /\ Va(LeePrevio(poller)) /\ BienS
     /\ UNCHANGED <<tg_status, contactos>>
  \/ /\ poller.en = "put_status" /\ set_tg_status(poller) /\ Va([en |-> "no"])
     /\ UNCHANGED contactos

Poller ==
  /\ lambda_handler \/ _refresh_contacts \/ _refresh_tg_status
  /\ UNCHANGED <<cfg, login, telegram, pedido>>
-----------------------------------------------------------------------------
(* The panel.                                                              *)
Sigue(s, r) == pedido' = [pedido EXCEPT ![s] = r]
Responde(s) == Sigue(s, SinPedidoS)
Atiende(s) == pedido[s] = SinPedidoS
Esta(s, paso) == pedido[s].en = paso

\* What is not a field to edit is dropped, and so is a blank secret.
_sanea_config(cambios) ==
  [k \in {k \in DOMAIN cambios \cap Editables : k \in NoVaciar => cambios[k] # SinSesion}
     |-> cambios[k]]
\* The configuration with the changes over it.
Aplicados(cambios) ==
  [k \in Editables |-> IF k \in DOMAIN cambios THEN cambios[k] ELSE cfg[k]]

\* A12: no automatic sending without a list for each channel in use.
Faltan(efectiva) ==
  \/ efectiva.auto_telegram_list = ""
  \/ efectiva.whatsapp_enabled /\ efectiva.auto_whatsapp_list = ""
Enciende(cambios) == "sending_enabled" \in DOMAIN cambios /\ cambios.sending_enabled

GuardaConfig(s) ==
  \/ /\ Atiende(s) /\ Gasta("cambios")
     /\ \E cuerpo \in Cambios :
          LET cambios == _sanea_config(cuerpo)
          IN  IF Enciende(cambios) /\ Faltan(Aplicados(cambios)) THEN UNCHANGED pedido
              ELSE Sigue(s, [en |-> "set", cambios |-> cambios, borra |-> FALSE])
     /\ UNCHANGED cfg
  \/ /\ Esta(s, "set")   \* also the last calls of sign-in and logout
     /\ \/ /\ cfg' = Aplicados(pedido[s].cambios) /\ BienS
           /\ IF pedido[s].borra THEN Sigue(s, [en |-> "clear_login_temp"]) ELSE Responde(s)
        \/ FallaS /\ Responde(s) /\ UNCHANGED cfg

\* Telegram sends a code to the phone, for a session of its own.
enviar_codigo(s) ==
  \/ /\ Atiende(s) /\ Gasta("logins")
     /\ \E n \in Logins : /\ telegram[n] = "nuevo" /\ \A k \in 1..(n - 1) : telegram[k] # "nuevo"
                          /\ telegram' = [telegram EXCEPT ![n] = "codigo"]
                          /\ Sigue(s, [en |-> "set_login_temp", session |-> n])
     /\ UNCHANGED login
  \/ /\ Esta(s, "set_login_temp") /\ Responde(s)
     /\ \/ /\ login' = [session |-> pedido[s].session, phone_code_hash |-> pedido[s].session]
           /\ BienS
        \/ FallaS /\ UNCHANGED login
     /\ UNCHANGED telegram

\* The code goes with the hash it was sent with, the password with a session that already
\* took the code. Anything else is an error of Telegram (400).
confirmar(tmp, clave) ==
  LET n == tmp.session
  IN  IF clave THEN IF telegram[n] = "2fa" THEN "ok" ELSE "error"
      ELSE IF telegram[n] # "codigo" \/ tmp.phone_code_hash # n THEN "error"
      ELSE IF Cuentas[n] \in Con2FA THEN "needs_password" ELSE "ok"

Conecta(n) ==
  [en |-> "set", borra |-> TRUE,
   cambios |-> [k \in {"telethon_session", "send_mode"} |->
                  IF k = "send_mode" THEN "userbot" ELSE n]]

sign_in(s) ==
  \/ /\ Atiende(s) /\ login.session # SinSesion /\ Gasta("peticiones")
     /\ \E clave \in BOOLEAN :
          LET res == confirmar(login, clave)
              n == login.session
          IN  /\ telegram' = [telegram EXCEPT ![n] = CASE res = "ok" -> "valida"
                                                     [] res = "needs_password" -> "2fa"
                                                     [] OTHER -> @]
              /\ CASE res = "ok" -> Sigue(s, Conecta(n))
                   [] res = "needs_password" ->
                        Sigue(s, [en |-> "update_login_session", session |-> n])
                   [] OTHER -> UNCHANGED pedido
     /\ UNCHANGED login
  \/ /\ Esta(s, "update_login_session") /\ Responde(s)
     /\ \/ login' = [login EXCEPT !.session = pedido[s].session] /\ BienS   \* an upsert
        \/ FallaS /\ UNCHANGED login
     /\ UNCHANGED telegram
  \/ /\ Esta(s, "clear_login_temp") /\ Responde(s)
     /\ login' = SinLogin /\ BienS
     /\ UNCHANGED telegram

\* The session is dropped here, not closed in Telegram.
logout(s) ==
  /\ Atiende(s) /\ Gasta("peticiones")
  /\ Sigue(s, [en |-> "set", borra |-> TRUE,
               cambios |-> [k \in {"telethon_session"} |-> SinSesion]])

\* The status for the header: the cache while it is young, else Telegram. Only the userbot
\* with a session in the configuration has one; the account is built from another reading
\* of it, and if there is none by then a session that is not authorized is stored.
account(s) ==
  \/ /\ Atiende(s) /\ Userbot /\ cfg.telethon_session # SinSesion /\ ~tg_status.vigente
     /\ Gasta("peticiones") /\ Sigue(s, [en |-> "cuenta"])
     /\ UNCHANGED tg_status
  \/ /\ Esta(s, "cuenta") /\ Sigue(s, Proceso(IF Userbot THEN "estado" ELSE "previo"))
     /\ BienS /\ UNCHANGED tg_status
  \/ /\ Esta(s, "estado") /\ UNCHANGED tg_status
     /\ \E sale \in BOOLEAN : /\ Llama(TRUE, sale)
                              /\ Sigue(s, IF sale THEN estado(pedido[s]) ELSE SinPedidoS)
  \/ /\ Esta(s, "previo") /\ Sigue(s, LeePrevio(pedido[s])) /\ BienS
     /\ UNCHANGED tg_status
  \/ Esta(s, "put_status") /\ set_tg_status(pedido[s]) /\ Responde(s)

refresh_contacts(s) ==
  \/ /\ Atiende(s) /\ Userbot /\ Gasta("peticiones") /\ Sigue(s, Proceso("listar"))
     /\ UNCHANGED contactos
  \/ /\ Esta(s, "listar") /\ UNCHANGED contactos
     /\ \E sale \in BOOLEAN : /\ Llama(Autorizada(pedido[s].session), sale)
                              /\ Sigue(s, IF sale THEN listar(pedido[s]) ELSE SinPedidoS)
  \/ Esta(s, "set_contacts") /\ set_contacts(pedido[s]) /\ Responde(s)

PanelSesion ==
  /\ \E s \in Sesiones :
       \/ GuardaConfig(s) /\ UNCHANGED <<login, tg_status, contactos, telegram>>
       \/ enviar_codigo(s) /\ UNCHANGED <<cfg, tg_status, contactos>>
       \/ sign_in(s) /\ UNCHANGED <<cfg, tg_status, contactos>>
       \/ logout(s) /\ UNCHANGED <<cfg, login, tg_status, contactos, telegram>>
       \/ account(s) /\ UNCHANGED <<cfg, login, contactos, telegram>>
       \/ refresh_contacts(s) /\ UNCHANGED <<cfg, login, tg_status, telegram>>
  /\ UNCHANGED poller

\* The owner closes the session from another device.
Revoca ==
  /\ \E n \in Logins : telegram[n] = "valida" /\ telegram' = [telegram EXCEPT ![n] = "revocada"]
  /\ Gasta("bajas")
  /\ UNCHANGED <<cfg, login, tg_status, contactos, poller, pedido>>

CaducaStatus ==
  /\ tg_status.vigente /\ tg_status' = [tg_status EXCEPT !.vigente = FALSE]
  /\ UNCHANGED <<cfg, login, contactos, telegram, poller, pedido, margen>>
CaducanContactos ==
  /\ contactos.vigente /\ contactos' = [contactos EXCEPT !.vigente = FALSE]
  /\ UNCHANGED <<cfg, login, tg_status, telegram, poller, pedido, margen>>

NextSesion ==
  /\ Poller \/ PanelSesion \/ Revoca \/ CaducaStatus \/ CaducanContactos
  /\ UNCHANGED entorno
-----------------------------------------------------------------------------
CacheVerdadera ==
  Userbot =>
    LET n == Usada(cfg.telethon_session)
    IN  /\ tg_status.connected = IF Autorizada(n) THEN "si" ELSE "no"
        /\ Autorizada(n) => tg_status.me = Cuentas[n] /\ contactos.de = Cuentas[n]

\* However logins, revocations, edits and slow requests of the panel cross with the runs of
\* the poller, what is cached ends up telling the truth: whether the session of the userbot
\* in use is authorized and, if it is, its own identity and contacts, not those of an
\* earlier account. Also with the capture paused, and after a logout, which leaves the
\* session of the environment in use if there is one.
EstadoAlDia == <>[]CacheVerdadera
=============================================================================
