------------------------------ MODULE Sessions ------------------------------
(***************************************************************************)
(* The WhatsApp sessions of Voidlark (src/src/whatsapp/connection.ts, with *)
(* the credentials of auth.ts and the handlers of the admin panel that     *)
(* command them).  A session is named by its phone number, or by Pending   *)
(* while a new number is being linked.  When the operator saves the new    *)
(* number, adoptPendingWhatsAppSession moves the pending socket to its     *)
(* phone, but the handlers of the socket keep the name and the generation  *)
(* they were created with.                                                 *)
(*                                                                         *)
(* A step is one synchronous stretch of the event loop, or one query or    *)
(* transaction of the database.  Abstractions:                             *)
(*  - credentials are the number they are linked to, or None; those kept   *)
(*    in the database of a session that was never linked are None too;     *)
(*  - a socket is what WhatsApp made of it and what its handlers close     *)
(*    over; its events come in any order a connection allows;              *)
(*  - of the manager's list, only which numbers are on it;                 *)
(*  - the drawing of a QR code, the legacy session and the shutdown are    *)
(*    left out.                                                            *)
(***************************************************************************)
EXTENDS Naturals, FiniteSets

CONSTANTS
  Phone,         \* numbers
  Pending,       \* the session id 'pending'
  None,
  MaxSockets,    \* bound: sockets that exist at a time
  MaxNumbers,    \* bound: numbers that are registered at a time
  MaxCommands,   \* bound: commands of the operator
  MaxIncidents   \* bound: connections that close, starts and clean-ups that fail

ASSUME SessionsAssumption ==
  /\ Pending \notin Phone /\ None \notin Phone \cup {Pending}
  /\ MaxSockets \in Nat /\ MaxNumbers \in Nat
  /\ MaxCommands \in Nat /\ MaxIncidents \in Nat

Id     == Phone \cup {Pending}
Socket == 1..MaxSockets

VARIABLES
  gen,         \* generations
  active,      \* activeSockets; 0 for no entry
  alias,       \* sessionAliases.get('pending')
  authAlias,   \* the same map of auth.ts
  timer,       \* reconnectTimers
  flight,      \* the start in progress of each session
  socket,      \* the sockets
  creds,       \* auth_keys
  status,      \* state of getWaSessionStatus
  detected,    \* phone of the status of Pending
  registered,  \* numbers of the WhatsAppManager
  renaming,    \* phones whose 'open' handler awaits renameAuthState
  cleaning,    \* sessions logged out: clearAuthState, then a reconnect
  clearing,    \* sessions stopped: clearAuthState, then perhaps removeSession
  commands, closes, failures

mapVars   == <<gen, active, alias, authAlias, timer, flight>>
storeVars == <<creds, status, detected, registered>>
taskVars  == <<renaming, cleaning, clearing>>
boundVars == <<commands, closes, failures>>
vars == <<mapVars, socket, storeVars, taskVars, boundVars>>

\* sid and gen are what the handlers close over: sessionId and myGen.
Live == {"new",       \* made, not yet connecting
         "qr",        \* shows a QR code
         "scanned",   \* the code was scanned; WhatsApp will restart the stream
         "login",     \* connects with linked credentials
         "open"}
SocketRecord == [conn : Live \cup {"ended", "closed"}, sid : Id, gen : Nat,
                 acct : Phone \cup {None}, worker : BOOLEAN]
StartRecord  == [gen : Nat, by : {"timer", "operator"}, acct : Phone \cup {None}, read : BOOLEAN]
NoSocket == [conn |-> "ended", sid |-> Pending, gen |-> 0, acct |-> None, worker |-> FALSE]
Begun(g, by) == [gen |-> g, by |-> by, acct |-> None, read |-> FALSE]
NoFlight == Begun(0, "timer")

TypeOK ==
  /\ gen \in [Id -> Nat] /\ active \in [Id -> Socket \cup {0}]
  /\ alias \in Phone \cup {None} /\ authAlias \in Phone \cup {None}
  /\ timer \subseteq Id
  /\ flight \in [Id -> StartRecord] /\ socket \in [Socket -> SocketRecord]
  /\ creds \in [Id -> Phone \cup {None}]
  /\ status \in [Id -> {"none", "connecting", "qr", "open", "error", "logged_out"}]
  /\ detected \in Phone \cup {None} /\ registered \subseteq Phone
  /\ renaming \subseteq Phone
  /\ cleaning \subseteq [id : Id, sid : Id] /\ clearing \subseteq [id : Phone, remove : BOOLEAN]
  /\ commands \in 0..MaxCommands /\ closes \in 0..MaxIncidents /\ failures \in 0..MaxIncidents

\* startConfiguredWhatsAppConnections starts the registered numbers that have
\* credentials.
Init ==
  \E known \in SUBSET Phone :
    /\ Cardinality(known) <= MaxNumbers /\ registered = known
    /\ creds  = [id \in Id |-> IF id \in known THEN id ELSE None]
    /\ flight = [id \in Id |-> IF id \in known THEN Begun(1, "operator") ELSE NoFlight]
    /\ gen    = [id \in Id |-> IF id \in known THEN 1 ELSE 0]
    /\ status = [id \in Id |-> IF id \in known THEN "connecting" ELSE "none"]
    /\ active = [id \in Id |-> 0] /\ socket = [s \in Socket |-> NoSocket]
    /\ alias = None /\ authAlias = None /\ timer = {} /\ detected = None
    /\ renaming = {} /\ cleaning = {} /\ clearing = {}
    /\ commands = 0 /\ closes = 0 /\ failures = 0

-----------------------------------------------------------------------------
(* What the handlers of a socket find.                                     *)

\* sessionAliases.get(sessionId) || sessionId
Runtime(s) == IF socket[s].sid = Pending /\ alias # None THEN alias ELSE socket[s].sid

\* myGen === generations.get(sessionId), and the socket is the active one.
Current(s) == socket[s].gen = gen[socket[s].sid] /\ active[Runtime(s)] = s

\* resolveSessionId of auth.ts
AuthId(id) == IF id = Pending /\ authAlias # None THEN authAlias ELSE id

IsActive(s) == \E id \in Id : active[id] = s
Free(s)     == socket[s].conn \notin Live /\ ~IsActive(s)

\* The socket with what its handlers close over, in another state.
Become(s, conn, acct, worker) ==
  [conn |-> conn, sid |-> socket[s].sid, gen |-> socket[s].gen, acct |-> acct, worker |-> worker]

\* endSocket: the worker stops and the listeners are removed.
EndSocket(s) == socket' = [t \in Socket |-> IF t = s THEN NoSocket ELSE socket[t]]

\* scheduleReconnect replaces the timer of the session.
ScheduleReconnect(id) == timer' = timer \cup {id}

SetStatus(id, state) == status' = [status EXCEPT ![id] = state]

-----------------------------------------------------------------------------
(* startWhatsAppConnection.                                                *)

StartSkipped(id) ==
  /\ flight[id] # NoFlight
  /\ UNCHANGED <<gen, active, alias, authAlias, flight, status, socket>>

\* Up to the first query: the previous socket of the session is ended.
StartNow(id, by) ==
  /\ flight[id] = NoFlight
  /\ gen'    = [gen EXCEPT ![id] = @ + 1]
  /\ flight' = [flight EXCEPT ![id] = Begun(gen[id] + 1, by)]
  /\ active' = [active EXCEPT ![id] = 0] /\ EndSocket(active[id])
  /\ alias'     = IF id = Pending THEN None ELSE alias
  /\ authAlias' = IF id = Pending THEN None ELSE authAlias
  /\ SetStatus(id, "connecting")

Start(id, by) == StartSkipped(id) \/ StartNow(id, by)

\* The reconnect timer fires.
Reconnect(id) ==
  /\ id \in timer /\ timer' = timer \ {id}
  /\ Start(id, "timer")
  /\ UNCHANGED <<creds, detected, registered, taskVars, boundVars>>

\* qr/generate and the status page of the admin panel.
GenerateQr(id) ==
  /\ id = Pending \/ id \in registered
  /\ commands < MaxCommands /\ commands' = commands + 1
  /\ Start(id, "operator")
  /\ timer' = IF flight[id] = NoFlight THEN timer \ {id} ELSE timer
  /\ UNCHANGED <<creds, detected, registered, taskVars, closes, failures>>

\* usePostgresAuthState reads the credentials, or makes new ones.
ReadCreds(id) ==
  /\ flight[id] # NoFlight /\ ~flight[id].read
  /\ flight' = [flight EXCEPT ![id] = [gen |-> @.gen, by |-> @.by,
                                       acct |-> creds[AuthId(id)], read |-> TRUE]]
  /\ UNCHANGED <<gen, active, alias, authAlias, timer, socket, storeVars, taskVars, boundVars>>

\* Mutant: a start that was overtaken goes on.
NeverOvertaken(id) == FALSE
Overtaken(id) == flight[id].gen # gen[id]

\* The rest, after the last await.
FinishStart(id) ==
  /\ flight[id].read
  /\ flight' = [flight EXCEPT ![id] = NoFlight]
  /\ \/ Overtaken(id) /\ UNCHANGED <<active, socket>>
     \/ /\ ~Overtaken(id)
        /\ \E s \in Socket :
             /\ Free(s) /\ \A t \in Socket : Free(t) => s <= t
             /\ active' = [active EXCEPT ![id] = s]
             /\ socket' = [socket EXCEPT ![s] =
                             [conn |-> "new", sid |-> id, gen |-> flight[id].gen,
                              acct |-> flight[id].acct, worker |-> TRUE]]
  /\ UNCHANGED <<gen, alias, authAlias, timer, storeVars, taskVars, boundVars>>

\* A query of the start throws; only the timer tries again.
FailStart(id) ==
  /\ flight[id] # NoFlight
  /\ closes + failures < MaxIncidents /\ failures' = failures + 1
  /\ flight' = [flight EXCEPT ![id] = NoFlight]
  /\ IF flight[id].by = "timer"
     THEN ScheduleReconnect(id) /\ SetStatus(id, "connecting")
     ELSE UNCHANGED timer /\ SetStatus(id, "error")
  /\ UNCHANGED <<gen, active, alias, authAlias, socket, creds, detected, registered, taskVars,
                 commands, closes>>

-----------------------------------------------------------------------------
(* The events of a socket.                                                 *)

\* connection 'connecting', and the QR code if there are no credentials.
Connect(s) ==
  /\ socket[s].conn = "new"
  /\ LET shows == IF socket[s].acct = None THEN "qr" ELSE "login" IN
     /\ socket' = [socket EXCEPT ![s] = Become(s, shows, socket[s].acct, socket[s].worker)]
     /\ IF Current(s)
        THEN SetStatus(Runtime(s), IF shows = "qr" THEN "qr" ELSE "connecting")
        ELSE UNCHANGED status
  /\ UNCHANGED <<mapVars, creds, detected, registered, taskVars, boundVars>>

\* A phone scans the code; creds.update saves.
Scan(s, p) ==
  /\ socket[s].conn = "qr"
  /\ socket' = [socket EXCEPT ![s] = Become(s, "scanned", p, socket[s].worker)]
  /\ creds'  = [creds EXCEPT ![AuthId(socket[s].sid)] = p]
  /\ UNCHANGED <<mapVars, status, detected, registered, taskVars, boundVars>>

\* creds.update of an open connection.
SaveCreds(s) ==
  /\ socket[s].conn = "open"
  /\ creds' = [creds EXCEPT ![AuthId(socket[s].sid)] = socket[s].acct]
  /\ UNCHANGED <<mapVars, socket, status, detected, registered, taskVars, boundVars>>

\* stopWhatsAppSession up to clearAuthState, which then waits in clearing.
StopSession(id, remove) ==
  /\ gen'    = [gen EXCEPT ![id] = @ + 1]
  /\ timer'  = timer \ {id}
  /\ active' = [active EXCEPT ![id] = 0] /\ EndSocket(active[id])
  /\ alias'  = IF alias = id THEN None ELSE alias
  /\ SetStatus(id, "none")
  /\ clearing' = clearing \cup {[id |-> id, remove |-> remove]}
  /\ UNCHANGED <<authAlias, flight>>

RightNumber(s) == socket[s].acct = Runtime(s)

\* connection 'open': a pending number is detected, a wrong one is stopped,
\* the right one is online.
Open(s) ==
  /\ socket[s].conn = "login"
  /\ LET id     == Runtime(s)
         opened == socket' = [socket EXCEPT ![s] = Become(s, "open", socket[s].acct, socket[s].worker)]
     IN
     \/ /\ ~Current(s) /\ opened
        /\ UNCHANGED <<mapVars, status, renaming, clearing>>
     \/ /\ Current(s) /\ id = Pending /\ opened
        /\ renaming' = renaming \cup {socket[s].acct}
        /\ UNCHANGED <<mapVars, status, clearing>>
     \/ /\ Current(s) /\ id # Pending /\ ~RightNumber(s)
        /\ StopSession(id, FALSE) /\ UNCHANGED renaming
     \/ /\ Current(s) /\ id # Pending /\ RightNumber(s) /\ opened
        /\ SetStatus(id, "open")
        /\ UNCHANGED <<mapVars, renaming, clearing>>
  /\ UNCHANGED <<creds, detected, registered, cleaning, boundVars>>

\* renameAuthState('pending', p) and the rest of the handler, which does not
\* look again whether its socket is current.
Renamed(p) ==
  /\ p \in renaming /\ renaming' = renaming \ {p}
  /\ creds' = IF creds[Pending] = None THEN creds
              ELSE [creds EXCEPT ![p] = creds[Pending], ![Pending] = None]
  /\ SetStatus(Pending, "open") /\ detected' = p
  /\ UNCHANGED <<mapVars, socket, registered, cleaning, clearing, boundVars>>

\* Mutant: a socket that is closed is reconnected as Pending.
PendingName(s, code) == Pending

\* An expired QR code and a restarted stream are reconnected under the name
\* the socket was created with, the others under the current one.
ReconnectName(s, code) == IF code \in {"expired", "restart"} THEN socket[s].sid ELSE Runtime(s)

\* connection 'close'.  The second listener stops the worker in any case.
Close(s, code) ==
  /\ socket[s].conn \in Live
  /\ code = "expired" => socket[s].conn = "qr"
  /\ IF socket[s].conn = "scanned"
     THEN code = "restart" /\ UNCHANGED closes
     ELSE closes + failures < MaxIncidents /\ closes' = closes + 1
  /\ socket' = [socket EXCEPT ![s] =
                   IF IsActive(s) THEN Become(s, "closed", socket[s].acct, FALSE) ELSE NoSocket]
  /\ IF ~Current(s)
     THEN UNCHANGED <<timer, cleaning, status>>
     ELSE IF code = "logged out"
     THEN /\ cleaning' = cleaning \cup {[id |-> Runtime(s), sid |-> socket[s].sid]}
          /\ SetStatus(Runtime(s), "logged_out") /\ UNCHANGED timer
     ELSE /\ ScheduleReconnect(ReconnectName(s, code))
          /\ status' = [status EXCEPT ![Runtime(s)] = IF code = "expired" THEN "qr" ELSE @,
                                      ![ReconnectName(s, code)] = "connecting"]
          /\ UNCHANGED cleaning
  /\ UNCHANGED <<gen, active, alias, authAlias, flight, creds, detected, registered,
                 renaming, clearing, commands, failures>>

\* After a logout: clearAuthState, then a reconnect.
CleanUp(c) ==
  /\ c \in cleaning /\ cleaning' = cleaning \ {c}
  /\ creds' = [creds EXCEPT ![c.id] = None]
  /\ ScheduleReconnect(c.id) /\ SetStatus(c.id, "connecting")
  /\ UNCHANGED <<gen, active, alias, authAlias, flight, socket, detected, registered,
                 renaming, clearing, boundVars>>

CleanUpFails(c) ==
  /\ c \in cleaning /\ cleaning' = cleaning \ {c}
  /\ closes + failures < MaxIncidents /\ failures' = failures + 1
  /\ ScheduleReconnect(c.sid) /\ SetStatus(c.sid, "connecting")
  /\ UNCHANGED <<gen, active, alias, authAlias, flight, socket, creds, detected, registered,
                 renaming, clearing, commands, closes>>

-----------------------------------------------------------------------------
(* The operator.                                                           *)

\* numbers/add: the number that was detected is registered, and
\* adoptPendingWhatsAppSession moves the pending socket to it.
AddNumber ==
  /\ status[Pending] = "open" /\ detected \notin registered
  /\ Cardinality(registered) < MaxNumbers
  /\ commands < MaxCommands /\ commands' = commands + 1
  /\ registered' = registered \cup {detected}
  /\ IF active[Pending] # 0
     THEN /\ active' = [active EXCEPT ![detected] = active[Pending], ![Pending] = 0]
          /\ alias' = detected /\ authAlias' = detected
          /\ gen' = [gen EXCEPT ![detected] = gen[Pending]]
          /\ SetStatus(detected, "open")
     ELSE SetStatus(detected, "connecting") /\ UNCHANGED <<active, alias, authAlias, gen>>
  /\ UNCHANGED <<timer, flight, socket, creds, detected, taskVars, closes, failures>>

\* numbers/delete and auth/clear of one number.
StopNumber(p, remove) ==
  /\ p \in registered
  /\ commands < MaxCommands /\ commands' = commands + 1
  /\ StopSession(p, remove)
  /\ UNCHANGED <<creds, detected, registered, renaming, cleaning, closes, failures>>

ClearAuth(c) ==
  /\ c \in clearing /\ clearing' = clearing \ {c}
  /\ creds' = [creds EXCEPT ![c.id] = None]
  /\ registered' = IF c.remove THEN registered \ {c.id} ELSE registered
  /\ UNCHANGED <<mapVars, socket, status, detected, renaming, cleaning, boundVars>>

\* auth/clear without a number.
ClearEverything ==
  /\ commands < MaxCommands /\ commands' = commands + 1
  /\ creds' = [id \in Id |-> None]
  /\ UNCHANGED <<mapVars, socket, status, detected, registered, taskVars, closes, failures>>

-----------------------------------------------------------------------------
StartStep(id) == Reconnect(id) \/ ReadCreds(id) \/ FinishStart(id)
TaskStep ==
  \/ \E p \in Phone : Renamed(p)
  \/ \E c \in cleaning : CleanUp(c) \/ CleanUpFails(c)
  \/ \E c \in clearing : ClearAuth(c)

Codes == {"expired", "restart", "logged out", "replaced or lost"}

Next ==
  \/ \E id \in Id : StartStep(id) \/ FailStart(id) \/ GenerateQr(id)
  \/ \E s \in Socket :
       \/ Connect(s) \/ Open(s) \/ SaveCreds(s)
       \/ \E p \in Phone : Scan(s, p)
       \/ \E code \in Codes : Close(s, code)
  \/ TaskStep \/ AddNumber \/ ClearEverything
  \/ \E p \in Phone, remove \in BOOLEAN : StopNumber(p, remove)

Spec == Init /\ [][Next]_vars

\* Timers fire and queries settle.
Fairness ==
  /\ \A id \in Id : WF_vars(StartStep(id))
  /\ WF_vars(TaskStep)

FairSpec == Spec /\ Fairness

-----------------------------------------------------------------------------
(* Properties.                                                             *)

\* activeSockets lists a socket once, under the name it was created with or
\* after it was adopted, and never one that was ended: the outbound worker
\* sends through the sockets listed here.
ListedOnce ==
  \A id \in Id : active[id] # 0 =>
    LET s == active[id] IN
    /\ socket[s].conn # "ended" /\ socket[s].sid \in {id, Pending}
    /\ \A j \in Id : active[j] = s => j = id

\* A number whose socket was created under its name hears that socket:
\* whatever start, stop, deletion or adoption came in between, the
\* generation the handlers compare is the one of the session.
OwnNameListens ==
  \A id \in Id : active[id] # 0 /\ socket[active[id]].sid = id => Current(active[id])

\* Customers who write to one number are never served as another: a socket
\* created for a number serves only when that number is logged in.
ServesOwnNumber ==
  \A s \in Socket :
    socket[s].conn = "open" /\ Current(s) /\ socket[s].sid \in Phone => socket[s].acct = socket[s].sid

\* A number whose connection closed is connected again, unless the operator
\* stopped it or a start the operator asked for failed.
Down(id) ==
  /\ active[id] # 0 /\ socket[active[id]].sid = id /\ socket[active[id]].conn = "closed"
Reconnects ==
  []<>(\A id \in Id : Down(id) => status[id] \in {"none", "error"})

\* The list the outbox sends through names live sockets of the right numbers,
\* which hear what they are sent.
SocketsServe == ListedOnce /\ OwnNameListens /\ ServesOwnNumber

\* README.md:26, "sesi terisolasi": a number that is online hears its socket,
\* whatever happens to the session of another number.  The code breaks it:
\* linking the next number bumps the generation of Pending, which the
\* handlers of an adopted socket still compare, and drops its alias.
OnlineListens ==
  \A p \in Phone : active[p] # 0 /\ socket[active[p]].conn = "open" => Current(active[p])
=============================================================================
