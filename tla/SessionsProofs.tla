--------------------------- MODULE SessionsProofs ---------------------------
(***************************************************************************)
(* What the session registry keeps, for any numbers, sockets and commands. *)
(* The properties are not inductive: a socket is the current one of its    *)
(* name because generations and list agree (Fenced), which an adoption     *)
(* keeps only because a pending socket is listed while no start of Pending *)
(* is under way and no alias stands (PendingOK).                           *)
(***************************************************************************)
EXTENDS Sessions, TLAPS

USE SessionsAssumption

\* The generation of a socket listed under its own name is that of the name.
Fenced ==
  \A id \in Id : active[id] # 0 /\ socket[active[id]].sid = id => socket[active[id]].gen = gen[id]

\* A start of Pending clears its list entry and the alias; only an adoption
\* sets the alias, and it needs the entry.
PendingOK ==
  /\ active[Pending] # 0 => alias = None
  /\ flight[Pending] # NoFlight => active[Pending] = 0 /\ alias = None

\* The part of ServesOwnNumber that speaks of the list.
OwnNumber ==
  \A id \in Phone : LET s == active[id] IN
    s # 0 /\ socket[s].sid = id /\ socket[s].conn = "open" => socket[s].acct = id

\* A socket that logs in has credentials, a number that is detected is one.
Linked ==
  /\ \A s \in Socket : socket[s].conn \in {"scanned", "login", "open"} => socket[s].acct # None
  /\ status[Pending] = "open" => detected # None

ListInv == ListedOnce /\ Fenced /\ OwnNumber
SInv == TypeOK /\ ListInv /\ PendingOK /\ Linked

LEMMA InitSInv == Init => SInv
<1> SUFFICES ASSUME Init PROVE SInv
  OBVIOUS
<1>1. TypeOK
  <2>1. PICK known \in SUBSET Phone :
          /\ creds  = [id \in Id |-> IF id \in known THEN id ELSE None]
          /\ flight = [id \in Id |-> IF id \in known
                                     THEN Begun(1, "operator") ELSE NoFlight]
    BY DEF Init
  <2>2. NoFlight \in StartRecord /\ Begun(1, "operator") \in StartRecord
    BY DEF NoFlight, Begun, StartRecord
  <2>3. flight \in [Id -> StartRecord]
    BY <2>1, <2>2
  <2>4. NoSocket \in SocketRecord
    BY DEF NoSocket, SocketRecord, Id
  <2>5. creds \in [Id -> Phone \cup {None}]
    BY <2>1
  <2>. QED BY <2>3, <2>4, <2>5 DEF Init, TypeOK, Id
<1>2. ListInv /\ PendingOK /\ Linked
  BY DEF Init, ListInv, ListedOnce, Fenced, OwnNumber, PendingOK, Linked, Id, NoFlight, NoSocket
<1>. QED BY <1>1, <1>2 DEF SInv

\* The list, the generations and the sockets that are listed stay.
LEMMA KeepsList ==
  ASSUME ListInv, UNCHANGED <<active, gen>>,
         \A s \in Socket : IsActive(s) => socket'[s] = socket[s],
         TypeOK
  PROVE  ListInv'
<1>1. \A id \in Id : active[id] # 0 => socket'[active[id]] = socket[active[id]]
  BY DEF IsActive, TypeOK
<1>. QED BY <1>1 DEF ListInv, ListedOnce, Fenced, OwnNumber, Id

\* A socket that changes keeps its name and generation.
LEMMA KeepsNames ==
  ASSUME TypeOK, ListInv, UNCHANGED <<active, gen>>,
         NEW s \in Socket,
         \A t \in Socket : t # s => socket'[t] = socket[t],
         socket'[s].sid = socket[s].sid, socket'[s].gen = socket[s].gen,
         socket'[s].conn # "ended",
         socket'[s].conn = "open" => \/ socket'[s].acct = socket'[s].sid
                                     \/ socket[s].sid \in Phone => active[socket[s].sid] # s
  PROVE  ListInv'
<1>1. ListedOnce'
  BY DEF ListInv, ListedOnce, TypeOK
<1>2. Fenced'
  BY DEF ListInv, Fenced, TypeOK
<1>3. OwnNumber'
  BY DEF ListInv, OwnNumber, TypeOK, Id
<1>. QED BY <1>1, <1>2, <1>3 DEF ListInv

\* An entry is removed, its socket ended and its generation raised.
LEMMA EndsEntry ==
  ASSUME TypeOK, ListInv, NEW id \in Id,
         active' = [active EXCEPT ![id] = 0],
         gen' = [gen EXCEPT ![id] = @ + 1],
         EndSocket(active[id])
  PROVE  ListInv'
<1>1. \A j \in Id : active'[j] # 0 =>
        /\ j # id /\ active'[j] = active[j] /\ gen'[j] = gen[j]
        /\ active[j] # active[id] /\ socket'[active[j]] = socket[active[j]]
  BY DEF TypeOK, ListInv, ListedOnce, EndSocket
<1>2. ListedOnce'
  BY <1>1 DEF ListInv, ListedOnce, TypeOK
<1>3. Fenced'
  BY <1>1 DEF ListInv, Fenced
<1>4. OwnNumber'
  BY <1>1 DEF ListInv, OwnNumber, Id
<1>. QED BY <1>2, <1>3, <1>4 DEF ListInv

-----------------------------------------------------------------------------
(* Every step keeps the types.                                             *)

LEMMA RuntimeType ==
  ASSUME TypeOK, NEW s \in Socket PROVE Runtime(s) \in Id
BY DEF TypeOK, Runtime, SocketRecord, Id

LEMMA SocketKind ==
  ASSUME TypeOK, NEW id \in Id, EndSocket(active[id])
  PROVE  socket' \in [Socket -> SocketRecord]
BY DEF TypeOK, EndSocket, SocketRecord, NoSocket, Id

LEMMA StartTypes ==
  ASSUME TypeOK, NEW id \in Id, NEW by \in {"timer", "operator"}, Start(id, by),
         timer' \subseteq Id,
         UNCHANGED <<creds, detected, registered, taskVars, closes, failures>>,
         commands' \in 0..MaxCommands
  PROVE  TypeOK'
<1>1. CASE StartSkipped(id)
  BY <1>1 DEF StartSkipped, TypeOK, taskVars
<1>2. CASE StartNow(id, by)
  <2>1. socket' \in [Socket -> SocketRecord]
    BY <1>2, SocketKind DEF StartNow
  <2>2. flight' \in [Id -> StartRecord]
    BY <1>2 DEF StartNow, TypeOK, StartRecord, Begun
  <2>. QED BY <1>2, <2>1, <2>2 DEF StartNow, SetStatus, TypeOK, taskVars
<1>. QED BY <1>1, <1>2 DEF Start

LEMMA StopTypes ==
  ASSUME TypeOK, NEW id \in Phone, NEW remove \in BOOLEAN, StopSession(id, remove),
         UNCHANGED <<creds, detected, registered, renaming, cleaning, closes, failures>>,
         commands' \in 0..MaxCommands
  PROVE  TypeOK'
<1>1. id \in Id
  BY DEF Id
<1>2. socket' \in [Socket -> SocketRecord]
  BY <1>1, SocketKind DEF StopSession
<1>. QED BY <1>1, <1>2 DEF StopSession, SetStatus, TypeOK

LEMMA BecomeType ==
  ASSUME TypeOK, NEW s \in Socket, NEW conn \in Live \cup {"closed"},
         NEW acct \in Phone \cup {None}, NEW worker \in BOOLEAN
  PROVE  Become(s, conn, acct, worker) \in SocketRecord
BY DEF TypeOK, Become, SocketRecord

LEMMA NextTypes == TypeOK /\ Linked /\ [Next]_vars => TypeOK'
<1> SUFFICES ASSUME TypeOK, Linked, [Next]_vars PROVE TypeOK'
  OBVIOUS
<1>1. ASSUME NEW id \in Id, Reconnect(id) PROVE TypeOK'
  <2>1. timer' \subseteq Id /\ commands' \in 0..MaxCommands
    BY <1>1 DEF Reconnect, TypeOK, boundVars
  <2>. QED BY <1>1, <2>1, StartTypes DEF Reconnect, boundVars
<1>2. ASSUME NEW id \in Id, GenerateQr(id) PROVE TypeOK'
  <2>1. timer' \subseteq Id /\ commands' \in 0..MaxCommands
    BY <1>2 DEF GenerateQr, TypeOK
  <2>. QED BY <1>2, <2>1, StartTypes DEF GenerateQr
<1>3. ASSUME NEW id \in Id, ReadCreds(id) PROVE TypeOK'
  <2>1. AuthId(id) \in Id
    BY DEF AuthId, TypeOK, Id
  <2>2. flight' \in [Id -> StartRecord]
    BY <1>3, <2>1 DEF ReadCreds, TypeOK, StartRecord
  <2>. QED BY <1>3, <2>2 DEF ReadCreds, TypeOK, storeVars, taskVars, boundVars
<1>4. ASSUME NEW id \in Id, FinishStart(id) PROVE TypeOK'
  <2>0. NoFlight \in StartRecord
    BY DEF NoFlight, Begun, StartRecord
  <2>1. flight' \in [Id -> StartRecord]
    BY <1>4, <2>0 DEF FinishStart, TypeOK
  <2>2. active' \in [Id -> Socket \cup {0}] /\ socket' \in [Socket -> SocketRecord]
    <3>1. CASE Overtaken(id)
      BY <1>4, <3>1 DEF FinishStart, TypeOK
    <3>2. CASE ~ Overtaken(id)
      <4>1. PICK s \in Socket :
              /\ active' = [active EXCEPT ![id] = s]
              /\ socket' = [socket EXCEPT ![s] =
                              [conn |-> "new", sid |-> id, gen |-> flight[id].gen,
                               acct |-> flight[id].acct, worker |-> TRUE]]
        BY <1>4, <3>2 DEF FinishStart
      <4>2. [conn |-> "new", sid |-> id, gen |-> flight[id].gen,
             acct |-> flight[id].acct, worker |-> TRUE] \in SocketRecord
        BY DEF TypeOK, StartRecord, SocketRecord, Live
      <4>. QED BY <4>1, <4>2 DEF TypeOK
    <3>. QED BY <3>1, <3>2
  <2>. QED BY <1>4, <2>1, <2>2 DEF FinishStart, TypeOK, storeVars, taskVars, boundVars
<1>5. ASSUME NEW id \in Id, FailStart(id) PROVE TypeOK'
  <2>0. NoFlight \in StartRecord
    BY DEF NoFlight, Begun, StartRecord
  <2>. QED BY <1>5, <2>0 DEF FailStart, TypeOK, ScheduleReconnect, SetStatus, taskVars
<1>6. ASSUME NEW s \in Socket, Connect(s) PROVE TypeOK'
  <2>1. socket' \in [Socket -> SocketRecord]
    BY <1>6, BecomeType DEF Connect, TypeOK, SocketRecord, Live
  <2>2. status' \in [Id -> {"none", "connecting", "qr", "open", "error", "logged_out"}]
    BY <1>6 DEF Connect, TypeOK, SetStatus
  <2>. QED BY <1>6, <2>1, <2>2 DEF Connect, TypeOK, mapVars, taskVars, boundVars
<1>7. ASSUME NEW s \in Socket, Open(s) PROVE TypeOK'
  <2>1. Runtime(s) \in Id /\ socket[s].acct \in Phone
    BY <1>7, RuntimeType DEF Open, Linked, TypeOK, SocketRecord
  <2>2. CASE Current(s) /\ Runtime(s) # Pending /\ ~ RightNumber(s)
    <3>1. StopSession(Runtime(s), FALSE) /\ UNCHANGED renaming
      BY <1>7, <2>2 DEF Open
    <3>2. Runtime(s) \in Phone /\ commands' \in 0..MaxCommands
      BY <1>7, <2>1, <2>2 DEF Open, Id, boundVars, TypeOK
    <3>. QED BY <1>7, <3>1, <3>2, StopTypes DEF Open, boundVars
  <2>3. CASE ~ (Current(s) /\ Runtime(s) # Pending /\ ~ RightNumber(s))
    <3>0. socket' = [socket EXCEPT ![s] = Become(s, "open", socket[s].acct, socket[s].worker)]
      BY <1>7, <2>3 DEF Open
    <3>1. socket' \in [Socket -> SocketRecord]
      <4>1. socket[s].worker \in BOOLEAN /\ "open" \in Live
        BY DEF TypeOK, SocketRecord, Live
      <4>. QED BY <2>1, <3>0, <4>1, BecomeType DEF TypeOK
    <3>2. status' \in [Id -> {"none", "connecting", "qr", "open", "error", "logged_out"}]
      BY <1>7, <2>3 DEF Open, TypeOK, SetStatus
    <3>3. renaming' \subseteq Phone /\ UNCHANGED <<mapVars, clearing>>
      BY <1>7, <2>1, <2>3 DEF Open, TypeOK
    <3>. QED BY <1>7, <3>1, <3>2, <3>3 DEF Open, TypeOK, mapVars, boundVars
  <2>. QED BY <2>2, <2>3
<1>8. ASSUME NEW s \in Socket, SaveCreds(s) PROVE TypeOK'
  BY <1>8 DEF SaveCreds, AuthId, TypeOK, SocketRecord, mapVars, taskVars, boundVars
<1>9. ASSUME NEW s \in Socket, NEW p \in Phone, Scan(s, p) PROVE TypeOK'
  <2>1. socket' \in [Socket -> SocketRecord]
    BY <1>9, BecomeType DEF Scan, TypeOK, SocketRecord, Live
  <2>. QED BY <1>9, <2>1 DEF Scan, AuthId, TypeOK, mapVars, taskVars, boundVars
<1>10. ASSUME NEW s \in Socket, NEW code \in Codes, Close(s, code) PROVE TypeOK'
  <2>1. NoSocket \in SocketRecord
    BY DEF NoSocket, SocketRecord, Id
  <2>2. socket' \in [Socket -> SocketRecord]
    BY <1>10, <2>1, BecomeType DEF Close, TypeOK, SocketRecord
  <2>3. Runtime(s) \in Id /\ ReconnectName(s, code) \in Id /\ socket[s].sid \in Id
    BY RuntimeType DEF ReconnectName, TypeOK, SocketRecord
  <2>4. status' \in [Id -> {"none", "connecting", "qr", "open", "error", "logged_out"}]
    BY <1>10, <2>3 DEF Close, SetStatus, TypeOK
  <2>5. timer' \subseteq Id /\ cleaning' \subseteq [id : Id, sid : Id]
    <3>1. timer' = timer \/ timer' = timer \cup {ReconnectName(s, code)}
      BY <1>10 DEF Close, ScheduleReconnect
    <3>2. \/ cleaning' = cleaning
          \/ cleaning' = cleaning \cup {[id |-> Runtime(s), sid |-> socket[s].sid]}
      BY <1>10 DEF Close
    <3>. QED BY <2>3, <3>1, <3>2 DEF TypeOK
  <2>6. closes' \in 0..MaxIncidents
    <3>1. closes' = closes \/ (closes + failures < MaxIncidents /\ closes' = closes + 1)
      BY <1>10 DEF Close
    <3>. QED BY <3>1 DEF TypeOK
  <2>. QED BY <1>10, <2>2, <2>4, <2>5, <2>6 DEF Close, TypeOK
<1>11. ASSUME NEW p \in Phone, Renamed(p) PROVE TypeOK'
  BY <1>11 DEF Renamed, SetStatus, TypeOK, Id, mapVars, boundVars
<1>12. ASSUME NEW c \in cleaning, CleanUp(c) \/ CleanUpFails(c) PROVE TypeOK'
  <2>1. c.id \in Id /\ c.sid \in Id
    BY DEF TypeOK
  <2>. QED BY <1>12, <2>1 DEF CleanUp, CleanUpFails, SetStatus, ScheduleReconnect, TypeOK, boundVars
<1>13. ASSUME NEW c \in clearing, ClearAuth(c) PROVE TypeOK'
  BY <1>13 DEF ClearAuth, TypeOK, mapVars, boundVars
<1>14. ASSUME AddNumber PROVE TypeOK'
  <2>1. detected \in Phone
    BY <1>14 DEF AddNumber, Linked, TypeOK
  <2>2. CASE active[Pending] # 0
    BY <1>14, <2>1, <2>2 DEF AddNumber, SetStatus, TypeOK, Id, taskVars
  <2>3. CASE active[Pending] = 0
    BY <1>14, <2>1, <2>3 DEF AddNumber, SetStatus, TypeOK, Id, taskVars
  <2>. QED BY <2>2, <2>3
<1>15. ASSUME NEW p \in Phone, NEW remove \in BOOLEAN, StopNumber(p, remove) PROVE TypeOK'
  BY <1>15, StopTypes DEF StopNumber, TypeOK
<1>16. ASSUME ClearEverything PROVE TypeOK'
  BY <1>16 DEF ClearEverything, TypeOK, mapVars, taskVars
<1>17. CASE UNCHANGED vars
  BY <1>17 DEF vars, TypeOK, mapVars, storeVars, taskVars, boundVars
<1>. QED BY <1>1, <1>2, <1>3, <1>4, <1>5, <1>6, <1>7, <1>8, <1>9, <1>10, <1>11, <1>12, <1>13,
            <1>14, <1>15, <1>16, <1>17 DEF Next, StartStep, TaskStep

-----------------------------------------------------------------------------
(* Every step keeps the list and its generations.                          *)

LEMMA StartKeepsList ==
  ASSUME TypeOK, ListInv, NEW id \in Id, NEW by \in {"timer", "operator"}, Start(id, by)
  PROVE  ListInv'
<1>1. CASE StartSkipped(id)
  BY <1>1, KeepsList DEF StartSkipped
<1>2. CASE StartNow(id, by)
  BY <1>2, EndsEntry DEF StartNow
<1>. QED BY <1>1, <1>2 DEF Start

LEMMA StopKeepsList ==
  ASSUME TypeOK, ListInv, NEW id \in Phone, NEW remove \in BOOLEAN, StopSession(id, remove)
  PROVE  ListInv'
BY EndsEntry DEF StopSession, Id

\* A new socket is listed: no entry had it, and its generation is current.
LEMMA FinishKeepsList ==
  ASSUME TypeOK, ListInv, NEW id \in Id, FinishStart(id)
  PROVE  ListInv'
<1>1. CASE Overtaken(id)
  BY <1>1, KeepsList DEF FinishStart
<1>2. CASE ~ Overtaken(id)
  <2>1. PICK s \in Socket :
          /\ Free(s)
          /\ active' = [active EXCEPT ![id] = s]
          /\ socket' = [socket EXCEPT ![s] =
                          [conn |-> "new", sid |-> id, gen |-> flight[id].gen,
                           acct |-> flight[id].acct, worker |-> TRUE]]
    BY <1>2 DEF FinishStart
  <2>2. gen' = gen /\ flight[id].gen = gen[id]
    BY <1>2 DEF FinishStart, Overtaken
  <2>3. \A j \in Id : active[j] # s
    BY <2>1 DEF Free, IsActive
  <2>4. active'[id] = s /\ socket'[s].sid = id /\ socket'[s].gen = gen[id] /\ socket'[s].conn = "new"
    BY <2>1, <2>2 DEF TypeOK
  <2>5. \A j \in Id : j # id => active'[j] = active[j] /\ (active[j] # 0 => socket'[active[j]] = socket[active[j]])
    BY <2>1, <2>3 DEF TypeOK
  <2>6. ListedOnce'
    BY <2>3, <2>4, <2>5 DEF ListInv, ListedOnce
  <2>7. Fenced'
    BY <2>2, <2>4, <2>5 DEF ListInv, Fenced
  <2>8. OwnNumber'
    BY <2>4, <2>5 DEF ListInv, OwnNumber, Id
  <2>. QED BY <2>6, <2>7, <2>8 DEF ListInv
<1>. QED BY <1>1, <1>2

\* An adoption moves the entry of Pending; its socket stays named Pending,
\* so the generation that is overwritten belongs to no listed socket.
LEMMA AdoptKeepsList ==
  ASSUME TypeOK, ListInv, Linked, AddNumber
  PROVE  ListInv'
<1>1. detected \in Phone /\ socket' = socket
  BY DEF AddNumber, Linked, TypeOK
<1>2. CASE active[Pending] = 0
  BY <1>1, <1>2, KeepsList DEF AddNumber
<1>3. CASE active[Pending] # 0
  <2> DEFINE s == active[Pending]
  <2>1. /\ active' = [active EXCEPT ![detected] = s, ![Pending] = 0]
        /\ gen' = [gen EXCEPT ![detected] = gen[Pending]]
    BY <1>3 DEF AddNumber
  <2>2. /\ socket[s].sid = Pending /\ socket[s].conn # "ended" /\ s # 0
        /\ \A j \in Id : active[j] = s => j = Pending
    BY <1>3 DEF ListInv, ListedOnce, Id
  <2>3. active'[detected] = s /\ active'[Pending] = 0
    BY <1>1, <2>1 DEF TypeOK, Id
  <2>4. \A j \in Id : j # detected /\ j # Pending => active'[j] = active[j] /\ gen'[j] = gen[j]
    BY <1>1, <2>1 DEF TypeOK, Id
  <2>5. ListedOnce'
    BY <1>1, <2>2, <2>3, <2>4 DEF ListInv, ListedOnce
  <2>6. Fenced'
    BY <1>1, <2>2, <2>3, <2>4 DEF ListInv, Fenced
  <2>7. OwnNumber'
    BY <1>1, <2>2, <2>3, <2>4 DEF ListInv, OwnNumber, Id
  <2>. QED BY <2>5, <2>6, <2>7 DEF ListInv
<1>. QED BY <1>2, <1>3

\* A socket opens as somebody else only when it is not listed under its name.
LEMMA OpenKeepsList ==
  ASSUME TypeOK, ListInv, NEW s \in Socket, Open(s)
  PROVE  ListInv'
<1>0. Runtime(s) \in Id
  BY RuntimeType
<1>1. CASE Current(s) /\ Runtime(s) # Pending /\ ~ RightNumber(s)
  <2>1. StopSession(Runtime(s), FALSE)
    BY <1>1 DEF Open
  <2>. QED BY <1>0, <1>1, <2>1, StopKeepsList DEF Id
<1>2. CASE ~ (Current(s) /\ Runtime(s) # Pending /\ ~ RightNumber(s))
  <2>1. /\ socket' = [socket EXCEPT ![s] = Become(s, "open", socket[s].acct, socket[s].worker)]
        /\ UNCHANGED <<active, gen>>
    BY <1>2 DEF Open, mapVars
  <2>2. /\ socket'[s].sid = socket[s].sid /\ socket'[s].gen = socket[s].gen
        /\ socket'[s].conn = "open" /\ socket'[s].acct = socket[s].acct
    BY <2>1 DEF Become, TypeOK
  <2>3. ASSUME socket[s].sid \in Phone, active[socket[s].sid] = s
        PROVE  socket[s].acct = socket[s].sid
    <3>1. Runtime(s) = socket[s].sid /\ Runtime(s) # Pending
      BY <2>3 DEF Runtime
    <3>2. Current(s)
      BY <2>3, <3>1 DEF Current, ListInv, Fenced, Id, Socket
    <3>. QED BY <1>2, <3>1, <3>2 DEF RightNumber
  <2>4. \A t \in Socket : t # s => socket'[t] = socket[t]
    BY <2>1 DEF TypeOK
  <2>. QED BY <2>1, <2>2, <2>3, <2>4, KeepsNames
<1>. QED BY <1>1, <1>2

LEMMA CloseKeepsList ==
  ASSUME TypeOK, ListInv, NEW s \in Socket, NEW code \in Codes, Close(s, code)
  PROVE  ListInv'
<1>0. UNCHANGED <<active, gen>> /\ \A t \in Socket : t # s => socket'[t] = socket[t]
  BY DEF Close, TypeOK
<1>1. CASE IsActive(s)
  <2>1. socket'[s] = Become(s, "closed", socket[s].acct, FALSE)
    BY <1>1 DEF Close, TypeOK
  <2>. QED BY <1>0, <2>1, KeepsNames DEF Become
<1>2. CASE ~ IsActive(s)
  BY <1>0, <1>2, KeepsList
<1>. QED BY <1>1, <1>2

LEMMA NextList == TypeOK /\ ListInv /\ Linked /\ [Next]_vars => ListInv'
<1> SUFFICES ASSUME TypeOK, ListInv, Linked, [Next]_vars PROVE ListInv'
  OBVIOUS
<1>1. ASSUME NEW id \in Id, Reconnect(id) \/ GenerateQr(id) PROVE ListInv'
  BY <1>1, StartKeepsList DEF Reconnect, GenerateQr
<1>2. ASSUME NEW id \in Id, ReadCreds(id) \/ FailStart(id) PROVE ListInv'
  BY <1>2, KeepsList DEF ReadCreds, FailStart
<1>3. ASSUME NEW s \in Socket, Connect(s) PROVE ListInv'
  <2>1. PICK shows \in {"qr", "login"} :
          socket' = [socket EXCEPT ![s] = Become(s, shows, socket[s].acct, socket[s].worker)]
    BY <1>3 DEF Connect
  <2>2. /\ socket'[s] = Become(s, shows, socket[s].acct, socket[s].worker)
        /\ \A t \in Socket : t # s => socket'[t] = socket[t]
    BY <2>1 DEF TypeOK
  <2>. QED BY <1>3, <2>2, KeepsNames DEF Connect, Become, mapVars
<1>4. ASSUME NEW s \in Socket, NEW p \in Phone, Scan(s, p) PROVE ListInv'
  <2>2. /\ socket'[s] = Become(s, "scanned", p, socket[s].worker)
        /\ \A t \in Socket : t # s => socket'[t] = socket[t]
    BY <1>4 DEF Scan, TypeOK
  <2>. QED BY <1>4, <2>2, KeepsNames DEF Scan, Become, mapVars
<1>5. ASSUME \/ \E s \in Socket : SaveCreds(s)
             \/ \E p \in Phone : Renamed(p)
             \/ \E c \in cleaning : CleanUp(c) \/ CleanUpFails(c)
             \/ \E c \in clearing : ClearAuth(c)
             \/ ClearEverything
             \/ UNCHANGED vars
      PROVE  ListInv'
  <2>1. UNCHANGED <<active, gen, socket>>
    BY <1>5 DEF SaveCreds, Renamed, CleanUp, CleanUpFails, ClearAuth, ClearEverything, vars, mapVars
  <2>. QED BY <2>1, KeepsList
<1>6. ASSUME NEW p \in Phone, NEW remove \in BOOLEAN, StopNumber(p, remove) PROVE ListInv'
  BY <1>6, StopKeepsList DEF StopNumber
<1>. QED BY <1>1, <1>2, <1>3, <1>4, <1>5, <1>6, FinishKeepsList, OpenKeepsList, CloseKeepsList,
            AdoptKeepsList DEF Next, StartStep, TaskStep

-----------------------------------------------------------------------------
(* Every step keeps what is said of Pending and of logins.                 *)

LEMMA NextPending == TypeOK /\ ListInv /\ PendingOK /\ [Next]_vars => PendingOK'
<1> SUFFICES ASSUME TypeOK, ListInv, PendingOK, [Next]_vars PROVE PendingOK'
  OBVIOUS
<1>0. Pending \in Id
  BY DEF Id
<1>1. ASSUME NEW id \in Id, Reconnect(id) \/ GenerateQr(id) PROVE PendingOK'
  <2>1. PICK by \in {"timer", "operator"} : Start(id, by)
    BY <1>1 DEF Reconnect, GenerateQr
  <2>2. CASE StartSkipped(id)
    BY <2>2 DEF StartSkipped, PendingOK
  <2>3. CASE StartNow(id, by)
    BY <1>0, <2>3 DEF StartNow, PendingOK, TypeOK
  <2>. QED BY <2>1, <2>2, <2>3 DEF Start
<1>2. ASSUME NEW id \in Id, ReadCreds(id) \/ FinishStart(id) \/ FailStart(id) PROVE PendingOK'
  <2>1. alias' = alias /\ flight[id] # NoFlight
    BY <1>2 DEF ReadCreds, FinishStart, FailStart, NoFlight, Begun
  <2>2. \A j \in Id : j # id => active'[j] = active[j] /\ flight'[j] = flight[j]
    BY <1>2 DEF ReadCreds, FinishStart, FailStart, TypeOK
  <2>3. active'[id] = active[id] \/ flight'[id] = NoFlight
    BY <1>2 DEF ReadCreds, FinishStart, FailStart, TypeOK
  <2>. QED BY <1>0, <2>1, <2>2, <2>3 DEF PendingOK
<1>3. ASSUME NEW id \in Phone, NEW remove \in BOOLEAN, StopSession(id, remove) PROVE PendingOK'
  BY <1>0, <1>3 DEF StopSession, PendingOK, TypeOK, Id
<1>4. ASSUME NEW s \in Socket, Open(s) PROVE PendingOK'
  <2>1. CASE Current(s) /\ Runtime(s) # Pending /\ ~ RightNumber(s)
    BY <1>3, <1>4, <2>1, RuntimeType DEF Open, Id
  <2>2. CASE ~ (Current(s) /\ Runtime(s) # Pending /\ ~ RightNumber(s))
    BY <1>4, <2>2 DEF Open, mapVars, PendingOK
  <2>. QED BY <2>1, <2>2
<1>5. ASSUME AddNumber PROVE PendingOK'
  BY <1>0, <1>5 DEF AddNumber, PendingOK, TypeOK
<1>6. ASSUME NEW p \in Phone, NEW remove \in BOOLEAN, StopNumber(p, remove) PROVE PendingOK'
  BY <1>3, <1>6 DEF StopNumber
<1>7. ASSUME NEW s \in Socket,
             \/ Connect(s) \/ SaveCreds(s)
             \/ \E p \in Phone : Scan(s, p)
             \/ \E code \in Codes : Close(s, code)
      PROVE  PendingOK'
  BY <1>7 DEF Connect, SaveCreds, Scan, Close, mapVars, PendingOK
<1>8. ASSUME \/ \E p \in Phone : Renamed(p)
             \/ \E c \in cleaning : CleanUp(c) \/ CleanUpFails(c)
             \/ \E c \in clearing : ClearAuth(c)
             \/ ClearEverything
             \/ UNCHANGED vars
      PROVE  PendingOK'
  <2>1. UNCHANGED <<active, alias, flight>>
    BY <1>8 DEF Renamed, CleanUp, CleanUpFails, ClearAuth, ClearEverything, vars, mapVars
  <2>. QED BY <2>1 DEF PendingOK
<1>. QED BY <1>1, <1>2, <1>4, <1>5, <1>6, <1>7, <1>8 DEF Next, StartStep, TaskStep

\* Ending a socket takes no credentials from another.
LEMMA EndLinked ==
  ASSUME TypeOK, NEW id \in Id, EndSocket(active[id]),
         \A s \in Socket : socket[s].conn \in {"scanned", "login", "open"} => socket[s].acct # None
  PROVE  \A s \in Socket : socket'[s].conn \in {"scanned", "login", "open"} => socket'[s].acct # None
BY DEF TypeOK, EndSocket, NoSocket

LEMMA NextLinked == TypeOK /\ Linked /\ [Next]_vars => Linked'
<1> SUFFICES ASSUME TypeOK, Linked, [Next]_vars PROVE Linked'
  OBVIOUS
<1>0. Pending \in Id /\ \A p \in Phone : p # None /\ p # Pending
  BY DEF Id
<1> DEFINE LinkedIn(x) == x.conn \in {"scanned", "login", "open"} => x.acct # None
<1>1. ASSUME NEW s \in Socket, socket' = [socket EXCEPT ![s] = socket'[s]], LinkedIn(socket'[s])
      PROVE  \A t \in Socket : LinkedIn(socket'[t])
  BY <1>1 DEF Linked, TypeOK
<1>2. ASSUME NEW id \in Id, Reconnect(id) \/ GenerateQr(id) PROVE Linked'
  <2>1. PICK by \in {"timer", "operator"} : Start(id, by) /\ detected' = detected
    BY <1>2 DEF Reconnect, GenerateQr
  <2>2. CASE StartSkipped(id)
    BY <2>1, <2>2 DEF StartSkipped, Linked
  <2>3. CASE StartNow(id, by)
    BY <1>0, <2>1, <2>3, EndLinked DEF StartNow, SetStatus, Linked, TypeOK
  <2>. QED BY <2>1, <2>2, <2>3 DEF Start
<1>3. ASSUME NEW id \in Id, ReadCreds(id) \/ FailStart(id) PROVE Linked'
  BY <1>0, <1>3 DEF ReadCreds, FailStart, SetStatus, storeVars, Linked, TypeOK
<1>4. ASSUME NEW id \in Id, FinishStart(id) PROVE Linked'
  BY <1>4 DEF FinishStart, storeVars, Linked, TypeOK
<1>5. ASSUME NEW id \in Phone, NEW remove \in BOOLEAN, StopSession(id, remove), detected' = detected
      PROVE  Linked'
  BY <1>0, <1>5, EndLinked DEF StopSession, SetStatus, Linked, TypeOK, Id
<1>6. ASSUME NEW s \in Socket, Connect(s) PROVE Linked'
  <2>1. LinkedIn(socket'[s]) /\ socket' = [socket EXCEPT ![s] = socket'[s]]
    BY <1>6 DEF Connect, Become, TypeOK
  <2>2. status'[Pending] = "open" => status[Pending] = "open"
    BY <1>0, <1>6 DEF Connect, SetStatus, TypeOK
  <2>. QED BY <1>1, <1>6, <2>1, <2>2 DEF Connect, Linked
<1>7. ASSUME NEW s \in Socket, Open(s) PROVE Linked'
  <2>1. CASE Current(s) /\ Runtime(s) # Pending /\ ~ RightNumber(s)
    BY <1>5, <1>7, <2>1, RuntimeType DEF Open, Id
  <2>2. CASE ~ (Current(s) /\ Runtime(s) # Pending /\ ~ RightNumber(s))
    <3>1. socket' = [socket EXCEPT ![s] = Become(s, "open", socket[s].acct, socket[s].worker)]
      BY <1>7, <2>2 DEF Open
    <3>2. LinkedIn(socket'[s]) /\ socket' = [socket EXCEPT ![s] = socket'[s]]
      BY <1>7, <3>1 DEF Open, Become, Linked, TypeOK
    <3>3. status'[Pending] = "open" => status[Pending] = "open"
      BY <1>0, <1>7, <2>2 DEF Open, SetStatus, TypeOK
    <3>. QED BY <1>1, <1>7, <3>2, <3>3 DEF Open, Linked
  <2>. QED BY <2>1, <2>2
<1>8. ASSUME NEW s \in Socket, NEW p \in Phone, Scan(s, p) PROVE Linked'
  <2>1. LinkedIn(socket'[s]) /\ socket' = [socket EXCEPT ![s] = socket'[s]]
    BY <1>0, <1>8 DEF Scan, Become, TypeOK
  <2>. QED BY <1>1, <1>8, <2>1 DEF Scan, Linked
<1>9. ASSUME NEW s \in Socket, NEW code \in Codes, Close(s, code) PROVE Linked'
  <2>1. LinkedIn(socket'[s]) /\ socket' = [socket EXCEPT ![s] = socket'[s]]
    BY <1>9 DEF Close, Become, NoSocket, TypeOK
  <2>2. status'[Pending] = "open" => status[Pending] = "open"
    BY <1>0, <1>9 DEF Close, SetStatus, TypeOK
  <2>. QED BY <1>1, <1>9, <2>1, <2>2 DEF Close, Linked
<1>10. ASSUME NEW p \in Phone, Renamed(p) PROVE Linked'
  BY <1>0, <1>10 DEF Renamed, SetStatus, Linked, TypeOK
<1>11. ASSUME NEW c \in cleaning, CleanUp(c) \/ CleanUpFails(c) PROVE Linked'
  BY <1>0, <1>11 DEF CleanUp, CleanUpFails, SetStatus, Linked, TypeOK
<1>12. ASSUME AddNumber PROVE Linked'
  BY <1>0, <1>12 DEF AddNumber, SetStatus, Linked, TypeOK
<1>13. ASSUME NEW p \in Phone, NEW remove \in BOOLEAN, StopNumber(p, remove) PROVE Linked'
  BY <1>5, <1>13 DEF StopNumber
<1>14. ASSUME \/ \E s \in Socket : SaveCreds(s)
              \/ \E c \in clearing : ClearAuth(c)
              \/ ClearEverything
              \/ UNCHANGED vars
       PROVE  Linked'
  <2>1. UNCHANGED <<socket, status, detected>>
    BY <1>14 DEF SaveCreds, ClearAuth, ClearEverything, vars, storeVars
  <2>. QED BY <2>1 DEF Linked
<1>. QED BY <1>2, <1>3, <1>4, <1>6, <1>7, <1>8, <1>9, <1>10, <1>11, <1>12, <1>13, <1>14
         DEF Next, StartStep, TaskStep

-----------------------------------------------------------------------------
LEMMA Invariance == Spec => []SInv
<1>1. SInv /\ [Next]_vars => SInv'
  BY NextTypes, NextList, NextPending, NextLinked DEF SInv
<1>. QED BY <1>1, InitSInv, PTL DEF Spec

\* The registry keeps its types.
THEOREM SessionsTypeCorrect == Spec => []TypeOK
BY Invariance, PTL DEF SInv

\* activeSockets (connection.ts:68) never lists a socket twice, or one that
\* was ended, for any numbers and any order of starts, stops and adoptions.
THEOREM SocketsListedOnce == Spec => []ListedOnce
BY Invariance, PTL DEF SInv, ListInv

\* The handlers of a socket listed under its own name find it current
\* (connection.ts:209): the generations never leave a number deaf that was
\* started under its name.
THEOREM OwnNumbersListen == Spec => []OwnNameListens
<1>1. SInv => OwnNameListens
  BY DEF SInv, ListInv, PendingOK, Fenced, OwnNameListens, Current, Runtime
<1>. QED BY <1>1, Invariance, PTL

\* A socket created for a number serves only that number (connection.ts:280).
THEOREM NumbersServeThemselves == Spec => []ServesOwnNumber
<1>1. SInv => ServesOwnNumber
  <2> SUFFICES ASSUME SInv, NEW s \in Socket, socket[s].conn = "open", Current(s),
                      socket[s].sid \in Phone
               PROVE  socket[s].acct = socket[s].sid
    BY DEF ServesOwnNumber
  <2>1. active[socket[s].sid] = s
    BY DEF Current, Runtime
  <2>. QED BY <2>1 DEF SInv, ListInv, OwnNumber, Socket
<1>. QED BY <1>1, Invariance, PTL

\* The list the outbox sends through: living sockets, of the right number,
\* that hear.
THEOREM SocketsAlwaysServe == Spec => []SocketsServe
BY SocketsListedOnce, OwnNumbersListen, NumbersServeThemselves, PTL DEF SocketsServe
=============================================================================
