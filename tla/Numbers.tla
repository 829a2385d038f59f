------------------------------ MODULE Numbers ------------------------------
(***************************************************************************)
(* The WhatsApp numbers as a pool: WhatsAppManager                         *)
(* (src/src/whatsapp/whatsapp-manager.ts), its file, and those who use it: *)
(* the sender of src/src/whatsapp/connection.ts, the handlers of its       *)
(* sockets, the panel.  Which sockets exist is in Sessions, here one is    *)
(* open or not.                                                            *)
(*                                                                         *)
(* Abstractions:                                                           *)
(*  - every rotation mode takes an available number; which one is free;    *)
(*  - the names, the message count and the settings are left out; the      *)
(*    limit of a number is the same for all and sticky assignment is on;   *)
(*  - the file is written in one piece, and a write fails only when a      *)
(*    number is removed, the one place where the code looks at the result. *)
(***************************************************************************)
EXTENDS Naturals, FiniteSets

CONSTANTS
  Number, Customer,
  NoNumber,
  DailyLimit,
  MaxDays,       \* bound: days that begin
  MaxMishaps     \* bound: restarts, removals of a number

ASSUME NumbersAssumption ==
  NoNumber \notin Number /\ {DailyLimit, MaxDays, MaxMishaps} \subseteq Nat

VARIABLES
  numbers,    \* sessions: status, todayLeadCount, counterDate
  sticky,     \* stickyAssignments
  file,       \* config/whatsapp-sessions.json
  open,       \* the numbers with an open socket
  sender,     \* the number a send is under way on
  today,
  taken,      \* ghost: leads the rotation gave each number today
  forgotten,  \* ghost: those of them a restart or a removal has lost
  mishaps

numberVars == <<numbers, sticky, file, open, sender, today, taken, forgotten, mishaps>>

Fresh0 == [n \in Number |-> 0]
NumberRow == [status : {"none", "connecting", "online", "disconnected"},
              count : Nat, date : Nat]

NumbersInit ==
  /\ numbers = [n \in Number |-> [status |-> "none", count |-> 0, date |-> 0]]
  /\ sticky = [c \in Customer |-> NoNumber]
  /\ file = [numbers |-> numbers, sticky |-> sticky]
  /\ open = {} /\ sender = NoNumber /\ today = 0
  /\ taken = Fresh0 /\ forgotten = Fresh0 /\ mishaps = 0

Registered(n) == numbers[n].status # "none"

(* resetDailyCounters                                                      *)
Reset(table) == [n \in Number |->
  IF table[n].date = today \/ table[n].status = "none" THEN table[n]
  ELSE [status |-> table[n].status, count |-> 0, date |-> today]]
TodayCount(table, n) == Reset(table)[n].count

(* saveToDisk: getSessions resets the counters on the way                  *)
Save(table, assigned) ==
  /\ numbers' = Reset(table) /\ sticky' = assigned
  /\ file' = [numbers |-> Reset(table), sticky |-> assigned]
SetStatus(n, s) == [numbers EXCEPT ![n].status = s]

-----------------------------------------------------------------------------
(* The panel and the handlers of the sockets.                              *)

(* /admin/whatsapp/numbers/add: the pending socket, if it is still there,  *)
(* becomes the number's                                                    *)
Register(n) ==
  /\ ~Registered(n)
  /\ Save([numbers EXCEPT ![n] = [status |-> "connecting", count |-> 0, date |-> today]], sticky)
  /\ open' \in {open, open \cup {n}}
  /\ UNCHANGED <<sender, today, taken, forgotten, mishaps>>

SocketOpens(n) ==
  /\ Registered(n) /\ n \notin open /\ open' = open \cup {n}
  /\ Save(SetStatus(n, "online"), sticky)
  /\ UNCHANGED <<sender, today, taken, forgotten, mishaps>>

(* the status is not told of a logout, nor of a session that was replaced  *)
SocketCloses(n) ==
  /\ n \in open /\ open' = open \ {n}
  /\ Save(SetStatus(n, "disconnected"), sticky) \/ UNCHANGED <<numbers, sticky, file>>
  /\ UNCHANGED <<sender, today, taken, forgotten, mishaps>>

(* /admin/whatsapp/numbers/delete.  The assignments go after the file is   *)
(* written, so they are in it until something else is saved.               *)
RemoveNumber(n) ==
  /\ Registered(n) /\ mishaps < MaxMishaps /\ mishaps' = mishaps + 1
  /\ open' = open \ {n}
  /\ \/ /\ numbers' = Reset([numbers EXCEPT ![n] = [status |-> "none", count |-> 0, date |-> 0]])
        /\ file' = [numbers |-> numbers', sticky |-> sticky]
        /\ sticky' = [c \in Customer |-> IF sticky[c] = n THEN NoNumber ELSE sticky[c]]
        /\ forgotten' = [forgotten EXCEPT ![n] = taken[n]]
     \/ UNCHANGED <<numbers, sticky, file, forgotten>>   \* the write failed
  /\ UNCHANGED <<sender, today, taken>>

(* a message arrives: setStickyAssignment, whatever the quota              *)
MessageFrom(c, n) ==
  /\ n \in open /\ Registered(n) /\ sticky[c] # n
  /\ Save(numbers, [sticky EXCEPT ![c] = n])
  /\ UNCHANGED <<open, sender, today, taken, forgotten, mishaps>>

-----------------------------------------------------------------------------
(* A send: selectOutboundSessionId, assignNumberForLead.                   *)

\* a plausible mistake: one lead more than the limit
RoomForOneMore(n) == numbers[n].status = "online" /\ (DailyLimit = 0 \/ TodayCount(numbers, n) <= DailyLimit)

Available(n) == numbers[n].status = "online" /\ (DailyLimit = 0 \/ TodayCount(numbers, n) < DailyLimit)

(* the number the customer had, if its socket is open, or if the manager   *)
(* believes so                                                             *)
HadOpen(c) == sticky[c] \in open
HadOnline(c) == sticky[c] \in Number /\ numbers[sticky[c]].status = "online"

SendBySticky(c) ==
  /\ sender = NoNumber /\ HadOpen(c) /\ sender' = sticky[c]
  /\ UNCHANGED <<numbers, sticky, file, open, today, taken, forgotten, mishaps>>

(* the count and the assignment are in memory only; when the socket of the *)
(* number is not open the send fails, with the lead taken                  *)
SendByRotation(c, n) ==
  /\ sender = NoNumber /\ ~HadOpen(c) /\ ~HadOnline(c) /\ Available(n)
  /\ numbers' = [Reset(numbers) EXCEPT ![n].count = @ + 1]
  /\ file' = IF Reset(numbers) = numbers THEN file
             ELSE [numbers |-> Reset(numbers), sticky |-> sticky]
  /\ sticky' = [sticky EXCEPT ![c] = n]
  /\ taken' = [taken EXCEPT ![n] = @ + 1]
  /\ sender' = IF n \in open THEN n ELSE NoNumber
  /\ UNCHANGED <<open, today, forgotten, mishaps>>

(* nobody can take it: only the counters may have been reset               *)
SendRefused(c) ==
  /\ sender = NoNumber /\ ~HadOpen(c)
  /\ HadOnline(c) \/ \A n \in Number : ~Available(n)
  /\ Reset(numbers) # numbers /\ Save(numbers, sticky)
  /\ UNCHANGED <<open, sender, today, taken, forgotten, mishaps>>

(* the message is sent or not; recordMessageSent saves everything, unless  *)
(* the number went away                                                    *)
SendEnds ==
  /\ sender # NoNumber /\ sender' = NoNumber
  /\ \/ Registered(sender) /\ sender \in open /\ Save(numbers, sticky)
     \/ UNCHANGED <<numbers, sticky, file>>
  /\ UNCHANGED <<open, today, taken, forgotten, mishaps>>

NextDay ==
  /\ today < MaxDays /\ today' = today + 1
  /\ taken' = Fresh0 /\ forgotten' = Fresh0
  /\ UNCHANGED <<numbers, sticky, file, open, sender, mishaps>>

(* the process dies and starts again: loadFromDisk                         *)
Restart ==
  /\ mishaps < MaxMishaps /\ mishaps' = mishaps + 1
  /\ numbers' = file.numbers /\ sticky' = file.sticky
  /\ open' = {} /\ sender' = NoNumber
  /\ forgotten' = [n \in Number |->
       forgotten[n] + TodayCount(numbers, n) - TodayCount(file.numbers, n)]
  /\ UNCHANGED <<file, today, taken>>

NumbersNext ==
  \/ \E n \in Number : \/ Register(n) \/ SocketOpens(n) \/ SocketCloses(n) \/ RemoveNumber(n)
                       \/ \E c \in Customer : MessageFrom(c, n) \/ SendByRotation(c, n)
  \/ \E c \in Customer : SendBySticky(c) \/ SendRefused(c)
  \/ SendEnds \/ NextDay \/ Restart

-----------------------------------------------------------------------------
(* The rotation gives a number no more new customers a day than its limit, *)
(* except for those a restart forgot, whose count was never written, and   *)
(* those from before the number was removed and added again.               *)
QuotaHolds == \A n \in Number : DailyLimit > 0 => taken[n] <= DailyLimit + forgotten[n]
=============================================================================
