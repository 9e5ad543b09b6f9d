------------------------ MODULE MessageClientProofs ------------------------
(***************************************************************************)
(* Theorems about the message client for every number of users, commands   *)
(* and expiries, whatever order its threads, its pool tasks and the server *)
(* take turns in.  Five inductive invariants, each resting on those before *)
(* it:                                                                     *)
(*   TypeInv     what every variable holds, and who may be where;          *)
(*   TokenInv    a message of a type whose callbacks never overlapped is   *)
(*               the only one of its type, and its callback is in the map; *)
(*   EnterInv    a login or registration that waited is alone, and name    *)
(*               and password are one user's;                              *)
(*   SessionInv  how the client knows of the session the server has;       *)
(*   CountInv    what is under way was paid for by a command, an expiry or *)
(*               a poll.                                                   *)
(***************************************************************************)
EXTENDS MessageClient, FiniteSetTheorems, SequenceTheorems, TLAPS

Handlers == {"Login", "Register", "Delete", "Logoff", "Send", "Echo", "Exit"}
Subtypes ==
    {"success", "already_log_in", "bad_credential", "logged_in", "exists", "not_log_in", "no_msg",
     "session_expired"}
Prepares == {"set_name", "set_password", "set_login", "get_name", "get_password"}
Sends == {"add_callback", "create_task"}

Entry == [handler : Handlers \cup {"none"}, command : Nat]
OutMessage == [type : Types, name : Somebody, pass : Somebody, command : Nat]
InMessage == [type : Types, subtype : Subtypes, command : Nat]

Shapes ==
    /\ username \in Somebody /\ password \in Somebody /\ isLoggedIn \in BOOLEAN
    /\ callbackMap \in [Types -> Entry] /\ callbackMapPerm \subseteq {"query_msg"}
    /\ ui \in [at : Prepares \cup Sends \cup {"input", "ended", "sleep", "exited"},
               handler : Handlers \cup {"none"}, type : Types \cup {"none"},
               name : Somebody, pass : Somebody]
    /\ poller \in {"idle", "send"}
    /\ resp \in [at : {"read", "handle", "clear_name", "clear_password", "get_name",
                     "get_password", "remove", "ended"} \cup Sends,
               msg : InMessage \cup {NoMessage},
               entry : [handler : Handlers \cup {"none", "Poller"}, command : Nat],
               type : Types \cup {"none"}, name : Somebody, pass : Somebody]
    /\ outbox \in SUBSET OutMessage /\ IsFiniteSet(outbox)
    /\ toClient \in Seq(InMessage)
    /\ session \in Somebody /\ accounts \subseteq Somebody
    /\ expiries \in 0 .. MaxExpiries /\ commands \in 0 .. MaxCommands
    /\ overlapped \subseteq Types /\ hasty \in BOOLEAN

(* Every entry was made for a command, under a type its handler knows.     *)
Asked(command) == command \in 1 .. commands
CallbacksKnowTheirTypes ==
    \A t \in Types : callbackMap[t] # NoEntry =>
        /\ Asked(callbackMap[t].command) /\ callbackMap[t].handler \in Handlers
        /\ t \in Handles[callbackMap[t].handler]

(* What the console sends belongs to its command; only a login or a        *)
(* registration prepares anything.                                         *)
UiInv ==
    /\ ui.at \in Prepares \cup Sends =>
          Asked(commands) /\ ui.handler \in Handlers /\ ui.type \in Handles[ui.handler]
    /\ ui.at \in Prepares => ui.handler \in {"Login", "Register"}
    /\ ui.at = "input" => ui = Input

(* A callback has a message it knows; only the one of a registration sends *)
(* another, of another type.                                               *)
RespInv ==
    /\ resp.at \in {"read", "ended"} => resp.msg = NoMessage /\ (resp.at = "read" => resp = Reading)
    /\ resp.at \notin {"read", "ended"} =>
          /\ resp.msg \in InMessage
          /\ \/ resp.entry = [handler |-> "Poller", command |-> 0] /\ resp.msg.type = "query_msg"
                /\ resp.at = "handle"
             \/ Asked(resp.entry.command) /\ resp.entry.handler \in Handlers
                /\ resp.msg.type \in Handles[resp.entry.handler]
    /\ resp.at \in Sends \cup {"get_name", "get_password"} =>
          /\ resp.type \in {"login", "create_store"} /\ resp.type # resp.msg.type
          /\ resp.entry.handler = "Register"
    /\ resp.at \in {"get_name", "get_password"} => resp.type = "login"
    /\ resp.at = "handle" => resp.name = NoName /\ resp.pass = NoName
    /\ resp.at \in {"clear_name", "clear_password"} => resp.msg.type = "delete_user"

(* A message no command asked for is a poll's, or tells of an expiry.      *)
MessagesAreAsked ==
    /\ \A m \in outbox : IF m.type = "query_msg" THEN m.command = 0 ELSE Asked(m.command)
    /\ \A k \in DOMAIN toClient :
          LET m == toClient[k]
          IN  \/ m.command = 0 /\ m.type = "query_msg"
              \/ m.command = 0 /\ m.type = "logoff" /\ "logoff" \in overlapped
              \/ Asked(m.command) /\ m.type # "query_msg"
    /\ (resp.msg.type = "logoff" /\ resp.msg.command = 0 => "logoff" \in overlapped)

TypeInv == Shapes /\ CallbacksKnowTheirTypes /\ UiInv /\ RespInv /\ MessagesAreAsked
-----------------------------------------------------------------------------
(* A type whose callbacks have not got in each other's way.  Its one       *)
(* message is with the console or the response thread, in the outbox, in   *)
(* the answers or in the hands of its callback, and until the callback     *)
(* runs the map holds the callback of the message's command.               *)
Free == Types \ (overlapped \cup {"query_msg"})
Registered(t, command) == callbackMap[t].command = command
UiSendsType(t) == ui.at = "create_task" /\ ui.type = t
RespSendsType(t) == resp.at = "create_task" /\ resp.type = t

InPlace(t) ==
    /\ UiSendsType(t) => Registered(t, commands)
    /\ RespSendsType(t) => Registered(t, resp.entry.command)
    /\ \A m \in outbox : m.type = t => Registered(t, m.command)
    /\ \A k \in DOMAIN toClient : toClient[k].type = t => Registered(t, toClient[k].command)
OneAtATime(t) ==
    /\ UiSendsType(t) => ~RespSendsType(t) /\ ~InUse(t)
    /\ UiSendsType(t) \/ RespSendsType(t) \/ InUse(t) =>
          /\ \A m \in outbox : m.type # t
          /\ \A k \in DOMAIN toClient : toClient[k].type # t
    /\ \A m \in outbox : m.type = t =>
          /\ \A n \in outbox : n.type = t => n = m
          /\ \A k \in DOMAIN toClient : toClient[k].type # t
    /\ \A j, k \in DOMAIN toClient : toClient[j].type = t /\ toClient[k].type = t => j = k
TokenInv == \A t \in Free : InPlace(t) /\ OneAtATime(t)
-----------------------------------------------------------------------------
(* Somebody is entering from the command to log in or to register until    *)
(* the answer to the login was handled, and somebody is deleting from the  *)
(* command to delete until the user's data is cleared.                     *)
Enters(type) == type \in {"login", "create_user"}
UiEnters == ui.handler \in {"Login", "Register"}
RespEnters ==
    \/ resp.at = "handle" /\ Enters(resp.msg.type)
    \/ resp.at \in {"get_name", "get_password"}
    \/ resp.at \in Sends /\ resp.type = "login"
RespDeletes ==
    resp.at \in {"handle", "clear_name", "clear_password"} /\ resp.msg.type = "delete_user"
Entering ==
    \/ UiEnters \/ RespEnters
    \/ \E m \in outbox : Enters(m.type)
    \/ \E k \in DOMAIN toClient : Enters(toClient[k].type)
Deleting ==
    \/ ui.handler = "Delete" \/ RespDeletes
    \/ \E m \in outbox : m.type = "delete_user"
    \/ \E k \in DOMAIN toClient : toClient[k].type = "delete_user"

OneEnters ==
    /\ UiEnters => ~RespEnters
    /\ UiEnters \/ RespEnters =>
          /\ \A m \in outbox : ~Enters(m.type)
          /\ \A k \in DOMAIN toClient : ~Enters(toClient[k].type)
    /\ \A m \in outbox : Enters(m.type) =>
          /\ \A n \in outbox : Enters(n.type) => n = m
          /\ \A k \in DOMAIN toClient : ~Enters(toClient[k].type)
    /\ \A j, k \in DOMAIN toClient : Enters(toClient[j].type) /\ Enters(toClient[k].type) => j = k

(* The stored name and password are one user's but between the two calls   *)
(* that set or clear them; what was read for a message is still stored.    *)
OneUser ==
    /\ ui.at # "set_password" /\ resp.at # "clear_password" => username = password
    /\ resp.at = "clear_password" => username = NoName
    /\ ui.at \in {"set_name", "set_password"} => ui.name = ui.pass
    /\ ui.at = "set_password" => username = ui.name
    /\ ui.at = "get_password" => ui.name = username
    /\ ui.at \in Sends /\ UiEnters => ui.name = username /\ ui.pass = username
    /\ resp.at = "get_password" => resp.name = username
    /\ resp.at \in Sends /\ resp.type = "login" => resp.name = username /\ resp.pass = username
    /\ \A m \in outbox : Enters(m.type) => m.name = username /\ m.pass = username

(* While somebody enters nobody is logged in, so nobody is deleting.       *)
EnterInv == ~hasty => OneEnters /\ OneUser /\ (Entering => ~isLoggedIn /\ ~Deleting)
-----------------------------------------------------------------------------
(* The client knows of a session: the flag is set and nothing on its way   *)
(* clears it, or the answer that sets it is in hand or on its way and      *)
(* nothing behind it clears the flag again.                                *)
Ends(msg) == msg.type \in {"logoff", "delete_user"}
                \/ (msg.type = "query_msg" /\ msg.subtype = "not_log_in")
LoginSuccess(msg) == msg.type = "login" /\ msg.subtype = "success"
SessionKnown ==
    \/ /\ isLoggedIn /\ (resp.at = "handle" => ~Ends(resp.msg))
       /\ \A k \in DOMAIN toClient : ~Ends(toClient[k])
    \/ /\ resp.at = "handle" /\ LoginSuccess(resp.msg)
       /\ \A k \in DOMAIN toClient : ~Ends(toClient[k])
    \/ \E k \in DOMAIN toClient :
          /\ LoginSuccess(toClient[k])
          /\ \A j \in DOMAIN toClient : j > k => ~Ends(toClient[j])
SessionInv ==
    ~hasty /\ "login" \notin overlapped /\ session # NoName =>
        /\ session = username /\ SessionKnown
        /\ ui.at \notin Prepares
        /\ ~RespDeletes /\ \A k \in DOMAIN toClient : toClient[k].type # "delete_user"
-----------------------------------------------------------------------------
(* Messages, answers, and threads about to send: one for each command and  *)
(* for the one poll under way; the answers nobody asked for, one for each  *)
(* expiry.                                                                 *)
Unasked == {m \in InMessage : m.command = 0 /\ m.type = "logoff"}
Where(s, M) == {k \in DOMAIN s : s[k] \in M}
Weight(b) == IF b THEN 1 ELSE 0
OutboxHolds == Cardinality(outbox)
AnswersAsked == Cardinality(Where(toClient, InMessage \ Unasked))
AnswersUnasked == Cardinality(Where(toClient, Unasked))
UiHolds == Weight(ui.at \in Prepares \cup Sends)
RespHolds == Weight(/\ resp.at \in {"handle", "get_name", "get_password"} \cup Sends
                    /\ resp.msg \notin Unasked)
PollerHolds == Weight(poller = "send")
Polls == Weight(poller = "send" \/ PollUnderWay)
CountInv ==
    /\ OutboxHolds + AnswersAsked + UiHolds + RespHolds + PollerHolds <= commands + Polls
    /\ AnswersUnasked <= expiries
-----------------------------------------------------------------------------
LEMMA HandledTypes ==
    /\ Handles["Login"] = {"login"}
    /\ Handles["Register"] = {"create_user", "login", "create_store"}
    /\ Handles["Delete"] = {"delete_user"} /\ Handles["Logoff"] = {"logoff"}
    /\ Handles["Send"] = {"send_msg"} /\ Handles["Echo"] = {"echo"} /\ Handles["Exit"] = {"exit"}
    /\ \A h \in Handlers : Handles[h] \subseteq Types \ {"query_msg"}
BY DEF Handles, Handlers, Types

(* What the user may type. *)
Typed(at, handler, type, name) ==
    \/ at = "set_name" /\ handler = "Login" /\ type = "login" /\ name \in Names /\ ~isLoggedIn
    \/ at = "set_name" /\ handler = "Register" /\ type = "create_user" /\ name \in Names
          /\ ~isLoggedIn
    \/ at = "add_callback" /\ handler = "Delete" /\ type = "delete_user" /\ name = NoName
          /\ isLoggedIn
    \/ at = "add_callback" /\ handler \in {"Logoff", "Send", "Exit"} /\ name = NoName
          /\ type \in Handles[handler]
    \/ at = "add_callback" /\ handler = "Echo" /\ type = "echo"
    \/ at = "ended" /\ handler = "Send" /\ type = "none" /\ name = NoName

LEMMA Steps ==
    ASSUME [Next]_vars
    PROVE  \/ \E at \in {"set_name", "add_callback", "ended"}, handler \in Handlers,
                 type \in Types \cup {"none"}, name \in Somebody :
                 Typed(at, handler, type, name) /\ Begin(at, handler, type, name)
           \/ ConsoleWorks
           \/ Poll \/ QueryMessages
           \/ Read \/ handleResponse \/ ClearUsername \/ ClearPassword \/ RespGetsUsername
           \/ RespGetsPassword \/ RespSends \/ RemoveCallback
           \/ Expire
           \/ \E m \in outbox : Deliver(m)
           \/ UNCHANGED vars
<1> DEFINE Goal == \E at \in {"set_name", "add_callback", "ended"}, handler \in Handlers,
                 type \in Types \cup {"none"}, name \in Somebody :
                 Typed(at, handler, type, name) /\ Begin(at, handler, type, name)
<1>1. CASE Commands
  <2>1. CASE \E n \in Names : Login(n)
    <3>1. PICK n \in Names : Login(n)
      BY <2>1
    <3>2. Typed("set_name", "Login", "login", n) /\ Begin("set_name", "Login", "login", n)
      BY <3>1 DEF Login, Typed
    <3>3. n \in Somebody
      BY DEF Somebody
    <3>4. QED
      BY <3>2, <3>3 DEF Handlers, Types
  <2>2. CASE \E n \in Names : Register(n)
    <3>1. PICK n \in Names : Register(n)
      BY <2>2
    <3>2. /\ Typed("set_name", "Register", "create_user", n)
          /\ Begin("set_name", "Register", "create_user", n)
      BY <3>1 DEF Register, Typed
    <3>3. n \in Somebody
      BY DEF Somebody
    <3>4. QED
      BY <3>2, <3>3 DEF Handlers, Types
  <2>3. CASE Delete
    <3>1. /\ Typed("add_callback", "Delete", "delete_user", NoName)
          /\ Begin("add_callback", "Delete", "delete_user", NoName)
      BY <2>3 DEF Delete, Typed, sendMessage
    <3>2. QED
      BY <3>1 DEF Handlers, Types, Somebody
  <2>4. CASE Logoff
    <3>1. /\ Typed("add_callback", "Logoff", "logoff", NoName)
          /\ Begin("add_callback", "Logoff", "logoff", NoName)
      BY <2>4, HandledTypes DEF Logoff, Typed, sendMessage
    <3>2. QED
      BY <3>1 DEF Handlers, Types, Somebody
  <2>5. CASE Send
    <3>1. /\ Typed("add_callback", "Send", "send_msg", NoName)
          /\ Begin("add_callback", "Send", "send_msg", NoName)
      BY <2>5, HandledTypes DEF Send, Typed, sendMessage
    <3>2. QED
      BY <3>1 DEF Handlers, Types, Somebody
  <2>6. CASE SendWithoutComma
    <3>1. Typed("ended", "Send", "none", NoName) /\ Begin("ended", "Send", "none", NoName)
      BY <2>6 DEF SendWithoutComma, Typed
    <3>2. QED
      BY <3>1 DEF Handlers, Types, Somebody
  <2>7. CASE \E text \in Somebody : Echo(text)
    <3>1. PICK text \in Somebody : Echo(text)
      BY <2>7
    <3>2. /\ Typed("add_callback", "Echo", "echo", text)
          /\ Begin("add_callback", "Echo", "echo", text)
      BY <3>1 DEF Echo, Typed, sendMessage
    <3>3. QED
      BY <3>2 DEF Handlers, Types
  <2>8. CASE Exit
    <3>1. /\ Typed("add_callback", "Exit", "exit", NoName)
          /\ Begin("add_callback", "Exit", "exit", NoName)
      BY <2>8, HandledTypes DEF Exit, Typed, sendMessage
    <3>2. QED
      BY <3>1 DEF Handlers, Types, Somebody
  <2>9. QED
    BY <1>1, <2>1, <2>2, <2>3, <2>4, <2>5, <2>6, <2>7, <2>8 DEF Commands
<1> HIDE DEF Goal
<1>2. QED
  <2>1. (\E k \in 0 .. MaxCommands : SendTask(k)) => \E m \in outbox : Deliver(m)
    BY DEF SendTask
  <2>2. QED
    BY <1>1, <2>1 DEF Next, PollerWorks, ResponseWorks, Goal
-----------------------------------------------------------------------------
LEMMA BeginKeepsTypes ==
    ASSUME TypeInv, NEW at \in {"set_name", "add_callback", "ended"}, NEW handler \in Handlers,
           NEW type \in Types \cup {"none"}, NEW name \in Somebody,
           Typed(at, handler, type, name), Begin(at, handler, type, name)
    PROVE  TypeInv'
<1>1. /\ ui' = [at |-> at, handler |-> handler, type |-> type, name |-> name, pass |-> name]
      /\ commands < MaxCommands /\ commands' = commands + 1 /\ hasty' \in BOOLEAN
      /\ UNCHANGED <<userVars, callbackMap, callbackMapPerm, poller, resp, outbox, toClient,
                     serverVars, overlapped>>
  BY DEF Begin, TypeInv, Shapes
<1> USE DEF userVars, serverVars
<1>2. commands \in Nat /\ commands' \in 0 .. MaxCommands /\ commands' \in Nat
      /\ \A c : Asked(c) => Asked(c)'
  BY <1>1, BoundsAssumption DEF TypeInv, Shapes, Asked
<1>3. Shapes'
  BY <1>1, <1>2 DEF TypeInv, Shapes, Prepares, Sends
<1>4. CallbacksKnowTheirTypes'
  BY <1>1, <1>2 DEF TypeInv, CallbacksKnowTheirTypes
<1>5. UiInv'
  <2>1. Asked(commands)'
    BY <1>1, <1>2 DEF Asked
  <2>2. at # "ended" => type \in Handles[handler]
    BY HandledTypes DEF Typed
  <2>3. at = "set_name" => handler \in {"Login", "Register"}
    BY DEF Typed
  <2>4. QED
    BY <1>1, <2>1, <2>2, <2>3 DEF UiInv, Prepares, Sends
<1>6. RespInv'
  BY <1>1, <1>2 DEF TypeInv, RespInv
<1>7. MessagesAreAsked'
  BY <1>1, <1>2 DEF TypeInv, MessagesAreAsked
<1>8. QED
  BY <1>3, <1>4, <1>5, <1>6, <1>7 DEF TypeInv

(* The two steps of a message of the console.                              *)
LEMMA UiSendsEffect ==
    ASSUME TypeInv, UiSends
    PROVE  /\ UNCHANGED <<username, password, isLoggedIn, callbackMapPerm, poller, resp,
                          toClient, session, accounts, expiries, commands, hasty>>
           /\ ui.handler \in Handlers /\ ui.type \in Handles[ui.handler]
           /\ ui.type \in Types \ {"query_msg"} /\ Asked(commands)
           /\ \/ /\ ui.at = "add_callback" /\ ui' = [ui EXCEPT !.at = "create_task"]
                 /\ outbox' = outbox
                 /\ \E e \in Entry :
                       /\ e.handler = ui.handler /\ e.command = commands
                       /\ callbackMap' = [callbackMap EXCEPT ![ui.type] = e]
                 /\ overlapped' = IF callbackMap[ui.type] # NoEntry \/ InUse(ui.type)
                                  THEN overlapped \cup {ui.type} ELSE overlapped
              \/ /\ ui.at = "create_task" /\ UNCHANGED <<callbackMap, overlapped>>
                 /\ ui' = Input \/ (ui' = [ui EXCEPT !.at = "sleep"] /\ ui.handler = "Exit")
                 /\ \E m \in OutMessage :
                       /\ m.type = ui.type /\ m.name = ui.name /\ m.pass = ui.pass
                       /\ m.command = commands /\ outbox' = outbox \cup {m}
<1>1. /\ UNCHANGED <<username, password, isLoggedIn, callbackMapPerm, poller, resp,
                     toClient, session, accounts, expiries, commands, hasty>>
      /\ ui.at \in Sends
  BY DEF UiSends, UiKeeps, userVars, serverVars, Sends
<1>2. /\ ui.handler \in Handlers /\ ui.type \in Handles[ui.handler]
      /\ ui.type \in Types \ {"query_msg"} /\ Asked(commands)
      /\ commands \in Nat /\ ui.name \in Somebody /\ ui.pass \in Somebody
  BY <1>1, HandledTypes, BoundsAssumption DEF Sends, TypeInv, UiInv, Shapes
<1>3. CASE ui.at = "add_callback"
  <2>1. /\ addCallbackMap(ui.type, ui.handler, commands) /\ outbox' = outbox
        /\ ui' = [ui EXCEPT !.at = "create_task"]
    BY <1>3 DEF UiSends, sendMessage
  <2> DEFINE e == [handler |-> ui.handler, command |-> commands]
  <2>2. e \in Entry /\ e.handler = ui.handler /\ e.command = commands
    BY <1>2 DEF Entry
  <2>3. /\ callbackMap' = [callbackMap EXCEPT ![ui.type] = e]
        /\ overlapped' = IF callbackMap[ui.type] # NoEntry \/ InUse(ui.type)
                         THEN overlapped \cup {ui.type} ELSE overlapped
    BY <2>1 DEF addCallbackMap
  <2> HIDE DEF e
  <2>4. QED
    BY <1>1, <1>2, <1>3, <2>1, <2>2, <2>3
<1>4. CASE ui.at = "create_task"
  <2>1. /\ createSendThread(ui.type, ui.name, ui.pass, commands)
        /\ UNCHANGED <<callbackMap, overlapped>>
        /\ ui' = Input \/ (ui' = [ui EXCEPT !.at = "sleep"] /\ ui.handler = "Exit")
    BY <1>4 DEF UiSends, sendMessage
  <2> DEFINE m == [type |-> ui.type, name |-> ui.name, pass |-> ui.pass, command |-> commands]
  <2>2. /\ m \in OutMessage /\ m.type = ui.type /\ m.name = ui.name /\ m.pass = ui.pass
        /\ m.command = commands /\ outbox' = outbox \cup {m}
    BY <1>2, <2>1 DEF OutMessage, createSendThread
  <2> HIDE DEF m
  <2>3. QED
    BY <1>1, <1>2, <1>4, <2>1, <2>2
<1>5. QED
  BY <1>1, <1>3, <1>4 DEF Sends

(* A console step that sends nothing leaves the callbacks alone.           *)
LEMMA ConsoleEffect ==
    ASSUME TypeInv, ConsoleWorks, ~UiSends
    PROVE  /\ UNCHANGED <<callbackMap, callbackMapPerm, poller, resp, outbox, toClient, session,
                          accounts, expiries, commands, overlapped, hasty>>
           /\ username' \in Somebody /\ password' \in Somebody /\ isLoggedIn' \in BOOLEAN
           /\ ui' \in [at : Prepares \cup Sends \cup {"input", "ended", "sleep", "exited"},
                       handler : Handlers \cup {"none"}, type : Types \cup {"none"},
                       name : Somebody, pass : Somebody]
           /\ ui'.handler = ui.handler /\ ui'.type = ui.type
           /\ \/ /\ ui.at = "sleep" /\ ui'.at = "exited"
                 /\ UNCHANGED <<username, password, isLoggedIn>>
              \/ /\ ui.at = "set_name" /\ ui'.at = "set_password" /\ username' = ui.name
                 /\ UNCHANGED <<password, isLoggedIn>> /\ ui'.name = ui.name /\ ui'.pass = ui.pass
              \/ /\ ui.at = "set_password" /\ ui'.at \in {"set_login", "get_name"}
                 /\ password' = ui.pass /\ UNCHANGED <<username, isLoggedIn>>
              \/ /\ ui.at = "set_login" /\ ui'.at = "get_name" /\ ~isLoggedIn'
                 /\ UNCHANGED <<username, password>>
              \/ /\ ui.at = "get_name" /\ ui'.at = "get_password" /\ ui'.name = username
                 /\ UNCHANGED <<username, password, isLoggedIn>>
              \/ /\ ui.at = "get_password" /\ ui'.at = "add_callback"
                 /\ ui'.name = ui.name /\ ui'.pass = password
                 /\ UNCHANGED <<username, password, isLoggedIn>>
<1>1. ui \in [at : Prepares \cup Sends \cup {"input", "ended", "sleep", "exited"},
              handler : Handlers \cup {"none"}, type : Types \cup {"none"},
              name : Somebody, pass : Somebody]
      /\ username \in Somebody /\ password \in Somebody /\ isLoggedIn \in BOOLEAN
  BY DEF TypeInv, Shapes
<1>2. UNCHANGED <<callbackMap, callbackMapPerm, poller, resp, outbox, toClient, session,
                  accounts, expiries, commands, overlapped, hasty>>
  BY DEF ConsoleWorks, SetUsername, SetPassword, SetLogin, GetUsername, GetPassword, EndProgram,
         UiKeeps, serverVars
<1>3. SetUsername \/ SetPassword \/ SetLogin \/ GetUsername \/ GetPassword \/ EndProgram
  BY DEF ConsoleWorks
<1>4. CASE SetUsername
  BY <1>1, <1>2, <1>4 DEF SetUsername, Prepares
<1>5. CASE SetPassword
  BY <1>1, <1>2, <1>5 DEF SetPassword, PasswordAfter, Prepares
<1>6. CASE SetLogin
  BY <1>1, <1>2, <1>6 DEF SetLogin, Prepares
<1>7. CASE GetUsername
  BY <1>1, <1>2, <1>7 DEF GetUsername, userVars, Prepares
<1>8. CASE GetPassword
  BY <1>1, <1>2, <1>8 DEF GetPassword, userVars, sendMessage, Sends
<1>9. CASE EndProgram
  BY <1>1, <1>2, <1>9 DEF EndProgram, userVars
<1>10. QED
  BY <1>3, <1>4, <1>5, <1>6, <1>7, <1>8, <1>9

LEMMA ConsoleKeepsTypes ==
    ASSUME TypeInv, ConsoleWorks
    PROVE  TypeInv'
<1>1. CASE ~UiSends
  <2> USE <1>1, ConsoleEffect
  <2>1. \A c : Asked(c)' <=> Asked(c)
    BY DEF Asked
  <2>2. Shapes'
    BY DEF TypeInv, Shapes
  <2>3. UiInv'
    BY <2>1 DEF TypeInv, UiInv, Prepares, Sends
  <2>4. CallbacksKnowTheirTypes' /\ RespInv' /\ MessagesAreAsked'
    BY <2>1 DEF TypeInv, CallbacksKnowTheirTypes, RespInv, MessagesAreAsked
  <2>5. QED
    BY <2>2, <2>3, <2>4 DEF TypeInv
<1>2. CASE UiSends
  <2> USE <1>2, UiSendsEffect
  <2>1. \A c : Asked(c)' <=> Asked(c)
    BY DEF Asked
  <2>2. ui' = Input \/ ui' = [ui EXCEPT !.at = "sleep"] \/ ui' = [ui EXCEPT !.at = "create_task"]
    OBVIOUS
  <2>3. /\ ui' \in [at : Prepares \cup Sends \cup {"input", "ended", "sleep", "exited"},
                    handler : Handlers \cup {"none"}, type : Types \cup {"none"},
                    name : Somebody, pass : Somebody]
        /\ UiInv'
    <3>1. CASE ui' = Input
      BY <3>1 DEF Input, UiInv, Prepares, Sends, Somebody
    <3>2. CASE ui' = [ui EXCEPT !.at = "sleep"]
      BY <3>2 DEF UiInv, Prepares, Sends, TypeInv, Shapes
    <3>3. CASE ui' = [ui EXCEPT !.at = "create_task"]
      BY <2>1, <3>3 DEF UiInv, Prepares, Sends, TypeInv, Shapes
    <3>4. QED
      BY <2>2, <3>1, <3>2, <3>3
  <2>4. CASE ui.at = "add_callback"
    <3>1. PICK e \in Entry : /\ e.handler = ui.handler /\ e.command = commands
                             /\ callbackMap' = [callbackMap EXCEPT ![ui.type] = e]
      BY <2>4
    <3>2. overlapped \subseteq overlapped' /\ overlapped' \subseteq overlapped \cup {ui.type}
      BY <2>4
    <3>3. Shapes'
      BY <2>3, <2>4, <3>1, <3>2 DEF TypeInv, Shapes
    <3>4. CallbacksKnowTheirTypes'
      BY <2>1, <3>1 DEF TypeInv, Shapes, CallbacksKnowTheirTypes
    <3>5. RespInv' /\ MessagesAreAsked'
      BY <2>1, <2>4, <3>2 DEF TypeInv, RespInv, MessagesAreAsked
    <3>6. QED
      BY <2>3, <3>3, <3>4, <3>5 DEF TypeInv
  <2>5. CASE ui.at = "create_task"
    <3>1. PICK m \in OutMessage :
               m.type = ui.type /\ m.command = commands /\ outbox' = outbox \cup {m}
      BY <2>5
    <3>2. IsFiniteSet(outbox')
      BY <3>1, FS_AddElement DEF TypeInv, Shapes
    <3>3. Shapes'
      BY <2>3, <2>5, <3>1, <3>2 DEF TypeInv, Shapes
    <3>4. CallbacksKnowTheirTypes' /\ RespInv'
      BY <2>1, <2>5 DEF TypeInv, CallbacksKnowTheirTypes, RespInv
    <3>5. MessagesAreAsked'
      BY <2>1, <2>5, <3>1 DEF TypeInv, MessagesAreAsked
    <3>6. QED
      BY <2>3, <3>3, <3>4, <3>5 DEF TypeInv
  <2>6. QED
    BY <2>4, <2>5
<1>3. QED
  BY <1>1, <1>2

LEMMA PollerKeepsTypes ==
    ASSUME TypeInv, Poll \/ QueryMessages
    PROVE  TypeInv'
<1>1. /\ UNCHANGED <<username, password, isLoggedIn, callbackMap, ui, resp, toClient, session,
                     accounts, expiries, commands, overlapped, hasty>>
      /\ \A c : Asked(c)' <=> Asked(c)
      /\ callbackMapPerm' \subseteq {"query_msg"} /\ poller' \in {"idle", "send"}
  BY DEF Poll, QueryMessages, userVars, serverVars, Asked, TypeInv, Shapes
<1> DEFINE m == [type |-> "query_msg", name |-> NoName, pass |-> NoName, command |-> 0]
<1>2. outbox' = outbox \/ outbox' = outbox \cup {m}
  BY DEF Poll, QueryMessages, createSendThread
<1>3. m \in OutMessage /\ m.type = "query_msg" /\ m.command = 0
  BY DEF OutMessage, Types, Somebody
<1> HIDE DEF m
<1>4. outbox' \in SUBSET OutMessage /\ IsFiniteSet(outbox')
  <2>1. outbox \in SUBSET OutMessage /\ IsFiniteSet(outbox)
    BY DEF TypeInv, Shapes
  <2>2. IsFiniteSet(outbox \cup {m})
    BY <2>1, FS_AddElement
  <2>3. outbox' \in SUBSET OutMessage
    BY <1>2, <1>3, <2>1
  <2>4. IsFiniteSet(outbox')
    BY <1>2, <2>1, <2>2
  <2> QED  BY <2>3, <2>4
<1>5. Shapes'
  BY <1>1, <1>4 DEF TypeInv, Shapes
<1>6. CallbacksKnowTheirTypes' /\ RespInv' /\ UiInv'
  BY <1>1 DEF TypeInv, CallbacksKnowTheirTypes, RespInv, UiInv
<1>7. MessagesAreAsked'
  BY <1>1, <1>2, <1>3 DEF TypeInv, MessagesAreAsked
<1>8. QED
  BY <1>5, <1>6, <1>7 DEF TypeInv

LEMMA ServedShape ==
    ASSUME TypeInv, NEW m \in outbox
    PROVE  /\ Served(m).subtype \in Subtypes /\ Served(m).session \in Somebody
           /\ Served(m).accounts \subseteq Somebody
<1>1. m \in OutMessage /\ accounts \subseteq Somebody /\ session \in Somebody
      /\ NoName \in Somebody
  BY DEF TypeInv, Shapes, Somebody
<1>2. m.type \in Types /\ m.name \in Somebody
  BY <1>1 DEF OutMessage
<1>3. m.type \in {"login", "create_user", "logoff", "delete_user", "create_store", "send_msg",
                  "query_msg", "echo", "exit"}
  BY <1>2 DEF Types
<1>4. QED
  BY <1>1, <1>2, <1>3 DEF Served, IfLoggedIn, Outcome, Subtypes

(* A message that is appended comes after those that are there.            *)
LEMMA AppendedMessage ==
    ASSUME toClient \in Seq(InMessage), NEW a \in InMessage, toClient' = Append(toClient, a)
    PROVE  /\ toClient' \in Seq(InMessage) /\ Len(toClient') = Len(toClient) + 1
           /\ DOMAIN toClient = 1 .. Len(toClient) /\ DOMAIN toClient' = 1 .. Len(toClient) + 1
           /\ toClient'[Len(toClient) + 1] = a
           /\ \A k \in DOMAIN toClient : k \in DOMAIN toClient' /\ toClient'[k] = toClient[k]
           /\ \A k \in DOMAIN toClient' : k \in DOMAIN toClient \/ k = Len(toClient) + 1
           /\ Len(toClient) \in Nat
BY AppendProperties

LEMMA TakenMessage ==
    ASSUME toClient \in Seq(InMessage), toClient # << >>, toClient' = Tail(toClient)
    PROVE  /\ toClient' \in Seq(InMessage) /\ Len(toClient') = Len(toClient) - 1
           /\ DOMAIN toClient = 1 .. Len(toClient) /\ DOMAIN toClient' = 1 .. Len(toClient) - 1
           /\ 1 \in DOMAIN toClient /\ Head(toClient) = toClient[1] /\ Head(toClient) \in InMessage
           /\ \A k \in DOMAIN toClient' :
                 k + 1 \in DOMAIN toClient /\ toClient'[k] = toClient[k + 1]
           /\ \A k \in DOMAIN toClient : k # 1 =>
                 k - 1 \in DOMAIN toClient' /\ toClient'[k - 1] = toClient[k]
           /\ Len(toClient) \in Nat
<1>1. /\ toClient' \in Seq(InMessage) /\ Len(toClient') = Len(toClient) - 1
      /\ Len(toClient) \in Nat /\ Len(toClient) # 0
      /\ Head(toClient) = toClient[1] /\ Head(toClient) \in InMessage
      /\ \A k \in 1 .. Len(toClient) - 1 : toClient'[k] = toClient[k + 1]
  BY HeadTailProperties, EmptySeq, LenProperties
<1>2. DOMAIN toClient = 1 .. Len(toClient) /\ DOMAIN toClient' = 1 .. Len(toClient')
  BY <1>1, LenProperties
<1>3. QED
  BY <1>1, <1>2

LEMMA DeliverKeepsTypes ==
    ASSUME TypeInv, NEW m \in outbox, Deliver(m), ~Empty(m)
    PROVE  TypeInv'
<1> DEFINE a == [type |-> m.type, subtype |-> Served(m).subtype, command |-> m.command]
<1>1. /\ UNCHANGED <<username, password, isLoggedIn, callbackMap, callbackMapPerm, ui, poller,
                     resp, expiries, commands, overlapped, hasty>>
      /\ \A c : Asked(c)' <=> Asked(c)
      /\ outbox' = outbox \ {m} /\ toClient' = Append(toClient, a)
      /\ session' = Served(m).session /\ accounts' = Served(m).accounts
  BY DEF Deliver, userVars, Asked
<1>2. m \in OutMessage /\ toClient \in Seq(InMessage)
  BY DEF TypeInv, Shapes
<1>3. /\ a \in InMessage /\ a.type = m.type /\ a.command = m.command
      /\ session' \in Somebody /\ accounts' \subseteq Somebody
  BY <1>1, <1>2, ServedShape DEF OutMessage, InMessage
<1> HIDE DEF a
<1>4. IsFiniteSet(outbox') /\ outbox' \subseteq outbox
  BY <1>1, FS_Subset DEF TypeInv, Shapes
<1>5. Shapes'
  BY <1>1, <1>2, <1>3, <1>4, AppendedMessage DEF TypeInv, Shapes
<1>6. CallbacksKnowTheirTypes' /\ RespInv' /\ UiInv'
  BY <1>1 DEF TypeInv, CallbacksKnowTheirTypes, RespInv, UiInv
<1>7. MessagesAreAsked'
  <2>1. IF a.type = "query_msg" THEN a.command = 0 ELSE Asked(a.command)
    BY <1>3 DEF TypeInv, MessagesAreAsked
  <2>2. ASSUME NEW k \in DOMAIN toClient'
        PROVE  \/ toClient'[k].command = 0 /\ toClient'[k].type = "query_msg"
               \/ /\ toClient'[k].command = 0 /\ toClient'[k].type = "logoff"
                  /\ "logoff" \in overlapped
               \/ Asked(toClient'[k].command) /\ toClient'[k].type # "query_msg"
    <3>1. \/ k \in DOMAIN toClient /\ toClient'[k] = toClient[k]
          \/ toClient'[k] = a
      BY <1>1, <1>2, <1>3, AppendedMessage
    <3>2. QED
      BY <2>1, <3>1 DEF TypeInv, MessagesAreAsked
  <2>3. QED
    BY <1>1, <1>4, <2>2 DEF TypeInv, MessagesAreAsked
<1>8. QED
  BY <1>5, <1>6, <1>7 DEF TypeInv

(* An empty message is dropped: nothing but the outbox changes.            *)
LEMMA EmptyIsDropped ==
    ASSUME TypeInv, NEW m \in outbox, Deliver(m), Empty(m)
    PROVE  /\ UNCHANGED <<username, password, isLoggedIn, callbackMap, callbackMapPerm, ui, poller,
                          resp, toClient, session, accounts, expiries, commands, overlapped, hasty>>
           /\ \A c : Asked(c)' <=> Asked(c)
           /\ outbox' = outbox \ {m} /\ outbox' \subseteq outbox /\ IsFiniteSet(outbox')
           /\ m.type = "echo"
<1>1. /\ UNCHANGED <<username, password, isLoggedIn, callbackMap, callbackMapPerm, ui, poller,
                     resp, toClient, session, accounts, expiries, commands, overlapped, hasty>>
      /\ outbox' = outbox \ {m} /\ m.type = "echo"
  BY DEF Deliver, Empty, userVars
<1>2. outbox' \subseteq outbox /\ IsFiniteSet(outbox')
  BY <1>1, FS_Subset DEF TypeInv, Shapes
<1>3. QED
  BY <1>1, <1>2 DEF Asked

LEMMA DropKeepsTypes ==
    ASSUME TypeInv, NEW m \in outbox, Deliver(m), Empty(m)
    PROVE  TypeInv'
<1> USE EmptyIsDropped
<1>1. Shapes'
  BY DEF TypeInv, Shapes
<1>2. CallbacksKnowTheirTypes' /\ RespInv' /\ UiInv' /\ MessagesAreAsked'
  BY DEF TypeInv, CallbacksKnowTheirTypes, RespInv, UiInv, MessagesAreAsked
<1>3. QED
  BY <1>1, <1>2 DEF TypeInv

LEMMA ExpireKeepsTypes ==
    ASSUME TypeInv, Expire
    PROVE  TypeInv'
<1> DEFINE a == [type |-> "logoff", subtype |-> "session_expired", command |-> 0]
<1>1. /\ UNCHANGED <<username, password, isLoggedIn, callbackMap, callbackMapPerm, ui, poller,
                     resp, outbox, accounts, commands, hasty>>
      /\ \A c : Asked(c)' <=> Asked(c)
      /\ toClient' = Append(toClient, a) /\ session' = NoName
      /\ expiries < MaxExpiries /\ expiries' = expiries + 1
      /\ overlapped' = overlapped \cup {"logoff"}
  BY DEF Expire, userVars, Asked
<1>2. a \in InMessage /\ a.type = "logoff" /\ a.command = 0 /\ toClient \in Seq(InMessage)
  BY DEF InMessage, Types, Subtypes, TypeInv, Shapes
<1> HIDE DEF a
<1>3. Shapes'
  BY <1>1, <1>2, AppendedMessage, BoundsAssumption DEF TypeInv, Shapes, Types, Somebody
<1>4. CallbacksKnowTheirTypes' /\ RespInv' /\ UiInv'
  BY <1>1 DEF TypeInv, CallbacksKnowTheirTypes, RespInv, UiInv
<1>5. MessagesAreAsked'
  <2>1. ASSUME NEW k \in DOMAIN toClient'
        PROVE  \/ toClient'[k].command = 0 /\ toClient'[k].type = "query_msg"
               \/ toClient'[k].command = 0 /\ toClient'[k].type = "logoff"
               \/ Asked(toClient'[k].command) /\ toClient'[k].type # "query_msg"
    <3>1. \/ k \in DOMAIN toClient /\ toClient'[k] = toClient[k]
          \/ toClient'[k] = a
      BY <1>1, <1>2, AppendedMessage
    <3>2. QED
      BY <1>2, <3>1 DEF TypeInv, MessagesAreAsked
  <2>2. QED
    BY <1>1, <2>1 DEF TypeInv, MessagesAreAsked
<1>6. QED
  BY <1>3, <1>4, <1>5 DEF TypeInv
-----------------------------------------------------------------------------
(* The response thread: what its variable holds, and the message in it.   *)
RespShape ==
    resp \in [at : {"read", "handle", "clear_name", "clear_password", "get_name",
                    "get_password", "remove", "ended"} \cup Sends,
              msg : InMessage \cup {NoMessage},
              entry : [handler : Handlers \cup {"none", "Poller"}, command : Nat],
              type : Types \cup {"none"}, name : Somebody, pass : Somebody]
RespMsgAsked == resp.msg.type = "logoff" /\ resp.msg.command = 0 => "logoff" \in overlapped

LEMMA ReadingShape ==
    /\ Reading.at = "read" /\ Reading.msg = NoMessage /\ Reading.entry = NoEntry
    /\ Reading.type = "none" /\ Reading.name = NoName /\ Reading.pass = NoName
    /\ NoMessage.type = "none" /\ NoMessage.command = 0
BY DEF Reading, NoMessage, NoEntry

(* What Read does: the message at the head leaves the queue, and is handled *)
(* if there is a callback for it.                                          *)
LEMMA ReadEffect ==
    ASSUME TypeInv, Read
    PROVE  /\ resp = Reading /\ toClient # << >> /\ toClient' = Tail(toClient)
           /\ UNCHANGED <<username, password, isLoggedIn, callbackMap, callbackMapPerm, ui, poller,
                          outbox, session, accounts, expiries, commands, overlapped, hasty>>
           /\ \A c : Asked(c)' <=> Asked(c)
           /\ \/ /\ resp' = Reading /\ callbackMap[Head(toClient).type] = NoEntry
              \/ /\ resp'.at = "handle" /\ resp'.msg = Head(toClient)
                 /\ resp'.type = "none" /\ resp'.name = NoName /\ resp'.pass = NoName
                 /\ \/ /\ callbackMap[Head(toClient).type] # NoEntry
                       /\ resp'.entry = callbackMap[Head(toClient).type]
                    \/ /\ callbackMap[Head(toClient).type] = NoEntry
                       /\ resp'.entry = [handler |-> "Poller", command |-> 0]
                       /\ Head(toClient).type = "query_msg"
                 /\ resp'.entry # NoEntry
                 /\ resp' = [at |-> "handle", msg |-> resp'.msg, entry |-> resp'.entry,
                             type |-> "none", name |-> NoName, pass |-> NoName]
<1> DEFINE msg == Head(toClient)
           entry == IF callbackMap[msg.type] # NoEntry THEN callbackMap[msg.type]
                    ELSE IF msg.type \in callbackMapPerm THEN [handler |-> "Poller", command |-> 0]
                    ELSE NoEntry
<1>1. /\ resp.at = "read" /\ toClient # << >> /\ toClient' = Tail(toClient)
      /\ resp' = IF entry = NoEntry THEN Reading
                 ELSE [Reading EXCEPT !.at = "handle", !.msg = msg, !.entry = entry]
      /\ UNCHANGED <<userVars, callbackMap, outbox, overlapped>> /\ RespKeeps
  BY DEF Read
<1>2. resp = Reading
  BY <1>1 DEF TypeInv, RespInv
<1>3. [handler |-> "Poller", command |-> 0] # NoEntry
  BY DEF NoEntry
<1>4. /\ callbackMap[msg.type] # NoEntry => entry = callbackMap[msg.type]
      /\ callbackMap[msg.type] = NoEntry =>
            \/ entry = NoEntry
            \/ entry = [handler |-> "Poller", command |-> 0] /\ msg.type = "query_msg"
  BY DEF TypeInv, Shapes
<1> HIDE DEF entry, msg
<1>5. CASE entry = NoEntry
  <2>1. resp' = Reading /\ callbackMap[msg.type] = NoEntry
    BY <1>1, <1>4, <1>5
  <2>2. QED
    BY <1>1, <1>2, <2>1 DEF RespKeeps, userVars, serverVars, Asked, msg
<1>6. CASE entry # NoEntry
  <2>1. resp' = [at |-> "handle", msg |-> msg, entry |-> entry, type |-> "none",
                 name |-> NoName, pass |-> NoName]
    BY <1>1, <1>6 DEF Reading
  <2>2. /\ resp'.at = "handle" /\ resp'.msg = msg /\ resp'.entry = entry
        /\ resp'.type = "none" /\ resp'.name = NoName /\ resp'.pass = NoName
        /\ resp' = [at |-> "handle", msg |-> resp'.msg, entry |-> resp'.entry,
                     type |-> "none", name |-> NoName, pass |-> NoName]
    BY <2>1
  <2>3. /\ UNCHANGED <<username, password, isLoggedIn, callbackMap, callbackMapPerm, ui, poller,
                       outbox, session, accounts, expiries, commands, overlapped, hasty>>
        /\ \A c : Asked(c)' <=> Asked(c)
    BY <1>1 DEF RespKeeps, userVars, serverVars, Asked
  <2>4. QED
    BY <1>1, <1>2, <1>4, <1>6, <2>2, <2>3 DEF msg
<1>7. QED
  BY <1>5, <1>6

LEMMA ReadKeepsTypes ==
    ASSUME TypeInv, Read
    PROVE  TypeInv'
<1> USE ReadEffect
<1>1. Head(toClient) \in InMessage /\ toClient' \in Seq(InMessage)
  BY TakenMessage DEF TypeInv, Shapes
<1>2. CASE resp' = Reading
  <2>1. Shapes'
    BY <1>1, <1>2 DEF TypeInv, Shapes
  <2>2. RespInv'
    BY <1>2, ReadingShape DEF RespInv, Sends
  <2>3. RespMsgAsked'
    BY <1>2, ReadingShape DEF RespMsgAsked
  <2>4. QED
    BY <2>1, <2>2, <2>3, TakenMessage
       DEF TypeInv, CallbacksKnowTheirTypes, UiInv, MessagesAreAsked, RespMsgAsked, Shapes
<1>3. CASE resp'.at = "handle"
  <2> DEFINE msg == Head(toClient)
  <2>1. /\ msg \in InMessage /\ resp'.msg = msg /\ resp'.entry # NoEntry /\ msg.type \in Types
        /\ resp' = [at |-> "handle", msg |-> resp'.msg, entry |-> resp'.entry,
                             type |-> "none", name |-> NoName, pass |-> NoName]
    BY <1>1, <1>3, ReadingShape DEF InMessage
  <2>2. /\ resp'.entry \in [handler : Handlers \cup {"none", "Poller"}, command : Nat]
        /\ \/ resp'.entry = [handler |-> "Poller", command |-> 0] /\ msg.type = "query_msg"
           \/ Asked(resp'.entry.command) /\ resp'.entry.handler \in Handlers
                /\ msg.type \in Handles[resp'.entry.handler]
    <3>1. CASE callbackMap[msg.type] # NoEntry
      <4>1. /\ resp'.entry = callbackMap[msg.type] /\ callbackMap[msg.type] \in Entry
        BY <1>3, <2>1, <3>1, ReadingShape DEF TypeInv, Shapes
      <4>2. /\ Asked(callbackMap[msg.type].command) /\ callbackMap[msg.type].handler \in Handlers
            /\ msg.type \in Handles[callbackMap[msg.type].handler]
        BY <2>1, <3>1 DEF TypeInv, CallbacksKnowTheirTypes
      <4> HIDE DEF msg
      <4>3. QED
        BY <4>1, <4>2 DEF Entry
    <3>2. CASE callbackMap[msg.type] = NoEntry
      BY <1>3, <2>1, <3>2, ReadingShape
    <3>3. QED
      BY <3>1, <3>2
  <2> HIDE DEF msg
  <2>3. Shapes'
    <3>1. RespShape'
      BY <2>1, <2>2 DEF RespShape, Somebody
    <3>2. QED
      BY <1>1, <3>1 DEF TypeInv, Shapes, RespShape
  <2>4. RespInv'
    BY <1>3, <2>1, <2>2 DEF RespInv, Sends, Asked
  <2>5. RespMsgAsked'
    <3>1. 1 \in DOMAIN toClient /\ msg = toClient[1]
      BY TakenMessage DEF TypeInv, Shapes, msg
    <3>2. QED
      BY <2>1, <3>1 DEF RespMsgAsked, TypeInv, MessagesAreAsked, Asked
  <2>6. QED
    BY <2>3, <2>4, <2>5, TakenMessage
       DEF TypeInv, CallbacksKnowTheirTypes, UiInv, MessagesAreAsked, RespMsgAsked, Shapes
<1>4. QED
  BY <1>2, <1>3

(* What a callback may do next, and what it does to the login flag.        *)
LEMMA HandleEffect ==
    ASSUME TypeInv, handleResponse
    PROVE  /\ resp.at = "handle" /\ resp.msg \in InMessage
           /\ UNCHANGED <<username, password, callbackMap, callbackMapPerm, ui, poller, outbox,
                          toClient, session, accounts, expiries, commands, overlapped, hasty>>
           /\ \A c : Asked(c)' <=> Asked(c)
           /\ \/ /\ resp' = [resp EXCEPT !.at = "clear_name"]
                 /\ resp.msg.type = "delete_user" /\ resp.msg.subtype = "success"
              \/ /\ resp' = [resp EXCEPT !.at = "get_name", !.type = "login"]
                 /\ resp.msg.type = "create_user" /\ resp.entry.handler = "Register"
              \/ /\ resp' = [resp EXCEPT !.at = "add_callback", !.type = "create_store"]
                 /\ resp.msg.type \in {"create_user", "login"}
                 /\ resp.entry.handler = "Register"
              \/ resp' = [Reading EXCEPT !.at = "ended"] /\ resp.msg.type = "exit"
              \/ resp' = Reading /\ resp.msg.type = "query_msg"
              \/ resp' = [resp EXCEPT !.at = "remove"] /\ resp.entry.handler \in Handlers
           /\ isLoggedIn' \in BOOLEAN
           /\ isLoggedIn' /\ ~isLoggedIn =>
                 resp.msg.type = "login" /\ resp'.at \in {"remove", "add_callback"}
           /\ LoginSuccess(resp.msg) => isLoggedIn'
           /\ isLoggedIn /\ ~isLoggedIn' => Ends(resp.msg)
<1> DEFINE h == resp.entry.handler
           msg == resp.msg
<1>1. /\ resp.at = "handle"
      /\ isLoggedIn' = (SetsLogin(h, msg) \/ (isLoggedIn /\ ~ClearsLogin(h, msg)))
      /\ resp' = HandledBy(h, msg)
      /\ UNCHANGED <<username, password, callbackMap, outbox, toClient, overlapped>> /\ RespKeeps
  BY DEF handleResponse
<1>2. /\ msg \in InMessage /\ isLoggedIn \in BOOLEAN
      /\ \/ h = "Poller" /\ msg.type = "query_msg"
         \/ h \in Handlers /\ msg.type \in Handles[h]
  BY <1>1 DEF TypeInv, RespInv, Shapes
<1>3. /\ h = "Login" => msg.type = "login"
      /\ h = "Delete" => msg.type = "delete_user"
      /\ h = "Logoff" => msg.type = "logoff"
      /\ h = "Exit" => msg.type = "exit"
      /\ h = "Register" => msg.type \in {"create_user", "login", "create_store"}
      /\ h = "Send" => msg.type = "send_msg"
      /\ h = "Echo" => msg.type = "echo"
      /\ h = "Poller" => msg.type = "query_msg"
      /\ h = "Poller" \/ h \in Handlers
  BY <1>2, HandledTypes DEF Handlers
<1> HIDE DEF h
<1>4. \/ /\ resp' = [resp EXCEPT !.at = "clear_name"]
         /\ h = "Delete" /\ msg.type = "delete_user" /\ msg.subtype = "success"
      \/ /\ resp' = [resp EXCEPT !.at = "get_name", !.type = "login"]
         /\ msg.type = "create_user" /\ h = "Register"
      \/ /\ resp' = [resp EXCEPT !.at = "add_callback", !.type = "create_store"]
         /\ msg.type \in {"create_user", "login"}
         /\ h = "Register"
      \/ resp' = [Reading EXCEPT !.at = "ended"] /\ msg.type = "exit"
      \/ resp' = Reading /\ msg.type = "query_msg"
      \/ resp' = [resp EXCEPT !.at = "remove"] /\ h \in Handlers
  <2>1. CASE h = "Delete" /\ msg.subtype = "success"
    BY <1>1, <1>3, <2>1 DEF HandledBy
  <2>2. CASE h = "Register" /\ msg.type = "create_user" /\ msg.subtype = "success"
    BY <1>1, <1>3, <2>2 DEF HandledBy
  <2>3. CASE h = "Register" /\ msg.type = "create_user" /\ msg.subtype = "logged_in"
    BY <1>1, <1>3, <2>3 DEF HandledBy, Prepare, sendMessage
  <2>4. CASE h = "Register" /\ msg.type = "login" /\ msg.subtype = "success"
    BY <1>1, <1>3, <2>4 DEF HandledBy, Prepare, sendMessage
  <2>5. CASE h \in {"Exit", "Poller"}
    BY <1>1, <1>3, <2>5 DEF HandledBy
  <2>6. QED
    BY <1>1, <1>3, <2>1, <2>2, <2>3, <2>4, <2>5 DEF HandledBy
<1>5. isLoggedIn' \in BOOLEAN
  BY <1>1
<1>6. ASSUME isLoggedIn', ~isLoggedIn
      PROVE  msg.type = "login" /\ resp'.at \in {"remove", "add_callback"}
  <2>1. SetsLogin(h, msg)
    BY <1>1, <1>6, Zenon
  <2>2. \/ h = "Login" /\ msg.type = "login"
        \/ h = "Register" /\ msg.type = "login" /\ msg.subtype = "success"
    BY <1>3, <2>1 DEF SetsLogin
  <2>3. \/ resp' = [resp EXCEPT !.at = "remove"]
        \/ resp' = [resp EXCEPT !.at = "add_callback", !.type = "create_store"]
    BY <1>4, <2>2
  <2>4. QED
    BY <2>2, <2>3 DEF TypeInv, Shapes
<1>7. ASSUME LoginSuccess(msg) PROVE isLoggedIn'
  <2>1. h \in {"Login", "Register"}
    BY <1>3, <1>7 DEF LoginSuccess, Handlers
  <2>2. SetsLogin(h, msg)
    BY <1>7, <2>1 DEF SetsLogin, LoginSuccess
  <2>3. QED
    BY <1>1, <2>2, Zenon
<1>8. ASSUME isLoggedIn, ~isLoggedIn' PROVE Ends(msg)
  <2>1. ClearsLogin(h, msg)
    BY <1>1, <1>8, Zenon
  <2>2. QED
    BY <1>3, <2>1 DEF ClearsLogin, Ends
<1>9. /\ UNCHANGED <<callbackMapPerm, ui, poller, session, accounts, expiries, commands, hasty>>
      /\ \A c : Asked(c)' <=> Asked(c)
  BY <1>1 DEF RespKeeps, serverVars, Asked
<1>10. QED
  BY <1>1, <1>2, <1>4, <1>5, <1>6, <1>7, <1>8, <1>9 DEF h

(* The invariant after a step that changes the response thread and at most *)
(* the user.                                                               *)
LEMMA RespStepKeepsTypes ==
    ASSUME TypeInv, RespShape', RespInv', RespMsgAsked',
           UNCHANGED <<callbackMap, callbackMapPerm, ui, poller, outbox,
                       toClient, session, accounts, expiries, commands, overlapped, hasty>>,
           username' \in Somebody, password' \in Somebody, isLoggedIn' \in BOOLEAN
    PROVE  TypeInv'
<1>1. \A c : Asked(c)' <=> Asked(c)
  BY DEF Asked
<1>2. Shapes'
  BY DEF TypeInv, Shapes, RespShape
<1>3. QED
  BY <1>1, <1>2 DEF TypeInv, CallbacksKnowTheirTypes, UiInv, MessagesAreAsked, RespMsgAsked

LEMMA HandleKeepsTypes ==
    ASSUME TypeInv, handleResponse
    PROVE  TypeInv'
<1> USE HandleEffect
<1>1. /\ RespShape /\ RespMsgAsked /\ resp.name = NoName /\ resp.pass = NoName
      /\ resp.msg \in InMessage
      /\ resp.entry.handler \in Handlers => Asked(resp.entry.command)
                                            /\ resp.msg.type \in Handles[resp.entry.handler]
  BY DEF TypeInv, Shapes, RespInv, RespShape, MessagesAreAsked, RespMsgAsked, Handlers
<1>2. RespMsgAsked => (resp'.msg = resp.msg \/ resp'.msg = NoMessage => RespMsgAsked')
  BY ReadingShape DEF RespMsgAsked
<1> DEFINE R == [at : {"read", "handle", "clear_name", "clear_password", "get_name",
                    "get_password", "remove", "ended"} \cup Sends,
              msg : InMessage \cup {NoMessage},
              entry : [handler : Handlers \cup {"none", "Poller"}, command : Nat],
              type : Types \cup {"none"}, name : Somebody, pass : Somebody]
<1>3. Reading \in R /\ [Reading EXCEPT !.at = "ended"] \in R
  BY DEF Reading, NoEntry, Somebody
<1>4. resp \in R
  BY <1>1 DEF RespShape
<1>5. CASE resp' = [resp EXCEPT !.at = "clear_name"] /\ resp.msg.type = "delete_user"
  <2>1. resp' \in R /\ resp'.at = "clear_name" /\ resp'.msg = resp.msg /\ resp'.entry = resp.entry
    BY <1>4, <1>5
  <2>2. resp.entry.handler \in Handlers
    BY <1>5 DEF TypeInv, RespInv
  <2> HIDE DEF R
  <2>3. RespInv'
    BY <1>1, <1>5, <2>1, <2>2 DEF RespInv, Sends
  <2>4. QED
    BY <1>1, <1>2, <2>1, <2>3, RespStepKeepsTypes DEF TypeInv, Shapes, RespShape, R
<1>6. CASE /\ resp' = [resp EXCEPT !.at = "get_name", !.type = "login"]
           /\ resp.msg.type = "create_user" /\ resp.entry.handler = "Register"
  <2>1. /\ resp' \in R /\ resp'.at = "get_name" /\ resp'.msg = resp.msg
        /\ resp'.entry = resp.entry /\ resp'.type = "login"
    BY <1>4, <1>6 DEF Types
  <2> HIDE DEF R
  <2>2. RespInv'
    BY <1>1, <1>6, <2>1 DEF RespInv, Sends, Handlers
  <2>3. QED
    BY <1>1, <1>2, <2>1, <2>2, RespStepKeepsTypes DEF TypeInv, Shapes, RespShape, R
<1>7. CASE /\ resp' = [resp EXCEPT !.at = "add_callback", !.type = "create_store"]
           /\ resp.msg.type \in {"create_user", "login"} /\ resp.entry.handler = "Register"
  <2>1. /\ resp' \in R /\ resp'.at = "add_callback" /\ resp'.msg = resp.msg
        /\ resp'.entry = resp.entry /\ resp'.type = "create_store"
    BY <1>4, <1>7 DEF Types, Sends
  <2> HIDE DEF R
  <2>2. RespInv'
    BY <1>1, <1>7, <2>1 DEF RespInv, Sends, Handlers
  <2>3. QED
    BY <1>1, <1>2, <2>1, <2>2, RespStepKeepsTypes DEF TypeInv, Shapes, RespShape, R
<1>8. CASE resp' = [Reading EXCEPT !.at = "ended"]
  <2>1. resp' \in R /\ resp'.at = "ended" /\ resp'.msg = NoMessage
    BY <1>3, <1>8 DEF Reading
  <2> HIDE DEF R
  <2>2. RespInv'
    BY <2>1 DEF RespInv, Sends
  <2>3. QED
    BY <1>1, <1>2, <2>1, <2>2, RespStepKeepsTypes DEF TypeInv, Shapes, RespShape, R
<1>9. CASE resp' = Reading
  <2> HIDE DEF R
  <2>2. RespInv'
    BY <1>9, ReadingShape DEF RespInv, Sends
  <2>3. QED
    BY <1>1, <1>2, <1>3, <1>9, <2>2, ReadingShape, RespStepKeepsTypes
       DEF TypeInv, Shapes, RespShape, R
<1>10. CASE resp' = [resp EXCEPT !.at = "remove"] /\ resp.entry.handler \in Handlers
  <2>1. resp' \in R /\ resp'.at = "remove" /\ resp'.msg = resp.msg /\ resp'.entry = resp.entry
    BY <1>4, <1>10
  <2> HIDE DEF R
  <2>2. RespInv'
    BY <1>1, <1>10, <2>1 DEF RespInv, Sends
  <2>3. QED
    BY <1>1, <1>2, <2>1, <2>2, RespStepKeepsTypes DEF TypeInv, Shapes, RespShape, R
<1>11. QED
  BY <1>5, <1>6, <1>7, <1>8, <1>9, <1>10

(* Where the response thread is after a callback has run.                  *)
LEMMA HandledInto ==
    ASSUME TypeInv, handleResponse
    PROVE  \/ resp'.at \in {"ended", "read"} /\ resp'.msg = NoMessage /\ resp'.entry = NoEntry
           \/ /\ resp'.msg = resp.msg /\ resp'.entry = resp.entry
              /\ \/ resp'.at = "remove"
                 \/ resp'.at = "clear_name" /\ resp.msg.type = "delete_user"
                 \/ resp'.at = "get_name" /\ resp.msg.type = "create_user"
                 \/ resp'.at = "add_callback" /\ resp'.type = "create_store"
<1> USE HandleEffect
<1>1. RespShape
  BY DEF TypeInv, Shapes, RespShape
<1>2. CASE resp' = [Reading EXCEPT !.at = "ended"]
  BY <1>2 DEF Reading
<1>3. CASE resp' = Reading
  BY <1>3, ReadingShape
<1>4. CASE resp' = [resp EXCEPT !.at = "clear_name"] /\ resp.msg.type = "delete_user"
  BY <1>1, <1>4 DEF RespShape
<1>5. CASE /\ resp' = [resp EXCEPT !.at = "get_name", !.type = "login"]
           /\ resp.msg.type = "create_user"
  BY <1>1, <1>5 DEF RespShape
<1>6. CASE resp' = [resp EXCEPT !.at = "add_callback", !.type = "create_store"]
  BY <1>1, <1>6 DEF RespShape
<1>7. CASE resp' = [resp EXCEPT !.at = "remove"]
  BY <1>1, <1>7 DEF RespShape
<1>8. QED
  BY <1>2, <1>3, <1>4, <1>5, <1>6, <1>7
(* What a callback does on its own, before it removes its entry or sends.  *)
LEMMA FollowUpKeepsTypes ==
    ASSUME TypeInv, ClearUsername \/ ClearPassword \/ RespGetsUsername \/ RespGetsPassword
    PROVE  /\ TypeInv'
           /\ UNCHANGED <<isLoggedIn, callbackMap, callbackMapPerm, ui, poller, outbox,
                          toClient, session, accounts, expiries, commands, overlapped, hasty>>
           /\ resp'.msg = resp.msg /\ resp'.entry = resp.entry /\ resp'.type = resp.type
           /\ \/ /\ resp.at = "clear_name" /\ resp'.at = "clear_password"
                 /\ username' = NoName /\ password' = password
              \/ /\ resp.at = "clear_password" /\ resp'.at = "remove"
                 /\ username' = username /\ password' = NoName
              \/ /\ resp.at = "get_name" /\ resp'.at = "get_password"
                 /\ username' = username /\ password' = password /\ resp'.name = username
              \/ /\ resp.at = "get_password" /\ resp'.at = "add_callback"
                 /\ username' = username /\ password' = password
                 /\ resp'.name = resp.name /\ resp'.pass = password
<1>1. /\ UNCHANGED <<isLoggedIn, callbackMap, callbackMapPerm, ui, poller, outbox,
                     toClient, session, accounts, expiries, commands, overlapped, hasty>>
      /\ \A c : Asked(c)' <=> Asked(c)
  BY DEF ClearUsername, ClearPassword, RespGetsUsername, RespGetsPassword, RespKeeps, userVars,
         serverVars, Asked
<1>2. RespShape /\ RespMsgAsked /\ username \in Somebody /\ password \in Somebody
      /\ isLoggedIn \in BOOLEAN /\ NoName \in Somebody
  BY DEF TypeInv, Shapes, RespShape, MessagesAreAsked, RespMsgAsked, Somebody
<1>3. \/ /\ resp.at = "clear_name" /\ resp' = [resp EXCEPT !.at = "clear_password"]
         /\ username' = NoName /\ password' = password
      \/ /\ resp.at = "clear_password" /\ resp' = [resp EXCEPT !.at = "remove"]
         /\ username' = username /\ password' = NoName
      \/ /\ resp.at = "get_name" /\ resp' = [resp EXCEPT !.at = "get_password", !.name = username]
         /\ username' = username /\ password' = password
      \/ /\ resp.at = "get_password"
         /\ resp' = [resp EXCEPT !.at = "add_callback", !.pass = password]
         /\ username' = username /\ password' = password
  BY DEF ClearUsername, ClearPassword, RespGetsUsername, RespGetsPassword, userVars, sendMessage
<1>4. /\ resp'.msg = resp.msg /\ resp'.entry = resp.entry /\ resp'.type = resp.type
      /\ RespShape'
      /\ \/ /\ resp.at = "clear_name" /\ resp'.at = "clear_password"
            /\ username' = NoName /\ password' = password
         \/ /\ resp.at = "clear_password" /\ resp'.at = "remove"
            /\ username' = username /\ password' = NoName
         \/ /\ resp.at = "get_name" /\ resp'.at = "get_password"
            /\ username' = username /\ password' = password /\ resp'.name = username
         \/ /\ resp.at = "get_password" /\ resp'.at = "add_callback"
            /\ username' = username /\ password' = password
            /\ resp'.name = resp.name /\ resp'.pass = password
  <2>1. CASE resp.at = "clear_name" \/ resp.at = "clear_password"
    BY <1>2, <1>3, <2>1 DEF RespShape, Sends
  <2>2. CASE resp.at = "get_name" \/ resp.at = "get_password"
    BY <1>2, <1>3, <2>2 DEF RespShape, Sends
  <2> QED  BY <1>3, <2>1, <2>2
<1>5. RespInv'
  BY <1>1, <1>4 DEF TypeInv, RespInv, Sends
<1>6. RespMsgAsked' /\ username' \in Somebody /\ password' \in Somebody
  BY <1>1, <1>2, <1>4 DEF RespMsgAsked
<1>7. TypeInv'
  BY <1>1, <1>2, <1>4, <1>5, <1>6, RespStepKeepsTypes
<1>8. QED
  BY <1>1, <1>4, <1>7

LEMMA RespSendsEffect ==
    ASSUME TypeInv, RespSends
    PROVE  /\ UNCHANGED <<username, password, isLoggedIn, callbackMapPerm, ui, poller,
                          toClient, session, accounts, expiries, commands, hasty>>
           /\ resp.type \in {"login", "create_store"} /\ resp.type # resp.msg.type
           /\ resp.entry.handler = "Register" /\ Asked(resp.entry.command)
           /\ RespShape'
           /\ resp'.msg = resp.msg /\ resp'.entry = resp.entry /\ resp'.type = resp.type
           /\ resp'.name = resp.name /\ resp'.pass = resp.pass
           /\ \/ /\ resp.at = "add_callback" /\ resp'.at = "create_task" /\ outbox' = outbox
                 /\ \E e \in Entry :
                       /\ e.handler = "Register" /\ e.command = resp.entry.command
                       /\ callbackMap' = [callbackMap EXCEPT ![resp.type] = e]
                 /\ overlapped' = IF callbackMap[resp.type] # NoEntry \/ InUse(resp.type)
                                  THEN overlapped \cup {resp.type} ELSE overlapped
              \/ /\ resp.at = "create_task" /\ resp'.at = "remove"
                 /\ UNCHANGED <<callbackMap, overlapped>>
                 /\ \E m \in OutMessage :
                       /\ m.type = resp.type /\ m.name = resp.name /\ m.pass = resp.pass
                       /\ m.command = resp.entry.command /\ outbox' = outbox \cup {m}
<1>1. /\ UNCHANGED <<username, password, isLoggedIn, callbackMapPerm, ui, poller,
                     toClient, session, accounts, expiries, commands, hasty>>
      /\ resp.at \in Sends
  BY DEF RespSends, RespKeeps, userVars, serverVars, Sends
<1>2. /\ resp.type \in {"login", "create_store"} /\ resp.type # resp.msg.type
      /\ resp.entry.handler = "Register" /\ Asked(resp.entry.command)
  BY <1>1 DEF TypeInv, RespInv, Sends
<1>3. /\ resp.entry.command \in Nat /\ resp.name \in Somebody /\ resp.pass \in Somebody
      /\ RespShape /\ resp.type \in Types
  BY <1>2 DEF TypeInv, Shapes, RespShape, Types
<1>4. resp' = [resp EXCEPT !.at = IF resp.at = "add_callback" THEN "create_task" ELSE "remove"]
  BY DEF RespSends, sendMessage
<1>5. /\ resp'.msg = resp.msg /\ resp'.entry = resp.entry /\ resp'.type = resp.type
      /\ resp'.name = resp.name /\ resp'.pass = resp.pass /\ RespShape'
      /\ resp'.at = IF resp.at = "add_callback" THEN "create_task" ELSE "remove"
  BY <1>3, <1>4 DEF RespShape, Sends
<1>6. CASE resp.at = "add_callback"
  <2>1. addCallbackMap(resp.type, "Register", resp.entry.command) /\ outbox' = outbox
    BY <1>6 DEF RespSends
  <2> DEFINE e == [handler |-> "Register", command |-> resp.entry.command]
  <2>2. e \in Entry /\ e.handler = "Register" /\ e.command = resp.entry.command
    BY <1>3 DEF Entry, Handlers
  <2>3. /\ callbackMap' = [callbackMap EXCEPT ![resp.type] = e]
        /\ overlapped' = IF callbackMap[resp.type] # NoEntry \/ InUse(resp.type)
                         THEN overlapped \cup {resp.type} ELSE overlapped
    BY <2>1 DEF addCallbackMap
  <2> HIDE DEF e
  <2>4. QED
    BY <1>1, <1>2, <1>5, <1>6, <2>1, <2>2, <2>3
<1>7. CASE resp.at = "create_task"
  <2>1. /\ createSendThread(resp.type, resp.name, resp.pass, resp.entry.command)
        /\ UNCHANGED <<callbackMap, overlapped>>
    BY <1>7 DEF RespSends
  <2> DEFINE m == [type |-> resp.type, name |-> resp.name, pass |-> resp.pass,
                   command |-> resp.entry.command]
  <2>2. /\ m \in OutMessage /\ m.type = resp.type /\ m.name = resp.name /\ m.pass = resp.pass
        /\ m.command = resp.entry.command /\ outbox' = outbox \cup {m}
    BY <1>3, <2>1 DEF OutMessage, createSendThread
  <2> HIDE DEF m
  <2>3. QED
    BY <1>1, <1>2, <1>5, <1>7, <2>1, <2>2
<1>8. QED
  BY <1>1, <1>6, <1>7 DEF Sends

LEMMA RespSendsKeepsTypes ==
    ASSUME TypeInv, RespSends
    PROVE  TypeInv'
<1> USE RespSendsEffect
<1>1. /\ \A c : Asked(c)' <=> Asked(c)
      /\ overlapped \subseteq overlapped' /\ overlapped' \subseteq overlapped \cup {resp.type}
  BY DEF Asked
<1>2. /\ resp.type \in Types \ {"query_msg"} /\ resp.type \in Handles["Register"]
  BY HandledTypes DEF Types
<1>3. RespInv'
  BY <1>1 DEF TypeInv, RespInv, Sends
<1>4. CASE resp.at = "add_callback"
  <2>1. PICK e \in Entry : /\ e.handler = "Register" /\ e.command = resp.entry.command
                           /\ callbackMap' = [callbackMap EXCEPT ![resp.type] = e]
    BY <1>4
  <2>2. Shapes'
    <3>1. Shapes /\ RespShape'
      BY DEF TypeInv
    <3>2. callbackMap' \in [Types -> Entry]
      BY <1>2, <2>1, <3>1 DEF Shapes
    <3>3. outbox' = outbox
      BY <1>4
    <3> QED  BY <3>1, <3>2, <3>3 DEF Shapes, RespShape
  <2>3. CallbacksKnowTheirTypes'
    BY <1>1, <1>2, <2>1 DEF TypeInv, Shapes, CallbacksKnowTheirTypes, Handlers
  <2>4. UiInv' /\ MessagesAreAsked'
    BY <1>1, <1>4 DEF TypeInv, UiInv, MessagesAreAsked
  <2>5. QED
    BY <1>3, <2>2, <2>3, <2>4 DEF TypeInv
<1>5. CASE resp.at = "create_task"
  <2>1. PICK m \in OutMessage :
             /\ m.type = resp.type /\ m.command = resp.entry.command /\ outbox' = outbox \cup {m}
    BY <1>5
  <2>2. IsFiniteSet(outbox')
    BY <2>1, FS_AddElement DEF TypeInv, Shapes
  <2>3. Shapes'
    BY <1>1, <1>5, <2>1, <2>2 DEF TypeInv, Shapes, RespShape
  <2>4. CallbacksKnowTheirTypes' /\ UiInv'
    BY <1>1, <1>5 DEF TypeInv, UiInv, CallbacksKnowTheirTypes
  <2>5. MessagesAreAsked'
    BY <1>1, <1>2, <1>5, <2>1 DEF TypeInv, MessagesAreAsked
  <2>6. QED
    BY <1>3, <2>3, <2>4, <2>5 DEF TypeInv
<1>6. QED
  BY <1>4, <1>5

LEMMA RemoveKeepsTypes ==
    ASSUME TypeInv, RemoveCallback
    PROVE  /\ TypeInv' /\ resp.at = "remove" /\ resp' = Reading
           /\ UNCHANGED <<username, password, isLoggedIn, callbackMapPerm, ui, poller, outbox,
                          toClient, session, accounts, expiries, commands, overlapped, hasty>>
           /\ resp.msg.type \in Types
           /\ callbackMap' = [callbackMap EXCEPT ![resp.msg.type] = NoEntry]
<1>1. /\ UNCHANGED <<username, password, isLoggedIn, callbackMapPerm, ui, poller, outbox,
                     toClient, session, accounts, expiries, commands, overlapped, hasty>>
      /\ resp.at = "remove" /\ resp' = Reading
      /\ callbackMap' = [callbackMap EXCEPT ![resp.msg.type] = NoEntry]
      /\ \A c : Asked(c)' <=> Asked(c)
  BY DEF RemoveCallback, Removed, RespKeeps, userVars, serverVars, Asked
<1>2. resp.msg.type \in Types /\ NoEntry \in Entry
  BY <1>1 DEF TypeInv, RespInv, InMessage, NoEntry, Entry
<1>3. RespShape' /\ RespInv'
  <2>1. NoEntry \in [handler : Handlers \cup {"none", "Poller"}, command : Nat]
    BY DEF NoEntry
  <2>2. QED
    BY <1>1, <2>1, ReadingShape DEF RespShape, RespInv, Sends, Reading, Somebody
<1>4. Shapes'
  BY <1>1, <1>2, <1>3 DEF TypeInv, Shapes, RespShape
<1>5. CallbacksKnowTheirTypes' /\ UiInv'
  BY <1>1, <1>2 DEF TypeInv, Shapes, CallbacksKnowTheirTypes, UiInv
<1>6. MessagesAreAsked'
  BY <1>1, ReadingShape DEF TypeInv, MessagesAreAsked
<1>7. QED
  BY <1>1, <1>2, <1>3, <1>4, <1>5, <1>6 DEF TypeInv

LEMMA InitHasTypes == Init => TypeInv
<1> SUFFICES ASSUME Init PROVE TypeInv
  OBVIOUS
<1>1. NoName \in Somebody /\ Accounts \subseteq Somebody /\ NoEntry \in Entry
      /\ NoEntry \in [handler : Handlers \cup {"none", "Poller"}, command : Nat]
  BY NamesAssumption DEF Somebody, NoEntry, Entry
<1>2. resp = Reading /\ ui = Input /\ outbox = {} /\ toClient = << >> /\ commands = 0
      /\ expiries = 0
  BY DEF Init
<1>3. RespShape
  BY <1>1, <1>2 DEF RespShape, Reading
<1>4. /\ outbox \in SUBSET OutMessage /\ IsFiniteSet(outbox) /\ toClient \in Seq(InMessage)
      /\ DOMAIN toClient = {}
  BY <1>2, FS_EmptySet
<1>5. /\ ui \in [at : Prepares \cup Sends \cup {"input", "ended", "sleep", "exited"},
                 handler : Handlers \cup {"none"}, type : Types \cup {"none"},
                 name : Somebody, pass : Somebody]
      /\ ui.at = "input" /\ ui.handler = "none"
  BY <1>1, <1>2 DEF Input
<1>6. Shapes
  <2>1. username \in Somebody /\ password \in Somebody /\ session \in Somebody
        /\ accounts \subseteq Somebody
    BY <1>1 DEF Init
  <2>2. isLoggedIn \in BOOLEAN /\ hasty \in BOOLEAN
    BY DEF Init
  <2>3. callbackMap \in [Types -> Entry] /\ callbackMapPerm \subseteq {"query_msg"}
    BY <1>1 DEF Init
  <2>4. /\ expiries \in 0 .. MaxExpiries /\ commands \in 0 .. MaxCommands
        /\ overlapped \subseteq Types /\ poller \in {"idle", "send"}
    BY BoundsAssumption DEF Init
  <2>5. QED
    BY <1>3, <1>4, <1>5, <2>1, <2>2, <2>3, <2>4 DEF Shapes, RespShape
<1>7. CallbacksKnowTheirTypes /\ UiInv
  BY <1>2, <1>5 DEF Init, CallbacksKnowTheirTypes, UiInv, Prepares, Sends
<1>8. RespInv /\ MessagesAreAsked
  BY <1>2, <1>4, ReadingShape DEF RespInv, MessagesAreAsked, Sends
<1>9. QED
  BY <1>6, <1>7, <1>8 DEF TypeInv

LEMMA TypesAreKept == TypeInv /\ [Next]_vars => TypeInv'
<1> SUFFICES ASSUME TypeInv, [Next]_vars PROVE TypeInv'
  OBVIOUS
<1>1. ASSUME UNCHANGED vars PROVE TypeInv'
  BY <1>1 DEF vars, userVars, serverVars, TypeInv, Shapes, CallbacksKnowTheirTypes, UiInv, RespInv,
              MessagesAreAsked, Asked
<1>2. QED
  BY <1>1, Steps, BeginKeepsTypes, ConsoleKeepsTypes, PollerKeepsTypes, DeliverKeepsTypes,
     DropKeepsTypes, ExpireKeepsTypes, ReadKeepsTypes, HandleKeepsTypes, FollowUpKeepsTypes,
     RespSendsKeepsTypes, RemoveKeepsTypes

LEMMA TypesHold == Spec => []TypeInv
BY InitHasTypes, TypesAreKept, PTL DEF Spec
-----------------------------------------------------------------------------
(* A type no step concerns keeps its message where it is.                  *)
LEMMA MessageStays ==
    ASSUME NEW t, InPlace(t), OneAtATime(t), callbackMap'[t] = callbackMap[t],
           UiSendsType(t)' => UiSendsType(t) /\ commands' = commands,
           RespSendsType(t)' => RespSendsType(t) /\ resp'.entry = resp.entry,
           InUse(t)' => InUse(t),
           \A m \in outbox' : m.type = t => m \in outbox,
           \A k \in DOMAIN toClient' : toClient'[k].type = t =>
               k \in DOMAIN toClient /\ toClient'[k] = toClient[k]
    PROVE  InPlace(t)' /\ OneAtATime(t)'
<1>1. InPlace(t)'
  BY DEF InPlace, Registered
<1>2. OneAtATime(t)'
  BY DEF OneAtATime
<1>3. QED
  BY <1>1, <1>2

LEMMA FreeTypes ==
    ASSUME TypeInv, NEW t \in Free
    PROVE  /\ t \in Types /\ t # "query_msg" /\ t \notin overlapped
           /\ \A m \in outbox : m.type = t => m.command # 0
           /\ \A k \in DOMAIN toClient : toClient[k].type = t => toClient[k].command # 0
           /\ UiSendsType(t) => commands # 0
           /\ RespSendsType(t) => resp.entry.command # 0
<1>1. t \in Types /\ t # "query_msg" /\ t \notin overlapped
  BY DEF Free
<1>2. \A c : Asked(c) => c # 0
  BY DEF Asked
<1>3. /\ UiSendsType(t) => commands # 0
      /\ RespSendsType(t) => resp.entry.command # 0
  BY <1>2 DEF UiSendsType, RespSendsType, TypeInv, UiInv, RespInv, Sends
<1>4. QED
  BY <1>1, <1>2, <1>3 DEF TypeInv, MessagesAreAsked

(* Without a callback there is no message of the type on its way.          *)
LEMMA NoneOnItsWay ==
    ASSUME TypeInv, TokenInv, NEW t \in Free, callbackMap[t] = NoEntry
    PROVE  /\ \A m \in outbox : m.type # t
           /\ \A k \in DOMAIN toClient : toClient[k].type # t
           /\ ~UiSendsType(t) /\ ~RespSendsType(t)
<1>1. NoEntry.command = 0
  BY DEF NoEntry
<1>2. InPlace(t)
  BY DEF TokenInv
<1>3. QED
  BY <1>1, <1>2, FreeTypes DEF InPlace, Registered

(* The callback of a message of the console or the response thread.        *)
LEMMA AddKeepsTokens ==
    ASSUME TypeInv, TokenInv, NEW type \in Types, NEW e \in Entry,
           callbackMap' = [callbackMap EXCEPT ![type] = e],
           overlapped' = IF callbackMap[type] # NoEntry \/ InUse(type)
                         THEN overlapped \cup {type} ELSE overlapped,
           UNCHANGED <<outbox, toClient>>,
           \A t : InUse(t)' => InUse(t),
           \A t : t # type => /\ UiSendsType(t)' => UiSendsType(t) /\ commands' = commands
                              /\ RespSendsType(t)' => RespSendsType(t) /\ resp'.entry = resp.entry,
           UiSendsType(type)' => UiSendsType(type) \/ e.command = commands',
           RespSendsType(type)' => RespSendsType(type) \/ e.command = resp'.entry.command,
           UiSendsType(type)' /\ RespSendsType(type)' => UiSendsType(type) \/ RespSendsType(type)
    PROVE  TokenInv'
<1> SUFFICES ASSUME NEW t \in Free' PROVE InPlace(t)' /\ OneAtATime(t)'
  BY DEF TokenInv
<1>1. t \in Free /\ t \in Types /\ callbackMap \in [Types -> Entry]
  BY DEF Free, TypeInv, Shapes
<1>2. CASE t # type
  <2>1. callbackMap'[t] = callbackMap[t]
    BY <1>1, <1>2
  <2>2. InPlace(t) /\ OneAtATime(t)
    BY <1>1 DEF TokenInv
  <2>3. QED
    BY <1>2, <2>1, <2>2, MessageStays
<1>3. CASE t = type
  <2>1. callbackMap[t] = NoEntry /\ ~InUse(t) /\ callbackMap'[t] = e
    BY <1>1, <1>3 DEF Free
  <2>2. /\ \A m \in outbox : m.type # t
        /\ \A k \in DOMAIN toClient : toClient[k].type # t
        /\ ~InUse(t)' /\ ~UiSendsType(t) /\ ~RespSendsType(t)
    BY <1>1, <2>1, NoneOnItsWay
  <2>3. InPlace(t)'
    BY <1>3, <2>1, <2>2 DEF InPlace, Registered
  <2>4. OneAtATime(t)'
    BY <1>3, <2>2 DEF OneAtATime
  <2>5. QED
    BY <2>3, <2>4
<1>4. QED
  BY <1>2, <1>3

(* The task of a message of the console or the response thread.            *)
LEMMA TaskKeepsTokens ==
    ASSUME TypeInv, TokenInv, NEW type \in Types, NEW m \in OutMessage, m.type = type,
           UNCHANGED <<callbackMap, overlapped, toClient>>, outbox' = outbox \cup {m},
           \A t : InUse(t)' => InUse(t),
           \A t : UiSendsType(t)' => UiSendsType(t) /\ commands' = commands,
           \A t : RespSendsType(t)' => RespSendsType(t) /\ resp'.entry = resp.entry,
           \/ UiSendsType(type) /\ ~UiSendsType(type)' /\ m.command = commands
           \/ /\ RespSendsType(type) /\ ~RespSendsType(type)' /\ ~InUse(type)
              /\ m.command = resp.entry.command
    PROVE  TokenInv'
<1> SUFFICES ASSUME NEW t \in Free' PROVE InPlace(t)' /\ OneAtATime(t)'
  BY DEF TokenInv
<1>1. t \in Free /\ InPlace(t) /\ OneAtATime(t)
  BY DEF Free, TokenInv
<1>2. CASE t # type
  <2>1. \A n \in outbox' : n.type = t => n \in outbox
    BY <1>2
  <2>2. QED
    BY <1>1, <2>1, MessageStays
<1>3. CASE t = type
  <2>1. Registered(t, m.command)
    BY <1>1, <1>3 DEF InPlace
  <2>2. /\ \A n \in outbox : n.type # t
        /\ \A k \in DOMAIN toClient : toClient[k].type # t
        /\ ~InUse(t)' /\ ~UiSendsType(t)' /\ ~RespSendsType(t)'
    BY <1>1, <1>3 DEF OneAtATime
  <2>3. InPlace(t)'
    BY <1>3, <2>1, <2>2 DEF InPlace, Registered
  <2>4. OneAtATime(t)'
    BY <1>3, <2>2 DEF OneAtATime
  <2>5. QED
    BY <2>3, <2>4
<1>4. QED
  BY <1>2, <1>3

(* The console, the poller and the session's end.                          *)
LEMMA CarryKeepsTokens ==
    ASSUME TokenInv, callbackMap' = callbackMap, overlapped \subseteq overlapped',
           \A t : UiSendsType(t)' => UiSendsType(t) /\ commands' = commands,
           \A t : RespSendsType(t)' => RespSendsType(t) /\ resp'.entry = resp.entry,
           \A t : InUse(t)' => InUse(t),
           \A m \in outbox' : m \in outbox \/ m.type \notin Free',
           \A k \in DOMAIN toClient' :
               \/ k \in DOMAIN toClient /\ toClient'[k] = toClient[k]
               \/ toClient'[k].type \notin Free'
    PROVE  TokenInv'
<1> SUFFICES ASSUME NEW t \in Free' PROVE InPlace(t)' /\ OneAtATime(t)'
  BY DEF TokenInv
<1>1. t \in Free /\ InPlace(t) /\ OneAtATime(t)
  BY DEF Free, TokenInv
<1>2. QED
  BY <1>1, MessageStays

LEMMA ConsoleKeepsTokens ==
    ASSUME TypeInv, TokenInv, ConsoleWorks
    PROVE  TokenInv'
<1>1. CASE ~UiSends
  <2>1. /\ UNCHANGED <<callbackMap, resp, outbox, toClient, commands, overlapped>>
        /\ ui'.at # "create_task"
    BY <1>1, ConsoleEffect
  <2>2. \A t : /\ ~UiSendsType(t)'
               /\ (InUse(t)' <=> InUse(t)) /\ (RespSendsType(t)' <=> RespSendsType(t))
    BY <2>1 DEF UiSendsType, RespSendsType, InUse
  <2>3. QED
    BY <2>1, <2>2, CarryKeepsTokens
<1>2. CASE UiSends
  <2> USE <1>2, UiSendsEffect
  <2>1. \A t : (InUse(t)' <=> InUse(t)) /\ (RespSendsType(t)' <=> RespSendsType(t))
    BY DEF InUse, RespSendsType
  <2>2. CASE ui.at = "add_callback"
    <3>1. PICK e \in Entry : /\ e.command = commands
                             /\ callbackMap' = [callbackMap EXCEPT ![ui.type] = e]
      BY <2>2
    <3>2. \A t : UiSendsType(t)' => t = ui.type
      BY <2>2 DEF UiSendsType, TypeInv, Shapes
    <3>3. QED
      BY <2>1, <2>2, <3>1, <3>2, AddKeepsTokens
  <2>3. CASE ui.at = "create_task"
    <3>1. PICK m \in OutMessage :
               m.type = ui.type /\ m.command = commands /\ outbox' = outbox \cup {m}
      BY <2>3
    <3>2. ui'.at # "create_task"
      BY <2>3 DEF Input, TypeInv, Shapes
    <3>3. (\A t : ~UiSendsType(t)') /\ UiSendsType(ui.type)
      BY <2>3, <3>2 DEF UiSendsType
    <3>4. QED
      BY <2>1, <2>3, <3>1, <3>3, TaskKeepsTokens
  <2>4. QED
    BY <2>2, <2>3
<1>3. QED
  BY <1>1, <1>2

LEMMA RespSendsKeepsTokens ==
    ASSUME TypeInv, TokenInv, RespSends
    PROVE  TokenInv'
<1> USE RespSendsEffect
<1>1. /\ resp.type \in Types /\ resp.at # "read" /\ resp'.at # "read"
      /\ \A t : (InUse(t)' <=> InUse(t)) /\ (UiSendsType(t)' <=> UiSendsType(t))
  BY DEF InUse, UiSendsType, Types
<1>2. CASE resp.at = "add_callback"
  <2>1. PICK e \in Entry : /\ e.command = resp.entry.command
                           /\ callbackMap' = [callbackMap EXCEPT ![resp.type] = e]
    BY <1>2
  <2>2. \A t : RespSendsType(t)' => t = resp.type
    BY <1>2 DEF RespSendsType
  <2>0. PICK type : type = resp.type
    OBVIOUS
  <2>3. /\ type \in Types /\ callbackMap' = [callbackMap EXCEPT ![type] = e]
        /\ overlapped' = IF callbackMap[type] # NoEntry \/ InUse(type)
                         THEN overlapped \cup {type} ELSE overlapped
        /\ UNCHANGED <<outbox, toClient>>
    BY <1>1, <1>2, <2>0, <2>1
  <2>4. /\ e.command = resp'.entry.command
        /\ \A t : t # type => ~RespSendsType(t)'
    BY <2>0, <2>1, <2>2
  <2>5. /\ \A t : InUse(t)' => InUse(t)
        /\ \A t : UiSendsType(t)' <=> UiSendsType(t)
        /\ commands' = commands
    BY <1>1
  <2>6. \A t : t # type => /\ UiSendsType(t)' => UiSendsType(t) /\ commands' = commands
                           /\ RespSendsType(t)' => RespSendsType(t) /\ resp'.entry = resp.entry
    BY <2>4, <2>5
  <2>7. /\ UiSendsType(type)' => UiSendsType(type) \/ e.command = commands'
        /\ RespSendsType(type)' => RespSendsType(type) \/ e.command = resp'.entry.command
        /\ UiSendsType(type)' /\ RespSendsType(type)' => UiSendsType(type) \/ RespSendsType(type)
    BY <2>4, <2>5
  <2>8. QED
    BY <2>3, <2>5, <2>6, <2>7, AddKeepsTokens
<1>3. CASE resp.at = "create_task"
  <2>1. PICK m \in OutMessage : /\ m.type = resp.type /\ m.command = resp.entry.command
                                /\ outbox' = outbox \cup {m}
    BY <1>3
  <2>2. (\A t : ~RespSendsType(t)') /\ RespSendsType(resp.type) /\ ~InUse(resp.type)
    BY <1>3 DEF RespSendsType, InUse
  <2>3. QED
    BY <1>1, <1>3, <2>1, <2>2, TaskKeepsTokens
<1>4. QED
  BY <1>2, <1>3

LEMMA DeliverKeepsTokens ==
    ASSUME TypeInv, TokenInv, NEW m \in outbox, Deliver(m), ~Empty(m)
    PROVE  TokenInv'
<1> DEFINE a == [type |-> m.type, subtype |-> Served(m).subtype, command |-> m.command]
<1>1. /\ UNCHANGED <<callbackMap, ui, resp, commands, overlapped>>
      /\ outbox' = outbox \ {m} /\ toClient' = Append(toClient, a)
  BY DEF Deliver
<1>2. m \in OutMessage /\ toClient \in Seq(InMessage)
  BY DEF TypeInv, Shapes
<1>3. a \in InMessage /\ a.type = m.type /\ a.command = m.command
  BY <1>2, ServedShape DEF OutMessage, InMessage
<1> HIDE DEF a
<1>4. \A t : /\ InUse(t)' <=> InUse(t)
             /\ (UiSendsType(t)' <=> UiSendsType(t)) /\ (RespSendsType(t)' <=> RespSendsType(t))
  BY <1>1 DEF InUse, UiSendsType, RespSendsType
<1>5. \A k \in DOMAIN toClient' : \/ k \in DOMAIN toClient /\ toClient'[k] = toClient[k]
                                  \/ k = Len(toClient) + 1 /\ toClient'[k] = a
  BY <1>1, <1>2, <1>3, AppendedMessage
<1> SUFFICES ASSUME NEW t \in Free' PROVE InPlace(t)' /\ OneAtATime(t)'
  BY DEF TokenInv
<1>6. t \in Free /\ InPlace(t) /\ OneAtATime(t)
  BY <1>1 DEF Free, TokenInv
<1>7. CASE t # m.type
  <2>1. \A k \in DOMAIN toClient' : toClient'[k].type = t =>
            k \in DOMAIN toClient /\ toClient'[k] = toClient[k]
    BY <1>3, <1>5, <1>7
  <2>2. QED
    BY <1>1, <1>4, <1>6, <2>1, MessageStays
<1>8. CASE t = m.type
  <2>1. /\ \A n \in outbox : n.type = t => n = m
        /\ \A k \in DOMAIN toClient : toClient[k].type # t
        /\ ~UiSendsType(t) /\ ~RespSendsType(t) /\ ~InUse(t) /\ Registered(t, m.command)
    BY <1>6, <1>8 DEF OneAtATime, InPlace
  <2>2. (\A n \in outbox' : n.type # t) /\ ~UiSendsType(t)' /\ ~RespSendsType(t)' /\ ~InUse(t)'
    BY <1>1, <1>4, <2>1
  <2>3. \A k \in DOMAIN toClient' : toClient'[k].type = t =>
            k = Len(toClient) + 1 /\ toClient'[k] = a
    BY <1>5, <2>1
  <2>4. InPlace(t)'
    BY <1>1, <1>3, <2>1, <2>2, <2>3 DEF InPlace, Registered
  <2>5. OneAtATime(t)'
    BY <2>2, <2>3 DEF OneAtATime
  <2>6. QED
    BY <2>4, <2>5
<1>9. QED
  BY <1>7, <1>8

LEMMA DropKeepsTokens ==
    ASSUME TypeInv, TokenInv, NEW m \in outbox, Deliver(m), Empty(m)
    PROVE  TokenInv'
<1> USE EmptyIsDropped
<1>1. \A t : /\ InUse(t)' <=> InUse(t)
             /\ (UiSendsType(t)' <=> UiSendsType(t)) /\ (RespSendsType(t)' <=> RespSendsType(t))
  BY DEF InUse, UiSendsType, RespSendsType
<1> SUFFICES ASSUME NEW t \in Free' PROVE InPlace(t)' /\ OneAtATime(t)'
  BY DEF TokenInv
<1>2. t \in Free /\ InPlace(t) /\ OneAtATime(t)
  BY DEF Free, TokenInv
<1>3. QED
  BY <1>1, <1>2, MessageStays

LEMMA ReadKeepsTokens ==
    ASSUME TypeInv, TokenInv, Read
    PROVE  TokenInv'
<1> USE ReadEffect
<1>1. toClient \in Seq(InMessage)
  BY DEF TypeInv, Shapes
<1>2. \A t : /\ UiSendsType(t)' <=> UiSendsType(t)
             /\ ~RespSendsType(t)' /\ (InUse(t)' => t = toClient[1].type)
  BY <1>1, TakenMessage, ReadingShape DEF InUse, UiSendsType, RespSendsType
<1> SUFFICES ASSUME NEW t \in Free' PROVE InPlace(t)' /\ OneAtATime(t)'
  BY DEF TokenInv
<1>3. t \in Free /\ InPlace(t) /\ OneAtATime(t)
  BY DEF Free, TokenInv
<1>4. \A k \in DOMAIN toClient' : k + 1 \in DOMAIN toClient /\ toClient'[k] = toClient[k + 1]
                                  /\ k \in Int /\ k + 1 # 1
  BY <1>1, TakenMessage
<1>5. 1 \in DOMAIN toClient
  BY <1>1, TakenMessage
<1>6. InPlace(t)'
  BY <1>2, <1>3, <1>4 DEF InPlace, Registered
<1>7. CASE toClient[1].type = t
  <2>1. /\ \A k \in DOMAIN toClient' : toClient'[k].type # t
        /\ \A m \in outbox' : m.type # t
        /\ ~UiSendsType(t)'
    BY <1>2, <1>3, <1>4, <1>5, <1>7 DEF OneAtATime
  <2>2. QED
    BY <1>2, <1>6, <2>1 DEF OneAtATime
<1>8. CASE toClient[1].type # t
  <2>1. ~InUse(t)' /\ ~RespSendsType(t)'
    BY <1>2, <1>8
  <2>2. /\ UiSendsType(t) \/ (\E m \in outbox : m.type = t) =>
              \A k \in DOMAIN toClient' : toClient'[k].type # t
        /\ UiSendsType(t) => \A m \in outbox : m.type # t
        /\ \A m, n \in outbox : m.type = t /\ n.type = t => n = m
    BY <1>3, <1>4 DEF OneAtATime
  <2>3. ASSUME NEW j \in DOMAIN toClient', NEW k \in DOMAIN toClient',
               toClient'[j].type = t, toClient'[k].type = t
        PROVE  j = k
    <3>1. j + 1 = k + 1
      BY <1>3, <1>4, <2>3 DEF OneAtATime
    <3>2. QED
      BY <1>4, <3>1
  <2>4. OneAtATime(t)'
    BY <1>2, <2>1, <2>2, <2>3 DEF OneAtATime
  <2>5. QED
    BY <1>6, <2>4
<1>9. QED
  BY <1>6, <1>7, <1>8

(* An entry is removed after its message was handled: no other message of  *)
(* the type is on its way.                                                 *)
LEMMA RemoveKeepsTokens ==
    ASSUME TypeInv, TokenInv, RemoveCallback
    PROVE  TokenInv'
<1> USE RemoveKeepsTypes
<1> DEFINE type == resp.msg.type
<1>1. \A t : /\ ~InUse(t)' /\ ~RespSendsType(t)' /\ ~RespSendsType(t)
             /\ UiSendsType(t)' <=> UiSendsType(t)
  BY ReadingShape DEF InUse, RespSendsType, UiSendsType
<1> SUFFICES ASSUME NEW t \in Free' PROVE InPlace(t)' /\ OneAtATime(t)'
  BY DEF TokenInv
<1>2. t \in Free /\ t \in Types /\ InPlace(t) /\ OneAtATime(t) /\ callbackMap \in [Types -> Entry]
  BY DEF Free, TokenInv, TypeInv, Shapes
<1>3. CASE t # type
  <2>1. callbackMap'[t] = callbackMap[t]
    BY <1>2, <1>3
  <2>2. QED
    BY <1>1, <1>2, <2>1, MessageStays
<1>4. CASE t = type
  <2>1. resp.entry # NoEntry
    BY DEF TypeInv, RespInv, Sends, NoEntry, Asked
  <2>2. InUse(t)
    BY <1>4, <2>1 DEF InUse
  <2>3. /\ \A m \in outbox : m.type # t
        /\ \A k \in DOMAIN toClient : toClient[k].type # t
        /\ ~UiSendsType(t)
    BY <1>2, <2>2 DEF OneAtATime
  <2>4. QED
    BY <1>1, <2>3 DEF InPlace, OneAtATime
<1>5. QED
  BY <1>3, <1>4

LEMMA TokensAreKept == TypeInv /\ TokenInv /\ [Next]_vars => TokenInv'
<1> SUFFICES ASSUME TypeInv, TokenInv, [Next]_vars PROVE TokenInv'
  OBVIOUS
<1>1. ASSUME NEW at \in {"set_name", "add_callback", "ended"}, NEW handler, NEW type, NEW name,
             Begin(at, handler, type, name)
      PROVE  TokenInv'
  <2>1. /\ UNCHANGED <<callbackMap, resp, outbox, toClient, overlapped>>
        /\ ui'.at # "create_task"
    BY <1>1 DEF Begin
  <2>2. \A t : /\ ~UiSendsType(t)'
               /\ (InUse(t)' <=> InUse(t)) /\ (RespSendsType(t)' <=> RespSendsType(t))
    BY <2>1 DEF UiSendsType, RespSendsType, InUse
  <2>3. QED
    BY <2>1, <2>2, CarryKeepsTokens
<1>2. CASE Poll \/ QueryMessages
  <2>1. /\ UNCHANGED <<callbackMap, ui, resp, toClient, commands, overlapped>>
        /\ \A m \in outbox' : m \in outbox \/ m.type \notin Free'
    BY <1>2 DEF Poll, QueryMessages, createSendThread, Free
  <2>2. \A t : /\ InUse(t)' <=> InUse(t)
               /\ (UiSendsType(t)' <=> UiSendsType(t)) /\ (RespSendsType(t)' <=> RespSendsType(t))
    BY <2>1 DEF InUse, UiSendsType, RespSendsType
  <2>3. QED
    BY <2>1, <2>2, CarryKeepsTokens
<1>3. CASE Expire
  <2> DEFINE a == [type |-> "logoff", subtype |-> "session_expired", command |-> 0]
  <2>1. /\ UNCHANGED <<callbackMap, ui, resp, outbox, commands>>
        /\ toClient' = Append(toClient, a) /\ overlapped' = overlapped \cup {"logoff"}
    BY <1>3 DEF Expire
  <2>2. a \in InMessage /\ a.type \notin Free' /\ toClient \in Seq(InMessage)
    BY <2>1 DEF InMessage, Types, Subtypes, TypeInv, Shapes, Free
  <2> HIDE DEF a
  <2>3. \A k \in DOMAIN toClient' : \/ k \in DOMAIN toClient /\ toClient'[k] = toClient[k]
                                    \/ toClient'[k].type \notin Free'
    BY <2>1, <2>2, AppendedMessage
  <2>4. \A t : /\ InUse(t)' <=> InUse(t)
               /\ (UiSendsType(t)' <=> UiSendsType(t)) /\ (RespSendsType(t)' <=> RespSendsType(t))
    BY <2>1 DEF InUse, UiSendsType, RespSendsType
  <2>5. QED
    BY <2>1, <2>3, <2>4, CarryKeepsTokens
<1>4. CASE handleResponse
  <2>1. UNCHANGED <<callbackMap, ui, outbox, toClient, commands, overlapped>>
    BY <1>4, HandleEffect
  <2>2. \A t : (InUse(t)' => InUse(t)) /\ (UiSendsType(t)' <=> UiSendsType(t)) /\ ~RespSendsType(t)'
    BY <1>4, <2>1, HandleEffect, HandledInto DEF InUse, UiSendsType, RespSendsType
  <2>3. QED
    BY <2>1, <2>2, CarryKeepsTokens
<1>5. CASE ClearUsername \/ ClearPassword \/ RespGetsUsername \/ RespGetsPassword
  <2>1. \A t : (InUse(t)' => InUse(t)) /\ (UiSendsType(t)' <=> UiSendsType(t)) /\ ~RespSendsType(t)'
    BY <1>5, FollowUpKeepsTypes DEF InUse, UiSendsType, RespSendsType
  <2>2. QED
    BY <1>5, <2>1, FollowUpKeepsTypes, CarryKeepsTokens
<1>6. CASE UNCHANGED vars
  BY <1>6 DEF vars, userVars, serverVars, TokenInv, InPlace, OneAtATime, Free, InUse, UiSendsType,
              RespSendsType, Registered
<1>7. QED
  BY <1>1, <1>2, <1>3, <1>4, <1>5, <1>6, Steps, ConsoleKeepsTokens, DeliverKeepsTokens,
     DropKeepsTokens, ReadKeepsTokens, RespSendsKeepsTokens, RemoveKeepsTokens

LEMMA TokensHold == Spec => []TokenInv
<1>1. Init => TokenInv
  BY DEF Init, TokenInv, InPlace, OneAtATime, UiSendsType, RespSendsType, InUse, Input, Reading
<1>2. QED
  BY <1>1, TypesHold, TokensAreKept, PTL DEF Spec

(* An answer to a command finds the callback of that command in the map    *)
(* (ResponseHandler.java:105-112), unless two callbacks of its type        *)
(* overlapped: it was registered before the command was sent.              *)
THEOREM AnswersFindTheirCallback == Spec => AnswersFindTheirCommand
<1> DEFINE Finds == toClient # << >> /\ toClient' = Tail(toClient) =>
                        LET msg == Head(toClient)
                        IN  msg.command # 0 /\ msg.type \notin overlapped
                                => callbackMap[msg.type].command = msg.command
<1>1. TypeInv /\ TokenInv => Finds
  <2> SUFFICES ASSUME TypeInv, TokenInv, toClient # << >>, toClient' = Tail(toClient),
                      Head(toClient).command # 0, Head(toClient).type \notin overlapped
               PROVE  callbackMap[Head(toClient).type].command = Head(toClient).command
    OBVIOUS
  <2>1. 1 \in DOMAIN toClient /\ Head(toClient) = toClient[1] /\ toClient[1] \in InMessage
    BY TakenMessage DEF TypeInv, Shapes
  <2>2. toClient[1].type \in Types /\ toClient[1].type # "query_msg"
    BY <2>1 DEF TypeInv, MessagesAreAsked, InMessage
  <2>3. InPlace(toClient[1].type)
    BY <2>1, <2>2 DEF TokenInv, Free
  <2>4. QED
    BY <2>1, <2>3 DEF InPlace, Registered
<1>2. QED
  BY <1>1, TypesHold, TokensHold, PTL DEF AnswersFindTheirCommand
-----------------------------------------------------------------------------
(* A step that starts no login, no registration and no deletion.           *)
LEMMA EnterStays ==
    ASSUME OneEnters, UiEnters' => UiEnters, RespEnters' => RespEnters,
           \A m \in outbox' : Enters(m.type) => m \in outbox,
           \A k \in DOMAIN toClient' : Enters(toClient'[k].type) =>
               k \in DOMAIN toClient /\ toClient'[k] = toClient[k]
    PROVE  OneEnters' /\ (Entering' => Entering)
BY DEF OneEnters, Entering

LEMMA DeleteStays ==
    ASSUME ui'.handler = "Delete" => ui.handler = "Delete", RespDeletes' => RespDeletes,
           \A m \in outbox' : m.type = "delete_user" => m \in outbox,
           \A k \in DOMAIN toClient' : toClient'[k].type = "delete_user" =>
               \E j \in DOMAIN toClient : toClient'[k] = toClient[j]
    PROVE  Deleting' => Deleting
BY DEF Deleting

LEMMA NobodyEnters ==
    ASSUME ~Entering
    PROVE  /\ ~UiEnters /\ ~RespEnters /\ \A m \in outbox : ~Enters(m.type)
           /\ \A k \in DOMAIN toClient : ~Enters(toClient[k].type)
BY DEF Entering

(* The console enters while it prepares to log in or to register.          *)
LEMMA PreparingEnters ==
    ASSUME TypeInv
    PROVE  /\ ui.at \in Prepares => UiEnters
           /\ Enters(ui.type) /\ ui.at \in Sends => UiEnters
           /\ ui.type = "delete_user" /\ ui.at \in Sends => ui.handler = "Delete"
BY HandledTypes DEF TypeInv, UiInv, UiEnters, Enters, Handlers

LEMMA BeginKeepsEnter ==
    ASSUME TypeInv, EnterInv, NEW at \in {"set_name", "add_callback", "ended"},
           NEW handler \in Handlers, NEW type \in Types \cup {"none"}, NEW name \in Somebody,
           Typed(at, handler, type, name), Begin(at, handler, type, name)
    PROVE  EnterInv'
<1> SUFFICES ASSUME ~hasty'
             PROVE  OneEnters' /\ OneUser' /\ (Entering' => ~isLoggedIn' /\ ~Deleting')
  BY DEF EnterInv
<1>1. /\ ui' = [at |-> at, handler |-> handler, type |-> type, name |-> name, pass |-> name]
      /\ ui = Input /\ ~hasty /\ (handler \in {"Login", "Register"} => ~Outstanding)
      /\ UNCHANGED <<username, password, isLoggedIn, poller, resp, outbox, toClient>>
  BY DEF Begin, TypeInv, Shapes, userVars
<1>2. /\ OneEnters /\ OneUser /\ (Entering => ~isLoggedIn /\ ~Deleting)
      /\ ui'.handler = handler /\ ui'.at = at /\ ui'.name = name /\ ui'.pass = name
      /\ ui.at = "input" /\ ui.handler = "none"
  BY <1>1 DEF EnterInv, Input
<1>3. (RespEnters' <=> RespEnters) /\ (RespDeletes' <=> RespDeletes)
  BY <1>1 DEF RespEnters, RespDeletes
<1>4. OneUser'
  BY <1>1, <1>2 DEF OneUser, Typed, Sends, UiEnters
<1>5. CASE handler \in {"Login", "Register"}
  <2>1. /\ \A m \in outbox : m.command = 0
        /\ \A k \in DOMAIN toClient : toClient[k].command = 0
        /\ resp.at \in {"read", "remove"} /\ ~isLoggedIn
    BY <1>1, <1>5 DEF Outstanding, Typed
  <2>2. \A c : Asked(c) => c # 0
    BY DEF Asked
  <2>3. /\ \A m \in outbox : ~Enters(m.type) /\ m.type # "delete_user"
        /\ \A k \in DOMAIN toClient :
              ~Enters(toClient[k].type) /\ toClient[k].type # "delete_user"
    BY <2>1, <2>2 DEF TypeInv, MessagesAreAsked, Enters
  <2>4. ~RespEnters /\ ~RespDeletes
    BY <2>1 DEF RespEnters, RespDeletes, Sends
  <2>5. OneEnters' /\ ~Deleting'
    BY <1>1, <1>2, <1>3, <1>5, <2>3, <2>4 DEF OneEnters, Deleting
  <2>6. QED
    BY <1>1, <1>4, <2>1, <2>5
<1>6. CASE handler \notin {"Login", "Register"}
  <2>1. ~UiEnters'
    BY <1>2, <1>6 DEF UiEnters
  <2>2. OneEnters' /\ (Entering' => Entering)
    BY <1>1, <1>2, <1>3, <2>1, EnterStays
  <2>3. ui'.handler = "Delete" => isLoggedIn
    BY <1>2 DEF Typed
  <2>4. ui'.handler # "Delete" => (Deleting' => Deleting)
    BY <1>1, <1>3, DeleteStays
  <2>5. QED
    BY <1>1, <1>2, <1>4, <2>2, <2>3, <2>4
<1>7. QED
  BY <1>5, <1>6

LEMMA ConsoleKeepsEnter ==
    ASSUME TypeInv, EnterInv, ConsoleWorks
    PROVE  EnterInv'
<1> SUFFICES ASSUME ~hasty'
             PROVE  OneEnters' /\ OneUser' /\ (Entering' => ~isLoggedIn' /\ ~Deleting')
  BY DEF EnterInv
<1>1. CASE ~UiSends
  <2> USE <1>1, ConsoleEffect
  <2>1. OneEnters /\ OneUser /\ (Entering => ~isLoggedIn /\ ~Deleting)
    BY DEF EnterInv
  <2>2. /\ UiEnters' <=> UiEnters
        /\ (RespEnters' <=> RespEnters) /\ (RespDeletes' <=> RespDeletes)
        /\ isLoggedIn' => isLoggedIn
    BY DEF UiEnters, RespEnters, RespDeletes
  <2>3. OneEnters' /\ (Entering' => Entering)
    BY <2>1, <2>2, EnterStays
  <2>4. Deleting' => Deleting
    BY <2>2, DeleteStays
  <2>5. OneUser'
    <3>1. CASE ui.at = "sleep"
      BY <2>1, <3>1 DEF OneUser, Sends
    <3>2. CASE ui.at # "sleep"
      <4>1. UiEnters /\ Entering /\ ~Deleting /\ ui.at \in Prepares
        BY <2>1, <3>2, PreparingEnters DEF Entering, Prepares
      <4>2. /\ resp.at # "clear_password" /\ resp.at # "get_password"
            /\ ~(resp.at \in Sends /\ resp.type = "login")
            /\ \A m \in outbox : ~Enters(m.type)
        <5>1. ~RespEnters /\ \A m \in outbox : ~Enters(m.type)
          BY <2>1, <4>1 DEF OneEnters
        <5>2. resp.at # "clear_password"
          BY <4>1 DEF Deleting, RespDeletes, TypeInv, RespInv
        <5>3. QED
          BY <5>1, <5>2 DEF RespEnters
      <4>3. QED
        BY <2>1, <3>2, <4>2 DEF OneUser, Sends
    <3>3. QED
      BY <3>1, <3>2
  <2>6. QED
    BY <2>1, <2>2, <2>3, <2>4, <2>5
<1>2. CASE UiSends
  <2> USE <1>2, UiSendsEffect
  <2>1. OneEnters /\ OneUser /\ (Entering => ~isLoggedIn /\ ~Deleting)
    BY DEF EnterInv
  <2>2. (RespEnters' <=> RespEnters) /\ (RespDeletes' <=> RespDeletes)
    BY DEF RespEnters, RespDeletes
  <2>3. CASE ui.at = "add_callback"
    <3>1. /\ ui'.at = "create_task" /\ ui'.handler = ui.handler /\ ui'.type = ui.type
          /\ ui'.name = ui.name /\ ui'.pass = ui.pass
      BY <2>3 DEF TypeInv, Shapes
    <3>2. UiEnters' <=> UiEnters
      BY <3>1 DEF UiEnters
    <3>3. OneEnters' /\ (Entering' => Entering)
      BY <2>1, <2>2, <2>3, <3>2, EnterStays
    <3>4. Deleting' => Deleting
      BY <2>2, <2>3, <3>1, DeleteStays
    <3>5. OneUser'
      BY <2>1, <2>3, <3>1, <3>2 DEF OneUser, Sends
    <3>6. QED
      BY <2>1, <3>3, <3>4, <3>5
  <2>4. CASE ui.at = "create_task"
    <3>1. PICK m \in OutMessage : /\ m.type = ui.type /\ m.name = ui.name /\ m.pass = ui.pass
                                  /\ outbox' = outbox \cup {m}
      BY <2>4
    <3>2. /\ ui'.at \in {"input", "sleep"} /\ ui'.handler \in {"none", "Exit"}
      BY <2>4 DEF Input, TypeInv, Shapes
    <3>3. ~UiEnters' /\ ui'.handler # "Delete"
      BY <3>2 DEF UiEnters
    <3>4. /\ Enters(m.type) => UiEnters
          /\ m.type = "delete_user" => ui.handler = "Delete"
      BY <2>4, <3>1, PreparingEnters DEF Sends
    <3>5. Deleting' => Deleting
      BY <2>2, <3>1, <3>3, <3>4 DEF Deleting
    <3>6. OneEnters' /\ (Entering' => Entering)
      <4>1. CASE UiEnters
        <5>1. /\ \A n \in outbox : ~Enters(n.type)
              /\ \A k \in DOMAIN toClient : ~Enters(toClient[k].type)
              /\ ~RespEnters
          BY <2>1, <4>1 DEF OneEnters
        <5>2. OneEnters'
          BY <2>2, <3>1, <3>3, <5>1 DEF OneEnters
        <5>3. QED
          BY <4>1, <5>2 DEF Entering
      <4>2. CASE ~UiEnters
        BY <2>1, <2>2, <3>1, <3>3, <3>4, <4>2, EnterStays
      <4>3. QED
        BY <4>1, <4>2
    <3>7. OneUser'
      BY <2>1, <2>4, <3>1, <3>2, <3>4 DEF OneUser, Sends
    <3>8. QED
      BY <2>1, <3>5, <3>6, <3>7
  <2>5. QED
    BY <2>3, <2>4
<1>3. QED
  BY <1>1, <1>2

LEMMA DeliverKeepsEnter ==
    ASSUME TypeInv, EnterInv, NEW m \in outbox, Deliver(m), ~Empty(m)
    PROVE  EnterInv'
<1> DEFINE a == [type |-> m.type, subtype |-> Served(m).subtype, command |-> m.command]
<1>1. /\ UNCHANGED <<username, password, isLoggedIn, ui, resp, hasty>>
      /\ outbox' = outbox \ {m} /\ toClient' = Append(toClient, a)
  BY DEF Deliver, userVars
<1>2. m \in OutMessage /\ toClient \in Seq(InMessage)
  BY DEF TypeInv, Shapes
<1>3. a \in InMessage /\ a.type = m.type
  BY <1>2, ServedShape DEF OutMessage, InMessage
<1> HIDE DEF a
<1>4. \A k \in DOMAIN toClient' : \/ k \in DOMAIN toClient /\ toClient'[k] = toClient[k]
                                  \/ k = Len(toClient) + 1 /\ toClient'[k] = a
  BY <1>1, <1>2, <1>3, AppendedMessage
<1> SUFFICES ASSUME ~hasty'
             PROVE  OneEnters' /\ OneUser' /\ (Entering' => ~isLoggedIn' /\ ~Deleting')
  BY DEF EnterInv
<1>5. OneEnters /\ OneUser /\ (Entering => ~isLoggedIn /\ ~Deleting)
  BY <1>1 DEF EnterInv
<1>6. (UiEnters' <=> UiEnters) /\ (RespEnters' <=> RespEnters) /\ (RespDeletes' <=> RespDeletes)
  BY <1>1 DEF UiEnters, RespEnters, RespDeletes
<1>7. OneUser'
  BY <1>1, <1>5, <1>6 DEF OneUser
<1>8. Deleting' => Deleting
  BY <1>1, <1>3, <1>4, <1>6 DEF Deleting
<1>9. Entering' => Entering
  BY <1>1, <1>3, <1>4, <1>6 DEF Entering
<1>10. OneEnters'
  <2>1. CASE Enters(m.type)
    <3>1. /\ \A n \in outbox' : ~Enters(n.type)
          /\ \A k \in DOMAIN toClient : ~Enters(toClient[k].type)
          /\ ~UiEnters /\ ~RespEnters
      BY <1>1, <1>5, <2>1 DEF OneEnters
    <3>2. QED
      BY <1>4, <1>6, <3>1 DEF OneEnters
  <2>2. CASE ~Enters(m.type)
    <3>1. /\ \A n \in outbox' : Enters(n.type) => n \in outbox
          /\ \A k \in DOMAIN toClient' : Enters(toClient'[k].type) =>
                k \in DOMAIN toClient /\ toClient'[k] = toClient[k]
      BY <1>1, <1>3, <1>4, <2>2
    <3>2. QED
      BY <1>5, <1>6, <3>1, EnterStays
  <2>3. QED
    BY <2>1, <2>2
<1>11. QED
  BY <1>1, <1>5, <1>7, <1>8, <1>9, <1>10

LEMMA DropKeepsEnter ==
    ASSUME TypeInv, EnterInv, NEW m \in outbox, Deliver(m), Empty(m)
    PROVE  EnterInv'
<1> USE EmptyIsDropped
<1>1. (UiEnters' <=> UiEnters) /\ (RespEnters' <=> RespEnters) /\ (RespDeletes' <=> RespDeletes)
  BY DEF UiEnters, RespEnters, RespDeletes
<1>2. OneEnters => OneEnters' /\ (Entering' => Entering)
  BY <1>1, EnterStays
<1>3. Deleting' => Deleting
  BY <1>1, DeleteStays
<1>4. OneUser => OneUser'
  BY <1>1 DEF OneUser
<1>5. QED
  BY <1>2, <1>3, <1>4 DEF EnterInv

LEMMA ReadKeepsEnter ==
    ASSUME TypeInv, EnterInv, Read
    PROVE  EnterInv'
<1> USE ReadEffect
<1>1. toClient \in Seq(InMessage)
  BY DEF TypeInv, Shapes
<1>2. /\ \A k \in DOMAIN toClient' : k + 1 \in DOMAIN toClient /\ toClient'[k] = toClient[k + 1]
                                     /\ k \in Int /\ k + 1 # 1
      /\ 1 \in DOMAIN toClient /\ Head(toClient) = toClient[1]
  BY <1>1, TakenMessage
<1> SUFFICES ASSUME ~hasty'
             PROVE  OneEnters' /\ OneUser' /\ (Entering' => ~isLoggedIn' /\ ~Deleting')
  BY DEF EnterInv
<1>3. OneEnters /\ OneUser /\ (Entering => ~isLoggedIn /\ ~Deleting)
  BY DEF EnterInv
<1>4. /\ UiEnters' <=> UiEnters
      /\ ~RespEnters /\ (RespEnters' => Enters(toClient[1].type))
      /\ RespDeletes' => toClient[1].type = "delete_user"
  BY <1>2, ReadingShape DEF UiEnters, RespEnters, RespDeletes, Sends
<1>5. OneUser'
  BY <1>3, <1>4, ReadingShape DEF OneUser, Sends
<1>6. Deleting' => Deleting
  BY <1>2, <1>4 DEF Deleting
<1>7. Entering' => Entering
  BY <1>2, <1>4 DEF Entering
<1>8. OneEnters'
  <2>1. ASSUME NEW j \in DOMAIN toClient', NEW k \in DOMAIN toClient',
               Enters(toClient'[j].type), Enters(toClient'[k].type)
        PROVE  j = k
    <3>1. j + 1 = k + 1
      BY <1>2, <1>3, <2>1 DEF OneEnters
    <3>2. QED
      BY <1>2, <3>1
  <2>2. CASE Enters(toClient[1].type)
    <3>1. /\ \A n \in outbox' : ~Enters(n.type)
          /\ \A k \in DOMAIN toClient' : ~Enters(toClient'[k].type)
          /\ ~UiEnters
      BY <1>2, <1>3, <2>2 DEF OneEnters
    <3>2. QED
      BY <1>4, <3>1 DEF OneEnters
  <2>3. CASE ~Enters(toClient[1].type)
    <3>1. /\ UiEnters \/ (\E m \in outbox : Enters(m.type)) =>
                 \A k \in DOMAIN toClient' : ~Enters(toClient'[k].type)
          /\ UiEnters => \A m \in outbox : ~Enters(m.type)
          /\ \A m, n \in outbox : Enters(m.type) /\ Enters(n.type) => n = m
      BY <1>2, <1>3 DEF OneEnters
    <3>2. QED
      BY <1>4, <2>1, <2>3, <3>1 DEF OneEnters
  <2>4. QED
    BY <2>2, <2>3
<1>9. QED
  BY <1>3, <1>5, <1>6, <1>7, <1>8

LEMMA HandleKeepsEnter ==
    ASSUME TypeInv, EnterInv, handleResponse
    PROVE  EnterInv'
<1> USE HandleEffect
<1> SUFFICES ASSUME ~hasty'
             PROVE  OneEnters' /\ OneUser' /\ (Entering' => ~isLoggedIn' /\ ~Deleting')
  BY DEF EnterInv
<1>1. OneEnters /\ OneUser /\ (Entering => ~isLoggedIn /\ ~Deleting)
  BY DEF EnterInv
<1>2. /\ UiEnters' <=> UiEnters
      /\ (RespEnters' => RespEnters) /\ (RespDeletes' => RespDeletes)
  BY HandledInto DEF UiEnters, RespEnters, RespDeletes, Enters, Sends
<1>3. OneEnters' /\ (Entering' => Entering)
  BY <1>1, <1>2, EnterStays
<1>4. Deleting' => Deleting
  BY <1>2, DeleteStays
<1>5. OneUser'
  BY <1>1, HandledInto DEF OneUser, Sends, UiEnters
<1>6. ASSUME isLoggedIn', ~isLoggedIn PROVE ~Entering'
  <2>1. resp.msg.type = "login" /\ resp'.at \in {"remove", "add_callback"}
    BY <1>6, Zenon
  <2>2. RespEnters /\ ~RespEnters'
    BY <2>1, HandledInto DEF RespEnters, Enters, Sends
  <2>3. QED
    BY <1>1, <1>2, <2>2 DEF OneEnters, Entering
<1>7. QED
  BY <1>1, <1>3, <1>4, <1>5, <1>6

LEMMA FollowUpKeepsEnter ==
    ASSUME TypeInv, EnterInv,
           ClearUsername \/ ClearPassword \/ RespGetsUsername \/ RespGetsPassword
    PROVE  EnterInv'
<1> USE FollowUpKeepsTypes
<1> SUFFICES ASSUME ~hasty'
             PROVE  OneEnters' /\ OneUser' /\ (Entering' => ~isLoggedIn' /\ ~Deleting')
  BY DEF EnterInv
<1>1. OneEnters /\ OneUser /\ (Entering => ~isLoggedIn /\ ~Deleting)
  BY DEF EnterInv
<1>2. /\ UiEnters' <=> UiEnters
      /\ (RespEnters' => RespEnters) /\ (RespDeletes' => RespDeletes)
  BY DEF UiEnters, RespEnters, RespDeletes, Sends
<1>3. OneEnters' /\ (Entering' => Entering)
  BY <1>1, <1>2, EnterStays
<1>4. Deleting' => Deleting
  BY <1>2, DeleteStays
<1>5. OneUser'
  <2>1. CASE resp.at \in {"clear_name", "clear_password"}
    <3>1. Deleting
      BY <2>1 DEF Deleting, RespDeletes, TypeInv, RespInv
    <3>2. ~UiEnters /\ \A m \in outbox : ~Enters(m.type)
      BY <1>1, <3>1, NobodyEnters
    <3>3. ui.at \notin Prepares
      BY <3>2, PreparingEnters
    <3>4. QED
      BY <1>1, <1>2, <2>1, <3>2, <3>3 DEF OneUser, Prepares, Sends
  <2>2. CASE resp.at \in {"get_name", "get_password"}
    <3>1. RespEnters
      BY <2>2 DEF RespEnters
    <3>2. ~UiEnters
      BY <1>1, <3>1 DEF OneEnters
    <3>3. ui.at # "set_password"
      BY <3>2, PreparingEnters DEF Prepares
    <3>4. QED
      BY <1>1, <1>2, <2>2, <3>3 DEF OneUser, Sends
  <2>3. QED
    BY <2>1, <2>2
<1>6. QED
  BY <1>1, <1>3, <1>4, <1>5

LEMMA RespSendsKeepsEnter ==
    ASSUME TypeInv, EnterInv, RespSends
    PROVE  EnterInv'
<1> USE RespSendsEffect
<1> SUFFICES ASSUME ~hasty'
             PROVE  OneEnters' /\ OneUser' /\ (Entering' => ~isLoggedIn' /\ ~Deleting')
  BY DEF EnterInv
<1>1. OneEnters /\ OneUser /\ (Entering => ~isLoggedIn /\ ~Deleting)
  BY DEF EnterInv
<1>2. /\ UiEnters' <=> UiEnters
      /\ (RespEnters' => RespEnters) /\ ~RespDeletes'
  BY DEF UiEnters, RespEnters, RespDeletes, Sends
<1>3. CASE resp.at = "add_callback"
  <2>1. OneEnters' /\ (Entering' => Entering)
    BY <1>1, <1>2, <1>3, EnterStays
  <2>2. Deleting' => Deleting
    BY <1>2, <1>3, DeleteStays
  <2>3. OneUser'
    BY <1>1, <1>2, <1>3 DEF OneUser, Sends
  <2>4. QED
    BY <1>1, <2>1, <2>2, <2>3
<1>4. CASE resp.at = "create_task"
  <2>1. PICK m \in OutMessage : /\ m.type = resp.type /\ m.name = resp.name /\ m.pass = resp.pass
                                /\ outbox' = outbox \cup {m}
    BY <1>4
  <2>2. ~RespEnters' /\ (Enters(m.type) => RespEnters /\ resp.type = "login")
        /\ m.type # "delete_user"
    BY <1>4, <2>1 DEF RespEnters, Enters, Sends
  <2>3. Deleting' => Deleting
    BY <1>2, <2>1, <2>2, DeleteStays
  <2>4. OneEnters' /\ (Entering' => Entering)
    <3>1. CASE Enters(m.type)
      <4>1. /\ \A n \in outbox : ~Enters(n.type)
            /\ \A k \in DOMAIN toClient : ~Enters(toClient[k].type)
            /\ ~UiEnters
        BY <1>1, <2>2, <3>1 DEF OneEnters
      <4>2. OneEnters'
        BY <1>2, <2>1, <2>2, <4>1 DEF OneEnters
      <4>3. QED
        BY <2>2, <3>1, <4>2 DEF Entering
    <3>2. CASE ~Enters(m.type)
      BY <1>1, <1>2, <2>1, <3>2, EnterStays
    <3>3. QED
      BY <3>1, <3>2
  <2>5. OneUser'
    BY <1>1, <1>2, <1>4, <2>1, <2>2 DEF OneUser, Sends
  <2>6. QED
    BY <1>1, <2>3, <2>4, <2>5
<1>5. QED
  BY <1>3, <1>4

LEMMA EnterIsKept == TypeInv /\ EnterInv /\ [Next]_vars => EnterInv'
<1> SUFFICES ASSUME TypeInv, EnterInv, [Next]_vars PROVE EnterInv'
  OBVIOUS
<1>1. CASE Poll \/ QueryMessages
  <2>1. /\ UNCHANGED <<username, password, isLoggedIn, ui, resp, toClient, hasty>>
        /\ \A m \in outbox' : m \in outbox \/ m.type = "query_msg"
    BY <1>1 DEF Poll, QueryMessages, createSendThread, userVars
  <2>2. (UiEnters' <=> UiEnters) /\ (RespEnters' <=> RespEnters) /\ (RespDeletes' <=> RespDeletes)
    BY <2>1 DEF UiEnters, RespEnters, RespDeletes
  <2>3. \A m \in outbox' : Enters(m.type) \/ m.type = "delete_user" => m \in outbox
    BY <2>1 DEF Enters
  <2>4. OneEnters => OneEnters' /\ (Entering' => Entering)
    BY <2>1, <2>2, <2>3, EnterStays
  <2>5. Deleting' => Deleting
    BY <2>1, <2>2, <2>3, DeleteStays
  <2>6. OneUser => OneUser'
    BY <2>1, <2>2, <2>3 DEF OneUser
  <2>7. QED
    BY <2>1, <2>4, <2>5, <2>6 DEF EnterInv
<1>2. CASE Expire
  <2> DEFINE a == [type |-> "logoff", subtype |-> "session_expired", command |-> 0]
  <2>1. /\ UNCHANGED <<username, password, isLoggedIn, ui, resp, outbox, hasty>>
        /\ toClient' = Append(toClient, a)
    BY <1>2 DEF Expire, userVars
  <2>2. a \in InMessage /\ a.type = "logoff" /\ toClient \in Seq(InMessage)
    BY DEF InMessage, Types, Subtypes, TypeInv, Shapes
  <2> HIDE DEF a
  <2>3. \A k \in DOMAIN toClient' : \/ k \in DOMAIN toClient /\ toClient'[k] = toClient[k]
                                    \/ toClient'[k].type = "logoff"
    BY <2>1, <2>2, AppendedMessage
  <2>4. (UiEnters' <=> UiEnters) /\ (RespEnters' <=> RespEnters) /\ (RespDeletes' <=> RespDeletes)
    BY <2>1 DEF UiEnters, RespEnters, RespDeletes
  <2>5. \A k \in DOMAIN toClient' : Enters(toClient'[k].type) \/ toClient'[k].type = "delete_user"
            => k \in DOMAIN toClient /\ toClient'[k] = toClient[k]
    BY <2>3 DEF Enters
  <2>6. OneEnters => OneEnters' /\ (Entering' => Entering)
    BY <2>1, <2>4, <2>5, EnterStays
  <2>7. Deleting' => Deleting
    BY <2>1, <2>4, <2>5, DeleteStays
  <2>8. OneUser => OneUser'
    BY <2>1, <2>4 DEF OneUser
  <2>9. QED
    BY <2>1, <2>6, <2>7, <2>8 DEF EnterInv
<1>3. CASE RemoveCallback
  <2> USE <1>3, RemoveKeepsTypes
  <2>1. (UiEnters' <=> UiEnters) /\ ~RespEnters' /\ ~RespDeletes'
    BY ReadingShape DEF UiEnters, RespEnters, RespDeletes, Sends
  <2>2. OneEnters => OneEnters' /\ (Entering' => Entering)
    BY <2>1, EnterStays
  <2>3. Deleting' => Deleting
    BY <2>1, DeleteStays
  <2>4. OneUser => OneUser'
    BY <2>1, ReadingShape DEF OneUser, Sends
  <2>5. QED
    BY <2>2, <2>3, <2>4 DEF EnterInv
<1>4. CASE UNCHANGED vars
  BY <1>4 DEF vars, userVars, serverVars, EnterInv, OneEnters, OneUser, Entering, Deleting,
              UiEnters, RespEnters, RespDeletes
<1>5. QED
  BY <1>1, <1>2, <1>3, <1>4, Steps, BeginKeepsEnter, ConsoleKeepsEnter, DeliverKeepsEnter,
     DropKeepsEnter, ReadKeepsEnter, HandleKeepsEnter, FollowUpKeepsEnter, RespSendsKeepsEnter

LEMMA EnterHolds == Spec => []EnterInv
<1>1. Init => EnterInv
  <2> SUFFICES ASSUME Init PROVE OneEnters /\ OneUser /\ ~Entering
    BY DEF EnterInv
  <2>1. /\ ui.handler = "none" /\ ui.at = "input" /\ resp.at = "read" /\ outbox = {}
        /\ toClient = << >> /\ username = password
    BY DEF Init, Input, Reading
  <2>2. ~UiEnters /\ ~RespEnters
    BY <2>1 DEF UiEnters, RespEnters, Sends
  <2>3. QED
    BY <2>1, <2>2 DEF OneEnters, OneUser, Entering, Sends
<1>2. QED
  BY <1>1, TypesHold, EnterIsKept, PTL DEF Spec

(* A login or a registration carries the name and the password of one user, *)
(* though the two are set and read in separate synchronized calls (User.java) *)
(* by two threads, provided the user waits for answers in between.          *)
THEOREM CredentialsOfOneUser == Spec => []CredentialsBelongTogether
<1>1. EnterInv => CredentialsBelongTogether
  BY DEF EnterInv, OneUser, Enters, CredentialsBelongTogether
<1>2. QED
  BY <1>1, EnterHolds, PTL
-----------------------------------------------------------------------------
(* A server that has a session afterwards has not ended one, and has it    *)
(* from before unless it let somebody log in.                              *)
LEMMA ServedSession ==
    ASSUME TypeInv, NEW m \in outbox, Served(m).session # NoName
    PROVE  /\ m.type \notin {"logoff", "delete_user"}
           /\ m.type = "query_msg" => Served(m).subtype # "not_log_in"
           /\ \/ Served(m).session = session
              \/ /\ session = NoName /\ m.type = "login" /\ Served(m).subtype = "success"
                 /\ Served(m).session = m.name
<1>1. m.type \in Types
  BY DEF TypeInv, Shapes, OutMessage
<1>2. m.type \in {"login", "create_user", "logoff", "delete_user", "create_store", "send_msg",
                  "query_msg", "echo", "exit"}
  BY <1>1 DEF Types
<1>3. QED
  BY <1>2 DEF Served, IfLoggedIn, Outcome

LEMMA SessionStays ==
    ASSUME SessionInv, UNCHANGED <<username, isLoggedIn, resp, toClient, session>>,
           hasty => hasty', overlapped \subseteq overlapped', ui'.at \notin Prepares
    PROVE  SessionInv'
<1>1. (RespDeletes' <=> RespDeletes) /\ (SessionKnown' <=> SessionKnown)
  BY DEF RespDeletes, SessionKnown
<1>2. QED
  BY <1>1 DEF SessionInv

(* The response thread goes on: the session is known as before.            *)
LEMMA RespKeepsSession ==
    ASSUME SessionInv, UNCHANGED <<ui, toClient, session, overlapped, hasty>>,
           RespDeletes' => RespDeletes, resp'.at # "handle",
           RespDeletes \/ username' = username,
           isLoggedIn /\ (resp.at = "handle" => ~Ends(resp.msg)) => isLoggedIn',
           resp.at = "handle" /\ LoginSuccess(resp.msg) => isLoggedIn'
    PROVE  SessionInv'
<1> SUFFICES ASSUME ~hasty, "login" \notin overlapped, session # NoName
             PROVE  /\ session' = username' /\ SessionKnown' /\ ui'.at \notin Prepares
                    /\ ~RespDeletes'
                    /\ \A k \in DOMAIN toClient' : toClient'[k].type # "delete_user"
  BY DEF SessionInv
<1>1. /\ session = username /\ SessionKnown /\ ui.at \notin Prepares
      /\ ~RespDeletes /\ \A k \in DOMAIN toClient : toClient[k].type # "delete_user"
  BY DEF SessionInv
<1>2. SessionKnown'
  BY <1>1 DEF SessionKnown
<1>3. QED
  BY <1>1, <1>2

LEMMA BeginKeepsSession ==
    ASSUME TypeInv, SessionInv, NEW at \in {"set_name", "add_callback", "ended"},
           NEW handler \in Handlers, NEW type \in Types \cup {"none"}, NEW name \in Somebody,
           Typed(at, handler, type, name), Begin(at, handler, type, name)
    PROVE  SessionInv'
<1>1. /\ ui'.at = at /\ (hasty => hasty')
      /\ hasty' \/ (handler \in {"Login", "Register"} => ~Outstanding)
      /\ UNCHANGED <<username, isLoggedIn, resp, toClient, session, overlapped>>
  BY DEF Begin, TypeInv, Shapes, userVars, serverVars
<1>2. CASE at # "set_name"
  <2>1. ui'.at \notin Prepares
    BY <1>1, <1>2 DEF Prepares
  <2>2. QED
    BY <1>1, <2>1, SessionStays
<1>3. CASE at = "set_name"
  <2>1. handler \in {"Login", "Register"} /\ ~isLoggedIn
    BY <1>3 DEF Typed
  <2> SUFFICES ASSUME ~hasty', "login" \notin overlapped', session' # NoName
               PROVE  FALSE
    BY DEF SessionInv
  <2>2. /\ resp.at \in {"read", "remove"}
        /\ \A k \in DOMAIN toClient : toClient[k].command = 0
    BY <1>1, <2>1 DEF Outstanding
  <2>3. \A k \in DOMAIN toClient : ~LoginSuccess(toClient[k])
    BY <2>2 DEF TypeInv, MessagesAreAsked, Asked, LoginSuccess
  <2>4. ~SessionKnown
    BY <2>1, <2>2, <2>3 DEF SessionKnown
  <2>5. QED
    BY <1>1, <2>4 DEF SessionInv
<1>4. QED
  BY <1>2, <1>3

LEMMA ConsoleKeepsSession ==
    ASSUME TypeInv, SessionInv, ConsoleWorks
    PROVE  SessionInv'
<1>1. CASE ~UiSends
  <2> USE <1>1, ConsoleEffect
  <2>1. CASE ui.at = "sleep"
    BY <2>1, SessionStays DEF Prepares
  <2>2. CASE ui.at # "sleep"
    <3>1. ui.at \in Prepares
      BY <2>2 DEF Prepares
    <3>2. QED
      BY <3>1 DEF SessionInv
  <2>3. QED
    BY <2>1, <2>2
<1>2. CASE UiSends
  <2>1. ui'.at \notin Prepares
    BY <1>2, UiSendsEffect DEF Input, Prepares, TypeInv, Shapes
  <2>2. overlapped \subseteq overlapped'
    BY <1>2, UiSendsEffect
  <2>3. QED
    BY <1>2, <2>1, <2>2, UiSendsEffect, SessionStays
<1>3. QED
  BY <1>1, <1>2

LEMMA DeliverKeepsSession ==
    ASSUME TypeInv, EnterInv, SessionInv, NEW m \in outbox, Deliver(m), ~Empty(m)
    PROVE  SessionInv'
<1> DEFINE a == [type |-> m.type, subtype |-> Served(m).subtype, command |-> m.command]
<1>1. /\ UNCHANGED <<username, isLoggedIn, ui, resp, overlapped, hasty>>
      /\ toClient' = Append(toClient, a) /\ session' = Served(m).session
  BY DEF Deliver, userVars
<1>2. m \in OutMessage /\ toClient \in Seq(InMessage)
  BY DEF TypeInv, Shapes
<1>3. a \in InMessage /\ a.type = m.type /\ a.subtype = Served(m).subtype
  BY <1>2, ServedShape DEF OutMessage, InMessage
<1> HIDE DEF a
<1>4. /\ \A k \in DOMAIN toClient' : \/ k \in DOMAIN toClient /\ toClient'[k] = toClient[k]
                                     \/ k = Len(toClient) + 1 /\ toClient'[k] = a
      /\ \A k \in DOMAIN toClient : k \in DOMAIN toClient' /\ toClient'[k] = toClient[k]
      /\ Len(toClient) + 1 \in DOMAIN toClient' /\ toClient'[Len(toClient) + 1] = a
      /\ DOMAIN toClient' = 1 .. Len(toClient) + 1 /\ Len(toClient) \in Nat
  BY <1>1, <1>2, <1>3, AppendedMessage
<1> SUFFICES ASSUME ~hasty, "login" \notin overlapped, session' # NoName
             PROVE  /\ session' = username /\ SessionKnown' /\ ui.at \notin Prepares
                    /\ ~RespDeletes'
                    /\ \A k \in DOMAIN toClient' : toClient'[k].type # "delete_user"
  BY <1>1 DEF SessionInv
<1>5. ~Ends(a) /\ a.type # "delete_user"
  BY <1>1, <1>3, ServedSession DEF Ends
<1>6. RespDeletes' <=> RespDeletes
  BY <1>1 DEF RespDeletes
<1>7. CASE session' = session
  <2>1. /\ session = username /\ SessionKnown /\ ui.at \notin Prepares
        /\ ~RespDeletes /\ \A k \in DOMAIN toClient : toClient[k].type # "delete_user"
    BY <1>7 DEF SessionInv
  <2>2. \A k \in DOMAIN toClient' : toClient'[k].type # "delete_user"
    BY <1>4, <1>5, <2>1
  <2>3. ASSUME NEW i \in DOMAIN toClient \cup {0},
               \A j \in DOMAIN toClient : j > i => ~Ends(toClient[j])
        PROVE  \A j \in DOMAIN toClient' : j > i => ~Ends(toClient'[j])
    BY <1>4, <1>5, <2>3
  <2>4. (\A k \in DOMAIN toClient : ~Ends(toClient[k])) =>
            \A k \in DOMAIN toClient' : ~Ends(toClient'[k])
    BY <1>4, <1>5
  <2>5. SessionKnown'
    <3>1. CASE \E k \in DOMAIN toClient : /\ LoginSuccess(toClient[k])
                                          /\ \A j \in DOMAIN toClient : j > k => ~Ends(toClient[j])
      <4>1. PICK k \in DOMAIN toClient : /\ LoginSuccess(toClient[k])
                                         /\ \A j \in DOMAIN toClient : j > k => ~Ends(toClient[j])
        BY <3>1
      <4>2. k \in DOMAIN toClient' /\ LoginSuccess(toClient'[k])
        BY <1>4, <4>1
      <4>3. QED
        BY <2>3, <4>1, <4>2 DEF SessionKnown
    <3>2. QED
      BY <1>1, <2>1, <2>4, <3>1 DEF SessionKnown
  <2>6. QED
    BY <1>6, <1>7, <2>1, <2>2, <2>5
<1>8. CASE session' # session
  <2>1. /\ m.type = "login" /\ a.subtype = "success" /\ session' = m.name
    BY <1>1, <1>3, <1>8, ServedSession
  <2>2. /\ OneEnters /\ OneUser /\ (Entering => ~isLoggedIn /\ ~Deleting)
        /\ Enters(m.type) /\ Entering
    BY <2>1 DEF EnterInv, Enters, Entering
  <2>3. session' = username /\ ~UiEnters /\ ~Deleting
    BY <2>1, <2>2 DEF OneEnters, OneUser
  <2>4. /\ ~RespDeletes /\ ui.at \notin Prepares
        /\ \A k \in DOMAIN toClient : toClient[k].type # "delete_user"
    BY <2>3, PreparingEnters DEF Deleting
  <2>5. SessionKnown'
    <3>1. LoginSuccess(toClient'[Len(toClient) + 1])
      BY <1>3, <1>4, <2>1 DEF LoginSuccess
    <3>2. \A j \in DOMAIN toClient' : ~(j > Len(toClient) + 1)
      BY <1>4
    <3>3. QED
      BY <1>4, <3>1, <3>2 DEF SessionKnown
  <2>6. QED
    BY <1>4, <1>5, <1>6, <2>3, <2>4, <2>5
<1>9. QED
  BY <1>7, <1>8

(* An answer to a login is found by its callback.                          *)
LEMMA DropKeepsSession ==
    ASSUME TypeInv, SessionInv, NEW m \in outbox, Deliver(m), Empty(m)
    PROVE  SessionInv'
<1> USE EmptyIsDropped
<1>1. (RespDeletes' <=> RespDeletes) /\ (SessionKnown' <=> SessionKnown)
  BY DEF RespDeletes, SessionKnown
<1>2. QED
  BY <1>1 DEF SessionInv

LEMMA ReadKeepsSession ==
    ASSUME TypeInv, TokenInv, SessionInv, Read
    PROVE  SessionInv'
<1> USE ReadEffect
<1>1. /\ \A k \in DOMAIN toClient' : k + 1 \in DOMAIN toClient /\ toClient'[k] = toClient[k + 1]
                                     /\ k \in Nat /\ k > 0
      /\ \A k \in DOMAIN toClient : k # 1 =>
            k - 1 \in DOMAIN toClient' /\ toClient'[k - 1] = toClient[k]
      /\ \A k \in DOMAIN toClient : k \in Nat
      /\ 1 \in DOMAIN toClient /\ Head(toClient) = toClient[1] /\ toClient[1] \in InMessage
  BY TakenMessage DEF TypeInv, Shapes
<1> SUFFICES ASSUME ~hasty, "login" \notin overlapped, session # NoName
             PROVE  /\ session = username /\ SessionKnown' /\ ui.at \notin Prepares
                    /\ ~RespDeletes'
                    /\ \A k \in DOMAIN toClient' : toClient'[k].type # "delete_user"
  BY DEF SessionInv
<1>2. /\ session = username /\ SessionKnown /\ ui.at \notin Prepares
      /\ ~RespDeletes /\ \A k \in DOMAIN toClient : toClient[k].type # "delete_user"
  BY DEF SessionInv
<1>3. /\ ~RespDeletes'
      /\ \A k \in DOMAIN toClient' : toClient'[k].type # "delete_user"
  BY <1>1, <1>2, ReadingShape DEF RespDeletes
<1>4. resp.at = "read"
  BY ReadingShape
<1>5. CASE /\ isLoggedIn
           /\ \A k \in DOMAIN toClient : ~Ends(toClient[k])
  <2>1. \A k \in DOMAIN toClient' : ~Ends(toClient'[k])
    BY <1>1, <1>5
  <2>2. resp'.at = "handle" => ~Ends(resp'.msg)
    BY <1>1, <1>5, ReadingShape
  <2>3. SessionKnown'
    BY <1>5, <2>1, <2>2 DEF SessionKnown
  <2>4. QED
    BY <1>2, <1>3, <2>3
<1>6. ASSUME NEW k \in DOMAIN toClient, LoginSuccess(toClient[k]),
             \A j \in DOMAIN toClient : j > k => ~Ends(toClient[j])
      PROVE  SessionKnown'
  <2>1. CASE k = 1
    <3>1. toClient[1].type = "login" /\ "login" \in Free
      BY <1>6, <2>1 DEF LoginSuccess, Free, Types
    <3>2. callbackMap["login"].command = toClient[1].command /\ toClient[1].command # 0
      BY <1>1, <3>1, FreeTypes DEF TokenInv, InPlace, Registered
    <3>3. callbackMap["login"] # NoEntry
      BY <3>2 DEF NoEntry
    <3>4. resp'.at = "handle" /\ resp'.msg = toClient[1]
      BY <1>1, <3>1, <3>3
    <3>5. \A j \in DOMAIN toClient' : ~Ends(toClient'[j])
      BY <1>1, <1>6, <2>1
    <3>6. QED
      BY <1>6, <2>1, <3>4, <3>5 DEF SessionKnown
  <2>2. CASE k # 1
    <3>1. k - 1 \in DOMAIN toClient' /\ LoginSuccess(toClient'[k - 1])
      BY <1>1, <1>6, <2>2
    <3>2. \A j \in DOMAIN toClient' : j > k - 1 => ~Ends(toClient'[j])
      BY <1>1, <1>6
    <3>3. QED
      BY <3>1, <3>2 DEF SessionKnown
  <2>3. QED
    BY <2>1, <2>2
<1>7. QED
  BY <1>2, <1>3, <1>4, <1>5, <1>6 DEF SessionKnown

LEMMA SessionIsKept == TypeInv /\ TokenInv /\ EnterInv /\ SessionInv /\ [Next]_vars => SessionInv'
<1> SUFFICES ASSUME TypeInv, TokenInv, EnterInv, SessionInv, [Next]_vars PROVE SessionInv'
  OBVIOUS
<1>1. CASE Poll \/ QueryMessages
  <2>1. UNCHANGED <<username, isLoggedIn, ui, resp, toClient, session, overlapped, hasty>>
    BY <1>1 DEF Poll, QueryMessages, userVars, serverVars
  <2>2. (RespDeletes' <=> RespDeletes) /\ (SessionKnown' <=> SessionKnown)
    BY <2>1 DEF RespDeletes, SessionKnown
  <2>3. QED
    BY <2>1, <2>2 DEF SessionInv
<1>2. CASE Expire
  BY <1>2 DEF Expire, SessionInv
<1>3. CASE handleResponse
  <2>1. (RespDeletes' => RespDeletes) /\ resp'.at # "handle"
    BY <1>3, HandleEffect, HandledInto DEF RespDeletes
  <2>2. /\ isLoggedIn /\ (resp.at = "handle" => ~Ends(resp.msg)) => isLoggedIn'
        /\ resp.at = "handle" /\ LoginSuccess(resp.msg) => isLoggedIn'
    BY <1>3, HandleEffect
  <2>3. UNCHANGED <<username, ui, toClient, session, overlapped, hasty>>
    BY <1>3, HandleEffect
  <2>4. QED
    BY <2>1, <2>2, <2>3, RespKeepsSession
<1>4. CASE ClearUsername \/ ClearPassword \/ RespGetsUsername \/ RespGetsPassword
  <2>1. /\ (RespDeletes' => RespDeletes) /\ resp'.at # "handle" /\ resp.at # "handle"
        /\ RespDeletes \/ username' = username
    BY <1>4, FollowUpKeepsTypes DEF RespDeletes, TypeInv, RespInv
  <2>2. QED
    BY <1>4, <2>1, FollowUpKeepsTypes, RespKeepsSession
<1>5. CASE RespSends
  <2>1. (RespDeletes' => RespDeletes) /\ resp'.at # "handle" /\ resp.at # "handle"
    BY <1>5, RespSendsEffect DEF RespDeletes
  <2>2. UNCHANGED <<username, isLoggedIn, ui, toClient, session, hasty>>
        /\ overlapped \subseteq overlapped'
    BY <1>5, RespSendsEffect
  <2>3. SessionKnown => SessionKnown'
    BY <2>1, <2>2 DEF SessionKnown
  <2>4. QED
    BY <2>1, <2>2, <2>3 DEF SessionInv
<1>6. CASE RemoveCallback
  <2>1. (RespDeletes' => RespDeletes) /\ resp'.at # "handle" /\ resp.at # "handle"
    BY <1>6, RemoveKeepsTypes, ReadingShape DEF RespDeletes
  <2>2. QED
    BY <1>6, <2>1, RemoveKeepsTypes, RespKeepsSession
<1>7. CASE UNCHANGED vars
  <2>1. UNCHANGED <<username, isLoggedIn, ui, resp, toClient, session, overlapped, hasty>>
    BY <1>7 DEF vars, userVars, serverVars
  <2>2. (RespDeletes' <=> RespDeletes) /\ (SessionKnown' <=> SessionKnown)
    BY <2>1 DEF RespDeletes, SessionKnown
  <2>3. QED
    BY <2>1, <2>2 DEF SessionInv
<1>8. QED
  BY <1>1, <1>2, <1>3, <1>4, <1>5, <1>6, <1>7, Steps, BeginKeepsSession, ConsoleKeepsSession,
     DeliverKeepsSession, DropKeepsSession, ReadKeepsSession

(* Between commands the session the server keeps is that of the user the   *)
(* client stores, and the login flag says so, whatever commands, polls and *)
(* expiries came before (LoginCommand.java, LogoffCommand.java), provided   *)
(* the user waited for answers and no two logins overlapped.               *)
THEOREM SessionBelongsToTheUser == Spec => []SessionIsTheUsers
<1>1. Init => SessionInv
  BY DEF Init, SessionInv
<1>2. TypeInv /\ SessionInv => SessionIsTheUsers
  <2> SUFFICES ASSUME TypeInv, SessionInv, Quiet, ~hasty, "login" \notin overlapped,
                      session # NoName
               PROVE  isLoggedIn /\ session = username
    BY DEF SessionIsTheUsers
  <2>1. resp.at = "read" /\ DOMAIN toClient = {}
    BY ReadingShape DEF Quiet
  <2>2. session = username /\ SessionKnown
    BY DEF SessionInv
  <2>3. QED
    BY <2>1, <2>2 DEF SessionKnown
<1>3. QED
  BY <1>1, <1>2, TypesHold, TokensHold, EnterHolds, SessionIsKept, PTL DEF Spec
-----------------------------------------------------------------------------
(* Counting the answers of a kind in a queue.                              *)
LEMMA WhereFinite ==
    ASSUME NEW s \in Seq(InMessage), NEW M
    PROVE  IsFiniteSet(Where(s, M)) /\ Cardinality(Where(s, M)) \in Nat
<1>1. Where(s, M) \in SUBSET (1 .. Len(s)) /\ Len(s) \in Nat
  BY LenProperties DEF Where
<1>2. IsFiniteSet(1 .. Len(s))
  BY <1>1, FS_Interval
<1>3. QED
  BY <1>1, <1>2, FS_Subset, FS_CardinalityType

LEMMA WhereAppended ==
    ASSUME NEW s \in Seq(InMessage), NEW a \in InMessage, NEW M
    PROVE  Cardinality(Where(Append(s, a), M)) = Cardinality(Where(s, M)) + Weight(a \in M)
<1> DEFINE n == Len(s) + 1
<1>1. /\ Len(s) \in Nat /\ DOMAIN s = 1 .. Len(s) /\ DOMAIN Append(s, a) = 1 .. n
      /\ Append(s, a)[n] = a /\ \A k \in 1 .. Len(s) : Append(s, a)[k] = s[k]
  BY AppendProperties, LenProperties
<1>2. IsFiniteSet(Where(s, M)) /\ Cardinality(Where(s, M)) \in Nat
  BY WhereFinite
<1>3. n \notin Where(s, M)
  BY <1>1 DEF Where
<1>4. CASE a \in M
  <2>1. Where(Append(s, a), M) = Where(s, M) \cup {n}
    BY <1>1, <1>4 DEF Where
  <2>2. Cardinality(Where(Append(s, a), M)) = Cardinality(Where(s, M)) + 1
    BY <1>2, <1>3, <2>1, FS_AddElement
  <2>3. QED
    BY <1>4, <2>2 DEF Weight
<1>5. CASE a \notin M
  <2>1. Where(Append(s, a), M) = Where(s, M)
    BY <1>1, <1>5 DEF Where
  <2>2. QED
    BY <1>2, <1>5, <2>1 DEF Weight
<1>6. QED
  BY <1>4, <1>5

LEMMA WhereTaken ==
    ASSUME NEW s \in Seq(InMessage), s # << >>, NEW M
    PROVE  Cardinality(Where(Tail(s), M)) + Weight(Head(s) \in M) <= Cardinality(Where(s, M))
<1> DEFINE S == Where(s, M) \ {1}
           T == Where(Tail(s), M)
           f == [k \in T |-> k + 1]
<1>1. /\ Tail(s) \in Seq(InMessage) /\ Len(Tail(s)) = Len(s) - 1 /\ Len(s) \in Nat /\ Len(s) # 0
      /\ Head(s) = s[1] /\ \A k \in 1 .. Len(s) - 1 : Tail(s)[k] = s[k + 1]
  BY HeadTailProperties, EmptySeq, LenProperties
<1>2. DOMAIN s = 1 .. Len(s) /\ DOMAIN Tail(s) = 1 .. Len(s) - 1
  BY <1>1, LenProperties
<1>3. IsFiniteSet(Where(s, M)) /\ Cardinality(Where(s, M)) \in Nat /\ Cardinality(T) \in Nat
  BY <1>1, WhereFinite
<1>4. /\ IsFiniteSet(S)
      /\ Cardinality(S) = IF 1 \in Where(s, M) THEN Cardinality(Where(s, M)) - 1
                          ELSE Cardinality(Where(s, M))
  BY <1>3, FS_RemoveElement
<1>5. f \in Injection(T, S)
  <2>1. \A k \in T : k \in Int /\ k + 1 \in S
    BY <1>1, <1>2 DEF Where
  <2>2. f \in [T -> S]
    BY <2>1
  <2>3. ASSUME NEW j \in T, NEW k \in T, f[j] = f[k] PROVE j = k
    <3>1. j + 1 = k + 1
      BY <2>3
    <3>2. QED
      BY <2>1, <3>1
  <2>4. QED
    BY <2>2, <2>3 DEF Injection, IsInjective
<1>6. Cardinality(T) <= Cardinality(S)
  BY <1>4, <1>5, FS_Injection
<1> HIDE DEF S, T, f
<1>7. 1 \in Where(s, M) <=> Head(s) \in M
  BY <1>1, <1>2 DEF Where
<1>8. Weight(Head(s) \in M) = IF 1 \in Where(s, M) THEN 1 ELSE 0
  BY <1>7 DEF Weight
<1>9. QED
  BY <1>3, <1>4, <1>6, <1>8 DEF T

LEMMA WhereAll ==
    ASSUME NEW s \in Seq(InMessage), NEW M
    PROVE  Len(s) <= Cardinality(Where(s, M)) + Cardinality(Where(s, InMessage \ M))
<1>1. Len(s) \in Nat /\ DOMAIN s = 1 .. Len(s) /\ \A k \in 1 .. Len(s) : s[k] \in InMessage
  BY LenProperties, ElementOfSeq
<1>2. 1 .. Len(s) = Where(s, M) \cup Where(s, InMessage \ M)
  BY <1>1 DEF Where
<1>3. /\ IsFiniteSet(Where(s, M)) /\ IsFiniteSet(Where(s, InMessage \ M))
      /\ Cardinality(Where(s, M)) \in Nat /\ Cardinality(Where(s, InMessage \ M)) \in Nat
  BY WhereFinite
<1>4. Where(s, M) \cap Where(s, InMessage \ M) = {}
  BY DEF Where
<1>5. Cardinality(1 .. Len(s)) = Len(s)
  <2>1. Cardinality(1 .. Len(s)) = IF 1 > Len(s) THEN 0 ELSE Len(s) - 1 + 1
    BY <1>1, FS_Interval
  <2>2. QED
    BY <1>1, <2>1
<1>6. Cardinality(1 .. Len(s)) = Cardinality(Where(s, M)) + Cardinality(Where(s, InMessage \ M)) - 0
  <2> DEFINE S == Where(s, M)
             T == Where(s, InMessage \ M)
  <2>1. IsFiniteSet(S) /\ IsFiniteSet(T) /\ 1 .. Len(s) = S \cup T /\ S \cap T = {}
    BY <1>2, <1>3, <1>4
  <2> HIDE DEF S, T
  <2>2. Cardinality(S \cup T) = Cardinality(S) + Cardinality(T) - Cardinality(S \cap T)
    BY <2>1, FS_Union
  <2>3. Cardinality(S \cap T) = 0
    BY <2>1, FS_EmptySet
  <2>4. Cardinality(1 .. Len(s)) = Cardinality(S) + Cardinality(T) - 0
    BY <2>1, <2>2, <2>3
  <2> QED  BY <2>4 DEF S, T
<1>7. QED
  BY <1>1, <1>3, <1>5, <1>6
-----------------------------------------------------------------------------
Numbers ==
    /\ OutboxHolds \in Nat /\ AnswersAsked \in Nat /\ AnswersUnasked \in Nat
    /\ UiHolds \in 0 .. 1 /\ RespHolds \in 0 .. 1 /\ PollerHolds \in 0 .. 1 /\ Polls \in 0 .. 1
    /\ commands \in Nat /\ expiries \in Nat
LEMMA CountsAreNumbers == TypeInv => Numbers
<1> SUFFICES ASSUME TypeInv PROVE Numbers
  OBVIOUS
<1>1. OutboxHolds \in Nat
  BY FS_CardinalityType DEF OutboxHolds, TypeInv, Shapes
<1>2. AnswersAsked \in Nat /\ AnswersUnasked \in Nat
  BY WhereFinite DEF AnswersAsked, AnswersUnasked, TypeInv, Shapes
<1>3. \A b : Weight(b) \in 0 .. 1
  BY DEF Weight
<1>4. UiHolds \in 0 .. 1 /\ RespHolds \in 0 .. 1 /\ PollerHolds \in 0 .. 1 /\ Polls \in 0 .. 1
  BY <1>3 DEF UiHolds, RespHolds, PollerHolds, Polls
<1>5. commands \in Nat /\ expiries \in Nat
  BY BoundsAssumption DEF TypeInv, Shapes
<1>6. QED
  BY <1>1, <1>2, <1>4, <1>5 DEF Numbers

LEMMA CountsStayNumbers == TypeInv' => Numbers'
BY CountsAreNumbers, PTL

LEMMA Weights ==
    /\ \A b : b => Weight(b) = 1
    /\ \A b : ~b => Weight(b) = 0
    /\ \A b : Weight(b) \in 0 .. 1
BY DEF Weight

(* What a queue holds after an answer was appended.                        *)
LEMMA AnswerAppended ==
    ASSUME TypeInv, NEW a \in InMessage, toClient' = Append(toClient, a)
    PROVE  /\ a \in Unasked => AnswersUnasked' = AnswersUnasked + 1 /\ AnswersAsked' = AnswersAsked
           /\ a \notin Unasked =>
                 AnswersUnasked' = AnswersUnasked /\ AnswersAsked' = AnswersAsked + 1
<1>1. toClient \in Seq(InMessage) /\ AnswersAsked \in Nat /\ AnswersUnasked \in Nat
  BY CountsAreNumbers DEF TypeInv, Shapes, Numbers
<1>2. /\ AnswersAsked' = AnswersAsked + Weight(a \in InMessage \ Unasked)
      /\ AnswersUnasked' = AnswersUnasked + Weight(a \in Unasked)
  BY <1>1, WhereAppended DEF AnswersAsked, AnswersUnasked, Unasked
<1>3. CASE a \in Unasked
  <2>1. Weight(a \in InMessage \ Unasked) = 0 /\ Weight(a \in Unasked) = 1
    BY <1>3 DEF Weight
  <2>2. QED
    BY <1>1, <1>2, <1>3, <2>1
<1>4. CASE a \notin Unasked
  <2>1. Weight(a \in InMessage \ Unasked) = 1 /\ Weight(a \in Unasked) = 0
    BY <1>4 DEF Weight
  <2>2. QED
    BY <1>1, <1>2, <1>4, <2>1
<1>5. QED
  BY <1>3, <1>4

LEMMA SmallerPart == \A a, b, c \in Nat : a + c <= b => a <= b
OBVIOUS

LEMMA AnswerTaken ==
    ASSUME TypeInv, toClient # << >>, toClient' = Tail(toClient), TypeInv'
    PROVE  /\ AnswersUnasked' <= AnswersUnasked /\ AnswersAsked' <= AnswersAsked
           /\ Head(toClient) \notin Unasked => AnswersAsked' + 1 <= AnswersAsked
<1>1. /\ toClient \in Seq(InMessage) /\ Head(toClient) \in InMessage
      /\ AnswersAsked \in Nat /\ AnswersUnasked \in Nat
      /\ AnswersAsked' \in Nat /\ AnswersUnasked' \in Nat
  BY CountsAreNumbers, CountsStayNumbers, TakenMessage DEF TypeInv, Shapes, Numbers
<1> DEFINE v == Weight(Head(toClient) \in InMessage \ Unasked)
           w == Weight(Head(toClient) \in Unasked)
<1>2. AnswersAsked' + v <= AnswersAsked /\ AnswersUnasked' + w <= AnswersUnasked
  BY <1>1, WhereTaken DEF AnswersAsked, AnswersUnasked, Unasked
<1>3. Head(toClient) \notin Unasked => v = 1
  BY <1>1 DEF Weight
<1>4. v \in 0 .. 1 /\ w \in 0 .. 1
  BY DEF Weight
<1> HIDE DEF v, w
<1>5. AnswersUnasked' <= AnswersUnasked /\ AnswersAsked' <= AnswersAsked
  <2>1. v \in Nat /\ w \in Nat
    BY <1>4
  <2>2. AnswersUnasked' <= AnswersUnasked
    BY <1>1, <1>2, <2>1, SmallerPart
  <2>3. AnswersAsked' <= AnswersAsked
    BY <1>1, <1>2, <2>1, SmallerPart
  <2>4. QED
    BY <2>2, <2>3
<1>6. v = 1 => AnswersAsked' + 1 <= AnswersAsked
  BY <1>1, <1>2
<1>7. QED
  BY <1>3, <1>5, <1>6
-----------------------------------------------------------------------------
(* One message more in the outbox, or one less.                            *)
LEMMA MessageCounted ==
    ASSUME TypeInv, NEW m, outbox' = outbox \cup {m} \/ (m \in outbox /\ outbox' = outbox \ {m})
    PROVE  /\ outbox' = outbox \cup {m} => OutboxHolds' <= OutboxHolds + 1
           /\ m \in outbox /\ outbox' = outbox \ {m} => OutboxHolds' + 1 = OutboxHolds
<1>1. IsFiniteSet(outbox) /\ Cardinality(outbox) \in Nat
  BY FS_CardinalityType DEF TypeInv, Shapes
<1>2. ASSUME outbox' = outbox \cup {m} PROVE Cardinality(outbox') <= Cardinality(outbox) + 1
  BY <1>1, <1>2, FS_AddElement
<1>3. ASSUME m \in outbox, outbox' = outbox \ {m}
      PROVE  Cardinality(outbox') + 1 = Cardinality(outbox)
  BY <1>1, <1>3, FS_RemoveElement
<1>4. QED
  BY <1>2, <1>3 DEF OutboxHolds

(* The ways a step may change the counts: what one gains another loses, or *)
(* a command or a poll pays for it.                                        *)
LEMMA Balanced ==
    ASSUME TypeInv, TypeInv', CountInv, AnswersUnasked' <= expiries',
           \/ /\ OutboxHolds' <= OutboxHolds /\ AnswersAsked' <= AnswersAsked
              /\ UiHolds' <= UiHolds /\ RespHolds' <= RespHolds /\ PollerHolds' <= PollerHolds
              /\ commands' = commands /\ Polls <= Polls'
           \/ /\ OutboxHolds' = OutboxHolds /\ AnswersAsked' = AnswersAsked
              /\ UiHolds = 0 /\ RespHolds' = RespHolds /\ PollerHolds' = PollerHolds
              /\ commands' = commands + 1 /\ Polls = Polls'
           \/ /\ OutboxHolds' <= OutboxHolds + 1 /\ AnswersAsked' = AnswersAsked
              /\ UiHolds = 1 /\ UiHolds' = 0 /\ RespHolds' = RespHolds
              /\ PollerHolds' = PollerHolds /\ commands' = commands /\ Polls = Polls'
           \/ /\ OutboxHolds' <= OutboxHolds + 1 /\ AnswersAsked' = AnswersAsked
              /\ UiHolds' = UiHolds /\ RespHolds = 1 /\ RespHolds' = 0
              /\ PollerHolds' = PollerHolds /\ commands' = commands /\ Polls = Polls'
           \/ /\ OutboxHolds' = OutboxHolds /\ AnswersAsked' = AnswersAsked
              /\ UiHolds' = UiHolds /\ RespHolds' = RespHolds
              /\ PollerHolds = 0 /\ commands' = commands /\ Polls = 0 /\ Polls' = 1
           \/ /\ OutboxHolds' <= OutboxHolds + 1 /\ AnswersAsked' = AnswersAsked
              /\ UiHolds' = UiHolds /\ RespHolds' = RespHolds
              /\ PollerHolds = 1 /\ PollerHolds' = 0 /\ commands' = commands /\ Polls' = 1
           \/ /\ OutboxHolds' + 1 = OutboxHolds /\ AnswersAsked' <= AnswersAsked + 1
              /\ UiHolds' = UiHolds /\ RespHolds' = RespHolds /\ PollerHolds' = PollerHolds
              /\ commands' = commands /\ Polls <= Polls'
           \/ /\ OutboxHolds' = OutboxHolds /\ AnswersAsked' + 1 <= AnswersAsked
              /\ UiHolds' = UiHolds /\ RespHolds = 0 /\ PollerHolds' = PollerHolds
              /\ commands' = commands /\ (Polls <= Polls' \/ RespHolds' = 0)
           \/ /\ OutboxHolds' = OutboxHolds /\ AnswersAsked' = AnswersAsked
              /\ UiHolds' = UiHolds /\ RespHolds = 1 /\ RespHolds' = 0
              /\ PollerHolds' = PollerHolds /\ commands' = commands
    PROVE  CountInv'
<1>1. Numbers /\ Numbers'
  BY CountsAreNumbers, CountsStayNumbers
<1>2. \E o, a, n, x \in Nat, u, r, p, q \in 0 .. 1 :
          /\ OutboxHolds' = o /\ AnswersAsked' = a /\ commands' = n /\ expiries' = x
          /\ UiHolds' = u /\ RespHolds' = r /\ PollerHolds' = p /\ Polls' = q
  BY <1>1 DEF Numbers
<1>3. PICK o \in Nat, a \in Nat, n \in Nat, u \in 0 .. 1, r \in 0 .. 1, p \in 0 .. 1, q \in 0 .. 1 :
          /\ OutboxHolds' = o /\ AnswersAsked' = a /\ commands' = n
          /\ UiHolds' = u /\ RespHolds' = r /\ PollerHolds' = p /\ Polls' = q
  BY <1>2
<1>4. /\ OutboxHolds \in Nat /\ AnswersAsked \in Nat /\ commands \in Nat
      /\ UiHolds \in 0 .. 1 /\ RespHolds \in 0 .. 1 /\ PollerHolds \in 0 .. 1 /\ Polls \in 0 .. 1
      /\ OutboxHolds + AnswersAsked + UiHolds + RespHolds + PollerHolds <= commands + Polls
  BY <1>1 DEF Numbers, CountInv
<1>5. \/ o <= OutboxHolds /\ a <= AnswersAsked /\ u <= UiHolds /\ r <= RespHolds
            /\ p <= PollerHolds /\ n = commands /\ Polls <= q
      \/ o = OutboxHolds /\ a = AnswersAsked /\ UiHolds = 0 /\ r = RespHolds
            /\ p = PollerHolds /\ n = commands + 1 /\ Polls = q
      \/ o <= OutboxHolds + 1 /\ a = AnswersAsked /\ UiHolds = 1 /\ u = 0 /\ r = RespHolds
            /\ p = PollerHolds /\ n = commands /\ Polls = q
      \/ o <= OutboxHolds + 1 /\ a = AnswersAsked /\ u = UiHolds /\ RespHolds = 1 /\ r = 0
            /\ p = PollerHolds /\ n = commands /\ Polls = q
      \/ o = OutboxHolds /\ a = AnswersAsked /\ u = UiHolds /\ r = RespHolds
            /\ PollerHolds = 0 /\ n = commands /\ Polls = 0 /\ q = 1
      \/ o <= OutboxHolds + 1 /\ a = AnswersAsked /\ u = UiHolds /\ r = RespHolds
            /\ PollerHolds = 1 /\ p = 0 /\ n = commands /\ q = 1
      \/ o + 1 = OutboxHolds /\ a <= AnswersAsked + 1 /\ u = UiHolds /\ r = RespHolds
            /\ p = PollerHolds /\ n = commands /\ Polls <= q
      \/ o = OutboxHolds /\ a + 1 <= AnswersAsked /\ u = UiHolds /\ RespHolds = 0
            /\ p = PollerHolds /\ n = commands /\ (Polls <= q \/ r = 0)
      \/ o = OutboxHolds /\ a = AnswersAsked /\ u = UiHolds /\ RespHolds = 1 /\ r = 0
            /\ p = PollerHolds /\ n = commands
  BY <1>3
<1>6. o + a + u + r + p <= n + q
  BY <1>4, <1>5
<1>7. QED
  BY <1>3, <1>6 DEF CountInv

LEMMA LessOrSame == \A i \in Nat : i <= i
OBVIOUS

LEMMA SameAnswers ==
    ASSUME toClient' = toClient
    PROVE  AnswersAsked' = AnswersAsked /\ AnswersUnasked' = AnswersUnasked
BY DEF AnswersAsked, AnswersUnasked

LEMMA BeginKeepsCount ==
    ASSUME TypeInv, TypeInv', CountInv, NEW at, NEW handler, NEW type, NEW name,
           Begin(at, handler, type, name)
    PROVE  CountInv'
<1>1. /\ UNCHANGED <<poller, resp, outbox, toClient, expiries>>
      /\ ui = Input /\ commands' = commands + 1
  BY DEF Begin, serverVars
<1>2. UNCHANGED <<OutboxHolds, AnswersAsked, AnswersUnasked, RespHolds, PollerHolds, Polls>>
  BY <1>1, SameAnswers DEF OutboxHolds, RespHolds, PollerHolds, Polls, PollUnderWay
<1>3. UiHolds = 0
  BY <1>1 DEF Input, UiHolds, Weight, Prepares, Sends
<1>4. AnswersUnasked' <= expiries'
  BY <1>1, <1>2 DEF CountInv
<1>5. QED
  BY <1>1, <1>2, <1>3, <1>4, Balanced

LEMMA ConsoleKeepsCount ==
    ASSUME TypeInv, TypeInv', CountInv, ConsoleWorks
    PROVE  CountInv'
<1>1. Numbers /\ Numbers'
  BY CountsAreNumbers, CountsStayNumbers
<1>2. UNCHANGED <<poller, resp, toClient, commands, expiries>>
  BY ConsoleEffect, UiSendsEffect
<1>3. UNCHANGED <<AnswersAsked, AnswersUnasked, RespHolds, PollerHolds>>
  BY <1>2, SameAnswers DEF RespHolds, PollerHolds
<1> AnswersUnasked' <= expiries'
  BY <1>2, <1>3 DEF CountInv
<1> Polls <= Polls
  BY <1>1 DEF Numbers
<1>4. CASE outbox' = outbox
  <2>1. UNCHANGED <<OutboxHolds, Polls>>
    BY <1>2, <1>4 DEF OutboxHolds, Polls, PollUnderWay
  <2>2. ui'.at \in Prepares \cup Sends => ui.at \in Prepares \cup Sends
    <3>1. CASE ~UiSends
      BY <3>1, ConsoleEffect DEF Prepares, Sends
    <3>2. CASE UiSends
      BY <3>2 DEF UiSends, Sends
    <3>3. QED
      BY <3>1, <3>2
  <2>3. UiHolds' <= UiHolds
    <3>1. CASE ui.at \in Prepares \cup Sends
      <4>1. UiHolds = 1
        BY <3>1 DEF UiHolds, Weight
      <4>2. QED
        BY <1>1, <4>1 DEF Numbers
    <3>2. CASE ~(ui.at \in Prepares \cup Sends)
      <4>1. UiHolds' = 0
        BY <2>2, <3>2 DEF UiHolds, Weight
      <4>2. QED
        BY <1>1, <4>1 DEF Numbers
    <3>3. QED
      BY <3>1, <3>2
  <2>4. QED
    BY <1>1, <1>2, <1>3, <2>1, <2>3, Balanced, LessOrSame DEF Numbers
<1>5. CASE outbox' # outbox
  <2>1. UiSends
    BY <1>5, ConsoleEffect
  <2>2. PICK m \in OutMessage : m.type = ui.type /\ outbox' = outbox \cup {m}
    BY <1>5, <2>1, UiSendsEffect
  <2>3. m.type # "query_msg"
    BY <2>1, <2>2, UiSendsEffect
  <2>4. Polls' = Polls
    BY <1>2, <2>2, <2>3 DEF Polls, PollUnderWay
  <2>5. OutboxHolds' <= OutboxHolds + 1
    BY <2>2, MessageCounted
  <2>6. ui.at = "create_task" /\ ui'.at \in {"input", "sleep"}
    BY <1>5, <2>1, UiSendsEffect DEF Input, TypeInv, Shapes
  <2>7. UiHolds = 1 /\ UiHolds' = 0
    BY <2>6 DEF UiHolds, Weight, Prepares, Sends
  <2>8. QED
    BY <1>2, <1>3, <2>4, <2>5, <2>7, Balanced
<1>6. QED
  BY <1>4, <1>5
-----------------------------------------------------------------------------
(* What the response thread and the poller hold, as formulas.              *)
RespHasMessage ==
    /\ resp.at \in {"handle", "get_name", "get_password"} \cup Sends
    /\ resp.msg \notin Unasked
Polling == poller = "send" \/ PollUnderWay
Meanings ==
    /\ \/ RespHolds = 1 /\ RespHasMessage
       \/ RespHolds = 0 /\ ~RespHasMessage
    /\ \/ PollerHolds = 1 /\ poller = "send"
       \/ PollerHolds = 0 /\ poller # "send"
    /\ \/ Polls = 1 /\ Polling
       \/ Polls = 0 /\ ~Polling
LEMMA MeaningsHold == Meanings
BY DEF Meanings, RespHolds, RespHasMessage, PollerHolds, Polls, Polling, Weight

LEMMA MeaningsStayTrue == Meanings'
BY MeaningsHold, PTL

LEMMA PollerKeepsCount ==
    ASSUME TypeInv, TypeInv', CountInv, Poll \/ QueryMessages
    PROVE  CountInv'
<1> USE MeaningsHold, MeaningsStayTrue
<1>1. UNCHANGED <<ui, resp, toClient, commands, expiries>>
  BY DEF Poll, QueryMessages, serverVars
<1>2. UNCHANGED <<AnswersAsked, AnswersUnasked, UiHolds, RespHolds>>
  BY <1>1, SameAnswers DEF UiHolds, RespHolds
<1>3. AnswersUnasked' <= expiries'
  BY <1>1, <1>2 DEF CountInv
<1>4. CASE Poll
  <2>1. outbox' = outbox /\ poller # "send" /\ poller' = "send" /\ ~PollUnderWay
    BY <1>4 DEF Poll
  <2>2. OutboxHolds' = OutboxHolds
    BY <2>1 DEF OutboxHolds
  <2>3. PollerHolds = 0 /\ Polls = 0 /\ Polls' = 1
    BY <2>1 DEF Meanings, Polling
  <2>4. QED
    BY <1>1, <1>2, <1>3, <2>2, <2>3, Balanced
<1>5. CASE QueryMessages
  <2> DEFINE m == [type |-> "query_msg", name |-> NoName, pass |-> NoName, command |-> 0]
  <2>1. outbox' = outbox \cup {m} /\ poller = "send" /\ poller' = "idle" /\ m.type = "query_msg"
    BY <1>5 DEF QueryMessages, createSendThread
  <2> HIDE DEF m
  <2>2. OutboxHolds' <= OutboxHolds + 1
    BY <2>1, MessageCounted
  <2>3. PollUnderWay'
    BY <2>1 DEF PollUnderWay
  <2>4. PollerHolds = 1 /\ PollerHolds' = 0 /\ Polls' = 1
    BY <2>1, <2>3 DEF Meanings, Polling
  <2>5. QED
    BY <1>1, <1>2, <1>3, <2>2, <2>4, Balanced
<1>6. QED
  BY <1>4, <1>5

LEMMA DeliverKeepsCount ==
    ASSUME TypeInv, TypeInv', CountInv, NEW m \in outbox, Deliver(m), ~Empty(m)
    PROVE  CountInv'
<1> USE MeaningsHold, MeaningsStayTrue
<1> DEFINE a == [type |-> m.type, subtype |-> Served(m).subtype, command |-> m.command]
<1>1. /\ UNCHANGED <<ui, poller, resp, commands, expiries>>
      /\ outbox' = outbox \ {m} /\ toClient' = Append(toClient, a)
  BY DEF Deliver
<1>2. m \in OutMessage /\ toClient \in Seq(InMessage)
  BY DEF TypeInv, Shapes
<1>3. a \in InMessage /\ a.type = m.type /\ a.command = m.command
  BY <1>2, ServedShape DEF OutMessage, InMessage
<1> HIDE DEF a
<1>4. a \notin Unasked
  BY <1>3 DEF Unasked, TypeInv, MessagesAreAsked, Asked
<1>5. AnswersUnasked' = AnswersUnasked /\ AnswersAsked' = AnswersAsked + 1
  BY <1>1, <1>3, <1>4, AnswerAppended
<1>6. OutboxHolds' + 1 = OutboxHolds
  BY <1>1, MessageCounted
<1>7. UNCHANGED <<UiHolds, RespHolds, PollerHolds>>
  BY <1>1 DEF UiHolds, RespHolds, PollerHolds
<1>8. Polling => Polling'
  <2>1. /\ \A k \in DOMAIN toClient : k \in DOMAIN toClient' /\ toClient'[k] = toClient[k]
        /\ Len(toClient) + 1 \in DOMAIN toClient' /\ toClient'[Len(toClient) + 1] = a
    BY <1>1, <1>2, <1>3, AppendedMessage
  <2>2. QED
    BY <1>1, <1>3, <2>1 DEF Polling, PollUnderWay
<1>9. Polls <= Polls' /\ AnswersAsked' <= AnswersAsked + 1 /\ AnswersUnasked' <= expiries'
  <2>1. Polls <= Polls'
    BY <1>8 DEF Meanings
  <2>2. AnswersAsked' <= AnswersAsked + 1
    BY <1>5, CountsAreNumbers DEF Numbers
  <2>3. QED
    BY <1>1, <1>5, <2>1, <2>2 DEF CountInv
<1>10. QED
  BY <1>1, <1>6, <1>7, <1>9, Balanced

LEMMA DropKeepsCount ==
    ASSUME TypeInv, TypeInv', CountInv, NEW m \in outbox, Deliver(m), Empty(m)
    PROVE  CountInv'
<1> USE EmptyIsDropped, MeaningsHold, MeaningsStayTrue
<1>1. UNCHANGED <<AnswersAsked, AnswersUnasked, UiHolds, RespHolds, PollerHolds>>
  BY SameAnswers DEF UiHolds, RespHolds, PollerHolds
<1>2. OutboxHolds' + 1 = OutboxHolds
  BY MessageCounted
<1>3. Polls <= Polls'
  <2>1. Polling => Polling'
    BY DEF Polling, PollUnderWay
  <2>2. QED
    BY <2>1 DEF Meanings
<1>4. AnswersAsked' <= AnswersAsked + 1 /\ AnswersUnasked' <= expiries'
  BY <1>1, CountsAreNumbers DEF Numbers, CountInv
<1>5. QED
  BY <1>1, <1>2, <1>3, <1>4, Balanced

LEMMA ExpireKeepsCount ==
    ASSUME TypeInv, TypeInv', CountInv, Expire
    PROVE  CountInv'
<1> USE MeaningsHold, MeaningsStayTrue
<1> DEFINE a == [type |-> "logoff", subtype |-> "session_expired", command |-> 0]
<1>1. /\ UNCHANGED <<ui, poller, resp, outbox, commands>>
      /\ toClient' = Append(toClient, a) /\ expiries' = expiries + 1
  BY DEF Expire
<1>2. a \in InMessage /\ a \in Unasked /\ a.type # "query_msg" /\ toClient \in Seq(InMessage)
  BY DEF InMessage, Unasked, Types, Subtypes, TypeInv, Shapes
<1> HIDE DEF a
<1>3. AnswersUnasked' = AnswersUnasked + 1 /\ AnswersAsked' = AnswersAsked
  BY <1>1, <1>2, AnswerAppended
<1>4. UNCHANGED <<OutboxHolds, UiHolds, RespHolds, PollerHolds>>
  BY <1>1 DEF OutboxHolds, UiHolds, RespHolds, PollerHolds
<1>5. Polling => Polling'
  <2>1. \A k \in DOMAIN toClient : k \in DOMAIN toClient' /\ toClient'[k] = toClient[k]
    BY <1>1, <1>2, AppendedMessage
  <2>2. QED
    BY <1>1, <2>1 DEF Polling, PollUnderWay
<1>6. Polls <= Polls'
  BY <1>5 DEF Meanings
<1>7. AnswersUnasked' <= expiries'
  <2>1. AnswersUnasked \in Nat /\ expiries \in Nat /\ AnswersUnasked <= expiries
    BY CountsAreNumbers DEF Numbers, CountInv
  <2>2. AnswersUnasked + 1 <= expiries + 1
    BY <2>1
  <2>3. QED
    BY <1>1, <1>3, <2>2
<1>8. QED
  BY <1>1, <1>3, <1>4, <1>6, <1>7, Balanced, CountsAreNumbers, LessOrSame DEF Numbers

LEMMA ReadKeepsCount ==
    ASSUME TypeInv, TypeInv', CountInv, Read
    PROVE  CountInv'
<1> USE ReadEffect, MeaningsHold, MeaningsStayTrue
<1> DEFINE msg == Head(toClient)
<1>1. UNCHANGED <<OutboxHolds, UiHolds, PollerHolds>>
  BY DEF OutboxHolds, UiHolds, PollerHolds
<1>2. RespHolds = 0
  BY ReadingShape DEF Meanings, RespHasMessage, Sends
<1>3. /\ AnswersUnasked' <= AnswersUnasked /\ AnswersAsked' <= AnswersAsked
      /\ msg \notin Unasked => AnswersAsked' + 1 <= AnswersAsked
  BY AnswerTaken
<1>4. AnswersUnasked' <= expiries'
  <2>1. PICK n \in Nat : n = AnswersUnasked'
    BY CountsStayNumbers DEF Numbers
  <2>2. n <= AnswersUnasked /\ AnswersUnasked <= expiries /\ AnswersUnasked \in Nat
        /\ expiries \in Nat
    BY <1>3, <2>1, CountsAreNumbers DEF Numbers, CountInv
  <2>3. n <= expiries
    BY <2>2
  <2>4. QED
    BY <2>1, <2>3
<1>5. \/ resp' = Reading
      \/ resp'.at = "handle" /\ resp'.msg = msg
  OBVIOUS
<1>6. resp'.msg = msg \/ msg.type # "query_msg" => Polls <= Polls'
  <2>1. /\ \A k \in DOMAIN toClient : k # 1 =>
              k - 1 \in DOMAIN toClient' /\ toClient'[k - 1] = toClient[k]
        /\ msg = toClient[1]
    BY TakenMessage DEF TypeInv, Shapes
  <2>2. ASSUME resp'.msg = msg \/ msg.type # "query_msg", Polling PROVE Polling'
    <3>1. CASE \E k \in DOMAIN toClient : toClient[k].type = "query_msg"
      <4>1. PICK k \in DOMAIN toClient : toClient[k].type = "query_msg"
        BY <3>1
      <4>2. CASE k = 1
        BY <2>1, <2>2, <4>1, <4>2 DEF Polling, PollUnderWay
      <4>3. CASE k # 1
        BY <2>1, <4>1, <4>3 DEF Polling, PollUnderWay
      <4>4. QED
        BY <4>2, <4>3
    <3>2. CASE ~\E k \in DOMAIN toClient : toClient[k].type = "query_msg"
      BY <2>2, <3>2, ReadingShape DEF Polling, PollUnderWay
    <3>3. QED
      BY <3>1, <3>2
  <2>3. QED
    BY <2>2 DEF Meanings
<1>7. CASE msg \in Unasked
  <2>1. msg.type # "query_msg"
    BY <1>7 DEF Unasked
  <2>2. RespHolds' = 0
    BY <1>5, <1>7, ReadingShape DEF Meanings, RespHasMessage, Sends
  <2>3. QED
    BY <1>1, <1>2, <1>3, <1>4, <1>6, <2>1, <2>2, Balanced, CountsAreNumbers, LessOrSame DEF Numbers
<1>8. CASE msg \notin Unasked
  <2>1. Polls <= Polls' \/ RespHolds' = 0
    BY <1>5, <1>6, ReadingShape DEF Meanings, RespHasMessage, Sends
  <2>2. QED
    BY <1>1, <1>2, <1>3, <1>4, <1>8, <2>1, Balanced
<1>9. QED
  BY <1>7, <1>8

(* The response thread between two readings.                               *)
LEMMA RespKeepsCount ==
    ASSUME TypeInv, TypeInv', CountInv,
           UNCHANGED <<outbox, toClient, ui, poller, commands, expiries>>,
           \/ (RespHasMessage' => RespHasMessage) /\ (Polling => Polling')
           \/ RespHasMessage /\ ~RespHasMessage'
    PROVE  CountInv'
<1> USE MeaningsHold, MeaningsStayTrue
<1>1. UNCHANGED <<OutboxHolds, AnswersAsked, AnswersUnasked, UiHolds, PollerHolds>>
  BY SameAnswers DEF OutboxHolds, UiHolds, PollerHolds
<1>2. AnswersUnasked' <= expiries'
  BY <1>1 DEF CountInv
<1>3. \/ RespHolds' <= RespHolds /\ Polls <= Polls'
      \/ RespHolds = 1 /\ RespHolds' = 0
  BY DEF Meanings
<1>4. QED
  BY <1>1, <1>2, <1>3, Balanced, CountsAreNumbers, LessOrSame DEF Numbers

LEMMA RespSendsKeepsCount ==
    ASSUME TypeInv, TypeInv', CountInv, RespSends
    PROVE  CountInv'
<1> USE RespSendsEffect, MeaningsHold, MeaningsStayTrue
<1>1. resp.msg \notin Unasked
  <2>1. resp.at \in Sends /\ resp.msg.type \in Handles["Register"]
    BY DEF Sends, TypeInv, RespInv
  <2>2. QED
    BY <2>1, HandledTypes DEF Unasked
<1>2. CASE resp.at = "add_callback"
  <2>1. RespHasMessage /\ (Polling => Polling')
    BY <1>1, <1>2 DEF RespHasMessage, Sends, Polling, PollUnderWay
  <2>2. QED
    BY <1>2, <2>1, RespKeepsCount
<1>3. CASE resp.at = "create_task"
  <2>1. PICK m \in OutMessage : m.type = resp.type /\ outbox' = outbox \cup {m}
    BY <1>3
  <2>2. OutboxHolds' <= OutboxHolds + 1
    BY <2>1, MessageCounted
  <2>3. Polls' = Polls
    BY <2>1 DEF Polls, PollUnderWay
  <2>4. UNCHANGED <<AnswersAsked, AnswersUnasked, UiHolds, PollerHolds>>
    BY SameAnswers DEF UiHolds, PollerHolds
  <2>5. RespHolds = 1 /\ RespHolds' = 0
    BY <1>1, <1>3 DEF Meanings, RespHasMessage, Sends
  <2>6. AnswersUnasked' <= expiries'
    BY <2>4 DEF CountInv
  <2>7. QED
    BY <2>2, <2>3, <2>4, <2>5, <2>6, Balanced
<1>4. QED
  BY <1>2, <1>3

LEMMA CountIsKept == TypeInv /\ TypeInv' /\ CountInv /\ [Next]_vars => CountInv'
<1> SUFFICES ASSUME TypeInv, TypeInv', CountInv, [Next]_vars PROVE CountInv'
  OBVIOUS
<1>1. CASE handleResponse
  <2> USE <1>1, HandleEffect
  <2>1. CASE resp'.msg = resp.msg
    <3>1. (RespHasMessage' => RespHasMessage) /\ (Polling => Polling')
      BY <2>1 DEF RespHasMessage, Polling, PollUnderWay
    <3>2. QED
      BY <3>1, RespKeepsCount
  <2>2. CASE resp'.msg # resp.msg
    <3>1. resp'.at \in {"ended", "read"}
      BY <2>2, HandledInto
    <3>2. ~RespHasMessage'
      BY <3>1 DEF RespHasMessage, Sends
    <3>3. resp.msg \in Unasked => (Polling => Polling')
      BY DEF Unasked, Polling, PollUnderWay
    <3>4. resp.msg \notin Unasked => RespHasMessage
      BY DEF RespHasMessage
    <3>5. QED
      BY <3>2, <3>3, <3>4, RespKeepsCount
  <2>3. QED
    BY <2>1, <2>2
<1>2. CASE ClearUsername \/ ClearPassword \/ RespGetsUsername \/ RespGetsPassword
  <2> USE <1>2, FollowUpKeepsTypes
  <2>1. (RespHasMessage' => RespHasMessage) /\ (Polling => Polling')
    BY DEF RespHasMessage, Polling, PollUnderWay, Sends
  <2>2. QED
    BY <2>1, RespKeepsCount
<1>3. CASE RemoveCallback
  <2> USE <1>3, RemoveKeepsTypes
  <2>1. resp.msg.type # "query_msg"
    BY HandledTypes DEF TypeInv, RespInv, Handlers
  <2>2. (RespHasMessage' => RespHasMessage) /\ (Polling => Polling')
    BY <2>1, ReadingShape DEF RespHasMessage, Polling, PollUnderWay, Sends
  <2>3. QED
    BY <2>2, RespKeepsCount
<1>4. CASE UNCHANGED vars
  <2>1. UNCHANGED <<outbox, toClient, ui, poller, resp, commands, expiries>>
    BY <1>4 DEF vars, userVars, serverVars
  <2>2. (RespHasMessage' => RespHasMessage) /\ (Polling => Polling')
    BY <2>1 DEF RespHasMessage, Polling, PollUnderWay
  <2>3. QED
    BY <2>1, <2>2, RespKeepsCount
<1>5. QED
  BY <1>1, <1>2, <1>3, <1>4, Steps, BeginKeepsCount, ConsoleKeepsCount, PollerKeepsCount,
     DeliverKeepsCount, DropKeepsCount, ExpireKeepsCount, ReadKeepsCount, RespSendsKeepsCount

LEMMA CountHolds == Spec => []CountInv
<1>1. Init => CountInv
  <2> SUFFICES ASSUME Init PROVE CountInv
    OBVIOUS
  <2>1. /\ OutboxHolds = 0 /\ AnswersAsked = 0 /\ AnswersUnasked = 0
    <3>1. outbox = {} /\ \A M : Where(toClient, M) = {}
      BY DEF Init, Where
    <3>2. QED
      BY <3>1, FS_EmptySet DEF OutboxHolds, AnswersAsked, AnswersUnasked
  <2>2. UiHolds = 0 /\ RespHolds = 0 /\ PollerHolds = 0
    <3>1. ui.at = "input" /\ resp.at = "read" /\ poller = "idle"
      BY DEF Init, Input, Reading
    <3>2. QED
      BY <3>1 DEF UiHolds, RespHolds, PollerHolds, Weight, Prepares, Sends
  <2>3. Polls \in 0 .. 1 /\ commands = 0 /\ expiries = 0
    BY DEF Polls, Weight, Init
  <2>4. QED
    BY <2>1, <2>2, <2>3 DEF CountInv
<1>2. QED
  BY <1>1, TypesHold, CountIsKept, PTL DEF Spec

(* The type invariant: every callback under a type it knows, and no more   *)
(* messages and answers under way than commands, expiries and one poll     *)
(* account for.                                                            *)
THEOREM TypesAreCorrect == Spec => []TypeOK
<1>1. TypeInv /\ CountInv => TypeOK
  <2> SUFFICES ASSUME TypeInv, CountInv PROVE TypeOK
    OBVIOUS
  <2>1. /\ OutboxHolds \in Nat /\ AnswersAsked \in Nat /\ AnswersUnasked \in Nat
        /\ UiHolds \in 0 .. 1 /\ RespHolds \in 0 .. 1 /\ PollerHolds \in 0 .. 1 /\ Polls \in 0 .. 1
        /\ commands \in Nat /\ expiries \in Nat
    BY CountsAreNumbers DEF Numbers
  <2>2. /\ OutboxHolds + AnswersAsked + UiHolds + RespHolds + PollerHolds <= commands + Polls
        /\ AnswersUnasked <= expiries
    BY DEF CountInv
  <2>3. /\ commands <= MaxCommands /\ expiries <= MaxExpiries
        /\ MaxCommands \in Nat /\ MaxExpiries \in Nat
    BY BoundsAssumption DEF TypeInv, Shapes
  <2>4. OutboxHolds <= MaxCommands + 1
    BY <2>1, <2>2, <2>3
  <2>5. Len(toClient) <= MaxCommands + MaxExpiries + 1
    <3>1. /\ Len(toClient) \in Nat
          /\ Len(toClient) <= AnswersUnasked + AnswersAsked
      BY WhereAll, LenProperties DEF TypeInv, Shapes, AnswersAsked, AnswersUnasked
    <3>2. QED
      BY <2>1, <2>2, <2>3, <3>1
  <2>6. \A t \in Types : callbackMap[t] # NoEntry =>
            callbackMap[t].command \in 1 .. commands /\ t \in Handles[callbackMap[t].handler]
    BY DEF TypeInv, CallbacksKnowTheirTypes, Asked
  <2>7. QED
    BY <2>4, <2>5, <2>6 DEF TypeOK, TypeInv, Shapes, OutboxHolds
<1>2. QED
  BY <1>1, TypesHold, CountHolds, PTL
=============================================================================
