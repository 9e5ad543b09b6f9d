--------------------------- MODULE MessageClient ---------------------------
(***************************************************************************)
(* The message client of TelecomLab3: the console thread, the poller, one  *)
(* pool task per message it sends and the response thread, over the two    *)
(* callback maps and the user's login state.  The server is not in the     *)
(* repository; it is modelled by the answers the client tells apart.       *)
(*                                                                         *)
(* The methods of User are synchronized and each is a step.  The maps are  *)
(* plain hash maps, but the types 20 to 29 never share a bucket nor make a *)
(* map grow, so a call for one type does not disturb another and is a step *)
(* too.  A message keeps the number of the command it belongs to, for the  *)
(* properties only.                                                        *)
(***************************************************************************)
EXTENDS Integers, Sequences, FiniteSets

CONSTANTS
    Names,            \* user names; a user's password is the user's name
    NoName,           \* null, and the session of nobody
    Accounts,         \* the users the server knows at the start
    Kinds,            \* the commands the user types
    MaxCommands,      \* bound: how many of them
    MaxExpiries       \* bound: sessions the server lets expire

ASSUME NamesAssumption == NoName \notin Names /\ Accounts \subseteq Names
ASSUME BoundsAssumption == MaxCommands \in Nat /\ MaxExpiries \in Nat

VARIABLES
    username, password, isLoggedIn,     \* User
    callbackMap,        \* type -> the callback that is called once
    callbackMapPerm,    \* the types whose callback, the poller's, stays
    ui,                 \* the console thread: where it is, what it prepares to send
    poller,             \* the poller's thread
    resp,               \* the response thread: where it is, what it prepares to send
    outbox,             \* messages whose pool task has not run
    toClient,           \* answers on their way
    session, accounts,  \* the server: who is logged in, who has an account
    expiries,           \* sessions expired
    commands,           \* commands typed
    overlapped,         \* history: types whose callbacks got in each other's way
    hasty               \* history: a login or registration did not wait for an answer

userVars == <<username, password, isLoggedIn>>
serverVars == <<session, accounts, expiries>>
vars == <<userVars, callbackMap, callbackMapPerm, ui, poller, resp, outbox, toClient,
          serverVars, commands, overlapped, hasty>>

Types ==
    {"exit", "echo", "login", "logoff", "create_user", "delete_user", "create_store",
     "send_msg", "query_msg"}
Somebody == Names \cup {NoName}
NoEntry == [handler |-> "none", command |-> 0]
NoMessage == [type |-> "none", subtype |-> "none", command |-> 0]

Input == [at |-> "input", handler |-> "none", type |-> "none", name |-> NoName, pass |-> NoName]
Reading ==
    [at |-> "read", msg |-> NoMessage, entry |-> NoEntry, type |-> "none", name |-> NoName,
     pass |-> NoName]
-----------------------------------------------------------------------------
(* The steps of CommHandler.sendMessage: the callback is registered, then  *)
(* a pool task is made that sends the message.  A seeded fault: the other  *)
(* way round.                                                              *)
sendMessage_swapped == <<"create_task", "add_callback">>
sendMessage == <<"add_callback", "create_task">>

(* The response thread is between the lookup of a callback and its removal. *)
InUse(type) == resp.at # "read" /\ resp.msg.type = type /\ resp.entry # NoEntry

addCallbackMap(type, handler, command) ==
    /\ callbackMap' = [callbackMap EXCEPT ![type] = [handler |-> handler, command |-> command]]
    /\ overlapped' = IF callbackMap[type] # NoEntry \/ InUse(type) THEN overlapped \cup {type}
                     ELSE overlapped
createSendThread(type, name, pass, command) ==
    outbox' = outbox \cup {[type |-> type, name |-> name, pass |-> pass, command |-> command]}

(* What the user still waits for: it ends when the callback has printed.   *)
Outstanding ==
    \/ \E m \in outbox : m.command # 0
    \/ \E k \in DOMAIN toClient : toClient[k].command # 0
    \/ resp.at \notin {"read", "remove"}
-----------------------------------------------------------------------------
(* The console thread: a command is checked against the login state, then  *)
(* it is carried out.                                                      *)
Begin(at, handler, type, name) ==
    /\ ui = Input /\ commands < MaxCommands /\ handler \in Kinds
    /\ commands' = commands + 1
    /\ ui' = [at |-> at, handler |-> handler, type |-> type, name |-> name, pass |-> name]
    /\ hasty' = (hasty \/ (handler \in {"Login", "Register"} /\ Outstanding))
    /\ UNCHANGED <<userVars, callbackMap, callbackMapPerm, poller, resp, outbox, toClient,
                   serverVars, overlapped>>

Login(n) == ~isLoggedIn /\ Begin("set_name", "Login", "login", n)
Register(n) == ~isLoggedIn /\ Begin("set_name", "Register", "create_user", n)
Delete == isLoggedIn /\ Begin(sendMessage[1], "Delete", "delete_user", NoName)
Logoff == Begin(sendMessage[1], "Logoff", "logoff", NoName)
Send == isLoggedIn /\ Begin(sendMessage[1], "Send", "send_msg", NoName)
Exit == Begin(sendMessage[1], "Exit", "exit", NoName)

(* The argument of an echo stands in the place of a name; without one the  *)
(* message is empty.                                                       *)
Echo(text) == Begin(sendMessage[1], "Echo", "echo", text)

(* Without a comma the array of arguments has no second element: the       *)
(* exception ends the console thread.                                      *)
SendWithoutComma == isLoggedIn /\ Begin("ended", "Send", "none", NoName)

UiKeeps ==
    UNCHANGED <<callbackMapPerm, poller, resp, toClient, serverVars, commands, hasty>>
SetUsername ==
    /\ ui.at = "set_name"
    /\ username' = ui.name /\ ui' = [ui EXCEPT !.at = "set_password"]
    /\ UNCHANGED <<password, isLoggedIn, callbackMap, outbox, overlapped>> /\ UiKeeps
(* A seeded fault: a password is only stored where there was none.         *)
PasswordSetOnce(pass) == IF password = NoName THEN pass ELSE password
PasswordAfter(pass) == pass
SetPassword ==
    /\ ui.at = "set_password"
    /\ password' = PasswordAfter(ui.pass)
    /\ ui' = [ui EXCEPT !.at = IF ui.handler = "Login" THEN "set_login" ELSE "get_name"]
    /\ UNCHANGED <<username, isLoggedIn, callbackMap, outbox, overlapped>> /\ UiKeeps
SetLogin ==
    /\ ui.at = "set_login"
    /\ isLoggedIn' = FALSE /\ ui' = [ui EXCEPT !.at = "get_name"]
    /\ UNCHANGED <<username, password, callbackMap, outbox, overlapped>> /\ UiKeeps
GetUsername ==
    /\ ui.at = "get_name"
    /\ ui' = [ui EXCEPT !.at = "get_password", !.name = username]
    /\ UNCHANGED <<userVars, callbackMap, outbox, overlapped>> /\ UiKeeps
GetPassword ==
    /\ ui.at = "get_password"
    /\ ui' = [ui EXCEPT !.at = sendMessage[1], !.pass = password]
    /\ UNCHANGED <<userVars, callbackMap, outbox, overlapped>> /\ UiKeeps

(* After Exit has sent its message it sleeps, then ends the program. *)
UiSends ==
    /\ \/ /\ ui.at = "add_callback"
          /\ addCallbackMap(ui.type, ui.handler, commands) /\ UNCHANGED outbox
       \/ /\ ui.at = "create_task"
          /\ createSendThread(ui.type, ui.name, ui.pass, commands)
          /\ UNCHANGED <<callbackMap, overlapped>>
    /\ ui' = IF ui.at = sendMessage[1] THEN [ui EXCEPT !.at = sendMessage[2]]
             ELSE IF ui.handler = "Exit" THEN [ui EXCEPT !.at = "sleep"]
             ELSE Input
    /\ UNCHANGED userVars /\ UiKeeps
EndProgram ==
    /\ ui.at = "sleep" /\ ui' = [ui EXCEPT !.at = "exited"]
    /\ UNCHANGED <<userVars, callbackMap, outbox, overlapped>> /\ UiKeeps

ConsoleWorks ==
    SetUsername \/ SetPassword \/ SetLogin \/ GetUsername \/ GetPassword \/ UiSends \/ EndProgram
-----------------------------------------------------------------------------
(* The poller runs every two seconds; an answer takes less. *)
PollUnderWay ==
    \/ \E m \in outbox : m.type = "query_msg"
    \/ \E k \in DOMAIN toClient : toClient[k].type = "query_msg"
    \/ resp.msg.type = "query_msg"
Poll ==
    /\ poller = "idle" /\ isLoggedIn /\ ~PollUnderWay
    /\ poller' = "send"
    /\ UNCHANGED <<userVars, callbackMap, callbackMapPerm, ui, resp, outbox, toClient, serverVars,
                   commands, overlapped, hasty>>
QueryMessages ==
    /\ poller = "send"
    /\ callbackMapPerm' = callbackMapPerm \cup {"query_msg"}
    /\ createSendThread("query_msg", NoName, NoName, 0)
    /\ poller' = "idle"
    /\ UNCHANGED <<userVars, callbackMap, ui, resp, toClient, serverVars, commands, overlapped,
                   hasty>>
PollerWorks == Poll \/ QueryMessages
-----------------------------------------------------------------------------
(* The server, external: what it makes of a message.                       *)
Outcome(subtype, who, known) == [subtype |-> subtype, session |-> who, accounts |-> known]
IfLoggedIn(outcome) ==
    IF session = NoName THEN Outcome("not_log_in", NoName, accounts) ELSE outcome
Served(m) ==
    CASE m.type = "login" ->
            IF session # NoName THEN Outcome("already_log_in", session, accounts)
            ELSE IF m.name \in accounts /\ m.pass = m.name THEN Outcome("success", m.name, accounts)
            ELSE Outcome("bad_credential", NoName, accounts)
      [] m.type = "create_user" ->
            IF session # NoName THEN Outcome("logged_in", session, accounts)
            ELSE IF m.name \in accounts THEN Outcome("exists", NoName, accounts)
            ELSE Outcome("success", NoName, accounts \cup {m.name})
      [] m.type = "logoff" -> IfLoggedIn(Outcome("success", NoName, accounts))
      [] m.type = "delete_user" -> IfLoggedIn(Outcome("success", NoName, accounts \ {session}))
      [] m.type \in {"create_store", "send_msg"} ->
            IfLoggedIn(Outcome("success", session, accounts))
      [] m.type = "query_msg" -> IfLoggedIn(Outcome("no_msg", session, accounts))
      [] m.type = "echo" -> Outcome("success", session, accounts)
      [] m.type = "exit" -> Outcome("success", NoName, accounts)

(* "The server never responds if we send an empty string."                 *)
Empty(m) == m.type = "echo" /\ m.name = NoName

(* A pool task runs: its message is the next one the server gets.          *)
Deliver(m) ==
    /\ outbox' = outbox \ {m}
    /\ \/ Empty(m) /\ UNCHANGED <<session, accounts, toClient>>
       \/ /\ ~Empty(m)
          /\ session' = Served(m).session /\ accounts' = Served(m).accounts
          /\ toClient' = Append(toClient, [type |-> m.type, subtype |-> Served(m).subtype,
                                           command |-> m.command])
    /\ UNCHANGED <<userVars, callbackMap, callbackMapPerm, ui, poller, resp, expiries, commands,
                   overlapped, hasty>>
SendTask(k) == \E m \in outbox : m.command = k /\ Deliver(m)

(* The session expires: a message nobody asked for, of the type of an      *)
(* answer to a logoff.                                                     *)
Expire ==
    /\ session # NoName /\ expiries < MaxExpiries
    /\ session' = NoName /\ expiries' = expiries + 1
    /\ toClient' =
          Append(toClient, [type |-> "logoff", subtype |-> "session_expired", command |-> 0])
    /\ overlapped' = overlapped \cup {"logoff"}
    /\ UNCHANGED <<userVars, callbackMap, callbackMapPerm, ui, poller, resp, outbox, accounts,
                   commands, hasty>>
-----------------------------------------------------------------------------
(* The response thread. *)
RespKeeps ==
    UNCHANGED <<callbackMapPerm, ui, poller, serverVars, commands, hasty>>

Read ==
    LET msg == Head(toClient)
        entry == IF callbackMap[msg.type] # NoEntry THEN callbackMap[msg.type]
                 ELSE IF msg.type \in callbackMapPerm THEN [handler |-> "Poller", command |-> 0]
                 ELSE NoEntry
    IN  /\ resp.at = "read" /\ toClient # << >>
        /\ toClient' = Tail(toClient)
        /\ resp' = IF entry = NoEntry THEN Reading
                   ELSE [Reading EXCEPT !.at = "handle", !.msg = msg, !.entry = entry]
        /\ UNCHANGED <<userVars, callbackMap, outbox, overlapped>> /\ RespKeeps

(* What the callbacks do to the login flag.  Seeded faults: a registration *)
(* that ends in a login does not set it; the poller does not clear it.     *)
SetsByLogin(handler, msg) ==
    handler = "Login" /\ msg.subtype \in {"success", "already_log_in"}
SetsLogin(handler, msg) ==
    \/ handler = "Login" /\ msg.subtype \in {"success", "already_log_in"}
    \/ handler = "Register" /\ msg.type = "login" /\ msg.subtype = "success"
ClearsUnlessPolled(handler, msg) ==
    handler = "Logoff" \/ (handler = "Delete" /\ msg.subtype \in {"success", "not_log_in"})
ClearsLogin(handler, msg) ==
    \/ handler = "Logoff"
    \/ handler = "Delete" /\ msg.subtype \in {"success", "not_log_in"}
    \/ handler = "Poller" /\ msg.subtype = "not_log_in"

(* A callback goes on with a message of its own.  A seeded fault: the      *)
(* wrong type.                                                             *)
PrepareAnother(type) == [resp EXCEPT !.at = sendMessage[1], !.type = "delete_user"]
Prepare(type) == [resp EXCEPT !.at = sendMessage[1], !.type = type]
HandledBy(handler, msg) ==
    CASE handler = "Delete" /\ msg.subtype = "success" -> [resp EXCEPT !.at = "clear_name"]
      [] handler = "Register" /\ msg.type = "create_user" /\ msg.subtype = "success" ->
            [resp EXCEPT !.at = "get_name", !.type = "login"]
      [] handler = "Register" /\ msg.type = "create_user" /\ msg.subtype = "logged_in" ->
            Prepare("create_store")
      [] handler = "Register" /\ msg.type = "login" /\ msg.subtype = "success" ->
            Prepare("create_store")
      [] handler = "Exit" -> [Reading EXCEPT !.at = "ended"]   \* a call through null
      [] handler = "Poller" -> Reading
      [] OTHER -> [resp EXCEPT !.at = "remove"]
handleResponse ==
    /\ resp.at = "handle"
    /\ isLoggedIn' = (\/ SetsLogin(resp.entry.handler, resp.msg)
                      \/ isLoggedIn /\ ~ClearsLogin(resp.entry.handler, resp.msg))
    /\ resp' = HandledBy(resp.entry.handler, resp.msg)
    /\ UNCHANGED <<username, password, callbackMap, outbox, toClient, overlapped>> /\ RespKeeps

ClearUsername ==
    /\ resp.at = "clear_name"
    /\ username' = NoName /\ resp' = [resp EXCEPT !.at = "clear_password"]
    /\ UNCHANGED <<password, isLoggedIn, callbackMap, outbox, toClient, overlapped>> /\ RespKeeps
ClearPassword ==
    /\ resp.at = "clear_password"
    /\ password' = NoName /\ resp' = [resp EXCEPT !.at = "remove"]
    /\ UNCHANGED <<username, isLoggedIn, callbackMap, outbox, toClient, overlapped>> /\ RespKeeps
RespGetsUsername ==
    /\ resp.at = "get_name"
    /\ resp' = [resp EXCEPT !.at = "get_password", !.name = username]
    /\ UNCHANGED <<userVars, callbackMap, outbox, toClient, overlapped>> /\ RespKeeps
RespGetsPassword ==
    /\ resp.at = "get_password"
    /\ resp' = [resp EXCEPT !.at = sendMessage[1], !.pass = password]
    /\ UNCHANGED <<userVars, callbackMap, outbox, toClient, overlapped>> /\ RespKeeps
RespSends ==
    /\ \/ /\ resp.at = "add_callback"
          /\ addCallbackMap(resp.type, "Register", resp.entry.command) /\ UNCHANGED outbox
       \/ /\ resp.at = "create_task"
          /\ createSendThread(resp.type, resp.name, resp.pass, resp.entry.command)
          /\ UNCHANGED <<callbackMap, overlapped>>
    /\ resp' = [resp EXCEPT !.at = IF resp.at = sendMessage[1] THEN sendMessage[2] ELSE "remove"]
    /\ UNCHANGED <<userVars, toClient>> /\ RespKeeps

(* The entry of the type goes, whichever callback is in it now.  A seeded  *)
(* fault: only after a success.                                            *)
RemovedOnSuccess(msg) ==
    IF msg.subtype = "success" THEN [callbackMap EXCEPT ![msg.type] = NoEntry] ELSE callbackMap
Removed(msg) == [callbackMap EXCEPT ![msg.type] = NoEntry]
RemoveCallback ==
    /\ resp.at = "remove"
    /\ callbackMap' = Removed(resp.msg)
    /\ resp' = Reading
    /\ UNCHANGED <<userVars, outbox, toClient, overlapped>> /\ RespKeeps

ResponseWorks ==
    \/ Read \/ handleResponse \/ ClearUsername \/ ClearPassword \/ RespGetsUsername
    \/ RespGetsPassword \/ RespSends \/ RemoveCallback
-----------------------------------------------------------------------------
Init ==
    /\ username = NoName /\ password = NoName /\ isLoggedIn = FALSE
    /\ callbackMap = [t \in Types |-> NoEntry] /\ callbackMapPerm = {}
    /\ ui = Input /\ poller = "idle" /\ resp = Reading
    /\ outbox = {} /\ toClient = << >>
    /\ session = NoName /\ accounts = Accounts /\ expiries = 0
    /\ commands = 0 /\ overlapped = {} /\ hasty = FALSE

Commands ==
    \/ \E n \in Names : Login(n) \/ Register(n)
    \/ Delete \/ Logoff \/ Send \/ SendWithoutComma \/ Exit
    \/ \E text \in Somebody : Echo(text)

Next ==
    /\ ui.at # "exited"
    /\ \/ Commands \/ ConsoleWorks \/ PollerWorks \/ ResponseWorks \/ Expire
       \/ \E k \in 0 .. MaxCommands : SendTask(k)

Spec == Init /\ [][Next]_vars

Running(A) == ui.at # "exited" /\ A
(* The threads run on, each pool task runs and the server answers what is  *)
(* not empty; nobody has to type a command.                                *)
FairSpec ==
    /\ Spec
    /\ WF_vars(Running(ConsoleWorks)) /\ WF_vars(Running(PollerWorks))
    /\ WF_vars(Running(ResponseWorks))
    /\ \A k \in 0 .. MaxCommands : WF_vars(Running(SendTask(k)))
-----------------------------------------------------------------------------
(* The types of the messages each command's callback is registered for.    *)
Handles ==
    [Login |-> {"login"}, Register |-> {"create_user", "login", "create_store"},
     Delete |-> {"delete_user"}, Logoff |-> {"logoff"}, Send |-> {"send_msg"}, Echo |-> {"echo"},
     Exit |-> {"exit"}]

(* The type invariant.  Every callback sits under a type it knows, and the *)
(* handlers "Message always of type ..." rely on it.                       *)
TypeOK ==
    /\ username \in Somebody /\ password \in Somebody /\ isLoggedIn \in BOOLEAN
    /\ \A t \in Types : callbackMap[t] # NoEntry =>
          callbackMap[t].command \in 1 .. commands /\ t \in Handles[callbackMap[t].handler]
    /\ callbackMapPerm \subseteq {"query_msg"}
    /\ Cardinality(outbox) <= MaxCommands + 1 /\ Len(toClient) <= MaxCommands + MaxExpiries + 1
    /\ session \in Somebody /\ accounts \subseteq Somebody /\ overlapped \subseteq Types

(* No thread has begun anything and no message is under way. *)
Quiet ==
    ui = Input /\ poller = "idle" /\ resp = Reading /\ outbox = {} /\ toClient = << >>

(* When all threads are quiet and the user waited for an answer before     *)
(* each login and registration, the server's session, if there still is    *)
(* one, is that of the user the client stores, and the client knows that   *)
(* somebody is logged in: sequences of commands, polls and expiries leave  *)
(* nobody logged in that the client could not log off or delete by name.   *)
SessionIsTheUsers ==
    Quiet /\ ~hasty /\ "login" \notin overlapped /\ session # NoName =>
        isLoggedIn /\ session = username

(* A message with credentials carries the name and the password of one     *)
(* user, though they are stored and read one by one, by two threads, and   *)
(* cleared by one of them: provided the user waits for answers before a    *)
(* login or a registration.                                                *)
CredentialsBelongTogether ==
    ~hasty => \A m \in outbox : m.type \in {"login", "create_user"} => m.name = m.pass

(* An answer finds the callback of the command it answers, whatever pool   *)
(* tasks overtake each other, unless callbacks of its type got in each     *)
(* other's way: two registrations of the type at once (an empty echo's     *)
(* stays), or a session that expires when a logoff is under way.           *)
AnswersFindTheirCommand ==
    [][toClient # << >> /\ toClient' = Tail(toClient) =>
          LET msg == Head(toClient)
          IN  msg.command # 0 /\ msg.type \notin overlapped
                  => callbackMap[msg.type].command = msg.command]_vars

(* The answer to an echo with a text is still to come, or in the hands of  *)
(* a callback.                                                             *)
EchoIsDue ==
    \/ ui.type = "echo" /\ ~Empty(ui)
    \/ resp.msg.type = "echo"
    \/ \E m \in outbox : m.type = "echo" /\ ~Empty(m)
    \/ \E k \in DOMAIN toClient : toClient[k].type = "echo"

(* No callback waits for ever but that of an empty echo, which waits for   *)
(* the next echo with a text: with the threads, the pool and the server    *)
(* going on it is taken out again, however messages, answers and           *)
(* registrations of its type overtake each other, unless the program ends  *)
(* first.                                                                  *)
CallbacksAreUsedUp ==
    \A t \in Types :
        callbackMap[t] # NoEntry /\ (t = "echo" => EchoIsDue)
            ~> callbackMap[t] = NoEntry \/ ui.at = "exited"

(* A session that ended without the client's doing is noticed: the login   *)
(* flag is cleared (by the poller at the latest), or somebody logs in.     *)
ExpiryIsNoticed ==
    isLoggedIn /\ session = NoName ~>
        ~isLoggedIn \/ session # NoName \/ ui.at \in {"sleep", "exited"}

(* What the comment at CommHandler.java:66 promises, "Callback will be     *)
(* called once": a callback leaves the map only after it was called.       *)
RegisteredIsCalled ==
    [][\A t \in Types :
          callbackMap[t] # NoEntry /\ callbackMap'[t] = NoEntry => resp.entry = callbackMap[t]]_vars
=============================================================================
