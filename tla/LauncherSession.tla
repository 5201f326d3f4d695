--------------------------- MODULE LauncherSession --------------------------
(***************************************************************************)
(* The session of a launcher: the commands of src-tauri/src/lib.rs, the    *)
(* calls of core/src/auth.rs and the first step of core/src/play.rs, the   *)
(* credential store, the file .last-nick and the window of ui/main.js,     *)
(* with the account service behind a network that may lose an answer.      *)
(*                                                                         *)
(* Every click starts a command that runs on its own; slot[s] is one such  *)
(* command.  It stops at its awaits, and the two writes of store_refresh   *)
(* and clear_refresh and the message back to the window are steps of their *)
(* own, since another command may run between them and the user may close  *)
(* the launcher there.  A request outlives the command that sent it.       *)
(*                                                                         *)
(* The service keeps what AuthService shows it to keep: a refresh token is *)
(* accepted once, then rotated, by two updates of which the second may not *)
(* happen.  A token is named by its account, by the login it descends from *)
(* (chain) and by a number.  Nicks that differ in case are one account,    *)
(* and two keys of the credential store.                                   *)
(***************************************************************************)
EXTENDS Integers, FiniteSets

CONSTANTS
    Account,     \* lower-cased nicks
    Casing,      \* ways to type one
    Slot,        \* commands that run at the same time
    NoNick,      \* the window shows the form; there is no .last-nick
    NoToken,     \* the credential store has no entry
    MaxTokens,   \* bound: refresh tokens issued
    MaxFaults    \* bound: lost answers, failing writes, expiries, restarts

VARIABLES
    regNick,     \* users.nick of an account, NoNick: not registered
    live,        \* refresh tokens the service accepts
    issued,      \* refresh tokens issued so far
    wire,        \* requests sent and not yet answered
    cred,        \* the credential store: a refresh token per nick
    lastNick,    \* the file .last-nick
    shown,       \* currentNick: whose session the window shows
    slot,        \* running commands
    faults,      \* faults and restarts of the launcher so far
    loggedOut,   \* history: chains whose logout has finished
    disturbed,   \* history: a fault hit a session, see Disturb
    together     \* history: which commands ran at the same time, see Start

service == <<regNick, live, issued>>
stores  == <<cred, lastNick>>
history == <<loggedOut, faults, disturbed, together>>
vars    == <<service, wire, stores, shown, slot, history>>

Nick  == [account : Account, casing : Casing]
Token == [account : Account, chain : 1..MaxTokens, id : 1..MaxTokens]

Command == {"login", "register", "restore", "play", "logout"}

(* What a command asks of the service.                                     *)
Route == {"login", "register", "refresh", "logout"}

Idle == [op |-> "none", pc |-> "idle", nick |-> NoNick, token |-> NoToken]

Busy == {s \in Slot : slot[s] # Idle}

Request == [from : Slot \cup {"nobody"}, route : Route, nick : Nick,
            token : Token \cup {NoToken},
            stage : {"sent", "revoked", "ok", "refused", "failed"}]

Process == [op : Command \cup {"none"},
            pc : {"idle", "wait", "store", "file", "show", "clear", "forget"},
            nick : Nick \cup {NoNick}, token : Token \cup {NoToken}]

ASSUME SessionAssumption ==
    /\ MaxTokens \in Nat /\ MaxFaults \in Nat
    /\ NoNick \notin Nick /\ NoToken \notin Token /\ "nobody" \notin Slot

-----------------------------------------------------------------------------
Init ==
    /\ regNick = [a \in Account |-> NoNick]
    /\ live = {} /\ issued = 0 /\ wire = {}
    /\ cred = [n \in Nick |-> NoToken]
    /\ lastNick = NoNick /\ shown = NoNick
    /\ slot = [s \in Slot |-> Idle]
    /\ loggedOut = {} /\ faults = 0 /\ disturbed = FALSE /\ together = {}

Ask(s, route, nick, token) ==
    [from |-> s, route |-> route, nick |-> nick, token |-> token,
     stage |-> "sent"]

(* History: a logout and another command ran at the same time, or two other*)
(* commands did.                                                           *)
Overlap(op) ==
    {IF "logout" \in {op, slot[b].op} THEN "logout" ELSE "other" : b \in Busy}

(* History: a log in that starts while nothing else goes on writes all that*)
(* its session depends on, so what was before does not count any more.     *)
FreshStart(op) == op \in {"login", "register"} /\ Busy = {} /\ wire = {}

(* A click starts a command in an idle slot.                               *)
Start(s, op, pc, nick, token) ==
    /\ slot[s] = Idle
    /\ slot' = [slot EXCEPT ![s] = [op |-> op, pc |-> pc, nick |-> nick,
                                    token |-> token]]
    /\ IF FreshStart(op) /\ (disturbed \/ together # {})
       THEN disturbed' = FALSE /\ together' = {} /\ loggedOut' = {}
       ELSE /\ together' = together \cup Overlap(op)
            /\ UNCHANGED <<disturbed, loggedOut>>
    /\ UNCHANGED <<service, stores, shown, faults>>

FormBusy == \E s \in Slot : slot[s].op \in {"login", "register"}
PlayBusy == \E s \in Slot : slot[s].op = "play"

(* The form: log in, or register and then log in.                          *)
SubmitForm(s, op, n) ==
    /\ shown = NoNick /\ ~FormBusy
    /\ Start(s, op, "wait", n, NoToken)
    /\ wire' = wire \cup {Ask(s, op, n, NoToken)}

(* play, up to its first await: the button is enabled only between plays.  *)
ClickPlay(s) ==
    /\ shown # NoNick /\ ~PlayBusy
    /\ cred[shown] # NoToken
    /\ Start(s, "play", "wait", shown, cred[shown])
    /\ wire' = wire \cup {Ask(s, "refresh", shown, cred[shown])}

(* NoStoredSession: the form is opened again.                              *)
ClickPlayUnstored ==
    /\ shown # NoNick /\ ~PlayBusy
    /\ cred[shown] = NoToken
    /\ shown' = NoNick
    /\ UNCHANGED <<service, wire, stores, slot, history>>

(* Mutated form: log out only forgets the session here.                    *)
ClickLogoutLocally(s) ==
    /\ shown # NoNick
    /\ Start(s, "logout", "clear", shown, cred[shown])
    /\ wire' = wire

(* logout: the link is never disabled.                                     *)
ClickLogout(s) ==
    /\ shown # NoNick
    /\ IF cred[shown] = NoToken
       THEN /\ Start(s, "logout", "clear", shown, NoToken)
            /\ wire' = wire
       ELSE /\ Start(s, "logout", "wait", shown, cred[shown])
            /\ wire' = wire \cup {Ask(s, "logout", shown, cred[shown])}

-----------------------------------------------------------------------------
(* The account service and the network.  A request nobody waits for is     *)
(* forgotten once it is settled.                                           *)
Settle(r, stage, token) ==
    wire' = (wire \ {r}) \cup
            (IF r.from = "nobody" THEN {}
             ELSE {[r EXCEPT !.stage = stage, !.token = token]})

NewToken(account, chain) ==
    [account |-> account, chain |-> chain, id |-> issued + 1]

ServeRegister(r) ==
    /\ r.route = "register" /\ r.stage = "sent"
    /\ regNick[r.nick.account] = NoNick
    /\ regNick' = [regNick EXCEPT ![r.nick.account] = r.nick]
    /\ Settle(r, "ok", NoToken)
    /\ UNCHANGED <<live, issued, stores, shown, slot, history>>

ServeLogin(r) ==
    LET token == NewToken(r.nick.account, issued + 1)
    IN  /\ r.route = "login" /\ r.stage = "sent"
        /\ regNick[r.nick.account] # NoNick
        /\ issued < MaxTokens
        /\ live' = live \cup {token}
        /\ issued' = issued + 1
        /\ Settle(r, "ok", token)
        /\ UNCHANGED <<regNick, stores, shown, slot, history>>

(* /refresh: the presented token is revoked, later another one is inserted.*)
Revoke(r) ==
    /\ r.route = "refresh" /\ r.stage = "sent"
    /\ r.token \in live
    /\ live' = live \ {r.token}
    /\ wire' = (wire \ {r}) \cup {[r EXCEPT !.stage = "revoked"]}
    /\ UNCHANGED <<regNick, issued, stores, shown, slot, history>>

Rotate(r) ==
    LET token == NewToken(r.token.account, r.token.chain)
    IN  /\ r.stage = "revoked"
        /\ issued < MaxTokens
        /\ live' = live \cup {token}
        /\ issued' = issued + 1
        /\ Settle(r, "ok", token)
        /\ UNCHANGED <<regNick, stores, shown, slot, history>>

ServeLogout(r) ==
    /\ r.route = "logout" /\ r.stage = "sent"
    /\ r.token \in live
    /\ live' = live \ {r.token}
    /\ Settle(r, "ok", NoToken)
    /\ UNCHANGED <<regNick, issued, stores, shown, slot, history>>

(* 401, 409, 400: a dead token, a wrong password, a taken or invalid nick. *)
Refuse(r) ==
    /\ r.stage = "sent"
    /\ r.route \in {"refresh", "logout"} => r.token \notin live
    /\ Settle(r, "refused", r.token)
    /\ UNCHANGED <<service, stores, shown, slot, history>>

(* A fault that may cost a session: history.                               *)
Disturb ==
    /\ faults < MaxFaults
    /\ faults' = faults + 1
    /\ disturbed' = TRUE
    /\ UNCHANGED <<loggedOut, together>>

(* 429, 500, a connection that breaks before or after the update.          *)
Fail(r) ==
    /\ r.stage \in {"sent", "revoked"}
    /\ Settle(r, "failed", r.token)
    /\ Disturb
    /\ UNCHANGED <<service, stores, shown, slot>>

(* A session ends at the service: 30 days, or the operator's reset.        *)
Expire(token) ==
    /\ token \in live
    /\ live' = live \ {token}
    /\ Disturb
    /\ UNCHANGED <<regNick, issued, wire, stores, shown, slot>>

-----------------------------------------------------------------------------
(* The commands, from their first answer on.                               *)
Goto(s, pc, token) ==
    slot' = [slot EXCEPT ![s] = [@ EXCEPT !.pc = pc, !.token = token]]

Finish(s) == slot' = [slot EXCEPT ![s] = Idle]

(* Mutated form: register() returns and the log in is never sent.          *)
RegisteredOnly(s, r) ==
    /\ r.from = s /\ r.route = "register" /\ r.stage = "ok"
    /\ wire' = wire \ {r}
    /\ UNCHANGED <<service, stores, shown, slot, history>>

(* register(), then login() with the same fields.                          *)
Registered(s, r) ==
    /\ r.from = s /\ r.route = "register" /\ r.stage = "ok"
    /\ wire' = (wire \ {r}) \cup {Ask(s, "login", r.nick, NoToken)}
    /\ UNCHANGED <<service, stores, shown, slot, history>>

(* A session and its refresh token have arrived.                           *)
Granted(s, r) ==
    /\ r.from = s /\ r.route \in {"login", "refresh"} /\ r.stage = "ok"
    /\ wire' = wire \ {r}
    /\ Goto(s, "store", r.token)
    /\ UNCHANGED <<service, stores, shown, history>>

(* How login, register, restore and play end without a token.  restore     *)
(* goes to the form, and so does play if its token is dead; then only an   *)
(* error is shown.                                                         *)
Denied(s, dead) ==
    /\ Finish(s)
    /\ shown' = IF slot[s].op = "restore" \/ (slot[s].op = "play" /\ dead)
                THEN NoNick ELSE shown

(* logout goes on whatever it was told.                                    *)
Answered(s, r) ==
    /\ r.from = s
    /\ wire' = wire \ {r}
    /\ \/ /\ slot[s].op = "logout" /\ r.stage \in {"ok", "refused", "failed"}
          /\ Goto(s, "clear", slot[s].token)
          /\ UNCHANGED shown
       \/ /\ slot[s].op # "logout" /\ r.stage \in {"refused", "failed"}
          /\ Denied(s, r.stage = "refused")
    /\ UNCHANGED <<service, stores, history>>

(* The read timeout, or a connection that breaks: the command goes on      *)
(* without its answer, the request may still be served.                    *)
GiveUp(s, r) ==
    /\ r.from = s
    /\ wire' = (wire \ {r}) \cup (IF r.stage \in {"sent", "revoked"}
                                  THEN {[r EXCEPT !.from = "nobody"]} ELSE {})
    /\ \/ /\ slot[s].op = "logout"
          /\ Goto(s, "clear", slot[s].token)
          /\ UNCHANGED shown
       \/ slot[s].op # "logout" /\ Denied(s, FALSE)
    /\ Disturb
    /\ UNCHANGED <<service, stores>>

(* Mutated form: the rotated token is not stored.                          *)
StoreCredOnce(s) ==
    /\ slot[s].pc = "store"
    /\ cred' = IF cred[slot[s].nick] = NoToken
               THEN [cred EXCEPT ![slot[s].nick] = slot[s].token] ELSE cred
    /\ Goto(s, "file", slot[s].token)
    /\ UNCHANGED <<service, wire, lastNick, shown, history>>

(* store_refresh: the credential store, or the command fails ...           *)
StoreCred(s) ==
    /\ slot[s].pc = "store"
    /\ cred' = [cred EXCEPT ![slot[s].nick] = slot[s].token]
    /\ Goto(s, "file", slot[s].token)
    /\ UNCHANGED <<service, wire, lastNick, shown, history>>

StoreFails(s) ==
    /\ slot[s].pc = "store"
    /\ Denied(s, FALSE)
    /\ Disturb
    /\ UNCHANGED <<service, wire, stores>>

(* Mutated form: .last-nick is only written when there is none.            *)
StoreFileOnce(s) ==
    /\ slot[s].pc = "file"
    /\ lastNick' = IF lastNick = NoNick THEN slot[s].nick ELSE lastNick
    /\ Goto(s, "show", slot[s].token)
    /\ UNCHANGED <<service, wire, cred, shown, history>>

(* ... and .last-nick, whose failure is ignored.                           *)
StoreFile(s) ==
    /\ slot[s].pc = "file"
    /\ \/ lastNick' = slot[s].nick /\ UNCHANGED history
       \/ lastNick' = lastNick /\ Disturb
    /\ Goto(s, "show", slot[s].token)
    /\ UNCHANGED <<service, wire, cred, shown>>

(* The window learns of it; play goes on to the game, or fails on the way. *)
Show(s) ==
    /\ slot[s].pc = "show"
    /\ Finish(s)
    /\ shown' = IF slot[s].op = "play" THEN shown ELSE slot[s].nick
    /\ UNCHANGED <<service, wire, stores, history>>

(* clear_refresh: both removals ignore errors.                             *)
ClearCred(s) ==
    /\ slot[s].pc = "clear"
    /\ \/ cred' = [cred EXCEPT ![slot[s].nick] = NoToken] /\ UNCHANGED history
       \/ cred' = cred /\ Disturb
    /\ Goto(s, "forget", slot[s].token)
    /\ UNCHANGED <<service, wire, lastNick, shown>>

ClearFile(s) ==
    /\ slot[s].pc = "forget"
    /\ \/ lastNick' = NoNick /\ UNCHANGED <<faults, disturbed>>
       \/ /\ faults < MaxFaults
          /\ lastNick' = lastNick /\ faults' = faults + 1 /\ disturbed' = TRUE
    /\ Finish(s)
    /\ shown' = NoNick
    /\ loggedOut' = IF slot[s].token = NoToken THEN loggedOut
                    ELSE loggedOut \cup {slot[s].token.chain}
    /\ UNCHANGED <<service, wire, cred, together>>

(* The launcher is closed, whatever runs, and opened again: restore_session*)
(* loads what the stores have.                                             *)
Reopen(s) ==
    LET stored == lastNick # NoNick /\ cred[lastNick] # NoToken
    IN  /\ faults < MaxFaults
        /\ faults' = faults + 1
        /\ shown' = NoNick
        /\ slot' = [b \in Slot |->
               IF stored /\ b = s
               THEN [op |-> "restore", pc |-> "wait", nick |-> lastNick,
                     token |-> cred[lastNick]]
               ELSE Idle]
        /\ wire' = {[r EXCEPT !.from = "nobody"] :
                        r \in {q \in wire : q.stage \in {"sent", "revoked"}}}
                   \cup (IF stored
                         THEN {Ask(s, "refresh", lastNick, cred[lastNick])}
                         ELSE {})
        /\ disturbed' = (disturbed \/ Busy # {})
        /\ UNCHANGED <<service, stores, loggedOut, together>>

-----------------------------------------------------------------------------
Click(s) ==
    \/ \E op \in {"login", "register"}, n \in Nick : SubmitForm(s, op, n)
    \/ ClickPlay(s) \/ ClickLogout(s)

Serve(r) ==
    \/ ServeRegister(r) \/ ServeLogin(r) \/ Revoke(r) \/ Rotate(r)
    \/ ServeLogout(r) \/ Refuse(r) \/ Fail(r)

Receive(s) ==
    \E r \in wire : Registered(s, r) \/ Granted(s, r) \/ Answered(s, r)

Store(s) ==
    \/ StoreCred(s) \/ StoreFails(s) \/ StoreFile(s) \/ Show(s)
    \/ ClearCred(s) \/ ClearFile(s)

Next ==
    \/ \E s \in Slot : Click(s) \/ Receive(s) \/ Store(s) \/ Reopen(s)
    \/ \E s \in Slot, r \in wire : GiveUp(s, r)
    \/ \E r \in wire : Serve(r)
    \/ \E token \in live : Expire(token)
    \/ ClickPlayUnstored

Spec == Init /\ [][Next]_vars

-----------------------------------------------------------------------------
TypeOK ==
    /\ regNick \in [Account -> Nick \cup {NoNick}]
    /\ live \subseteq Token /\ issued \in 0..MaxTokens
    /\ wire \subseteq Request
    /\ cred \in [Nick -> Token \cup {NoToken}]
    /\ lastNick \in Nick \cup {NoNick} /\ shown \in Nick \cup {NoNick}
    /\ slot \in [Slot -> Process]
    /\ \A s \in Slot : slot[s].pc = "wait" <=> \E r \in wire : r.from = s
    /\ faults \in 0..MaxFaults /\ loggedOut \subseteq 1..MaxTokens
    /\ disturbed \in BOOLEAN /\ together \subseteq {"logout", "other"}

Quiet == Busy = {} /\ wire = {}

(* play.rs: "an expired/revoked refresh token tells the frontend to reopen *)
(* the auth form" -- and nothing else does: the session the window shows   *)
(* has a live token in the credential store, unless a fault hit it or a    *)
(* logout ran together with another command.                               *)
SessionKept ==
    Quiet /\ shown # NoNick /\ ~disturbed /\ "logout" \notin together =>
        cred[shown] \in live

(* The session the window shows is the one a restart restores, unless two  *)
(* commands wrote .last-nick at the same time.                             *)
RestartRestores ==
    Quiet /\ shown # NoNick /\ ~disturbed /\ together = {} =>
        lastNick = shown

(* auth.rs: "This is what makes 'Log out' actually end the session         *)
(* everywhere": no token of the login is left, here or at the service, if  *)
(* nothing else ran.  Without that condition it is violated: a Play whose  *)
(* refresh the service has served brings a token the log out never saw.    *)
LogoutEndsAlone ==
    Quiet /\ ~disturbed /\ "logout" \notin together =>
        \A c \in loggedOut :
            /\ \A token \in live : token.chain # c
            /\ \A n \in Nick : cred[n] # NoToken => cred[n].chain # c

(* "Exact registration casing, never player-retyped input": the game is    *)
(* started with the nick as it was registered.                             *)
LaunchedAsRegistered ==
    \A s \in Slot : slot[s].op = "play" /\ slot[s].pc = "show" =>
        slot[s].nick = regNick[slot[s].nick.account]

-----------------------------------------------------------------------------
(* The inductive invariant behind the theorems of LauncherSessionTheorems. *)

(* A command at each of its steps, and the request it waits for.           *)
CommandInv ==
    /\ \A s \in Slot :
          /\ slot[s].op = "none" \/ slot[s].pc = "idle" => slot[s] = Idle
          /\ slot[s] # Idle => slot[s].nick \in Nick
          /\ slot[s].pc = "store" => slot[s].token # NoToken
          /\ slot[s].pc \in {"store", "file", "show"} => slot[s].op # "logout"
          /\ slot[s].pc \in {"clear", "forget"} => slot[s].op = "logout"
    /\ \A r \in wire : r.from # "nobody" =>
          /\ r.nick = slot[r.from].nick
          /\ r.route = "logout" <=> slot[r.from].op = "logout"
          /\ \A q \in wire : q.from = r.from => q = r
    /\ \A r \in wire :
          /\ r.stage = "revoked" => r.route = "refresh"
          /\ r.route \in {"refresh", "logout"} /\ r.stage \in {"sent", "revoked"}
                => r.token # NoToken
          /\ r.route \in {"login", "refresh"} /\ r.stage = "ok" => r.token # NoToken

(* Who has a token, and for which nick.                                    *)
Holds(n, t) ==
    \/ cred[n] = t
    \/ \E r \in wire : r.nick = n /\ r.token = t
    \/ \E s \in Slot : slot[s].nick = n /\ slot[s].token = t

(* All tokens of a chain are for one nick, and one of them at most is, or  *)
(* is about to become, acceptable.                                         *)
ChainInv ==
    /\ \A t \in Token : t \in live \/ (\E n \in Nick : Holds(n, t)) =>
          t.id <= issued /\ t.chain <= issued
    /\ loggedOut \subseteq 1..issued
    /\ \A m, n \in Nick, t, u \in Token :
          Holds(m, t) /\ Holds(n, u) /\ t.chain = u.chain => m = n
    /\ \A t, u \in live : t.chain = u.chain => t = u
    /\ \A r \in wire : r.stage = "revoked" =>
          /\ \A t \in live : t.chain # r.token.chain
          /\ \A q \in wire : q.stage = "revoked" /\ q.token.chain = r.token.chain
                => q = r

(* A token on its way into the credential store is nowhere else.           *)
Arriving(r)   == r.stage = "ok" /\ r.route \in {"login", "refresh"}
Unpresented(t) == /\ \A n \in Nick : cred[n] # t
                  /\ \A r \in wire : r.stage = "sent" => r.token # t
ArrivalInv ==
    /\ \A r \in wire : Arriving(r) =>
          /\ Unpresented(r.token)
          /\ \A q \in wire : Arriving(q) /\ q.token = r.token => q = r
          /\ \A s \in Slot : slot[s].pc = "store" => slot[s].token # r.token
    /\ \A s \in Slot : slot[s].pc = "store" =>
          /\ Unpresented(slot[s].token)
          /\ \A b \in Slot : slot[b].pc = "store" /\ slot[b].token = slot[s].token
                => b = s

(* Nothing has hit a session, and a log out had the launcher for itself.   *)
Calm == ~disturbed /\ "logout" \notin together

LogoutRuns == \E s \in Slot : slot[s].op = "logout"

(* The nick has a live token in the store, or one is on its way there.     *)
Backed(n) ==
    \/ cred[n] \in live
    \/ \E r \in wire : r.nick = n /\ (r.stage = "revoked" \/ Arriving(r))
    \/ \E s \in Slot : slot[s].pc = "store" /\ slot[s].nick = n

CalmInv ==
    Calm =>
        /\ \A r \in wire : r.from # "nobody" /\ (Arriving(r) => r.token \in live)
        /\ \A s \in Slot :
              /\ slot[s].op = "logout" => \A b \in Slot \ {s} : slot[b] = Idle
              /\ slot[s].pc = "store" => slot[s].token \in live
              /\ slot[s].pc \in {"file", "show"} /\ slot[s].op # "play"
                    => Backed(slot[s].nick)
        /\ shown = NoNick \/ LogoutRuns \/ Backed(shown)

(* How far the log out has come, and what it leaves.                       *)
Extinct(c) == /\ \A t \in live : t.chain # c
              /\ \A t \in Token : (\E n \in Nick : Holds(n, t)) => t.chain # c

LogoutInv ==
    Calm =>
        /\ \A s \in Slot : slot[s].op = "logout" /\ slot[s].token # NoToken =>
              /\ slot[s].pc = "wait" =>
                    \A r \in wire :
                        IF r.stage = "sent"
                        THEN r.token = slot[s].token /\ r.token \in live
                        ELSE \A t \in live : t.chain # slot[s].token.chain
              /\ slot[s].pc \in {"clear", "forget"} =>
                    \A t \in live : t.chain # slot[s].token.chain
              /\ slot[s].pc = "forget" => cred[slot[s].nick] = NoToken
        /\ \A c \in loggedOut : Extinct(c)

(* Commands that run one after the other keep .last-nick and the window    *)
(* together.                                                               *)
NickInv ==
    ~disturbed /\ together = {} =>
        /\ \A s, b \in Busy : s = b
        /\ \A s \in Busy :
              /\ slot[s].op \in {"login", "register", "restore"} =>
                    shown = NoNick /\ (slot[s].pc = "show" => lastNick = slot[s].nick)
              /\ slot[s].op = "play" => slot[s].nick = shown /\ lastNick = shown
        /\ Busy = {} => shown = NoNick \/ lastNick = shown

SessionInv ==
    /\ TypeOK /\ CommandInv /\ ChainInv /\ ArrivalInv
    /\ CalmInv /\ LogoutInv /\ NickInv
=============================================================================
