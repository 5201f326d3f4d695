----------------------- MODULE LauncherSessionTheorems ----------------------
(* Proofs about LauncherSession, for every set of accounts, casings and    *)
(* slots and every bound on tokens and faults.                             *)
EXTENDS LauncherSession, TLAPS

(* What a step makes of slot s, of which only the fields matter below.     *)
Turn(s, op, pc, nick, token) ==
    /\ slot' \in [Slot -> Process]
    /\ slot'[s].op = op /\ slot'[s].pc = pc
    /\ slot'[s].nick = nick /\ slot'[s].token = token
    /\ \A b \in Slot : b # s => slot'[b] = slot[b]

(* A request of which only the fields matter.                              *)
Fields(q, from, route, nick, token, stage) ==
    /\ q \in Request
    /\ q.from = from /\ q.route = route /\ q.nick = nick
    /\ q.token = token /\ q.stage = stage

Sends(s, route, nick, token) ==
    \E q : Fields(q, s, route, nick, token, "sent") /\ wire' = wire \cup {q}

(* A request that changes, or that nobody waits for any more.              *)
Turns(r, from, route, token, stage) ==
    \E q : /\ Fields(q, from, route, r.nick, token, stage)
           /\ wire' = (wire \ {r}) \cup {q}

Settles(r, token, stage) ==
    \/ Turns(r, r.from, r.route, token, stage) /\ r.from # "nobody"
    \/ r.from = "nobody" /\ wire' = wire \ {r}

LEMMA IdleFacts ==
    /\ Idle.op = "none" /\ Idle.pc = "idle"
    /\ Idle.nick = NoNick /\ Idle.token = NoToken
    /\ Idle \in Process
BY DEF Idle, Process

LEMMA NickIsReal == \A n \in Nick : n # NoNick
BY SessionAssumption

LEMMA TokenIsReal == \A t \in Token : t # NoToken
BY SessionAssumption

LEMMA AskFacts ==
    ASSUME NEW s \in Slot, NEW route \in Route, NEW n \in Nick,
           NEW t \in Token \cup {NoToken}
    PROVE  Fields(Ask(s, route, n, t), s, route, n, t, "sent")
BY DEF Fields, Ask, Request

LEMMA RequestFacts ==
    ASSUME TypeOK, NEW r \in wire
    PROVE  /\ r \in Request /\ r.from \in Slot \cup {"nobody"} /\ r.route \in Route
           /\ r.nick \in Nick /\ r.token \in Token \cup {NoToken}
           /\ r.stage \in {"sent", "revoked", "ok", "refused", "failed"}
BY DEF TypeOK, Request

LEMMA TurnFacts ==
    ASSUME TypeOK, NEW r \in wire,
           NEW stage \in {"sent", "revoked", "ok", "refused", "failed"},
           NEW token \in Token \cup {NoToken}
    PROVE  /\ Fields([r EXCEPT !.stage = stage, !.token = token],
                     r.from, r.route, r.nick, token, stage)
           /\ Fields([r EXCEPT !.stage = stage],
                     r.from, r.route, r.nick, r.token, stage)
           /\ Fields([r EXCEPT !.from = "nobody"],
                     "nobody", r.route, r.nick, r.token, r.stage)
<1>1. r \in Request
  BY RequestFacts
<1>2. QED
  BY <1>1 DEF Fields, Request

LEMMA SettleFacts ==
    ASSUME TypeOK, NEW r \in wire,
           NEW stage \in {"sent", "revoked", "ok", "refused", "failed"},
           NEW token \in Token \cup {NoToken}, Settle(r, stage, token)
    PROVE  Settles(r, token, stage)
<1>1. Fields([r EXCEPT !.stage = stage, !.token = token],
             r.from, r.route, r.nick, token, stage)
  BY TurnFacts
<1>2. CASE r.from = "nobody"
  BY <1>2 DEF Settle, Settles
<1>3. CASE r.from # "nobody"
  <2>1. wire' = (wire \ {r}) \cup {[r EXCEPT !.stage = stage, !.token = token]}
    BY <1>3 DEF Settle
  <2>2. QED
    BY <1>1, <1>3, <2>1 DEF Settles, Turns
<1>4. QED
  BY <1>2, <1>3

LEMMA GotoFacts ==
    ASSUME TypeOK, NEW s \in Slot, NEW pc \in {"store", "file", "show", "clear", "forget"},
           NEW token \in Token \cup {NoToken}, Goto(s, pc, token)
    PROVE  Turn(s, slot[s].op, pc, slot[s].nick, token)
<1> DEFINE e == [slot[s] EXCEPT !.pc = pc, !.token = token]
<1>1. slot \in [Slot -> Process] /\ slot[s] \in Process
  BY DEF TypeOK
<1>2. /\ e \in Process
      /\ e.op = slot[s].op /\ e.pc = pc /\ e.nick = slot[s].nick /\ e.token = token
  BY <1>1 DEF Process
<1>3. slot' = [slot EXCEPT ![s] = e]
  BY DEF Goto
<1> HIDE DEF e
<1>4. QED
  BY <1>1, <1>2, <1>3 DEF Turn

LEMMA FinishFacts ==
    ASSUME TypeOK, NEW s \in Slot, Finish(s)
    PROVE  /\ slot' \in [Slot -> Process] /\ slot'[s] = Idle
           /\ \A b \in Slot : b # s => slot'[b] = slot[b]
BY IdleFacts DEF TypeOK, Finish

(* Every change of a slot leaves its process busy.                         *)
LEMMA StartFacts ==
    ASSUME TypeOK, NEW s \in Slot, NEW op \in Command, NEW pc \in {"wait", "clear"},
           NEW n \in Nick, NEW t \in Token \cup {NoToken}, Start(s, op, pc, n, t)
    PROVE  /\ slot[s] = Idle /\ Turn(s, op, pc, n, t)
           /\ UNCHANGED <<service, stores, shown, faults>>
<1> DEFINE e == [op |-> op, pc |-> pc, nick |-> n, token |-> t]
<1>1. slot \in [Slot -> Process]
  BY DEF TypeOK
<1>2. /\ e \in Process
      /\ e.op = op /\ e.pc = pc /\ e.nick = n /\ e.token = t
  BY DEF Process
<1>3. slot' = [slot EXCEPT ![s] = e] /\ slot[s] = Idle
      /\ UNCHANGED <<service, stores, shown, faults>>
  BY DEF Start
<1> HIDE DEF e
<1>4. QED
  BY <1>1, <1>2, <1>3 DEF Turn

-----------------------------------------------------------------------------
(* What the actions do, in these terms.                                    *)

(* A click: a command with its nick and, but for a log in, the stored token*)
(* starts and asks the service, or clears the stores without asking.       *)
Begins(s) ==
    \E op \in Command, n \in Nick, t \in Token \cup {NoToken} :
        /\ slot[s] = Idle
        /\ t # NoToken => t = cred[n]
        /\ \/ /\ Turn(s, op, "wait", n, t)
              /\ \E route \in Route :
                    /\ Sends(s, route, n, t)
                    /\ route = "logout" <=> op = "logout"
                    /\ route \in {"refresh", "logout"} => t # NoToken
           \/ /\ op = "logout" /\ Turn(s, op, "clear", n, NoToken)
              /\ wire' = wire
        /\ UNCHANGED <<service, stores, shown, faults>>

LEMMA SubmitFacts ==
    ASSUME TypeOK, NEW s \in Slot, NEW op \in {"login", "register"}, NEW n \in Nick,
           SubmitForm(s, op, n)
    PROVE  /\ slot[s] = Idle /\ shown = NoNick
           /\ Turn(s, op, "wait", n, NoToken) /\ Sends(s, op, n, NoToken)
           /\ UNCHANGED <<service, stores, shown, faults>>
           /\ Start(s, op, "wait", n, NoToken)
<1>1. Start(s, op, "wait", n, NoToken) /\ shown = NoNick
      /\ wire' = wire \cup {Ask(s, op, n, NoToken)}
  BY DEF SubmitForm
<1>2. op \in Command /\ op \in Route
  BY DEF Command, Route
<1>3. Fields(Ask(s, op, n, NoToken), s, op, n, NoToken, "sent")
  BY <1>2, AskFacts
<1>4. Sends(s, op, n, NoToken)
  BY <1>1, <1>3 DEF Sends
<1>5. slot[s] = Idle /\ Turn(s, op, "wait", n, NoToken)
      /\ UNCHANGED <<service, stores, shown, faults>>
  BY <1>1, <1>2, StartFacts
<1>6. QED
  BY <1>1, <1>4, <1>5

LEMMA PlayFacts ==
    ASSUME TypeOK, NEW s \in Slot, ClickPlay(s)
    PROVE  /\ slot[s] = Idle /\ shown \in Nick /\ cred[shown] \in Token
           /\ Turn(s, "play", "wait", shown, cred[shown])
           /\ Sends(s, "refresh", shown, cred[shown])
           /\ UNCHANGED <<service, stores, shown, faults>>
           /\ Start(s, "play", "wait", shown, cred[shown])
<1>1. /\ shown # NoNick /\ cred[shown] # NoToken
      /\ Start(s, "play", "wait", shown, cred[shown])
      /\ wire' = wire \cup {Ask(s, "refresh", shown, cred[shown])}
  BY DEF ClickPlay
<1>2. shown \in Nick /\ cred[shown] \in Token
  BY <1>1 DEF TypeOK
<1>3. Fields(Ask(s, "refresh", shown, cred[shown]),
             s, "refresh", shown, cred[shown], "sent")
  BY <1>2, AskFacts DEF Route
<1>4. Sends(s, "refresh", shown, cred[shown])
  BY <1>1, <1>3 DEF Sends
<1>5. "play" \in Command /\ "wait" \in {"wait", "clear"}
  BY DEF Command
<1>6. slot[s] = Idle /\ Turn(s, "play", "wait", shown, cred[shown])
      /\ UNCHANGED <<service, stores, shown, faults>>
  BY <1>1, <1>2, <1>5, StartFacts
<1>7. QED
  BY <1>1, <1>2, <1>4, <1>6

LEMMA LogoutFacts ==
    ASSUME TypeOK, NEW s \in Slot, ClickLogout(s)
    PROVE  /\ slot[s] = Idle /\ shown \in Nick
           /\ \/ /\ cred[shown] = NoToken
                 /\ Turn(s, "logout", "clear", shown, NoToken) /\ wire' = wire
                 /\ Start(s, "logout", "clear", shown, NoToken)
              \/ /\ cred[shown] \in Token
                 /\ Turn(s, "logout", "wait", shown, cred[shown])
                 /\ Sends(s, "logout", shown, cred[shown])
                 /\ Start(s, "logout", "wait", shown, cred[shown])
           /\ UNCHANGED <<service, stores, shown, faults>>
<1>1. shown \in Nick /\ cred[shown] \in Token \cup {NoToken} /\ "logout" \in Command
  BY DEF ClickLogout, TypeOK, Command
<1>2. CASE cred[shown] = NoToken
  <2>1. Start(s, "logout", "clear", shown, NoToken) /\ wire' = wire
    BY <1>2 DEF ClickLogout
  <2>2. slot[s] = Idle /\ Turn(s, "logout", "clear", shown, NoToken)
        /\ UNCHANGED <<service, stores, shown, faults>>
    BY <1>1, <2>1, StartFacts
  <2>3. QED
    BY <1>1, <1>2, <2>1, <2>2
<1>3. CASE cred[shown] # NoToken
  <2>1. Start(s, "logout", "wait", shown, cred[shown])
        /\ wire' = wire \cup {Ask(s, "logout", shown, cred[shown])}
    BY <1>3 DEF ClickLogout
  <2>2. slot[s] = Idle /\ Turn(s, "logout", "wait", shown, cred[shown])
        /\ UNCHANGED <<service, stores, shown, faults>>
    BY <1>1, <2>1, StartFacts
  <2>3. Fields(Ask(s, "logout", shown, cred[shown]),
               s, "logout", shown, cred[shown], "sent")
    BY <1>1, AskFacts DEF Route
  <2>4. Sends(s, "logout", shown, cred[shown])
    BY <2>1, <2>3 DEF Sends
  <2>5. QED
    BY <1>1, <1>3, <2>1, <2>2, <2>4
<1>4. QED
  BY <1>2, <1>3

LEMMA ClickBegins ==
    ASSUME TypeOK, NEW s \in Slot, Click(s)
    PROVE  Begins(s)
<1>1. ASSUME NEW op \in {"login", "register"}, NEW n \in Nick, SubmitForm(s, op, n)
      PROVE  Begins(s)
  <2>1. /\ slot[s] = Idle /\ Turn(s, op, "wait", n, NoToken)
        /\ Sends(s, op, n, NoToken)
        /\ UNCHANGED <<service, stores, shown, faults>>
    BY <1>1, SubmitFacts
  <2>2. op \in Command /\ op \in Route /\ op # "logout" /\ op # "refresh"
    BY DEF Command, Route
  <2>3. QED
    BY <2>1, <2>2 DEF Begins
<1>2. CASE ClickPlay(s)
  <2>1. /\ slot[s] = Idle /\ shown \in Nick /\ cred[shown] \in Token
        /\ Turn(s, "play", "wait", shown, cred[shown])
        /\ Sends(s, "refresh", shown, cred[shown])
        /\ UNCHANGED <<service, stores, shown, faults>>
    BY <1>2, PlayFacts
  <2>2. "play" \in Command /\ "refresh" \in Route /\ cred[shown] # NoToken
    BY <2>1, TokenIsReal DEF Command, Route
  <2>3. QED
    BY <2>1, <2>2 DEF Begins
<1>3. CASE ClickLogout(s)
  <2>1. "logout" \in Command /\ "logout" \in Route
    BY DEF Command, Route
  <2>2. slot[s] = Idle /\ shown \in Nick /\ UNCHANGED <<service, stores, shown, faults>>
    BY <1>3, LogoutFacts
  <2>3. CASE /\ cred[shown] = NoToken
             /\ Turn(s, "logout", "clear", shown, NoToken) /\ wire' = wire
    BY <2>1, <2>2, <2>3 DEF Begins
  <2>4. CASE /\ cred[shown] \in Token
             /\ Turn(s, "logout", "wait", shown, cred[shown])
             /\ Sends(s, "logout", shown, cred[shown])
    <3>1. cred[shown] # NoToken
      BY <2>4, TokenIsReal
    <3>2. QED
      BY <2>1, <2>2, <2>4, <3>1 DEF Begins
  <2>5. QED
    BY <1>3, <2>3, <2>4, LogoutFacts
<1>4. QED
  BY <1>1, <1>2, <1>3 DEF Click

(* A new token has a chain of its own, or that of the token it replaces.   *)
LEMMA NewTokenFacts ==
    ASSUME TypeOK, issued < MaxTokens, NEW a \in Account, NEW c \in 1..MaxTokens
    PROVE  /\ NewToken(a, c) \in Token
           /\ NewToken(a, c).id = issued + 1 /\ NewToken(a, c).chain = c
           /\ issued + 1 \in 1..MaxTokens /\ issued + 1 \in 0..MaxTokens
BY SessionAssumption DEF TypeOK, NewToken, Token

(* The service answers, or begins to: what it does with its tokens.        *)
Grants(r, chain) ==
    \E t \in Token :
        /\ t.id = issued + 1 /\ t.chain = chain
        /\ issued' = issued + 1 /\ issued' \in 0..MaxTokens
        /\ live' = live \cup {t}
        /\ Settles(r, t, "ok")

LocalState == <<stores, shown, slot, history>>

LEMMA RegisterFacts ==
    ASSUME TypeOK, NEW r \in wire, ServeRegister(r)
    PROVE  /\ r.route = "register" /\ r.stage = "sent"
           /\ regNick' \in [Account -> Nick \cup {NoNick}]
           /\ Settles(r, NoToken, "ok")
           /\ UNCHANGED <<live, issued>> /\ UNCHANGED LocalState
<1>1. Settle(r, "ok", NoToken)
  BY DEF ServeRegister
<1>2. Settles(r, NoToken, "ok")
  BY <1>1, SettleFacts
<1>3. regNick' \in [Account -> Nick \cup {NoNick}]
  BY RequestFacts DEF ServeRegister, TypeOK
<1>4. QED
  BY <1>2, <1>3 DEF ServeRegister, LocalState

LEMMA LoginFacts ==
    ASSUME TypeOK, NEW r \in wire, ServeLogin(r)
    PROVE  /\ r.route = "login" /\ r.stage = "sent"
           /\ Grants(r, issued + 1)
           /\ UNCHANGED regNick /\ UNCHANGED LocalState
<1> DEFINE t == NewToken(r.nick.account, issued + 1)
<1>1. /\ r.route = "login" /\ r.stage = "sent" /\ issued < MaxTokens
      /\ live' = live \cup {t} /\ issued' = issued + 1
      /\ Settle(r, "ok", t)
      /\ UNCHANGED regNick /\ UNCHANGED LocalState
  BY DEF ServeLogin, LocalState
<1>2. r.nick.account \in Account /\ issued + 1 \in 1..MaxTokens
  BY <1>1, RequestFacts, SessionAssumption DEF TypeOK, Nick
<1>3. t \in Token /\ t.id = issued + 1 /\ t.chain = issued + 1
      /\ issued + 1 \in 0..MaxTokens
  BY <1>1, <1>2, NewTokenFacts
<1> HIDE DEF t
<1>4. Settles(r, t, "ok")
  BY <1>1, <1>3, SettleFacts
<1>5. Grants(r, issued + 1)
  BY <1>1, <1>3, <1>4 DEF Grants
<1>6. QED
  BY <1>1, <1>5

LEMMA RotateFacts ==
    ASSUME TypeOK, CommandInv, NEW r \in wire, Rotate(r)
    PROVE  /\ r.route = "refresh" /\ r.stage = "revoked" /\ r.token \in Token
           /\ Grants(r, r.token.chain)
           /\ UNCHANGED regNick /\ UNCHANGED LocalState
<1> DEFINE t == NewToken(r.token.account, r.token.chain)
<1>1. /\ r.stage = "revoked" /\ issued < MaxTokens
      /\ live' = live \cup {t} /\ issued' = issued + 1
      /\ Settle(r, "ok", t)
      /\ UNCHANGED regNick /\ UNCHANGED LocalState
  BY DEF Rotate, LocalState
<1>2. r.route = "refresh" /\ r.token \in Token
  BY <1>1, RequestFacts DEF CommandInv
<1>3. r.token.account \in Account /\ r.token.chain \in 1..MaxTokens
  BY <1>2 DEF Token
<1>4. t \in Token /\ t.id = issued + 1 /\ t.chain = r.token.chain
      /\ issued + 1 \in 0..MaxTokens
  BY <1>1, <1>3, NewTokenFacts
<1> HIDE DEF t
<1>5. Settles(r, t, "ok")
  BY <1>1, <1>4, SettleFacts
<1>6. Grants(r, r.token.chain)
  BY <1>1, <1>4, <1>5 DEF Grants
<1>7. QED
  BY <1>1, <1>2, <1>6

LEMMA RevokeFacts ==
    ASSUME TypeOK, NEW r \in wire, Revoke(r)
    PROVE  /\ r.route = "refresh" /\ r.stage = "sent" /\ r.token \in live
           /\ live' = live \ {r.token}
           /\ Turns(r, r.from, r.route, r.token, "revoked")
           /\ UNCHANGED <<regNick, issued>> /\ UNCHANGED LocalState
<1>1. wire' = (wire \ {r}) \cup {[r EXCEPT !.stage = "revoked"]}
  BY DEF Revoke
<1>2. Fields([r EXCEPT !.stage = "revoked"],
             r.from, r.route, r.nick, r.token, "revoked")
  BY RequestFacts, TurnFacts
<1>3. Turns(r, r.from, r.route, r.token, "revoked")
  BY <1>1, <1>2 DEF Turns
<1>4. QED
  BY <1>3 DEF Revoke, LocalState

LEMMA ServeLogoutFacts ==
    ASSUME TypeOK, NEW r \in wire, ServeLogout(r)
    PROVE  /\ r.route = "logout" /\ r.stage = "sent" /\ r.token \in live
           /\ live' = live \ {r.token}
           /\ Settles(r, NoToken, "ok")
           /\ UNCHANGED <<regNick, issued>> /\ UNCHANGED LocalState
<1>1. Settle(r, "ok", NoToken)
  BY DEF ServeLogout
<1>2. Settles(r, NoToken, "ok")
  BY <1>1, SettleFacts
<1>3. QED
  BY <1>2 DEF ServeLogout, LocalState

LEMMA RefuseFacts ==
    ASSUME TypeOK, NEW r \in wire, Refuse(r)
    PROVE  /\ r.stage = "sent"
           /\ r.route \in {"refresh", "logout"} => r.token \notin live
           /\ Settles(r, r.token, "refused")
           /\ UNCHANGED service /\ UNCHANGED LocalState
<1>1. Settle(r, "refused", r.token)
  BY DEF Refuse
<1>2. Settles(r, r.token, "refused")
  BY <1>1, RequestFacts, SettleFacts
<1>3. QED
  BY <1>2 DEF Refuse, LocalState

LEMMA DisturbFacts ==
    ASSUME TypeOK, Disturb
    PROVE  /\ faults' \in 0..MaxFaults /\ disturbed' = TRUE
           /\ UNCHANGED <<loggedOut, together>>
BY SessionAssumption DEF Disturb, TypeOK

LEMMA FailFacts ==
    ASSUME TypeOK, NEW r \in wire, Fail(r)
    PROVE  /\ Settles(r, r.token, "failed")
           /\ faults' \in 0..MaxFaults /\ disturbed' = TRUE
           /\ UNCHANGED <<service, stores, shown, slot, loggedOut, together>>
<1>1. Settle(r, "failed", r.token)
  BY DEF Fail
<1>2. Settles(r, r.token, "failed")
  BY <1>1, RequestFacts, SettleFacts
<1>3. QED
  BY <1>2, DisturbFacts DEF Fail

(* A command that ends or is stopped.                                      *)
Stops(s) == /\ slot' \in [Slot -> Process] /\ slot'[s] = Idle
            /\ \A b \in Slot : b # s => slot'[b] = slot[b]

LEMMA DeniedFacts ==
    ASSUME TypeOK, NEW s \in Slot, NEW dead, Denied(s, dead)
    PROVE  Stops(s) /\ shown' \in {shown, NoNick}
BY FinishFacts DEF Denied, Stops

(* A command that waits, and the answer it waits for.                      *)
LEMMA WaitFacts ==
    ASSUME TypeOK, CommandInv, NEW s \in Slot, NEW r \in wire, r.from = s
    PROVE  /\ slot[s].pc = "wait" /\ slot[s] # Idle
           /\ slot[s].nick \in Nick /\ slot[s].nick = r.nick
           /\ r.route = "logout" <=> slot[s].op = "logout"
           /\ r.from # "nobody"
           /\ \A q \in wire : q.from = s => q = r
<1>1. r.from # "nobody"
  BY SessionAssumption
<1>2. slot[s].pc = "wait"
  BY DEF TypeOK
<1>3. slot[s] # Idle
  BY <1>2, IdleFacts
<1>4. QED
  BY <1>1, <1>2, <1>3 DEF CommandInv

LEMMA RegisteredFacts ==
    ASSUME TypeOK, CommandInv, NEW s \in Slot, NEW r \in wire, Registered(s, r)
    PROVE  /\ r.from = s /\ r.route = "register" /\ r.stage = "ok"
           /\ Turns(r, s, "login", NoToken, "sent")
           /\ UNCHANGED service /\ UNCHANGED LocalState
<1>1. Fields(Ask(s, "login", r.nick, NoToken), s, "login", r.nick, NoToken, "sent")
  BY RequestFacts, AskFacts DEF Route
<1>2. Turns(r, s, "login", NoToken, "sent")
  BY <1>1 DEF Registered, Turns
<1>3. QED
  BY <1>2 DEF Registered, LocalState

LEMMA GrantedFacts ==
    ASSUME TypeOK, CommandInv, NEW s \in Slot, NEW r \in wire, Granted(s, r)
    PROVE  /\ r.from = s /\ r.route \in {"login", "refresh"} /\ r.stage = "ok"
           /\ r.token \in Token /\ slot[s].op # "logout"
           /\ wire' = wire \ {r}
           /\ Turn(s, slot[s].op, "store", r.nick, r.token)
           /\ UNCHANGED <<service, stores, shown, history>>
<1>1. /\ r.from = s /\ r.route \in {"login", "refresh"} /\ r.stage = "ok"
      /\ wire' = wire \ {r} /\ Goto(s, "store", r.token)
      /\ UNCHANGED <<service, stores, shown, history>>
  BY DEF Granted
<1>2. r.token \in Token
  BY <1>1, RequestFacts DEF CommandInv
<1>3. slot[s].op # "logout" /\ slot[s].nick = r.nick
  BY <1>1, WaitFacts
<1>4. Turn(s, slot[s].op, "store", slot[s].nick, r.token)
  BY <1>1, <1>2, GotoFacts
<1>5. QED
  BY <1>1, <1>2, <1>3, <1>4

LEMMA AnsweredFacts ==
    ASSUME TypeOK, CommandInv, NEW s \in Slot, NEW r \in wire, Answered(s, r)
    PROVE  /\ r.from = s /\ wire' = wire \ {r}
           /\ \/ /\ slot[s].op = "logout" /\ r.stage \in {"ok", "refused", "failed"}
                 /\ Turn(s, "logout", "clear", slot[s].nick, slot[s].token)
                 /\ UNCHANGED shown
              \/ /\ slot[s].op # "logout" /\ r.stage \in {"refused", "failed"}
                 /\ Stops(s) /\ shown' \in {shown, NoNick}
           /\ UNCHANGED <<service, stores, history>>
<1>1. /\ r.from = s /\ wire' = wire \ {r}
      /\ UNCHANGED <<service, stores, history>>
  BY DEF Answered
<1>2. CASE /\ slot[s].op = "logout" /\ r.stage \in {"ok", "refused", "failed"}
           /\ Goto(s, "clear", slot[s].token) /\ UNCHANGED shown
  <2>1. slot[s].token \in Token \cup {NoToken}
    BY DEF TypeOK, Process
  <2>2. Turn(s, "logout", "clear", slot[s].nick, slot[s].token)
    BY <1>2, <2>1, GotoFacts
  <2>3. QED
    BY <1>1, <1>2, <2>2
<1>3. CASE /\ slot[s].op # "logout" /\ r.stage \in {"refused", "failed"}
           /\ Denied(s, r.stage = "refused")
  <2>1. Stops(s) /\ shown' \in {shown, NoNick}
    BY <1>3, DeniedFacts
  <2>2. QED
    BY <1>1, <1>3, <2>1
<1>4. QED
  BY <1>2, <1>3 DEF Answered

(* A request whose command is gone.                                        *)
LEMMA GiveUpFacts ==
    ASSUME TypeOK, CommandInv, NEW s \in Slot, NEW r \in wire, GiveUp(s, r)
    PROVE  /\ r.from = s
           /\ \/ /\ r.stage \in {"sent", "revoked"}
                 /\ Turns(r, "nobody", r.route, r.token, r.stage)
              \/ r.stage \notin {"sent", "revoked"} /\ wire' = wire \ {r}
           /\ \/ /\ slot[s].op = "logout" /\ UNCHANGED shown
                 /\ Turn(s, "logout", "clear", slot[s].nick, slot[s].token)
              \/ /\ slot[s].op # "logout"
                 /\ Stops(s) /\ shown' \in {shown, NoNick}
           /\ faults' \in 0..MaxFaults /\ disturbed' = TRUE
           /\ UNCHANGED <<service, stores, loggedOut, together>>
<1>1. /\ r.from = s
      /\ wire' = (wire \ {r}) \cup (IF r.stage \in {"sent", "revoked"}
                                    THEN {[r EXCEPT !.from = "nobody"]} ELSE {})
      /\ UNCHANGED <<service, stores>> /\ Disturb
  BY DEF GiveUp
<1>2. Fields([r EXCEPT !.from = "nobody"],
             "nobody", r.route, r.nick, r.token, r.stage)
  BY RequestFacts, TurnFacts
<1>3. \/ /\ r.stage \in {"sent", "revoked"}
         /\ Turns(r, "nobody", r.route, r.token, r.stage)
      \/ r.stage \notin {"sent", "revoked"} /\ wire' = wire \ {r}
  BY <1>1, <1>2 DEF Turns
<1>4. \/ /\ slot[s].op = "logout" /\ UNCHANGED shown
         /\ Turn(s, "logout", "clear", slot[s].nick, slot[s].token)
      \/ /\ slot[s].op # "logout"
         /\ Stops(s) /\ shown' \in {shown, NoNick}
  <2>1. slot[s].token \in Token \cup {NoToken}
    BY DEF TypeOK, Process
  <2>2. CASE slot[s].op = "logout" /\ Goto(s, "clear", slot[s].token) /\ UNCHANGED shown
    BY <2>1, <2>2, GotoFacts
  <2>3. CASE slot[s].op # "logout" /\ Denied(s, FALSE)
    BY <2>3, DeniedFacts
  <2>4. QED
    BY <2>2, <2>3 DEF GiveUp
<1>5. QED
  BY <1>1, <1>3, <1>4, DisturbFacts

(* A command past its answer.                                              *)
LEMMA WorkFacts ==
    ASSUME TypeOK, CommandInv, NEW s \in Slot,
           slot[s].pc \in {"store", "file", "show", "clear", "forget"}
    PROVE  /\ slot[s] # Idle /\ slot[s].nick \in Nick /\ slot[s].op # "none"
           /\ slot[s].token \in Token \cup {NoToken}
           /\ slot[s].pc = "store" => slot[s].token \in Token
           /\ slot[s].pc \in {"store", "file", "show"} => slot[s].op # "logout"
           /\ slot[s].pc \in {"clear", "forget"} => slot[s].op = "logout"
           /\ \A r \in wire : r.from # s
<1>1. slot[s] # Idle
  BY IdleFacts
<1>2. slot[s].token \in Token \cup {NoToken}
  BY DEF TypeOK, Process
<1>3. \A r \in wire : r.from # s
  BY DEF TypeOK
<1>4. QED
  BY <1>1, <1>2, <1>3 DEF CommandInv

LEMMA StoreCredFacts ==
    ASSUME TypeOK, CommandInv, NEW s \in Slot, StoreCred(s)
    PROVE  /\ slot[s].pc = "store"
           /\ Turn(s, slot[s].op, "file", slot[s].nick, slot[s].token)
           /\ cred' \in [Nick -> Token \cup {NoToken}]
           /\ cred'[slot[s].nick] = slot[s].token
           /\ \A n \in Nick : n # slot[s].nick => cred'[n] = cred[n]
           /\ UNCHANGED <<service, wire, lastNick, shown, history>>
<1>1. /\ slot[s].pc = "store" /\ Goto(s, "file", slot[s].token)
      /\ cred' = [cred EXCEPT ![slot[s].nick] = slot[s].token]
      /\ UNCHANGED <<service, wire, lastNick, shown, history>>
  BY DEF StoreCred
<1>2. slot[s].nick \in Nick /\ slot[s].token \in Token
  BY <1>1, WorkFacts
<1>3. Turn(s, slot[s].op, "file", slot[s].nick, slot[s].token)
  BY <1>1, <1>2, GotoFacts
<1>4. /\ cred' \in [Nick -> Token \cup {NoToken}]
      /\ cred'[slot[s].nick] = slot[s].token
      /\ \A n \in Nick : n # slot[s].nick => cred'[n] = cred[n]
  BY <1>1, <1>2 DEF TypeOK
<1>5. QED
  BY <1>1, <1>3, <1>4

LEMMA StoreFailsFacts ==
    ASSUME TypeOK, CommandInv, NEW s \in Slot, StoreFails(s)
    PROVE  /\ slot[s].pc = "store"
           /\ Stops(s) /\ shown' \in {shown, NoNick}
           /\ faults' \in 0..MaxFaults /\ disturbed' = TRUE
           /\ UNCHANGED <<service, wire, stores, loggedOut, together>>
BY DeniedFacts, DisturbFacts DEF StoreFails

LEMMA StoreFileFacts ==
    ASSUME TypeOK, CommandInv, NEW s \in Slot, StoreFile(s)
    PROVE  /\ slot[s].pc = "file"
           /\ Turn(s, slot[s].op, "show", slot[s].nick, slot[s].token)
           /\ lastNick' \in Nick \cup {NoNick}
           /\ \/ lastNick' = slot[s].nick /\ UNCHANGED history
              \/ /\ faults' \in 0..MaxFaults /\ disturbed' = TRUE
                 /\ UNCHANGED <<loggedOut, together>>
           /\ UNCHANGED <<service, wire, cred, shown>>
<1>1. /\ slot[s].pc = "file" /\ Goto(s, "show", slot[s].token)
      /\ UNCHANGED <<service, wire, cred, shown>>
  BY DEF StoreFile
<1>2. slot[s].nick \in Nick /\ slot[s].token \in Token \cup {NoToken}
  BY <1>1, WorkFacts
<1>3. Turn(s, slot[s].op, "show", slot[s].nick, slot[s].token)
  BY <1>1, <1>2, GotoFacts
<1>4. /\ lastNick' \in Nick \cup {NoNick}
      /\ \/ lastNick' = slot[s].nick /\ UNCHANGED history
         \/ /\ faults' \in 0..MaxFaults /\ disturbed' = TRUE
            /\ UNCHANGED <<loggedOut, together>>
  BY <1>2, DisturbFacts DEF StoreFile, TypeOK
<1>5. QED
  BY <1>1, <1>3, <1>4

LEMMA ShowFacts ==
    ASSUME TypeOK, CommandInv, NEW s \in Slot, Show(s)
    PROVE  /\ slot[s].pc = "show" /\ Stops(s)
           /\ shown' = IF slot[s].op = "play" THEN shown ELSE slot[s].nick
           /\ shown' \in Nick \cup {NoNick}
           /\ UNCHANGED <<service, wire, stores, history>>
BY FinishFacts, WorkFacts DEF Show, Stops, TypeOK

LEMMA ClearCredFacts ==
    ASSUME TypeOK, CommandInv, NEW s \in Slot, ClearCred(s)
    PROVE  /\ slot[s].pc = "clear"
           /\ Turn(s, slot[s].op, "forget", slot[s].nick, slot[s].token)
           /\ cred' \in [Nick -> Token \cup {NoToken}]
           /\ \A n \in Nick : cred'[n] \in {cred[n], NoToken}
           /\ \/ cred'[slot[s].nick] = NoToken /\ UNCHANGED history
              \/ /\ faults' \in 0..MaxFaults /\ disturbed' = TRUE
                 /\ UNCHANGED <<loggedOut, together>>
           /\ UNCHANGED <<service, wire, lastNick, shown>>
<1>1. /\ slot[s].pc = "clear" /\ Goto(s, "forget", slot[s].token)
      /\ UNCHANGED <<service, wire, lastNick, shown>>
  BY DEF ClearCred
<1>2. slot[s].nick \in Nick /\ slot[s].token \in Token \cup {NoToken}
  BY <1>1, WorkFacts
<1>3. Turn(s, slot[s].op, "forget", slot[s].nick, slot[s].token)
  BY <1>1, <1>2, GotoFacts
<1>4. cred \in [Nick -> Token \cup {NoToken}]
  BY DEF TypeOK
<1>5. \/ cred' = [cred EXCEPT ![slot[s].nick] = NoToken] /\ UNCHANGED history
      \/ /\ cred' = cred /\ faults' \in 0..MaxFaults /\ disturbed' = TRUE
         /\ UNCHANGED <<loggedOut, together>>
  BY DisturbFacts DEF ClearCred
<1>6. QED
  BY <1>1, <1>2, <1>3, <1>4, <1>5

LEMMA ClearFileFacts ==
    ASSUME TypeOK, CommandInv, NEW s \in Slot, ClearFile(s)
    PROVE  /\ slot[s].pc = "forget" /\ Stops(s)
           /\ shown' = NoNick /\ lastNick' \in Nick \cup {NoNick}
           /\ loggedOut' = IF slot[s].token = NoToken THEN loggedOut
                           ELSE loggedOut \cup {slot[s].token.chain}
           /\ faults' \in 0..MaxFaults
           /\ \/ lastNick' = NoNick /\ disturbed' = disturbed
              \/ disturbed' = TRUE
           /\ UNCHANGED <<service, wire, cred, together>>
<1>1. faults \in 0..MaxFaults /\ lastNick \in Nick \cup {NoNick}
  BY DEF TypeOK
<1>2. faults' \in 0..MaxFaults
  BY <1>1, SessionAssumption DEF ClearFile
<1>3. QED
  BY <1>1, <1>2, FinishFacts DEF ClearFile, Stops

(* The launcher is opened again: with one command, or none.                *)
LEMMA ReopenFacts ==
    ASSUME TypeOK, NEW s \in Slot, Reopen(s)
    PROVE  /\ shown' = NoNick /\ faults' \in 0..MaxFaults
           /\ slot' \in [Slot -> Process]
           /\ \A b \in Slot : b # s => slot'[b] = Idle
           /\ \/ /\ slot'[s] = Idle
                 /\ \A q \in wire' : q.from = "nobody"
              \/ /\ lastNick \in Nick /\ cred[lastNick] \in Token
                 /\ slot'[s].op = "restore" /\ slot'[s].pc = "wait"
                 /\ slot'[s].nick = lastNick /\ slot'[s].token = cred[lastNick]
                 /\ \E a \in wire' :
                       /\ Fields(a, s, "refresh", lastNick, cred[lastNick], "sent")
                       /\ \A q \in wire' : q = a \/ q.from = "nobody"
           /\ wire' \subseteq Request
           /\ \A q \in wire' : q.from = "nobody" =>
                 \E r \in wire : /\ Fields(q, "nobody", r.route, r.nick, r.token, r.stage)
                                 /\ q = [r EXCEPT !.from = "nobody"]
                                 /\ r.stage \in {"sent", "revoked"}
           /\ disturbed' = (disturbed \/ Busy # {})
           /\ UNCHANGED <<service, stores, loggedOut, together>>
<1> DEFINE stored == lastNick # NoNick /\ cred[lastNick] # NoToken
           e == [op |-> "restore", pc |-> "wait", nick |-> lastNick,
                 token |-> cred[lastNick]]
           a == Ask(s, "refresh", lastNick, cred[lastNick])
           Old == {[r EXCEPT !.from = "nobody"] :
                       r \in {q \in wire : q.stage \in {"sent", "revoked"}}}
<1>1. /\ faults < MaxFaults /\ faults' = faults + 1 /\ shown' = NoNick
      /\ slot' = [b \in Slot |-> IF stored /\ b = s THEN e ELSE Idle]
      /\ wire' = Old \cup (IF stored THEN {a} ELSE {})
      /\ disturbed' = (disturbed \/ Busy # {})
      /\ UNCHANGED <<service, stores, loggedOut, together>>
  BY DEF Reopen
<1>2. faults' \in 0..MaxFaults
  BY <1>1, SessionAssumption DEF TypeOK
<1>3. \A q \in Old : \E r \in wire :
          /\ Fields(q, "nobody", r.route, r.nick, r.token, r.stage)
          /\ q = [r EXCEPT !.from = "nobody"]
          /\ r.stage \in {"sent", "revoked"}
  <2>1. ASSUME NEW q \in Old
        PROVE  \E r \in wire :
                  /\ Fields(q, "nobody", r.route, r.nick, r.token, r.stage)
                  /\ q = [r EXCEPT !.from = "nobody"]
                  /\ r.stage \in {"sent", "revoked"}
    <3>1. PICK r \in wire : /\ q = [r EXCEPT !.from = "nobody"]
                            /\ r.stage \in {"sent", "revoked"}
      OBVIOUS
    <3>2. Fields([r EXCEPT !.from = "nobody"],
                 "nobody", r.route, r.nick, r.token, r.stage)
      BY RequestFacts, TurnFacts
    <3>3. QED
      BY <3>1, <3>2
  <2>2. QED
    BY <2>1
<1>4. Old \subseteq Request /\ \A q \in Old : q.from = "nobody"
  BY <1>3 DEF Fields
<1>5. stored => lastNick \in Nick /\ cred[lastNick] \in Token
  BY DEF TypeOK
<1>6. stored => /\ e \in Process
                /\ e.op = "restore" /\ e.pc = "wait"
                /\ e.nick = lastNick /\ e.token = cred[lastNick]
  BY <1>5 DEF Process, Command
<1>7. stored => Fields(a, s, "refresh", lastNick, cred[lastNick], "sent")
  BY <1>5, AskFacts DEF Route
<1> HIDE DEF stored, e, a, Old
<1>8. slot' \in [Slot -> Process] /\ \A b \in Slot : b # s => slot'[b] = Idle
  BY <1>1, <1>6, IdleFacts
<1>9. CASE stored
  <2>1. /\ wire' = Old \cup {a} /\ a.from = s /\ s # "nobody" /\ a \in Request
    BY <1>1, <1>7, <1>9, SessionAssumption DEF Fields
  <2>2. slot'[s] = e
    BY <1>1, <1>9
  <2>3. QED
    BY <1>1, <1>2, <1>3, <1>4, <1>5, <1>6, <1>7, <1>8, <1>9, <2>1, <2>2
<1>10. CASE ~stored
  <2>1. wire' = Old /\ slot'[s] = Idle
    BY <1>1, <1>10
  <2>2. QED
    BY <1>1, <1>2, <1>3, <1>4, <1>8, <2>1
<1>11. QED
  BY <1>9, <1>10

(* What a click adds to the history.                                       *)
LEMMA StartHistory ==
    ASSUME TypeOK, NEW s \in Slot, NEW op, NEW pc, NEW n, NEW t, Start(s, op, pc, n, t)
    PROVE  /\ disturbed' \in BOOLEAN /\ together' \subseteq {"logout", "other"}
           /\ loggedOut' \subseteq loggedOut
           /\ \/ FreshStart(op)
              \/ /\ disturbed' = disturbed /\ together \subseteq together'
                 /\ loggedOut' = loggedOut
           /\ ~disturbed /\ together = {} => loggedOut' = loggedOut
           /\ FreshStart(op) /\ (disturbed \/ together # {}) => loggedOut' = {}
           /\ together' = {} => Busy = {}
           /\ "logout" \notin together' =>
                 Busy = {} \/ (op # "logout" /\ ~LogoutRuns)
<1>1. Overlap(op) \subseteq {"logout", "other"}
  BY DEF Overlap
<1>2. Overlap(op) = {} => Busy = {}
  BY DEF Overlap
<1>3. "logout" \notin Overlap(op) => Busy = {} \/ (op # "logout" /\ ~LogoutRuns)
  BY IdleFacts DEF Overlap, Busy, LogoutRuns
<1>4. CASE FreshStart(op) /\ (disturbed \/ together # {})
  BY <1>4 DEF Start, FreshStart
<1>5. CASE ~(FreshStart(op) /\ (disturbed \/ together # {}))
  <2>1. together' = together \cup Overlap(op) /\ UNCHANGED <<disturbed, loggedOut>>
    BY <1>5 DEF Start
  <2>2. QED
    BY <1>1, <1>2, <1>3, <1>5, <2>1 DEF TypeOK
<1>6. QED
  BY <1>4, <1>5

-----------------------------------------------------------------------------
(* Type correctness, and the commands with their requests.                 *)

Waits == \A s \in Slot : slot[s].pc = "wait" <=> \E r \in wire : r.from = s

(* The conjuncts of CommandInv.                                            *)
SlotOk(s) ==
    /\ slot[s].op = "none" \/ slot[s].pc = "idle" => slot[s] = Idle
    /\ slot[s] # Idle => slot[s].nick \in Nick
    /\ slot[s].pc = "store" => slot[s].token # NoToken
    /\ slot[s].pc \in {"store", "file", "show"} => slot[s].op # "logout"
    /\ slot[s].pc \in {"clear", "forget"} => slot[s].op = "logout"
PairOk(r) ==
    r.from # "nobody" =>
        /\ r.nick = slot[r.from].nick
        /\ r.route = "logout" <=> slot[r.from].op = "logout"
        /\ \A q \in wire : q.from = r.from => q = r
RequestOk(r) ==
    /\ r.stage = "revoked" => r.route = "refresh"
    /\ r.route \in {"refresh", "logout"} /\ r.stage \in {"sent", "revoked"}
          => r.token # NoToken
    /\ r.route \in {"login", "refresh"} /\ r.stage = "ok" => r.token # NoToken

CommandsOk ==
    /\ slot \in [Slot -> Process] /\ wire \subseteq Request /\ Waits
    /\ \A s \in Slot : SlotOk(s)
    /\ \A r \in wire : PairOk(r) /\ RequestOk(r)

LEMMA CommandsAre ==
    /\ TypeOK /\ CommandInv => CommandsOk
    /\ CommandsOk => CommandInv
BY DEF CommandsOk, CommandInv, TypeOK, Waits, SlotOk, PairOk, RequestOk

LEMMA BeginsCommands ==
    ASSUME TypeOK, CommandInv, NEW s \in Slot, Begins(s)
    PROVE  CommandsOk'
<1>1. PICK op \in Command, n \in Nick, t \in Token \cup {NoToken} :
        /\ slot[s] = Idle
        /\ \/ /\ Turn(s, op, "wait", n, t)
              /\ \E route \in Route :
                    /\ Sends(s, route, n, t)
                    /\ route = "logout" <=> op = "logout"
                    /\ route \in {"refresh", "logout"} => t # NoToken
           \/ /\ op = "logout" /\ Turn(s, op, "clear", n, NoToken)
              /\ wire' = wire
  BY DEF Begins
<1> USE CommandsAre DEF CommandsOk
<1>2. s # "nobody" /\ op # "none" /\ \A r \in wire : r.from # s
  BY <1>1, IdleFacts, SessionAssumption DEF Waits, Command
<1>3. CASE /\ Turn(s, op, "wait", n, t)
           /\ \E route \in Route :
                 /\ Sends(s, route, n, t)
                 /\ route = "logout" <=> op = "logout"
                 /\ route \in {"refresh", "logout"} => t # NoToken
  <2>1. PICK route, q :
              /\ route \in Route
              /\ Fields(q, s, route, n, t, "sent") /\ wire' = wire \cup {q}
              /\ route = "logout" <=> op = "logout"
              /\ route \in {"refresh", "logout"} => t # NoToken
    BY <1>3 DEF Sends
  <2>2. slot' \in [Slot -> Process] /\ wire' \subseteq Request
    BY <1>3, <2>1 DEF Turn, Fields
  <2>3. Waits'
    BY <1>2, <1>3, <2>1 DEF Turn, Fields, Waits
  <2>4. \A b \in Slot : SlotOk(b)'
    BY <1>2, <1>3, IdleFacts, NickIsReal DEF Turn, SlotOk
  <2>5. \A r \in wire' : PairOk(r)' /\ RequestOk(r)'
    <3>1. ASSUME NEW r \in wire' PROVE PairOk(r)'
      <4>1. CASE r = q
        BY <1>2, <1>3, <2>1, <4>1 DEF Turn, Fields, PairOk
      <4>2. CASE r \in wire
        BY <1>2, <1>3, <2>1, <4>2, RequestFacts DEF Turn, Fields, PairOk
      <4>3. QED
        BY <2>1, <4>1, <4>2
    <3>2. ASSUME NEW r \in wire' PROVE RequestOk(r)'
      BY <2>1 DEF Fields, RequestOk
    <3>3. QED
      BY <3>1, <3>2
  <2>6. QED
    BY <2>2, <2>3, <2>4, <2>5
<1>4. CASE op = "logout" /\ Turn(s, op, "clear", n, NoToken) /\ wire' = wire
  <2>1. slot' \in [Slot -> Process] /\ wire' \subseteq Request
    BY <1>4 DEF Turn
  <2>2. Waits'
    BY <1>2, <1>4 DEF Turn, Waits
  <2>3. \A b \in Slot : SlotOk(b)'
    BY <1>2, <1>4, IdleFacts, NickIsReal DEF Turn, SlotOk
  <2>4. \A r \in wire' : PairOk(r)' /\ RequestOk(r)'
    BY <1>2, <1>4, RequestFacts DEF Turn, PairOk, RequestOk
  <2>5. QED
    BY <2>1, <2>2, <2>3, <2>4
<1>5. QED
  BY <1>1, <1>3, <1>4

(* The service changes a request, and no command.                          *)
LEMMA ServedCommands ==
    ASSUME TypeOK, CommandInv, NEW r \in wire, NEW t \in Token \cup {NoToken}, NEW stage,
           Settles(r, t, stage) \/ Turns(r, r.from, r.route, t, stage),
           stage = "revoked" => r.route = "refresh",
           r.route \in {"refresh", "logout"} /\ stage \in {"sent", "revoked"} => t # NoToken,
           r.route \in {"login", "refresh"} /\ stage = "ok" => t # NoToken,
           UNCHANGED slot
    PROVE  CommandsOk'
<1> USE CommandsAre DEF CommandsOk
<1>1. CASE Turns(r, r.from, r.route, t, stage)
  <2>1. PICK q : Fields(q, r.from, r.route, r.nick, t, stage)
                 /\ wire' = (wire \ {r}) \cup {q}
    BY <1>1 DEF Turns
  <2>2. slot' \in [Slot -> Process] /\ wire' \subseteq Request
    BY <2>1 DEF Fields
  <2>3. Waits'
    BY <2>1 DEF Fields, Waits
  <2>4. \A b \in Slot : SlotOk(b)'
    BY DEF SlotOk
  <2>5. \A p \in wire' : PairOk(p)'
    BY <2>1 DEF Fields, PairOk
  <2>6. \A p \in wire' : RequestOk(p)'
    BY <2>1 DEF Fields, RequestOk
  <2>7. QED
    BY <2>2, <2>3, <2>4, <2>5, <2>6
<1>2. CASE r.from = "nobody" /\ wire' = wire \ {r}
  <2>1. Waits'
    BY <1>2, SessionAssumption DEF Waits
  <2>2. QED
    BY <1>2, <2>1 DEF SlotOk, PairOk, RequestOk
<1>3. QED
  BY <1>1, <1>2 DEF Settles

(* A command gets its answer, or stops to wait for it.                     *)
LEMMA ReceivedCommands ==
    ASSUME TypeOK, CommandInv, NEW s \in Slot, NEW r \in wire, r.from = s,
           NEW pc \in {"store", "clear"}, NEW t \in Token \cup {NoToken},
           wire' = wire \ {r} \/ Turns(r, "nobody", r.route, r.token, r.stage),
           \/ Stops(s)
           \/ /\ Turn(s, slot[s].op, pc, slot[s].nick, t)
              /\ pc = "store" => t # NoToken /\ slot[s].op # "logout"
              /\ pc = "clear" => slot[s].op = "logout"
    PROVE  CommandsOk'
<1> USE CommandsAre DEF CommandsOk
<1>1. /\ slot[s].nick \in Nick /\ slot[s].op # "none" /\ s # "nobody"
      /\ \A q \in wire : q.from = s => q = r
  BY WaitFacts DEF CommandInv
<1>2. /\ slot' \in [Slot -> Process] /\ slot'[s].pc # "wait"
      /\ \A b \in Slot : b # s => slot'[b] = slot[b]
  BY IdleFacts DEF Stops, Turn
<1>3. /\ wire' \subseteq Request
      /\ \A q \in wire : q # r => q \in wire'
      /\ \A q \in wire' : q \in wire \/ q.from = "nobody"
      /\ \A q \in wire' : q.from # s
      /\ \A q \in wire' : RequestOk(q)
  <2>1. CASE wire' = wire \ {r}
    BY <1>1, <2>1
  <2>2. CASE Turns(r, "nobody", r.route, r.token, r.stage)
    <3>1. PICK q : Fields(q, "nobody", r.route, r.nick, r.token, r.stage)
                   /\ wire' = (wire \ {r}) \cup {q}
      BY <2>2 DEF Turns
    <3>2. RequestOk(q)
      BY <3>1 DEF Fields, RequestOk
    <3>3. QED
      BY <1>1, <3>1, <3>2 DEF Fields
  <2>3. QED
    BY <2>1, <2>2
<1>4. Waits'
  BY <1>1, <1>2, <1>3, SessionAssumption DEF Waits
<1>5. \A b \in Slot : SlotOk(b)'
  <2>1. SlotOk(s)'
    BY <1>1, IdleFacts DEF Stops, Turn, SlotOk
  <2>2. QED
    BY <1>2, <2>1 DEF SlotOk
<1>6. \A q \in wire' : PairOk(q)'
  BY <1>2, <1>3, RequestFacts DEF PairOk
<1>7. \A q \in wire' : RequestOk(q)'
  BY <1>3 DEF RequestOk
<1>8. QED
  BY <1>2, <1>3, <1>4, <1>5, <1>6, <1>7

(* A command past its answer goes on, or ends.                             *)
LEMMA WorkedCommands ==
    ASSUME TypeOK, CommandInv, NEW s \in Slot,
           slot[s].pc \in {"store", "file", "show", "clear", "forget"},
           NEW pc \in {"file", "show", "forget"},
           UNCHANGED wire,
           \/ Stops(s)
           \/ /\ Turn(s, slot[s].op, pc, slot[s].nick, slot[s].token)
              /\ pc = "forget" <=> slot[s].op = "logout"
    PROVE  CommandsOk'
<1> USE CommandsAre DEF CommandsOk
<1>1. /\ slot[s].nick \in Nick /\ slot[s].op # "none"
      /\ \A r \in wire : r.from # s
  BY WorkFacts
<1>2. /\ slot' \in [Slot -> Process] /\ slot'[s].pc # "wait"
      /\ \A b \in Slot : b # s => slot'[b] = slot[b]
  BY IdleFacts DEF Stops, Turn
<1>3. Waits'
  BY <1>1, <1>2 DEF Waits
<1>4. \A b \in Slot : SlotOk(b)'
  <2>1. SlotOk(s)'
    BY <1>1, IdleFacts DEF Stops, Turn, SlotOk
  <2>2. QED
    BY <1>2, <2>1 DEF SlotOk
<1>5. \A q \in wire' : PairOk(q)'
  BY <1>1, <1>2, RequestFacts DEF PairOk
<1>6. \A q \in wire' : RequestOk(q)'
  BY DEF RequestOk
<1>7. QED
  BY <1>2, <1>3, <1>4, <1>5, <1>6

LEMMA RegisteredCommands ==
    ASSUME TypeOK, CommandInv, NEW s \in Slot, NEW r \in wire, Registered(s, r)
    PROVE  CommandsOk'
<1> USE CommandsAre DEF CommandsOk
<1>1. /\ r.from = s /\ r.route = "register" /\ UNCHANGED slot
      /\ Turns(r, s, "login", NoToken, "sent")
  BY RegisteredFacts DEF LocalState
<1>2. PICK q : Fields(q, s, "login", r.nick, NoToken, "sent")
               /\ wire' = (wire \ {r}) \cup {q}
  BY <1>1 DEF Turns
<1>3. slot' \in [Slot -> Process] /\ wire' \subseteq Request
  BY <1>1, <1>2 DEF Fields
<1>4. Waits'
  BY <1>1, <1>2 DEF Fields, Waits
<1>5. \A p \in wire' : PairOk(p)'
  BY <1>1, <1>2 DEF Fields, PairOk
<1>6. \A p \in wire' : RequestOk(p)'
  BY <1>2 DEF Fields, RequestOk
<1>7. QED
  BY <1>1, <1>3, <1>4, <1>5, <1>6 DEF SlotOk

LEMMA ReopenCommands ==
    ASSUME TypeOK, CommandInv, NEW s \in Slot, Reopen(s)
    PROVE  CommandsOk'
<1> USE CommandsAre DEF CommandsOk
<1>1. /\ slot' \in [Slot -> Process] /\ wire' \subseteq Request
      /\ \A b \in Slot : b # s => slot'[b] = Idle
  BY ReopenFacts
<1>2. \A q \in wire' : q.from = "nobody" => RequestOk(q)
  <2>1. ASSUME NEW q \in wire', q.from = "nobody"
        PROVE  RequestOk(q)
    <3>1. PICK r \in wire : Fields(q, "nobody", r.route, r.nick, r.token, r.stage)
      BY <2>1, ReopenFacts
    <3>2. QED
      BY <3>1 DEF Fields, RequestOk
  <2>2. QED
    BY <2>1
<1>3. CASE slot'[s] = Idle /\ \A q \in wire' : q.from = "nobody"
  <2>1. Waits'
    BY <1>1, <1>3, IdleFacts, SessionAssumption DEF Waits
  <2>2. \A b \in Slot : SlotOk(b)'
    BY <1>1, <1>3, IdleFacts DEF SlotOk
  <2>3. QED
    BY <1>1, <1>2, <1>3, <2>1, <2>2 DEF PairOk, RequestOk
<1>4. CASE /\ lastNick \in Nick /\ cred[lastNick] \in Token
           /\ slot'[s].op = "restore" /\ slot'[s].pc = "wait"
           /\ slot'[s].nick = lastNick /\ slot'[s].token = cred[lastNick]
           /\ \E a \in wire' :
                 /\ Fields(a, s, "refresh", lastNick, cred[lastNick], "sent")
                 /\ \A q \in wire' : q = a \/ q.from = "nobody"
  <2>1. PICK a \in wire' : /\ Fields(a, s, "refresh", lastNick, cred[lastNick], "sent")
                           /\ \A q \in wire' : q = a \/ q.from = "nobody"
    BY <1>4
  <2>2. Waits'
    BY <1>1, <1>4, <2>1, IdleFacts, SessionAssumption DEF Waits, Fields
  <2>3. \A b \in Slot : SlotOk(b)'
    BY <1>1, <1>4, IdleFacts DEF SlotOk
  <2>4. RequestOk(a)
    BY <1>4, <2>1, TokenIsReal DEF RequestOk, Fields
  <2>5. \A q \in wire' : PairOk(q)'
    BY <1>4, <2>1, SessionAssumption DEF PairOk, Fields
  <2>6. QED
    BY <1>1, <1>2, <2>1, <2>2, <2>3, <2>4, <2>5 DEF RequestOk
<1>5. QED
  BY <1>3, <1>4, ReopenFacts

LEMMA CommandsStep ==
    ASSUME TypeOK, CommandInv, Next
    PROVE  CommandsOk'
<1>1. ASSUME NEW s \in Slot, Click(s) PROVE CommandsOk'
  BY <1>1, ClickBegins, BeginsCommands
<1>2. ASSUME NEW r \in wire, Serve(r) PROVE CommandsOk'
  <2>1. r.token \in Token \cup {NoToken}
    BY RequestFacts
  <2>2. CASE ServeRegister(r)
    BY <2>2, RegisterFacts, ServedCommands DEF LocalState
  <2>3. ASSUME NEW chain, Grants(r, chain), UNCHANGED LocalState PROVE CommandsOk'
    <3>1. PICK t \in Token : Settles(r, t, "ok")
      BY <2>3 DEF Grants
    <3>2. t # NoToken /\ UNCHANGED slot
      BY <2>3, TokenIsReal DEF LocalState
    <3>3. QED
      BY <3>1, <3>2, ServedCommands
  <2>4. CASE ServeLogin(r)
    BY <2>3, <2>4, LoginFacts
  <2>5. CASE Rotate(r)
    BY <2>3, <2>5, RotateFacts
  <2>6. CASE Revoke(r)
    <3>1. /\ r.route = "refresh" /\ r.stage = "sent" /\ UNCHANGED slot
          /\ Turns(r, r.from, r.route, r.token, "revoked")
      BY <2>6, RevokeFacts DEF LocalState
    <3>2. r.token # NoToken
      BY <3>1 DEF CommandInv
    <3>3. QED
      BY <2>1, <3>1, <3>2, ServedCommands
  <2>7. CASE ServeLogout(r)
    BY <2>7, ServeLogoutFacts, ServedCommands DEF LocalState
  <2>8. CASE Refuse(r)
    <3>1. Settles(r, r.token, "refused") /\ UNCHANGED slot
      BY <2>8, RefuseFacts DEF LocalState
    <3>2. QED
      BY <2>1, <3>1, ServedCommands
  <2>9. CASE Fail(r)
    <3>1. Settles(r, r.token, "failed") /\ UNCHANGED slot
      BY <2>9, FailFacts
    <3>2. QED
      BY <2>1, <3>1, ServedCommands
  <2>10. QED
    BY <1>2, <2>2, <2>4, <2>5, <2>6, <2>7, <2>8, <2>9 DEF Serve
<1>3. ASSUME NEW s \in Slot, Receive(s) PROVE CommandsOk'
  <2>1. PICK r \in wire : Registered(s, r) \/ Granted(s, r) \/ Answered(s, r)
    BY <1>3 DEF Receive
  <2>2. CASE Registered(s, r)
    BY <2>2, RegisteredCommands
  <2>3. CASE Granted(s, r)
    <3>1. /\ r.from = s /\ wire' = wire \ {r} /\ slot[s].op # "logout"
          /\ Turn(s, slot[s].op, "store", slot[s].nick, r.token)
          /\ r.token \in Token /\ r.token # NoToken
      BY <2>3, GrantedFacts, WaitFacts, TokenIsReal
    <3>2. QED
      BY <3>1, ReceivedCommands
  <2>4. CASE Answered(s, r)
    <3>1. slot[s].token \in Token \cup {NoToken}
      BY DEF TypeOK, Process
    <3>2. QED
      BY <2>4, <3>1, AnsweredFacts, ReceivedCommands
  <2>5. QED
    BY <2>1, <2>2, <2>3, <2>4
<1>4. ASSUME NEW s \in Slot, NEW r \in wire, GiveUp(s, r) PROVE CommandsOk'
  <2>1. slot[s].token \in Token \cup {NoToken}
    BY DEF TypeOK, Process
  <2>2. /\ r.from = s
        /\ wire' = wire \ {r} \/ Turns(r, "nobody", r.route, r.token, r.stage)
        /\ \/ /\ slot[s].op = "logout"
              /\ Turn(s, slot[s].op, "clear", slot[s].nick, slot[s].token)
           \/ Stops(s)
    BY <1>4, GiveUpFacts
  <2>3. QED
    BY <2>1, <2>2, ReceivedCommands
<1>5. ASSUME NEW s \in Slot, Store(s) PROVE CommandsOk'
  <2>1. CASE StoreCred(s)
    <3>1. slot[s].pc = "store" /\ UNCHANGED wire
          /\ Turn(s, slot[s].op, "file", slot[s].nick, slot[s].token)
      BY <2>1, StoreCredFacts
    <3>2. slot[s].op # "logout"
      BY <3>1, WorkFacts
    <3>3. QED
      BY <3>1, <3>2, WorkedCommands
  <2>2. CASE StoreFile(s)
    <3>1. slot[s].pc = "file" /\ UNCHANGED wire
          /\ Turn(s, slot[s].op, "show", slot[s].nick, slot[s].token)
      BY <2>2, StoreFileFacts
    <3>2. slot[s].op # "logout"
      BY <3>1, WorkFacts
    <3>3. QED
      BY <3>1, <3>2, WorkedCommands
  <2>3. CASE ClearCred(s)
    <3>1. slot[s].pc = "clear" /\ UNCHANGED wire
          /\ Turn(s, slot[s].op, "forget", slot[s].nick, slot[s].token)
      BY <2>3, ClearCredFacts
    <3>2. slot[s].op = "logout"
      BY <3>1, WorkFacts
    <3>3. QED
      BY <3>1, <3>2, WorkedCommands
  <2>4. CASE StoreFails(s) \/ Show(s) \/ ClearFile(s)
    <3>1. slot[s].pc \in {"store", "show", "forget"} /\ Stops(s) /\ UNCHANGED wire
      BY <2>4, StoreFailsFacts, ShowFacts, ClearFileFacts
    <3>2. "file" \in {"file", "show", "forget"}
      OBVIOUS
    <3>3. QED
      BY <3>1, <3>2, WorkedCommands
  <2>5. QED
    BY <1>5, <2>1, <2>2, <2>3, <2>4 DEF Store
<1>6. ASSUME NEW s \in Slot, Reopen(s) PROVE CommandsOk'
  BY <1>6, ReopenCommands
<1>7. CASE ClickPlayUnstored
  <2>1. UNCHANGED <<wire, slot>> /\ CommandsOk
    BY <1>7, CommandsAre DEF ClickPlayUnstored
  <2>2. QED
    BY <2>1 DEF CommandsOk, Waits, SlotOk, PairOk, RequestOk
<1>8. ASSUME NEW t \in live, Expire(t) PROVE CommandsOk'
  <2>1. UNCHANGED <<wire, slot>> /\ CommandsOk
    BY <1>8, CommandsAre DEF Expire
  <2>2. QED
    BY <2>1 DEF CommandsOk, Waits, SlotOk, PairOk, RequestOk
<1>9. QED
  BY <1>1, <1>2, <1>3, <1>4, <1>5, <1>6, <1>7, <1>8 DEF Next

(* The variables that are neither commands nor requests.                   *)
RestType ==
    /\ regNick \in [Account -> Nick \cup {NoNick}]
    /\ live \subseteq Token /\ issued \in 0..MaxTokens
    /\ cred \in [Nick -> Token \cup {NoToken}]
    /\ lastNick \in Nick \cup {NoNick} /\ shown \in Nick \cup {NoNick}
    /\ faults \in 0..MaxFaults /\ loggedOut \subseteq 1..MaxTokens
    /\ disturbed \in BOOLEAN /\ together \subseteq {"logout", "other"}

LEMMA TypesAre == /\ TypeOK => RestType
                  /\ RestType /\ CommandsOk => TypeOK
BY DEF RestType, CommandsOk, Waits, TypeOK

LEMMA ClickType ==
    ASSUME TypeOK, NEW s \in Slot, Click(s)
    PROVE  RestType'
<1>1. RestType
  BY TypesAre
<1>2. UNCHANGED <<service, stores, shown, faults>>
  BY ClickBegins DEF Begins
<1>3. /\ disturbed' \in BOOLEAN /\ together' \subseteq {"logout", "other"}
      /\ loggedOut' \subseteq loggedOut
  <2>1. ASSUME NEW op \in {"login", "register"}, NEW n \in Nick, SubmitForm(s, op, n)
        PROVE  \E pc, m, t : Start(s, op, pc, m, t)
    BY <2>1 DEF SubmitForm
  <2>2. CASE ClickPlay(s)
    BY <2>2, StartHistory DEF ClickPlay
  <2>3. CASE ClickLogout(s)
    BY <2>3, StartHistory DEF ClickLogout
  <2>4. QED
    BY <2>1, <2>2, <2>3, StartHistory DEF Click
<1>4. QED
  BY <1>1, <1>2, <1>3 DEF RestType, service, stores

LEMMA ServeType ==
    ASSUME TypeOK, CommandInv, NEW r \in wire, Serve(r)
    PROVE  RestType'
<1>1. RestType
  BY TypesAre
<1>2. CASE ServeRegister(r)
  BY <1>1, <1>2, RegisterFacts DEF LocalState, RestType, stores, history
<1>3. ASSUME NEW chain, Grants(r, chain), UNCHANGED regNick, UNCHANGED LocalState
      PROVE  RestType'
  BY <1>1, <1>3 DEF Grants, LocalState, RestType, stores, history
<1>4. CASE ServeLogin(r)
  BY <1>3, <1>4, LoginFacts
<1>5. CASE Rotate(r)
  BY <1>3, <1>5, RotateFacts
<1>6. CASE Revoke(r)
  BY <1>1, <1>6, RevokeFacts DEF LocalState, RestType, stores, history
<1>7. CASE ServeLogout(r)
  BY <1>1, <1>7, ServeLogoutFacts DEF LocalState, RestType, stores, history
<1>8. CASE Refuse(r)
  BY <1>1, <1>8, RefuseFacts DEF LocalState, RestType, stores, history, service
<1>9. CASE Fail(r)
  BY <1>1, <1>9, FailFacts DEF RestType, stores, service
<1>10. QED
  BY <1>2, <1>4, <1>5, <1>6, <1>7, <1>8, <1>9 DEF Serve

LEMMA StoreType ==
    ASSUME TypeOK, CommandInv, NEW s \in Slot, Store(s)
    PROVE  RestType'
<1>1. RestType
  BY TypesAre
<1>2. CASE StoreCred(s)
  BY <1>1, <1>2, StoreCredFacts DEF RestType, service, history
<1>3. CASE StoreFails(s)
  BY <1>1, <1>3, StoreFailsFacts DEF RestType, service, stores
<1>4. CASE StoreFile(s)
  BY <1>1, <1>4, StoreFileFacts DEF RestType, service, history
<1>5. CASE Show(s)
  BY <1>1, <1>5, ShowFacts DEF RestType, service, history, stores
<1>6. CASE ClearCred(s)
  BY <1>1, <1>6, ClearCredFacts DEF RestType, service, history
<1>7. CASE ClearFile(s)
  <2>1. slot[s].token # NoToken => slot[s].token.chain \in 1..MaxTokens
    BY DEF TypeOK, Process, Token
  <2>2. loggedOut' \subseteq 1..MaxTokens
    BY <1>1, <1>7, <2>1, ClearFileFacts DEF RestType
  <2>3. QED
    BY <1>1, <1>7, <2>2, ClearFileFacts DEF RestType, service
<1>8. QED
  BY <1>2, <1>3, <1>4, <1>5, <1>6, <1>7 DEF Store

LEMMA TypeStep ==
    ASSUME TypeOK, CommandInv, Next
    PROVE  TypeOK' /\ CommandInv'
<1>1. RestType'
  <2>1. RestType
    BY TypesAre
  <2>2. ASSUME NEW s \in Slot, Receive(s) PROVE RestType'
    <3>1. PICK r \in wire : Registered(s, r) \/ Granted(s, r) \/ Answered(s, r)
      BY <2>2 DEF Receive
    <3>2. UNCHANGED <<service, stores, history>> /\ shown' \in {shown, NoNick}
      BY <3>1, RegisteredFacts, GrantedFacts, AnsweredFacts DEF LocalState
    <3>3. QED
      BY <2>1, <3>2 DEF RestType, service, stores, history
  <2>3. ASSUME NEW s \in Slot, NEW r \in wire, GiveUp(s, r) PROVE RestType'
    <3>1. /\ UNCHANGED <<service, stores, loggedOut, together>>
          /\ shown' \in {shown, NoNick}
          /\ faults' \in 0..MaxFaults /\ disturbed' = TRUE
      BY <2>3, GiveUpFacts
    <3>2. QED
      BY <2>1, <3>1 DEF RestType, service, stores
  <2>4. ASSUME NEW s \in Slot, Reopen(s) PROVE RestType'
    BY <2>1, <2>4, ReopenFacts DEF RestType, service, stores
  <2>5. CASE ClickPlayUnstored
    BY <2>1, <2>5 DEF ClickPlayUnstored, RestType, service, stores, history
  <2>6. ASSUME NEW t \in live, Expire(t) PROVE RestType'
    BY <2>1, <2>6, DisturbFacts DEF Expire, RestType, stores
  <2>7. QED
    BY <2>2, <2>3, <2>4, <2>5, <2>6, ClickType, ServeType, StoreType DEF Next
<1>2. CommandsOk'
  BY CommandsStep
<1>3. TypeOK' /\ CommandInv'
  BY <1>1, <1>2, TypesAre, CommandsAre DEF RestType, CommandsOk, Waits, TypeOK, SlotOk, PairOk, RequestOk, CommandInv
<1>4. QED
  BY <1>3

-----------------------------------------------------------------------------
(* Tokens, their chains and who has them.                                  *)

(* No token gets to a nick that did not have one.                          *)
Spreads == \A n \in Nick, t \in Token : Holds(n, t)' => Holds(n, t)

LEMMA StopSpreads ==
    ASSUME NEW s \in Slot, Stops(s), wire' \subseteq wire, UNCHANGED cred
    PROVE  Spreads
BY IdleFacts, TokenIsReal DEF Stops, Spreads, Holds

LEMMA TurnSpreads ==
    ASSUME NEW s \in Slot, NEW op, NEW pc, Turn(s, op, pc, slot[s].nick, slot[s].token),
           wire' \subseteq wire, UNCHANGED cred
    PROVE  Spreads
BY DEF Turn, Spreads, Holds

LEMMA ClickSpreads ==
    ASSUME TypeOK, NEW s \in Slot, Begins(s)
    PROVE  Spreads
<1>1. PICK op \in Command, n \in Nick, t \in Token \cup {NoToken} :
        /\ slot[s] = Idle
        /\ t # NoToken => t = cred[n]
        /\ \/ /\ Turn(s, op, "wait", n, t)
              /\ \E route \in Route :
                    /\ Sends(s, route, n, t)
                    /\ route = "logout" <=> op = "logout"
                    /\ route \in {"refresh", "logout"} => t # NoToken
           \/ /\ op = "logout" /\ Turn(s, op, "clear", n, NoToken)
              /\ wire' = wire
        /\ UNCHANGED <<service, stores, shown, faults>>
  BY DEF Begins
<1>2. UNCHANGED cred /\ \A u \in Token : u = t => Holds(n, u)
  BY <1>1, TokenIsReal DEF Holds, stores
<1>3. CASE op = "logout" /\ Turn(s, op, "clear", n, NoToken) /\ wire' = wire
  BY <1>2, <1>3, TokenIsReal DEF Turn, Spreads, Holds
<1>4. CASE /\ Turn(s, op, "wait", n, t)
           /\ \E route \in Route :
                 /\ Sends(s, route, n, t)
                 /\ route = "logout" <=> op = "logout"
                 /\ route \in {"refresh", "logout"} => t # NoToken
  <2>1. PICK route, q : Fields(q, s, route, n, t, "sent") /\ wire' = wire \cup {q}
    BY <1>4 DEF Sends
  <2>2. \A u \in Token, m \in Nick : Holds(m, u)' => Holds(m, u) \/ (m = n /\ u = t)
    BY <1>2, <1>4, <2>1 DEF Turn, Fields, Holds
  <2>3. QED
    BY <1>2, <2>2 DEF Spreads
<1>5. QED
  BY <1>1, <1>3, <1>4

(* A request that keeps its token or loses it.                             *)
LEMMA TurnsSpreads ==
    ASSUME NEW r \in wire, NEW from, NEW route, NEW stage,
           NEW t \in {r.token, NoToken},
           Turns(r, from, route, t, stage) \/ wire' = wire \ {r},
           UNCHANGED <<cred, slot>>
    PROVE  Spreads
<1>1. CASE wire' = wire \ {r}
  BY <1>1 DEF Spreads, Holds
<1>2. CASE Turns(r, from, route, t, stage)
  <2>1. PICK q : Fields(q, from, route, r.nick, t, stage)
                 /\ wire' = (wire \ {r}) \cup {q}
    BY <1>2 DEF Turns
  <2>2. QED
    BY <2>1, TokenIsReal DEF Fields, Spreads, Holds
<1>3. QED
  BY <1>1, <1>2

LEMMA SettlesSpreads ==
    ASSUME NEW r \in wire, NEW stage, NEW t \in {r.token, NoToken},
           Settles(r, t, stage), UNCHANGED <<cred, slot>>
    PROVE  Spreads
BY TurnsSpreads DEF Settles

LEMMA GrantSpreads ==
    ASSUME NEW r \in wire, NEW t \in Token, Settles(r, t, "ok"), UNCHANGED <<cred, slot>>
    PROVE  \A n \in Nick, u \in Token :
               Holds(n, u)' => Holds(n, u) \/ (n = r.nick /\ u = t)
<1>1. CASE wire' = wire \ {r}
  BY <1>1 DEF Holds
<1>2. CASE Turns(r, r.from, r.route, t, "ok")
  <2>1. PICK q : Fields(q, r.from, r.route, r.nick, t, "ok")
                 /\ wire' = (wire \ {r}) \cup {q}
    BY <1>2 DEF Turns
  <2>2. QED
    BY <2>1 DEF Fields, Holds
<1>3. QED
  BY <1>1, <1>2 DEF Settles

(* Revoked requests are those of before: none is new, none is doubled.     *)
Revoked(r) == r \in wire /\ r.stage = "revoked"
RevokedKept ==
    \A p, q \in wire' : p.stage = "revoked" /\ q.stage = "revoked" =>
        \E a, b : /\ Revoked(a) /\ a.token = p.token
                  /\ Revoked(b) /\ b.token = q.token
                  /\ a = b => p = q

LEMMA ChainKept ==
    ASSUME TypeOK, CommandInv, ChainInv, Spreads, RevokedKept,
           live' \subseteq live, issued' = issued, loggedOut' \subseteq 1..issued
    PROVE  ChainInv'
<1>1. \A t \in Token : t \in live' \/ (\E n \in Nick : Holds(n, t)') =>
          t.id <= issued' /\ t.chain <= issued'
  BY DEF ChainInv, Spreads
<1>2. \A m, n \in Nick, t, u \in Token :
          Holds(m, t)' /\ Holds(n, u)' /\ t.chain = u.chain => m = n
  BY DEF ChainInv, Spreads
<1>3. \A t, u \in live' : t.chain = u.chain => t = u
  BY DEF ChainInv
<1>4. \A r \in wire' : r.stage = "revoked" => \A t \in live' : t.chain # r.token.chain
  <2>1. ASSUME NEW r \in wire', r.stage = "revoked", NEW t \in live'
        PROVE  t.chain # r.token.chain
    <3>1. PICK a \in wire : a.stage = "revoked" /\ a.token = r.token
      BY <2>1 DEF RevokedKept, Revoked
    <3>2. QED
      BY <3>1 DEF ChainInv
  <2>2. QED
    BY <2>1
<1>5. \A r, q \in wire' : r.stage = "revoked" /\ q.stage = "revoked"
                          /\ q.token.chain = r.token.chain => q = r
  <2>1. ASSUME NEW r \in wire', NEW q \in wire', r.stage = "revoked", q.stage = "revoked",
               q.token.chain = r.token.chain
        PROVE  q = r
    <3>1. PICK a, b : /\ Revoked(a) /\ a.token = r.token
                      /\ Revoked(b) /\ b.token = q.token
                      /\ a = b => r = q
      BY <2>1 DEF RevokedKept
    <3>2. a = b
      BY <2>1, <3>1 DEF ChainInv, Revoked
    <3>3. QED
      BY <3>1, <3>2
  <2>2. QED
    BY <2>1
<1>6. QED
  BY <1>1, <1>2, <1>3, <1>4, <1>5 DEF ChainInv

LEMMA FewerRevoked ==
    ASSUME \A q \in wire' : q.stage = "revoked" => q \in wire
    PROVE  RevokedKept
BY DEF RevokedKept, Revoked

LEMMA TurnsRevoked ==
    ASSUME NEW r \in wire, NEW from, NEW route, NEW t, NEW stage, stage # "revoked",
           Turns(r, from, route, t, stage) \/ wire' = wire \ {r}
    PROVE  RevokedKept
<1>1. \A q \in wire' : q.stage = "revoked" => q \in wire
  BY DEF Turns, Fields
<1>2. QED
  BY <1>1, FewerRevoked

(* Every step but the answer to a log in or a refresh and the revocation.  *)
LEMMA QuietTokens ==
    ASSUME TypeOK, CommandInv, ChainInv
    PROVE  /\ \A s \in Slot : Click(s) => Spreads /\ RevokedKept
           /\ \A r \in wire : ServeRegister(r) \/ ServeLogout(r) \/ Refuse(r) \/ Fail(r) =>
                 Spreads /\ RevokedKept
           /\ \A s \in Slot : Receive(s) => Spreads /\ RevokedKept
           /\ \A s \in Slot, r \in wire : GiveUp(s, r) => Spreads /\ RevokedKept
           /\ \A s \in Slot : Store(s) => Spreads /\ RevokedKept
           /\ \A s \in Slot : Reopen(s) => Spreads /\ RevokedKept
<1>1. ASSUME NEW s \in Slot, Click(s) PROVE Spreads /\ RevokedKept
  <2>1. Begins(s)
    BY <1>1, ClickBegins
  <2>2. \A q \in wire' : q.stage = "revoked" => q \in wire
    BY <2>1 DEF Begins, Sends, Fields
  <2>3. QED
    BY <2>1, <2>2, ClickSpreads, FewerRevoked
<1>2. ASSUME NEW r \in wire, ServeRegister(r) \/ ServeLogout(r) \/ Refuse(r) \/ Fail(r)
      PROVE  Spreads /\ RevokedKept
  <2>1. UNCHANGED <<cred, slot>>
        /\ \E stage \in {"ok", "refused", "failed"}, t \in {r.token, NoToken} :
              Settles(r, t, stage)
    BY <1>2, RegisterFacts, ServeLogoutFacts, RefuseFacts, FailFacts DEF LocalState, stores
  <2>2. PICK stage \in {"ok", "refused", "failed"}, t \in {r.token, NoToken} :
            Settles(r, t, stage)
    BY <2>1
  <2>3. stage # "revoked"
    OBVIOUS
  <2>4. Spreads
    BY <2>1, <2>2, SettlesSpreads
  <2>5. RevokedKept
    BY <2>2, <2>3, TurnsRevoked DEF Settles
  <2>6. QED
    BY <2>4, <2>5
<1>3. ASSUME NEW s \in Slot, Receive(s) PROVE Spreads /\ RevokedKept
  <2>1. PICK r \in wire : Registered(s, r) \/ Granted(s, r) \/ Answered(s, r)
    BY <1>3 DEF Receive
  <2>2. CASE Registered(s, r)
    <3>1. Turns(r, s, "login", NoToken, "sent") /\ UNCHANGED <<cred, slot>>
      BY <2>2, RegisteredFacts DEF LocalState, stores
    <3>2. QED
      BY <3>1, TurnsSpreads, TurnsRevoked
  <2>3. CASE Granted(s, r)
    <3>1. /\ wire' = wire \ {r} /\ UNCHANGED cred
          /\ Turn(s, slot[s].op, "store", r.nick, r.token)
      BY <2>3, GrantedFacts DEF stores
    <3>2. Spreads
      BY <3>1, RequestFacts DEF Turn, Spreads, Holds
    <3>3. QED
      BY <3>1, <3>2, FewerRevoked
  <2>4. CASE Answered(s, r)
    <3>1. wire' = wire \ {r} /\ UNCHANGED cred
          /\ (Stops(s) \/ Turn(s, "logout", "clear", slot[s].nick, slot[s].token))
      BY <2>4, AnsweredFacts DEF stores
    <3>2. Spreads
      BY <3>1, StopSpreads, TurnSpreads
    <3>3. QED
      BY <3>1, <3>2, FewerRevoked
  <2>5. QED
    BY <2>1, <2>2, <2>3, <2>4
<1>4. ASSUME NEW s \in Slot, NEW r \in wire, GiveUp(s, r) PROVE Spreads /\ RevokedKept
  <2>1. /\ UNCHANGED cred
        /\ Stops(s) \/ Turn(s, "logout", "clear", slot[s].nick, slot[s].token)
        /\ \/ wire' = wire \ {r}
           \/ Turns(r, "nobody", r.route, r.token, r.stage)
    BY <1>4, GiveUpFacts DEF stores
  <2>2. CASE wire' = wire \ {r}
    BY <2>1, <2>2, StopSpreads, TurnSpreads, FewerRevoked
  <2>3. CASE Turns(r, "nobody", r.route, r.token, r.stage)
    <3>1. PICK q : Fields(q, "nobody", r.route, r.nick, r.token, r.stage)
                   /\ wire' = (wire \ {r}) \cup {q}
      BY <2>3 DEF Turns
    <3>2. RevokedKept
      BY <3>1 DEF Fields, RevokedKept, Revoked
    <3>3. Spreads
      <4>1. CASE Stops(s)
        BY <2>1, <3>1, <4>1, IdleFacts, TokenIsReal DEF Stops, Fields, Spreads, Holds
      <4>2. CASE Turn(s, "logout", "clear", slot[s].nick, slot[s].token)
        BY <2>1, <3>1, <4>2 DEF Turn, Fields, Spreads, Holds
      <4>3. QED
        BY <2>1, <4>1, <4>2
    <3>4. QED
      BY <3>2, <3>3
  <2>4. QED
    BY <2>1, <2>2, <2>3
<1>5. ASSUME NEW s \in Slot, Store(s) PROVE Spreads /\ RevokedKept
  <2>1. UNCHANGED wire
    BY <1>5, StoreCredFacts, StoreFailsFacts, StoreFileFacts, ShowFacts,
       ClearCredFacts, ClearFileFacts DEF Store
  <2>2. RevokedKept
    BY <2>1, FewerRevoked
  <2>3. CASE StoreCred(s)
    <3>1. /\ slot'[s].nick = slot[s].nick /\ slot'[s].token = slot[s].token
          /\ \A b \in Slot : b # s => slot'[b] = slot[b]
          /\ cred'[slot[s].nick] = slot[s].token
          /\ \A n \in Nick : n # slot[s].nick => cred'[n] = cred[n]
      BY <2>3, StoreCredFacts DEF Turn
    <3>2. Spreads
      BY <2>1, <3>1 DEF Spreads, Holds
    <3>3. QED
      BY <2>2, <3>2
  <2>4. CASE ClearCred(s)
    <3>1. /\ slot'[s].nick = slot[s].nick /\ slot'[s].token = slot[s].token
          /\ \A b \in Slot : b # s => slot'[b] = slot[b]
          /\ \A n \in Nick : cred'[n] \in {cred[n], NoToken}
      BY <2>4, ClearCredFacts DEF Turn
    <3>2. Spreads
      BY <2>1, <3>1, TokenIsReal DEF Spreads, Holds
    <3>3. QED
      BY <2>2, <3>2
  <2>5. CASE StoreFile(s)
    BY <2>1, <2>2, <2>5, StoreFileFacts, TurnSpreads
  <2>6. CASE StoreFails(s) \/ Show(s) \/ ClearFile(s)
    <3>1. Stops(s) /\ UNCHANGED cred
      BY <2>6, StoreFailsFacts, ShowFacts, ClearFileFacts DEF stores
    <3>2. QED
      BY <2>1, <2>2, <3>1, StopSpreads
  <2>7. QED
    BY <1>5, <2>2, <2>3, <2>4, <2>5, <2>6 DEF Store
<1>6. ASSUME NEW s \in Slot, Reopen(s) PROVE Spreads /\ RevokedKept
  <2>1. UNCHANGED cred /\ \A b \in Slot : b # s => slot'[b] = Idle
    BY <1>6, ReopenFacts DEF stores
  <2>2. \A q \in wire' : q.from = "nobody" =>
            \E r \in wire : /\ Fields(q, "nobody", r.route, r.nick, r.token, r.stage)
                            /\ q = [r EXCEPT !.from = "nobody"]
    BY <1>6, ReopenFacts
  <2>3. \/ slot'[s] = Idle /\ \A q \in wire' : q.from = "nobody"
        \/ /\ lastNick \in Nick /\ cred[lastNick] \in Token
           /\ slot'[s].nick = lastNick /\ slot'[s].token = cred[lastNick]
           /\ \E a \in wire' :
                 /\ Fields(a, s, "refresh", lastNick, cred[lastNick], "sent")
                 /\ \A q \in wire' : q = a \/ q.from = "nobody"
    BY <1>6, ReopenFacts
  <2>4. \A q \in wire' : \/ q.from = "nobody"
                         \/ q.stage = "sent" /\ q.nick = lastNick /\ q.token = cred[lastNick]
    BY <2>3 DEF Fields
  <2>5. RevokedKept
    BY <2>2, <2>4 DEF Fields, RevokedKept, Revoked
  <2>6. ASSUME NEW n \in Nick, NEW t \in Token, Holds(n, t)'
        PROVE  Holds(n, t)
    <3>1. CASE cred'[n] = t
      BY <2>1, <3>1 DEF Holds
    <3>2. ASSUME NEW q \in wire', q.nick = n, q.token = t PROVE Holds(n, t)
      BY <2>2, <2>4, <3>2 DEF Fields, Holds
    <3>3. ASSUME NEW b \in Slot, slot'[b].nick = n, slot'[b].token = t PROVE Holds(n, t)
      BY <2>1, <2>3, <3>3, IdleFacts, NickIsReal DEF Holds
    <3>4. QED
      BY <2>6, <3>1, <3>2, <3>3 DEF Holds
  <2>7. QED
    BY <2>5, <2>6 DEF Spreads
<1>7. QED
  BY <1>1, <1>2, <1>3, <1>4, <1>5, <1>6

LEMMA RequestHolds ==
    ASSUME TypeOK, ChainInv, NEW r \in wire, r.token \in Token
    PROVE  /\ Holds(r.nick, r.token)
           /\ r.token.id <= issued /\ r.token.chain <= issued
BY RequestFacts DEF Holds, ChainInv

LEMMA SlotHolds ==
    ASSUME TypeOK, ChainInv, NEW s \in Slot, slot[s].nick \in Nick, slot[s].token \in Token
    PROVE  /\ Holds(slot[s].nick, slot[s].token)
           /\ slot[s].token.id <= issued /\ slot[s].token.chain <= issued
BY DEF Holds, ChainInv

LEMMA RevokeChain ==
    ASSUME TypeOK, CommandInv, ChainInv, NEW r \in wire, Revoke(r)
    PROVE  ChainInv' /\ Spreads
<1>1. /\ r.stage = "sent" /\ r.token \in live /\ live' = live \ {r.token}
      /\ Turns(r, r.from, r.route, r.token, "revoked")
      /\ UNCHANGED <<issued, cred, slot, loggedOut>>
  BY RevokeFacts DEF LocalState, stores, history
<1>2. PICK q : Fields(q, r.from, r.route, r.nick, r.token, "revoked")
               /\ wire' = (wire \ {r}) \cup {q}
  BY <1>1 DEF Turns
<1>3. Spreads
  BY <1>1, TurnsSpreads
<1>4. \A t \in live' : t.chain # r.token.chain
  BY <1>1 DEF ChainInv
<1>5. \A p \in wire : p.stage = "revoked" => p.token.chain # r.token.chain
  BY <1>1 DEF ChainInv
<1>6. \A t \in Token : t \in live' \/ (\E n \in Nick : Holds(n, t)') =>
          t.id <= issued' /\ t.chain <= issued'
  BY <1>1, <1>3 DEF ChainInv, Spreads
<1>7. \A m, n \in Nick, t, u \in Token :
          Holds(m, t)' /\ Holds(n, u)' /\ t.chain = u.chain => m = n
  BY <1>3 DEF ChainInv, Spreads
<1>8. \A t, u \in live' : t.chain = u.chain => t = u
  BY <1>1 DEF ChainInv
<1>9. \A p \in wire' : p.stage = "revoked" =>
          /\ \A t \in live' : t.chain # p.token.chain
          /\ \A o \in wire' : o.stage = "revoked" /\ o.token.chain = p.token.chain => o = p
  BY <1>1, <1>2, <1>4, <1>5 DEF ChainInv, Fields
<1>10. QED
  BY <1>1, <1>3, <1>6, <1>7, <1>8, <1>9 DEF ChainInv

(* A new token, of a chain in which nothing else is acceptable.            *)
LEMMA GrantChain ==
    ASSUME TypeOK, CommandInv, ChainInv, NEW r \in wire, NEW chain \in 1..MaxTokens, Grants(r, chain),
           UNCHANGED LocalState,
           \/ r.stage = "sent" /\ chain = issued + 1
           \/ r.stage = "revoked" /\ r.token \in Token /\ chain = r.token.chain
    PROVE  ChainInv'
<1>1. PICK t \in Token :
          /\ t.id = issued + 1 /\ t.chain = chain
          /\ issued' = issued + 1 /\ issued' \in 0..MaxTokens
          /\ live' = live \cup {t}
          /\ Settles(r, t, "ok")
  BY DEF Grants
<1>2. UNCHANGED <<cred, slot, loggedOut>>
  BY DEF LocalState, stores, history
<1>3. \A n \in Nick, u \in Token : Holds(n, u)' => Holds(n, u) \/ (n = r.nick /\ u = t)
  BY <1>1, <1>2, GrantSpreads
<1>4. issued \in Nat /\ r.nick \in Nick /\ live \subseteq Token /\ chain <= issued + 1
  BY <1>1, RequestFacts, RequestHolds, SessionAssumption DEF TypeOK, Token
<1>5. \A u \in Token : u \in live \/ (\E n \in Nick : Holds(n, u)) =>
          /\ u.id \in Nat /\ u.chain \in Nat
          /\ u.id <= issued /\ u.chain <= issued
  BY DEF ChainInv, Token
<1>6. \A n \in Nick, u \in Token : Holds(n, u) /\ u.chain = chain => n = r.nick
  <2>1. CASE chain = issued + 1
    BY <1>4, <1>5, <2>1
  <2>2. CASE r.token \in Token /\ chain = r.token.chain
    BY <1>4, <2>2, RequestHolds DEF ChainInv
  <2>3. QED
    BY <2>1, <2>2
<1>7. \A u \in live : u.chain # chain
  BY <1>4, <1>5 DEF ChainInv
<1>8. \A q \in wire : q.stage = "revoked" /\ q.token.chain = chain => q = r
  <2>1. CASE r.stage = "sent" /\ chain = issued + 1
    <3>1. ASSUME NEW q \in wire, q.stage = "revoked", q.token.chain = chain PROVE q = r
      <4>1. q.token = NoToken \/ q.token \in Token
        BY RequestFacts
      <4>2. q.token # NoToken
        BY <3>1 DEF CommandInv
      <4>3. QED
        BY <1>4, <2>1, <3>1, <4>1, <4>2, <1>5, RequestHolds
    <3>2. QED
      BY <3>1
  <2>2. CASE r.stage = "revoked" /\ r.token \in Token /\ chain = r.token.chain
    BY <2>2 DEF ChainInv
  <2>3. QED
    BY <2>1, <2>2
<1>9. \A q \in wire' : q.stage = "revoked" => q \in wire /\ q # r
  BY <1>1 DEF Settles, Turns, Fields
<1>10. \A u \in Token : u \in live' \/ (\E n \in Nick : Holds(n, u)') =>
          u.id <= issued' /\ u.chain <= issued'
  BY <1>1, <1>3, <1>4, <1>5
<1>11. loggedOut' \subseteq 1..issued'
  BY <1>1, <1>2, <1>4 DEF ChainInv
<1>12. \A m, n \in Nick, u, v \in Token :
          Holds(m, u)' /\ Holds(n, v)' /\ u.chain = v.chain => m = n
  BY <1>1, <1>3, <1>6 DEF ChainInv
<1>13. \A u, v \in live' : u.chain = v.chain => u = v
  BY <1>1, <1>7 DEF ChainInv
<1>14. \A q \in wire' : q.stage = "revoked" =>
          /\ \A u \in live' : u.chain # q.token.chain
          /\ \A p \in wire' : p.stage = "revoked" /\ p.token.chain = q.token.chain => p = q
  BY <1>1, <1>8, <1>9 DEF ChainInv
<1>15. QED
  BY <1>10, <1>11, <1>12, <1>13, <1>14 DEF ChainInv

(* What a click does to the history.                                       *)
LEMMA ClickHistory ==
    ASSUME TypeOK, NEW s \in Slot, Click(s)
    PROVE  /\ loggedOut' \subseteq loggedOut
           /\ \/ Busy = {} /\ wire = {} /\ shown = NoNick /\ ~ClickLogout(s) /\ ~ClickPlay(s)
              \/ /\ disturbed' = disturbed /\ together \subseteq together'
                 /\ loggedOut' = loggedOut
           /\ Calm' /\ ~Calm => loggedOut' = {}
           /\ together' = {} => Busy = {}
           /\ "logout" \notin together' =>
                 Busy = {} \/ (~LogoutRuns /\ ~ClickLogout(s))
<1>1. ASSUME NEW op \in {"login", "register"}, NEW n \in Nick, SubmitForm(s, op, n)
      PROVE  shown = NoNick /\ Start(s, op, "wait", n, NoToken)
             /\ op # "logout" /\ ~ClickLogout(s) /\ ~ClickPlay(s)
  BY <1>1 DEF SubmitForm, ClickLogout, ClickPlay
<1>2. ASSUME ClickPlay(s)
      PROVE  Start(s, "play", "wait", shown, cred[shown]) /\ ~FreshStart("play")
             /\ ~ClickLogout(s)
  <2>1. Start(s, "play", "wait", shown, cred[shown]) /\ ~FreshStart("play")
    BY <1>2 DEF ClickPlay, FreshStart
  <2>2. slot'[s].op = "play"
    BY <1>2, PlayFacts DEF Turn
  <2>3. ~ClickLogout(s)
    <3>1. ClickLogout(s) => slot'[s].op = "logout"
      BY LogoutFacts DEF Turn
    <3>2. QED
      BY <2>2, <3>1
  <2>4. QED
    BY <2>1, <2>3
<1>3. ASSUME ClickLogout(s)
      PROVE  ~FreshStart("logout")
             /\ \E pc, n, t : Start(s, "logout", pc, n, t)
  BY <1>3 DEF ClickLogout, FreshStart
<1>4. CASE \E op \in {"login", "register"}, n \in Nick : SubmitForm(s, op, n)
  BY <1>1, <1>4, StartHistory DEF FreshStart, Calm
<1>5. CASE ClickPlay(s)
  BY <1>2, <1>5, StartHistory DEF Calm
<1>6. CASE ClickLogout(s)
  BY <1>3, <1>6, StartHistory DEF Calm
<1>7. QED
  BY <1>4, <1>5, <1>6 DEF Click

LEMMA ChainStep ==
    ASSUME TypeOK, CommandInv, ChainInv, Next
    PROVE  ChainInv'
<1>1. ASSUME Spreads, RevokedKept, live' \subseteq live, issued' = issued,
             loggedOut' \subseteq loggedOut
      PROVE  ChainInv'
  <2>1. loggedOut \subseteq 1..issued
    BY DEF ChainInv
  <2>2. QED
    BY <1>1, <2>1, ChainKept
<1>2. ASSUME NEW s \in Slot, Click(s) PROVE ChainInv'
  <2>1. UNCHANGED service
    BY <1>2, ClickBegins DEF Begins
  <2>2. QED
    BY <1>1, <1>2, <2>1, QuietTokens, ClickHistory DEF service
<1>3. ASSUME NEW r \in wire, Serve(r) PROVE ChainInv'
  <2>1. CASE ServeRegister(r) \/ ServeLogout(r) \/ Refuse(r) \/ Fail(r)
    <3>1. live' \subseteq live /\ UNCHANGED <<issued, loggedOut>>
      BY <2>1, RegisterFacts, ServeLogoutFacts, RefuseFacts, FailFacts
         DEF LocalState, history, service
    <3>2. QED
      BY <1>1, <2>1, <3>1, QuietTokens
  <2>2. CASE ServeLogin(r)
    <3>1. r.stage = "sent" /\ Grants(r, issued + 1) /\ UNCHANGED LocalState
      BY <2>2, LoginFacts
    <3>2. issued + 1 \in 1..MaxTokens
      BY <2>2, SessionAssumption DEF ServeLogin, TypeOK
    <3>3. QED
      BY <3>1, <3>2, GrantChain
  <2>3. CASE Rotate(r)
    <3>1. r.stage = "revoked" /\ r.token \in Token /\ Grants(r, r.token.chain)
          /\ UNCHANGED LocalState
      BY <2>3, RotateFacts
    <3>2. r.token.chain \in 1..MaxTokens
      BY <3>1 DEF Token
    <3>3. QED
      BY <3>1, <3>2, GrantChain
  <2>4. CASE Revoke(r)
    BY <2>4, RevokeChain
  <2>5. QED
    BY <1>3, <2>1, <2>2, <2>3, <2>4 DEF Serve
<1>4. ASSUME NEW s \in Slot, Receive(s) PROVE ChainInv'
  <2>1. UNCHANGED <<service, loggedOut>>
    BY <1>4, RegisteredFacts, GrantedFacts, AnsweredFacts DEF Receive, LocalState, history
  <2>2. QED
    BY <1>1, <1>4, <2>1, QuietTokens DEF service
<1>5. ASSUME NEW s \in Slot, NEW r \in wire, GiveUp(s, r) PROVE ChainInv'
  BY <1>1, <1>5, QuietTokens, GiveUpFacts DEF service
<1>6. ASSUME NEW s \in Slot, Store(s) PROVE ChainInv'
  <2>1. UNCHANGED service
    BY <1>6, StoreCredFacts, StoreFailsFacts, StoreFileFacts, ShowFacts,
       ClearCredFacts, ClearFileFacts DEF Store
  <2>2. loggedOut' \subseteq 1..issued
    <3>1. loggedOut \subseteq 1..issued
      BY DEF ChainInv
    <3>2. CASE ClearFile(s)
      <4>1. /\ slot[s].pc = "forget"
            /\ loggedOut' = IF slot[s].token = NoToken THEN loggedOut
                            ELSE loggedOut \cup {slot[s].token.chain}
        BY <3>2, ClearFileFacts
      <4>2. slot[s].nick \in Nick /\ slot[s].token \in Token \cup {NoToken}
        BY <4>1, WorkFacts
      <4>3. slot[s].token \in Token => slot[s].token.chain \in 1..issued
        BY <4>2, SlotHolds, SessionAssumption DEF TypeOK, Token
      <4>4. QED
        BY <3>1, <4>1, <4>2, <4>3
    <3>3. CASE ~ClearFile(s)
      <4>1. UNCHANGED loggedOut
        BY <1>6, <3>3, StoreCredFacts, StoreFailsFacts, StoreFileFacts, ShowFacts,
           ClearCredFacts DEF Store, history
      <4>2. QED
        BY <3>1, <4>1
    <3>4. QED
      BY <3>2, <3>3
  <2>3. QED
    BY <1>6, <2>1, <2>2, QuietTokens, ChainKept DEF service
<1>7. ASSUME NEW s \in Slot, Reopen(s) PROVE ChainInv'
  BY <1>1, <1>7, QuietTokens, ReopenFacts DEF service
<1>8. CASE ClickPlayUnstored
  <2>1. UNCHANGED <<service, wire, stores, slot, history>>
    BY <1>8 DEF ClickPlayUnstored
  <2>2. Spreads /\ RevokedKept
    BY <2>1 DEF Spreads, Holds, RevokedKept, Revoked, stores
  <2>3. QED
    BY <1>1, <2>1, <2>2 DEF service, history
<1>9. ASSUME NEW t \in live, Expire(t) PROVE ChainInv'
  <2>1. /\ live' \subseteq live
        /\ UNCHANGED <<issued, wire, stores, slot, loggedOut>>
    BY <1>9 DEF Expire, Disturb
  <2>2. Spreads /\ RevokedKept
    BY <2>1 DEF Spreads, Holds, RevokedKept, Revoked, stores
  <2>3. QED
    BY <1>1, <2>1, <2>2
<1>10. QED
  BY <1>2, <1>3, <1>4, <1>5, <1>6, <1>7, <1>8, <1>9 DEF Next

-----------------------------------------------------------------------------
(* Tokens on their way into the credential store.                          *)

OnItsWay(t) == \/ \E r \in wire : Arriving(r) /\ r.token = t
               \/ \E s \in Slot : slot[s].pc = "store" /\ slot[s].token = t

(* The same in the next state.                                             *)
UnpresentedNext(t) == /\ \A n \in Nick : cred'[n] # t
                      /\ \A r \in wire' : r.stage = "sent" => r.token # t
OnItsWayNext(t) ==
    \/ \E r \in wire' : Arriving(r) /\ r.token = t
    \/ \E s \in Slot : slot'[s].pc = "store" /\ slot'[s].token = t

(* ArrivalInv in the next state, and its two conjuncts.                    *)
LEMMA ArrivalNext ==
    ASSUME \A r \in wire' : Arriving(r) =>
              /\ UnpresentedNext(r.token)
              /\ \A q \in wire' : Arriving(q) /\ q.token = r.token => q = r
              /\ \A s \in Slot : slot'[s].pc = "store" => slot'[s].token # r.token,
           \A s \in Slot : slot'[s].pc = "store" =>
              /\ UnpresentedNext(slot'[s].token)
              /\ \A b \in Slot : slot'[b].pc = "store" /\ slot'[b].token = slot'[s].token
                    => b = s
    PROVE  ArrivalInv'
BY DEF ArrivalInv, Unpresented, UnpresentedNext

LEMMA ArrivalKept ==
    ASSUME ArrivalInv,
           \A q \in wire' : Arriving(q) => q \in wire,
           \A s \in Slot : slot'[s].pc = "store" => slot'[s] = slot[s],
           \A t : OnItsWayNext(t) /\ Unpresented(t) => UnpresentedNext(t)
    PROVE  ArrivalInv'
<1>1. \A t : OnItsWayNext(t) => OnItsWay(t)
  BY DEF OnItsWay, OnItsWayNext
<1>2. \A t : OnItsWay(t) => Unpresented(t)
  BY DEF OnItsWay, ArrivalInv
<1>3. \A t : OnItsWayNext(t) => UnpresentedNext(t)
  BY <1>1, <1>2
<1>4. \A r \in wire' : Arriving(r) =>
          /\ UnpresentedNext(r.token)
          /\ \A q \in wire' : Arriving(q) /\ q.token = r.token => q = r
          /\ \A s \in Slot : slot'[s].pc = "store" => slot'[s].token # r.token
  <2>1. ASSUME NEW r \in wire', Arriving(r)
        PROVE  /\ UnpresentedNext(r.token)
               /\ \A q \in wire' : Arriving(q) /\ q.token = r.token => q = r
               /\ \A s \in Slot : slot'[s].pc = "store" => slot'[s].token # r.token
    <3>1. OnItsWayNext(r.token)
      BY <2>1 DEF OnItsWay, OnItsWayNext
    <3>2. QED
      BY <1>3, <2>1, <3>1 DEF ArrivalInv
  <2>2. QED
    BY <2>1
<1>5. \A s \in Slot : slot'[s].pc = "store" =>
          /\ UnpresentedNext(slot'[s].token)
          /\ \A b \in Slot : slot'[b].pc = "store" /\ slot'[b].token = slot'[s].token
                => b = s
  <2>1. ASSUME NEW s \in Slot, slot'[s].pc = "store"
        PROVE  /\ UnpresentedNext(slot'[s].token)
               /\ \A b \in Slot : slot'[b].pc = "store" /\ slot'[b].token = slot'[s].token
                     => b = s
    <3>1. OnItsWayNext(slot'[s].token)
      BY <2>1 DEF OnItsWay, OnItsWayNext
    <3>2. QED
      BY <1>3, <2>1, <3>1 DEF ArrivalInv
  <2>2. QED
    BY <2>1
<1>6. QED
  BY <1>4, <1>5, ArrivalNext

(* A step that presents no token but those in the credential store.        *)
Discreet ==
    /\ \A n \in Nick : cred'[n] \in {cred[n], NoToken}
    /\ \A q \in wire' : q.stage = "sent" =>
          \/ \E r \in wire : r.stage = "sent" /\ r.token = q.token
          \/ q.token = NoToken \/ \E n \in Nick : q.token = cred[n]

LEMMA DiscreetArrival ==
    ASSUME CommandsOk', ArrivalInv, Discreet,
           \A q \in wire' : Arriving(q) => q \in wire,
           \A s \in Slot : slot'[s].pc = "store" => slot'[s] = slot[s]
    PROVE  ArrivalInv'
<1>1. ~OnItsWayNext(NoToken)
  BY DEF OnItsWayNext, Arriving, CommandsOk, SlotOk, RequestOk
<1>2. ASSUME NEW t, OnItsWayNext(t), Unpresented(t)
      PROVE  UnpresentedNext(t)
  BY <1>1, <1>2 DEF Unpresented, UnpresentedNext, Discreet
<1>3. QED
  BY <1>2, ArrivalKept

(* A new token is known to nobody else.                                    *)
LEMMA GrantArrival ==
    ASSUME TypeOK, CommandInv, ChainInv, ArrivalInv, NEW r \in wire, NEW chain,
           Grants(r, chain), r.stage # "ok", UNCHANGED LocalState
    PROVE  ArrivalInv'
<1>1. PICK t \in Token : t.id = issued + 1 /\ Settles(r, t, "ok")
  BY DEF Grants
<1>2. UNCHANGED <<cred, slot>>
  BY DEF LocalState, stores
<1>3. \A n \in Nick : ~Holds(n, t)
  BY <1>1, SessionAssumption DEF ChainInv, TypeOK
<1>4. /\ \A n \in Nick : cred[n] # t
      /\ \A q \in wire : q.token # t
  BY <1>3, RequestFacts DEF Holds
<1>5. \A s \in Slot : slot[s].pc = "store" => slot[s].token # t
  BY <1>3, WorkFacts DEF Holds
<1>6. CASE wire' = wire \ {r}
  <2>1. \A u : Unpresented(u) => UnpresentedNext(u)
    BY <1>2, <1>6 DEF Unpresented, UnpresentedNext
  <2>2. QED
    BY <1>2, <1>6, <2>1, ArrivalKept
<1>7. CASE Turns(r, r.from, r.route, t, "ok")
  <2>1. PICK q : q.token = t /\ q.stage = "ok" /\ wire' = (wire \ {r}) \cup {q}
    BY <1>7 DEF Turns, Fields
  <2>2. \A u : Unpresented(u) => UnpresentedNext(u)
    BY <1>2, <2>1 DEF Unpresented, UnpresentedNext
  <2>3. UnpresentedNext(t)
    BY <1>2, <1>4, <2>1 DEF Unpresented, UnpresentedNext
  <2>4. \A p \in wire' : Arriving(p) =>
            /\ UnpresentedNext(p.token)
            /\ \A o \in wire' : Arriving(o) /\ o.token = p.token => o = p
            /\ \A s \in Slot : slot'[s].pc = "store" => slot'[s].token # p.token
    <3>1. ASSUME NEW p \in wire', Arriving(p)
          PROVE  /\ UnpresentedNext(p.token)
                 /\ \A o \in wire' : Arriving(o) /\ o.token = p.token => o = p
                 /\ \A s \in Slot : slot'[s].pc = "store" => slot'[s].token # p.token
      <4>1. CASE p = q
        BY <1>2, <1>4, <1>5, <2>1, <2>3, <4>1
      <4>2. CASE p \in wire /\ p # q
        <5>1. /\ Unpresented(p.token) /\ p.token # t
              /\ \A o \in wire : Arriving(o) /\ o.token = p.token => o = p
              /\ \A s \in Slot : slot[s].pc = "store" => slot[s].token # p.token
          BY <1>4, <3>1, <4>2 DEF ArrivalInv
        <5>2. QED
          BY <1>2, <2>1, <2>2, <5>1
      <4>3. QED
        BY <2>1, <4>1, <4>2
    <3>2. QED
      BY <3>1
  <2>5. \A s \in Slot : slot'[s].pc = "store" =>
            /\ UnpresentedNext(slot'[s].token)
            /\ \A b \in Slot : slot'[b].pc = "store" /\ slot'[b].token = slot'[s].token
                  => b = s
    BY <1>2, <2>2 DEF ArrivalInv
  <2>6. QED
    BY <2>4, <2>5, ArrivalNext
<1>8. QED
  BY <1>1, <1>6, <1>7 DEF Settles

(* The answer is taken in: the token goes from the request to the command. *)
LEMMA GrantedArrival ==
    ASSUME TypeOK, CommandInv, ArrivalInv, NEW s \in Slot, NEW r \in wire, Granted(s, r)
    PROVE  ArrivalInv'
<1>1. /\ Arriving(r) /\ wire' = wire \ {r} /\ UNCHANGED cred
      /\ slot'[s].pc = "store" /\ slot'[s].token = r.token
      /\ \A b \in Slot : b # s => slot'[b] = slot[b]
  BY GrantedFacts DEF Turn, Arriving, stores
<1>2. \A u : Unpresented(u) => UnpresentedNext(u)
  BY <1>1 DEF Unpresented, UnpresentedNext
<1>3. \A p \in wire' : Arriving(p) =>
          /\ UnpresentedNext(p.token)
          /\ \A o \in wire' : Arriving(o) /\ o.token = p.token => o = p
          /\ \A b \in Slot : slot'[b].pc = "store" => slot'[b].token # p.token
  <2>1. ASSUME NEW p \in wire', Arriving(p)
        PROVE  /\ UnpresentedNext(p.token)
               /\ \A o \in wire' : Arriving(o) /\ o.token = p.token => o = p
               /\ \A b \in Slot : slot'[b].pc = "store" => slot'[b].token # p.token
    <3>1. /\ p \in wire /\ p # r /\ p.token # r.token
          /\ Unpresented(p.token)
          /\ \A o \in wire : Arriving(o) /\ o.token = p.token => o = p
          /\ \A b \in Slot : slot[b].pc = "store" => slot[b].token # p.token
      BY <1>1, <2>1 DEF ArrivalInv
    <3>2. QED
      BY <1>1, <1>2, <3>1
  <2>2. QED
    BY <2>1
<1>4. \A a \in Slot : slot'[a].pc = "store" =>
          /\ UnpresentedNext(slot'[a].token)
          /\ \A b \in Slot : slot'[b].pc = "store" /\ slot'[b].token = slot'[a].token
                => b = a
  <2>1. UnpresentedNext(r.token)
    BY <1>1, <1>2 DEF ArrivalInv
  <2>2. \A b \in Slot : slot[b].pc = "store" =>
            slot[b].token # r.token /\ UnpresentedNext(slot[b].token)
    BY <1>1, <1>2 DEF ArrivalInv
  <2>3. QED
    BY <1>1, <2>1, <2>2 DEF ArrivalInv
<1>5. QED
  BY <1>3, <1>4, ArrivalNext

LEMMA StoredArrival ==
    ASSUME TypeOK, CommandInv, ArrivalInv, NEW s \in Slot, StoreCred(s)
    PROVE  ArrivalInv'
<1>1. /\ slot[s].pc = "store" /\ UNCHANGED wire
      /\ slot'[s].pc = "file"
      /\ \A b \in Slot : b # s => slot'[b] = slot[b]
      /\ \A n \in Nick : cred'[n] \in {cred[n], slot[s].token}
  BY StoreCredFacts DEF Turn
<1>2. ASSUME NEW t, OnItsWayNext(t), Unpresented(t)
      PROVE  UnpresentedNext(t)
  <2>1. t # slot[s].token
    BY <1>1, <1>2 DEF OnItsWayNext, ArrivalInv
  <2>2. QED
    BY <1>1, <1>2, <2>1 DEF Unpresented, UnpresentedNext
<1>3. \A b \in Slot : slot'[b].pc = "store" => slot'[b] = slot[b]
  BY <1>1
<1>4. QED
  BY <1>1, <1>2, <1>3, ArrivalKept

LEMMA ArrivalStep ==
    ASSUME TypeOK, CommandInv, ChainInv, ArrivalInv, Next
    PROVE  ArrivalInv'
<1>1. CommandsOk'
  BY CommandsStep
<1>2. ASSUME Discreet,
             \A q \in wire' : Arriving(q) => q \in wire,
             \A s \in Slot : slot'[s].pc = "store" => slot'[s] = slot[s]
      PROVE  ArrivalInv'
  BY <1>1, <1>2, DiscreetArrival
<1>3. ASSUME UNCHANGED <<wire, cred, slot>>
      PROVE  ArrivalInv'
  BY <1>2, <1>3 DEF Discreet
<1>4. ASSUME NEW s \in Slot, Click(s) PROVE ArrivalInv'
  <2>1. PICK op \in Command, n \in Nick, t \in Token \cup {NoToken} :
            /\ slot[s] = Idle
            /\ t # NoToken => t = cred[n]
            /\ \/ /\ Turn(s, op, "wait", n, t)
                  /\ \E route \in Route :
                        /\ Sends(s, route, n, t)
                        /\ route = "logout" <=> op = "logout"
                        /\ route \in {"refresh", "logout"} => t # NoToken
               \/ /\ op = "logout" /\ Turn(s, op, "clear", n, NoToken)
                  /\ wire' = wire
            /\ UNCHANGED <<service, stores, shown, faults>>
    BY <1>4, ClickBegins DEF Begins
  <2>2. \A q \in wire' : q \in wire \/ (q.stage = "sent" /\ q.token = t)
    BY <2>1 DEF Sends, Fields
  <2>3. \A b \in Slot : slot'[b].pc = "store" => slot'[b] = slot[b]
    BY <2>1 DEF Turn
  <2>4. Discreet
    BY <2>1, <2>2 DEF Discreet, stores
  <2>5. QED
    BY <1>2, <2>2, <2>3, <2>4 DEF Arriving
<1>5. ASSUME NEW r \in wire, Serve(r) PROVE ArrivalInv'
  <2>1. ASSUME NEW t, NEW stage, UNCHANGED <<cred, slot>>,
               stage \in {"refused", "failed", "revoked"}
                 \/ (stage = "ok" /\ r.route \notin {"login", "refresh"}),
               Settles(r, t, stage) \/ Turns(r, r.from, r.route, t, stage)
        PROVE  ArrivalInv'
    <3>1. \A q \in wire' : q \in wire \/ (q.stage = stage /\ q.route = r.route)
      BY <2>1 DEF Settles, Turns, Fields
    <3>2. QED
      BY <1>2, <2>1, <3>1 DEF Arriving, Discreet
  <2>2. CASE ServeRegister(r)
    BY <2>1, <2>2, RegisterFacts DEF LocalState, stores
  <2>3. CASE ServeLogout(r)
    BY <2>1, <2>3, ServeLogoutFacts DEF LocalState, stores
  <2>4. CASE Refuse(r)
    BY <2>1, <2>4, RefuseFacts DEF LocalState, stores
  <2>5. CASE Fail(r)
    BY <2>1, <2>5, FailFacts DEF stores
  <2>6. CASE Revoke(r)
    BY <2>1, <2>6, RevokeFacts DEF LocalState, stores
  <2>7. CASE ServeLogin(r)
    BY <2>7, LoginFacts, GrantArrival
  <2>8. CASE Rotate(r)
    BY <2>8, RotateFacts, GrantArrival
  <2>9. QED
    BY <1>5, <2>2, <2>3, <2>4, <2>5, <2>6, <2>7, <2>8 DEF Serve
<1>6. ASSUME NEW s \in Slot, Receive(s) PROVE ArrivalInv'
  <2>1. PICK r \in wire : Registered(s, r) \/ Granted(s, r) \/ Answered(s, r)
    BY <1>6 DEF Receive
  <2>2. CASE Registered(s, r)
    <3>1. UNCHANGED <<cred, slot>> /\ Turns(r, s, "login", NoToken, "sent")
      BY <2>2, RegisteredFacts DEF LocalState, stores
    <3>2. \A q \in wire' : q \in wire \/ (q.stage = "sent" /\ q.token = NoToken)
      BY <3>1 DEF Turns, Fields
    <3>3. QED
      BY <1>2, <3>1, <3>2 DEF Arriving, Discreet
  <2>3. CASE Granted(s, r)
    BY <2>3, GrantedArrival
  <2>4. CASE Answered(s, r)
    <3>1. /\ UNCHANGED cred /\ wire' = wire \ {r}
          /\ Stops(s) \/ Turn(s, "logout", "clear", slot[s].nick, slot[s].token)
      BY <2>4, AnsweredFacts DEF stores
    <3>2. \A b \in Slot : slot'[b].pc = "store" => slot'[b] = slot[b]
      BY <3>1, IdleFacts DEF Stops, Turn
    <3>3. QED
      BY <1>2, <3>1, <3>2 DEF Discreet
  <2>5. QED
    BY <2>1, <2>2, <2>3, <2>4
<1>7. ASSUME NEW s \in Slot, NEW r \in wire, GiveUp(s, r) PROVE ArrivalInv'
  <2>1. /\ UNCHANGED cred
        /\ Stops(s) \/ Turn(s, "logout", "clear", slot[s].nick, slot[s].token)
        /\ \/ wire' = wire \ {r}
           \/ /\ r.stage \in {"sent", "revoked"}
              /\ Turns(r, "nobody", r.route, r.token, r.stage)
    BY <1>7, GiveUpFacts DEF stores
  <2>2. \A b \in Slot : slot'[b].pc = "store" => slot'[b] = slot[b]
    BY <2>1, IdleFacts DEF Stops, Turn
  <2>3. \A q \in wire' : \/ q \in wire
                         \/ /\ q.stage = r.stage /\ q.token = r.token
                            /\ q.stage \in {"sent", "revoked"}
    BY <2>1 DEF Turns, Fields
  <2>4. QED
    BY <1>2, <2>1, <2>2, <2>3 DEF Arriving, Discreet
<1>8. ASSUME NEW s \in Slot, Store(s) PROVE ArrivalInv'
  <2>1. CASE StoreCred(s)
    BY <2>1, StoredArrival
  <2>2. CASE ~StoreCred(s)
    <3>1. /\ UNCHANGED wire /\ \A n \in Nick : cred'[n] \in {cred[n], NoToken}
          /\ \A b \in Slot : b # s => slot'[b] = slot[b]
          /\ slot'[s].pc # "store"
      BY <1>8, <2>2, StoreFailsFacts, StoreFileFacts, ShowFacts, ClearCredFacts,
         ClearFileFacts, IdleFacts DEF Store, Stops, Turn, stores
    <3>2. QED
      BY <1>2, <3>1 DEF Discreet
  <2>3. QED
    BY <2>1, <2>2
<1>9. ASSUME NEW s \in Slot, Reopen(s) PROVE ArrivalInv'
  <2>1. UNCHANGED cred /\ \A b \in Slot : b # s => slot'[b] = Idle
    BY <1>9, ReopenFacts DEF stores
  <2>2. slot'[s].pc # "store"
    BY <1>9, ReopenFacts, IdleFacts
  <2>3. \A q \in wire' : q.from = "nobody" =>
            \E r \in wire : /\ Fields(q, "nobody", r.route, r.nick, r.token, r.stage)
                            /\ r.stage \in {"sent", "revoked"}
    BY <1>9, ReopenFacts
  <2>4. \A q \in wire' : \/ q.from = "nobody"
                         \/ /\ q.stage = "sent" /\ lastNick \in Nick
                            /\ q.token = cred[lastNick]
    BY <1>9, ReopenFacts DEF Fields
  <2>5. Discreet
    BY <2>1, <2>3, <2>4 DEF Discreet, Fields
  <2>6. \A q \in wire' : ~Arriving(q)
    BY <2>3, <2>4 DEF Arriving, Fields
  <2>7. QED
    BY <1>2, <2>1, <2>2, <2>5, <2>6, IdleFacts
<1>10. CASE ClickPlayUnstored
  BY <1>3, <1>10 DEF ClickPlayUnstored, stores
<1>11. ASSUME NEW t \in live, Expire(t) PROVE ArrivalInv'
  BY <1>3, <1>11 DEF Expire, stores
<1>12. QED
  BY <1>4, <1>5, <1>6, <1>7, <1>8, <1>9, <1>10, <1>11 DEF Next

-----------------------------------------------------------------------------
(* The session of the nick that is shown, while nothing disturbs it.       *)

(* Backed and LogoutRuns in the next state.                                *)
BackedNext(n) ==
    \/ cred'[n] \in live'
    \/ \E r \in wire' : r.nick = n /\ (r.stage = "revoked" \/ Arriving(r))
    \/ \E s \in Slot : slot'[s].pc = "store" /\ slot'[s].nick = n
LogoutGoesOn == \E s \in Slot : slot'[s].op = "logout"

(* The obligations of a step to CalmInv.                                   *)
LiveKept == \A t \in live : Unpresented(t) => t \in live'
WireCalm == \A q \in wire' : /\ q.from # "nobody"
                             /\ Arriving(q) => q \in wire \/ q.token \in live'
Alone == \A s, b \in Slot : s # b /\ slot'[s].op = "logout" => slot'[b] = Idle
SlotsCalm ==
    \A s \in Slot :
        /\ slot'[s].pc = "store" => slot'[s] = slot[s] \/ slot'[s].token \in live'
        /\ slot'[s].pc \in {"file", "show"} /\ slot'[s].op # "play" =>
              \/ BackedNext(slot'[s].nick)
              \/ /\ slot[s].pc \in {"file", "show"} /\ slot[s].op # "play"
                 /\ slot'[s].nick = slot[s].nick
BackedKept == \A n \in Nick : Backed(n) => BackedNext(n) \/ LogoutGoesOn
ShownCalm == \/ shown' = NoNick \/ BackedNext(shown')
             \/ shown' = shown /\ (LogoutRuns => LogoutGoesOn)

LEMMA CalmKept ==
    ASSUME TypeOK, CommandInv, CommandInv', ArrivalInv, CalmInv, Calm,
           LiveKept, WireCalm, Alone, SlotsCalm, BackedKept, ShownCalm
    PROVE  CalmInv'
<1>1. \A r \in wire' : r.from # "nobody" /\ (Arriving(r) => r.token \in live')
  BY DEF WireCalm, LiveKept, CalmInv, ArrivalInv
<1>2. \A s \in Slot : slot'[s].op = "logout" => \A b \in Slot \ {s} : slot'[b] = Idle
  BY DEF Alone
<1>3. \A s \in Slot : slot'[s].pc = "store" => slot'[s].token \in live'
  BY DEF SlotsCalm, LiveKept, CalmInv, ArrivalInv
<1>4. \A s \in Slot : slot'[s].pc \in {"file", "show"} /\ slot'[s].op # "play" =>
          BackedNext(slot'[s].nick)
  <2>1. ASSUME NEW s \in Slot, slot'[s].pc \in {"file", "show"}, slot'[s].op # "play"
        PROVE  BackedNext(slot'[s].nick)
    <3>1. ~LogoutGoesOn
      <4>1. slot'[s].op # "logout"
        BY <2>1 DEF CommandInv
      <4>2. QED
        BY <2>1, <4>1, IdleFacts DEF Alone, LogoutGoesOn
    <3>2. CASE /\ slot[s].pc \in {"file", "show"} /\ slot[s].op # "play"
               /\ slot'[s].nick = slot[s].nick
      <4>1. Backed(slot[s].nick) /\ slot[s].nick \in Nick
        BY <3>2, WorkFacts DEF CalmInv
      <4>2. QED
        BY <3>1, <3>2, <4>1 DEF BackedKept
    <3>3. QED
      BY <2>1, <3>2 DEF SlotsCalm
  <2>2. QED
    BY <2>1
<1>5. shown' = NoNick \/ LogoutGoesOn \/ BackedNext(shown')
  BY DEF ShownCalm, CalmInv, BackedKept, TypeOK
<1>6. QED
  BY <1>1, <1>2, <1>3, <1>4, <1>5 DEF CalmInv, Backed, BackedNext, LogoutRuns, LogoutGoesOn

(* While a log out runs in calm, it is the only command, and the only      *)
(* request is its own.                                                     *)
LEMMA LogoutAlone ==
    ASSUME TypeOK, CommandInv, CalmInv, Calm, NEW s \in Slot, slot[s].op = "logout"
    PROVE  /\ \A b \in Slot : b # s => slot[b] = Idle
           /\ \A r \in wire : r.from = s /\ r.route = "logout"
<1>1. \A b \in Slot : b # s => slot[b] = Idle
  BY DEF CalmInv
<1>2. ASSUME NEW r \in wire PROVE r.from = s /\ r.route = "logout"
  <2>1. r.from \in Slot
    BY RequestFacts DEF CalmInv
  <2>2. slot[r.from] # Idle
    BY <2>1, WaitFacts
  <2>3. r.from = s
    BY <1>1, <2>1, <2>2
  <2>4. QED
    BY <2>3, WaitFacts
<1>3. QED
  BY <1>1, <1>2

LEMMA NoneBusy ==
    ASSUME TypeOK, CommandInv, CalmInv, Calm, Busy = {}
    PROVE  wire = {}
<1>1. ASSUME NEW r \in wire PROVE FALSE
  <2>1. r.from \in Slot
    BY RequestFacts DEF CalmInv
  <2>2. slot[r.from] # Idle
    BY <2>1, WaitFacts
  <2>3. QED
    BY <2>1, <2>2 DEF Busy
<1>2. QED
  BY <1>1

(* A step that starts nothing leaves a log out alone.                      *)
LEMMA StillAlone ==
    ASSUME CalmInv, Calm,
           \A s \in Slot : /\ slot[s] = Idle => slot'[s] = Idle
                           /\ slot'[s].op = "logout" => slot[s].op = "logout"
    PROVE  Alone
BY DEF CalmInv, Alone

(* The service's steps.                                                    *)
LEMMA ServeCalm ==
    ASSUME TypeOK, CommandInv, ChainInv, ArrivalInv, CalmInv, Calm,
           NEW r \in wire, Serve(r), ~Fail(r)
    PROVE  LiveKept /\ WireCalm /\ Alone /\ SlotsCalm /\ BackedKept /\ ShownCalm
<1>1. UNCHANGED <<cred, shown, slot>>
  BY RegisterFacts, LoginFacts, RotateFacts, RevokeFacts, ServeLogoutFacts, RefuseFacts
     DEF Serve, LocalState, stores
<1>2. Alone /\ SlotsCalm /\ ShownCalm
  BY <1>1, StillAlone DEF SlotsCalm, ShownCalm, LogoutRuns, LogoutGoesOn
<1>3. r.from # "nobody"
  BY DEF CalmInv
<1>4. ASSUME NEW t \in Token, Turns(r, r.from, r.route, t, "ok"), live' = live \cup {t}
      PROVE  LiveKept /\ WireCalm /\ (r.route \in {"login", "refresh"} => BackedKept)
  <2>1. PICK q : Fields(q, r.from, r.route, r.nick, t, "ok")
                 /\ wire' = (wire \ {r}) \cup {q}
    BY <1>4 DEF Turns
  <2>2. LiveKept
    BY <1>4 DEF LiveKept
  <2>3. WireCalm
    BY <1>3, <1>4, <2>1 DEF WireCalm, CalmInv, Fields
  <2>4. ASSUME r.route \in {"login", "refresh"}, NEW n \in Nick, Backed(n)
        PROVE  BackedNext(n)
    BY <1>1, <1>4, <2>1, <2>4 DEF Backed, BackedNext, Fields, Arriving
  <2>5. QED
    BY <2>2, <2>3, <2>4 DEF BackedKept
<1>5. CASE ServeLogin(r) \/ Rotate(r)
  <2>1. /\ r.route \in {"login", "refresh"}
        /\ \E chain : Grants(r, chain)
    BY <1>5, LoginFacts, RotateFacts
  <2>2. PICK t \in Token : Settles(r, t, "ok") /\ live' = live \cup {t}
    BY <2>1 DEF Grants
  <2>3. Turns(r, r.from, r.route, t, "ok")
    BY <1>3, <2>2 DEF Settles
  <2>4. QED
    BY <1>2, <1>4, <2>1, <2>2, <2>3
<1>6. ASSUME NEW t, NEW stage, stage \in {"refused", "revoked"}
                 \/ (stage = "ok" /\ r.route \notin {"login", "refresh"}),
             r.stage = "sent",
             Settles(r, t, stage) \/ Turns(r, r.from, r.route, t, stage)
      PROVE  /\ WireCalm
             /\ \A p \in wire : p.stage # "sent" => p \in wire'
             /\ stage = "revoked" =>
                   \E q \in wire' : q.nick = r.nick /\ q.stage = "revoked"
  <2>1. PICK q : Fields(q, r.from, r.route, r.nick, t, stage)
                 /\ wire' = (wire \ {r}) \cup {q}
    BY <1>3, <1>6 DEF Settles, Turns
  <2>2. ~Arriving(q)
    BY <1>6, <2>1 DEF Fields, Arriving
  <2>3. QED
    BY <1>3, <1>6, <2>1, <2>2 DEF WireCalm, CalmInv, Fields
<1>7. ASSUME live' = live, \A p \in wire : p.stage # "sent" => p \in wire'
      PROVE  LiveKept /\ BackedKept
  BY <1>1, <1>7 DEF LiveKept, BackedKept, Backed, BackedNext, Arriving
<1>8. CASE ServeRegister(r)
  BY <1>2, <1>6, <1>7, <1>8, RegisterFacts
<1>9. CASE Refuse(r)
  BY <1>2, <1>6, <1>7, <1>9, RefuseFacts DEF service
<1>10. CASE Revoke(r)
  <2>1. /\ r.stage = "sent" /\ r.token \in live /\ live' = live \ {r.token}
        /\ Turns(r, r.from, r.route, r.token, "revoked")
    BY <1>10, RevokeFacts
  <2>2. /\ WireCalm
        /\ \A p \in wire : p.stage # "sent" => p \in wire'
        /\ \E q \in wire' : q.nick = r.nick /\ q.stage = "revoked"
    BY <1>6, <2>1
  <2>3. LiveKept
    BY <2>1 DEF LiveKept, Unpresented
  <2>4. ASSUME NEW n \in Nick, Backed(n) PROVE BackedNext(n)
    <3>1. CASE cred[n] = r.token
      <4>1. r.nick \in Nick /\ r.token \in Token
        BY <2>1, RequestFacts DEF TypeOK
      <4>2. Holds(n, r.token) /\ Holds(r.nick, r.token)
        BY <3>1, <4>1, RequestHolds DEF Holds
      <4>3. n = r.nick
        BY <4>1, <4>2 DEF ChainInv
      <4>4. QED
        BY <2>2, <4>3 DEF BackedNext
    <3>2. CASE cred[n] # r.token
      BY <1>1, <2>1, <2>2, <2>4, <3>2 DEF Backed, BackedNext, Arriving
    <3>3. QED
      BY <3>1, <3>2
  <2>5. QED
    BY <1>2, <2>2, <2>3, <2>4 DEF BackedKept
<1>11. CASE ServeLogout(r)
  <2>1. /\ r.route = "logout" /\ r.stage = "sent" /\ live' = live \ {r.token}
        /\ Settles(r, NoToken, "ok")
    BY <1>11, ServeLogoutFacts
  <2>2. WireCalm
    BY <1>6, <2>1
  <2>3. LiveKept
    BY <2>1 DEF LiveKept, Unpresented
  <2>4. r.from \in Slot /\ slot[r.from].op = "logout"
    BY <1>3, <2>1, RequestFacts, WaitFacts
  <2>5. BackedKept
    BY <1>1, <2>4 DEF BackedKept, LogoutGoesOn
  <2>6. QED
    BY <1>2, <2>2, <2>3, <2>5
<1>12. QED
  BY <1>5, <1>8, <1>9, <1>10, <1>11 DEF Serve

(* The answers.                                                            *)
LEMMA ReceiveCalm ==
    ASSUME TypeOK, CommandInv, ArrivalInv, CalmInv, Calm, NEW s \in Slot, Receive(s)
    PROVE  LiveKept /\ WireCalm /\ Alone /\ SlotsCalm /\ BackedKept /\ ShownCalm
<1>1. PICK r \in wire : Registered(s, r) \/ Granted(s, r) \/ Answered(s, r)
  BY DEF Receive
<1>2. s # "nobody"
  BY SessionAssumption
<1>3. UNCHANGED <<live, cred>> /\ r.from = s
  BY <1>1, RegisteredFacts, GrantedFacts, AnsweredFacts DEF LocalState, service, stores
<1>4. slot[s] # Idle
  BY <1>3, WaitFacts
<1>5. LiveKept
  BY <1>3 DEF LiveKept
<1>6. CASE Registered(s, r)
  <2>1. /\ r.route = "register" /\ r.stage = "ok" /\ UNCHANGED <<shown, slot>>
        /\ Turns(r, s, "login", NoToken, "sent")
    BY <1>6, RegisteredFacts DEF LocalState
  <2>2. PICK q : Fields(q, s, "login", r.nick, NoToken, "sent")
                 /\ wire' = (wire \ {r}) \cup {q}
    BY <2>1 DEF Turns
  <2>3. WireCalm
    BY <1>2, <2>2 DEF WireCalm, CalmInv, Fields, Arriving
  <2>4. Alone /\ SlotsCalm /\ ShownCalm
    BY <2>1, StillAlone DEF SlotsCalm, ShownCalm, LogoutRuns, LogoutGoesOn
  <2>5. BackedKept
    BY <1>3, <2>1, <2>2 DEF BackedKept, Backed, BackedNext, Arriving
  <2>6. QED
    BY <1>5, <2>3, <2>4, <2>5
<1>7. CASE Granted(s, r)
  <2>1. /\ r.stage = "ok" /\ r.route \in {"login", "refresh"} /\ UNCHANGED shown
        /\ wire' = wire \ {r} /\ slot[s].op # "logout"
        /\ slot'[s].op = slot[s].op /\ slot'[s].pc = "store"
        /\ slot'[s].nick = r.nick /\ slot'[s].token = r.token
        /\ \A b \in Slot : b # s => slot'[b] = slot[b]
    BY <1>7, GrantedFacts DEF Turn
  <2>2. WireCalm
    BY <2>1 DEF WireCalm, CalmInv
  <2>3. Alone
    BY <1>4, <2>1, StillAlone
  <2>4. r.token \in live'
    BY <1>3, <2>1 DEF CalmInv, Arriving
  <2>5. SlotsCalm
    BY <2>1, <2>4 DEF SlotsCalm
  <2>6. ShownCalm
    BY <2>1 DEF ShownCalm, LogoutRuns, LogoutGoesOn
  <2>7. BackedKept
    BY <1>3, <1>7, <2>1, WaitFacts DEF BackedKept, Backed, BackedNext
  <2>8. QED
    BY <1>5, <2>2, <2>3, <2>5, <2>6, <2>7
<1>8. CASE Answered(s, r)
  <2>1. /\ wire' = wire \ {r} /\ slot[s].pc = "wait"
        /\ slot'[s].pc \in {"clear", "idle"}
        /\ slot'[s].op = "logout" <=> slot[s].op = "logout"
        /\ \A b \in Slot : b # s => slot'[b] = slot[b]
        /\ shown' \in {shown, NoNick}
        /\ ~Arriving(r) /\ r.stage # "revoked"
    <3>1. slot[s].pc = "wait" /\ (r.route = "logout" <=> slot[s].op = "logout")
      BY <1>3, WaitFacts
    <3>2. QED
      BY <1>8, <3>1, AnsweredFacts, IdleFacts DEF Turn, Stops, Arriving
  <2>2. WireCalm
    BY <2>1 DEF WireCalm, CalmInv
  <2>3. Alone
    BY <1>4, <2>1, StillAlone
  <2>4. SlotsCalm
    BY <2>1 DEF SlotsCalm
  <2>5. ShownCalm
    BY <2>1 DEF ShownCalm, LogoutRuns, LogoutGoesOn
  <2>6. BackedKept
    BY <1>3, <2>1 DEF BackedKept, Backed, BackedNext
  <2>7. QED
    BY <1>5, <2>2, <2>3, <2>4, <2>5, <2>6
<1>9. QED
  BY <1>1, <1>6, <1>7, <1>8

(* The stores and the window.                                              *)
LEMMA StoreCalm ==
    ASSUME TypeOK, CommandInv, ChainInv, ArrivalInv, CalmInv, Calm,
           NEW s \in Slot, Store(s), disturbed' = FALSE
    PROVE  LiveKept /\ WireCalm /\ Alone /\ SlotsCalm /\ BackedKept /\ ShownCalm
<1>1. /\ UNCHANGED <<live, wire>>
      /\ \A b \in Slot : b # s => slot'[b] = slot[b]
      /\ slot[s].pc \in {"store", "file", "show", "clear", "forget"}
  BY StoreCredFacts, StoreFailsFacts, StoreFileFacts, ShowFacts, ClearCredFacts,
     ClearFileFacts DEF Store, service, Turn, Stops
<1>2. slot[s] # Idle /\ slot[s].nick \in Nick
      /\ (slot[s].pc = "store" => slot[s].token \in Token)
      /\ (slot[s].pc \in {"store", "file", "show"} => slot[s].op # "logout")
      /\ (slot[s].pc \in {"clear", "forget"} => slot[s].op = "logout")
  BY <1>1, WorkFacts
<1>3. LiveKept /\ WireCalm
  BY <1>1 DEF LiveKept, WireCalm, CalmInv
<1>4. CASE StoreCred(s)
  <2>1. /\ slot[s].pc = "store" /\ slot'[s].op = slot[s].op /\ slot'[s].pc = "file"
        /\ slot'[s].nick = slot[s].nick /\ UNCHANGED shown
        /\ cred'[slot[s].nick] = slot[s].token
        /\ \A n \in Nick : n # slot[s].nick => cred'[n] = cred[n]
    BY <1>4, StoreCredFacts DEF Turn
  <2>2. BackedNext(slot[s].nick)
    BY <1>1, <2>1 DEF BackedNext, CalmInv
  <2>3. Alone
    BY <1>1, <1>2, <2>1, StillAlone
  <2>4. SlotsCalm
    BY <1>1, <2>1, <2>2 DEF SlotsCalm
  <2>5. BackedKept
    BY <1>1, <2>1, <2>2 DEF BackedKept, Backed, BackedNext
  <2>6. ShownCalm
    BY <1>1, <1>2, <2>1 DEF ShownCalm, LogoutRuns, LogoutGoesOn
  <2>7. QED
    BY <1>3, <2>3, <2>4, <2>5, <2>6
<1>5. CASE StoreFile(s)
  <2>1. /\ slot[s].pc = "file" /\ slot'[s].op = slot[s].op /\ slot'[s].pc = "show"
        /\ slot'[s].nick = slot[s].nick /\ UNCHANGED <<shown, cred>>
    BY <1>5, StoreFileFacts DEF Turn
  <2>2. Alone
    BY <1>1, <1>2, <2>1, StillAlone
  <2>3. SlotsCalm
    BY <1>1, <2>1 DEF SlotsCalm
  <2>4. BackedKept
    BY <1>1, <2>1 DEF BackedKept, Backed, BackedNext
  <2>5. ShownCalm
    BY <1>1, <1>2, <2>1 DEF ShownCalm, LogoutRuns, LogoutGoesOn
  <2>6. QED
    BY <1>3, <2>2, <2>3, <2>4, <2>5
<1>6. CASE Show(s)
  <2>1. /\ slot[s].pc = "show" /\ slot'[s] = Idle /\ UNCHANGED cred
        /\ shown' = IF slot[s].op = "play" THEN shown ELSE slot[s].nick
    BY <1>6, ShowFacts DEF Stops, stores
  <2>2. Alone
    BY <1>1, <1>2, <2>1, IdleFacts, StillAlone
  <2>3. SlotsCalm
    BY <1>1, <2>1, IdleFacts DEF SlotsCalm
  <2>4. \A n \in Nick : Backed(n) => BackedNext(n)
    BY <1>1, <2>1 DEF Backed, BackedNext
  <2>5. ShownCalm
    <3>1. CASE slot[s].op = "play"
      BY <1>1, <1>2, <2>1, <3>1 DEF ShownCalm, LogoutRuns, LogoutGoesOn
    <3>2. CASE slot[s].op # "play"
      BY <1>2, <2>1, <2>4, <3>2 DEF ShownCalm, CalmInv
    <3>3. QED
      BY <3>1, <3>2
  <2>6. QED
    BY <1>3, <2>2, <2>3, <2>4, <2>5 DEF BackedKept
<1>7. CASE ClearCred(s)
  <2>1. /\ slot[s].pc = "clear" /\ slot'[s].op = slot[s].op /\ slot'[s].pc = "forget"
        /\ UNCHANGED shown
    BY <1>7, ClearCredFacts DEF Turn
  <2>2. Alone
    BY <1>1, <1>2, <2>1, StillAlone
  <2>3. SlotsCalm
    BY <1>1, <2>1 DEF SlotsCalm
  <2>4. LogoutGoesOn
    BY <1>2, <2>1 DEF LogoutGoesOn
  <2>5. QED
    BY <1>3, <2>1, <2>2, <2>3, <2>4 DEF BackedKept, ShownCalm
<1>8. CASE ClearFile(s)
  <2>1. /\ slot[s].pc = "forget" /\ slot'[s] = Idle /\ UNCHANGED cred /\ shown' = NoNick
    BY <1>8, ClearFileFacts DEF Stops
  <2>2. Alone
    BY <1>1, <1>2, <2>1, IdleFacts, StillAlone
  <2>3. SlotsCalm
    BY <1>1, <2>1, IdleFacts DEF SlotsCalm
  <2>4. BackedKept
    BY <1>1, <2>1 DEF BackedKept, Backed, BackedNext
  <2>5. QED
    BY <1>3, <2>1, <2>2, <2>3, <2>4 DEF ShownCalm
<1>9. QED
  BY <1>4, <1>5, <1>6, <1>7, <1>8, StoreFailsFacts DEF Store

(* A click: a command more, of which no other is a log out.                *)
LEMMA ClickCalm ==
    ASSUME TypeOK, CommandInv, CalmInv, Calm, NEW s \in Slot, Click(s),
           "logout" \notin together'
    PROVE  LiveKept /\ WireCalm /\ Alone /\ SlotsCalm /\ BackedKept /\ ShownCalm
<1>1. PICK op \in Command, n \in Nick, t \in Token \cup {NoToken} :
        /\ slot[s] = Idle
        /\ t # NoToken => t = cred[n]
        /\ \/ /\ Turn(s, op, "wait", n, t)
              /\ \E route \in Route :
                    /\ Sends(s, route, n, t)
                    /\ route = "logout" <=> op = "logout"
                    /\ route \in {"refresh", "logout"} => t # NoToken
           \/ /\ op = "logout" /\ Turn(s, op, "clear", n, NoToken)
              /\ wire' = wire
        /\ UNCHANGED <<service, stores, shown, faults>>
  BY ClickBegins DEF Begins
<1>2. /\ slot'[s].pc \in {"wait", "clear"} /\ slot[s].pc = "idle"
      /\ \A b \in Slot : b # s => slot'[b] = slot[b]
      /\ slot[s].op = "none"
      /\ UNCHANGED <<live, cred, shown>>
  BY <1>1, IdleFacts DEF Turn, service, stores
<1>3. \A q \in wire' : q \in wire \/ (q.from = s /\ q.stage = "sent")
  BY <1>1 DEF Sends, Fields
<1>4. wire \subseteq wire'
  BY <1>1 DEF Sends
<1>5. WireCalm
  BY <1>3, SessionAssumption DEF WireCalm, CalmInv, Arriving
<1>6. slot'[s].op = "logout" => ClickLogout(s)
  <2>1. ASSUME NEW o \in {"login", "register"}, NEW m \in Nick, SubmitForm(s, o, m)
        PROVE  slot'[s].op # "logout"
    <3>1. slot'[s].op = o
      BY <2>1, SubmitFacts DEF Turn
    <3>2. QED
      BY <3>1
  <2>2. CASE ClickPlay(s)
    BY <2>2, PlayFacts DEF Turn
  <2>3. QED
    BY <2>1, <2>2 DEF Click
<1>7. Busy = {} \/ (~LogoutRuns /\ ~ClickLogout(s))
  BY ClickHistory
<1>8. Alone
  <2>1. CASE Busy = {}
    BY <1>2, <2>1, IdleFacts DEF Alone, Busy
  <2>2. CASE ~LogoutRuns /\ ~ClickLogout(s)
    BY <1>2, <1>6, <2>2 DEF Alone, LogoutRuns
  <2>3. QED
    BY <1>7, <2>1, <2>2
<1>9. SlotsCalm
  BY <1>2 DEF SlotsCalm
<1>10. BackedKept
  BY <1>2, <1>4 DEF BackedKept, Backed, BackedNext
<1>11. ShownCalm
  BY <1>2 DEF ShownCalm, LogoutRuns, LogoutGoesOn
<1>12. QED
  BY <1>2, <1>5, <1>8, <1>9, <1>10, <1>11 DEF LiveKept

(* A log in that starts alone: nothing is left of what disturbed before.   *)
LEMMA FreshCalm ==
    ASSUME TypeOK, CommandInv, NEW s \in Slot, Click(s),
           Busy = {}, wire = {}, shown = NoNick
    PROVE  CalmInv'
<1>1. /\ slot'[s].pc \in {"wait", "clear"}
      /\ \A b \in Slot : b # s => slot'[b] = slot[b]
      /\ \A q \in wire' : q.from = s /\ q.stage = "sent"
      /\ UNCHANGED shown
  BY ClickBegins DEF Begins, Turn, Sends, Fields
<1>2. \A b \in Slot : b # s => slot'[b] = Idle
  BY <1>1 DEF Busy
<1>3. s # "nobody"
  BY SessionAssumption
<1>4. \A b \in Slot : slot'[b].pc \notin {"store", "file", "show"}
  BY <1>1, <1>2, IdleFacts
<1>5. \A b \in Slot : slot'[b].op = "logout" => b = s
  BY <1>2, IdleFacts
<1>6. QED
  BY <1>1, <1>2, <1>3, <1>4, <1>5 DEF CalmInv, Arriving

LEMMA ReopenCalm ==
    ASSUME TypeOK, CommandInv, CalmInv, Calm, NEW s \in Slot, Reopen(s), disturbed' = FALSE
    PROVE  LiveKept /\ WireCalm /\ Alone /\ SlotsCalm /\ BackedKept /\ ShownCalm
<1>1. /\ shown' = NoNick /\ UNCHANGED <<live, cred>> /\ Busy = {}
      /\ \A b \in Slot : b # s => slot'[b] = Idle
      /\ slot'[s] = Idle \/ (slot'[s].op = "restore" /\ slot'[s].pc = "wait")
  BY ReopenFacts DEF service, stores
<1>2. wire = {}
  BY <1>1, NoneBusy
<1>3. \A q \in wire' : q.from # "nobody" /\ ~Arriving(q)
  <2>1. \A q \in wire' : q.from # "nobody"
    BY <1>2, ReopenFacts
  <2>2. \A q \in wire' : q.from # "nobody" => q.stage = "sent"
    BY ReopenFacts DEF Fields
  <2>3. QED
    BY <2>1, <2>2 DEF Arriving
<1>4. LiveKept /\ WireCalm /\ ShownCalm
  BY <1>1, <1>3 DEF LiveKept, WireCalm, ShownCalm
<1>5. Alone /\ SlotsCalm
  BY <1>1, IdleFacts DEF Alone, SlotsCalm
<1>6. BackedKept
  <2>1. \A b \in Slot : slot[b] = Idle
    BY <1>1 DEF Busy
  <2>2. QED
    BY <1>1, <1>2, <2>1, IdleFacts DEF BackedKept, Backed, BackedNext
<1>7. QED
  BY <1>4, <1>5, <1>6

(* Calm does not come back, but by a log in that starts alone.             *)
LEMMA CalmBefore ==
    ASSUME TypeOK, CommandInv, Next, Calm'
    PROVE  \/ Calm
           \/ \E s \in Slot : /\ Click(s) /\ ~ClickLogout(s)
                              /\ Busy = {} /\ wire = {} /\ shown = NoNick
<1>1. ASSUME NEW s \in Slot, Click(s)
      PROVE  \/ Calm
             \/ /\ Click(s) /\ ~ClickLogout(s)
                /\ Busy = {} /\ wire = {} /\ shown = NoNick
  BY <1>1, ClickHistory DEF Calm
<1>2. ASSUME NEW r \in wire, Serve(r) PROVE Calm
  BY <1>2, RegisterFacts, LoginFacts, RotateFacts, RevokeFacts, ServeLogoutFacts,
     RefuseFacts, FailFacts DEF Serve, Calm, LocalState, history
<1>3. ASSUME NEW s \in Slot, Receive(s) PROVE Calm
  BY <1>3, RegisteredFacts, GrantedFacts, AnsweredFacts
     DEF Receive, Calm, LocalState, history
<1>4. ASSUME NEW s \in Slot, NEW r \in wire, GiveUp(s, r) PROVE Calm
  BY <1>4, GiveUpFacts DEF Calm
<1>5. ASSUME NEW s \in Slot, Store(s) PROVE Calm
  BY <1>5, StoreCredFacts, StoreFailsFacts, StoreFileFacts, ShowFacts, ClearCredFacts,
     ClearFileFacts DEF Store, Calm, history
<1>6. ASSUME NEW s \in Slot, Reopen(s) PROVE Calm
  BY <1>6, ReopenFacts DEF Calm
<1>7. CASE ClickPlayUnstored
  BY <1>7 DEF ClickPlayUnstored, Calm, history
<1>8. ASSUME NEW t \in live, Expire(t) PROVE Calm
  BY <1>8 DEF Expire, Disturb, Calm
<1>9. QED
  BY <1>1, <1>2, <1>3, <1>4, <1>5, <1>6, <1>7, <1>8 DEF Next

LEMMA CalmStep ==
    ASSUME TypeOK, CommandInv, ChainInv, ArrivalInv, CalmInv, Next
    PROVE  CalmInv'
<1>1. SUFFICES ASSUME Calm' PROVE CalmInv'
  BY DEF CalmInv, Calm
<1>2. disturbed' = FALSE /\ "logout" \notin together'
  <2>1. disturbed' \in BOOLEAN
    BY TypeStep DEF TypeOK
  <2>2. QED
    BY <1>1, <2>1 DEF Calm
<1>3. CommandInv'
  BY TypeStep
<1>4. CASE ~Calm
  BY <1>1, <1>4, CalmBefore, FreshCalm
<1>5. CASE Calm
  <2>1. ASSUME LiveKept, WireCalm, Alone, SlotsCalm, BackedKept, ShownCalm
        PROVE  CalmInv'
    BY <1>3, <1>5, <2>1, CalmKept
  <2>2. ASSUME NEW s \in Slot, Click(s) PROVE CalmInv'
    BY <1>2, <1>5, <2>1, <2>2, ClickCalm
  <2>3. ASSUME NEW r \in wire, Serve(r) PROVE CalmInv'
    <3>1. ~Fail(r)
      BY <1>2, FailFacts
    <3>2. QED
      BY <1>5, <2>1, <2>3, <3>1, ServeCalm
  <2>4. ASSUME NEW s \in Slot, Receive(s) PROVE CalmInv'
    BY <1>5, <2>1, <2>4, ReceiveCalm
  <2>5. ASSUME NEW s \in Slot, NEW r \in wire, GiveUp(s, r) PROVE CalmInv'
    BY <1>2, <2>5, GiveUpFacts
  <2>6. ASSUME NEW s \in Slot, Store(s) PROVE CalmInv'
    BY <1>2, <1>5, <2>1, <2>6, StoreCalm
  <2>7. ASSUME NEW s \in Slot, Reopen(s) PROVE CalmInv'
    BY <1>2, <1>5, <2>1, <2>7, ReopenCalm
  <2>8. CASE ClickPlayUnstored
    BY <1>5, <2>8 DEF ClickPlayUnstored, CalmInv, Backed, service, stores
  <2>9. ASSUME NEW t \in live, Expire(t) PROVE CalmInv'
    BY <1>2, <2>9 DEF Expire, Disturb
  <2>10. QED
    BY <2>2, <2>3, <2>4, <2>5, <2>6, <2>7, <2>8, <2>9 DEF Next
<1>6. QED
  BY <1>4, <1>5

-----------------------------------------------------------------------------
(* What a log out leaves of its login.                                     *)

(* The first conjunct of LogoutInv.                                        *)
LogoutOk(s) ==
    slot[s].op = "logout" /\ slot[s].token # NoToken =>
        /\ slot[s].pc = "wait" =>
              \A r \in wire :
                  IF r.stage = "sent"
                  THEN r.token = slot[s].token /\ r.token \in live
                  ELSE \A t \in live : t.chain # slot[s].token.chain
        /\ slot[s].pc \in {"clear", "forget"} =>
              \A t \in live : t.chain # slot[s].token.chain
        /\ slot[s].pc = "forget" => cred[slot[s].nick] = NoToken

(* A log out starts, with a token the service still accepts.               *)
LEMMA ClickLogoutOk ==
    ASSUME TypeOK, CommandInv, CalmInv, Calm, NEW s \in Slot, ClickLogout(s),
           "logout" \notin together'
    PROVE  \A b \in Slot : LogoutOk(b)'
<1>1. Busy = {}
  BY ClickHistory DEF Click
<1>2. wire = {} /\ \A b \in Slot : slot[b] = Idle
  BY <1>1, NoneBusy DEF Busy
<1>3. shown \in Nick /\ cred[shown] \in live
  <2>1. shown \in Nick
    BY LogoutFacts
  <2>2. ~LogoutRuns /\ ~\E b \in Slot : slot[b].pc = "store"
    BY <1>2, IdleFacts DEF LogoutRuns
  <2>3. Backed(shown)
    BY <2>1, <2>2, NickIsReal DEF CalmInv
  <2>4. QED
    BY <1>2, <2>1, <2>2, <2>3 DEF Backed
<1>4. cred[shown] # NoToken
  BY <1>3, TokenIsReal DEF TypeOK
<1>5. /\ Turn(s, "logout", "wait", shown, cred[shown])
      /\ Sends(s, "logout", shown, cred[shown])
      /\ UNCHANGED live
  BY <1>4, LogoutFacts DEF service
<1>6. \A r \in wire' : r.stage = "sent" /\ r.token = cred[shown]
  BY <1>2, <1>5 DEF Sends, Fields
<1>7. LogoutOk(s)'
  BY <1>3, <1>5, <1>6 DEF Turn, LogoutOk
<1>8. \A b \in Slot : b # s => LogoutOk(b)'
  BY <1>2, <1>5, IdleFacts DEF Turn, LogoutOk
<1>9. QED
  BY <1>7, <1>8

(* It goes on, and nothing else does.                                      *)
LEMMA ServeLogoutOk ==
    ASSUME TypeOK, CommandInv, ChainInv, CalmInv, LogoutInv, Calm,
           NEW s \in Slot, slot[s].op = "logout", NEW r \in wire, Serve(r), ~Fail(r)
    PROVE  LogoutOk(s)'
<1>1. r.from = s /\ r.route = "logout" /\ slot[s].pc = "wait"
      /\ \A q \in wire : q = r
  <2>1. \A q \in wire : q.from = s /\ q.route = "logout"
    BY LogoutAlone
  <2>2. QED
    BY <2>1, WaitFacts
<1>2. LogoutOk(s)
  BY DEF LogoutOk, LogoutInv
<1>3. s # "nobody"
  BY SessionAssumption
<1>4. CASE ServeLogout(r)
  <2>1. /\ r.stage = "sent" /\ r.token \in live /\ live' = live \ {r.token}
        /\ Settles(r, NoToken, "ok") /\ UNCHANGED slot
    BY <1>4, ServeLogoutFacts DEF LocalState
  <2>2. \A q \in wire' : q.stage = "ok"
    BY <1>1, <1>3, <2>1 DEF Settles, Turns, Fields
  <2>3. \A t \in live' : t.chain # r.token.chain
    BY <2>1 DEF ChainInv
  <2>4. slot[s].token # NoToken => r.token = slot[s].token
    BY <1>1, <1>2, <2>1 DEF LogoutOk
  <2>5. QED
    BY <1>1, <2>1, <2>2, <2>3, <2>4 DEF LogoutOk
<1>5. CASE Refuse(r)
  <2>1. r.stage = "sent" /\ r.token \notin live /\ UNCHANGED slot
    BY <1>1, <1>5, RefuseFacts DEF LocalState
  <2>2. slot[s].token = NoToken
    BY <1>1, <1>2, <2>1 DEF LogoutOk
  <2>3. QED
    BY <2>1, <2>2 DEF LogoutOk
<1>6. ~ServeRegister(r) /\ ~ServeLogin(r) /\ ~Revoke(r) /\ ~Rotate(r)
  BY <1>1, RegisterFacts, LoginFacts, RevokeFacts, RotateFacts
<1>7. QED
  BY <1>4, <1>5, <1>6 DEF Serve

LEMMA AnsweredLogoutOk ==
    ASSUME TypeOK, CommandInv, CalmInv, LogoutInv, Calm,
           NEW s \in Slot, slot[s].op = "logout", NEW b \in Slot, Receive(b)
    PROVE  LogoutOk(s)'
<1>1. PICK r \in wire : Registered(b, r) \/ Granted(b, r) \/ Answered(b, r)
  BY DEF Receive
<1>2. r.from = s /\ r.route = "logout" /\ slot[s].pc = "wait"
  BY LogoutAlone, WaitFacts
<1>3. LogoutOk(s)
  BY DEF LogoutOk, LogoutInv
<1>4. ~Registered(b, r) /\ ~Granted(b, r)
  BY <1>2, RegisteredFacts, GrantedFacts
<1>5. Answered(b, r) /\ b = s
  BY <1>1, <1>2, <1>4, AnsweredFacts
<1>6. /\ r.stage # "sent" /\ UNCHANGED live
      /\ Turn(s, "logout", "clear", slot[s].nick, slot[s].token)
  BY <1>5, AnsweredFacts DEF service
<1>7. slot[s].token # NoToken => \A t \in live : t.chain # slot[s].token.chain
  BY <1>2, <1>3, <1>6 DEF LogoutOk
<1>8. QED
  BY <1>6, <1>7 DEF Turn, LogoutOk

LEMMA StoreLogoutOk ==
    ASSUME TypeOK, CommandInv, CalmInv, LogoutInv, Calm, disturbed' = FALSE,
           NEW s \in Slot, slot[s].op = "logout", NEW b \in Slot, Store(b)
    PROVE  LogoutOk(s)'
<1>1. slot[b].pc \in {"store", "file", "show", "clear", "forget"}
  BY StoreCredFacts, StoreFailsFacts, StoreFileFacts, ShowFacts, ClearCredFacts,
     ClearFileFacts DEF Store
<1>2. b = s
  BY <1>1, LogoutAlone, WorkFacts
<1>3. LogoutOk(s)
  BY DEF LogoutOk, LogoutInv
<1>4. ClearCred(s) \/ ClearFile(s)
  BY <1>2, StoreCredFacts, StoreFailsFacts, StoreFileFacts, ShowFacts, WorkFacts DEF Store
<1>5. CASE ClearCred(s)
  <2>1. /\ slot[s].pc = "clear" /\ UNCHANGED live
        /\ Turn(s, slot[s].op, "forget", slot[s].nick, slot[s].token)
        /\ cred'[slot[s].nick] = NoToken
    BY <1>5, ClearCredFacts DEF service
  <2>2. slot'[s].nick = slot[s].nick /\ slot'[s].token = slot[s].token
        /\ slot'[s].pc = "forget"
    BY <2>1 DEF Turn
  <2>3. slot[s].token # NoToken => \A t \in live : t.chain # slot[s].token.chain
    BY <1>3, <2>1 DEF LogoutOk
  <2>4. QED
    BY <2>1, <2>2, <2>3 DEF LogoutOk
<1>6. CASE ClearFile(s)
  <2>1. slot'[s] = Idle
    BY <1>6, ClearFileFacts DEF Stops
  <2>2. QED
    BY <2>1, IdleFacts DEF LogoutOk
<1>7. QED
  BY <1>4, <1>5, <1>6

LEMMA LogoutOkStep ==
    ASSUME TypeOK, CommandInv, ChainInv, CalmInv, LogoutInv, Calm, Calm', Next
    PROVE  \A s \in Slot : LogoutOk(s)'
<1>1. disturbed' = FALSE /\ "logout" \notin together'
  <2>1. disturbed' \in BOOLEAN
    BY TypeStep DEF TypeOK
  <2>2. QED
    BY <2>1 DEF Calm
<1>2. ASSUME \A s \in Slot : slot'[s].op = "logout" => slot[s].op = "logout",
             \A s \in Slot : slot[s].op = "logout" => LogoutOk(s)'
      PROVE  \A s \in Slot : LogoutOk(s)'
  BY <1>2 DEF LogoutOk
<1>3. ASSUME NEW s \in Slot, Click(s) PROVE \A b \in Slot : LogoutOk(b)'
  <2>1. CASE ClickLogout(s)
    BY <1>1, <2>1, ClickLogoutOk
  <2>2. CASE ~ClickLogout(s)
    <3>1. ASSUME NEW op \in {"login", "register"}, NEW n \in Nick, SubmitForm(s, op, n)
          PROVE  UNCHANGED <<live, cred>> /\ slot[s] = Idle /\ slot'[s].op # "logout"
                 /\ (\A b \in Slot : b # s => slot'[b] = slot[b])
      <4>1. slot'[s].op = op
        BY <3>1, SubmitFacts DEF Turn
      <4>2. QED
        BY <3>1, <4>1, SubmitFacts DEF Turn, service, stores
    <3>2. UNCHANGED <<live, cred>> /\ slot[s] = Idle /\ slot'[s].op # "logout"
          /\ (\A b \in Slot : b # s => slot'[b] = slot[b])
      BY <1>3, <2>2, <3>1, PlayFacts DEF Click, Turn, service, stores
    <3>3. \A b \in Slot : slot'[b].op # "logout"
      <4>1. CASE Busy = {}
        BY <3>2, <4>1, IdleFacts DEF Busy
      <4>2. CASE ~LogoutRuns
        BY <3>2, <4>2 DEF LogoutRuns
      <4>3. QED
        BY <1>1, <1>3, <4>1, <4>2, ClickHistory
    <3>4. QED
      BY <3>3 DEF LogoutOk
  <2>3. QED
    BY <2>1, <2>2
<1>4. ASSUME NEW r \in wire, Serve(r) PROVE \A s \in Slot : LogoutOk(s)'
  <2>1. ~Fail(r)
    BY <1>1, FailFacts
  <2>2. UNCHANGED slot
    BY <1>4, <2>1, RegisterFacts, LoginFacts, RotateFacts, RevokeFacts,
       ServeLogoutFacts, RefuseFacts DEF Serve, LocalState
  <2>3. QED
    BY <1>2, <1>4, <2>1, <2>2, ServeLogoutOk
<1>5. ASSUME NEW b \in Slot, Receive(b) PROVE \A s \in Slot : LogoutOk(s)'
  <2>1. \A s \in Slot : slot'[s].op = "logout" => slot[s].op = "logout"
    <3>1. PICK r \in wire : Registered(b, r) \/ Granted(b, r) \/ Answered(b, r)
      BY <1>5 DEF Receive
    <3>2. CASE Registered(b, r)
      BY <3>2, RegisteredFacts DEF LocalState
    <3>3. CASE Granted(b, r)
      BY <3>3, GrantedFacts DEF Turn
    <3>4. CASE Answered(b, r)
      BY <3>4, AnsweredFacts, IdleFacts DEF Turn, Stops
    <3>5. QED
      BY <3>1, <3>2, <3>3, <3>4
  <2>2. QED
    BY <1>2, <1>5, <2>1, AnsweredLogoutOk
<1>6. ASSUME NEW b \in Slot, Store(b) PROVE \A s \in Slot : LogoutOk(s)'
  <2>1. \A s \in Slot : slot'[s].op = "logout" => slot[s].op = "logout"
    BY <1>6, StoreCredFacts, StoreFailsFacts, StoreFileFacts, ShowFacts, ClearCredFacts,
       ClearFileFacts, IdleFacts DEF Store, Turn, Stops
  <2>2. QED
    BY <1>1, <1>2, <1>6, <2>1, StoreLogoutOk
<1>7. ASSUME NEW b \in Slot, Reopen(b) PROVE \A s \in Slot : LogoutOk(s)'
  <2>1. \A s \in Slot : slot'[s].op # "logout"
    <3>1. \A s \in Slot : s # b => slot'[s] = Idle
      BY <1>7, ReopenFacts
    <3>2. slot'[b].op # "logout"
      BY <1>7, ReopenFacts, IdleFacts
    <3>3. QED
      BY <3>1, <3>2, IdleFacts
  <2>2. QED
    BY <2>1 DEF LogoutOk
<1>8. CASE ClickPlayUnstored
  <2>1. UNCHANGED <<live, wire, cred, slot>> /\ \A s \in Slot : LogoutOk(s)
    BY <1>8 DEF ClickPlayUnstored, LogoutInv, LogoutOk, service, stores
  <2>2. QED
    BY <2>1 DEF LogoutOk
<1>9. ~(\E s \in Slot, r \in wire : GiveUp(s, r)) /\ ~(\E t \in live : Expire(t))
  BY <1>1, GiveUpFacts DEF Expire, Disturb
<1>10. QED
  BY <1>3, <1>4, <1>5, <1>6, <1>7, <1>8, <1>9 DEF Next

(* A chain without a token gets none.                                      *)
LEMMA ExtinctKept ==
    ASSUME TypeOK, CommandInv, ChainInv, Next, NEW c \in loggedOut, Extinct(c)
    PROVE  Extinct(c)'
<1>1. ASSUME Spreads, live' \subseteq live PROVE Extinct(c)'
  BY <1>1 DEF Extinct, Spreads
<1>2. ASSUME NEW r \in wire, NEW chain, Grants(r, chain), UNCHANGED LocalState,
             chain # c
      PROVE  Extinct(c)'
  <2>1. PICK t \in Token : t.chain = chain /\ live' = live \cup {t} /\ Settles(r, t, "ok")
    BY <1>2 DEF Grants
  <2>2. UNCHANGED <<cred, slot>>
    BY <1>2 DEF LocalState, stores
  <2>3. \A n \in Nick, u \in Token : Holds(n, u)' => Holds(n, u) \/ (n = r.nick /\ u = t)
    BY <2>1, <2>2, GrantSpreads
  <2>4. QED
    BY <1>2, <2>1, <2>3 DEF Extinct
<1>3. ASSUME NEW r \in wire, Serve(r) PROVE Extinct(c)'
  <2>1. CASE ServeRegister(r) \/ ServeLogout(r) \/ Refuse(r) \/ Fail(r)
    <3>1. live' \subseteq live
      BY <2>1, RegisterFacts, ServeLogoutFacts, RefuseFacts, FailFacts DEF service
    <3>2. QED
      BY <1>1, <2>1, <3>1, QuietTokens
  <2>2. CASE ServeLogin(r)
    <3>1. c # issued + 1
      BY SessionAssumption DEF ChainInv, TypeOK
    <3>2. QED
      BY <1>2, <2>2, <3>1, LoginFacts
  <2>3. CASE Rotate(r)
    <3>1. r.token \in Token /\ Grants(r, r.token.chain) /\ UNCHANGED LocalState
      BY <2>3, RotateFacts
    <3>2. r.token.chain # c
      BY <3>1, RequestHolds, RequestFacts DEF Extinct
    <3>3. QED
      BY <1>2, <3>1, <3>2
  <2>4. CASE Revoke(r)
    BY <1>1, <2>4, RevokeChain, RevokeFacts
  <2>5. QED
    BY <1>3, <2>1, <2>2, <2>3, <2>4 DEF Serve
<1>4. ASSUME NEW s \in Slot, Click(s) \/ Receive(s) \/ Store(s) \/ Reopen(s)
      PROVE  Extinct(c)'
  <2>1. UNCHANGED live
    BY <1>4, ClickBegins, RegisteredFacts, GrantedFacts, AnsweredFacts, StoreCredFacts,
       StoreFailsFacts, StoreFileFacts, ShowFacts, ClearCredFacts, ClearFileFacts,
       ReopenFacts DEF Begins, Receive, Store, LocalState, service
  <2>2. QED
    BY <1>1, <1>4, <2>1, QuietTokens
<1>5. ASSUME NEW s \in Slot, NEW r \in wire, GiveUp(s, r) PROVE Extinct(c)'
  BY <1>1, <1>5, QuietTokens, GiveUpFacts DEF service
<1>6. CASE ClickPlayUnstored \/ \E t \in live : Expire(t)
  <2>1. UNCHANGED <<wire, cred, slot>> /\ live' \subseteq live
    BY <1>6 DEF ClickPlayUnstored, Expire, stores, service
  <2>2. Spreads
    BY <2>1 DEF Spreads, Holds
  <2>3. QED
    BY <1>1, <2>1, <2>2
<1>7. QED
  BY <1>3, <1>4, <1>5, <1>6 DEF Next

(* The end of a log out.                                                   *)
LEMMA LogoutEnds ==
    ASSUME TypeOK, CommandInv, ChainInv, CalmInv, LogoutInv, Calm,
           NEW s \in Slot, ClearFile(s), slot[s].token # NoToken,
           NEW c, c = slot[s].token.chain
    PROVE  Extinct(c)'
<1>1. /\ slot[s].pc = "forget" /\ slot'[s] = Idle
      /\ \A b \in Slot : b # s => slot'[b] = slot[b]
      /\ UNCHANGED <<live, wire, cred>>
  BY ClearFileFacts DEF Stops, service
<1>2. /\ slot[s].op = "logout" /\ slot[s].nick \in Nick /\ slot[s].token \in Token
      /\ \A r \in wire : r.from # s
  BY <1>1, WorkFacts
<1>3. /\ \A b \in Slot : slot'[b] = Idle
      /\ wire = {}
  BY <1>1, <1>2, LogoutAlone
<1>4. \A t \in live : t.chain # c
  BY <1>1, <1>2 DEF LogoutInv
<1>5. cred[slot[s].nick] = NoToken
  BY <1>1, <1>2 DEF LogoutInv
<1>6. Holds(slot[s].nick, slot[s].token)
  BY <1>2, SlotHolds
<1>7. \A n \in Nick, t \in Token : cred[n] = t => t.chain # c
  <2>1. ASSUME NEW n \in Nick, NEW t \in Token, cred[n] = t, t.chain = c
        PROVE  FALSE
    <3>1. Holds(n, t)
      BY <2>1 DEF Holds
    <3>2. n = slot[s].nick
      BY <1>2, <1>6, <2>1, <3>1 DEF ChainInv
    <3>3. QED
      BY <1>5, <2>1, <3>2, TokenIsReal
  <2>2. QED
    BY <2>1
<1>8. \A n \in Nick, t \in Token : Holds(n, t)' => cred[n] = t
  BY <1>1, <1>3, IdleFacts, TokenIsReal DEF Holds
<1>9. /\ \A t \in live' : t.chain # c
      /\ \A t \in Token : (\E n \in Nick : Holds(n, t)') => t.chain # c
  BY <1>1, <1>4, <1>7, <1>8
<1>10. QED
  BY <1>9 DEF Extinct

LEMMA LogoutStep ==
    ASSUME TypeOK, CommandInv, ChainInv, CalmInv, LogoutInv, Next
    PROVE  LogoutInv'
<1>1. SUFFICES ASSUME Calm' PROVE LogoutInv'
  BY DEF LogoutInv, Calm
<1>2. ASSUME \A s \in Slot : LogoutOk(s)', \A c \in loggedOut' : Extinct(c)'
      PROVE  LogoutInv'
  BY <1>2 DEF LogoutInv, LogoutOk, Extinct
<1>3. CASE Calm
  <2>1. \A s \in Slot : LogoutOk(s)'
    BY <1>1, <1>3, LogoutOkStep
  <2>2. \A c \in loggedOut : Extinct(c)'
    BY <1>3, ExtinctKept DEF LogoutInv
  <2>3. ASSUME NEW c \in loggedOut' PROVE Extinct(c)'
    <3>1. CASE \E s \in Slot : ClearFile(s)
      <4>1. PICK s \in Slot : ClearFile(s)
        BY <3>1
      <4>2. c \in loggedOut \/ (slot[s].token # NoToken /\ c = slot[s].token.chain)
        BY <4>1, <2>3, ClearFileFacts
      <4>3. QED
        BY <1>3, <2>2, <4>1, <4>2, LogoutEnds
    <3>2. CASE ~\E s \in Slot : ClearFile(s)
      <4>1. loggedOut' \subseteq loggedOut
        <5>1. ASSUME NEW s \in Slot, Click(s) PROVE loggedOut' \subseteq loggedOut
          BY <5>1, ClickHistory
        <5>2. ASSUME NEW r \in wire, Serve(r) PROVE loggedOut' = loggedOut
          BY <5>2, RegisterFacts, LoginFacts, RotateFacts, RevokeFacts,
             ServeLogoutFacts, RefuseFacts, FailFacts DEF Serve, LocalState, history
        <5>3. ASSUME NEW s \in Slot, Receive(s) \/ Store(s) \/ Reopen(s)
              PROVE  loggedOut' = loggedOut
          BY <3>2, <5>3, RegisteredFacts, GrantedFacts, AnsweredFacts, StoreCredFacts,
             StoreFailsFacts, StoreFileFacts, ShowFacts, ClearCredFacts, ReopenFacts
             DEF Receive, Store, LocalState, history
        <5>4. ASSUME NEW s \in Slot, NEW r \in wire, GiveUp(s, r)
              PROVE  loggedOut' = loggedOut
          BY <5>4, GiveUpFacts
        <5>5. CASE ClickPlayUnstored \/ \E t \in live : Expire(t)
          BY <5>5 DEF ClickPlayUnstored, Expire, Disturb, history
        <5>6. QED
          BY <5>1, <5>2, <5>3, <5>4, <5>5 DEF Next
      <4>2. QED
        BY <2>2, <2>3, <4>1
    <3>3. QED
      BY <3>1, <3>2
  <2>4. QED
    BY <1>2, <2>1, <2>3
<1>4. CASE ~Calm
  <2>1. PICK s \in Slot : /\ Click(s) /\ ~ClickLogout(s)
                          /\ Busy = {} /\ wire = {} /\ shown = NoNick
    BY <1>1, <1>4, CalmBefore
  <2>2. loggedOut' = {}
    BY <1>1, <1>4, <2>1, ClickHistory
  <2>3. PICK op \in {"login", "register"}, n \in Nick : SubmitForm(s, op, n)
    BY <2>1 DEF Click, ClickPlay
  <2>4. slot'[s].op = op /\ \A b \in Slot : b # s => slot'[b] = slot[b]
    BY <2>3, SubmitFacts DEF Turn
  <2>5. \A b \in Slot : slot'[b].op # "logout"
    BY <2>1, <2>4, IdleFacts DEF Busy
  <2>6. \A b \in Slot : LogoutOk(b)'
    BY <2>5 DEF LogoutOk
  <2>7. QED
    BY <1>2, <2>2, <2>6
<1>5. QED
  BY <1>3, <1>4

-----------------------------------------------------------------------------
(* The window and .last-nick, while no two commands run together.          *)

Ordered == ~disturbed /\ together = {}

(* NickInv in the next state, said of a step that starts nothing.          *)
BusyNext == {s \in Slot : slot'[s] # Idle}

LEMMA NickNext ==
    ASSUME \A s, b \in BusyNext : s = b,
           \A s \in BusyNext :
              /\ slot'[s].op \in {"login", "register", "restore"} =>
                    shown' = NoNick /\ (slot'[s].pc = "show" => lastNick' = slot'[s].nick)
              /\ slot'[s].op = "play" => slot'[s].nick = shown' /\ lastNick' = shown',
           BusyNext = {} => shown' = NoNick \/ lastNick' = shown'
    PROVE  NickInv'
BY DEF NickInv, Busy, BusyNext

(* A command goes on, or the request of one changes.                       *)
LEMMA NickGoes ==
    ASSUME NickInv, Ordered, NEW s \in Slot, slot[s] # Idle,
           slot'[s] # Idle, slot'[s].op = slot[s].op, slot'[s].nick = slot[s].nick,
           \A b \in Slot : b # s => slot'[b] = slot[b],
           UNCHANGED shown,
           \/ UNCHANGED lastNick /\ slot'[s].pc # "show"
           \/ lastNick' = slot[s].nick
    PROVE  NickInv'
<1>1. s \in Busy /\ s \in BusyNext /\ \A b \in BusyNext : b = s
  BY DEF Busy, BusyNext, NickInv, Ordered
<1>2. /\ slot[s].op \in {"login", "register", "restore"} => shown = NoNick
      /\ slot[s].op = "play" => slot[s].nick = shown /\ lastNick = shown
  BY <1>1 DEF NickInv, Ordered
<1>3. QED
  BY <1>1, <1>2, NickNext

(* A command ends.                                                         *)
LEMMA NickEnds ==
    ASSUME NickInv, Ordered, NEW s \in Slot, slot[s] # Idle, Stops(s),
           shown' = NoNick \/ lastNick' = shown'
    PROVE  NickInv'
<1>1. BusyNext = {}
  BY DEF Stops, Busy, BusyNext, NickInv, Ordered
<1>2. QED
  BY <1>1, NickNext

(* A command starts where nothing ran.                                     *)
LEMMA NickStarts ==
    ASSUME NickInv, NEW s \in Slot, Busy = {}, slot'[s] # Idle,
           \A b \in Slot : b # s => slot'[b] = slot[b],
           /\ slot'[s].op \in {"login", "register", "restore"} =>
                 shown' = NoNick /\ slot'[s].pc # "show"
           /\ slot'[s].op = "play" => slot'[s].nick = shown' /\ lastNick' = shown'
    PROVE  NickInv'
<1>1. s \in BusyNext /\ \A b \in BusyNext : b = s
  BY DEF Busy, BusyNext
<1>2. QED
  BY <1>1, NickNext

LEMMA NickStep ==
    ASSUME TypeOK, CommandInv, NickInv, Next
    PROVE  NickInv'
<1>1. SUFFICES ASSUME disturbed' = FALSE, together' = {} PROVE NickInv'
  <2>1. disturbed' \in BOOLEAN
    BY TypeStep DEF TypeOK
  <2>2. QED
    BY <2>1 DEF NickInv
<1>2. ASSUME disturbed' = disturbed, together' = together PROVE Ordered
  BY <1>1, <1>2 DEF Ordered
<1>3. ASSUME NEW s \in Slot, slot[s] # Idle, Ordered
      PROVE  /\ slot[s].op \in Command
             /\ slot[s].op \in {"login", "register", "restore"} =>
                   shown = NoNick /\ (slot[s].pc = "show" => lastNick = slot[s].nick)
             /\ slot[s].op = "play" => slot[s].nick = shown /\ lastNick = shown
  BY <1>3 DEF NickInv, Ordered, Busy, TypeOK, Process, CommandInv
<1>4. ASSUME NEW s \in Slot, Click(s) PROVE NickInv'
  <2>1. Busy = {}
    BY <1>1, <1>4, ClickHistory
  <2>2. ASSUME NEW op \in {"login", "register"}, NEW n \in Nick, SubmitForm(s, op, n)
        PROVE  NickInv'
    <3>1. /\ slot'[s].op = op /\ slot'[s].pc = "wait" /\ shown' = NoNick
          /\ \A b \in Slot : b # s => slot'[b] = slot[b]
      BY <2>2, SubmitFacts DEF Turn
    <3>2. QED
      BY <2>1, <3>1, IdleFacts, NickStarts
  <2>3. CASE ClickPlay(s)
    <3>1. Ordered
      BY <1>1, <1>4, <2>3, ClickHistory DEF Ordered
    <3>2. /\ slot'[s].op = "play" /\ slot'[s].nick = shown /\ UNCHANGED <<shown, lastNick>>
          /\ shown \in Nick
          /\ \A b \in Slot : b # s => slot'[b] = slot[b]
      BY <2>3, PlayFacts DEF Turn, stores
    <3>3. lastNick = shown
      BY <2>1, <3>1, <3>2, NickIsReal DEF NickInv, Ordered
    <3>4. QED
      BY <2>1, <3>2, <3>3, IdleFacts, NickStarts
  <2>4. CASE ClickLogout(s)
    <3>1. /\ slot'[s].op = "logout"
          /\ \A b \in Slot : b # s => slot'[b] = slot[b]
      BY <2>4, LogoutFacts DEF Turn
    <3>2. QED
      BY <2>1, <3>1, IdleFacts, NickStarts
  <2>5. QED
    BY <1>4, <2>2, <2>3, <2>4 DEF Click
<1>5. ASSUME UNCHANGED <<slot, shown, lastNick, history>> PROVE NickInv'
  BY <1>5 DEF NickInv, Busy, history
<1>6. ASSUME NEW r \in wire, Serve(r) PROVE NickInv'
  <2>1. ~Fail(r)
    BY <1>1, FailFacts
  <2>2. QED
    BY <1>5, <1>6, <2>1, RegisterFacts, LoginFacts, RotateFacts, RevokeFacts,
       ServeLogoutFacts, RefuseFacts DEF Serve, LocalState, stores
<1>7. ASSUME NEW s \in Slot, Receive(s) PROVE NickInv'
  <2>1. PICK r \in wire : Registered(s, r) \/ Granted(s, r) \/ Answered(s, r)
    BY <1>7 DEF Receive
  <2>2. r.from = s /\ UNCHANGED history /\ UNCHANGED lastNick
    BY <2>1, RegisteredFacts, GrantedFacts, AnsweredFacts DEF LocalState, stores
  <2>3. slot[s] # Idle /\ Ordered
    BY <1>2, <2>2, WaitFacts DEF history
  <2>4. CASE Registered(s, r)
    BY <1>5, <2>2, <2>4, RegisteredFacts DEF LocalState
  <2>5. CASE Granted(s, r)
    <3>1. /\ slot'[s].op = slot[s].op /\ slot'[s].pc = "store"
          /\ slot'[s].nick = r.nick /\ r.nick = slot[s].nick /\ UNCHANGED shown
          /\ \A b \in Slot : b # s => slot'[b] = slot[b]
      BY <2>2, <2>5, GrantedFacts, WaitFacts DEF Turn
    <3>2. QED
      BY <2>2, <2>3, <3>1, IdleFacts, NickGoes
  <2>6. CASE Answered(s, r)
    <3>1. CASE /\ slot[s].op = "logout" /\ UNCHANGED shown
               /\ Turn(s, "logout", "clear", slot[s].nick, slot[s].token)
      <4>1. /\ slot'[s].op = slot[s].op /\ slot'[s].pc = "clear"
            /\ slot'[s].nick = slot[s].nick
            /\ \A b \in Slot : b # s => slot'[b] = slot[b]
        BY <3>1 DEF Turn
      <4>2. QED
        BY <2>2, <2>3, <3>1, <4>1, IdleFacts, NickGoes
    <3>2. CASE slot[s].op # "logout" /\ Stops(s) /\ shown' \in {shown, NoNick}
      <4>1. shown = NoNick \/ lastNick = shown
        BY <1>3, <2>3, <3>2 DEF Command
      <4>2. QED
        BY <2>2, <2>3, <3>2, <4>1, NickEnds
    <3>3. QED
      BY <2>6, <3>1, <3>2, AnsweredFacts
  <2>7. QED
    BY <2>1, <2>4, <2>5, <2>6
<1>8. ASSUME NEW s \in Slot, Store(s) PROVE NickInv'
  <2>1. slot[s].pc \in {"store", "file", "show", "clear", "forget"}
    BY <1>8, StoreCredFacts, StoreFailsFacts, StoreFileFacts, ShowFacts, ClearCredFacts,
       ClearFileFacts DEF Store
  <2>2. slot[s] # Idle
        /\ (slot[s].pc \in {"store", "file", "show"} => slot[s].op # "logout")
    BY <2>1, WorkFacts
  <2>3. Ordered
    BY <1>1, <1>2, <1>8, StoreCredFacts, StoreFailsFacts, StoreFileFacts, ShowFacts,
       ClearCredFacts, ClearFileFacts DEF Store, history
  <2>4. CASE StoreCred(s)
    <3>1. /\ slot'[s].op = slot[s].op /\ slot'[s].pc = "file"
          /\ slot'[s].nick = slot[s].nick /\ UNCHANGED <<shown, lastNick>>
          /\ \A b \in Slot : b # s => slot'[b] = slot[b]
      BY <2>4, StoreCredFacts DEF Turn
    <3>2. QED
      BY <2>2, <2>3, <3>1, IdleFacts, NickGoes
  <2>5. CASE StoreFile(s)
    <3>1. /\ slot'[s].op = slot[s].op /\ slot'[s].pc = "show"
          /\ slot'[s].nick = slot[s].nick /\ UNCHANGED shown
          /\ \A b \in Slot : b # s => slot'[b] = slot[b]
          /\ lastNick' = slot[s].nick
      BY <1>1, <2>5, StoreFileFacts DEF Turn
    <3>2. QED
      BY <2>2, <2>3, <3>1, IdleFacts, NickGoes
  <2>6. CASE ClearCred(s)
    <3>1. /\ slot'[s].op = slot[s].op /\ slot'[s].pc = "forget"
          /\ slot'[s].nick = slot[s].nick /\ UNCHANGED <<shown, lastNick>>
          /\ \A b \in Slot : b # s => slot'[b] = slot[b]
      BY <2>6, ClearCredFacts DEF Turn
    <3>2. QED
      BY <2>2, <2>3, <3>1, IdleFacts, NickGoes
  <2>7. CASE Show(s)
    <3>1. /\ slot[s].pc = "show" /\ Stops(s) /\ UNCHANGED lastNick
          /\ shown' = IF slot[s].op = "play" THEN shown ELSE slot[s].nick
      BY <2>7, ShowFacts DEF stores
    <3>2. lastNick' = shown'
      BY <1>3, <2>2, <2>3, <3>1 DEF Command
    <3>3. QED
      BY <2>2, <2>3, <3>1, <3>2, NickEnds
  <2>8. CASE ClearFile(s)
    BY <2>2, <2>3, <2>8, ClearFileFacts, NickEnds
  <2>9. ~StoreFails(s)
    BY <1>1, StoreFailsFacts
  <2>10. QED
    BY <1>8, <2>4, <2>5, <2>6, <2>7, <2>8, <2>9 DEF Store
<1>9. ASSUME NEW s \in Slot, Reopen(s) PROVE NickInv'
  <2>1. Busy = {} /\ shown' = NoNick /\ \A b \in Slot : b # s => slot'[b] = Idle
    BY <1>1, <1>9, ReopenFacts
  <2>2. CASE slot'[s] = Idle
    <3>1. BusyNext = {}
      BY <2>1, <2>2 DEF BusyNext
    <3>2. QED
      BY <2>1, <3>1, NickNext
  <2>3. CASE slot'[s].op = "restore" /\ slot'[s].pc = "wait"
    <3>1. \A b \in Slot : b # s => slot'[b] = slot[b]
      BY <2>1 DEF Busy
    <3>2. QED
      BY <2>1, <2>3, <3>1, IdleFacts, NickStarts
  <2>4. QED
    BY <1>9, <2>2, <2>3, ReopenFacts
<1>10. CASE ClickPlayUnstored
  <2>1. /\ UNCHANGED <<slot, lastNick, disturbed, together>> /\ shown' = NoNick
        /\ \A s \in Slot : slot[s].op # "play"
    BY <1>10 DEF ClickPlayUnstored, PlayBusy, stores, history
  <2>2. Ordered /\ BusyNext = Busy
    BY <1>2, <2>1 DEF BusyNext, Busy
  <2>3. /\ \A s, b \in Busy : s = b
        /\ \A s \in Busy :
              slot[s].op \in {"login", "register", "restore"}
                /\ slot[s].pc = "show" => lastNick = slot[s].nick
    BY <2>2 DEF NickInv, Ordered
  <2>4. \A s \in Busy : s \in Slot
    BY DEF Busy
  <2>5. QED
    BY <2>1, <2>2, <2>3, <2>4, NickNext
<1>11. ~(\E s \in Slot, r \in wire : GiveUp(s, r)) /\ ~(\E t \in live : Expire(t))
  BY <1>1, GiveUpFacts DEF Expire, Disturb
<1>12. QED
  BY <1>4, <1>6, <1>7, <1>8, <1>9, <1>10, <1>11 DEF Next

-----------------------------------------------------------------------------
LEMMA SessionInit == Init => SessionInv
<1> SUFFICES ASSUME Init PROVE SessionInv
  OBVIOUS
<1>1. /\ wire = {} /\ live = {} /\ issued = 0 /\ loggedOut = {} /\ shown = NoNick
      /\ \A s \in Slot : slot[s] = Idle
      /\ \A n \in Nick : cred[n] = NoToken
  BY DEF Init
<1>2. TypeOK
  <2>1. \A s \in Slot : slot[s].pc = "wait" <=> \E r \in wire : r.from = s
    BY <1>1, IdleFacts
  <2>2. /\ regNick \in [Account -> Nick \cup {NoNick}]
        /\ cred \in [Nick -> Token \cup {NoToken}]
        /\ slot \in [Slot -> Process]
    BY IdleFacts DEF Init
  <2>3. issued \in 0..MaxTokens /\ faults \in 0..MaxFaults
    BY SessionAssumption DEF Init
  <2>4. QED
    BY <2>1, <2>2, <2>3 DEF Init, TypeOK
<1>3. CommandInv
  BY <1>1, IdleFacts DEF CommandInv
<1>4. \A n \in Nick, t \in Token : ~Holds(n, t)
  BY <1>1, IdleFacts, TokenIsReal DEF Holds
<1>5. ChainInv
  BY <1>1, <1>4 DEF ChainInv
<1>6. ArrivalInv
  BY <1>1, IdleFacts DEF ArrivalInv
<1>7. CalmInv
  BY <1>1, IdleFacts DEF CalmInv
<1>8. LogoutInv
  BY <1>1, IdleFacts DEF LogoutInv
<1>9. NickInv
  BY <1>1 DEF NickInv, Busy
<1>10. QED
  BY <1>2, <1>3, <1>5, <1>6, <1>7, <1>8, <1>9 DEF SessionInv

LEMMA SessionStep == SessionInv /\ [Next]_vars => SessionInv'
<1> SUFFICES ASSUME SessionInv, [Next]_vars PROVE SessionInv'
  OBVIOUS
<1>1. CASE Next
  BY <1>1, TypeStep, ChainStep, ArrivalStep, CalmStep, LogoutStep, NickStep DEF SessionInv
<1>2. CASE UNCHANGED vars
  <2>1. UNCHANGED <<regNick, live, issued, wire, cred, lastNick, shown, slot,
                    faults, loggedOut, disturbed, together>>
    BY <1>2 DEF vars, service, stores, history
  <2>2. TypeOK' /\ CommandInv'
    BY <2>1 DEF SessionInv, TypeOK, CommandInv
  <2>3. ChainInv' /\ ArrivalInv'
    BY <2>1 DEF SessionInv, ChainInv, Holds, ArrivalInv, Unpresented
  <2>4. CalmInv' /\ LogoutInv'
    BY <2>1 DEF SessionInv, CalmInv, Calm, LogoutRuns, Backed, LogoutInv, Extinct, Holds
  <2>5. NickInv'
    BY <2>1 DEF SessionInv, NickInv, Busy
  <2>6. QED
    BY <2>2, <2>3, <2>4, <2>5 DEF SessionInv
<1>3. QED
  BY <1>1, <1>2

(* The invariant of the commands, their requests and what they leave.      *)
THEOREM SessionInductive == Spec => []SessionInv
BY SessionInit, SessionStep, PTL DEF Spec

(* Every variable has its type, and exactly the commands that wait have a  *)
(* request under way.                                                      *)
THEOREM SessionTypeCorrect == Spec => []TypeOK
<1>1. SessionInv => TypeOK
  BY DEF SessionInv
<1>2. QED
  BY <1>1, SessionInductive, PTL

(* play() reopens the form for a dead token only, and an undisturbed       *)
(* session never has one: whatever commands ran, however often the token   *)
(* was rotated, the one in the credential store is the one that is live.   *)
THEOREM SessionIsKept == Spec => []SessionKept
<1>1. SessionInv => SessionKept
  <2> SUFFICES ASSUME SessionInv, Quiet, shown # NoNick, ~disturbed,
                      "logout" \notin together
               PROVE  cred[shown] \in live
    BY DEF SessionKept
  <2>1. \A s \in Slot : slot[s] = Idle
    BY DEF Quiet, Busy
  <2>2. ~LogoutRuns /\ wire = {} /\ \A s \in Slot : slot[s].pc # "store"
    BY <2>1, IdleFacts DEF LogoutRuns, Quiet
  <2>3. Backed(shown)
    BY <2>2 DEF SessionInv, CalmInv, Calm
  <2>4. QED
    BY <2>2, <2>3 DEF Backed
<1>2. QED
  BY <1>1, SessionInductive, PTL

(* What restore_session loads is the session that was shown.               *)
THEOREM SessionRestartRestores == Spec => []RestartRestores
<1>1. SessionInv => RestartRestores
  BY DEF SessionInv, NickInv, RestartRestores, Quiet
<1>2. QED
  BY <1>1, SessionInductive, PTL

(* A log out that had the launcher for itself leaves no token of its login,*)
(* at the service or in the credential store.                              *)
THEOREM SessionLogoutEnds == Spec => []LogoutEndsAlone
<1>1. SessionInv => LogoutEndsAlone
  <2> SUFFICES ASSUME SessionInv, ~disturbed, "logout" \notin together, NEW c \in loggedOut
               PROVE  /\ \A token \in live : token.chain # c
                      /\ \A n \in Nick : cred[n] # NoToken => cred[n].chain # c
    BY DEF LogoutEndsAlone
  <2>1. Extinct(c)
    BY DEF SessionInv, LogoutInv, Calm
  <2>2. \A n \in Nick : cred[n] # NoToken => cred[n] \in Token /\ Holds(n, cred[n])
    BY DEF SessionInv, TypeOK, Holds
  <2>3. QED
    BY <2>1, <2>2 DEF Extinct
<1>2. QED
  BY <1>1, SessionInductive, PTL

=============================================================================
