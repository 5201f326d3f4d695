----------------------------- MODULE AuthService ----------------------------
(***************************************************************************)
(* campfire-auth: the HTTP handlers of auth-service/src/api.rs and the two *)
(* operator commands of main.rs over the accounts database.                *)
(*                                                                         *)
(* A handler is not atomic: between two statements of db.rs the connection *)
(* mutex is free and other handlers (and the command-line process, which   *)
(* opens the same file) run theirs, and an argon2 computation of tens of   *)
(* milliseconds usually lies in between.  req[p] is the state of handler   *)
(* slot p; its pc names the next statement.  find_user_by_nick_lower is    *)
(* merged with the statement after it where only the id is used: users are *)
(* never deleted, so the order of the two is not observable.  The rate     *)
(* limiters are the module RateLimiter: here a refused request changes     *)
(* nothing.  A password is the number of times it was set: pw[n] = 0 means *)
(* that nick n is not registered.                                          *)
(*                                                                         *)
(* The last five variables are history: no action reads them except to     *)
(* update them (a client presents what `handed' says it was given).        *)
(***************************************************************************)
EXTENDS AuthDb

CONSTANTS
    Nick,         \* lower-cased nicks
    NoNick,       \* the nick of a slot that runs no handler
    Proc,         \* handler slots that run concurrently
    TOKEN_TTL,    \* 12 h in the code, in clock ticks here
    REFRESH_TTL,  \* 30 days in the code
    MaxClock,     \* bound: last clock value
    MaxPw,        \* bound: passwords ever set for a nick
    MaxMinted     \* bound: secrets ever generated

ASSUME AuthAssumption ==
    /\ TOKEN_TTL \in Nat \ {0} /\ REFRESH_TTL \in Nat \ {0}
    /\ MaxClock \in Nat /\ MaxPw \in Nat \ {0} /\ MaxMinted \in Nat
    /\ NoNick \notin Nick

VARIABLES
    clock,          \* now_unix()
    pw,             \* users.pw_hash
    tokens,         \* table tokens
    refresh_tokens, \* table refresh_tokens
    req,            \* handler slots
    resetting,      \* nicks with a `campfire-auth reset' between its updates
    minted,         \* secrets generated so far (generate_token)
    handed,         \* history: credentials returned to a caller
    claims,         \* history: claims[s] compare-and-swaps won with secret s
    opened,         \* history: refresh tokens inserted by a login
    ended,          \* history: password set by the last completed reset
    tangled         \* history: secrets whose row id was given to a new row
                    \*   while a handler still held that id, and the new ones

database == <<pw, tokens, refresh_tokens>>
history  == <<handed, claims, opened, ended, tangled>>
vars     == <<clock, database, req, resetting, minted, history>>

Version == 0..MaxPw
Secret  == 1..MaxMinted

TokenRow   == [id : Nat, nick : Nick, secret : Secret, expires : Nat,
               spent : BOOLEAN]
(* ver and late are history: the password that opened the session, and     *)
(* whether a reset completed while the handler that inserts it was running.*)
RefreshRow == [id : Nat, nick : Nick, secret : Secret, expires : Nat,
               spent : BOOLEAN, ver : Version, late : BOOLEAN]

Idle == [op |-> "none", pc |-> "idle", nick |-> NoNick, id |-> 0, key |-> 0,
         now |-> 0, ver |-> 0, late |-> FALSE, game |-> 0]

Issuing == {"prune_tokens", "prune_refresh", "insert_token", "insert_refresh"}

(* since: `ended' of the nick when the caller got the credential.          *)
Credential == [kind : {"game", "refresh"}, nick : Nick, secret : Secret,
               expires : Nat, since : Version]

-----------------------------------------------------------------------------
Init ==
    /\ clock = 0
    /\ pw = [n \in Nick |-> 0]
    /\ tokens = {} /\ refresh_tokens = {}
    /\ req = [p \in Proc |-> Idle]
    /\ resetting = {}
    /\ minted = 0
    /\ handed = {}
    /\ claims = [s \in Secret |-> 0]
    /\ opened = 0
    /\ ended = [n \in Nick |-> 0]
    /\ tangled = {}

(* POST /register: one INSERT; UNIQUE(nick_lower) refuses a taken nick.    *)
Register(n) ==
    /\ pw[n] = 0
    /\ pw' = [pw EXCEPT ![n] = 1]
    /\ UNCHANGED <<clock, tokens, refresh_tokens, req, resetting, minted,
                   history>>

(* A request that is answered 4xx before it changes anything: a limiter,   *)
(* an unknown nick, a wrong password, no matching candidate.               *)
Refused(p) ==
    /\ req[p] = Idle
    /\ UNCHANGED vars

(* POST /login: the password is verified against the hash read here; what  *)
(* follows runs on that verdict.                                           *)
Login(p, n) ==
    /\ req[p] = Idle
    /\ pw[n] > 0
    /\ req' = [req EXCEPT ![p] = [Idle EXCEPT !.op = "login",
                   !.pc = "prune_tokens", !.nick = n, !.ver = pw[n]]]
    /\ UNCHANGED <<clock, database, resetting, minted, history>>

(* POST /validate, /refresh and /logout up to their verify loop: `now' and *)
(* the matching candidate are remembered, the table is free again.  The    *)
(* password version a refresh token stands for travels with its row.       *)
Select(p, op, rows, n, s) ==
    \E r \in Matches(rows, n, s, clock) :
        req' = [req EXCEPT ![p] = [Idle EXCEPT !.op = op,
                   !.pc = IF op = "validate" THEN "consume" ELSE "revoke",
                   !.nick = n, !.id = r.id, !.key = s, !.now = clock,
                   !.ver  = IF op = "validate" THEN 0 ELSE r.ver,
                   !.late = IF op = "validate" THEN FALSE ELSE r.late]]

Validate(p, n, s) ==
    /\ req[p] = Idle
    /\ pw[n] > 0
    /\ Select(p, "validate", tokens, n, s)
    /\ UNCHANGED <<clock, database, resetting, minted, history>>

Refresh(p, n, s) ==
    /\ req[p] = Idle
    /\ pw[n] > 0
    /\ Select(p, "refresh", refresh_tokens, n, s)
    /\ UNCHANGED <<clock, database, resetting, minted, history>>

Logout(p, n, s) ==
    /\ req[p] = Idle
    /\ pw[n] > 0
    /\ Select(p, "logout", refresh_tokens, n, s)
    /\ UNCHANGED <<clock, database, resetting, minted, history>>

(* validate's consume_token(candidate.id, now): the compare-and-swap names *)
(* the row by its id.  One changed row answers 200, none answers 401.      *)
ConsumeToken(p) ==
    /\ req[p].pc = "consume"
    /\ \/ /\ Claimable(tokens, req[p].id) # {}
          /\ tokens' = Claim(tokens, req[p].id)
          /\ claims' = [claims EXCEPT ![req[p].key] = @ + 1]
       \/ /\ Claimable(tokens, req[p].id) = {}
          /\ UNCHANGED <<tokens, claims>>
    /\ req' = [req EXCEPT ![p] = Idle]
    /\ UNCHANGED <<clock, pw, refresh_tokens, resetting, minted, handed,
                   opened, ended, tangled>>

(* Mutated form: /refresh ignores that it lost the race.                   *)
RevokeRefreshUnchecked(p) ==
    /\ req[p].pc = "revoke"
    /\ refresh_tokens' = Claim(refresh_tokens, req[p].id)
    /\ req' = [req EXCEPT ![p] = IF req[p].op = "refresh"
                                 THEN [@ EXCEPT !.pc = "prune_tokens"]
                                 ELSE Idle]
    /\ UNCHANGED <<clock, pw, tokens, resetting, minted, history>>

(* revoke_refresh(candidate.id, now) in refresh and logout.  A lost race   *)
(* ends in 401; a won one ends /logout in 204 and lets /refresh go on.     *)
RevokeRefresh(p) ==
    /\ req[p].pc = "revoke"
    /\ \/ /\ Claimable(refresh_tokens, req[p].id) # {}
          /\ refresh_tokens' = Claim(refresh_tokens, req[p].id)
          /\ claims' = [claims EXCEPT ![req[p].key] = @ + 1]
          /\ \/ /\ req[p].op = "refresh"
                /\ req' = [req EXCEPT ![p].pc = "prune_tokens"]
             \/ /\ req[p].op = "logout"
                /\ req' = [req EXCEPT ![p] = Idle]
       \/ /\ Claimable(refresh_tokens, req[p].id) = {}
          /\ req' = [req EXCEPT ![p] = Idle]
          /\ UNCHANGED <<refresh_tokens, claims>>
    /\ UNCHANGED <<clock, pw, tokens, resetting, minted, handed, opened,
                   ended, tangled>>

(* The two opportunistic prunes of login and refresh.  login reads its     *)
(* clock only here, after the password check; refresh keeps the one it     *)
(* selected with.                                                          *)
PruneTokens(p) ==
    LET now == IF req[p].op = "login" THEN clock ELSE req[p].now
    IN  /\ req[p].pc = "prune_tokens"
        /\ tokens' = Prune(tokens, now)
        /\ req' = [req EXCEPT ![p] = [@ EXCEPT !.pc = "prune_refresh",
                                               !.now = now]]
        /\ UNCHANGED <<clock, pw, refresh_tokens, resetting, minted, history>>

PruneRefresh(p) ==
    /\ req[p].pc = "prune_refresh"
    /\ refresh_tokens' = Prune(refresh_tokens, req[p].now)
    /\ req' = [req EXCEPT ![p].pc = "insert_token"]
    /\ UNCHANGED <<clock, pw, tokens, resetting, minted, history>>

(* The handlers that still hold row id `id' and will claim it at step `pc'.*)
Holders(pc, id) == {p \in Proc : req[p].pc = pc /\ req[p].id = id}

(* History of an INSERT that takes row id `id' for the secret `s'.         *)
TangledBy(pc, id, s) ==
    IF Holders(pc, id) = {} THEN {}
    ELSE {s} \cup {req[p].key : p \in Holders(pc, id)}

(* Mutated form: the TTL is subtracted.                                    *)
NewTokenExpired(n, expires) ==
    [id |-> NextRowId(tokens), nick |-> n, secret |-> minted + 1,
     expires |-> expires - 2 * TOKEN_TTL, spent |-> FALSE]

NewToken(n, expires) ==
    [id |-> NextRowId(tokens), nick |-> n, secret |-> minted + 1,
     expires |-> expires, spent |-> FALSE]

(* generate_token, hash_secret, insert_token.                              *)
InsertToken(p) ==
    LET row == NewToken(req[p].nick, req[p].now + TOKEN_TTL)
    IN  /\ req[p].pc = "insert_token"
        /\ minted < MaxMinted
        /\ minted' = minted + 1
        /\ tokens' = tokens \cup {row}
        /\ tangled' = tangled \cup TangledBy("consume", row.id, row.secret)
        /\ req' = [req EXCEPT ![p] = [@ EXCEPT !.pc = "insert_refresh",
                                               !.game = row.secret]]
        /\ UNCHANGED <<clock, pw, refresh_tokens, resetting, handed, claims,
                       opened, ended>>

(* insert_refresh and the 200 response with both secrets, which the caller *)
(* receives unless the connection or the process is gone by then.          *)
InsertRefresh(p) ==
    LET q   == req[p]
        row == [id |-> NextRowId(refresh_tokens), nick |-> q.nick,
                secret |-> minted + 1, expires |-> q.now + REFRESH_TTL,
                spent |-> FALSE, ver |-> q.ver, late |-> q.late]
        response == {[kind |-> "game", nick |-> q.nick, secret |-> q.game,
                      expires |-> q.now + TOKEN_TTL, since |-> ended[q.nick]],
                     [kind |-> "refresh", nick |-> q.nick,
                      secret |-> row.secret, expires |-> row.expires,
                      since |-> ended[q.nick]]}
    IN  /\ q.pc = "insert_refresh"
        /\ minted < MaxMinted
        /\ minted' = minted + 1
        /\ refresh_tokens' = refresh_tokens \cup {row}
        /\ tangled' = tangled \cup TangledBy("revoke", row.id, row.secret)
        /\ opened' = IF q.op = "login" THEN opened + 1 ELSE opened
        /\ req' = [req EXCEPT ![p] = Idle]
        /\ \/ handed' = handed \cup response
           \/ handed' = handed
        /\ UNCHANGED <<clock, pw, tokens, resetting, claims, ended>>

(* A statement fails (500 internal_error) or the process dies: what the    *)
(* handler did so far stays done, the rest never happens.                  *)
Abort(p) ==
    /\ req[p].pc # "idle"
    /\ req' = [req EXCEPT ![p] = Idle]
    /\ UNCHANGED <<clock, database, resetting, minted, history>>

(* `campfire-auth login <nick>': a token without a password, from another  *)
(* process over the same file; the operator reads it from stdout.          *)
CliLogin(n) ==
    LET row == NewToken(n, clock + TOKEN_TTL)
    IN  /\ pw[n] > 0
        /\ minted < MaxMinted
        /\ minted' = minted + 1
        /\ tokens' = tokens \cup {row}
        /\ tangled' = tangled \cup TangledBy("consume", row.id, row.secret)
        /\ handed' = handed \cup {[kind |-> "game", nick |-> n,
                         secret |-> row.secret, expires |-> row.expires,
                         since |-> ended[n]]}
        /\ UNCHANGED <<clock, pw, refresh_tokens, req, resetting, claims,
                       opened, ended>>

(* `campfire-auth reset <nick>' is two updates: the password hash, then    *)
(* every outstanding refresh token.  One reset of a nick runs at a time.   *)
ResetPassword(n) ==
    /\ n \notin resetting
    /\ pw[n] > 0 /\ pw[n] < MaxPw
    /\ pw' = [pw EXCEPT ![n] = @ + 1]
    /\ resetting' = resetting \cup {n}
    /\ UNCHANGED <<clock, tokens, refresh_tokens, req, minted, history>>

(* Mutated form: the second update revokes the game tokens.                *)
ResetRevokeTokens(n) ==
    /\ n \in resetting
    /\ tokens' = RevokeAll(tokens, n)
    /\ resetting' = resetting \ {n}
    /\ ended' = [ended EXCEPT ![n] = pw[n]]
    /\ UNCHANGED <<clock, pw, refresh_tokens, req, minted, handed, claims,
                   opened, tangled>>

ResetRevoke(n) ==
    /\ n \in resetting
    /\ refresh_tokens' = RevokeAll(refresh_tokens, n)
    /\ resetting' = resetting \ {n}
    /\ ended' = [ended EXCEPT ![n] = pw[n]]
    /\ req' = [p \in Proc |->
                  IF req[p].op \in {"login", "refresh"} /\ req[p].nick = n
                  THEN [req[p] EXCEPT !.late = TRUE] ELSE req[p]]
    /\ UNCHANGED <<clock, pw, tokens, minted, handed, claims, opened, tangled>>

(* The second update fails or the command is killed before it.             *)
ResetAbort(n) ==
    /\ n \in resetting
    /\ resetting' = resetting \ {n}
    /\ UNCHANGED <<clock, database, req, minted, history>>

Tick ==
    /\ clock < MaxClock
    /\ clock' = clock + 1
    /\ UNCHANGED <<database, req, resetting, minted, history>>

Present(p, n, c) ==
    \/ c.kind = "game" /\ Validate(p, n, c.secret)
    \/ c.kind = "refresh" /\ Refresh(p, n, c.secret)
    \/ c.kind = "refresh" /\ Logout(p, n, c.secret)

Handler(p) ==
    \/ Refused(p)
    \/ \E n \in Nick : Login(p, n)
    \/ \E n \in Nick, c \in handed : Present(p, n, c)
    \/ ConsumeToken(p)
    \/ RevokeRefresh(p)
    \/ PruneTokens(p)
    \/ PruneRefresh(p)
    \/ InsertToken(p)
    \/ InsertRefresh(p)
    \/ Abort(p)

Operator(n) ==
    \/ Register(n)
    \/ CliLogin(n)
    \/ ResetPassword(n)
    \/ ResetRevoke(n)
    \/ ResetAbort(n)

Next ==
    \/ \E p \in Proc : Handler(p)
    \/ \E n \in Nick : Operator(n)
    \/ Tick

Spec == Init /\ [][Next]_vars

-----------------------------------------------------------------------------
(* The tables hold well-formed rows, each secret and each row id at most   *)
(* once per table; a handler slot is idle or in a step of its operation.   *)
Request == [op : {"none", "login", "validate", "refresh", "logout"},
            pc : {"idle", "consume", "revoke"} \cup Issuing,
            nick : Nick \cup {NoNick}, id : Nat, key : Nat, now : Nat,
            ver : Version, late : BOOLEAN, game : Nat]

TypeOK ==
    /\ clock \in Nat
    /\ pw \in [Nick -> Version]
    /\ tokens \subseteq TokenRow
    /\ refresh_tokens \subseteq RefreshRow
    /\ req \in [Proc -> Request]
    /\ resetting \subseteq Nick
    /\ minted \in 0..MaxMinted
    /\ handed \subseteq Credential
    /\ claims \in [Secret -> Nat]
    /\ opened \in Nat
    /\ ended \in [Nick -> Version]
    /\ tangled \subseteq Secret

(* README: "a token cannot be validated twice even under concurrent calls" *)
(* (and a refresh token is rotated or logged out once).  The compare-and-  *)
(* swap compares the row id, not the secret, so the code guarantees it up  *)
(* to id reuse only: a secret is honoured twice only if its row id was     *)
(* given to another row while a handler was between its SELECT and its     *)
(* compare-and-swap (claims[s] <= 1 alone is violated).                    *)
SingleUseUnlessTangled == \A s \in Secret : claims[s] > 1 => s \in tangled

(* A credential in a 200 response works until it expires: unless it was    *)
(* used, its row is still live whatever logins, refreshes, prunes, failures*)
(* and resets of other nicks did meanwhile (again up to id reuse).  Only a *)
(* reset of its own nick ends a session early.                             *)
HandedCredentialStaysGood ==
    \A c \in handed :
        clock < c.expires /\ claims[c.secret] = 0 /\ c.secret \notin tangled
        => \/ c.kind = "game"
              /\ Matches(tokens, c.nick, c.secret, clock) # {}
           \/ c.kind = "refresh"
              /\ \/ Matches(refresh_tokens, c.nick, c.secret, clock) # {}
                 \/ ended[c.nick] > c.since

Live  == {r \in refresh_tokens : ~r.spent}
Owing == {p \in Proc : req[p].op = "refresh" /\ req[p].pc \in Issuing}

(* Rotation replaces a session, it never multiplies one: the refresh       *)
(* tokens that are live, plus the rotations that still owe one, are no     *)
(* more than the logins that opened a session -- id reuse included.        *)
RotationNeverForks == Cardinality(Live) + Cardinality(Owing) <= opened

(* README: a reset "revokes every outstanding refresh token for that nick, *)
(* so a password reset ends remembered sessions too": once a reset has     *)
(* completed, no session opened with an earlier password is alive.         *)
ResetEndsSessions ==
    \A r \in refresh_tokens : ~r.spent => r.ver >= ended[r.nick]

(* What the code guarantees: a session that outlives the reset descends    *)
(* from a login or refresh that was running when the reset completed.      *)
ResetEndsSessionsUnlessLate ==
    \A r \in refresh_tokens : ~r.spent => r.ver >= ended[r.nick] \/ r.late

-----------------------------------------------------------------------------
(* The inductive invariant behind the theorems of AuthServiceTheorems.     *)

(* A slot is in a step of its operation and holds what that step needs.    *)
SlotOK(q) ==
    /\ q.pc # "idle" => q.nick \in Nick
    /\ q.pc = "idle" => q.op = "none"
    /\ q.pc = "consume" => q.op = "validate"
    /\ q.pc = "revoke" => q.op \in {"refresh", "logout"}
    /\ q.pc \in Issuing => q.op \in {"login", "refresh"}
    /\ q.pc \in {"consume", "revoke"} => q.key \in 1..minted
    /\ q.pc = "insert_refresh" => q.game \in 1..minted
    /\ q.now <= clock

SlotInv == \A p \in Proc : SlotOK(req[p])

(* Ids and secrets are unique per table; an id never outgrows its secret,  *)
(* so it is bounded by the number of secrets generated.                    *)
RowsInv(rows) ==
    /\ \A r \in rows : r.id <= r.secret /\ r.secret <= minted
    /\ \A r1, r2 \in rows : r1.id = r2.id \/ r1.secret = r2.secret => r1 = r2

TablesInv ==
    /\ RowsInv(tokens)
    /\ RowsInv(refresh_tokens)
    /\ \A t \in tokens, r \in refresh_tokens : t.secret # r.secret

(* The row a handler is about to claim is the one it selected, unless its  *)
(* id was reused: then both secrets are in `tangled'.                      *)
HeldOK(q) ==
    /\ q.pc = "consume" =>
           /\ \A t \in tokens : t.id = q.id =>
                  t.secret = q.key \/ {t.secret, q.key} \subseteq tangled
           /\ \A r \in refresh_tokens : r.secret # q.key
    /\ q.pc = "revoke" =>
           /\ \A r \in refresh_tokens : r.id = q.id =>
                  r.secret = q.key \/ {r.secret, q.key} \subseteq tangled
           /\ \A t \in tokens : t.secret # q.key

HeldInv == \A p \in Proc : HeldOK(req[p])

(* A live row was not claimed yet.                                         *)
ClaimInv ==
    /\ \A s \in Secret : s > minted => claims[s] = 0
    /\ \A t \in tokens :
           ~t.spent => claims[t.secret] = 0 \/ t.secret \in tangled
    /\ \A r \in refresh_tokens :
           ~r.spent => claims[r.secret] = 0 \/ r.secret \in tangled
    /\ SingleUseUnlessTangled

(* A handler that will insert a session knows the current password, or was *)
(* running when the reset that changed it completed.                       *)
ResetInv ==
    /\ \A n \in Nick : ended[n] <= pw[n]
    /\ \A n \in resetting : pw[n] > 0
    /\ \A p \in Proc : req[p].op \in {"login", "refresh"} =>
           req[p].ver >= ended[req[p].nick] \/ req[p].late
    /\ ResetEndsSessionsUnlessLate

(* The live row of a secret, as it was inserted.                           *)
Kept(rows, n, s, expires) ==
    \E r \in rows : /\ r.nick = n /\ r.secret = s
                    /\ r.expires = expires /\ ~r.spent

(* A secret that its holder may still count on.                            *)
Good(s, expires) == clock < expires /\ claims[s] = 0 /\ s \notin tangled

(* What a caller was given has its row, until a reset of its nick: a reset *)
(* that is under way will set `ended' above what any caller was told.      *)
HandedOK(c) ==
    /\ c.secret <= minted
    /\ c.since <= ended[c.nick]
    /\ c.kind = "game" /\ Good(c.secret, c.expires)
           => Kept(tokens, c.nick, c.secret, c.expires)
    /\ c.kind = "refresh" /\ Good(c.secret, c.expires)
           => \/ Kept(refresh_tokens, c.nick, c.secret, c.expires)
              \/ ended[c.nick] > c.since

(* So has what a handler between its two inserts is about to give.         *)
OwedOK(q) ==
    q.pc = "insert_refresh" /\ Good(q.game, q.now + TOKEN_TTL)
        => Kept(tokens, q.nick, q.game, q.now + TOKEN_TTL)

HandedInv ==
    /\ \A n \in resetting : ended[n] < pw[n]
    /\ \A c \in handed : HandedOK(c)
    /\ \A p \in Proc : OwedOK(req[p])

(* The two sets that RotationNeverForks counts are finite.                 *)
RotationInv == IsFiniteSet(Live) /\ IsFiniteSet(Owing) /\ RotationNeverForks

IInv == /\ TypeOK /\ SlotInv /\ TablesInv /\ HeldInv /\ ClaimInv /\ ResetInv
        /\ HandedInv /\ RotationInv

=============================================================================
