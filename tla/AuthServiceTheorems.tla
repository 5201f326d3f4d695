------------------------- MODULE AuthServiceTheorems ------------------------
(* Proofs about AuthService, for every set of nicks and handler slots and  *)
(* every value of the TTLs and bounds.                                     *)
EXTENDS AuthService, SetFacts, FiniteSetTheorems

(* SQLite's rowid choice is fresh: larger than every id present, and no    *)
(* more than one above a bound on them.                                    *)
LEMMA NextRowIdFresh ==
    ASSUME NEW rows, NEW b \in Nat,
           \A r \in rows : r.id \in Nat /\ r.id <= b
    PROVE  /\ NextRowId(rows) \in Nat
           /\ NextRowId(rows) >= 1
           /\ NextRowId(rows) <= b + 1
           /\ \A r \in rows : r.id < NextRowId(rows)
<1>1. CASE rows = {}
  BY <1>1 DEF NextRowId
<1>2. CASE rows # {}
  <2> DEFINE ids == {r.id : r \in rows}
  <2>1. Max(ids) \in ids /\ \A x \in ids : x <= Max(ids)
    <3>1. ids \subseteq Nat /\ ids # {} /\ \A x \in ids : x <= b
      BY <1>2
    <3> HIDE DEF ids
    <3>2. QED
      BY <3>1, MaxOfBounded
  <2>2. NextRowId(rows) = 1 + Max(ids)
    BY <1>2 DEF NextRowId
  <2>3. PICK r0 \in rows : r0.id = Max(ids)
    BY <2>1
  <2>4. \A r \in rows : r.id <= Max(ids)
    BY <2>1
  <2> HIDE DEF ids
  <2>5. QED
    BY <2>2, <2>3, <2>4
<1>3. QED
  BY <1>1, <1>2

(* Both tables always leave room for a row id that no row has.             *)
LEMMA FreshIds ==
    ASSUME TypeOK, TablesInv
    PROVE  /\ NextRowId(tokens) \in Nat
           /\ NextRowId(tokens) >= 1
           /\ NextRowId(tokens) <= minted + 1
           /\ \A r \in tokens : r.id # NextRowId(tokens)
           /\ NextRowId(refresh_tokens) \in Nat
           /\ NextRowId(refresh_tokens) >= 1
           /\ NextRowId(refresh_tokens) <= minted + 1
           /\ \A r \in refresh_tokens : r.id # NextRowId(refresh_tokens)
<1>1. minted \in Nat
  BY AuthAssumption DEF TypeOK
<1>2. \A r \in tokens : r.id \in Nat /\ r.id <= minted
  BY <1>1, AuthAssumption DEF TypeOK, TablesInv, RowsInv, TokenRow, Secret
<1>3. \A r \in refresh_tokens : r.id \in Nat /\ r.id <= minted
  BY <1>1, AuthAssumption DEF TypeOK, TablesInv, RowsInv, RefreshRow, Secret
<1>4. QED
  <2>1. /\ NextRowId(tokens) \in Nat
        /\ NextRowId(tokens) >= 1
        /\ NextRowId(tokens) <= minted + 1
        /\ \A r \in tokens : r.id < NextRowId(tokens)
    BY <1>1, <1>2, NextRowIdFresh
  <2>2. /\ NextRowId(refresh_tokens) \in Nat
        /\ NextRowId(refresh_tokens) >= 1
        /\ NextRowId(refresh_tokens) <= minted + 1
        /\ \A r \in refresh_tokens : r.id < NextRowId(refresh_tokens)
    BY <1>1, <1>3, NextRowIdFresh
  <2>3. QED
    BY <2>1, <2>2, <1>2, <1>3


(* What a slot holds at the steps that use it.                             *)
LEMMA SlotFacts ==
    ASSUME TypeOK, SlotInv, NEW p \in Proc
    PROVE  /\ minted \in Nat /\ MaxMinted \in Nat /\ minted <= MaxMinted
           /\ req[p] \in Request
           /\ req[p].id \in Nat /\ req[p].now \in Nat
           /\ req[p].pc # "idle" => req[p].nick \in Nick
           /\ req[p].pc \in {"consume", "revoke"} => req[p].key \in Secret
           /\ req[p].pc = "insert_refresh" => req[p].game \in Secret
<1>1. minted \in Nat /\ MaxMinted \in Nat /\ minted <= MaxMinted
  BY AuthAssumption DEF TypeOK
<1>2. req[p] \in Request
  BY DEF TypeOK
<1>3. req[p].id \in Nat /\ req[p].now \in Nat
  BY <1>2 DEF Request
<1>4. 1..minted \subseteq Secret
  BY <1>1 DEF Secret
<1>5. QED
  BY <1>1, <1>2, <1>3, <1>4 DEF SlotInv, SlotOK

(* Replacing one slot by a well-formed one keeps req well-typed.           *)
LEMMA SlotType ==
    ASSUME TypeOK, NEW p \in Proc, NEW q \in Request,
           req' = [req EXCEPT ![p] = q]
    PROVE  req' \in [Proc -> Request]
  BY DEF TypeOK

(* An idle slot is well-formed.                                            *)
LEMMA IdleType == Idle \in Request
  BY AuthAssumption DEF Idle, Request, Version

(* The slot of a handler that has selected a row is well-typed.            *)
LEMMA SelectType ==
    ASSUME TypeOK, NEW p \in Proc, NEW n \in Nick, NEW s \in Secret,
           \/ Select(p, "validate", tokens, n, s)
           \/ Select(p, "refresh", refresh_tokens, n, s)
           \/ Select(p, "logout", refresh_tokens, n, s)
    PROVE  req' \in [Proc -> Request]
<1>1. CASE Select(p, "validate", tokens, n, s)
  <2>1. PICK r \in tokens : req' = [req EXCEPT ![p] =
            [Idle EXCEPT !.op = "validate", !.pc = "consume", !.nick = n,
                !.id = r.id, !.key = s, !.now = clock, !.ver = 0,
                !.late = FALSE]]
    BY <1>1 DEF Select, Matches
  <2>2. r.id \in Nat /\ s \in Nat /\ clock \in Nat
    BY DEF TypeOK, TokenRow, Secret
  <2>3. [Idle EXCEPT !.op = "validate", !.pc = "consume", !.nick = n,
            !.id = r.id, !.key = s, !.now = clock, !.ver = 0,
            !.late = FALSE] \in Request
    <3>1. Idle \in Request /\ 0 \in Version
      BY IdleType, AuthAssumption DEF Version
    <3>2. QED
      BY <2>2, <3>1 DEF Request
  <2>4. QED
    BY <2>1, <2>3, SlotType
<1>2. ASSUME NEW op \in {"refresh", "logout"},
             Select(p, op, refresh_tokens, n, s)
      PROVE  req' \in [Proc -> Request]
  <2>1. PICK r \in refresh_tokens : req' = [req EXCEPT ![p] =
            [Idle EXCEPT !.op = op, !.pc = "revoke", !.nick = n,
                !.id = r.id, !.key = s, !.now = clock, !.ver = r.ver,
                !.late = r.late]]
    BY <1>2 DEF Select, Matches
  <2>2. /\ r.id \in Nat /\ s \in Nat /\ clock \in Nat
        /\ r.ver \in Version /\ r.late \in BOOLEAN
    BY DEF TypeOK, RefreshRow, Secret
  <2>3. [Idle EXCEPT !.op = op, !.pc = "revoke", !.nick = n,
            !.id = r.id, !.key = s, !.now = clock, !.ver = r.ver,
            !.late = r.late] \in Request
    BY <2>2 DEF Idle, Request
  <2>4. QED
    BY <2>1, <2>3, SlotType
<1>3. QED
  BY <1>1, <1>2

(* Marking rows spent keeps the tables well-typed.                         *)
LEMMA ClaimTypes ==
    ASSUME TypeOK, NEW k
    PROVE  /\ Claim(tokens, k) \subseteq TokenRow
           /\ Claim(refresh_tokens, k) \subseteq RefreshRow
           /\ RevokeAll(refresh_tokens, k) \subseteq RefreshRow
<1>1. \A r \in TokenRow : [r EXCEPT !.spent = TRUE] \in TokenRow
  BY DEF TokenRow
<1>2. \A r \in RefreshRow : [r EXCEPT !.spent = TRUE] \in RefreshRow
  BY DEF RefreshRow
<1>3. QED
  BY <1>1, <1>2 DEF TypeOK, Claim, RevokeAll

(* A token row as insert_token and the CLI make it.                        *)
LEMMA NewTokenType ==
    ASSUME TypeOK, TablesInv, NEW n \in Nick, NEW e \in Nat,
           minted < MaxMinted
    PROVE  NewToken(n, e) \in TokenRow
<1>1. NextRowId(tokens) \in Nat
  BY FreshIds
<1>2. minted + 1 \in Secret
  BY AuthAssumption DEF TypeOK, Secret
<1>3. QED
  BY <1>1, <1>2 DEF NewToken, TokenRow

-----------------------------------------------------------------------------
(* Every step preserves the types.                                         *)
LEMMA TypeStep ==
    ASSUME TypeOK, SlotInv, TablesInv, [Next]_vars
    PROVE  TypeOK'
<1>1. ASSUME NEW p \in Proc, Refused(p) PROVE TypeOK'
  BY <1>1 DEF Refused, vars, database, history, TypeOK
<1>2. ASSUME NEW p \in Proc, NEW n \in Nick, Login(p, n) PROVE TypeOK'
  <2>1. req' \in [Proc -> Request]
    BY <1>2 DEF Login, TypeOK, Idle, Request, Issuing
  <2>2. QED
    BY <1>2, <2>1 DEF Login, TypeOK, database, history
<1>3. ASSUME NEW p \in Proc, NEW n \in Nick, NEW c \in handed, Present(p, n, c)
      PROVE  TypeOK'
  <2>1. c.secret \in Secret
    BY DEF TypeOK, Credential
  <2>2. req' \in [Proc -> Request]
    BY <1>3, <2>1, SelectType DEF Present, Validate, Refresh, Logout
  <2>3. QED
    BY <1>3, <2>2
    DEF Present, Validate, Refresh, Logout, TypeOK, database, history
<1>4. ASSUME NEW p \in Proc, ConsumeToken(p) PROVE TypeOK'
  <2>1. req' \in [Proc -> Request]
    BY <1>4, IdleType DEF ConsumeToken, TypeOK
  <2>2. tokens' \subseteq TokenRow
    BY <1>4, ClaimTypes DEF ConsumeToken, TypeOK
  <2>3. claims' \in [Secret -> Nat]
    BY <1>4, SlotFacts DEF ConsumeToken, TypeOK
  <2>4. QED
    BY <1>4, <2>1, <2>2, <2>3 DEF ConsumeToken, TypeOK
<1>5. ASSUME NEW p \in Proc, RevokeRefresh(p) PROVE TypeOK'
  <2>1. req' \in [Proc -> Request]
    BY <1>5, IdleType DEF RevokeRefresh, TypeOK, Request, Issuing
  <2>2. refresh_tokens' \subseteq RefreshRow
    BY <1>5, ClaimTypes DEF RevokeRefresh, TypeOK
  <2>3. claims' \in [Secret -> Nat]
    BY <1>5, SlotFacts DEF RevokeRefresh, TypeOK
  <2>4. QED
    BY <1>5, <2>1, <2>2, <2>3 DEF RevokeRefresh, TypeOK
<1>6. ASSUME NEW p \in Proc, PruneTokens(p) PROVE TypeOK'
  <2>1. req' \in [Proc -> Request]
    <3>1. PICK t \in Nat : req' = [req EXCEPT ![p] =
              [req[p] EXCEPT !.pc = "prune_refresh", !.now = t]]
      BY <1>6, SlotFacts DEF PruneTokens, TypeOK
    <3>2. [req[p] EXCEPT !.pc = "prune_refresh", !.now = t] \in Request
      BY SlotFacts DEF Request, Issuing
    <3>3. QED
      BY <3>1, <3>2, SlotType
  <2>2. QED
    BY <1>6, <2>1 DEF PruneTokens, TypeOK, Prune, history
<1>7. ASSUME NEW p \in Proc, PruneRefresh(p) PROVE TypeOK'
  <2>1. req' \in [Proc -> Request]
    BY <1>7 DEF PruneRefresh, TypeOK, Request, Issuing
  <2>2. QED
    BY <1>7, <2>1 DEF PruneRefresh, TypeOK, Prune, history
<1>8. ASSUME NEW p \in Proc, InsertToken(p) PROVE TypeOK'
  <2>1. minted + 1 \in Secret /\ minted' = minted + 1
    BY <1>8, SlotFacts DEF InsertToken, Secret
  <2>2. req' \in [Proc -> Request]
    <3>1. req' = [req EXCEPT ![p] = [@ EXCEPT !.pc = "insert_refresh",
                                              !.game = minted + 1]]
      BY <1>8 DEF InsertToken, NewToken
    <3>2. [req[p] EXCEPT !.pc = "insert_refresh", !.game = minted + 1]
              \in Request
      <4>1. req[p] \in Request /\ minted + 1 \in Nat
        BY SlotFacts
      <4>2. QED
        BY <4>1 DEF Request, Issuing
    <3>3. QED
      BY <3>1, <3>2, SlotType
  <2>3. tokens' \subseteq TokenRow
    <3>1. req[p].nick \in Nick /\ req[p].now + TOKEN_TTL \in Nat
      BY <1>8, SlotFacts, AuthAssumption DEF InsertToken
    <3>2. NewToken(req[p].nick, req[p].now + TOKEN_TTL) \in TokenRow
      BY <1>8, <3>1, NewTokenType DEF InsertToken
    <3>3. QED
      BY <1>8, <3>2 DEF InsertToken, TypeOK
  <2>4. tangled' \subseteq Secret
    BY <1>8, SlotFacts, <2>1 DEF InsertToken, TypeOK, TangledBy, Holders, NewToken
  <2>5. QED
    BY <1>8, <2>1, <2>2, <2>3, <2>4 DEF InsertToken, TypeOK, Secret
<1>9. ASSUME NEW p \in Proc, InsertRefresh(p) PROVE TypeOK'
  <2> DEFINE q   == req[p]
             row == [id |-> NextRowId(refresh_tokens), nick |-> q.nick,
                     secret |-> minted + 1, expires |-> q.now + REFRESH_TTL,
                     spent |-> FALSE, ver |-> q.ver, late |-> q.late]
  <2>1. minted + 1 \in Secret /\ minted' = minted + 1
    BY <1>9, SlotFacts DEF InsertRefresh, Secret
  <2>2. req' \in [Proc -> Request]
    BY <1>9, IdleType DEF InsertRefresh, TypeOK
  <2>3. /\ q.nick \in Nick /\ q.ver \in Version /\ q.late \in BOOLEAN
        /\ q.game \in Secret
        /\ q.now + REFRESH_TTL \in Nat /\ q.now + TOKEN_TTL \in Nat
    BY <1>9, SlotFacts, AuthAssumption DEF InsertRefresh, Request
  <2>4. row \in RefreshRow
    BY <2>1, <2>3, FreshIds DEF RefreshRow
  <2>5. refresh_tokens' = refresh_tokens \cup {row}
    BY <1>9 DEF InsertRefresh
  <2>6. tangled' \subseteq Secret
    BY <1>9, SlotFacts, <2>1 DEF InsertRefresh, TypeOK, TangledBy, Holders
  <2>7. handed' \subseteq Credential
    <3>1. ended[q.nick] \in Version
      BY <2>3 DEF TypeOK
    <3>2. QED
      BY <1>9, <2>1, <2>3, <3>1 DEF InsertRefresh, TypeOK, Credential
  <2>8. opened' \in Nat
    BY <1>9 DEF InsertRefresh, TypeOK
  <2>9. refresh_tokens' \subseteq RefreshRow
    BY <2>4, <2>5 DEF TypeOK
  <2>10. QED
    BY <1>9, <2>1, <2>2, <2>6, <2>7, <2>8, <2>9
    DEF InsertRefresh, TypeOK, Secret
<1>10. ASSUME NEW p \in Proc, Abort(p) PROVE TypeOK'
  BY <1>10, IdleType DEF Abort, TypeOK, database, history
<1>11. ASSUME NEW n \in Nick, Register(n) PROVE TypeOK'
  BY <1>11, AuthAssumption DEF Register, TypeOK, history, Version
<1>12. ASSUME NEW n \in Nick, CliLogin(n) PROVE TypeOK'
  <2>1. minted + 1 \in Secret /\ minted' = minted + 1
    BY <1>12, AuthAssumption DEF CliLogin, TypeOK, Secret
  <2>2. NewToken(n, clock + TOKEN_TTL) \in TokenRow
    <3>1. clock + TOKEN_TTL \in Nat
      BY AuthAssumption DEF TypeOK
    <3>2. QED
      BY <1>12, <3>1, NewTokenType DEF CliLogin
  <2>3. tokens' \subseteq TokenRow
    BY <1>12, <2>2 DEF CliLogin, TypeOK
  <2>4. tangled' \subseteq Secret
    BY <1>12, SlotFacts, <2>1 DEF CliLogin, TypeOK, TangledBy, Holders, NewToken
  <2>5. handed' \subseteq Credential
    <3>1. ended[n] \in Version
      BY DEF TypeOK
    <3>2. QED
      BY <1>12, <2>2, <3>1 DEF CliLogin, TypeOK, Credential, TokenRow
  <2>6. QED
    BY <1>12, <2>1, <2>3, <2>4, <2>5 DEF CliLogin, TypeOK, Secret
<1>13. ASSUME NEW n \in Nick, ResetPassword(n) PROVE TypeOK'
  BY <1>13, AuthAssumption DEF ResetPassword, TypeOK, history, Version
<1>14. ASSUME NEW n \in Nick, ResetRevoke(n) PROVE TypeOK'
  <2>1. req' \in [Proc -> Request]
    <3>1. \A p \in Proc : /\ req[p] \in Request
                          /\ [req[p] EXCEPT !.late = TRUE] \in Request
      BY DEF TypeOK, Request
    <3>2. QED
      BY <1>14, <3>1 DEF ResetRevoke
  <2>2. refresh_tokens' \subseteq RefreshRow
    BY <1>14, ClaimTypes DEF ResetRevoke, TypeOK
  <2>3. QED
    BY <1>14, <2>1, <2>2 DEF ResetRevoke, TypeOK
<1>15. ASSUME NEW n \in Nick, ResetAbort(n) PROVE TypeOK'
  BY <1>15 DEF ResetAbort, TypeOK, database, history
<1>16. CASE Tick
  BY <1>16 DEF Tick, TypeOK, database, history
<1>17. CASE UNCHANGED vars
  BY <1>17 DEF vars, database, history, TypeOK
<1>18. QED
  BY <1>1, <1>2, <1>3, <1>4, <1>5, <1>6, <1>7, <1>8, <1>9, <1>10, <1>11,
     <1>12, <1>13, <1>14, <1>15, <1>16, <1>17
  DEF Next, Handler, Operator

-----------------------------------------------------------------------------
(* Marking rows spent and deleting rows keeps ids and secrets unique.      *)
LEMMA RowsInvKept ==
    ASSUME NEW rows, rows \subseteq TokenRow \/ rows \subseteq RefreshRow,
           RowsInv(rows), NEW k
    PROVE  /\ RowsInv(Claim(rows, k))
           /\ RowsInv(RevokeAll(rows, k))
           /\ RowsInv(Prune(rows, k))
<1> DEFINE mark(r) == [r EXCEPT !.spent = TRUE]
<1>1. \A r \in rows : mark(r).id = r.id /\ mark(r).secret = r.secret
  BY DEF TokenRow, RefreshRow
<1> HIDE DEF mark
<1>2. RowsInv(Claim(rows, k))
  <2>1. \A x \in Claim(rows, k) : \E r \in rows :
            /\ x = IF r.id = k THEN mark(r) ELSE r
            /\ x.id = r.id /\ x.secret = r.secret
    BY <1>1 DEF Claim, mark
  <2>2. QED
    BY <2>1 DEF RowsInv
<1>3. RowsInv(RevokeAll(rows, k))
  <2>1. \A x \in RevokeAll(rows, k) : \E r \in rows :
            /\ x = IF r.nick = k THEN mark(r) ELSE r
            /\ x.id = r.id /\ x.secret = r.secret
    BY <1>1 DEF RevokeAll, mark
  <2>2. QED
    BY <2>1 DEF RowsInv
<1>4. RowsInv(Prune(rows, k))
  BY DEF RowsInv, Prune
<1>5. QED
  BY <1>2, <1>3, <1>4

(* Every step leaves every slot with what its next step needs.             *)
LEMMA SlotStep ==
    ASSUME TypeOK, SlotInv, TablesInv, [Next]_vars
    PROVE  SlotInv'
<1>1. minted \in Nat /\ clock \in Nat
  BY AuthAssumption DEF TypeOK
<1>2. ASSUME req' = req, minted' \in {minted, minted + 1},
             clock' \in {clock, clock + 1}
      PROVE  SlotInv'
  <2>1. \A p \in Proc : req[p] \in Request
    BY DEF TypeOK
  <2>2. \A q \in Request : SlotOK(q) => SlotOK(q)'
    BY <1>1, <1>2 DEF SlotOK, Request
  <2>3. QED
    BY <1>2, <2>1, <2>2 DEF SlotInv
<1>3. ASSUME NEW p \in Proc, NEW q \in Request, req' = [req EXCEPT ![p] = q],
             minted' \in {minted, minted + 1}, clock' = clock, SlotOK(q)'
      PROVE  SlotInv'
  <2>1. \A r \in Proc : req[r] \in Request
    BY DEF TypeOK
  <2>2. \A r \in Request : SlotOK(r) => SlotOK(r)'
    BY <1>1, <1>3 DEF SlotOK, Request
  <2>3. QED
    BY <1>3, <2>1, <2>2 DEF SlotInv, TypeOK
<1>4. clock' = clock => SlotOK(Idle)'
  BY <1>1 DEF SlotOK, Idle, Issuing
<1>5. ASSUME NEW p \in Proc, Handler(p) PROVE SlotInv'
  <2> USE IdleType
  <2>1. CASE Refused(p)
    BY <2>1, <1>2 DEF Refused, vars
  <2>2. ASSUME NEW n \in Nick, Login(p, n) PROVE SlotInv'
    <3>1. PICK q \in Request :
              q = [Idle EXCEPT !.op = "login", !.pc = "prune_tokens",
                       !.nick = n, !.ver = pw[n]]
      BY DEF Request, TypeOK, Issuing
    <3>2. SlotOK(q)'
      BY <2>2, <3>1, <1>1 DEF Login, SlotOK, Issuing, Idle
    <3>3. QED
      BY <2>2, <3>1, <3>2, <1>3 DEF Login
  <2>3. ASSUME NEW n \in Nick, NEW c \in handed, Present(p, n, c)
        PROVE  SlotInv'
    <3>1. PICK q : /\ req' = [req EXCEPT ![p] = q]
                   /\ q.pc \in {"consume", "revoke"}
                   /\ q.pc = "consume" => q.op = "validate"
                   /\ q.pc = "revoke" => q.op \in {"refresh", "logout"}
                   /\ q.nick = n /\ q.key = c.secret /\ q.now = clock
                   /\ \E r \in tokens \cup refresh_tokens : r.secret = q.key
      <4> DEFINE rows == IF c.kind = "game" THEN tokens ELSE refresh_tokens
      <4>1. PICK op \in {"validate", "refresh", "logout"} :
                Select(p, op, rows, n, c.secret)
        BY <2>3 DEF Present, Validate, Refresh, Logout
      <4>2. PICK r \in rows :
                /\ r.secret = c.secret
                /\ req' = [req EXCEPT ![p] = [Idle EXCEPT !.op = op,
                       !.pc = IF op = "validate" THEN "consume" ELSE "revoke",
                       !.nick = n, !.id = r.id, !.key = c.secret,
                       !.now = clock,
                       !.ver  = IF op = "validate" THEN 0 ELSE r.ver,
                       !.late = IF op = "validate" THEN FALSE ELSE r.late]]
        BY <4>1 DEF Select, Matches
      <4> HIDE DEF rows
      <4>3. PICK q : q = [Idle EXCEPT !.op = op,
                       !.pc = IF op = "validate" THEN "consume" ELSE "revoke",
                       !.nick = n, !.id = r.id, !.key = c.secret,
                       !.now = clock,
                       !.ver  = IF op = "validate" THEN 0 ELSE r.ver,
                       !.late = IF op = "validate" THEN FALSE ELSE r.late]
        OBVIOUS
      <4>4. /\ q.pc \in {"consume", "revoke"}
            /\ q.pc = "consume" => q.op = "validate"
            /\ q.pc = "revoke" => q.op \in {"refresh", "logout"}
            /\ q.nick = n /\ q.key = c.secret /\ q.now = clock
        BY <4>3 DEF Idle
      <4>5. QED
        BY <4>2, <4>3, <4>4 DEF rows
    <3>2. c.secret \in Secret
      BY DEF TypeOK, Credential
    <3>3. req' \in [Proc -> Request]
      BY <2>3, <3>2, SelectType DEF Present, Validate, Refresh, Logout
    <3>4. q \in Request
      BY <3>1, <3>3 DEF TypeOK
    <3>5. q.key \in 1..minted
      BY <3>1, <3>2, <1>1, AuthAssumption DEF TablesInv, RowsInv, Secret
    <3>6. minted' = minted /\ clock' = clock
      BY <2>3 DEF Present, Validate, Refresh, Logout
    <3>7. SlotOK(q)'
      BY <3>1, <3>5, <3>6, <1>1 DEF SlotOK, Issuing
    <3>8. QED
      BY <3>1, <3>4, <3>6, <3>7, <1>3
  <2>4. CASE ConsumeToken(p)
    BY <2>4, <1>3, <1>4 DEF ConsumeToken
  <2>5. CASE RevokeRefresh(p)
    <3>1. CASE req' = [req EXCEPT ![p] = Idle]
      BY <2>5, <3>1, <1>3, <1>4 DEF RevokeRefresh
    <3>2. CASE /\ req[p].op = "refresh"
               /\ req' = [req EXCEPT ![p].pc = "prune_tokens"]
      <4>1. PICK q \in Request : q = [req[p] EXCEPT !.pc = "prune_tokens"]
        BY DEF TypeOK, Request, Issuing
      <4>2. SlotOK(q)'
        <5>1. req[p] \in Request /\ SlotOK(req[p])
          BY DEF SlotInv, TypeOK
        <5>2. minted' = minted /\ clock' = clock /\ req[p].pc = "revoke"
          BY <2>5 DEF RevokeRefresh
        <5>3. QED
          BY <5>1, <5>2, <3>2, <4>1 DEF SlotOK, Issuing, Request
      <4>3. QED
        BY <2>5, <3>2, <4>1, <4>2, <1>3 DEF RevokeRefresh
    <3>3. QED
      BY <2>5, <3>1, <3>2 DEF RevokeRefresh
  <2>6. CASE PruneTokens(p)
    <3> DEFINE t == IF req[p].op = "login" THEN clock ELSE req[p].now
    <3>1. req[p] \in Request /\ SlotOK(req[p])
      BY DEF SlotInv, TypeOK
    <3>2. t \in Nat /\ t <= clock
      BY <3>1, <1>1 DEF SlotOK, Request
    <3> HIDE DEF t
    <3>3. PICK q \in Request :
              q = [req[p] EXCEPT !.pc = "prune_refresh", !.now = t]
      BY <3>1, <3>2 DEF Request, Issuing
    <3>4. SlotOK(q)'
      BY <2>6, <3>1, <3>2, <3>3 DEF PruneTokens, SlotOK, Issuing, Request
    <3>5. req' = [req EXCEPT ![p] = q]
      BY <2>6, <3>3 DEF PruneTokens, t
    <3>6. QED
      BY <2>6, <3>3, <3>4, <3>5, <1>3 DEF PruneTokens
  <2>7. CASE PruneRefresh(p)
    <3>1. req[p] \in Request /\ SlotOK(req[p])
      BY DEF SlotInv, TypeOK
    <3>2. PICK q \in Request : q = [req[p] EXCEPT !.pc = "insert_token"]
      BY <3>1 DEF Request, Issuing
    <3>3. SlotOK(q)'
      BY <2>7, <3>1, <3>2 DEF PruneRefresh, SlotOK, Issuing, Request
    <3>4. QED
      BY <2>7, <3>2, <3>3, <1>3 DEF PruneRefresh
  <2>8. CASE InsertToken(p)
    <3>1. req[p] \in Request /\ SlotOK(req[p])
      BY DEF SlotInv, TypeOK
    <3>2. PICK q \in Request :
              q = [req[p] EXCEPT !.pc = "insert_refresh", !.game = minted + 1]
      <4>1. minted + 1 \in Nat
        BY <1>1
      <4>2. [req[p] EXCEPT !.pc = "insert_refresh", !.game = minted + 1]
                \in Request
        BY <3>1, <4>1 DEF Request, Issuing
      <4>3. QED
        BY <4>2
    <3>3. SlotOK(q)'
      <4>1. minted' = minted + 1 /\ clock' = clock /\ req[p].pc = "insert_token"
        BY <2>8 DEF InsertToken
      <4>2. /\ q.pc = "insert_refresh" /\ q.game = minted + 1
            /\ q.op = req[p].op /\ q.nick = req[p].nick /\ q.now = req[p].now
        BY <3>1, <3>2 DEF Request
      <4>3. QED
        BY <3>1, <4>1, <4>2, <1>1 DEF SlotOK, Issuing
    <3>4. req' = [req EXCEPT ![p] = q]
      BY <2>8, <3>2 DEF InsertToken, NewToken
    <3>5. QED
      BY <2>8, <3>2, <3>3, <3>4, <1>3 DEF InsertToken
  <2>9. CASE InsertRefresh(p)
    BY <2>9, <1>3, <1>4 DEF InsertRefresh
  <2>10. CASE Abort(p)
    BY <2>10, <1>3, <1>4 DEF Abort
  <2>11. QED
    BY <1>5, <2>1, <2>2, <2>3, <2>4, <2>5, <2>6, <2>7, <2>8, <2>9, <2>10
    DEF Handler
<1>6. ASSUME NEW n \in Nick, Operator(n) PROVE SlotInv'
  <2>1. CASE ResetRevoke(n)
    <3>1. \A p \in Proc : SlotOK(req[p])' /\ req[p] \in Request
      BY <2>1 DEF ResetRevoke, SlotInv, SlotOK, TypeOK
    <3>2. \A q \in Request : SlotOK(q)' => SlotOK([q EXCEPT !.late = TRUE])'
      BY DEF SlotOK, Request
    <3>3. QED
      BY <2>1, <3>1, <3>2 DEF ResetRevoke, SlotInv
  <2>2. CASE ~ResetRevoke(n)
    BY <1>6, <2>2, <1>2
    DEF Operator, Register, CliLogin, ResetPassword, ResetAbort
  <2>3. QED
    BY <2>1, <2>2
<1>7. CASE Tick
  BY <1>7, <1>2 DEF Tick
<1>8. CASE UNCHANGED vars
  BY <1>8, <1>2 DEF vars
<1>9. QED
  BY <1>5, <1>6, <1>7, <1>8 DEF Next

(* Every step keeps ids and secrets unique.  An INSERT takes a fresh row id*)
(* and a fresh secret; every other statement keeps or deletes rows.        *)
LEMMA TablesStep ==
    ASSUME TypeOK, SlotInv, TablesInv, [Next]_vars
    PROVE  TablesInv'
<1>1. minted \in Nat
  BY AuthAssumption DEF TypeOK
<1>2. /\ \A t \in tokens : t.id \in Nat /\ t.secret \in Nat
      /\ \A r \in refresh_tokens : r.id \in Nat /\ r.secret \in Nat
  BY DEF TypeOK, TokenRow, RefreshRow, Secret
<1>3. ASSUME UNCHANGED <<tokens, refresh_tokens, minted>> PROVE TablesInv'
  BY <1>3 DEF TablesInv, RowsInv
<1>4. ASSUME NEW t, NEW r, tokens' = t, refresh_tokens' = r, minted' = minted,
             RowsInv(t), RowsInv(r),
             \A x \in t : \E y \in tokens : x.secret = y.secret,
             \A x \in r : \E y \in refresh_tokens : x.secret = y.secret
      PROVE  TablesInv'
  BY <1>4 DEF TablesInv, RowsInv
<1>5. ASSUME NEW k
      PROVE  /\ \A x \in Claim(tokens, k) : \E y \in tokens : x.secret = y.secret
             /\ \A x \in Claim(refresh_tokens, k) :
                    \E y \in refresh_tokens : x.secret = y.secret
             /\ \A x \in RevokeAll(refresh_tokens, k) :
                    \E y \in refresh_tokens : x.secret = y.secret
             /\ Prune(tokens, k) \subseteq tokens
             /\ Prune(refresh_tokens, k) \subseteq refresh_tokens
             /\ RowsInv(Claim(tokens, k))
             /\ RowsInv(Prune(tokens, k))
             /\ RowsInv(Claim(refresh_tokens, k))
             /\ RowsInv(Prune(refresh_tokens, k))
             /\ RowsInv(RevokeAll(refresh_tokens, k))
  <2>1. /\ \A y \in tokens : [y EXCEPT !.spent = TRUE].secret = y.secret
        /\ \A y \in refresh_tokens : [y EXCEPT !.spent = TRUE].secret = y.secret
    BY DEF TypeOK, TokenRow, RefreshRow
  <2>2. tokens \subseteq TokenRow /\ refresh_tokens \subseteq RefreshRow
    BY DEF TypeOK
  <2>3. /\ RowsInv(Claim(tokens, k)) /\ RowsInv(Prune(tokens, k))
        /\ RowsInv(Claim(refresh_tokens, k)) /\ RowsInv(Prune(refresh_tokens, k))
        /\ RowsInv(RevokeAll(refresh_tokens, k))
    BY <2>2, RowsInvKept DEF TablesInv
  <2>4. QED
    BY <2>1, <2>3 DEF Claim, RevokeAll, Prune
<1>6. ASSUME NEW row, tokens' = tokens \cup {row},
             row.id = NextRowId(tokens), row.secret = minted + 1,
             minted' = minted + 1, refresh_tokens' = refresh_tokens
      PROVE  TablesInv'
  <2>1. /\ \A t \in tokens : t.id # row.id /\ t.secret <= minted
        /\ row.id <= minted + 1
    BY <1>6, FreshIds DEF TablesInv, RowsInv
  <2>2. RowsInv(tokens)'
    BY <1>1, <1>2, <1>6, <2>1 DEF TablesInv, RowsInv
  <2>3. RowsInv(refresh_tokens)'
    BY <1>1, <1>2, <1>6 DEF TablesInv, RowsInv
  <2>4. \A t \in tokens', r \in refresh_tokens' : t.secret # r.secret
    BY <1>1, <1>2, <1>6 DEF TablesInv, RowsInv
  <2>5. QED
    BY <2>2, <2>3, <2>4 DEF TablesInv
<1>7. ASSUME NEW row, refresh_tokens' = refresh_tokens \cup {row},
             row.id = NextRowId(refresh_tokens), row.secret = minted + 1,
             minted' = minted + 1, tokens' = tokens
      PROVE  TablesInv'
  <2>1. /\ \A r \in refresh_tokens : r.id # row.id /\ r.secret <= minted
        /\ row.id <= minted + 1
    BY <1>7, FreshIds DEF TablesInv, RowsInv
  <2>2. RowsInv(refresh_tokens)'
    BY <1>1, <1>2, <1>7, <2>1 DEF TablesInv, RowsInv
  <2>3. RowsInv(tokens)'
    BY <1>1, <1>2, <1>7 DEF TablesInv, RowsInv
  <2>4. \A t \in tokens', r \in refresh_tokens' : t.secret # r.secret
    BY <1>1, <1>2, <1>7 DEF TablesInv, RowsInv
  <2>5. QED
    BY <2>2, <2>3, <2>4 DEF TablesInv
<1>8. ASSUME NEW p \in Proc, Handler(p) PROVE TablesInv'
  <2>1. CASE ConsumeToken(p)
    BY <2>1, <1>3, <1>4, <1>5 DEF ConsumeToken, TablesInv
  <2>2. CASE RevokeRefresh(p)
    BY <2>2, <1>3, <1>4, <1>5 DEF RevokeRefresh, TablesInv
  <2>3. CASE PruneTokens(p)
    BY <2>3, <1>4, <1>5 DEF PruneTokens, TablesInv
  <2>4. CASE PruneRefresh(p)
    BY <2>4, <1>4, <1>5 DEF PruneRefresh, TablesInv
  <2>5. CASE InsertToken(p)
    BY <2>5, <1>6 DEF InsertToken, NewToken
  <2>6. CASE InsertRefresh(p)
    <3>1. PICK row : /\ row.id = NextRowId(refresh_tokens)
                     /\ row.secret = minted + 1
                     /\ refresh_tokens' = refresh_tokens \cup {row}
      BY <2>6 DEF InsertRefresh
    <3>2. QED
      BY <2>6, <3>1, <1>7 DEF InsertRefresh
  <2>7. CASE Refused(p) \/ Abort(p) \/ \E n \in Nick : Login(p, n)
    BY <2>7, <1>3 DEF Refused, Abort, Login, vars, database
  <2>8. CASE \E n \in Nick, c \in handed : Present(p, n, c)
    BY <2>8, <1>3 DEF Present, Validate, Refresh, Logout, database
  <2>9. QED
    BY <1>8, <2>1, <2>2, <2>3, <2>4, <2>5, <2>6, <2>7, <2>8 DEF Handler
<1>9. ASSUME NEW n \in Nick, Operator(n) PROVE TablesInv'
  <2>1. CASE CliLogin(n)
    BY <2>1, <1>6 DEF CliLogin, NewToken
  <2>2. CASE ResetRevoke(n)
    BY <2>2, <1>4, <1>5 DEF ResetRevoke, TablesInv
  <2>3. CASE Register(n) \/ ResetPassword(n) \/ ResetAbort(n)
    BY <2>3, <1>3 DEF Register, ResetPassword, ResetAbort, database
  <2>4. QED
    BY <1>9, <2>1, <2>2, <2>3 DEF Operator
<1>10. CASE Tick
  BY <1>10, <1>3 DEF Tick, database
<1>11. CASE UNCHANGED vars
  BY <1>11, <1>3 DEF vars, database
<1>12. QED
  BY <1>8, <1>9, <1>10, <1>11 DEF Next

-----------------------------------------------------------------------------
(* Every step keeps the link between a held row id and the secret it was   *)
(* selected for, or records in `tangled' that the id was reused.           *)
LEMMA HeldStep ==
    ASSUME TypeOK, SlotInv, TablesInv, HeldInv, [Next]_vars
    PROVE  HeldInv'
<1> DEFINE Sub(new, old) ==
        \A x \in new : \E y \in old : x.id = y.id /\ x.secret = y.secret
<1>1. /\ \A t \in tokens : [t EXCEPT !.spent = TRUE].id = t.id
                           /\ [t EXCEPT !.spent = TRUE].secret = t.secret
      /\ \A r \in refresh_tokens : [r EXCEPT !.spent = TRUE].id = r.id
                           /\ [r EXCEPT !.spent = TRUE].secret = r.secret
  BY DEF TypeOK, TokenRow, RefreshRow
<1>2. \A k : /\ Sub(Claim(tokens, k), tokens)
             /\ Sub(Claim(refresh_tokens, k), refresh_tokens)
             /\ Sub(RevokeAll(refresh_tokens, k), refresh_tokens)
             /\ Sub(Prune(tokens, k), tokens)
             /\ Sub(Prune(refresh_tokens, k), refresh_tokens)
  BY <1>1 DEF Claim, RevokeAll, Prune
<1>3. Sub(tokens, tokens) /\ Sub(refresh_tokens, refresh_tokens)
  OBVIOUS
<1>4. ASSUME NEW new, NEW newr, tokens' = new, refresh_tokens' = newr,
             Sub(new, tokens), Sub(newr, refresh_tokens), tangled' = tangled
      PROVE  \A q : HeldOK(q) => HeldOK(q)'
  BY <1>4 DEF HeldOK
<1> HIDE DEF Sub
<1>5. HeldOK(Idle)'
  BY DEF HeldOK, Idle
<1>6. ASSUME NEW p \in Proc, NEW q, req' = [req EXCEPT ![p] = q],
             \A r \in Proc \ {p} : HeldOK(req[r])', HeldOK(q)'
      PROVE  HeldInv'
  BY <1>6 DEF HeldInv, TypeOK
<1>7. ASSUME NEW row, tokens' = tokens \cup {row}, row.secret = minted + 1,
             refresh_tokens' = refresh_tokens,
             tangled' = tangled \cup TangledBy("consume", row.id, row.secret),
             NEW p \in Proc, NEW q, q = req[p]
      PROVE  HeldOK(q)'
  <2>1. HeldOK(q) /\ SlotOK(q)
    BY <1>7 DEF HeldInv, SlotInv
  <2>2. minted \in Nat
    BY AuthAssumption DEF TypeOK
  <2>3. CASE q.pc = "consume"
    <3>1. q.id = row.id => {row.secret, q.key} \subseteq tangled'
      BY <1>7, <2>3 DEF TangledBy, Holders
    <3>2. QED
      BY <1>7, <2>1, <2>3, <3>1 DEF HeldOK
  <2>4. CASE q.pc = "revoke"
    <3>1. row.secret # q.key
      BY <1>7, <2>1, <2>2, <2>4 DEF SlotOK
    <3>2. QED
      BY <1>7, <2>1, <2>4, <3>1 DEF HeldOK
  <2>5. QED
    BY <2>3, <2>4 DEF HeldOK
<1>8. ASSUME NEW row, refresh_tokens' = refresh_tokens \cup {row},
             row.secret = minted + 1, tokens' = tokens,
             tangled' = tangled \cup TangledBy("revoke", row.id, row.secret),
             NEW p \in Proc, NEW q, q = req[p]
      PROVE  HeldOK(q)'
  <2>1. HeldOK(q) /\ SlotOK(q)
    BY <1>8 DEF HeldInv, SlotInv
  <2>2. minted \in Nat
    BY AuthAssumption DEF TypeOK
  <2>3. CASE q.pc = "revoke"
    <3>1. q.id = row.id => {row.secret, q.key} \subseteq tangled'
      BY <1>8, <2>3 DEF TangledBy, Holders
    <3>2. QED
      BY <1>8, <2>1, <2>3, <3>1 DEF HeldOK
  <2>4. CASE q.pc = "consume"
    <3>1. row.secret # q.key
      BY <1>8, <2>1, <2>2, <2>4 DEF SlotOK
    <3>2. QED
      BY <1>8, <2>1, <2>4, <3>1 DEF HeldOK
  <2>5. QED
    BY <2>3, <2>4 DEF HeldOK
<1> DEFINE StillHeld == \A q : HeldOK(q) => HeldOK(q)'
<1>9. ASSUME NEW p \in Proc, NEW q, req' = [req EXCEPT ![p] = q], StillHeld,
             HeldOK(q)'
      PROVE  HeldInv'
  <2>1. \A r \in Proc \ {p} : HeldOK(req[r])'
    <3>1. \A r \in Proc \ {p} : req'[r] = req[r] /\ HeldOK(req[r])
      BY <1>9 DEF HeldInv, TypeOK
    <3>2. QED
      BY <1>9, <3>1
  <2>2. QED
    BY <1>6, <1>9, <2>1
<1>10. ASSUME req' = req, StillHeld PROVE HeldInv'
  <2>1. \A r \in Proc : req'[r] = req[r] /\ HeldOK(req[r])
    BY <1>10 DEF HeldInv
  <2>2. QED
    BY <1>10, <2>1 DEF HeldInv
<1>11. ASSUME UNCHANGED <<tokens, refresh_tokens, tangled>> PROVE StillHeld
  BY <1>11, <1>3, <1>4
<1>12. \A k : \/ tokens' = Claim(tokens, k) /\ UNCHANGED <<refresh_tokens, tangled>>
              \/ tokens' = Prune(tokens, k) /\ UNCHANGED <<refresh_tokens, tangled>>
              \/ /\ \/ refresh_tokens' = Claim(refresh_tokens, k)
                    \/ refresh_tokens' = RevokeAll(refresh_tokens, k)
                    \/ refresh_tokens' = Prune(refresh_tokens, k)
                 /\ UNCHANGED <<tokens, tangled>>
              => StillHeld
  BY <1>2, <1>3, <1>4
<1>13. \A p \in Proc : HeldOK(req[p])
  BY DEF HeldInv
<1> HIDE DEF StillHeld
<1>14. ASSUME NEW p \in Proc, Handler(p) PROVE HeldInv'
  <2>1. CASE Refused(p)
    BY <2>1, <1>10, <1>11 DEF Refused, vars, database, history
  <2>2. ASSUME NEW n \in Nick, Login(p, n) PROVE HeldInv'
    <3>1. PICK q : q = [Idle EXCEPT !.op = "login", !.pc = "prune_tokens",
                            !.nick = n, !.ver = pw[n]]
      OBVIOUS
    <3>2. HeldOK(q)'
      BY <3>1 DEF HeldOK, Idle
    <3>3. QED
      BY <2>2, <3>1, <3>2, <1>9, <1>11 DEF Login, database, history
  <2>3. ASSUME NEW n \in Nick, NEW c \in handed, Present(p, n, c)
        PROVE  HeldInv'
    <3>1. UNCHANGED <<tokens, refresh_tokens, tangled>>
      BY <2>3 DEF Present, Validate, Refresh, Logout, database, history
    <3>2. PICK q : /\ req' = [req EXCEPT ![p] = q]
                   /\ \/ /\ q.pc = "consume"
                         /\ \E r \in tokens : r.id = q.id /\ r.secret = q.key
                      \/ /\ q.pc = "revoke"
                         /\ \E r \in refresh_tokens :
                                r.id = q.id /\ r.secret = q.key
      <4>1. CASE Validate(p, n, c.secret)
        <5>1. PICK r \in tokens : /\ r.secret = c.secret
                  /\ req' = [req EXCEPT ![p] = [Idle EXCEPT !.op = "validate",
                         !.pc = "consume", !.nick = n, !.id = r.id,
                         !.key = c.secret, !.now = clock, !.ver = 0,
                         !.late = FALSE]]
          BY <4>1 DEF Validate, Select, Matches
        <5>2. PICK q : q = [Idle EXCEPT !.op = "validate",
                         !.pc = "consume", !.nick = n, !.id = r.id,
                         !.key = c.secret, !.now = clock, !.ver = 0,
                         !.late = FALSE]
          OBVIOUS
        <5>3. q.pc = "consume" /\ q.id = r.id /\ q.key = r.secret
          BY <5>1, <5>2 DEF Idle
        <5>4. QED
          BY <5>1, <5>2, <5>3
      <4>2. ASSUME NEW op \in {"refresh", "logout"},
                   Select(p, op, refresh_tokens, n, c.secret)
            PROVE  \E q : /\ req' = [req EXCEPT ![p] = q]
                          /\ q.pc = "revoke"
                          /\ \E r \in refresh_tokens :
                                 r.id = q.id /\ r.secret = q.key
        <5>1. PICK r \in refresh_tokens : /\ r.secret = c.secret
                  /\ req' = [req EXCEPT ![p] = [Idle EXCEPT !.op = op,
                         !.pc = "revoke", !.nick = n, !.id = r.id,
                         !.key = c.secret, !.now = clock, !.ver = r.ver,
                         !.late = r.late]]
          BY <4>2 DEF Select, Matches
        <5>2. PICK q : q = [Idle EXCEPT !.op = op,
                         !.pc = "revoke", !.nick = n, !.id = r.id,
                         !.key = c.secret, !.now = clock, !.ver = r.ver,
                         !.late = r.late]
          OBVIOUS
        <5>3. q.pc = "revoke" /\ q.id = r.id /\ q.key = r.secret
          BY <5>1, <5>2 DEF Idle
        <5>4. QED
          BY <5>1, <5>2, <5>3
      <4>3. QED
        BY <2>3, <4>1, <4>2 DEF Present, Refresh, Logout
    <3>3. HeldOK(q)'
      BY <3>1, <3>2 DEF HeldOK, TablesInv, RowsInv
    <3>4. QED
      BY <3>1, <3>2, <3>3, <1>9, <1>11
  <2>4. CASE ConsumeToken(p)
    <3>1. StillHeld
      BY <2>4, <1>11, <1>12 DEF ConsumeToken
    <3>2. QED
      BY <2>4, <3>1, <1>5, <1>9 DEF ConsumeToken
  <2>5. CASE RevokeRefresh(p)
    <3>1. StillHeld
      BY <2>5, <1>11, <1>12 DEF RevokeRefresh
    <3>2. CASE req' = [req EXCEPT ![p] = Idle]
      BY <3>1, <3>2, <1>5, <1>9
    <3>3. CASE req' = [req EXCEPT ![p].pc = "prune_tokens"]
      <4>1. PICK q : q = [req[p] EXCEPT !.pc = "prune_tokens"]
        OBVIOUS
      <4>2. HeldOK(q)'
        BY <4>1 DEF HeldOK, TypeOK, Request
      <4>3. QED
        BY <3>1, <3>3, <4>1, <4>2, <1>9
    <3>4. QED
      BY <2>5, <3>2, <3>3 DEF RevokeRefresh
  <2>6. CASE PruneTokens(p)
    <3>1. StillHeld
      BY <2>6, <1>12 DEF PruneTokens, history
    <3>2. PICK q : /\ req' = [req EXCEPT ![p] = q] /\ q.pc = "prune_refresh"
      <4>1. PICK t : req' = [req EXCEPT ![p] =
                         [req[p] EXCEPT !.pc = "prune_refresh", !.now = t]]
        BY <2>6 DEF PruneTokens
      <4>2. PICK q : q = [req[p] EXCEPT !.pc = "prune_refresh", !.now = t]
        OBVIOUS
      <4>3. q.pc = "prune_refresh"
        BY <4>2 DEF TypeOK, Request
      <4>4. QED
        BY <4>1, <4>2, <4>3
    <3>3. HeldOK(q)'
      BY <3>2 DEF HeldOK
    <3>4. QED
      BY <3>1, <3>2, <3>3, <1>9
  <2>7. CASE PruneRefresh(p)
    <3>1. StillHeld
      BY <2>7, <1>12 DEF PruneRefresh, history
    <3>2. PICK q : q = [req[p] EXCEPT !.pc = "insert_token"]
      OBVIOUS
    <3>3. HeldOK(q)'
      BY <3>2 DEF HeldOK, TypeOK, Request
    <3>4. QED
      BY <2>7, <3>1, <3>2, <3>3, <1>9 DEF PruneRefresh
  <2>8. CASE InsertToken(p)
    <3>1. \A r \in Proc : \A q : q = req[r] => HeldOK(q)'
      BY <2>8, <1>7 DEF InsertToken, NewToken
    <3>2. \A r \in Proc \ {p} : HeldOK(req[r])'
      <4>1. \A r \in Proc \ {p} : req'[r] = req[r]
        BY <2>8 DEF InsertToken, TypeOK
      <4>2. QED
        BY <3>1, <4>1
    <3>3. PICK q : q = [req[p] EXCEPT !.pc = "insert_refresh",
                                      !.game = minted + 1]
      OBVIOUS
    <3>4. HeldOK(q)'
      BY <3>3 DEF HeldOK, TypeOK, Request
    <3>5. req' = [req EXCEPT ![p] = q]
      BY <2>8, <3>3 DEF InsertToken, NewToken
    <3>6. QED
      BY <3>2, <3>4, <3>5, <1>6
  <2>9. CASE InsertRefresh(p)
    <3>1. PICK row : /\ row.id = NextRowId(refresh_tokens)
                     /\ row.secret = minted + 1
                     /\ refresh_tokens' = refresh_tokens \cup {row}
                     /\ tangled' = tangled
                            \cup TangledBy("revoke", row.id, row.secret)
      BY <2>9 DEF InsertRefresh
    <3>2. \A r \in Proc : \A q : q = req[r] => HeldOK(q)'
      BY <2>9, <3>1, <1>8 DEF InsertRefresh
    <3>3. \A r \in Proc \ {p} : HeldOK(req[r])'
      <4>1. \A r \in Proc \ {p} : req'[r] = req[r]
        BY <2>9 DEF InsertRefresh, TypeOK
      <4>2. QED
        BY <3>2, <4>1
    <3>4. QED
      BY <2>9, <3>3, <1>5, <1>6 DEF InsertRefresh
  <2>10. CASE Abort(p)
    BY <2>10, <1>5, <1>9, <1>11 DEF Abort, database, history
  <2>11. QED
    BY <1>14, <2>1, <2>2, <2>3, <2>4, <2>5, <2>6, <2>7, <2>8, <2>9, <2>10
    DEF Handler
<1>15. ASSUME NEW n \in Nick, Operator(n) PROVE HeldInv'
  <2>1. CASE CliLogin(n)
    <3>1. \A r \in Proc : \A q : q = req[r] => HeldOK(q)'
      BY <2>1, <1>7 DEF CliLogin, NewToken
    <3>2. QED
      BY <2>1, <3>1 DEF CliLogin, HeldInv
  <2>2. CASE ResetRevoke(n)
    <3>1. StillHeld
      BY <2>2, <1>12 DEF ResetRevoke
    <3>2. \A p \in Proc : \E late : req'[p] = [req[p] EXCEPT !.late = late]
      <4>1. \A p \in Proc : req[p] = [req[p] EXCEPT !.late = req[p].late]
        BY DEF TypeOK, Request
      <4>2. QED
        BY <2>2, <4>1 DEF ResetRevoke
    <3>3. \A q \in Request : \A late : HeldOK(q)' => HeldOK([q EXCEPT !.late = late])'
      BY DEF HeldOK, Request
    <3>4. \A p \in Proc : req[p] \in Request
      BY DEF TypeOK
    <3>5. \A p \in Proc : \A q : q = req[p] => HeldOK(q)'
      BY <3>1, <1>13 DEF StillHeld
    <3>6. ASSUME NEW p \in Proc PROVE HeldOK(req[p])'
      <4>1. PICK q \in Request : q = req[p]
        BY <3>4
      <4>2. PICK late : req'[p] = [q EXCEPT !.late = late]
        BY <3>2, <4>1
      <4>3. HeldOK([q EXCEPT !.late = late])'
        BY <3>3, <3>5, <4>1
      <4>4. QED
        BY <4>2, <4>3
    <3>7. QED
      BY <3>6 DEF HeldInv
  <2>3. CASE Register(n) \/ ResetPassword(n) \/ ResetAbort(n)
    BY <2>3, <1>10, <1>11
    DEF Register, ResetPassword, ResetAbort, database, history
  <2>4. QED
    BY <1>15, <2>1, <2>2, <2>3 DEF Operator
<1>16. CASE Tick
  BY <1>16, <1>10, <1>11 DEF Tick, database, history
<1>17. CASE UNCHANGED vars
  BY <1>17, <1>10, <1>11 DEF vars, database, history
<1>18. QED
  BY <1>14, <1>15, <1>16, <1>17 DEF Next

(* Every step keeps the accounts of claims: a live row was not claimed, and*)
(* nothing is claimed twice, but for the secrets in `tangled'.             *)
LEMMA ClaimStep ==
    ASSUME TypeOK, SlotInv, TablesInv, HeldInv, ClaimInv, [Next]_vars
    PROVE  ClaimInv'
<1> DEFINE Sub(new, old) ==
        \A x \in new : ~x.spent => \E y \in old : ~y.spent /\ x.secret = y.secret
<1>1. /\ \A t \in tokens : /\ t.secret \in Secret
                           /\ [t EXCEPT !.spent = TRUE].spent
      /\ \A r \in refresh_tokens : /\ r.secret \in Secret
                                   /\ [r EXCEPT !.spent = TRUE].spent
  BY DEF TypeOK, TokenRow, RefreshRow
<1>2. \A k : /\ Sub(Claim(tokens, k), tokens)
             /\ Sub(Claim(refresh_tokens, k), refresh_tokens)
             /\ Sub(RevokeAll(refresh_tokens, k), refresh_tokens)
             /\ Sub(Prune(tokens, k), tokens)
             /\ Sub(Prune(refresh_tokens, k), refresh_tokens)
             /\ Sub(tokens, tokens)
             /\ Sub(refresh_tokens, refresh_tokens)
  BY <1>1 DEF Claim, RevokeAll, Prune
<1>3. ASSUME NEW t, NEW r, tokens' = t, refresh_tokens' = r,
             Sub(t, tokens), Sub(r, refresh_tokens),
             UNCHANGED <<claims, tangled, minted>>
      PROVE  ClaimInv'
  BY <1>3 DEF ClaimInv, SingleUseUnlessTangled
<1>4. minted \in Nat /\ claims \in [Secret -> Nat] /\ tangled \subseteq Secret
  BY AuthAssumption DEF TypeOK
<1>5. ASSUME NEW row, row.secret = minted + 1, minted' = minted + 1,
             \/ tokens' = tokens \cup {row} /\ refresh_tokens' = refresh_tokens
             \/ refresh_tokens' = refresh_tokens \cup {row} /\ tokens' = tokens,
             tangled \subseteq tangled', claims' = claims, minted < MaxMinted
      PROVE  ClaimInv'
  <2>1. row.secret \in Secret /\ claims[row.secret] = 0
    BY <1>4, <1>5, AuthAssumption DEF ClaimInv, Secret
  <2>2. \A s \in Secret : s > minted + 1 => s > minted
    BY <1>4 DEF Secret
  <2>3. QED
    BY <1>5, <2>1, <2>2 DEF ClaimInv, SingleUseUnlessTangled
<1>6. ASSUME NEW p \in Proc, req[p].pc = "consume",
             Claimable(tokens, req[p].id) # {},
             tokens' = Claim(tokens, req[p].id),
             claims' = [claims EXCEPT ![req[p].key] = @ + 1],
             UNCHANGED <<refresh_tokens, tangled, minted>>
      PROVE  ClaimInv'
  <2> DEFINE key == req[p].key
  <2>1. PICK t \in tokens : t.id = req[p].id /\ ~t.spent
    BY <1>6 DEF Claimable
  <2>2. /\ t.secret = key \/ {t.secret, key} \subseteq tangled
        /\ \A r \in refresh_tokens : r.secret # key
        /\ key \in Secret /\ key <= minted
    BY <1>6, <2>1, SlotFacts DEF HeldInv, HeldOK, SlotInv, SlotOK
  <2>3. claims[key] = 0 \/ key \in tangled
    BY <2>1, <2>2 DEF ClaimInv
  <2>4. claims'[key] = claims[key] + 1
    BY <1>4, <1>6, <2>2
  <2>5. \A s \in Secret : s # key => claims'[s] = claims[s]
    BY <1>4, <1>6
  <2>6. \A x \in tokens' : ~x.spent => x \in tokens /\ x.id # t.id
    BY <1>1, <1>6, <2>1 DEF Claim
  <2>7. \A x \in tokens' : ~x.spent => x.secret # key \/ key \in tangled
    BY <2>1, <2>2, <2>6 DEF TablesInv, RowsInv
  <2> HIDE DEF key
  <2>8. /\ \A s \in Secret : s > minted => claims'[s] = 0
        /\ \A s \in Secret : claims'[s] > 1 => s \in tangled
    BY <1>4, <2>2, <2>3, <2>4, <2>5 DEF ClaimInv, SingleUseUnlessTangled, Secret
  <2>9. \A x \in tokens' : ~x.spent => claims'[x.secret] = 0 \/ x.secret \in tangled
    BY <1>1, <2>5, <2>6, <2>7 DEF ClaimInv
  <2>10. \A r \in refresh_tokens :
             ~r.spent => claims'[r.secret] = 0 \/ r.secret \in tangled
    BY <1>1, <2>2, <2>5 DEF ClaimInv
  <2>11. QED
    BY <1>6, <2>8, <2>9, <2>10 DEF ClaimInv, SingleUseUnlessTangled
<1>7. ASSUME NEW p \in Proc, req[p].pc = "revoke",
             Claimable(refresh_tokens, req[p].id) # {},
             refresh_tokens' = Claim(refresh_tokens, req[p].id),
             claims' = [claims EXCEPT ![req[p].key] = @ + 1],
             UNCHANGED <<tokens, tangled, minted>>
      PROVE  ClaimInv'
  <2> DEFINE key == req[p].key
  <2>1. PICK r \in refresh_tokens : r.id = req[p].id /\ ~r.spent
    BY <1>7 DEF Claimable
  <2>2. /\ r.secret = key \/ {r.secret, key} \subseteq tangled
        /\ \A t \in tokens : t.secret # key
        /\ key \in Secret /\ key <= minted
    BY <1>7, <2>1, SlotFacts DEF HeldInv, HeldOK, SlotInv, SlotOK
  <2>3. claims[key] = 0 \/ key \in tangled
    BY <2>1, <2>2 DEF ClaimInv
  <2>4. claims'[key] = claims[key] + 1
    BY <1>4, <1>7, <2>2
  <2>5. \A s \in Secret : s # key => claims'[s] = claims[s]
    BY <1>4, <1>7
  <2>6. \A x \in refresh_tokens' : ~x.spent => x \in refresh_tokens /\ x.id # r.id
    BY <1>1, <1>7, <2>1 DEF Claim
  <2>7. \A x \in refresh_tokens' : ~x.spent => x.secret # key \/ key \in tangled
    BY <2>1, <2>2, <2>6 DEF TablesInv, RowsInv
  <2> HIDE DEF key
  <2>8. /\ \A s \in Secret : s > minted => claims'[s] = 0
        /\ \A s \in Secret : claims'[s] > 1 => s \in tangled
    BY <1>4, <2>2, <2>3, <2>4, <2>5 DEF ClaimInv, SingleUseUnlessTangled, Secret
  <2>9. \A x \in refresh_tokens' :
            ~x.spent => claims'[x.secret] = 0 \/ x.secret \in tangled
    BY <1>1, <2>5, <2>6, <2>7 DEF ClaimInv
  <2>10. \A t \in tokens :
             ~t.spent => claims'[t.secret] = 0 \/ t.secret \in tangled
    BY <1>1, <2>2, <2>5 DEF ClaimInv
  <2>11. QED
    BY <1>7, <2>8, <2>9, <2>10 DEF ClaimInv, SingleUseUnlessTangled
<1> HIDE DEF Sub
<1>8. ASSUME UNCHANGED <<tokens, refresh_tokens, claims, tangled, minted>>
      PROVE  ClaimInv'
  BY <1>8, <1>2, <1>3
<1>9. ASSUME NEW p \in Proc, Handler(p) PROVE ClaimInv'
  <2>1. CASE ConsumeToken(p)
    BY <2>1, <1>6, <1>8 DEF ConsumeToken
  <2>2. CASE RevokeRefresh(p)
    BY <2>2, <1>7, <1>8 DEF RevokeRefresh
  <2>3. CASE PruneTokens(p)
    BY <2>3, <1>2, <1>3 DEF PruneTokens, history
  <2>4. CASE PruneRefresh(p)
    BY <2>4, <1>2, <1>3 DEF PruneRefresh, history
  <2>5. CASE InsertToken(p)
    <3>1. PICK row : /\ row.secret = minted + 1
                     /\ tokens' = tokens \cup {row}
      BY <2>5 DEF InsertToken, NewToken
    <3>2. /\ tangled \subseteq tangled' /\ minted < MaxMinted
          /\ minted' = minted + 1
          /\ UNCHANGED <<refresh_tokens, claims>>
      BY <2>5 DEF InsertToken
    <3>3. QED
      BY <3>1, <3>2, <1>5
  <2>6. CASE InsertRefresh(p)
    <3>1. PICK row : /\ row.secret = minted + 1
                     /\ refresh_tokens' = refresh_tokens \cup {row}
      BY <2>6 DEF InsertRefresh
    <3>2. QED
      BY <2>6, <3>1, <1>5 DEF InsertRefresh
  <2>7. CASE Refused(p) \/ Abort(p) \/ \E n \in Nick : Login(p, n)
    BY <2>7, <1>8 DEF Refused, Abort, Login, vars, database, history
  <2>8. CASE \E n \in Nick, c \in handed : Present(p, n, c)
    BY <2>8, <1>8 DEF Present, Validate, Refresh, Logout, database, history
  <2>9. QED
    BY <1>9, <2>1, <2>2, <2>3, <2>4, <2>5, <2>6, <2>7, <2>8 DEF Handler
<1>10. ASSUME NEW n \in Nick, Operator(n) PROVE ClaimInv'
  <2>1. CASE CliLogin(n)
    <3>1. PICK row : /\ row.secret = minted + 1
                     /\ tokens' = tokens \cup {row}
      BY <2>1 DEF CliLogin, NewToken
    <3>2. /\ tangled \subseteq tangled' /\ minted < MaxMinted
          /\ minted' = minted + 1
          /\ UNCHANGED <<refresh_tokens, claims>>
      BY <2>1 DEF CliLogin
    <3>3. QED
      BY <3>1, <3>2, <1>5
  <2>2. CASE ResetRevoke(n)
    BY <2>2, <1>2, <1>3 DEF ResetRevoke
  <2>3. CASE Register(n) \/ ResetPassword(n) \/ ResetAbort(n)
    BY <2>3, <1>8 DEF Register, ResetPassword, ResetAbort, database, history
  <2>4. QED
    BY <1>10, <2>1, <2>2, <2>3 DEF Operator
<1>11. CASE Tick
  BY <1>11, <1>8 DEF Tick, database, history
<1>12. CASE UNCHANGED vars
  BY <1>12, <1>8 DEF vars, database, history
<1>13. QED
  BY <1>9, <1>10, <1>11, <1>12 DEF Next

(* No step lets a session outlive a completed reset of its nick, unless    *)
(* its handler was running when the reset completed.                       *)
LEMMA ResetStep ==
    ASSUME TypeOK, SlotInv, ResetInv, [Next]_vars
    PROVE  ResetInv'
<1> USE DEF Version
<1>1. MaxPw \in Nat /\ pw \in [Nick -> 0..MaxPw] /\ ended \in [Nick -> 0..MaxPw]
  BY AuthAssumption DEF TypeOK
<1>2. ASSUME UNCHANGED <<pw, resetting, ended>>,
             \A r \in refresh_tokens' : ~r.spent => r \in refresh_tokens,
             \A p \in Proc : req'[p].op \in {"login", "refresh"} =>
                 req'[p].ver >= ended[req'[p].nick] \/ req'[p].late
      PROVE  ResetInv'
  BY <1>2 DEF ResetInv, ResetEndsSessionsUnlessLate
<1>3. ASSUME NEW p \in Proc, NEW q \in Request, req' = [req EXCEPT ![p] = q],
             q.op \in {"login", "refresh"} => q.ver >= ended[q.nick] \/ q.late
      PROVE  \A x \in Proc : req'[x].op \in {"login", "refresh"} =>
                 req'[x].ver >= ended[req'[x].nick] \/ req'[x].late
  BY <1>3 DEF ResetInv, TypeOK
<1>4. ASSUME NEW k
      PROVE  /\ \A r \in Claim(refresh_tokens, k) : ~r.spent => r \in refresh_tokens
             /\ \A r \in Prune(refresh_tokens, k) : ~r.spent => r \in refresh_tokens
  <2>1. \A r \in RefreshRow : [r EXCEPT !.spent = TRUE].spent
    BY DEF RefreshRow
  <2>2. QED
    BY <2>1 DEF Claim, Prune, TypeOK
<1>5. \A p \in Proc : /\ req[p] \in Request
                      /\ req[p].op \in {"login", "refresh"} =>
                           req[p].ver >= ended[req[p].nick] \/ req[p].late
  BY DEF ResetInv, TypeOK
<1>6. /\ Idle \in Request /\ Idle.op = "none"
  BY IdleType DEF Idle
<1>7. ASSUME UNCHANGED <<pw, resetting, ended, refresh_tokens, req>>
      PROVE  ResetInv'
  BY <1>7 DEF ResetInv, ResetEndsSessionsUnlessLate
<1>8. ASSUME NEW p \in Proc, req' = [req EXCEPT ![p] = Idle],
             UNCHANGED <<pw, resetting, ended>>,
             \A r \in refresh_tokens' : ~r.spent => r \in refresh_tokens
      PROVE  ResetInv'
  BY <1>8, <1>2, <1>3, <1>6
<1>9. ASSUME \A x \in Proc : /\ req'[x].op = req[x].op
                              /\ req'[x].ver = req[x].ver
                              /\ req'[x].late = req[x].late
                              /\ req'[x].nick = req[x].nick,
              UNCHANGED <<pw, resetting, ended>>,
              \A r \in refresh_tokens' : ~r.spent => r \in refresh_tokens
       PROVE  ResetInv'
  BY <1>9, <1>2, <1>5
<1>10. ASSUME NEW p \in Proc, Handler(p) PROVE ResetInv'
  <2>1. CASE Refused(p)
    BY <2>1, <1>7 DEF Refused, vars, database, history
  <2>2. ASSUME NEW n \in Nick, Login(p, n) PROVE ResetInv'
    <3>1. pw[n] \in 0..MaxPw /\ ended[n] <= pw[n]
      BY <1>1 DEF ResetInv
    <3>2. PICK q \in Request : /\ req' = [req EXCEPT ![p] = q]
                               /\ q.ver = pw[n] /\ q.nick = n
      <4>1. [Idle EXCEPT !.op = "login", !.pc = "prune_tokens", !.nick = n,
                 !.ver = pw[n]] \in Request
        BY <1>6, <3>1 DEF Request, Issuing
      <4>2. QED
        BY <2>2, <4>1 DEF Login, Idle
    <3>3. QED
      BY <2>2, <3>1, <3>2, <1>1, <1>2, <1>3 DEF Login, database, history
  <2>3. ASSUME NEW n \in Nick, NEW c \in handed, Present(p, n, c)
        PROVE  ResetInv'
    <3>1. UNCHANGED <<pw, resetting, ended, refresh_tokens>>
      BY <2>3 DEF Present, Validate, Refresh, Logout, database, history
    <3>2. CASE Validate(p, n, c.secret)
      <4>1. PICK r \in tokens : req' = [req EXCEPT ![p] =
                [Idle EXCEPT !.op = "validate", !.pc = "consume", !.nick = n,
                    !.id = r.id, !.key = c.secret, !.now = clock, !.ver = 0,
                    !.late = FALSE]]
        BY <3>2 DEF Validate, Select, Matches
      <4>2. req'[p].op = "validate"
        BY <4>1, <1>1 DEF Idle, TypeOK
      <4>3. \A x \in Proc : x # p => req'[x] = req[x]
        BY <4>1 DEF TypeOK
      <4>4. QED
        BY <3>1, <4>2, <4>3, <1>2, <1>5
    <3>3. ASSUME NEW op, Select(p, op, refresh_tokens, n, c.secret),
                 op \in {"refresh", "logout"}
          PROVE  ResetInv'
      <4>1. PICK r \in refresh_tokens :
                /\ r.nick = n /\ ~r.spent
                /\ req' = [req EXCEPT ![p] =
                       [Idle EXCEPT !.op = op, !.pc = "revoke", !.nick = n,
                           !.id = r.id, !.key = c.secret, !.now = clock,
                           !.ver = r.ver, !.late = r.late]]
        BY <3>3 DEF Select, Matches, LiveAt
      <4>2. /\ req'[p].ver = r.ver /\ req'[p].late = r.late
            /\ req'[p].nick = n
        BY <4>1 DEF Idle, TypeOK
      <4>3. r.ver >= ended[n] \/ r.late
        BY <4>1 DEF ResetInv, ResetEndsSessionsUnlessLate
      <4>4. \A x \in Proc : x # p => req'[x] = req[x]
        BY <4>1 DEF TypeOK
      <4>5. QED
        BY <3>1, <4>2, <4>3, <4>4, <1>2, <1>5
    <3>4. QED
      BY <2>3, <3>2, <3>3 DEF Present, Refresh, Logout
  <2>4. CASE ConsumeToken(p)
    BY <2>4, <1>8 DEF ConsumeToken
  <2>5. CASE RevokeRefresh(p)
    <3>1. req' = [req EXCEPT ![p] = Idle] \/ req' = [req EXCEPT ![p].pc = "prune_tokens"]
      BY <2>5 DEF RevokeRefresh
    <3>2. /\ UNCHANGED <<pw, resetting, ended>>
          /\ \A r \in refresh_tokens' : ~r.spent => r \in refresh_tokens
      BY <2>5, <1>4 DEF RevokeRefresh
    <3>3. CASE req' = [req EXCEPT ![p] = Idle]
      BY <3>2, <3>3, <1>8
    <3>4. CASE req' = [req EXCEPT ![p].pc = "prune_tokens"]
      <4>1. \A x \in Proc : req'[x] = req[x]
                             \/ req'[x] = [req[x] EXCEPT !.pc = "prune_tokens"]
        BY <3>4 DEF TypeOK
      <4>2. \A q \in Request : LET r == [q EXCEPT !.pc = "prune_tokens"]
                               IN  /\ r.op = q.op /\ r.ver = q.ver
                                   /\ r.late = q.late /\ r.nick = q.nick
        BY DEF Request
      <4>3. \A x \in Proc : /\ req'[x].op = req[x].op
                            /\ req'[x].ver = req[x].ver
                            /\ req'[x].late = req[x].late
                            /\ req'[x].nick = req[x].nick
        BY <4>1, <4>2, <1>5
      <4>4. QED
        BY <3>2, <4>3, <1>9
    <3>5. QED
      BY <3>1, <3>3, <3>4
  <2>6. CASE PruneTokens(p)
    BY <2>6, <1>9 DEF PruneTokens, history
  <2>7. CASE PruneRefresh(p)
    BY <2>7, <1>4, <1>9 DEF PruneRefresh, history
  <2>8. CASE InsertToken(p)
    BY <2>8, <1>9 DEF InsertToken
  <2>9. CASE InsertRefresh(p)
    <3> DEFINE new == [id |-> NextRowId(refresh_tokens), nick |-> req[p].nick,
                       secret |-> minted + 1,
                       expires |-> req[p].now + REFRESH_TTL, spent |-> FALSE,
                       ver |-> req[p].ver, late |-> req[p].late]
    <3>1. /\ refresh_tokens' = refresh_tokens \cup {new}
          /\ new.nick = req[p].nick /\ new.ver = req[p].ver
          /\ new.late = req[p].late
      BY <2>9 DEF InsertRefresh
    <3> HIDE DEF new
    <3>2. /\ UNCHANGED <<pw, resetting, ended>>
          /\ req' = [req EXCEPT ![p] = Idle]
      BY <2>9 DEF InsertRefresh
    <3>3. req[p].op \in {"login", "refresh"}
      BY <2>9 DEF InsertRefresh, Issuing, SlotInv, SlotOK
    <3>4. new.ver >= ended[new.nick] \/ new.late
      BY <3>1, <3>3, <1>5
    <3>5. \A x \in Proc : req'[x].op \in {"login", "refresh"} =>
              req'[x].ver >= ended[req'[x].nick] \/ req'[x].late
      BY <3>2, <1>3, <1>6
    <3>6. QED
      BY <3>1, <3>2, <3>4, <3>5 DEF ResetInv, ResetEndsSessionsUnlessLate
  <2>10. CASE Abort(p)
    BY <2>10, <1>8 DEF Abort, database, history
  <2>11. QED
    BY <1>10, <2>1, <2>2, <2>3, <2>4, <2>5, <2>6, <2>7, <2>8, <2>9, <2>10
    DEF Handler
<1>11. ASSUME NEW n \in Nick, Operator(n) PROVE ResetInv'
  <2>1. CASE Register(n)
    BY <2>1, <1>1 DEF Register, ResetInv, ResetEndsSessionsUnlessLate, history
  <2>2. CASE CliLogin(n)
    BY <2>2, <1>7 DEF CliLogin
  <2>3. CASE ResetPassword(n)
    BY <2>3, <1>1 DEF ResetPassword, ResetInv, ResetEndsSessionsUnlessLate, history
  <2>4. CASE ResetRevoke(n)
    <3>1. /\ ended' = [ended EXCEPT ![n] = pw[n]]
          /\ pw' = pw /\ resetting' = resetting \ {n}
          /\ refresh_tokens' = RevokeAll(refresh_tokens, n)
      BY <2>4 DEF ResetRevoke
    <3>2. /\ ended'[n] = pw[n]
          /\ \A m \in Nick \ {n} : ended'[m] = ended[m]
      BY <3>1, <1>1
    <3>3. (\A m \in Nick : ended'[m] <= pw'[m]) /\ (\A m \in resetting' : pw'[m] > 0)
      BY <3>1, <3>2, <1>1 DEF ResetInv, TypeOK
    <3>4. \A p \in Proc :
              /\ req'[p].op = req[p].op /\ req'[p].ver = req[p].ver
              /\ req'[p].nick = req[p].nick
              /\ req[p].op \in {"login", "refresh"} /\ req[p].nick = n => req'[p].late
              /\ req[p].late => req'[p].late
      BY <2>4, <1>5 DEF ResetRevoke, Request
    <3>5. \A p \in Proc : req[p].op \in {"login", "refresh"} => req[p].nick \in Nick
      BY DEF SlotInv, SlotOK
    <3>6. \A p \in Proc : req'[p].op \in {"login", "refresh"} =>
              req'[p].ver >= ended'[req'[p].nick] \/ req'[p].late
      BY <3>2, <3>4, <3>5, <1>5
    <3>7. \A r \in refresh_tokens' :
              ~r.spent => r \in refresh_tokens /\ r.nick \in Nick \ {n}
      <4>1. \A r \in RefreshRow : [r EXCEPT !.spent = TRUE].spent /\ r.nick \in Nick
        BY DEF RefreshRow
      <4>2. QED
        BY <3>1, <4>1 DEF RevokeAll, TypeOK
    <3>8. ResetEndsSessionsUnlessLate'
      BY <3>2, <3>7 DEF ResetInv, ResetEndsSessionsUnlessLate
    <3>9. QED
      BY <3>3, <3>6, <3>8 DEF ResetInv
  <2>5. CASE ResetAbort(n)
    BY <2>5, <1>1 DEF ResetAbort, ResetInv, ResetEndsSessionsUnlessLate,
                      database, history
  <2>6. QED
    BY <1>11, <2>1, <2>2, <2>3, <2>4, <2>5 DEF Operator
<1>12. CASE Tick
  BY <1>12, <1>7 DEF Tick, database, history
<1>13. CASE UNCHANGED vars
  BY <1>13, <1>7 DEF vars, database, history
<1>14. QED
  BY <1>10, <1>11, <1>12, <1>13 DEF Next

(* What the statements of db.rs do to a row: an INSERT leaves it, a prune  *)
(* leaves it until it expires, an UPDATE leaves it unless it is meant.     *)
LEMMA KeptFacts ==
    ASSUME NEW rows, NEW n, NEW s, NEW e \in Nat, Kept(rows, n, s, e)
    PROVE  /\ \A more : rows \subseteq more => Kept(more, n, s, e)
           /\ \A k \in Nat : k <= e => Kept(Prune(rows, k), n, s, e)
           /\ \A id : (\A r \in rows : r.id = id => r.secret # s)
                         => Kept(Claim(rows, id), n, s, e)
           /\ \A m : m # n => Kept(RevokeAll(rows, m), n, s, e)
<1>1. PICK r \in rows : r.nick = n /\ r.secret = s /\ r.expires = e /\ ~r.spent
  BY DEF Kept
<1>2. \A more : rows \subseteq more => Kept(more, n, s, e)
  BY <1>1 DEF Kept
<1>3. ASSUME NEW k \in Nat, k <= e PROVE Kept(Prune(rows, k), n, s, e)
  <2>1. r \in Prune(rows, k)
    BY <1>1, <1>3 DEF Prune
  <2>2. QED
    BY <1>1, <2>1 DEF Kept
<1>4. ASSUME NEW id, \A x \in rows : x.id = id => x.secret # s
      PROVE  Kept(Claim(rows, id), n, s, e)
  <2>1. r \in Claim(rows, id)
    BY <1>1, <1>4 DEF Claim
  <2>2. QED
    BY <1>1, <2>1 DEF Kept
<1>5. ASSUME NEW m, m # n PROVE Kept(RevokeAll(rows, m), n, s, e)
  <2>1. r \in RevokeAll(rows, m)
    BY <1>1, <1>5 DEF RevokeAll
  <2>2. QED
    BY <1>1, <2>1 DEF Kept
<1>6. QED
  BY <1>2, <1>3, <1>4, <1>5

(* The claim of a selected row spends no other secret that is still good.  *)
LEMMA ClaimSparesGood ==
    ASSUME TypeOK, SlotInv, TablesInv, HeldInv, NEW p \in Proc,
           NEW n, NEW s \in Secret, NEW e \in Nat, Good(s, e)'
    PROVE  /\ ConsumeToken(p) /\ Kept(tokens, n, s, e) => Kept(tokens', n, s, e)
           /\ RevokeRefresh(p) /\ Kept(refresh_tokens, n, s, e)
                => Kept(refresh_tokens', n, s, e)
<1>1. req[p] \in Request
  BY DEF TypeOK
<1>2. ASSUME req[p].pc \in {"consume", "revoke"},
             claims' = [claims EXCEPT ![req[p].key] = @ + 1]
      PROVE  s # req[p].key
  <2>1. req[p].key \in Secret
    BY <1>2, SlotFacts
  <2>2. claims[req[p].key] \in Nat /\ claims'[req[p].key] = claims[req[p].key] + 1
    BY <1>2, <2>1 DEF TypeOK
  <2>3. claims'[req[p].key] # 0
    BY <2>2
  <2>4. QED
    BY <2>3 DEF Good
<1>3. ASSUME ConsumeToken(p), Kept(tokens, n, s, e) PROVE Kept(tokens', n, s, e)
  <2>1. CASE tokens' = tokens
    BY <1>3, <2>1
  <2>2. CASE /\ tokens' = Claim(tokens, req[p].id)
             /\ claims' = [claims EXCEPT ![req[p].key] = @ + 1]
    <3>1. s # req[p].key /\ s \notin tangled
      BY <1>3, <1>2, <2>2 DEF ConsumeToken, Good
    <3>2. \A r \in tokens : r.id = req[p].id => r.secret # s
      BY <1>3, <3>1 DEF ConsumeToken, HeldInv, HeldOK
    <3>3. QED
      BY <1>3, <2>2, <3>2, KeptFacts
  <2>3. QED
    BY <1>3, <2>1, <2>2 DEF ConsumeToken
<1>4. ASSUME RevokeRefresh(p), Kept(refresh_tokens, n, s, e)
      PROVE  Kept(refresh_tokens', n, s, e)
  <2>1. CASE refresh_tokens' = refresh_tokens
    BY <1>4, <2>1
  <2>2. CASE /\ refresh_tokens' = Claim(refresh_tokens, req[p].id)
             /\ claims' = [claims EXCEPT ![req[p].key] = @ + 1]
    <3>1. s # req[p].key /\ s \notin tangled
      BY <1>4, <1>2, <2>2 DEF RevokeRefresh, Good
    <3>2. \A r \in refresh_tokens : r.id = req[p].id => r.secret # s
      BY <1>4, <3>1 DEF RevokeRefresh, HeldInv, HeldOK
    <3>3. QED
      BY <1>4, <2>2, <3>2, KeptFacts
  <2>3. QED
    BY <1>4, <2>1, <2>2 DEF RevokeRefresh
<1>5. QED
  BY <1>3, <1>4

(* Nothing that makes a credential good is ever taken back.                *)
LEMMA Monotone ==
    ASSUME TypeOK, SlotInv, ResetInv, [Next]_vars
    PROVE  /\ clock' \in Nat /\ clock <= clock' /\ minted <= minted'
           /\ \A s \in Secret : claims'[s] = 0 => claims[s] = 0
           /\ tangled \subseteq tangled'
           /\ \A n \in Nick : ended[n] <= ended'[n]
<1>1. /\ clock \in Nat /\ minted \in Nat
      /\ ended \in [Nick -> Nat] /\ pw \in [Nick -> Nat]
      /\ claims \in [Secret -> Nat]
  BY AuthAssumption DEF TypeOK, Version
<1>2. ASSUME \A s \in Secret :
                 claims'[s] = claims[s] \/ claims'[s] = claims[s] + 1
      PROVE  \A s \in Secret : claims'[s] = 0 => claims[s] = 0
  BY <1>1, <1>2
<1>3. ASSUME NEW p \in Proc, ConsumeToken(p) \/ RevokeRefresh(p)
      PROVE  \A s \in Secret : claims'[s] = claims[s] \/ claims'[s] = claims[s] + 1
  <2>1. \/ claims' = claims
        \/ claims' = [claims EXCEPT ![req[p].key] = @ + 1]
    BY <1>3 DEF ConsumeToken, RevokeRefresh
  <2>2. QED
    BY <2>1, <1>1
<1>4. ASSUME NEW p \in Proc, Handler(p)
      PROVE  /\ clock' = clock /\ minted' \in {minted, minted + 1}
             /\ tangled \subseteq tangled' /\ ended' = ended
             /\ \/ claims' = claims
                \/ ConsumeToken(p) \/ RevokeRefresh(p)
  <2>1. CASE Refused(p) \/ Abort(p) \/ \E n \in Nick : Login(p, n)
    BY <2>1 DEF Refused, Abort, Login, vars, database, history
  <2>2. CASE \E n \in Nick, c \in handed : Present(p, n, c)
    BY <2>2 DEF Present, Validate, Refresh, Logout, database, history
  <2>3. CASE ConsumeToken(p) \/ RevokeRefresh(p)
    BY <2>3 DEF ConsumeToken, RevokeRefresh
  <2>4. CASE PruneTokens(p) \/ PruneRefresh(p)
    BY <2>4 DEF PruneTokens, PruneRefresh, history
  <2>5. CASE InsertToken(p) \/ InsertRefresh(p)
    BY <2>5 DEF InsertToken, InsertRefresh
  <2>6. QED
    BY <1>4, <2>1, <2>2, <2>3, <2>4, <2>5 DEF Handler
<1>5. ASSUME NEW n \in Nick, Operator(n)
      PROVE  /\ clock' = clock /\ minted' \in {minted, minted + 1}
             /\ tangled \subseteq tangled' /\ claims' = claims
             /\ \/ ended' = ended
                \/ ended' = [ended EXCEPT ![n] = pw[n]]
  <2>1. CASE Register(n) \/ ResetPassword(n) \/ ResetAbort(n)
    BY <2>1 DEF Register, ResetPassword, ResetAbort, database, history
  <2>2. CASE CliLogin(n) \/ ResetRevoke(n)
    BY <2>2 DEF CliLogin, ResetRevoke
  <2>3. QED
    BY <1>5, <2>1, <2>2 DEF Operator
<1>6. CASE \E p \in Proc : Handler(p)
  BY <1>6, <1>1, <1>2, <1>3, <1>4
<1>7. CASE \E n \in Nick : Operator(n)
  <2>1. PICK n \in Nick : Operator(n)
    BY <1>7
  <2>2. \A m \in Nick : ended[m] <= ended'[m]
    BY <2>1, <1>1, <1>5 DEF ResetInv
  <2>3. QED
    BY <2>1, <2>2, <1>1, <1>5
<1>8. CASE Tick \/ UNCHANGED vars
  BY <1>8, <1>1 DEF Tick, vars, database, history
<1>9. QED
  BY <1>6, <1>7, <1>8 DEF Next

(* No step takes away the row of a credential that is good afterwards; a   *)
(* refresh token can also be ended by the reset of its nick.               *)
LEMMA RowsStay ==
    ASSUME TypeOK, SlotInv, TablesInv, HeldInv, ResetInv, HandedInv,
           [Next]_vars,
           NEW n \in Nick, NEW s \in Secret, NEW e \in Nat, Good(s, e)'
    PROVE  /\ Kept(tokens, n, s, e) => Kept(tokens', n, s, e)
           /\ Kept(refresh_tokens, n, s, e) =>
                  \/ Kept(refresh_tokens', n, s, e)
                  \/ ended'[n] > ended[n]
<1>1. clock \in Nat /\ clock' \in Nat /\ clock <= clock' /\ clock' < e
  BY Monotone DEF TypeOK, Good
<1>2. ASSUME \/ tokens' = tokens
             \/ \E row : tokens' = tokens \cup {row}
             \/ \E k \in Nat : k <= clock /\ tokens' = Prune(tokens, k)
             \/ \E p \in Proc : ConsumeToken(p),
             Kept(tokens, n, s, e)
      PROVE  Kept(tokens', n, s, e)
  <2>1. CASE \E k \in Nat : k <= clock /\ tokens' = Prune(tokens, k)
    BY <1>1, <1>2, <2>1, KeptFacts
  <2>2. CASE \E p \in Proc : ConsumeToken(p)
    BY <1>2, <2>2, ClaimSparesGood
  <2>3. CASE tokens \subseteq tokens'
    BY <1>2, <2>3, KeptFacts
  <2>4. QED
    BY <1>2, <2>1, <2>2, <2>3
<1>3. ASSUME \/ refresh_tokens' = refresh_tokens
             \/ \E row : refresh_tokens' = refresh_tokens \cup {row}
             \/ \E k \in Nat : k <= clock
                    /\ refresh_tokens' = Prune(refresh_tokens, k)
             \/ \E p \in Proc : RevokeRefresh(p)
             \/ \E m \in Nick : ResetRevoke(m),
             Kept(refresh_tokens, n, s, e)
      PROVE  Kept(refresh_tokens', n, s, e) \/ ended'[n] > ended[n]
  <2>1. CASE \E k \in Nat : k <= clock
                 /\ refresh_tokens' = Prune(refresh_tokens, k)
    BY <1>1, <1>3, <2>1, KeptFacts
  <2>2. CASE \E p \in Proc : RevokeRefresh(p)
    BY <1>3, <2>2, ClaimSparesGood
  <2>3. CASE refresh_tokens \subseteq refresh_tokens'
    BY <1>3, <2>3, KeptFacts
  <2>4. ASSUME NEW m \in Nick, ResetRevoke(m)
        PROVE  Kept(refresh_tokens', n, s, e) \/ ended'[n] > ended[n]
    <3>1. CASE m = n
      <4>1. ended'[n] = pw[n] /\ ended[n] < pw[n]
        BY <2>4, <3>1 DEF ResetRevoke, TypeOK, HandedInv
      <4>2. ended[n] \in Nat /\ pw[n] \in Nat
        BY AuthAssumption DEF TypeOK, Version
      <4>3. QED
        BY <4>1, <4>2
    <3>2. CASE m # n
      BY <1>3, <2>4, <3>2, KeptFacts DEF ResetRevoke
    <3>3. QED
      BY <3>1, <3>2
  <2>5. QED
    BY <1>3, <2>1, <2>2, <2>3, <2>4
<1>4. ASSUME NEW p \in Proc, Handler(p)
      PROVE  /\ \/ tokens' = tokens
                \/ \E row : tokens' = tokens \cup {row}
                \/ \E k \in Nat : k <= clock /\ tokens' = Prune(tokens, k)
                \/ ConsumeToken(p)
             /\ \/ refresh_tokens' = refresh_tokens
                \/ \E row : refresh_tokens' = refresh_tokens \cup {row}
                \/ \E k \in Nat : k <= clock
                       /\ refresh_tokens' = Prune(refresh_tokens, k)
                \/ RevokeRefresh(p)
  <2>1. CASE Refused(p) \/ Abort(p) \/ \E m \in Nick : Login(p, m)
    BY <2>1 DEF Refused, Abort, Login, vars, database
  <2>2. CASE \E m \in Nick, c \in handed : Present(p, m, c)
    BY <2>2 DEF Present, Validate, Refresh, Logout, database
  <2>3. CASE ConsumeToken(p)
    BY <2>3 DEF ConsumeToken
  <2>4. CASE RevokeRefresh(p)
    BY <2>4 DEF RevokeRefresh
  <2>5. CASE PruneTokens(p)
    <3>1. req[p].now \in Nat /\ req[p].now <= clock
      BY SlotFacts DEF SlotInv, SlotOK
    <3>2. \E k \in Nat : k <= clock /\ tokens' = Prune(tokens, k)
      BY <2>5, <3>1, <1>1 DEF PruneTokens
    <3>3. QED
      BY <2>5, <3>2 DEF PruneTokens
  <2>6. CASE PruneRefresh(p)
    BY <2>6, SlotFacts DEF PruneRefresh, SlotInv, SlotOK
  <2>7. CASE InsertToken(p)
    <3>1. \E row : tokens' = tokens \cup {row}
      BY <2>7 DEF InsertToken
    <3>2. QED
      BY <2>7, <3>1 DEF InsertToken
  <2>8. CASE InsertRefresh(p)
    <3>1. \E row : refresh_tokens' = refresh_tokens \cup {row}
      BY <2>8 DEF InsertRefresh
    <3>2. QED
      BY <2>8, <3>1 DEF InsertRefresh
  <2>9. QED
    BY <1>4, <2>1, <2>2, <2>3, <2>4, <2>5, <2>6, <2>7, <2>8 DEF Handler
<1>5. ASSUME NEW m \in Nick, Operator(m)
      PROVE  /\ \/ tokens' = tokens
                \/ \E row : tokens' = tokens \cup {row}
             /\ refresh_tokens' = refresh_tokens \/ ResetRevoke(m)
  <2>1. CASE Register(m) \/ ResetPassword(m) \/ ResetAbort(m)
    BY <2>1 DEF Register, ResetPassword, ResetAbort, database
  <2>2. CASE CliLogin(m)
    <3>1. \E row : tokens' = tokens \cup {row}
      BY <2>2 DEF CliLogin
    <3>2. QED
      BY <2>2, <3>1 DEF CliLogin
  <2>3. CASE ResetRevoke(m)
    BY <2>3 DEF ResetRevoke
  <2>4. QED
    BY <1>5, <2>1, <2>2, <2>3 DEF Operator
<1>6. CASE \E p \in Proc : Handler(p)
  BY <1>6, <1>2, <1>3, <1>4
<1>7. CASE \E m \in Nick : Operator(m)
  BY <1>7, <1>2, <1>3, <1>5
<1>8. CASE Tick \/ UNCHANGED vars
  BY <1>8, <1>2, <1>3 DEF Tick, vars, database
<1>9. QED
  BY <1>6, <1>7, <1>8 DEF Next

(* A credential in a response has its row when it is handed out, and keeps *)
(* it while it is good.                                                    *)
LEMMA HandedStep ==
    ASSUME TypeOK, SlotInv, TablesInv, HeldInv, ResetInv, HandedInv,
           [Next]_vars, TypeOK'
    PROVE  HandedInv'
<1>1. /\ clock \in Nat /\ minted \in Nat /\ minted' \in Nat
      /\ ended \in [Nick -> Nat] /\ ended' \in [Nick -> Nat]
      /\ pw \in [Nick -> Nat]
  BY AuthAssumption DEF TypeOK, Version
<1>2. \A c \in Credential : /\ c.nick \in Nick /\ c.secret \in Secret
                            /\ c.secret \in Nat /\ c.expires \in Nat
                            /\ c.since \in Nat
  BY AuthAssumption DEF Credential, Secret, Version
<1>3. ASSUME NEW s \in Secret, NEW e \in Nat, Good(s, e)'
      PROVE  Good(s, e)
  BY <1>1, <1>3, Monotone DEF Good
<1>4. ASSUME NEW c \in handed PROVE HandedOK(c)'
  <2>1. /\ c \in Credential /\ HandedOK(c)
        /\ c.nick \in Nick /\ c.secret \in Secret /\ c.secret \in Nat
        /\ c.expires \in Nat /\ c.since \in Nat
    BY <1>2 DEF TypeOK, HandedInv
  <2>2. ended[c.nick] \in Nat /\ ended'[c.nick] \in Nat
        /\ ended[c.nick] <= ended'[c.nick]
    BY <1>1, <2>1, Monotone
  <2>3. c.secret <= minted' /\ c.since <= ended'[c.nick]
    BY <1>1, <2>1, <2>2, Monotone DEF HandedOK
  <2>4. ASSUME c.kind = "game", Good(c.secret, c.expires)'
        PROVE  Kept(tokens', c.nick, c.secret, c.expires)
    BY <1>3, <2>1, <2>4, RowsStay DEF HandedOK
  <2>5. ASSUME c.kind = "refresh", Good(c.secret, c.expires)'
        PROVE  \/ Kept(refresh_tokens', c.nick, c.secret, c.expires)
               \/ ended'[c.nick] > c.since
    <3>1. \/ Kept(refresh_tokens, c.nick, c.secret, c.expires)
          \/ ended[c.nick] > c.since
      BY <1>3, <2>1, <2>5 DEF HandedOK
    <3>2. CASE Kept(refresh_tokens, c.nick, c.secret, c.expires)
      <4>1. \/ Kept(refresh_tokens', c.nick, c.secret, c.expires)
            \/ ended'[c.nick] > ended[c.nick]
        BY <2>1, <2>5, <3>2, RowsStay
      <4>2. QED
        BY <2>1, <2>2, <4>1 DEF HandedOK
    <3>3. CASE ended[c.nick] > c.since
      BY <2>1, <2>2, <3>3
    <3>4. QED
      BY <3>1, <3>2, <3>3
  <2>6. QED
    BY <2>3, <2>4, <2>5 DEF HandedOK, Kept
<1>5. ASSUME NEW p \in Proc,
             req'[p].pc = "insert_refresh" =>
                 /\ req[p].pc = "insert_refresh"
                 /\ req'[p].nick = req[p].nick
                 /\ req'[p].game = req[p].game
                 /\ req'[p].now = req[p].now
      PROVE  OwedOK(req[p])'
  <2>1. SUFFICES ASSUME req'[p].pc = "insert_refresh",
                        Good(req[p].game, req[p].now + TOKEN_TTL)'
                 PROVE  Kept(tokens, req[p].nick, req[p].game,
                             req[p].now + TOKEN_TTL)'
    BY DEF OwedOK
  <2>2. PICK n \in Nick, s \in Secret, t \in Nat :
            n = req[p].nick /\ s = req[p].game /\ t = req[p].now
    BY <1>5, <2>1, SlotFacts
  <2>3. n = req'[p].nick /\ s = req'[p].game /\ t = req'[p].now
    BY <1>5, <2>1, <2>2
  <2>4. t + TOKEN_TTL \in Nat
    BY AuthAssumption
  <2>5. Good(s, t + TOKEN_TTL)'
    BY <2>1, <2>3 DEF Good
  <2>6. Kept(tokens, n, s, t + TOKEN_TTL)
    BY <1>3, <1>5, <2>1, <2>2, <2>4, <2>5 DEF HandedInv, OwedOK
  <2>7. Kept(tokens', n, s, t + TOKEN_TTL)
    BY <2>4, <2>5, <2>6, RowsStay
  <2>8. QED
    BY <2>3, <2>7 DEF Kept
<1>6. ASSUME UNCHANGED <<resetting, pw, ended>>,
             \A c \in handed' : c \in handed \/ HandedOK(c)',
             \A p \in Proc : \/ OwedOK(req[p])'
                             \/ req'[p] = req[p]
                             \/ req'[p].pc # "insert_refresh"
      PROVE  HandedInv'
  <2>1. \A p \in Proc : OwedOK(req[p])'
    BY <1>5, <1>6
  <2>2. \A n \in resetting' : ended'[n] < pw'[n]
    BY <1>6 DEF HandedInv
  <2>3. \A c \in handed' : HandedOK(c)'
    BY <1>4, <1>6
  <2>4. QED
    BY <2>1, <2>2, <2>3 DEF HandedInv
<1>7. ASSUME NEW p \in Proc, Handler(p) PROVE HandedInv'
  <2>1. CASE Refused(p)
    BY <2>1, <1>6 DEF Refused, vars, database, history
  <2>2. ASSUME NEW q, req' = [req EXCEPT ![p] = q], q.pc # "insert_refresh",
               UNCHANGED <<resetting, pw, ended, handed>>
        PROVE  HandedInv'
    <3>1. \A x \in Proc : req'[x] = req[x] \/ req'[x].pc # "insert_refresh"
      BY <2>2 DEF TypeOK
    <3>2. QED
      BY <2>2, <3>1, <1>6
  <2>3. Idle.pc # "insert_refresh"
    BY DEF Idle
  <2>4. CASE Abort(p) \/ ConsumeToken(p)
    BY <2>2, <2>3, <2>4 DEF Abort, ConsumeToken, database, history
  <2>5. ASSUME NEW n \in Nick, Login(p, n) PROVE HandedInv'
    <3> DEFINE q == [Idle EXCEPT !.op = "login", !.pc = "prune_tokens",
                                 !.nick = n, !.ver = pw[n]]
    <3>1. q.pc # "insert_refresh"
      BY DEF Idle
    <3>2. req' = [req EXCEPT ![p] = q] /\ UNCHANGED <<resetting, pw, ended, handed>>
      BY <2>5 DEF Login, database, history
    <3> HIDE DEF q
    <3>3. QED
      BY <3>1, <3>2, <2>2
  <2>6. ASSUME NEW n \in Nick, NEW c \in handed, Present(p, n, c)
        PROVE  HandedInv'
    <3>1. PICK op, rows : Select(p, op, rows, n, c.secret)
      BY <2>6 DEF Present, Validate, Refresh, Logout
    <3>2. PICK r : req' = [req EXCEPT ![p] = [Idle EXCEPT !.op = op,
              !.pc = IF op = "validate" THEN "consume" ELSE "revoke",
              !.nick = n, !.id = r.id, !.key = c.secret, !.now = clock,
              !.ver  = IF op = "validate" THEN 0 ELSE r.ver,
              !.late = IF op = "validate" THEN FALSE ELSE r.late]]
      BY <3>1 DEF Select
    <3> DEFINE q == [Idle EXCEPT !.op = op,
              !.pc = IF op = "validate" THEN "consume" ELSE "revoke",
              !.nick = n, !.id = r.id, !.key = c.secret, !.now = clock,
              !.ver  = IF op = "validate" THEN 0 ELSE r.ver,
              !.late = IF op = "validate" THEN FALSE ELSE r.late]
    <3>3. q.pc # "insert_refresh"
      BY DEF Idle
    <3>4. req' = [req EXCEPT ![p] = q]
      BY <3>2
    <3>5. UNCHANGED <<resetting, pw, ended, handed>>
      BY <2>6 DEF Present, Validate, Refresh, Logout, database, history
    <3> HIDE DEF q
    <3>6. QED
      BY <3>3, <3>4, <3>5, <2>2
  <2>7. CASE RevokeRefresh(p)
    <3>1. UNCHANGED <<resetting, pw, ended, handed>>
      BY <2>7 DEF RevokeRefresh
    <3>2. CASE req' = [req EXCEPT ![p] = Idle]
      BY <3>1, <3>2, <2>2, <2>3
    <3>3. CASE req' = [req EXCEPT ![p].pc = "prune_tokens"]
      <4>1. \A x \in Proc : req'[x] = req[x] \/ req'[x].pc # "insert_refresh"
        BY <3>3 DEF TypeOK, Request
      <4>2. QED
        BY <3>1, <4>1, <1>6
    <3>4. QED
      BY <2>7, <3>2, <3>3 DEF RevokeRefresh
  <2>8. CASE PruneTokens(p) \/ PruneRefresh(p)
    <3>1. UNCHANGED <<resetting, pw, ended, handed>>
      BY <2>8 DEF PruneTokens, PruneRefresh, history
    <3>2. \A x \in Proc : req'[x] = req[x] \/ req'[x].pc # "insert_refresh"
      BY <2>8 DEF PruneTokens, PruneRefresh, TypeOK, Request
    <3>3. QED
      BY <3>1, <3>2, <1>6
  <2>9. CASE InsertToken(p)
    <3>1. /\ UNCHANGED <<resetting, pw, ended, handed>>
          /\ tokens' = tokens \cup
                 {NewToken(req[p].nick, req[p].now + TOKEN_TTL)}
          /\ req' = [req EXCEPT ![p] = [@ EXCEPT !.pc = "insert_refresh",
                         !.game = NewToken(req[p].nick,
                                      req[p].now + TOKEN_TTL).secret]]
      BY <2>9 DEF InsertToken
    <3>2. /\ \A x \in Proc : x # p => req'[x] = req[x]
          /\ req'[p].nick = req[p].nick /\ req'[p].now = req[p].now
          /\ req'[p].game = NewToken(req[p].nick,
                                     req[p].now + TOKEN_TTL).secret
      BY <3>1 DEF TypeOK, Request
    <3>3. Kept(tokens, req[p].nick, req[p].game, req[p].now + TOKEN_TTL)'
      <4> DEFINE row == NewToken(req[p].nick, req[p].now + TOKEN_TTL)
      <4>1. row \in tokens' /\ row.secret = req'[p].game
        BY <3>1, <3>2
      <4>2. /\ row.nick = req'[p].nick /\ ~row.spent
            /\ row.expires = req'[p].now + TOKEN_TTL
        BY <3>2 DEF NewToken
      <4> HIDE DEF row
      <4>3. QED
        BY <4>1, <4>2 DEF Kept
    <3>4. OwedOK(req[p])'
      BY <3>3 DEF OwedOK
    <3>5. QED
      BY <3>1, <3>2, <3>4, <1>6
  <2>10. CASE InsertRefresh(p)
    <3>1. PICK n, game, refresh, row :
              /\ n = req[p].nick
              /\ row.nick = n /\ row.secret = minted + 1 /\ ~row.spent
              /\ game.kind = "game" /\ game.nick = n
              /\ game.secret = req[p].game
              /\ game.expires = req[p].now + TOKEN_TTL
              /\ game.since = ended[n]
              /\ refresh.kind = "refresh" /\ refresh.nick = n
              /\ refresh.secret = row.secret /\ refresh.expires = row.expires
              /\ refresh.since = ended[n]
              /\ refresh_tokens' = refresh_tokens \cup {row}
              /\ \A c \in handed' : c \in handed \/ c = game \/ c = refresh
      <4> DEFINE new == [id |-> NextRowId(refresh_tokens), nick |-> req[p].nick,
                         secret |-> minted + 1,
                         expires |-> req[p].now + REFRESH_TTL,
                         spent |-> FALSE, ver |-> req[p].ver,
                         late |-> req[p].late]
                 given == [kind |-> "game", nick |-> req[p].nick,
                           secret |-> req[p].game,
                           expires |-> req[p].now + TOKEN_TTL,
                           since |-> ended[req[p].nick]]
                 also == [kind |-> "refresh", nick |-> req[p].nick,
                          secret |-> new.secret, expires |-> new.expires,
                          since |-> ended[req[p].nick]]
      <4>1. /\ refresh_tokens' = refresh_tokens \cup {new}
            /\ \A c \in handed' : c \in handed \/ c = given \/ c = also
        BY <2>10 DEF InsertRefresh
      <4>2. /\ new.nick = req[p].nick /\ new.secret = minted + 1 /\ ~new.spent
            /\ given.kind = "game" /\ given.nick = req[p].nick
            /\ given.secret = req[p].game
            /\ given.expires = req[p].now + TOKEN_TTL
            /\ given.since = ended[req[p].nick]
        OBVIOUS
      <4>3. /\ also.kind = "refresh" /\ also.nick = req[p].nick
            /\ also.secret = new.secret /\ also.expires = new.expires
            /\ also.since = ended[req[p].nick]
        OBVIOUS
      <4> HIDE DEF new, given, also
      <4>4. QED
        BY <4>1, <4>2, <4>3
    <3>2. /\ UNCHANGED <<resetting, pw, ended, tokens, clock, claims>>
          /\ req' = [req EXCEPT ![p] = Idle] /\ minted' = minted + 1
          /\ req[p].pc = "insert_refresh" /\ tangled \subseteq tangled'
      BY <2>10 DEF InsertRefresh
    <3>3. /\ n \in Nick /\ req[p].game \in Nat /\ req[p].game <= minted
      BY <3>1, <3>2, <1>1, SlotFacts DEF SlotInv, SlotOK
    <3>4. HandedOK(game)'
      <4>1. game.secret <= minted' /\ game.since <= ended'[game.nick]
        BY <1>1, <3>1, <3>2, <3>3
      <4>2. OwedOK(req[p])
        BY DEF HandedInv
      <4>3. Good(game.secret, game.expires)'
                => Kept(tokens, game.nick, game.secret, game.expires)
        BY <3>1, <3>2, <4>2 DEF Good, OwedOK
      <4>4. QED
        BY <3>1, <3>2, <4>1, <4>3 DEF HandedOK, Kept
    <3>5. HandedOK(refresh)'
      <4>1. refresh.secret <= minted' /\ refresh.since <= ended'[refresh.nick]
        BY <1>1, <3>1, <3>2, <3>3
      <4>2. Kept(refresh_tokens', refresh.nick, refresh.secret, refresh.expires)
        BY <3>1 DEF Kept
      <4>3. QED
        BY <3>1, <4>1, <4>2 DEF HandedOK, Kept
    <3>6. \A x \in Proc : req'[x] = req[x] \/ req'[x].pc # "insert_refresh"
      BY <3>2, <2>3 DEF TypeOK
    <3>7. \A c \in handed' : c \in handed \/ HandedOK(c)'
      BY <3>1, <3>4, <3>5
    <3>8. QED
      BY <3>2, <3>6, <3>7, <1>6
  <2>11. QED
    BY <1>7, <2>1, <2>4, <2>5, <2>6, <2>7, <2>8, <2>9, <2>10 DEF Handler
<1>8. ASSUME NEW n \in Nick, Operator(n) PROVE HandedInv'
  <2>1. CASE CliLogin(n)
    <3>1. PICK row, game :
              /\ row.nick = n /\ row.secret = minted + 1 /\ ~row.spent
              /\ game.kind = "game" /\ game.nick = n /\ game.since = ended[n]
              /\ game.secret = row.secret /\ game.expires = row.expires
              /\ tokens' = tokens \cup {row}
              /\ \A c \in handed' : c \in handed \/ c = game
      <4> DEFINE new == NewToken(n, clock + TOKEN_TTL)
                 given == [kind |-> "game", nick |-> n, secret |-> new.secret,
                           expires |-> new.expires, since |-> ended[n]]
      <4>1. /\ tokens' = tokens \cup {new}
            /\ \A c \in handed' : c \in handed \/ c = given
        BY <2>1 DEF CliLogin
      <4>2. new.nick = n /\ new.secret = minted + 1 /\ ~new.spent
        BY DEF NewToken
      <4>3. /\ given.kind = "game" /\ given.nick = n /\ given.since = ended[n]
            /\ given.secret = new.secret /\ given.expires = new.expires
        OBVIOUS
      <4> HIDE DEF new, given
      <4>4. QED
        BY <4>1, <4>2, <4>3
    <3>2. UNCHANGED <<resetting, pw, ended, req>> /\ minted' = minted + 1
      BY <2>1 DEF CliLogin
    <3>3. /\ game.secret <= minted' /\ game.since <= ended'[game.nick]
          /\ Kept(tokens', game.nick, game.secret, game.expires)
      BY <1>1, <3>1, <3>2 DEF Kept
    <3>4. HandedOK(game)'
      BY <3>1, <3>3 DEF HandedOK, Kept
    <3>5. \A c \in handed' : c \in handed \/ HandedOK(c)'
      BY <3>1, <3>4
    <3>6. QED
      BY <3>2, <3>5, <1>6
  <2>2. ASSUME UNCHANGED handed,
               \A m \in resetting' : ended'[m] < pw'[m],
               \A p \in Proc : /\ req'[p].pc = req[p].pc
                               /\ req'[p].nick = req[p].nick
                               /\ req'[p].game = req[p].game
                               /\ req'[p].now = req[p].now
        PROVE  HandedInv'
    <3>1. \A p \in Proc : OwedOK(req[p])'
      BY <1>5, <2>2
    <3>2. \A c \in handed' : HandedOK(c)'
      BY <1>4, <2>2
    <3>3. QED
      BY <2>2, <3>1, <3>2 DEF HandedInv
  <2>3. CASE Register(n)
    <3>1. \A m \in resetting' : ended'[m] < pw'[m]
      BY <2>3, <1>1 DEF Register, HandedInv, ResetInv, history, TypeOK
    <3>2. QED
      BY <2>2, <2>3, <3>1 DEF Register, history
  <2>4. CASE ResetPassword(n)
    <3>1. \A m \in resetting' : ended'[m] < pw'[m]
      BY <2>4, <1>1 DEF ResetPassword, HandedInv, ResetInv, history, TypeOK
    <3>2. QED
      BY <2>2, <2>4, <3>1 DEF ResetPassword, history
  <2>5. CASE ResetRevoke(n)
    <3>1. \A m \in resetting' : ended'[m] < pw'[m]
      BY <2>5, <1>1 DEF ResetRevoke, HandedInv, TypeOK
    <3>2. \A p \in Proc : /\ req'[p].pc = req[p].pc
                          /\ req'[p].nick = req[p].nick
                          /\ req'[p].game = req[p].game
                          /\ req'[p].now = req[p].now
      BY <2>5 DEF ResetRevoke, TypeOK, Request
    <3>3. QED
      BY <2>2, <2>5, <3>1, <3>2 DEF ResetRevoke
  <2>6. CASE ResetAbort(n)
    <3>1. \A m \in resetting' : ended'[m] < pw'[m]
      BY <2>6 DEF ResetAbort, HandedInv, database, history
    <3>2. QED
      BY <2>2, <2>6, <3>1 DEF ResetAbort, history
  <2>7. QED
    BY <1>8, <2>1, <2>3, <2>4, <2>5, <2>6 DEF Operator
<1>9. CASE Tick \/ UNCHANGED vars
  BY <1>9, <1>6 DEF Tick, vars, database, history
<1>10. QED
  BY <1>7, <1>8, <1>9 DEF Next

(* A won compare-and-swap takes a live row before its successor is owed.   *)
LEMMA RotationStep ==
    ASSUME TypeOK, SlotInv, RotationInv, [Next]_vars
    PROVE  RotationInv'
<1>1. /\ IsFiniteSet(Live) /\ IsFiniteSet(Owing)
      /\ Cardinality(Live) \in Nat /\ Cardinality(Owing) \in Nat
      /\ opened \in Nat /\ Cardinality(Live) + Cardinality(Owing) <= opened
  BY FS_CardinalityType DEF RotationInv, RotationNeverForks, TypeOK
<1>2. ASSUME NEW L, NEW O, IsFiniteSet(L), IsFiniteSet(O),
             Live' \subseteq L, Owing' \subseteq O,
             opened' \in Nat, Cardinality(L) + Cardinality(O) <= opened'
      PROVE  RotationInv'
  <2>1. /\ IsFiniteSet(Live') /\ Cardinality(Live') <= Cardinality(L)
        /\ IsFiniteSet(Owing') /\ Cardinality(Owing') <= Cardinality(O)
    BY <1>2, FS_Subset
  <2>2. /\ Cardinality(Live') \in Nat /\ Cardinality(Owing') \in Nat
        /\ Cardinality(L) \in Nat /\ Cardinality(O) \in Nat
    BY <1>2, <2>1, FS_CardinalityType
  <2>3. Cardinality(Live') + Cardinality(Owing') <= opened'
    BY <1>2, <2>1, <2>2
  <2>4. QED
    BY <2>1, <2>3 DEF RotationInv, RotationNeverForks
<1>3. ASSUME Live' \subseteq Live, Owing' \subseteq Owing, opened' = opened
      PROVE  RotationInv'
  BY <1>1, <1>2, <1>3
<1>4. ASSUME NEW p \in Proc, NEW q, req' = [req EXCEPT ![p] = q],
             q.op # "refresh" \/ q.pc \notin Issuing
      PROVE  Owing' \subseteq Owing \ {p}
  BY <1>4 DEF Owing, TypeOK
<1>5. ASSUME refresh_tokens' = refresh_tokens PROVE Live' = Live
  BY <1>5 DEF Live
<1>6. Idle.op # "refresh"
  BY DEF Idle
<1>7. \A k : /\ \A r \in Claim(refresh_tokens, k) :
                    ~r.spent => r \in refresh_tokens /\ r.id # k
             /\ \A r \in Prune(refresh_tokens, k) : r \in refresh_tokens
             /\ \A r \in RevokeAll(refresh_tokens, k) :
                    ~r.spent => r \in refresh_tokens
  <2>1. \A r \in refresh_tokens : [r EXCEPT !.spent = TRUE].spent
    BY DEF TypeOK, RefreshRow
  <2>2. QED
    BY <2>1 DEF Claim, Prune, RevokeAll
<1>8. ASSUME NEW p \in Proc, Handler(p) PROVE RotationInv'
  <2>1. CASE Refused(p)
    BY <2>1, <1>3, <1>5 DEF Refused, vars, database, history, Owing
  <2>2. ASSUME req' = [req EXCEPT ![p] = Idle], Live' \subseteq Live,
               opened' = opened
        PROVE  RotationInv'
    BY <2>2, <1>3, <1>4, <1>6
  <2>3. CASE Abort(p) \/ ConsumeToken(p)
    BY <2>2, <2>3, <1>5 DEF Abort, ConsumeToken, database, history
  <2>4. ASSUME NEW n \in Nick, Login(p, n) PROVE RotationInv'
    <3> DEFINE q == [Idle EXCEPT !.op = "login", !.pc = "prune_tokens",
                                 !.nick = n, !.ver = pw[n]]
    <3>1. q.op # "refresh"
      BY DEF Idle
    <3>2. /\ req' = [req EXCEPT ![p] = q]
          /\ refresh_tokens' = refresh_tokens /\ opened' = opened
      BY <2>4 DEF Login, database, history
    <3> HIDE DEF q
    <3>3. QED
      BY <3>1, <3>2, <1>3, <1>4, <1>5
  <2>5. ASSUME NEW n \in Nick, NEW c \in handed, Present(p, n, c)
        PROVE  RotationInv'
    <3>1. PICK op, rows : Select(p, op, rows, n, c.secret)
      BY <2>5 DEF Present, Validate, Refresh, Logout
    <3>2. PICK r : req' = [req EXCEPT ![p] = [Idle EXCEPT !.op = op,
              !.pc = IF op = "validate" THEN "consume" ELSE "revoke",
              !.nick = n, !.id = r.id, !.key = c.secret, !.now = clock,
              !.ver  = IF op = "validate" THEN 0 ELSE r.ver,
              !.late = IF op = "validate" THEN FALSE ELSE r.late]]
      BY <3>1 DEF Select
    <3> DEFINE q == [Idle EXCEPT !.op = op,
              !.pc = IF op = "validate" THEN "consume" ELSE "revoke",
              !.nick = n, !.id = r.id, !.key = c.secret, !.now = clock,
              !.ver  = IF op = "validate" THEN 0 ELSE r.ver,
              !.late = IF op = "validate" THEN FALSE ELSE r.late]
    <3>3. q.pc \notin Issuing
      BY DEF Idle, Issuing
    <3>4. req' = [req EXCEPT ![p] = q]
      BY <3>2
    <3>5. refresh_tokens' = refresh_tokens /\ opened' = opened
      BY <2>5 DEF Present, Validate, Refresh, Logout, database, history
    <3> HIDE DEF q
    <3>6. QED
      BY <3>3, <3>4, <3>5, <1>3, <1>4, <1>5
  <2>6. CASE RevokeRefresh(p)
    <3>1. opened' = opened
      BY <2>6 DEF RevokeRefresh
    <3>2. CASE Claimable(refresh_tokens, req[p].id) # {}
      <4>1. PICK r \in Live : r.id = req[p].id
        BY <3>2 DEF Claimable, Live
      <4>2. Live' \subseteq Live \ {r}
        BY <2>6, <3>2, <4>1, <1>7 DEF RevokeRefresh, Live
      <4>3. Owing' \subseteq Owing \cup {p}
        BY <2>6 DEF RevokeRefresh, Owing, TypeOK, Idle
      <4>4. /\ IsFiniteSet(Live \ {r}) /\ IsFiniteSet(Owing \cup {p})
            /\ Cardinality(Live \ {r}) = Cardinality(Live) - 1
            /\ \/ Cardinality(Owing \cup {p}) = Cardinality(Owing)
               \/ Cardinality(Owing \cup {p}) = Cardinality(Owing) + 1
        BY <1>1, <4>1, FS_AddElement, FS_RemoveElement
      <4>5. Cardinality(Live \ {r}) + Cardinality(Owing \cup {p}) <= opened'
        BY <1>1, <3>1, <4>4
      <4>6. QED
        BY <4>2, <4>3, <4>4, <4>5, <3>1, <1>1, <1>2
    <3>3. CASE Claimable(refresh_tokens, req[p].id) = {}
      BY <2>2, <2>6, <3>1, <3>3, <1>5 DEF RevokeRefresh
    <3>4. QED
      BY <3>2, <3>3
  <2>7. ASSUME req[p].pc \in Issuing, \A x \in Proc : req'[x].op = req[x].op,
               \A x \in Proc : x = p \/ req'[x].pc = req[x].pc,
               opened' = opened, Live' \subseteq Live
        PROVE  RotationInv'
    <3>1. Owing' \subseteq Owing
      BY <2>7 DEF Owing
    <3>2. QED
      BY <2>7, <3>1, <1>3
  <2>8. \A x \in Proc : req[x] \in Request
    BY DEF TypeOK
  <2>9. CASE PruneTokens(p)
    <3>1. /\ \A x \in Proc : req'[x].op = req[x].op
          /\ \A x \in Proc : x = p \/ req'[x].pc = req[x].pc
      BY <2>8, <2>9 DEF PruneTokens, TypeOK, Request
    <3>2. QED
      BY <2>7, <2>9, <3>1, <1>5 DEF PruneTokens, history, Issuing
  <2>10. CASE PruneRefresh(p)
    <3>1. /\ \A x \in Proc : req'[x].op = req[x].op
          /\ \A x \in Proc : x = p \/ req'[x].pc = req[x].pc
      BY <2>8, <2>10 DEF PruneRefresh, TypeOK, Request
    <3>2. Live' \subseteq Live
      BY <2>10, <1>7 DEF PruneRefresh, Live
    <3>3. QED
      BY <2>7, <2>10, <3>1, <3>2 DEF PruneRefresh, history, Issuing
  <2>11. CASE InsertToken(p)
    <3>1. /\ \A x \in Proc : req'[x].op = req[x].op
          /\ \A x \in Proc : x = p \/ req'[x].pc = req[x].pc
      BY <2>8, <2>11 DEF InsertToken, TypeOK, Request
    <3>2. QED
      BY <2>7, <2>11, <3>1, <1>5 DEF InsertToken, history, Issuing
  <2>12. CASE InsertRefresh(p)
    <3>1. PICK row : refresh_tokens' = refresh_tokens \cup {row}
      BY <2>12 DEF InsertRefresh
    <3>2. /\ Live' \subseteq Live \cup {row} /\ Owing' \subseteq Owing \ {p}
      <4>1. req' = [req EXCEPT ![p] = Idle]
        BY <2>12 DEF InsertRefresh
      <4>2. QED
        BY <3>1, <4>1, <1>4, <1>6 DEF Live
    <3>3. /\ IsFiniteSet(Live \cup {row}) /\ IsFiniteSet(Owing \ {p})
          /\ \/ Cardinality(Live \cup {row}) = Cardinality(Live)
             \/ Cardinality(Live \cup {row}) = Cardinality(Live) + 1
          /\ Cardinality(Owing \ {p}) =
                IF p \in Owing THEN Cardinality(Owing) - 1 ELSE Cardinality(Owing)
      BY <1>1, FS_AddElement, FS_RemoveElement
    <3>4. req[p].op = "refresh" => p \in Owing
      BY <2>12 DEF InsertRefresh, Owing, Issuing
    <3>5. /\ req[p].op \in {"login", "refresh"}
          /\ opened' = IF req[p].op = "login" THEN opened + 1 ELSE opened
      BY <2>12 DEF InsertRefresh, SlotInv, SlotOK, Issuing
    <3>6. /\ opened' \in Nat
          /\ Cardinality(Live \cup {row}) + Cardinality(Owing \ {p}) <= opened'
      BY <1>1, <3>3, <3>4, <3>5
    <3>7. QED
      BY <3>2, <3>3, <3>6, <1>2
  <2>13. QED
    BY <1>8, <2>1, <2>3, <2>4, <2>5, <2>6, <2>9, <2>10, <2>11, <2>12 DEF Handler
<1>9. ASSUME NEW n \in Nick, Operator(n) PROVE RotationInv'
  <2>1. CASE ResetRevoke(n)
    <3>1. Live' \subseteq Live /\ opened' = opened
      BY <2>1, <1>7 DEF ResetRevoke, Live
    <3>2. \A p \in Proc : req'[p].op = req[p].op /\ req'[p].pc = req[p].pc
      BY <2>1 DEF ResetRevoke, TypeOK, Request
    <3>3. QED
      BY <3>1, <3>2, <1>3 DEF Owing
  <2>2. CASE CliLogin(n)
    BY <2>2, <1>3, <1>5 DEF CliLogin, Owing
  <2>3. CASE Register(n) \/ ResetPassword(n) \/ ResetAbort(n)
    BY <2>3, <1>3, <1>5
    DEF Register, ResetPassword, ResetAbort, database, history, Owing
  <2>4. QED
    BY <1>9, <2>1, <2>2, <2>3 DEF Operator
<1>10. CASE Tick \/ UNCHANGED vars
  BY <1>10, <1>3, <1>5 DEF Tick, vars, database, history, Owing
<1>11. QED
  BY <1>8, <1>9, <1>10 DEF Next

(* The invariant holds initially and every step keeps it.                  *)
LEMMA InitInv == Init => IInv
<1> SUFFICES ASSUME Init PROVE IInv
  OBVIOUS
<1>1. TypeOK
  BY IdleType, AuthAssumption DEF Init, TypeOK, Version
<1>2. \A p \in Proc : req[p] = Idle
  BY DEF Init
<1>3. SlotInv /\ HeldInv
  BY <1>2, AuthAssumption DEF Init, SlotInv, SlotOK, HeldInv, HeldOK, Idle, Issuing
<1>4. TablesInv /\ ClaimInv
  BY DEF Init, TablesInv, RowsInv, ClaimInv, SingleUseUnlessTangled
<1>5. ResetInv
  BY <1>2 DEF Init, ResetInv, ResetEndsSessionsUnlessLate, Idle
<1>6. HandedInv
  BY <1>2 DEF Init, HandedInv, OwedOK, Idle
<1>7. RotationInv
  <2>1. Live = {} /\ Owing = {}
    BY <1>2 DEF Init, Live, Owing, Idle
  <2>2. QED
    BY <2>1, FS_EmptySet DEF Init, RotationInv, RotationNeverForks
<1>8. QED
  BY <1>1, <1>3, <1>4, <1>5, <1>6, <1>7 DEF IInv

(* The step lemmas above, together: no step falsifies a conjunct of IInv.  *)
LEMMA StepInv == IInv /\ [Next]_vars => IInv'
  BY TypeStep, SlotStep, TablesStep, HeldStep, ClaimStep, ResetStep,
     HandedStep, RotationStep
  DEF IInv

(* The inductive invariant holds in every reachable state.                *)
THEOREM Inductive == Spec => []IInv
  BY InitInv, StepInv, PTL DEF Spec

(* Every reachable state is well-typed: in particular the two tables hold  *)
(* rows of registered shape and each handler slot is in a known step.      *)
THEOREM TypeCorrect == Spec => []TypeOK
<1>1. IInv => TypeOK
  BY DEF IInv
<1>2. QED
  BY <1>1, Inductive, PTL

(* consume_token and revoke_refresh (db.rs): however the handlers of any   *)
(* number of nicks interleave, with aborted ones, prunes and the command   *)
(* line, a secret is honoured twice only if its row id was reused while a  *)
(* handler held it.                                                        *)
THEOREM CredentialSingleUse == Spec => []SingleUseUnlessTangled
<1>1. IInv => SingleUseUnlessTangled
  BY DEF IInv, ClaimInv
<1>2. QED
  BY <1>1, Inductive, PTL

(* `campfire-auth reset' (main.rs): a session opened with an earlier       *)
(* password survives a completed reset only when a handler that was        *)
(* running at that moment inserted it afterwards.                          *)
THEOREM ResetEndsOldSessions == Spec => []ResetEndsSessionsUnlessLate
<1>1. IInv => ResetEndsSessionsUnlessLate
  BY DEF IInv, ResetInv
<1>2. QED
  BY <1>1, Inductive, PTL

(* The 200 responses of login and refresh, and `campfire-auth login'       *)
(* (api.rs, main.rs): what a caller was given has its live row until it    *)
(* expires or is used, whatever other handlers, prunes, failures and       *)
(* resets of other nicks do, unless the id of its row was reused.          *)
THEOREM HandedCredentialKept == Spec => []HandedCredentialStaysGood
<1>1. ASSUME IInv PROVE HandedCredentialStaysGood
  <2>1. \A rows, n, s, e :
            clock < e /\ Kept(rows, n, s, e) => Matches(rows, n, s, clock) # {}
    <3>1. ASSUME NEW rows, NEW n, NEW s, NEW e, clock < e, Kept(rows, n, s, e)
          PROVE  Matches(rows, n, s, clock) # {}
      <4>1. PICK r \in rows : r.nick = n /\ r.secret = s /\ r.expires = e
                              /\ ~r.spent
        BY <3>1 DEF Kept
      <4>2. r.expires > clock
        BY <3>1, <4>1
      <4>3. r \in Matches(rows, n, s, clock)
        BY <4>1, <4>2 DEF Matches, LiveAt
      <4>4. QED
        BY <4>3
    <3>2. QED
      BY <3>1
  <2>2. \A c \in handed : HandedOK(c) /\ c.kind \in {"game", "refresh"}
    BY <1>1 DEF IInv, HandedInv, TypeOK, Credential
  <2>3. QED
    BY <2>1, <2>2 DEF HandedCredentialStaysGood, HandedOK, Good
<1>2. QED
  BY <1>1, Inductive, PTL

(* The refresh handler (api.rs): however rotations, logouts, prunes and    *)
(* resets interleave, and even where row ids are reused, one login never   *)
(* becomes two live sessions.                                              *)
THEOREM RotationKeepsCount == Spec => []RotationNeverForks
<1>1. IInv => RotationNeverForks
  BY DEF IInv, RotationInv
<1>2. QED
  BY <1>1, Inductive, PTL

=============================================================================
