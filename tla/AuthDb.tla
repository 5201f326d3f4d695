------------------------------- MODULE AuthDb -------------------------------
(***************************************************************************)
(* The two credential tables of the accounts database                      *)
(* (auth-service/src/db.rs): "tokens" (12 h game tokens) and               *)
(* "refresh_tokens" (30 day refresh tokens).  Every method of Db runs one  *)
(* SQL statement while it holds the connection mutex, so each operator     *)
(* below is one atomic step of whoever calls it.  The tables have the same *)
(* shape and the same statements, so one operator stands for both:         *)
(*                                                                         *)
(*   id       INTEGER PRIMARY KEY: without AUTOINCREMENT, SQLite gives a   *)
(*            new row the largest id present plus one, so the id of a      *)
(*            deleted last row is used again                               *)
(*   nick     the owner (user_id: a user row is never deleted)             *)
(*   secret   the value whose argon2 hash is stored; generate_token never  *)
(*            repeats one, and verify_secret accepts exactly that value    *)
(*   expires  expires_at                                                   *)
(*   spent    consumed_at / revoked_at IS NOT NULL                         *)
(***************************************************************************)
EXTENDS Integers, FiniteSetsExt

(* The rowid SQLite picks for an INSERT.                                   *)
NextRowId(rows) ==
    IF rows = {} THEN 1 ELSE 1 + Max({r.id : r \in rows})

(* A row is live at `now' when the WHERE clause of candidate_tokens and    *)
(* candidate_refresh_tokens selects it.                                    *)
LiveAt(r, now) == ~r.spent /\ r.expires > now

(* candidate_tokens followed by the verify_secret loop over its result: at *)
(* most one selected row carries the presented secret.                     *)
Matches(rows, nick, secret, now) ==
    {r \in rows : r.nick = nick /\ LiveAt(r, now) /\ r.secret = secret}

(* Mutated forms of the statements below, for the mutation runs: the swap  *)
(* without its IS NULL test, and the update without its WHERE user_id.     *)
ClaimableTwice(rows, id) == {r \in rows : r.id = id}

RevokeAllNicks(rows, nick) == {[r EXCEPT !.spent = TRUE] : r \in rows}

(* UPDATE ... WHERE id = ? AND consumed_at IS NULL: the rows it changes.   *)
Claimable(rows, id) == {r \in rows : r.id = id /\ ~r.spent}

(* The table after that UPDATE.                                            *)
Claim(rows, id) ==
    {IF r.id = id THEN [r EXCEPT !.spent = TRUE] ELSE r : r \in rows}

(* revoke_all_refresh_for_user.                                            *)
RevokeAll(rows, nick) ==
    {IF r.nick = nick THEN [r EXCEPT !.spent = TRUE] ELSE r : r \in rows}

(* Mutated form: the comparison is reversed.                               *)
PruneReversed(rows, now) == {r \in rows : ~r.spent /\ r.expires <= now}

(* prune_tokens / prune_refresh: delete what is spent or past its TTL.  A  *)
(* row that expires exactly now is no candidate and is not deleted either. *)
Prune(rows, now) == {r \in rows : ~r.spent /\ r.expires >= now}

=============================================================================
