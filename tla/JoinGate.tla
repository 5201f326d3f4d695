------------------------------ MODULE JoinGate ------------------------------
(***************************************************************************)
(* ServerAuthHandler of the campfire-auth mod: the handlers that run on    *)
(* the server's main thread (logged in, logged out, response packet,       *)
(* server tick, validation result), the HTTP thread each accepted response *)
(* starts, and of Minecraft what they rely on:                             *)
(*                                                                         *)
(*   - in offline mode the UUID is a function of the nick, so a player is  *)
(*     one UUID, and at most one connection of a UUID is online: a second  *)
(*     login waits until the first is gone;                                *)
(*   - disconnect() only closes the channel: the player stays in the list  *)
(*     until a later tick notices and fires the logged-out event;          *)
(*   - the player's data, game type included, is written at logout (after  *)
(*     that event), by the autosave and when the server stops, and read    *)
(*     back at the next login (force-gamemode=false);                      *)
(*   - a response packet is handled before the login of a later connection *)
(*     completes (the Forge handshake takes several round trips), while an *)
(*     HTTP result may arrive at any time.                                 *)
(*                                                                         *)
(* Response packets carry nothing but constants of the client process, so  *)
(* delivery is an action of its own: late, repeated or never.  Time is one *)
(* bit per pending join: whether it is older than TIMEOUT_MILLIS.  The     *)
(* position a join saves and restores travels with the game type.          *)
(***************************************************************************)
EXTENDS Integers, FiniteSets

CONSTANTS
    Player,      \* nicks that join
    NoEntry,     \* PENDING has no entry
    MaxJoins,    \* bound: joins of a player
    MaxTokens    \* bound: game tokens a player obtains

VARIABLES
    conn,        \* conn[p]: "offline", "online" or "closing" (disconnected)
    gameType,    \* gameType[p] of the connected player
    saved,       \* saved[p]: the game type in the player's data file
    PENDING,     \* PENDING[p]: the entry of p's UUID
    token,       \* token[p]: the token p's client process holds, 0: none
    spent,       \* <<p, t>>: tokens /validate has answered 200 for
    calls,       \* validate threads that have not delivered their result
    joins,       \* joins[p]: how often p has joined
    released,    \* released[p]: this join of p was let in
    entered,     \* history: the calls that let somebody in, and the join
    asked,       \* history: asked[p] calls were started for this join
    savedFrozen  \* history: p's data was written while p was held

game    == <<conn, gameType, saved>>
history == <<entered, asked, savedFrozen>>
vars    == <<game, PENDING, token, spent, calls, joins, released, history>>

GameType == {"survival", "spectator"}
Token    == 1..MaxTokens
Entry    == [overdue : BOOLEAN, previousGameType : GameType,
             validating : BOOLEAN]
Call     == [player : Player, join : 1..MaxJoins, token : 0..MaxTokens,
             status : {"sent", "ok", "bad"}]

ASSUME GateAssumption ==
    /\ MaxJoins \in Nat /\ MaxTokens \in Nat
    /\ NoEntry \notin Entry

-----------------------------------------------------------------------------
Init ==
    /\ conn = [p \in Player |-> "offline"]
    /\ gameType = [p \in Player |-> "survival"]
    /\ saved = [p \in Player |-> "survival"]
    /\ PENDING = [p \in Player |-> NoEntry]
    /\ token = [p \in Player |-> 0]
    /\ spent = {}
    /\ calls = {}
    /\ joins = [p \in Player |-> 0]
    /\ released = [p \in Player |-> FALSE]
    /\ entered = {}
    /\ asked = [p \in Player |-> 0]
    /\ savedFrozen = [p \in Player |-> FALSE]

(* The launcher starts a client with a fresh token.                        *)
Launch(p) ==
    /\ conn[p] = "offline"
    /\ token[p] < MaxTokens
    /\ token' = [token EXCEPT ![p] = @ + 1]
    /\ UNCHANGED <<game, PENDING, spent, calls, joins, released, history>>

(* Mutated form: the event comes before the game type is read.             *)
LoggedInEarly(p) ==
    /\ conn[p] = "offline"
    /\ joins[p] < MaxJoins
    /\ conn' = [conn EXCEPT ![p] = "online"]
    /\ joins' = [joins EXCEPT ![p] = @ + 1]
    /\ PENDING' = [PENDING EXCEPT ![p] =
           [overdue |-> FALSE, previousGameType |-> "not_set",
            validating |-> FALSE]]
    /\ gameType' = [gameType EXCEPT ![p] = "spectator"]
    /\ released' = [released EXCEPT ![p] = FALSE]
    /\ asked' = [asked EXCEPT ![p] = 0]
    /\ UNCHANGED <<saved, token, spent, calls, entered, savedFrozen>>

(* onPlayerLoggedIn, after the server has read the player's data.          *)
LoggedIn(p) ==
    /\ conn[p] = "offline"
    /\ joins[p] < MaxJoins
    /\ conn' = [conn EXCEPT ![p] = "online"]
    /\ joins' = [joins EXCEPT ![p] = @ + 1]
    /\ PENDING' = [PENDING EXCEPT ![p] =
           [overdue |-> FALSE, previousGameType |-> saved[p],
            validating |-> FALSE]]
    /\ gameType' = [gameType EXCEPT ![p] = "spectator"]
    /\ released' = [released EXCEPT ![p] = FALSE]
    /\ asked' = [asked EXCEPT ![p] = 0]
    /\ UNCHANGED <<saved, token, spent, calls, entered, savedFrozen>>

(* The server writes the data of the players in P.                         *)
Save(P) ==
    /\ saved' = [p \in Player |-> IF p \in P THEN gameType[p] ELSE saved[p]]
    /\ savedFrozen' = [p \in Player |->
           savedFrozen[p] \/ (p \in P /\ ~released[p])]

Connected == {p \in Player : conn[p] # "offline"}

(* Mutated form: a disconnect leaves the entry.                            *)
LoggedOutLeaky(p) ==
    /\ conn[p] # "offline"
    /\ conn' = [conn EXCEPT ![p] = "offline"]
    /\ Save({p})
    /\ released' = [released EXCEPT ![p] = FALSE]
    /\ UNCHANGED <<gameType, PENDING, token, spent, calls, joins, entered,
                   asked>>

(* onPlayerLoggedOut, then Minecraft's own logout: the client quit, its    *)
(* connection broke, or the server disconnected it.                        *)
LoggedOut(p) ==
    /\ conn[p] # "offline"
    /\ PENDING' = [PENDING EXCEPT ![p] = NoEntry]
    /\ conn' = [conn EXCEPT ![p] = "offline"]
    /\ Save({p})
    /\ released' = [released EXCEPT ![p] = FALSE]
    /\ UNCHANGED <<gameType, token, spent, calls, joins, entered, asked>>

(* kick(): remove the entries of the players in P and disconnect them.     *)
Kick(P) ==
    /\ PENDING' = [p \in Player |-> IF p \in P THEN NoEntry ELSE PENDING[p]]
    /\ conn' = [p \in Player |->
           IF p \in P /\ conn[p] = "online" THEN "closing" ELSE conn[p]]

(* Mutated form, without the guard of WR-02.                               *)
UnansweredAlways(p) == PENDING[p] # NoEntry

(* The join of p has not had its call yet.                                 *)
Unanswered(p) == PENDING[p] # NoEntry /\ ~PENDING[p].validating

(* onResponseReceived: already resolved, or a call is in flight.           *)
ResponseIgnored(p) ==
    /\ joins[p] > 0
    /\ ~Unanswered(p)
    /\ UNCHANGED vars

(* The client was started for another nick.                                *)
ResponseMismatch(p) ==
    /\ Unanswered(p)
    /\ Kick({p})
    /\ UNCHANGED <<gameType, saved, token, spent, calls, joins, released,
                   history>>

ResponseAccepted(p) ==
    /\ Unanswered(p)
    /\ PENDING' = [PENDING EXCEPT ![p] = [@ EXCEPT !.validating = TRUE]]
    /\ calls' = calls \cup {[player |-> p, join |-> joins[p],
                             token |-> token[p], status |-> "sent"]}
    /\ asked' = [asked EXCEPT ![p] = @ + 1]
    /\ UNCHANGED <<game, token, spent, joins, released, entered, savedFrozen>>

(* The call now has another status.                                        *)
Answer(c, status) == calls' = (calls \ {c}) \cup {[c EXCEPT !.status = status]}

(* campfire-auth consumes the token and answers 200.                       *)
Accept(c) ==
    /\ c.status = "sent"
    /\ c.token > 0 /\ <<c.player, c.token>> \notin spent
    /\ spent' = spent \cup {<<c.player, c.token>>}
    /\ Answer(c, "ok")
    /\ UNCHANGED <<game, PENDING, token, joins, released, history>>

(* Mutated form: an error counts as an answer 200.                         *)
DenyOpen(c) ==
    /\ c.status = "sent"
    /\ Answer(c, "ok")
    /\ UNCHANGED <<game, PENDING, token, spent, joins, released, history>>

(* 401, another status, a connection refused, a timeout: before the token  *)
(* is consumed, or after it when the answer is not read in time.           *)
Deny(c) ==
    /\ c.status \in {"sent", "ok"}
    /\ Answer(c, "bad")
    /\ UNCHANGED <<game, PENDING, token, spent, joins, released, history>>

(* applyValidationResult, on the main thread: the entry is looked up by    *)
(* UUID alone.                                                             *)
ResultIgnored(c) ==
    /\ c.status # "sent"
    /\ PENDING[c.player] = NoEntry
    /\ calls' = calls \ {c}
    /\ UNCHANGED <<game, PENDING, token, spent, joins, released, history>>

(* Mutated forms: the result starts true; the game type is not restored.   *)
ResultAllowByDefault(c) ==
    LET p == c.player
    IN  /\ c.status # "sent"
        /\ PENDING[p] # NoEntry
        /\ PENDING' = [PENDING EXCEPT ![p] = NoEntry]
        /\ gameType' = [gameType EXCEPT ![p] = PENDING[p].previousGameType]
        /\ released' = [released EXCEPT ![p] = TRUE]
        /\ entered' = entered \cup {[call |-> c, join |-> joins[p]]}
        /\ calls' = calls \ {c}
        /\ UNCHANGED <<conn, saved, token, spent, joins, asked, savedFrozen>>

ResultAllowFrozen(c) ==
    LET p == c.player
    IN  /\ c.status = "ok"
        /\ PENDING[p] # NoEntry
        /\ PENDING' = [PENDING EXCEPT ![p] = NoEntry]
        /\ released' = [released EXCEPT ![p] = TRUE]
        /\ entered' = entered \cup {[call |-> c, join |-> joins[p]]}
        /\ calls' = calls \ {c}
        /\ UNCHANGED <<game, token, spent, joins, asked, savedFrozen>>

ResultAllow(c) ==
    LET p == c.player
    IN  /\ c.status = "ok"
        /\ PENDING[p] # NoEntry
        /\ PENDING' = [PENDING EXCEPT ![p] = NoEntry]
        /\ gameType' = [gameType EXCEPT ![p] = PENDING[p].previousGameType]
        /\ released' = [released EXCEPT ![p] = TRUE]
        /\ entered' = entered \cup {[call |-> c, join |-> joins[p]]}
        /\ calls' = calls \ {c}
        /\ UNCHANGED <<conn, saved, token, spent, joins, asked, savedFrozen>>

ResultKick(c) ==
    /\ c.status = "bad"
    /\ PENDING[c.player] # NoEntry
    /\ Kick({c.player})
    /\ calls' = calls \ {c}
    /\ UNCHANGED <<gameType, saved, token, spent, joins, released, history>>

(* onServerTick: everybody who is overdue is kicked.                       *)
Overdue == {p \in Player : PENDING[p] # NoEntry /\ PENDING[p].overdue}

(* Mutated form: a join whose call is running is not timed out.            *)
ServerTickPatient ==
    LET due == {p \in Overdue : ~PENDING[p].validating}
    IN  /\ due # {}
        /\ Kick(due)
        /\ UNCHANGED <<gameType, saved, token, spent, calls, joins, released,
                       history>>

ServerTick ==
    /\ Overdue # {}
    /\ Kick(Overdue)
    /\ UNCHANGED <<gameType, saved, token, spent, calls, joins, released,
                   history>>

(* Five seconds have passed since the join.                                *)
Elapse(p) ==
    /\ PENDING[p] # NoEntry
    /\ ~PENDING[p].overdue
    /\ PENDING' = [PENDING EXCEPT ![p] = [@ EXCEPT !.overdue = TRUE]]
    /\ UNCHANGED <<game, token, spent, calls, joins, released, history>>

Autosave ==
    /\ Connected # {}
    /\ Save(Connected)
    /\ UNCHANGED <<conn, gameType, PENDING, token, spent, calls, joins,
                   released, entered, asked>>

(* The process ends with PENDING and the validate threads in it.           *)
Gone ==
    /\ conn' = [p \in Player |-> "offline"]
    /\ PENDING' = [p \in Player |-> NoEntry]
    /\ calls' = {}
    /\ released' = [p \in Player |-> FALSE]
    /\ UNCHANGED <<gameType, token, spent, joins, entered, asked>>

Restart == Gone /\ Save(Connected)

Crash == Gone /\ UNCHANGED <<saved, savedFrozen>>

Serve(p) ==
    \/ Launch(p) \/ LoggedIn(p) \/ LoggedOut(p)
    \/ ResponseIgnored(p) \/ ResponseMismatch(p) \/ ResponseAccepted(p)
    \/ Elapse(p)

Result(c) ==
    \/ Accept(c) \/ Deny(c)
    \/ ResultIgnored(c) \/ ResultAllow(c) \/ ResultKick(c)

Next ==
    \/ \E p \in Player : Serve(p)
    \/ \E c \in calls : Result(c)
    \/ ServerTick \/ Autosave \/ Restart \/ Crash

(* The server ticks, time passes, and a closed channel is noticed.  Nothing*)
(* is assumed of clients and of campfire-auth.                             *)
Fairness ==
    /\ WF_vars(ServerTick)
    /\ \A p \in Player :
           /\ WF_vars(Elapse(p))
           /\ WF_vars(conn[p] = "closing" /\ LoggedOut(p))

Spec == Init /\ [][Next]_vars

FairSpec == Spec /\ Fairness

-----------------------------------------------------------------------------
TypeOK ==
    /\ conn \in [Player -> {"offline", "online", "closing"}]
    /\ gameType \in [Player -> GameType]
    /\ saved \in [Player -> GameType]
    /\ PENDING \in [Player -> Entry \cup {NoEntry}]
    /\ token \in [Player -> 0..MaxTokens]
    /\ spent \subseteq Player \X Token
    /\ calls \subseteq Call
    /\ joins \in [Player -> 0..MaxJoins]
    /\ released \in [Player -> BOOLEAN]
    /\ entered \subseteq [call : Call, join : 1..MaxJoins]
    /\ asked \in [Player -> Nat]
    /\ savedFrozen \in [Player -> BOOLEAN]

(* A player online is held, as a spectator with an entry in PENDING, until *)
(* the join is resolved; and PENDING has no other entries ("A disconnect   *)
(* during validation must not leak a pending entry").                      *)
HeldUntilResolved ==
    \A p \in Player :
        /\ PENDING[p] # NoEntry <=> conn[p] = "online" /\ ~released[p]
        /\ PENDING[p] # NoEntry => gameType[p] = "spectator"

(* "The player is released only on an explicit HTTP 200": whoever is in    *)
(* was let in by a token of that nick that /validate consumed, and one     *)
(* token lets in one join, whatever calls of earlier joins still run.      *)
OneReleasePerToken ==
    /\ \A e \in entered :
           /\ <<e.call.player, e.call.token>> \in spent
           /\ \A f \in entered :
                  e.call.player = f.call.player /\ e.call.token = f.call.token
                  => e = f
    /\ \A p \in Player : released[p] =>
           \E e \in entered : e.call.player = p /\ e.join = joins[p]

(* WR-02: further response packets of a join start no second call.         *)
OneCallPerJoin == \A p \in Player : asked[p] <= 1

(* A join must not "resurrect a stale freeze for a later reconnect": a     *)
(* player who was let in plays in the game type of before the first join.  *)
NoStaleFreeze == \A p \in Player : released[p] => gameType[p] = "survival"

(* What the code guarantees: only if the player's data was written during  *)
(* a freeze does a later join give the freeze back.                        *)
NoStaleFreezeUnlessSaved ==
    \A p \in Player :
        released[p] => gameType[p] = "survival" \/ savedFrozen[p]

(* Every join is resolved: nobody stays held.                              *)
EveryJoinResolved ==
    \A p \in Player :
        conn[p] = "online" /\ ~released[p]
            ~> conn[p] = "offline" \/ released[p]

-----------------------------------------------------------------------------
(* The inductive invariant behind the theorems of JoinGateTheorems.        *)

(* Only somebody connected was let in.                                     *)
ReleasedInv == \A p \in Player : released[p] => conn[p] # "offline"

(* Whoever is connected has joined.                                        *)
JoinedInv == \A p \in Player : conn[p] # "offline" => joins[p] > 0

(* A join has at most one call, and none before its response is accepted.  *)
CallsInv ==
    /\ \A c \in calls : c.join <= joins[c.player]
    /\ \A p \in Player : Unanswered(p) =>
           asked[p] = 0 /\ \A c \in calls : c.player = p => c.join < joins[p]
    /\ \A c, d \in calls : c.player = d.player /\ c.join = d.join => c = d
    /\ OneCallPerJoin

(* A call answered 200 owns its token: nobody else was or will be let in   *)
(* with it.                                                                *)
TokenInv ==
    /\ \A c \in calls : c.status = "ok" =>
           /\ <<c.player, c.token>> \in spent
           /\ \A e \in entered : <<e.call.player, e.call.token>> # <<c.player, c.token>>
           /\ \A d \in calls : d.status = "ok" /\ d.player = c.player
                               /\ d.token = c.token => d = c
    /\ OneReleasePerToken

(* Without a save during a freeze, every record of the game type is sound. *)
FreezeInv ==
    \A p \in Player : ~savedFrozen[p] =>
        /\ saved[p] = "survival"
        /\ PENDING[p] # NoEntry => PENDING[p].previousGameType = "survival"
        /\ released[p] => gameType[p] = "survival"

GInv == /\ TypeOK /\ HeldUntilResolved /\ ReleasedInv /\ JoinedInv
        /\ CallsInv /\ TokenInv /\ FreezeInv

-----------------------------------------------------------------------------
(* The gate implements Admission: an answer 200 counts as granted until    *)
(* its thread has delivered it.                                            *)
Place(p) == IF conn[p] = "offline" THEN "out"
            ELSE IF released[p] THEN "in" ELSE "held"

OkCalls(p) == {c \in calls : c.player = p /\ c.status = "ok"}

Granted(p) == Cardinality(OkCalls(p))

Policy == INSTANCE Admission WITH place   <- [p \in Player |-> Place(p)],
                                  granted <- [p \in Player |-> Granted(p)]

ImplementsAdmission == Policy!Spec

=============================================================================
