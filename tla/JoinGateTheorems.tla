--------------------------- MODULE JoinGateTheorems -------------------------
(* Proofs about JoinGate, for every set of players and every bound on      *)
(* their joins and tokens.                                                 *)
EXTENDS JoinGate, FiniteSetTheorems, TLAPS

(* Marking an entry of PENDING gives an entry.                             *)
LEMMA EntryFacts ==
    ASSUME TypeOK, NEW p \in Player, PENDING[p] # NoEntry
    PROVE  LET e == PENDING[p]
               v == [e EXCEPT !.validating = TRUE]
               o == [e EXCEPT !.overdue = TRUE]
           IN  /\ e \in Entry /\ v \in Entry /\ o \in Entry
               /\ v # NoEntry /\ o # NoEntry
               /\ v.validating /\ v.previousGameType = e.previousGameType
               /\ o.validating = e.validating
               /\ o.previousGameType = e.previousGameType
<1>1. PENDING[p] \in Entry
  BY DEF TypeOK
<1>2. QED
  BY <1>1, GateAssumption DEF Entry

(* The entry of a new join.                                                *)
LEMMA NewEntry ==
    ASSUME TypeOK, NEW p \in Player
    PROVE  LET e == [overdue |-> FALSE, previousGameType |-> saved[p],
                     validating |-> FALSE]
           IN  e \in Entry /\ e # NoEntry
<1> DEFINE e == [overdue |-> FALSE, previousGameType |-> saved[p],
                 validating |-> FALSE]
<1>1. saved[p] \in GameType
  BY DEF TypeOK
<1>2. e \in Entry
  BY <1>1 DEF Entry
<1>3. e # NoEntry
  BY <1>2, GateAssumption
<1>4. QED
  BY <1>2, <1>3

(* A new call, and a call whose status changes.                            *)
LEMMA CallFacts ==
    ASSUME TypeOK
    PROVE  /\ \A p \in Player : joins[p] > 0 =>
                  [player |-> p, join |-> joins[p], token |-> token[p],
                   status |-> "sent"] \in Call
           /\ \A c \in calls : \A s \in {"sent", "ok", "bad"} :
                  LET d == [c EXCEPT !.status = s]
                  IN  /\ d \in Call /\ d.player = c.player
                      /\ d.join = c.join /\ d.token = c.token
                      /\ d.status = s
<1>1. \A p \in Player : joins[p] > 0 =>
          joins[p] \in 1..MaxJoins /\ token[p] \in 0..MaxTokens
  BY GateAssumption DEF TypeOK
<1>2. calls \subseteq Call
  BY DEF TypeOK
<1>3. ASSUME NEW c \in Call, NEW s \in {"sent", "ok", "bad"}
      PROVE  LET d == [c EXCEPT !.status = s]
             IN  /\ d \in Call /\ d.player = c.player
                 /\ d.join = c.join /\ d.token = c.token
                 /\ d.status = s
  BY DEF Call
<1>4. \A p \in Player : joins[p] > 0 =>
          [player |-> p, join |-> joins[p], token |-> token[p],
           status |-> "sent"] \in Call
  BY <1>1 DEF Call
<1>5. QED
  BY <1>2, <1>3, <1>4

(* Whoever is connected has joined.                                        *)
LEMMA JoinedStep ==
    ASSUME TypeOK, JoinedInv, [Next]_vars
    PROVE  JoinedInv'
<1> USE DEF JoinedInv
<1>1. ASSUME NEW p \in Player, Serve(p) PROVE JoinedInv'
  BY <1>1, GateAssumption
  DEF TypeOK, Serve, Launch, LoggedIn, LoggedOut, ResponseIgnored,
      ResponseMismatch, ResponseAccepted, Elapse, Kick, Save, game, history, vars
<1>2. ASSUME NEW c \in calls, Result(c) PROVE JoinedInv'
  BY <1>2
  DEF TypeOK, Result, Accept, Deny, ResultIgnored, ResultAllow, ResultKick,
      Kick, game, history
<1>3. CASE ServerTick \/ Autosave \/ Restart \/ Crash
  BY <1>3
  DEF TypeOK, ServerTick, Autosave, Restart, Crash, Gone, Kick, Save
<1>4. CASE UNCHANGED vars
  BY <1>4 DEF vars, game, history
<1>5. QED
  BY <1>1, <1>2, <1>3, <1>4 DEF Next

(* Saving writes game types.                                               *)
LEMMA SaveType ==
    ASSUME TypeOK, NEW P \in SUBSET Player, Save(P)
    PROVE  saved' \in [Player -> GameType] /\ savedFrozen' \in [Player -> BOOLEAN]
  BY DEF TypeOK, Save

(* A kick removes entries and closes connections.                          *)
LEMMA KickType ==
    ASSUME TypeOK, NEW P \in SUBSET Player, Kick(P)
    PROVE  /\ PENDING' \in [Player -> Entry \cup {NoEntry}]
           /\ conn' \in [Player -> {"offline", "online", "closing"}]
  BY DEF TypeOK, Kick

(* Every step preserves the types.                                         *)
LEMMA TypeStep ==
    ASSUME TypeOK, JoinedInv, HeldUntilResolved, [Next]_vars
    PROVE  TypeOK'
<1>1. ASSUME NEW p \in Player, Serve(p) PROVE TypeOK'
  <2>1. CASE Launch(p)
    BY <2>1, GateAssumption DEF Launch, TypeOK, game, history
  <2>2. CASE LoggedIn(p)
    <3>1. joins[p] + 1 \in 0..MaxJoins
      BY <2>2, GateAssumption DEF LoggedIn, TypeOK
    <3>2. PENDING' \in [Player -> Entry \cup {NoEntry}]
      BY <2>2, NewEntry DEF LoggedIn, TypeOK
    <3>3. QED
      BY <2>2, <3>1, <3>2 DEF LoggedIn, TypeOK, GameType
  <2>3. CASE LoggedOut(p)
    BY <2>3, SaveType DEF LoggedOut, TypeOK
  <2>4. CASE ResponseIgnored(p)
    BY <2>4 DEF ResponseIgnored, TypeOK, vars, game, history
  <2>5. CASE ResponseMismatch(p)
    BY <2>5, KickType DEF ResponseMismatch, TypeOK, history
  <2>6. CASE ResponseAccepted(p)
    <3>1. PENDING[p] # NoEntry /\ joins[p] > 0
      BY <2>6 DEF ResponseAccepted, Unanswered, JoinedInv, HeldUntilResolved
    <3>2. PENDING' \in [Player -> Entry \cup {NoEntry}]
      BY <2>6, <3>1, EntryFacts DEF ResponseAccepted, TypeOK
    <3>3. calls' \subseteq Call
      BY <2>6, <3>1, CallFacts DEF ResponseAccepted, TypeOK
    <3>4. QED
      BY <2>6, <3>2, <3>3 DEF ResponseAccepted, TypeOK, game
  <2>7. CASE Elapse(p)
    <3>1. PENDING' \in [Player -> Entry \cup {NoEntry}]
      BY <2>7, EntryFacts DEF Elapse, TypeOK
    <3>2. QED
      BY <2>7, <3>1 DEF Elapse, TypeOK, game, history
  <2>8. QED
    BY <1>1, <2>1, <2>2, <2>3, <2>4, <2>5, <2>6, <2>7 DEF Serve
<1>2. ASSUME NEW c \in calls, Result(c) PROVE TypeOK'
  <2>1. c \in Call /\ c.player \in Player /\ c.token \in 0..MaxTokens
    BY DEF TypeOK, Call
  <2>2. CASE Accept(c)
    <3>1. c.token \in Token
      BY <2>1, <2>2, GateAssumption DEF Accept, Token
    <3>2. calls' \subseteq Call
      BY <2>2, CallFacts DEF Accept, Answer, TypeOK
    <3>3. QED
      BY <2>1, <2>2, <3>1, <3>2 DEF Accept, TypeOK, game, history
  <2>3. CASE Deny(c)
    <3>1. calls' \subseteq Call
      BY <2>3, CallFacts DEF Deny, Answer, TypeOK
    <3>2. QED
      BY <2>3, <3>1 DEF Deny, TypeOK, game, history
  <2>4. CASE ResultIgnored(c)
    BY <2>4 DEF ResultIgnored, TypeOK, game, history
  <2>5. CASE ResultAllow(c)
    <3>1. PENDING[c.player].previousGameType \in GameType
      BY <2>1, <2>5, EntryFacts DEF ResultAllow, Entry
    <3>2. joins[c.player] \in 1..MaxJoins
      BY <2>1, <2>5, GateAssumption
      DEF ResultAllow, JoinedInv, HeldUntilResolved, TypeOK
    <3>3. QED
      BY <2>1, <2>5, <3>1, <3>2 DEF ResultAllow, TypeOK
  <2>6. CASE ResultKick(c)
    BY <2>1, <2>6, KickType DEF ResultKick, TypeOK, history
  <2>7. QED
    BY <1>2, <2>2, <2>3, <2>4, <2>5, <2>6 DEF Result
<1>3. CASE ServerTick
  BY <1>3, KickType DEF ServerTick, Overdue, TypeOK, history
<1>4. CASE Autosave
  BY <1>4, SaveType DEF Autosave, Connected, TypeOK
<1>5. CASE Restart
  BY <1>5, SaveType DEF Restart, Gone, Connected, TypeOK
<1>6. CASE Crash
  BY <1>6 DEF Crash, Gone, TypeOK
<1>7. CASE UNCHANGED vars
  BY <1>7 DEF vars, game, history, TypeOK
<1>8. QED
  BY <1>1, <1>2, <1>3, <1>4, <1>5, <1>6, <1>7 DEF Next

(* The connected players are held or released, and only the held ones have *)
(* an entry.                                                               *)
LEMMA HeldStep ==
    ASSUME TypeOK, HeldUntilResolved, ReleasedInv, [Next]_vars
    PROVE  HeldUntilResolved' /\ ReleasedInv'
<1> USE DEF HeldUntilResolved, ReleasedInv
<1>1. ASSUME NEW p \in Player, Serve(p)
      PROVE  HeldUntilResolved' /\ ReleasedInv'
  <2>1. CASE Launch(p)
    BY <2>1 DEF Launch, game, history
  <2>2. CASE LoggedIn(p)
    BY <2>2, NewEntry DEF LoggedIn, TypeOK
  <2>3. CASE LoggedOut(p)
    BY <2>3 DEF LoggedOut, TypeOK
  <2>4. CASE ResponseIgnored(p)
    BY <2>4 DEF ResponseIgnored, vars, game, history
  <2>5. CASE ResponseMismatch(p)
    BY <2>5 DEF ResponseMismatch, Unanswered, Kick, TypeOK
  <2>6. CASE ResponseAccepted(p)
    BY <2>6, EntryFacts DEF ResponseAccepted, Unanswered, game, TypeOK
  <2>7. CASE Elapse(p)
    BY <2>7, EntryFacts DEF Elapse, game, TypeOK
  <2>8. QED
    BY <1>1, <2>1, <2>2, <2>3, <2>4, <2>5, <2>6, <2>7 DEF Serve
<1>2. ASSUME NEW c \in calls, Result(c)
      PROVE  HeldUntilResolved' /\ ReleasedInv'
  <2>1. c.player \in Player
    BY DEF TypeOK, Call
  <2>2. CASE Accept(c) \/ Deny(c) \/ ResultIgnored(c)
    BY <2>2 DEF Accept, Deny, ResultIgnored, game, history
  <2>3. CASE ResultAllow(c)
    BY <2>1, <2>3 DEF ResultAllow, TypeOK
  <2>4. CASE ResultKick(c)
    BY <2>1, <2>4 DEF ResultKick, Kick, TypeOK
  <2>5. QED
    BY <1>2, <2>2, <2>3, <2>4 DEF Result
<1>3. CASE ServerTick
  BY <1>3 DEF ServerTick, Overdue, Kick, TypeOK
<1>4. CASE Autosave
  BY <1>4 DEF Autosave
<1>5. CASE Restart \/ Crash
  BY <1>5 DEF Restart, Crash, Gone
<1>6. CASE UNCHANGED vars
  BY <1>6 DEF vars, game, history
<1>7. QED
  BY <1>1, <1>2, <1>3, <1>4, <1>5, <1>6 DEF Next

(* No step starts a second call for a join.                                *)
LEMMA CallsStep ==
    ASSUME TypeOK, HeldUntilResolved, CallsInv, [Next]_vars
    PROVE  CallsInv'
<1> USE DEF CallsInv, OneCallPerJoin
<1>1. \A c \in calls : c.player \in Player /\ c.join \in Nat
  BY DEF TypeOK, Call
<1>2. \A p \in Player : joins[p] \in Nat /\ asked[p] \in Nat
  BY DEF TypeOK
(* Steps that change no call and no join, and leave nobody newly unanswered.*)
<1>3. ASSUME UNCHANGED <<calls, joins, asked>>,
             \A p \in Player : Unanswered(p)' => Unanswered(p)
      PROVE  CallsInv'
  BY <1>3
<1>4. ASSUME NEW P \in SUBSET Player, Kick(P)
      PROVE  \A p \in Player : Unanswered(p)' => Unanswered(p)
  BY <1>4 DEF Kick, Unanswered, TypeOK
<1>5. ASSUME NEW p \in Player, Serve(p) PROVE CallsInv'
  <2>1. CASE Launch(p)
    BY <2>1, <1>3 DEF Launch, history, Unanswered
  <2>2. CASE LoggedIn(p)
    <3>1. /\ joins' = [joins EXCEPT ![p] = @ + 1]
          /\ asked' = [asked EXCEPT ![p] = 0]
          /\ calls' = calls
          /\ \A q \in Player \ {p} : PENDING'[q] = PENDING[q]
      BY <2>2 DEF LoggedIn, TypeOK
    <3>2. \A q \in Player : joins'[q] >= joins[q]
      BY <3>1, <1>2 DEF TypeOK
    <3>3. \A c \in calls' : c.join <= joins'[c.player]
      BY <3>1, <3>2, <1>1, <1>2 DEF TypeOK
    <3>4. \A q \in Player : Unanswered(q)' =>
              asked'[q] = 0 /\ \A c \in calls' : c.player = q => c.join < joins'[q]
      BY <3>1, <1>1, <1>2 DEF Unanswered, TypeOK
    <3>5. \A q \in Player : asked'[q] <= 1
      BY <3>1, <1>2 DEF TypeOK
    <3>6. QED
      BY <3>1, <3>3, <3>4, <3>5
  <2>3. CASE LoggedOut(p)
    BY <2>3, <1>3 DEF LoggedOut, Unanswered, TypeOK
  <2>4. CASE ResponseIgnored(p)
    BY <2>4, <1>3 DEF ResponseIgnored, vars, history, Unanswered
  <2>5. CASE ResponseMismatch(p)
    BY <2>5, <1>3, <1>4 DEF ResponseMismatch, history
  <2>6. CASE ResponseAccepted(p)
    <3> DEFINE new == [player |-> p, join |-> joins[p], token |-> token[p],
                       status |-> "sent"]
    <3>1. /\ calls' = calls \cup {new} /\ joins' = joins
          /\ asked' = [asked EXCEPT ![p] = @ + 1]
          /\ new.player = p /\ new.join = joins[p]
          /\ Unanswered(p)
          /\ \A q \in Player \ {p} : PENDING'[q] = PENDING[q]
      BY <2>6 DEF ResponseAccepted, TypeOK
    <3> HIDE DEF new
    <3>2. \A c \in calls : c.player = p => c.join < joins[p]
      BY <3>1
    <3>3. ~Unanswered(p)'
      BY <2>6, <3>1, EntryFacts DEF ResponseAccepted, Unanswered, TypeOK
    <3>4. asked'[p] = 1 /\ \A q \in Player \ {p} : asked'[q] = asked[q]
      BY <3>1, <1>2 DEF TypeOK
    <3>5. \A c, d \in calls' : c.player = d.player /\ c.join = d.join => c = d
      BY <3>1, <3>2, <1>1, <1>2
    <3>6. \A q \in Player : Unanswered(q)' =>
              asked'[q] = 0 /\ \A c \in calls' : c.player = q => c.join < joins'[q]
      BY <3>1, <3>3, <3>4 DEF Unanswered
    <3>7. QED
      BY <3>1, <3>4, <3>5, <3>6, <1>1, <1>2
  <2>7. CASE Elapse(p)
    BY <2>7, <1>3, EntryFacts DEF Elapse, Unanswered, history, TypeOK
  <2>8. QED
    BY <1>5, <2>1, <2>2, <2>3, <2>4, <2>5, <2>6, <2>7 DEF Serve
<1>6. ASSUME NEW c \in calls, Result(c) PROVE CallsInv'
  <2>1. c.player \in Player
    BY <1>1
  <2>2. ASSUME NEW s \in {"sent", "ok", "bad"}, Answer(c, s),
               UNCHANGED <<PENDING, joins, asked>>
        PROVE  CallsInv'
    <3>1. PICK d : /\ calls' = (calls \ {c}) \cup {d}
                   /\ d.player = c.player /\ d.join = c.join
      BY <2>2, CallFacts DEF Answer
    <3>2. QED
      BY <2>2, <3>1, <1>1 DEF Unanswered
  <2>3. CASE Accept(c)
    BY <2>2, <2>3 DEF Accept, history
  <2>4. CASE Deny(c)
    BY <2>2, <2>4 DEF Deny, history
  <2>5. ASSUME calls' = calls \ {c}, UNCHANGED <<joins, asked>>,
               \A p \in Player : Unanswered(p)' => Unanswered(p)
        PROVE  CallsInv'
    BY <2>5
  <2>6. CASE ResultIgnored(c)
    BY <2>5, <2>6 DEF ResultIgnored, history, Unanswered
  <2>7. CASE ResultAllow(c)
    BY <2>1, <2>5, <2>7 DEF ResultAllow, Unanswered, TypeOK
  <2>8. CASE ResultKick(c)
    BY <2>1, <2>5, <2>8, <1>4 DEF ResultKick, history
  <2>9. QED
    BY <1>6, <2>3, <2>4, <2>6, <2>7, <2>8 DEF Result
<1>7. CASE ServerTick
  BY <1>7, <1>3, <1>4 DEF ServerTick, Overdue, history
<1>8. CASE Autosave
  BY <1>8, <1>3 DEF Autosave, Unanswered
<1>9. CASE Restart \/ Crash
  BY <1>9 DEF Restart, Crash, Gone, Unanswered
<1>10. CASE UNCHANGED vars
  BY <1>10, <1>3 DEF vars, history, Unanswered
<1>11. QED
  BY <1>5, <1>6, <1>7, <1>8, <1>9, <1>10 DEF Next

(* Only an answer 200 consumes a token, and only its own call uses it.     *)
LEMMA TokenStep ==
    ASSUME TypeOK, HeldUntilResolved, ReleasedInv, TokenInv, [Next]_vars
    PROVE  TokenInv'
<1> USE DEF TokenInv, OneReleasePerToken
<1>1. \A c \in calls : c \in Call /\ c.player \in Player
  BY DEF TypeOK, Call
(* Steps that let nobody in and leave the calls alone.                      *)
<1>2. ASSUME UNCHANGED <<spent, entered>>, calls' \subseteq calls,
             \A p \in Player : released'[p] => released[p] /\ joins'[p] = joins[p]
      PROVE  TokenInv'
  BY <1>2
<1>3. ASSUME NEW p \in Player, Serve(p) PROVE TokenInv'
  <2>1. CASE Launch(p)
    BY <2>1, <1>2 DEF Launch, history
  <2>2. CASE LoggedIn(p)
    BY <2>2, <1>2 DEF LoggedIn, TypeOK
  <2>3. CASE LoggedOut(p)
    BY <2>3, <1>2 DEF LoggedOut, TypeOK
  <2>4. CASE ResponseIgnored(p)
    BY <2>4, <1>2 DEF ResponseIgnored, vars, history
  <2>5. CASE ResponseMismatch(p)
    BY <2>5, <1>2 DEF ResponseMismatch, history
  <2>6. CASE ResponseAccepted(p)
    <3> DEFINE new == [player |-> p, join |-> joins[p], token |-> token[p],
                       status |-> "sent"]
    <3>1. /\ calls' = calls \cup {new} /\ new.status = "sent"
          /\ UNCHANGED <<spent, joins, released, entered>>
      BY <2>6 DEF ResponseAccepted
    <3> HIDE DEF new
    <3>2. \A c \in calls' : c.status = "ok" => c \in calls
      BY <3>1
    <3>3. QED
      BY <3>1, <3>2
  <2>7. CASE Elapse(p)
    BY <2>7, <1>2 DEF Elapse, history
  <2>8. QED
    BY <1>3, <2>1, <2>2, <2>3, <2>4, <2>5, <2>6, <2>7 DEF Serve
<1>4. ASSUME NEW c \in calls, Result(c) PROVE TokenInv'
  <2>1. c \in Call /\ c.player \in Player
    BY <1>1
  <2>2. CASE Accept(c)
    <3>1. PICK d : /\ calls' = (calls \ {c}) \cup {d}
                   /\ d.player = c.player /\ d.token = c.token
      BY <2>2, CallFacts DEF Accept, Answer
    <3>2. /\ <<c.player, c.token>> \notin spent
          /\ spent' = spent \cup {<<c.player, c.token>>}
          /\ UNCHANGED <<joins, released, entered>>
      BY <2>2 DEF Accept, history
    <3>3. \A e \in entered : <<e.call.player, e.call.token>> # <<c.player, c.token>>
      BY <3>2
    <3>4. \A b \in calls : b.status = "ok" =>
              <<b.player, b.token>> # <<c.player, c.token>>
      BY <3>2
    <3>5. ASSUME NEW b \in calls', b.status = "ok"
          PROVE  /\ <<b.player, b.token>> \in spent'
                 /\ \A e \in entered' :
                        <<e.call.player, e.call.token>> # <<b.player, b.token>>
                 /\ \A f \in calls' : f.status = "ok" /\ f.player = b.player
                                      /\ f.token = b.token => f = b
      BY <3>1, <3>2, <3>3, <3>4, <3>5
    <3>6. QED
      BY <3>2, <3>5
  <2>3. CASE Deny(c)
    <3>1. PICK d : /\ calls' = (calls \ {c}) \cup {d} /\ d.status = "bad"
      BY <2>3, CallFacts DEF Deny, Answer
    <3>2. UNCHANGED <<spent, joins, released, entered>>
      BY <2>3 DEF Deny, history
    <3>3. QED
      BY <3>1, <3>2
  <2>4. CASE ResultIgnored(c)
    BY <2>4, <1>2 DEF ResultIgnored, history
  <2>5. CASE ResultAllow(c)
    <3> DEFINE p == c.player
               new == [call |-> c, join |-> joins[p]]
    <3>1. /\ entered' = entered \cup {new}
          /\ new.call = c /\ new.join = joins[p]
          /\ calls' = calls \ {c} /\ c.status = "ok"
          /\ released' = [released EXCEPT ![p] = TRUE]
          /\ UNCHANGED <<spent, joins>>
      BY <2>5 DEF ResultAllow
    <3> HIDE DEF new
    <3>2. /\ <<c.player, c.token>> \in spent
          /\ \A e \in entered : ~(e.call.player = c.player /\ e.call.token = c.token)
      BY <3>1
    <3>3. \A e \in entered' : /\ <<e.call.player, e.call.token>> \in spent'
                              /\ \A f \in entered' :
                                     e.call.player = f.call.player
                                     /\ e.call.token = f.call.token => e = f
      <4>1. \A e \in entered : \A f \in entered :
                e.call.player = f.call.player /\ e.call.token = f.call.token => e = f
        BY DEF OneReleasePerToken
      <4>2. \A e \in entered' : e \in entered \/ e = new
        BY <3>1
      <4>3. \A e \in entered' : <<e.call.player, e.call.token>> \in spent'
        BY <3>1, <3>2, <4>2
      <4>4. \A e \in entered' : \A f \in entered' :
                e.call.player = f.call.player /\ e.call.token = f.call.token => e = f
        BY <3>1, <3>2, <4>1, <4>2
      <4>5. QED
        BY <4>3, <4>4
    <3>4. \A q \in Player : released'[q] =>
              \E e \in entered' : e.call.player = q /\ e.join = joins'[q]
      BY <2>1, <3>1 DEF TypeOK
    <3>5. ASSUME NEW b \in calls', b.status = "ok"
          PROVE  /\ <<b.player, b.token>> \in spent'
                 /\ \A e \in entered' :
                        <<e.call.player, e.call.token>> # <<b.player, b.token>>
                 /\ \A f \in calls' : f.status = "ok" /\ f.player = b.player
                                      /\ f.token = b.token => f = b
      BY <3>1, <3>5
    <3>6. QED
      BY <3>3, <3>4, <3>5
  <2>6. CASE ResultKick(c)
    BY <2>6, <1>2 DEF ResultKick, history
  <2>7. QED
    BY <1>4, <2>2, <2>3, <2>4, <2>5, <2>6 DEF Result
<1>5. CASE ServerTick
  BY <1>5, <1>2 DEF ServerTick, history
<1>6. CASE Autosave
  BY <1>6, <1>2 DEF Autosave
<1>7. CASE Restart \/ Crash
  BY <1>7, <1>2 DEF Restart, Crash, Gone
<1>8. CASE UNCHANGED vars
  BY <1>8, <1>2 DEF vars, history
<1>9. QED
  BY <1>3, <1>4, <1>5, <1>6, <1>7, <1>8 DEF Next

(* As long as the data of a player is not written during a freeze, the     *)
(* entry, the data and the player agree on the game type.                  *)
LEMMA FreezeStep ==
    ASSUME TypeOK, HeldUntilResolved, ReleasedInv, FreezeInv, [Next]_vars
    PROVE  FreezeInv'
<1> USE DEF FreezeInv
<1>1. ASSUME NEW p \in Player, Serve(p) PROVE FreezeInv'
  <2>1. CASE Launch(p)
    BY <2>1 DEF Launch, game, history
  <2>2. CASE LoggedIn(p)
    BY <2>2, NewEntry DEF LoggedIn, TypeOK
  <2>3. CASE LoggedOut(p)
    BY <2>3 DEF LoggedOut, Save, TypeOK
  <2>4. CASE ResponseIgnored(p)
    BY <2>4 DEF ResponseIgnored, vars, game, history
  <2>5. CASE ResponseMismatch(p)
    BY <2>5 DEF ResponseMismatch, Kick, history, TypeOK
  <2>6. CASE ResponseAccepted(p)
    BY <2>6, EntryFacts DEF ResponseAccepted, Unanswered, game, TypeOK
  <2>7. CASE Elapse(p)
    BY <2>7, EntryFacts DEF Elapse, game, history, TypeOK
  <2>8. QED
    BY <1>1, <2>1, <2>2, <2>3, <2>4, <2>5, <2>6, <2>7 DEF Serve
<1>2. ASSUME NEW c \in calls, Result(c) PROVE FreezeInv'
  <2>1. c.player \in Player
    BY DEF TypeOK, Call
  <2>2. CASE Accept(c) \/ Deny(c) \/ ResultIgnored(c)
    BY <2>2 DEF Accept, Deny, ResultIgnored, game, history
  <2>3. CASE ResultAllow(c)
    BY <2>1, <2>3 DEF ResultAllow, TypeOK
  <2>4. CASE ResultKick(c)
    BY <2>1, <2>4 DEF ResultKick, Kick, history, TypeOK
  <2>5. QED
    BY <1>2, <2>2, <2>3, <2>4 DEF Result
<1>3. CASE ServerTick
  BY <1>3 DEF ServerTick, Kick, history, TypeOK
<1>4. CASE Autosave
  BY <1>4 DEF Autosave, Save, Connected, TypeOK, HeldUntilResolved
<1>5. CASE Restart
  BY <1>5 DEF Restart, Gone, Save, Connected, TypeOK, HeldUntilResolved, ReleasedInv
<1>6. CASE Crash
  BY <1>6 DEF Crash, Gone, TypeOK
<1>7. CASE UNCHANGED vars
  BY <1>7 DEF vars, game, history
<1>8. QED
  BY <1>1, <1>2, <1>3, <1>4, <1>5, <1>6, <1>7 DEF Next

(* The inductive invariant holds initially.                                *)
LEMMA GateInit ==
    ASSUME Init
    PROVE  GInv
<1>1. TypeOK
  BY GateAssumption DEF Init, TypeOK, GameType
<1>2. HeldUntilResolved /\ ReleasedInv /\ JoinedInv
  BY DEF Init, HeldUntilResolved, ReleasedInv, JoinedInv
<1>3. CallsInv
  BY DEF Init, CallsInv, OneCallPerJoin, Unanswered
<1>4. TokenInv
  BY DEF Init, TokenInv, OneReleasePerToken
<1>5. FreezeInv
  BY DEF Init, FreezeInv
<1>6. QED
  BY <1>1, <1>2, <1>3, <1>4, <1>5 DEF GInv

(* The inductive invariant of the gate: every behaviour satisfies it.      *)
THEOREM GateInductive == Spec => []GInv
<1>1. Init => GInv
  BY GateInit
<1>2. GInv /\ [Next]_vars => GInv'
  BY TypeStep, HeldStep, JoinedStep, CallsStep, TokenStep, FreezeStep DEF GInv
<1>3. QED
  BY <1>1, <1>2, PTL DEF Spec

(* The state of the gate always has the types of ServerAuthHandler's.      *)
THEOREM GateTypeCorrect == Spec => []TypeOK
<1>1. GInv => TypeOK
  BY DEF GInv
<1>2. QED
  BY <1>1, GateInductive, PTL

(* A player online is a spectator with an entry in PENDING until the join  *)
(* is resolved, and PENDING never keeps an entry of anybody else.          *)
THEOREM GateHolds == Spec => []HeldUntilResolved
<1>1. GInv => HeldUntilResolved
  BY DEF GInv
<1>2. QED
  BY <1>1, GateInductive, PTL

(* Nobody is let in but by a consumed token of the nick, and one token lets*)
(* in one join: no repeated packet, late result or restart changes that.   *)
THEOREM GateSingleUse == Spec => []OneReleasePerToken
<1>1. GInv => OneReleasePerToken
  BY DEF GInv, TokenInv
<1>2. QED
  BY <1>1, GateInductive, PTL

(* A join starts at most one validation call (WR-02).                      *)
THEOREM GateOneCall == Spec => []OneCallPerJoin
<1>1. GInv => OneCallPerJoin
  BY DEF GInv, CallsInv
<1>2. QED
  BY <1>1, GateInductive, PTL

(* A player let in plays in the game type of before the first join, unless *)
(* the data was once written while the player was held.                    *)
THEOREM GateRestores == Spec => []NoStaleFreezeUnlessSaved
<1>1. TypeOK /\ FreezeInv => NoStaleFreezeUnlessSaved
  BY DEF TypeOK, FreezeInv, NoStaleFreezeUnlessSaved
<1>2. GInv => TypeOK /\ FreezeInv
  BY DEF GInv
<1>3. QED
  BY <1>1, <1>2, GateInductive, PTL

-----------------------------------------------------------------------------
(* Only finitely many calls ever run.                                      *)
LEMMA FiniteStep ==
    ASSUME IsFiniteSet(calls), [Next]_vars
    PROVE  IsFiniteSet(calls)'
<1>1. \A x : IsFiniteSet(calls \cup {x}) /\ IsFiniteSet(calls \ {x})
  BY FS_AddElement, FS_RemoveElement
<1>2. \A x, y : IsFiniteSet((calls \ {x}) \cup {y})
  BY <1>1, FS_AddElement
<1>3. ASSUME NEW p \in Player, Serve(p) PROVE IsFiniteSet(calls')
  BY <1>1, <1>3
  DEF Serve, Launch, LoggedIn, LoggedOut, ResponseIgnored, ResponseMismatch,
      ResponseAccepted, Elapse, vars
<1>4. ASSUME NEW c \in calls, Result(c) PROVE IsFiniteSet(calls')
  <2>1. (\E y : calls' = (calls \ {c}) \cup {y}) \/ calls' = calls \ {c}
    <3>1. CASE Accept(c) \/ Deny(c)
      BY <3>1 DEF Accept, Deny, Answer
    <3>2. CASE ResultIgnored(c) \/ ResultAllow(c) \/ ResultKick(c)
      BY <3>2 DEF ResultIgnored, ResultAllow, ResultKick
    <3>3. QED
      BY <1>4, <3>1, <3>2 DEF Result
  <2>2. QED
    BY <1>1, <1>2, <2>1
<1>5. CASE ServerTick \/ Autosave \/ UNCHANGED vars
  BY <1>5 DEF ServerTick, Autosave, vars
<1>6. CASE Restart \/ Crash
  BY <1>6, FS_EmptySet DEF Restart, Crash, Gone
<1>7. QED
  BY <1>3, <1>4, <1>5, <1>6 DEF Next

(* What a change of the answers held for a player does to their number.    *)
LEMMA OkFacts ==
    ASSUME IsFiniteSet(calls)
    PROVE  \A p \in Player :
               /\ IsFiniteSet(OkCalls(p)) /\ Granted(p) \in Nat
               /\ \A x : x \notin OkCalls(p) =>
                      Cardinality(OkCalls(p) \cup {x}) = Granted(p) + 1
               /\ \A x \in OkCalls(p) :
                      /\ Cardinality(OkCalls(p) \ {x}) = Granted(p) - 1
                      /\ Granted(p) > 0
<1>1. TAKE p \in Player
<1>2. IsFiniteSet(OkCalls(p))
  BY FS_Subset DEF OkCalls
<1>3. Granted(p) \in Nat
  BY <1>2, FS_CardinalityType DEF Granted
<1>4. ASSUME NEW x, x \notin OkCalls(p)
      PROVE  Cardinality(OkCalls(p) \cup {x}) = Granted(p) + 1
  BY <1>2, <1>4, FS_AddElement DEF Granted
<1>5. ASSUME NEW x \in OkCalls(p)
      PROVE  Cardinality(OkCalls(p) \ {x}) = Granted(p) - 1
  BY <1>2, FS_RemoveElement DEF Granted
<1>6. ASSUME NEW x \in OkCalls(p) PROVE Granted(p) > 0
  BY <1>2, <1>3, <1>6, FS_EmptySet DEF Granted
<1>7. QED
  BY <1>2, <1>3, <1>4, <1>5, <1>6

(* A step that moves nobody and changes no answer 200 is a stutter.        *)
LEMMA PolicyStutter ==
    ASSUME \A p \in Player : Place(p)' = Place(p) /\ OkCalls(p)' = OkCalls(p)
    PROVE  UNCHANGED Policy!vars
  BY DEF Policy!vars, Granted

(* An answer 200 that is not acted on: it arrives or it is lost.           *)
LEMMA PolicyCount ==
    ASSUME IsFiniteSet(calls), NEW p \in Player, NEW x,
           \A q \in Player : Place(q)' = Place(q),
           \A q \in Player \ {p} : OkCalls(q)' = OkCalls(q),
           \/ x \notin OkCalls(p) /\ OkCalls(p)' = OkCalls(p) \cup {x}
           \/ x \in OkCalls(p) /\ OkCalls(p)' = OkCalls(p) \ {x}
    PROVE  Policy!Grant(p) \/ Policy!Lose(p)
<1>1. \A q \in Player \ {p} : Granted(q)' = Granted(q)
  BY DEF Granted
<1>2. CASE x \notin OkCalls(p) /\ OkCalls(p)' = OkCalls(p) \cup {x}
  <2>1. Granted(p)' = Granted(p) + 1
    BY <1>2, OkFacts DEF Granted
  <2>2. QED
    BY <1>1, <2>1 DEF Policy!Grant
<1>3. CASE x \in OkCalls(p) /\ OkCalls(p)' = OkCalls(p) \ {x}
  <2>1. Granted(p)' = Granted(p) - 1 /\ Granted(p) > 0
    BY <1>3, OkFacts DEF Granted
  <2>2. QED
    BY <1>1, <2>1 DEF Policy!Lose
<1>4. QED
  BY <1>2, <1>3

(* A kick moves nobody: the player stays in the list until logged out.     *)
LEMMA KickPlace ==
    ASSUME TypeOK, NEW P \in SUBSET Player, Kick(P), UNCHANGED released
    PROVE  \A p \in Player : Place(p)' = Place(p)
  BY DEF TypeOK, Kick, Place

(* Every step of the gate is a step of Admission or a stutter.             *)
LEMMA PolicyStep ==
    ASSUME GInv, IsFiniteSet(calls), [Next]_vars
    PROVE  [Policy!Next]_Policy!vars
<1>1. TypeOK /\ HeldUntilResolved /\ ReleasedInv /\ CallsInv
  BY DEF GInv
<1>2. \A c \in calls : c \in Call /\ c.player \in Player
  BY <1>1 DEF TypeOK, Call
<1>3. ASSUME NEW p \in Player, Serve(p) PROVE [Policy!Next]_Policy!vars
  <2>1. CASE Launch(p) \/ ResponseIgnored(p) \/ Elapse(p)
    <3>1. UNCHANGED <<conn, released, calls>>
      BY <2>1 DEF Launch, ResponseIgnored, Elapse, game, vars
    <3>2. QED
      BY <3>1, PolicyStutter DEF Place, OkCalls
  <2>2. CASE LoggedIn(p)
    <3>1. /\ Place(p) = "out" /\ Place(p)' = "held"
          /\ \A q \in Player \ {p} : Place(q)' = Place(q)
          /\ calls' = calls
      BY <1>1, <2>2 DEF LoggedIn, Place, TypeOK
    <3>2. \A q \in Player : Granted(q)' = Granted(q)
      BY <3>1 DEF Granted, OkCalls
    <3>3. Policy!Join(p)
      BY <3>1, <3>2 DEF Policy!Join
    <3>4. QED
      BY <3>3 DEF Policy!Next
  <2>3. CASE LoggedOut(p)
    <3>1. /\ Place(p) # "out" /\ Place(p)' = "out"
          /\ \A q \in Player \ {p} : Place(q)' = Place(q)
          /\ calls' = calls
      BY <1>1, <2>3 DEF LoggedOut, Place, TypeOK
    <3>2. \A q \in Player : Granted(q)' = Granted(q)
      BY <3>1 DEF Granted, OkCalls
    <3>3. Policy!Leave(p)
      BY <3>1, <3>2 DEF Policy!Leave
    <3>4. QED
      BY <3>3 DEF Policy!Next
  <2>4. CASE ResponseMismatch(p)
    <3>1. \A q \in Player : Place(q)' = Place(q)
      BY <1>1, <2>4, KickPlace DEF ResponseMismatch
    <3>2. QED
      BY <2>4, <3>1, PolicyStutter DEF ResponseMismatch, OkCalls
  <2>5. CASE ResponseAccepted(p)
    <3> DEFINE new == [player |-> p, join |-> joins[p], token |-> token[p],
                       status |-> "sent"]
    <3>1. calls' = calls \cup {new} /\ new.status = "sent" /\ UNCHANGED <<conn, released>>
      BY <2>5 DEF ResponseAccepted, game
    <3> HIDE DEF new
    <3>2. QED
      BY <3>1, PolicyStutter DEF Place, OkCalls
  <2>6. QED
    BY <1>3, <2>1, <2>2, <2>3, <2>4, <2>5 DEF Serve
<1>4. ASSUME NEW c \in calls, Result(c) PROVE [Policy!Next]_Policy!vars
  <2> DEFINE p == c.player
  <2>1. p \in Player /\ c \in Call
    BY <1>2
  (* The number of answers changes by one, or not at all.                   *)
  <2>2. ASSUME NEW x, NEW q \in Player, \A r \in Player : Place(r)' = Place(r),
               \A r \in Player \ {q} : OkCalls(r)' = OkCalls(r),
               \/ x \notin OkCalls(q) /\ OkCalls(q)' = OkCalls(q) \cup {x}
               \/ x \in OkCalls(q) /\ OkCalls(q)' = OkCalls(q) \ {x}
        PROVE  [Policy!Next]_Policy!vars
    BY <2>2, PolicyCount DEF Policy!Next
  <2>3. CASE Accept(c)
    <3>1. PICK d : /\ calls' = (calls \ {c}) \cup {d}
                   /\ d.player = c.player /\ d.join = c.join /\ d.status = "ok"
      BY <1>1, <2>3, CallFacts DEF Accept, Answer
    <3>2. c.status = "sent" /\ UNCHANGED <<conn, released>>
      BY <2>3 DEF Accept, game
    <3>3. d \notin calls
      BY <1>1, <3>1, <3>2 DEF CallsInv
    <3>4. /\ d \notin OkCalls(p) /\ OkCalls(p)' = OkCalls(p) \cup {d}
          /\ \A r \in Player \ {p} : OkCalls(r)' = OkCalls(r)
      BY <2>1, <3>1, <3>2, <3>3 DEF OkCalls
    <3>5. \A r \in Player : Place(r)' = Place(r)
      BY <3>2 DEF Place
    <3>6. QED
      BY <2>1, <2>2, <3>4, <3>5
  (* c is no longer among the calls that hold an answer 200.                *)
  <2>4. ASSUME \A r \in Player : Place(r)' = Place(r),
               \A r \in Player : OkCalls(r)' = OkCalls(r) \ {c}
        PROVE  [Policy!Next]_Policy!vars
    <3>1. \A r \in Player \ {p} : c \notin OkCalls(r)
      BY DEF OkCalls
    <3>2. \A r \in Player \ {p} : OkCalls(r)' = OkCalls(r)
      <4>1. TAKE r \in Player \ {p}
      <4>2. OkCalls(r) \ {c} = OkCalls(r)
        BY <3>1
      <4>3. QED
        BY <2>4, <4>2
    <3>3. CASE c \in OkCalls(p)
      <4>1. OkCalls(p)' = OkCalls(p) \ {c}
        BY <2>1, <2>4
      <4>2. QED
        BY <2>1, <2>2, <2>4, <3>2, <3>3, <4>1
    <3>4. CASE c \notin OkCalls(p)
      <4>1. OkCalls(p)' = OkCalls(p)
        BY <2>1, <2>4, <3>4
      <4>2. QED
        BY <2>4, <3>2, <4>1, PolicyStutter
    <3>5. QED
      BY <3>3, <3>4
  <2>5. CASE Deny(c)
    <3>1. PICK d : calls' = (calls \ {c}) \cup {d} /\ d.status = "bad"
      BY <1>1, <2>5, CallFacts DEF Deny, Answer
    <3>2. UNCHANGED <<conn, released>>
      BY <2>5 DEF Deny, game
    <3>3. \A r \in Player : Place(r)' = Place(r)
      BY <3>2 DEF Place
    <3>4. \A r \in Player : OkCalls(r)' = OkCalls(r) \ {c}
      BY <3>1 DEF OkCalls
    <3>5. QED
      BY <2>4, <3>3, <3>4
  <2>6. CASE ResultIgnored(c)
    BY <2>4, <2>6 DEF ResultIgnored, game, Place, OkCalls
  <2>7. CASE ResultAllow(c)
    <3>1. /\ calls' = calls \ {c} /\ c.status = "ok" /\ PENDING[p] # NoEntry
          /\ released' = [released EXCEPT ![p] = TRUE] /\ conn' = conn
      BY <2>7 DEF ResultAllow
    <3>2. /\ Place(p) = "held" /\ Place(p)' = "in"
          /\ \A q \in Player \ {p} : Place(q)' = Place(q)
      BY <1>1, <2>1, <3>1 DEF HeldUntilResolved, Place, TypeOK
    <3>3. /\ c \in OkCalls(p) /\ OkCalls(p)' = OkCalls(p) \ {c}
          /\ \A q \in Player \ {p} : OkCalls(q)' = OkCalls(q)
      BY <3>1 DEF OkCalls
    <3>4. Granted(p) > 0 /\ Granted(p)' = Granted(p) - 1
      BY <2>1, <3>3, OkFacts DEF Granted
    <3>5. \A q \in Player \ {p} : Granted(q)' = Granted(q)
      BY <3>3 DEF Granted
    <3>6. Policy!LetIn(p)
      BY <2>1, <3>2, <3>4, <3>5 DEF Policy!LetIn
    <3>7. QED
      BY <2>1, <3>6 DEF Policy!Next
  <2>8. CASE ResultKick(c)
    <3>1. \A q \in Player : Place(q)' = Place(q)
      BY <1>1, <2>1, <2>8, KickPlace DEF ResultKick
    <3>2. QED
      BY <2>4, <2>8, <3>1 DEF ResultKick, OkCalls
  <2>9. QED
    BY <1>4, <2>3, <2>5, <2>6, <2>7, <2>8 DEF Result
<1>5. CASE ServerTick
  <2>1. \A q \in Player : Place(q)' = Place(q)
    BY <1>1, <1>5, KickPlace DEF ServerTick, Overdue
  <2>2. QED
    BY <1>5, <2>1, PolicyStutter DEF ServerTick, OkCalls
<1>6. CASE Autosave \/ UNCHANGED vars
  <2>1. UNCHANGED <<conn, released, calls>>
    BY <1>6 DEF Autosave, vars, game
  <2>2. QED
    BY <2>1, PolicyStutter DEF Place, OkCalls
<1>7. CASE Restart \/ Crash
  <2>1. \A q \in Player : Place(q)' = "out"
    BY <1>7 DEF Restart, Crash, Gone, Place
  <2>2. \A q \in Player : OkCalls(q)' = {}
    BY <1>7 DEF Restart, Crash, Gone, OkCalls
  <2>3. \A q \in Player : Granted(q)' = 0
    BY <2>2, FS_EmptySet DEF Granted
  <2>4. Policy!Stop
    BY <2>1, <2>3 DEF Policy!Stop
  <2>5. QED
    BY <2>4 DEF Policy!Next
<1>8. QED
  BY <1>3, <1>4, <1>5, <1>6, <1>7 DEF Next

(* The join gate implements Admission: whoever is in was let in on an      *)
(* answer 200 of campfire-auth, and no answer counts twice.                *)
THEOREM GateImplements == Spec => ImplementsAdmission
<1>1. Init => Policy!Init /\ IsFiniteSet(calls)
  <2>1. Init => \A p \in Player : Place(p) = "out" /\ OkCalls(p) = {}
    BY DEF Init, Place, OkCalls
  <2>2. QED
    BY <2>1, FS_EmptySet DEF Init, Policy!Init, Granted
<1>2. IsFiniteSet(calls) /\ [Next]_vars => IsFiniteSet(calls)'
  BY FiniteStep
<1>3. GInv /\ IsFiniteSet(calls) /\ [Next]_vars => [Policy!Next]_Policy!vars
  BY PolicyStep
<1>4. QED
  BY <1>1, <1>2, <1>3, GateInductive, PTL DEF Spec, ImplementsAdmission, Policy!Spec

=============================================================================
