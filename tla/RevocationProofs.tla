-------------------------- MODULE RevocationProofs --------------------------
(***************************************************************************)
(* Proofs about Revocation, for any names, requests, sessions, codes and   *)
(* tokens and any number of lives.  That a removal spares everybody else   *)
(* holds whenever commands run; that it leaves nothing of the removed life *)
(* is proved for commands that run alone (OperatorAlone), and the runs     *)
(* Revocation_code and Revocation_session show why.                        *)
(***************************************************************************)
EXTENDS Revocation, TLAPS

(* A request has an identity exactly while it works. *)
Working ==
    \A r \in Requests : IF phase[r] = "idle" THEN who[r] = None ELSE who[r] \in Identities

LEMMA LivesArePositive ==
    ASSUME NEW i \in Identities, NEW n \in Names, i.name = n
    PROVE  i.life \in Lives /\ i.life # 0
BY RevocationAssumption DEF Identities, Lives

LEMMA InitType == Init => TypeOK /\ Working
BY RevocationAssumption DEF Init, TypeOK, Working, NoCommand

LEMMA PurgedType ==
    ASSUME NEW S, NEW f \in [S -> Identities \cup {None}], NEW n
    PROVE  Purged(f, n) \in [S -> Identities \cup {None}]
BY DEF Purged

LEMMA NextType == TypeOK /\ Working /\ [Next]_vars => TypeOK' /\ Working'
<1> SUFFICES ASSUME TypeOK, Working, [Next]_vars
             PROVE  TypeOK' /\ Working'
    OBVIOUS
<1> USE RevocationAssumption DEF TypeOK, Working, documents, operator, Begins, Continues, Ends
<1>1. ASSUME NEW r \in Requests, EnterCode(r)
      PROVE  TypeOK' /\ Working'
    <2>1. PICK i \in Identities : phase' = [phase EXCEPT ![r] = "entered"]
                                  /\ who' = [who EXCEPT ![r] = i]
        BY <1>1 DEF EnterCode, Identities, Lives
    <2> QED BY <1>1, <2>1 DEF EnterCode
<1>2. ASSUME NEW r \in Requests, LookUpSession(r)
      PROVE  TypeOK' /\ Working'
    BY <1>2 DEF LookUpSession
<1>3. ASSUME NEW r \in Requests, ResolveSession(r)
      PROVE  TypeOK' /\ Working'
    BY <1>3 DEF ResolveSession
<1>4. ASSUME NEW r \in Requests, Enroll(r)
      PROVE  TypeOK' /\ Working'
    <2>1. who[r] \in Identities /\ who[r].name \in Names /\ who[r].life \in 0..MaxLives
        BY <1>4 DEF Enroll, Identities, Lives
    <2> QED BY <1>4, <2>1 DEF Enroll
<1>5. ASSUME NEW r \in Requests, StartSession(r)
      PROVE  TypeOK' /\ Working'
    BY <1>5 DEF StartSession
<1>6. ASSUME NEW r \in Requests, IssueCode(r)
      PROVE  TypeOK' /\ Working'
    BY <1>6 DEF IssueCode
<1>7. ASSUME NEW r \in Requests, Redeem(r)
      PROVE  TypeOK' /\ Working'
    BY <1>7 DEF Redeem
<1>8. ASSUME NEW r \in Requests, Exchange(r)
      PROVE  TypeOK' /\ Working'
    BY <1>8 DEF Exchange
<1>9. ASSUME NEW r \in Requests, StoreToken(r)
      PROVE  TypeOK' /\ Working'
    BY <1>9 DEF StoreToken
<1>10. ASSUME NEW r \in Requests, GiveUp(r)
       PROVE  TypeOK' /\ Working'
    BY <1>10 DEF GiveUp
<1>11. CASE (\E c \in Codes : CodeExpires(c)) \/ (\E s \in Sessions : SessionExpires(s))
    BY <1>11 DEF CodeExpires, SessionExpires
<1>12. CASE Crash
    BY <1>12 DEF Crash
<1>13. ASSUME NEW n \in Names, Add(n)
       PROVE  TypeOK' /\ Working'
    BY <1>13 DEF Add
<1>14. ASSUME NEW n \in Names \cup {Anonymous}, RemoveRecord(n)
       PROVE  TypeOK' /\ Working'
    BY <1>14 DEF RemoveRecord, Quiet
<1>15. CASE PurgeRefresh
    BY <1>15, PurgedType DEF PurgeRefresh
<1>16. CASE PurgeSessions
    BY <1>16, PurgedType DEF PurgeSessions, Succeeded, NoCommand
<1>17. CASE PurgeFails
    BY <1>17 DEF PurgeFails, NoCommand
<1>18. CASE UNCHANGED vars
    BY <1>18 DEF vars
<1> QED BY <1>1, <1>2, <1>3, <1>4, <1>5, <1>6, <1>7, <1>8, <1>9, <1>10, <1>11,
           <1>12, <1>13, <1>14, <1>15, <1>16, <1>17, <1>18 DEF Next

(* Type correctness of the carriers of an identity. *)
THEOREM TypeCorrect == Spec => []TypeOK
BY InitType, NextType, PTL DEF Spec
-----------------------------------------------------------------------------
(* A command that runs alone meets no request. *)
CommandsRunAlone == command.step # "none" => \A r \in Requests : phase[r] = "idle"

(* What a removal of a named principal has achieved by each step.          *)
RemovalProceeds ==
    command.step # "none" /\ command.name \in Names =>
        /\ removal[command.name] = "begun"
        /\ member[command.name] = 0 /\ enrolled[command.name] = 0
        /\ command.quiet =>
              \A c \in Codes : codes[c] # None => codes[c].name # command.name
        /\ command.step = "sessions" =>
              \A t \in Tokens : refresh[t] # None => refresh[t].name # command.name

(* Sessions are of the stored life, unless a removal was left unfinished,  *)
(* and they come from codes that were entered for it.                      *)
SessionsAreCurrent ==
    /\ \A n \in Names : removal[n] # "begun" =>
          \A s \in Sessions : sessions[s] # None /\ sessions[s].name = n =>
              sessions[s].life = member[n]
    /\ \A r \in Requests : phase[r] = "entered" /\ who[r].name \in Names =>
          who[r].life = member[who[r].name]

Inv ==
    /\ TypeOK /\ Working
    /\ CommandsRunAlone /\ RemovalProceeds /\ SessionsAreCurrent
    /\ OneLifeAtATime

(* Steps of requests and of time pass identities on; what is new is of the *)
(* stored life.                                                            *)
LEMMA IdentitiesPassOn ==
    ASSUME OneLifeAtATime, UNCHANGED <<member, removal>>,
           \A n \in Names : Settled(n) => enrolled'[n] \in {enrolled[n], member[n]},
           \A i \in Credentials' \ {None} :
               \/ i \in Credentials
               \/ i.name \in Names => i.life = member[i.name]
    PROVE  OneLifeAtATime'
BY DEF OneLifeAtATime, Settled

LEMMA InitInv == Init => Inv
<1> SUFFICES ASSUME Init PROVE Inv
    OBVIOUS
<1>1. TypeOK /\ Working
    BY InitType
<1>2. Credentials \subseteq {None}
    BY DEF Init, Credentials
<1>3. OneLifeAtATime
    BY <1>2 DEF Init, OneLifeAtATime
<1>4. CommandsRunAlone /\ RemovalProceeds /\ SessionsAreCurrent
    BY DEF Init, CommandsRunAlone, RemovalProceeds, SessionsAreCurrent, NoCommand
<1> QED BY <1>1, <1>3, <1>4 DEF Inv

(* A request's step, while no command runs. *)
LEMMA RequestKeepsInv ==
    ASSUME OperatorAlone, Inv, TypeOK', Working', NEW r \in Requests,
           \/ EnterCode(r) \/ LookUpSession(r) \/ ResolveSession(r)
           \/ Enroll(r) \/ StartSession(r) \/ IssueCode(r)
           \/ Redeem(r) \/ Exchange(r) \/ StoreToken(r) \/ GiveUp(r)
    PROVE  Inv'
<1> USE RevocationAssumption DEF documents, operator, Begins, Continues, Ends
<1>t. TypeOK /\ Working
    BY DEF Inv
<1>1. /\ command.step = "none"
      /\ UNCHANGED <<member, command, removal>>
    BY DEF Inv, CommandsRunAlone, EnterCode, LookUpSession, ResolveSession, Enroll,
           StartSession, IssueCode, Redeem, Exchange, StoreToken, GiveUp
<1>2. CommandsRunAlone' /\ RemovalProceeds'
    BY <1>1 DEF CommandsRunAlone, RemovalProceeds
<1>3. SessionsAreCurrent'
    <2>1. CASE StartSession(r)
        BY <2>1, <1>t, <1>1 DEF Inv, SessionsAreCurrent, StartSession, TypeOK
    <2>2. CASE EnterCode(r)
        BY <2>2, <1>t, <1>1 DEF Inv, SessionsAreCurrent, EnterCode, TypeOK
    <2>3. CASE \/ LookUpSession(r) \/ ResolveSession(r) \/ Enroll(r) \/ IssueCode(r)
               \/ Redeem(r) \/ Exchange(r) \/ StoreToken(r) \/ GiveUp(r)
        <3>1. /\ UNCHANGED sessions
              /\ \A q \in Requests : phase'[q] = "entered" =>
                    phase[q] = "entered" /\ who'[q] = who[q]
            BY <2>3, <1>t DEF LookUpSession, ResolveSession, Enroll, IssueCode, Redeem,
                   Exchange, StoreToken, GiveUp, TypeOK
        <3> QED BY <3>1, <1>1 DEF Inv, SessionsAreCurrent
    <2> QED BY <2>1, <2>2, <2>3
<1>4. \A i \in Credentials' \ {None} :
          i \in Credentials \/ (i.name \in Names => i.life = member[i.name])
    <2>1. CASE EnterCode(r)
        BY <2>1, <1>t DEF EnterCode, Credentials, TypeOK
    <2>2. CASE LookUpSession(r)
        BY <2>2, <1>t DEF LookUpSession, Credentials, TypeOK
    <2>3. CASE ResolveSession(r) \/ Enroll(r) \/ GiveUp(r)
        BY <2>3, <1>t DEF ResolveSession, Enroll, GiveUp, Credentials, TypeOK
    <2>4. CASE StartSession(r) \/ IssueCode(r)
        BY <2>4, <1>t DEF StartSession, IssueCode, Credentials, TypeOK
    <2>5. CASE Redeem(r) \/ Exchange(r)
        BY <2>5, <1>t DEF Redeem, Exchange, Credentials, TypeOK
    <2>6. CASE StoreToken(r)
        BY <2>6, <1>t DEF StoreToken, Credentials, TypeOK
    <2> QED BY <2>1, <2>2, <2>3, <2>4, <2>5, <2>6
<1>5. \A n \in Names : Settled(n) => enrolled'[n] \in {enrolled[n], member[n]}
    <2>1. CASE Enroll(r)
        <3>1. who[r] \in Credentials \ {None}
            BY <2>1, <1>t DEF Enroll, Credentials, Working, Inv
        <3> QED BY <2>1, <3>1, <1>t DEF Enroll, Inv, OneLifeAtATime, TypeOK
    <2>2. CASE ~Enroll(r)
        BY <2>2 DEF EnterCode, LookUpSession, ResolveSession, StartSession, IssueCode,
               Redeem, Exchange, StoreToken, GiveUp
    <2> QED BY <2>1, <2>2
<1>6. OneLifeAtATime'
    BY <1>1, <1>4, <1>5, IdentitiesPassOn DEF Inv
<1> QED BY <1>2, <1>3, <1>6 DEF Inv

(* Time and crashes take credentials away. *)
LEMMA TimeKeepsInv ==
    ASSUME Inv, TypeOK', Working',
           \/ \E c \in Codes : CodeExpires(c)
           \/ \E s \in Sessions : SessionExpires(s)
           \/ Crash \/ UNCHANGED vars
    PROVE  Inv'
<1> USE DEF documents, operator
<1>t. TypeOK
    BY DEF Inv
<1>1. UNCHANGED <<member, enrolled, refresh, command, removal>>
    BY DEF CodeExpires, SessionExpires, Crash, vars
<1>2. /\ \A c \in Codes : codes'[c] \in {codes[c], None}
      /\ \A s \in Sessions : sessions'[s] \in {sessions[s], None}
      /\ \A r \in Requests : \/ phase'[r] = phase[r] /\ who'[r] = who[r]
                             \/ phase'[r] = "idle" /\ who'[r] = None
    BY <1>t DEF CodeExpires, SessionExpires, Crash, vars, TypeOK
<1>3. CommandsRunAlone' /\ RemovalProceeds' /\ SessionsAreCurrent'
    BY <1>1, <1>2 DEF Inv, CommandsRunAlone, RemovalProceeds, SessionsAreCurrent
<1>4. \A i \in Credentials' \ {None} : i \in Credentials
    BY <1>1, <1>2 DEF Credentials
<1>5. OneLifeAtATime'
    BY <1>1, <1>4, IdentitiesPassOn DEF Inv
<1> QED BY <1>3, <1>5 DEF Inv

(* A name is added: nothing is left of an earlier life, ... *)
LEMMA AddKeepsInv ==
    ASSUME OperatorAlone, Inv, TypeOK', Working', NEW n \in Names, Add(n)
    PROVE  Inv'
<1> USE RevocationAssumption
<1>t. TypeOK /\ Working
    BY DEF Inv
<1>1. /\ command.step = "none" /\ \A r \in Requests : phase[r] = "idle"
      /\ member[n] = 0
      /\ UNCHANGED <<sessions, codes, refresh, phase, who, command, removal>>
      /\ enrolled'[n] = 0
      /\ \A m \in Names \ {n} : member'[m] = member[m] /\ enrolled'[m] = enrolled[m]
    BY <1>t DEF Add, MayRun, TypeOK
<1>2. CommandsRunAlone' /\ RemovalProceeds'
    BY <1>1 DEF CommandsRunAlone, RemovalProceeds
<1>3. SessionsAreCurrent'
    <2>1. \A s \in Sessions : sessions[s] # None /\ sessions[s].name = n =>
              sessions[s].life # 0
        BY <1>t, LivesArePositive DEF TypeOK
    <2> QED BY <1>1, <2>1 DEF Inv, SessionsAreCurrent
<1>4. Credentials' = Credentials /\ Credentials \subseteq Identities \cup {None}
    BY <1>1, <1>t DEF Credentials, TypeOK
<1>5. Settled(n) => \A i \in Credentials \ {None} : i.name # n
    BY <1>1, <1>4, LivesArePositive DEF Inv, OneLifeAtATime
<1>6. OneLifeAtATime'
    BY <1>1, <1>4, <1>5 DEF Inv, OneLifeAtATime, Settled
<1> QED BY <1>2, <1>3, <1>6 DEF Inv

(* ... or removed: its life is over, and the removal has begun. *)
LEMMA RemoveRecordKeepsInv ==
    ASSUME OperatorAlone, Inv, TypeOK', Working',
           NEW n \in Names \cup {Anonymous}, RemoveRecord(n)
    PROVE  Inv'
<1> USE RevocationAssumption
<1>t. TypeOK /\ Working
    BY DEF Inv
<1>1. /\ \A r \in Requests : phase[r] = "idle"
      /\ command' = [step |-> "refresh", name |-> n, quiet |-> Quiet(n)]
      /\ UNCHANGED <<sessions, codes, refresh, phase, who>>
      /\ n \in Names => removal'[n] = "begun" /\ member'[n] = 0 /\ enrolled'[n] = 0
      /\ \A m \in Names \ {n} : /\ member'[m] = member[m] /\ enrolled'[m] = enrolled[m]
                                /\ removal'[m] = removal[m]
    BY <1>t DEF RemoveRecord, MayRun, TypeOK
<1>2. CommandsRunAlone' /\ RemovalProceeds'
    BY <1>1 DEF CommandsRunAlone, RemovalProceeds, Quiet
<1>3. SessionsAreCurrent'
    BY <1>1 DEF Inv, SessionsAreCurrent
<1>4. OneLifeAtATime'
    BY <1>1 DEF Inv, OneLifeAtATime, Settled, Credentials
<1> QED BY <1>2, <1>3, <1>4 DEF Inv

(* A purge leaves nothing of the name and everything else. *)
LEMMA PurgedOf ==
    ASSUME NEW f, NEW n \in Names, NEW x \in DOMAIN f
    PROVE  /\ Purged(f, n)[x] # None =>
                 Purged(f, n)[x] = f[x] /\ Purged(f, n)[x].name # n
           /\ f[x] # None /\ f[x].name # n => Purged(f, n)[x] = f[x]
BY RevocationAssumption DEF Purged

LEMMA PurgedSubset ==
    ASSUME NEW f, NEW n, NEW x \in DOMAIN f
    PROVE  Purged(f, n)[x] \in {f[x], None}
BY DEF Purged

LEMMA PurgeRefreshKeepsInv ==
    ASSUME OperatorAlone, Inv, TypeOK', Working', PurgeRefresh
    PROVE  Inv'
<1>t. TypeOK
    BY DEF Inv
<1>1. /\ command.step = "refresh" /\ command'.step = "sessions"
      /\ command'.name = command.name /\ command'.quiet = command.quiet
      /\ UNCHANGED <<member, enrolled, sessions, codes, phase, who, removal>>
      /\ refresh' = Purged(refresh, command.name) /\ DOMAIN refresh = Tokens
    BY <1>t DEF PurgeRefresh, TypeOK
<1>2. CommandsRunAlone' /\ SessionsAreCurrent'
    BY <1>1 DEF Inv, CommandsRunAlone, SessionsAreCurrent
<1>3. RemovalProceeds'
    BY <1>1, PurgedOf DEF Inv, RemovalProceeds
<1>4. \A i \in Credentials' \ {None} : i \in Credentials
    BY <1>1, PurgedSubset DEF Credentials
<1>5. OneLifeAtATime'
    BY <1>1, <1>4, IdentitiesPassOn DEF Inv
<1> QED BY <1>2, <1>3, <1>5 DEF Inv

(* The last purge ends the removal: if it was quiet, nothing is left. *)
LEMMA PurgeSessionsKeepsInv ==
    ASSUME OperatorAlone, Inv, TypeOK', Working', PurgeSessions
    PROVE  Inv'
<1> USE RevocationAssumption
<1>t. TypeOK /\ Working
    BY DEF Inv
<1> DEFINE n == command.name
<1>1. /\ command.step = "sessions" /\ command'.step = "none"
      /\ UNCHANGED <<member, enrolled, refresh, codes, phase, who>>
      /\ sessions' = Purged(sessions, n) /\ DOMAIN sessions = Sessions
      /\ n \in Names \cup {Anonymous} /\ command.quiet \in BOOLEAN
      /\ n \in Names => removal'[n] = IF command.quiet THEN "quiet" ELSE "done"
      /\ \A m \in Names \ {n} : removal'[m] = removal[m]
    BY <1>t DEF PurgeSessions, TypeOK, NoCommand, Succeeded
<1> HIDE DEF n
<1>2. CommandsRunAlone' /\ RemovalProceeds'
    BY <1>1 DEF CommandsRunAlone, RemovalProceeds
<1>3. n \in Names => \A s \in Sessions : sessions'[s] # None => sessions'[s].name # n
    BY <1>1, PurgedOf
<1>4. \A s \in Sessions : sessions'[s] \in {sessions[s], None}
    BY <1>1, PurgedSubset
<1>5. SessionsAreCurrent'
    BY <1>1, <1>3, <1>4 DEF Inv, SessionsAreCurrent
<1>6. \A i \in Credentials' \ {None} : i \in Credentials
    BY <1>1, <1>4 DEF Credentials
<1>7. \A r \in Requests : who[r] = None
    BY <1>1, <1>t DEF Inv, CommandsRunAlone, Working
<1>8. ASSUME n \in Names, command.quiet
      PROVE  \A i \in Credentials' \ {None} : i.name # n
    <2>1. /\ \A c \in Codes : codes[c] # None => codes[c].name # n
          /\ \A t \in Tokens : refresh[t] # None => refresh[t].name # n
        BY <1>1, <1>8 DEF Inv, RemovalProceeds, n
    <2> QED BY <1>1, <1>3, <1>7, <1>8, <2>1 DEF Credentials
<1>9. n \in Names => member[n] = 0 /\ enrolled[n] = 0
    BY <1>1 DEF Inv, RemovalProceeds, n
<1>10. OneLifeAtATime'
    <2> SUFFICES ASSUME NEW m \in Names, Settled(m)'
                 PROVE  /\ \A i \in Credentials' \ {None} : i.name = m => i.life = member[m]
                        /\ enrolled[m] \in {0, member[m]}
        BY <1>1 DEF OneLifeAtATime
    <2>1. CASE m = n
        BY <1>1, <1>8, <1>9, <2>1 DEF Settled
    <2>2. CASE m # n
        BY <1>1, <1>6, <2>2 DEF Settled, Inv, OneLifeAtATime
    <2> QED BY <2>1, <2>2
<1> QED BY <1>2, <1>5, <1>10 DEF Inv

LEMMA PurgeFailsKeepsInv ==
    ASSUME Inv, TypeOK', Working', PurgeFails
    PROVE  Inv'
<1>1. /\ UNCHANGED <<member, enrolled, sessions, refresh, codes, phase, who, removal>>
      /\ command'.step = "none"
    BY DEF PurgeFails, documents, NoCommand
<1>2. CommandsRunAlone' /\ RemovalProceeds' /\ SessionsAreCurrent'
    BY <1>1 DEF Inv, CommandsRunAlone, RemovalProceeds, SessionsAreCurrent
<1>3. OneLifeAtATime'
    BY <1>1 DEF Inv, OneLifeAtATime, Settled, Credentials
<1> QED BY <1>2, <1>3 DEF Inv

LEMMA InvHolds == OperatorAlone => (Spec => []Inv)
<1> SUFFICES ASSUME OperatorAlone PROVE Spec => []Inv
    OBVIOUS
<1>1. Inv /\ [Next]_vars => Inv'
    <2> SUFFICES ASSUME Inv, [Next]_vars PROVE Inv'
        OBVIOUS
    <2>t. TypeOK' /\ Working'
        BY NextType DEF Inv
    <2> QED BY <2>t, RequestKeepsInv, TimeKeepsInv, AddKeepsInv, RemoveRecordKeepsInv,
               PurgeRefreshKeepsInv, PurgeSessionsKeepsInv, PurgeFailsKeepsInv DEF Next
<1> QED BY <1>1, InitInv, PTL DEF Spec

(***************************************************************************)
(* Where commands run alone, a settled removal leaves no session, code,    *)
(* refresh token, request or enrolled binding to the next person of the    *)
(* name, however often removals fail half-way (src/principal.go:170-189).  *)
(***************************************************************************)
THEOREM NobodyInheritsALife == OperatorAlone => (Spec => []OneLifeAtATime)
<1> SUFFICES ASSUME OperatorAlone PROVE Spec => []OneLifeAtATime
    OBVIOUS
<1>1. Inv => OneLifeAtATime
    BY DEF Inv
<1> QED BY <1>1, InvHolds, PTL

(* ... and no session outlives a removal that succeeded, even with codes   *)
(* of the name outstanding (src/session.go:16-17).                         *)
THEOREM SessionsEndWithRemoval == OperatorAlone => (Spec => []SessionsDieWithPrincipal)
<1> SUFFICES ASSUME OperatorAlone PROVE Spec => []SessionsDieWithPrincipal
    OBVIOUS
<1>1. Inv => SessionsDieWithPrincipal
    BY DEF Inv, SessionsAreCurrent, SessionsDieWithPrincipal
<1> QED BY <1>1, InvHolds, PTL

(***************************************************************************)
(* Removing one principal touches nobody else's sessions or refresh        *)
(* tokens, nor the anonymous operator's, whoever works meanwhile           *)
(* (src/refresh.go:46-48, src/session.go:87-89).                           *)
(***************************************************************************)
THEOREM OthersAreSpared == Spec => RemovalSparesOthers
<1> DEFINE Spared ==
        command.step # "none" /\ command' # command =>
            /\ \A t \in Tokens : refresh'[t] # refresh[t] =>
                  refresh[t].name = command.name /\ command.name # Anonymous
            /\ \A s \in Sessions : sessions'[s] # sessions[s] =>
                  sessions[s].name = command.name /\ command.name # Anonymous
<1>1. TypeOK /\ [Next]_vars => Spared
    <2> SUFFICES ASSUME TypeOK, Next, command.step # "none", command' # command
                 PROVE  Spared
        BY DEF vars
    <2>1. PurgeRefresh \/ PurgeSessions \/ PurgeFails
        BY DEF Next, EnterCode, LookUpSession, ResolveSession, Enroll, StartSession, IssueCode,
               Redeem, Exchange, StoreToken, GiveUp, CodeExpires, SessionExpires, Crash,
               Add, RemoveRecord, MayRun, operator
    <2>2. CASE PurgeRefresh
        BY <2>2 DEF PurgeRefresh, Purged, TypeOK
    <2>3. CASE PurgeSessions
        BY <2>3 DEF PurgeSessions, Purged, TypeOK
    <2>4. CASE PurgeFails
        BY <2>4 DEF PurgeFails, documents
    <2> QED BY <2>1, <2>2, <2>3, <2>4
<1> QED BY <1>1, TypeCorrect, PTL DEF Spec, RemovalSparesOthers
=============================================================================
