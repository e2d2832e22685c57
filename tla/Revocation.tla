----------------------------- MODULE Revocation -----------------------------
(***************************************************************************)
(* Removing a named principal (src/principal.go, RemovePrincipal) against  *)
(* everything that carries that principal's identity: approval requests in *)
(* progress, browser sessions, authorization codes and refresh tokens.     *)
(*                                                                         *)
(* RemovePrincipal is three saves - the principal, the refresh tokens, the *)
(* sessions - each of which may fail, and it knows nothing of the codes in *)
(* the server's memory.  A name that is added again after a removal is a   *)
(* new person: a life of the name is counted for each, and a credential    *)
(* remembers the life whose pairing code it was obtained with.             *)
(*                                                                         *)
(* A registry operation is one step.  That is exact while a command runs   *)
(* alone (OperatorAlone); with a server at work it leaves out the lost     *)
(* updates that JsonMapStore shows, so then only violations are meaningful.*)
(***************************************************************************)
EXTENDS Naturals

CONSTANTS
    Names,          \* named principals
    Anonymous,      \* the identity of the shared pairing code: name ""
    Requests,       \* requests the server works on at a time
    Sessions, Codes, Tokens,
    MaxLives,       \* bound: how often one name may be added
    OperatorAlone,  \* commands run only while no request is in progress
    None            \* nothing

Lives == 1..MaxLives

(* An identity, with the life of the name it was proved for. *)
Identities == [name : Names, life : Lives] \cup {[name |-> Anonymous, life |-> 0]}

ASSUME RevocationAssumption ==
    /\ MaxLives \in Nat
    /\ OperatorAlone \in BOOLEAN
    /\ Anonymous \notin Names
    /\ None \notin Identities

VARIABLES
    member,         \* member[n]: the life of n that is stored, 0 if n is absent
    enrolled,       \* enrolled[n]: the life that last enrolled n's record, or 0
    sessions,       \* sessions[s]: whose session s is, or None
    codes,          \* codes[c]: whose authorization code c is, or None
    refresh,        \* refresh[t]: whose refresh token t is, or None
    phase,          \* phase[r]: where request r is
    who,            \* who[r]: the identity r works for, or None
    command,        \* the operator's removal in progress
    lives,          \* history: lives[n] counts the lives of n so far
    removal         \* history: removal[n] is how n's last removal went

vars == <<member, enrolled, sessions, codes, refresh, phase, who, command, lives, removal>>
documents == <<member, enrolled, sessions, refresh>>
operator == <<command, lives, removal>>

NoCommand == [step |-> "none", name |-> Anonymous, quiet |-> TRUE]

Init ==
    /\ member = [n \in Names |-> 0]
    /\ enrolled = [n \in Names |-> 0]
    /\ sessions = [s \in Sessions |-> None]
    /\ codes = [c \in Codes |-> None]
    /\ refresh = [t \in Tokens |-> None]
    /\ phase = [r \in Requests |-> "idle"]
    /\ who = [r \in Requests |-> None]
    /\ command = NoCommand
    /\ lives = [n \in Names |-> 0]
    /\ removal = [n \in Names |-> "none"]

-----------------------------------------------------------------------------
(* The requests of the server. *)

(* A request arrives. *)
Begins(r, p, i) ==
    /\ phase[r] = "idle"
    /\ OperatorAlone => command.step = "none"
    /\ phase' = [phase EXCEPT ![r] = p]
    /\ who' = [who EXCEPT ![r] = i]

(* A request goes on to p, or is over. *)
Continues(r, p) == phase' = [phase EXCEPT ![r] = p] /\ UNCHANGED who

Ends(r) ==
    /\ phase' = [phase EXCEPT ![r] = "idle"]
    /\ who' = [who EXCEPT ![r] = None]

(* verifyIdentity, a pairing code was entered: the shared one, or that of  *)
(* the stored life of a name.  Any other code is refused without effect.   *)
EnterCode(r) ==
    /\ \/ Begins(r, "entered", [name |-> Anonymous, life |-> 0])
       \/ \E n \in Names :
             /\ member[n] # 0
             /\ Begins(r, "entered", [name |-> n, life |-> member[n]])
    /\ UNCHANGED <<documents, codes, operator>>

(* verifyIdentity without a code: sessionStore.lookup ... *)
LookUpSession(r) ==
    /\ \E s \in Sessions : sessions[s] # None /\ Begins(r, "session", sessions[s])
    /\ UNCHANGED <<documents, codes, operator>>

(* ... and then grantFor: a removed name is not found. *)
ResolveSession(r) ==
    /\ phase[r] = "session"
    /\ IF who[r].name = Anonymous \/ (who[r].name \in Names /\ member[who[r].name] # 0)
       THEN Continues(r, "resumed")
       ELSE Ends(r)
    /\ UNCHANGED <<documents, codes, operator>>

(* The enrollment callback returned a binding: MergePrincipalBinding writes*)
(* the record that is stored under the name now, if there is one.          *)
Enroll(r) ==
    /\ phase[r] \in {"entered", "resumed"}
    /\ who[r].name # Anonymous
    /\ IF member[who[r].name] # 0
       THEN enrolled' = [enrolled EXCEPT ![who[r].name] = who[r].life]
            /\ UNCHANGED <<phase, who>>
       ELSE Ends(r) /\ UNCHANGED enrolled
    /\ UNCHANGED <<member, sessions, codes, refresh, operator>>

(* Mutation of StartSession: the record keeps the bare name. *)
StartNamedSession(r) ==
    /\ phase[r] = "entered"
    /\ \E s \in Sessions :
          sessions[s] = None /\ sessions' = [sessions EXCEPT ![s] = who[r].name]
    /\ UNCHANGED <<member, enrolled, codes, refresh, phase, who, operator>>

(* maybeStartSession: only for an entered code. *)
StartSession(r) ==
    /\ phase[r] = "entered"
    /\ \E s \in Sessions :
          sessions[s] = None /\ sessions' = [sessions EXCEPT ![s] = who[r]]
    /\ Continues(r, "resumed")
    /\ UNCHANGED <<member, enrolled, codes, refresh, operator>>

(* issueAndRedirect; sessions may be off, or their store may fail. *)
IssueCode(r) ==
    /\ phase[r] \in {"entered", "resumed"}
    /\ \E c \in Codes : codes[c] = None /\ codes' = [codes EXCEPT ![c] = who[r]]
    /\ Ends(r)
    /\ UNCHANGED <<documents, operator>>

(* grantAuthCode takes a code. *)
Redeem(r) ==
    /\ \E c \in Codes :
          /\ codes[c] # None
          /\ Begins(r, "token", codes[c])
          /\ codes' = [codes EXCEPT ![c] = None]
    /\ UNCHANGED <<documents, operator>>

(* grantRefresh takes a refresh token. *)
Exchange(r) ==
    /\ \E t \in Tokens :
          /\ refresh[t] # None
          /\ Begins(r, "token", refresh[t])
          /\ refresh' = [refresh EXCEPT ![t] = None]
    /\ UNCHANGED <<member, enrolled, sessions, codes, operator>>

(* issueTokens stores a fresh refresh token. *)
StoreToken(r) ==
    /\ phase[r] = "token"
    /\ \E t \in Tokens :
          refresh[t] = None /\ refresh' = [refresh EXCEPT ![t] = who[r]]
    /\ Ends(r)
    /\ UNCHANGED <<member, enrolled, sessions, codes, operator>>

(* Any refusal, error page or further round of the form: the request ends. *)
GiveUp(r) ==
    /\ phase[r] # "idle"
    /\ Ends(r)
    /\ UNCHANGED <<documents, codes, operator>>

(* Codes and sessions expire: they no longer identify anybody. *)
CodeExpires(c) ==
    /\ codes[c] # None
    /\ codes' = [codes EXCEPT ![c] = None]
    /\ UNCHANGED <<documents, phase, who, operator>>

SessionExpires(s) ==
    /\ sessions[s] # None
    /\ sessions' = [sessions EXCEPT ![s] = None]
    /\ UNCHANGED <<member, enrolled, codes, refresh, phase, who, operator>>

(* The server dies and starts again: codes and requests are gone. *)
Crash ==
    /\ codes' = [c \in Codes |-> None]
    /\ phase' = [r \in Requests |-> "idle"]
    /\ who' = [r \in Requests |-> None]
    /\ UNCHANGED <<documents, operator>>

-----------------------------------------------------------------------------
(* The operator's commands. *)

MayRun ==
    /\ command.step = "none"
    /\ OperatorAlone => \A r \in Requests : phase[r] = "idle"

(* AddPrincipal of an absent name, with no binding.  Of a stored name it   *)
(* only rotates the code, which changes no life.                           *)
Add(n) ==
    /\ MayRun
    /\ member[n] = 0
    /\ lives[n] < MaxLives
    /\ lives' = [lives EXCEPT ![n] = @ + 1]
    /\ member' = [member EXCEPT ![n] = lives[n] + 1]
    /\ enrolled' = [enrolled EXCEPT ![n] = 0]
    /\ UNCHANGED <<sessions, codes, refresh, phase, who, command, removal>>

(* Nothing that works for n, and no code of n, is outstanding. *)
Quiet(n) ==
    /\ \A c \in Codes : codes[c] # None => codes[c].name # n
    /\ \A r \in Requests : who[r] # None => who[r].name # n

(* RemovePrincipal deletes the record, if there is one, and goes on.       *)
RemoveRecord(n) ==
    /\ MayRun
    /\ command' = [step |-> "refresh", name |-> n, quiet |-> Quiet(n)]
    /\ IF n \in Names
       THEN /\ member' = [member EXCEPT ![n] = 0]
            /\ enrolled' = [enrolled EXCEPT ![n] = 0]
            /\ removal' = [removal EXCEPT ![n] = "begun"]
       ELSE UNCHANGED <<member, enrolled, removal>>
    /\ UNCHANGED <<sessions, codes, refresh, phase, who, lives>>

(* Mutation of Purged: "" is a name like any other. *)
PurgedOfAny(f, n) == [x \in DOMAIN f |-> IF f[x] # None /\ f[x].name = n THEN None ELSE f[x]]

(* What removeForPrincipal leaves; the anonymous operator is not removable.*)
Purged(f, n) ==
    IF n = Anonymous THEN f
    ELSE [x \in DOMAIN f |-> IF f[x] # None /\ f[x].name = n THEN None ELSE f[x]]

PurgeRefresh ==
    /\ command.step = "refresh"
    /\ refresh' = Purged(refresh, command.name)
    /\ command' = [command EXCEPT !.step = "sessions"]
    /\ UNCHANGED <<member, enrolled, sessions, codes, phase, who, lives, removal>>

(* RemovePrincipal returns without error. *)
Succeeded ==
    IF command.name = Anonymous THEN removal
    ELSE [removal EXCEPT ![command.name] = IF command.quiet THEN "quiet" ELSE "done"]

PurgeSessions ==
    /\ command.step = "sessions"
    /\ sessions' = Purged(sessions, command.name)
    /\ command' = NoCommand
    /\ removal' = Succeeded
    /\ UNCHANGED <<member, enrolled, codes, refresh, phase, who, lives>>

(* Mutation of PurgeFails: the error of a purge is swallowed. *)
PurgeErrorIgnored ==
    /\ command.step \in {"refresh", "sessions"}
    /\ command' = NoCommand
    /\ removal' = Succeeded
    /\ UNCHANGED <<documents, codes, phase, who, lives>>

(* A purge fails, or the command is killed: the operator sees no success.  *)
PurgeFails ==
    /\ command.step \in {"refresh", "sessions"}
    /\ command' = NoCommand
    /\ UNCHANGED <<documents, codes, phase, who, lives, removal>>

Next ==
    \/ \E r \in Requests :
          \/ EnterCode(r) \/ LookUpSession(r) \/ ResolveSession(r)
          \/ Enroll(r) \/ StartSession(r) \/ IssueCode(r)
          \/ Redeem(r) \/ Exchange(r) \/ StoreToken(r) \/ GiveUp(r)
    \/ \E c \in Codes : CodeExpires(c)
    \/ \E s \in Sessions : SessionExpires(s)
    \/ Crash
    \/ \E n \in Names : Add(n)
    \/ \E n \in Names \cup {Anonymous} : RemoveRecord(n)
    \/ PurgeRefresh \/ PurgeSessions \/ PurgeFails

Spec == Init /\ [][Next]_vars

-----------------------------------------------------------------------------
TypeOK ==
    /\ member \in [Names -> 0..MaxLives]
    /\ enrolled \in [Names -> 0..MaxLives]
    /\ sessions \in [Sessions -> Identities \cup {None}]
    /\ codes \in [Codes -> Identities \cup {None}]
    /\ refresh \in [Tokens -> Identities \cup {None}]
    /\ phase \in [Requests -> {"idle", "entered", "session", "resumed", "token"}]
    /\ who \in [Requests -> Identities \cup {None}]
    /\ command \in [step : {"none", "refresh", "sessions"},
                    name : Names \cup {Anonymous}, quiet : BOOLEAN]
    /\ lives \in [Names -> 0..MaxLives]
    /\ removal \in [Names -> {"none", "begun", "done", "quiet"}]

(* The identities that a credential or a request stands for. *)
Credentials ==
    {sessions[s] : s \in Sessions} \cup {codes[c] : c \in Codes}
        \cup {refresh[t] : t \in Tokens} \cup {who[r] : r \in Requests}

(***************************************************************************)
(* The removal of n is over with its removal of everything: it never was   *)
(* removed, or RemovePrincipal at last returned without error and had      *)
(* started when no code and no request of n was outstanding.               *)
(***************************************************************************)
Settled(n) == removal[n] \in {"none", "quiet"}

(***************************************************************************)
(* After a settled removal nothing of the removed life is left, so whoever *)
(* is added under the name later shares no session, code, refresh token,   *)
(* request or enrolled binding with the person before.  A removal that     *)
(* failed half-way is completed by removing the (absent) name again        *)
(* (src/principal.go:170-189).                                             *)
(***************************************************************************)
OneLifeAtATime ==
    \A n \in Names : Settled(n) =>
        /\ \A i \in Credentials \ {None} : i.name = n => i.life = member[n]
        /\ enrolled[n] \in {0, member[n]}

(***************************************************************************)
(* Removing one principal leaves everybody else's sessions and refresh     *)
(* tokens alone, the anonymous operator's included (src/refresh.go:46-48,  *)
(* src/session.go:87-89).                                                  *)
(***************************************************************************)
RemovalSparesOthers ==
    [][command.step # "none" /\ command' # command =>
         /\ \A t \in Tokens : refresh'[t] # refresh[t] =>
               refresh[t].name = command.name /\ command.name # Anonymous
         /\ \A s \in Sessions : sessions'[s] # sessions[s] =>
               sessions[s].name = command.name /\ command.name # Anonymous]_vars

(***************************************************************************)
(* "RemovePrincipal fully revokes a named principal: its pairing code      *)
(* stops verifying and its outstanding refresh tokens are deleted."        *)
(* (src/principal.go:166-167): once it has returned without error and the  *)
(* name is absent, no refresh token of the name is live.                   *)
(***************************************************************************)
RemovedNamesHaveNoTokens ==
    \A n \in Names : removal[n] \in {"done", "quiet"} /\ member[n] = 0 =>
        \A t \in Tokens : refresh[t] # None => refresh[t].name # n

(***************************************************************************)
(* "... re-resolution, so a stale session can never resurrect a removed    *)
(* principal" (src/principal.go:143-145), "a removed principal's session   *)
(* dies with the principal" (src/session.go:16-17): after a removal that   *)
(* returned without error, a session of the old life identifies nobody.    *)
(***************************************************************************)
SessionsDieWithPrincipal ==
    \A n \in Names : removal[n] \in {"done", "quiet"} /\ member[n] # 0 =>
        \A s \in Sessions : sessions[s] # None /\ sessions[s].name = n =>
            sessions[s].life = member[n]
=============================================================================
