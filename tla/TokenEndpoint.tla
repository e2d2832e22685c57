--------------------------- MODULE TokenEndpoint ---------------------------
(***************************************************************************)
(* The token endpoint of one Server: authorization codes                   *)
(* (src/authcode.go, in memory) and rotating refresh tokens                *)
(* (src/refresh.go, in the SecretStore), redeemed by concurrent requests   *)
(* (src/grant.go) that may be cut off by a crash.                          *)
(*                                                                         *)
(* A refresh-store operation is one step: the requests of a Server share   *)
(* one handle, so JsonMapStoreProofs!StoreIsAtomicMap applies.  Scope and  *)
(* state are carried along unread and left out.  Time is the order in      *)
(* which codes expire.  Nothing here expires a refresh token.              *)
(***************************************************************************)
CONSTANTS
    Codes,          \* authorization codes, one per approval
    Tokens,         \* refresh tokens
    Requests,       \* requests the endpoint works on at a time
    Clients, Redirects, Verifiers, Resources, Names, Bindings,
    Approvals,      \* what people may approve: a subset of Grants
    BindingFor,     \* Config.BindingForResource, by resource and binding
    None            \* nothing

(* An authorization code's grant; the PKCE challenge is named by the       *)
(* verifier that answers it.                                               *)
Grants == [client : Clients, redirect : Redirects, verifier : Verifiers,
           resource : Resources, name : Names, binding : Bindings]

(* A refresh token's grant. *)
RefreshGrants == [client : Clients, resource : Resources, name : Names,
                  binding : Bindings]

(* The part of an approval that outlives its code. *)
Lasting(g) == [client |-> g.client, resource |-> g.resource, name |-> g.name,
               binding |-> g.binding]

ASSUME EndpointAssumption ==
    /\ Approvals \subseteq Grants
    /\ BindingFor \in [Resources -> [Bindings -> Bindings]]
    /\ Codes \cap Tokens = {}
    /\ None \notin Codes \cup Tokens \cup Grants \cup RefreshGrants

VARIABLES
    up,             \* the server process runs
    codes,          \* codes[c]: the grant authCodeStore holds for c, or None
    expired,        \* the codes whose expiresAt has passed
    refresh,        \* refresh[t]: the stored grant of t, or None
    phase,          \* phase[r]: where request r is in its handler
    presented,      \* presented[r]: the code or refresh token r came with
    grant,          \* grant[r]: the grant r took out of a store, or None
    access,         \* access[r]: the access token r minted, or None
    approval,       \* history: approval[c] is what the person approved as c
    origin          \* history: origin[t] is the approval t descends from

vars == <<up, codes, expired, refresh, phase, presented, grant, access, approval, origin>>
history == <<approval, origin>>

Init ==
    /\ up = TRUE
    /\ codes = [c \in Codes |-> None]
    /\ expired = {}
    /\ refresh = [t \in Tokens |-> None]
    /\ phase = [r \in Requests |-> "idle"]
    /\ presented = [r \in Requests |-> None]
    /\ grant = [r \in Requests |-> None]
    /\ access = [r \in Requests |-> None]
    /\ approval = [c \in Codes |-> None]
    /\ origin = [t \in Tokens |-> None]

-----------------------------------------------------------------------------
(* The server runs on through a step. *)
Serving == up /\ UNCHANGED up

(* A person approves g and issueAndRedirect issues a fresh random code. *)
IssueCode(c) ==
    /\ Serving
    /\ approval[c] = None
    /\ \E g \in Approvals :
          /\ codes' = [codes EXCEPT ![c] = g]
          /\ approval' = [approval EXCEPT ![c] = g]
    /\ UNCHANGED <<expired, refresh, phase, presented, grant, access, origin>>

(* The code's lifetime passes, in the store or in the hands of a request. *)
Expire(c) ==
    /\ Serving
    /\ \/ codes[c] # None
       \/ \E r \in Requests : phase[r] = "code" /\ presented[r] = c
    /\ expired' = expired \cup {c}
    /\ UNCHANGED <<codes, refresh, phase, presented, grant, access, history>>

(* A token request arrives, with a credential that need not be valid. *)
Submit(r) ==
    /\ Serving
    /\ phase[r] = "idle"
    /\ \E x \in Codes \cup Tokens : presented' = [presented EXCEPT ![r] = x]
    /\ phase' = [phase EXCEPT ![r] = "start"]
    /\ UNCHANGED <<codes, expired, refresh, grant, access, history>>

(* The handler returns, whatever it answers. *)
Return(r) ==
    /\ phase' = [phase EXCEPT ![r] = "idle"]
    /\ presented' = [presented EXCEPT ![r] = None]
    /\ grant' = [grant EXCEPT ![r] = None]
    /\ access' = [access EXCEPT ![r] = None]

(* Mutation of Consume: the code is looked up and not deleted. *)
LookUp(r) ==
    /\ Serving
    /\ phase[r] = "start"
    /\ presented[r] \in Codes
    /\ codes[presented[r]] # None
    /\ grant' = [grant EXCEPT ![r] = codes[presented[r]]]
    /\ phase' = [phase EXCEPT ![r] = "code"]
    /\ UNCHANGED <<codes, expired, refresh, presented, access, history>>

(* authCodeStore.consume finds the code and deletes it, under its mutex. *)
Consume(r) ==
    /\ Serving
    /\ phase[r] = "start"
    /\ presented[r] \in Codes
    /\ codes[presented[r]] # None
    /\ grant' = [grant EXCEPT ![r] = codes[presented[r]]]
    /\ codes' = [codes EXCEPT ![presented[r]] = None]
    /\ phase' = [phase EXCEPT ![r] = "code"]
    /\ UNCHANGED <<expired, refresh, presented, access, history>>

(* refreshStore.exchange finds the token, deletes it and saves the map. *)
Exchange(r) ==
    /\ Serving
    /\ phase[r] = "start"
    /\ presented[r] \in Tokens
    /\ refresh[presented[r]] # None
    /\ grant' = [grant EXCEPT ![r] = refresh[presented[r]]]
    /\ refresh' = [refresh EXCEPT ![presented[r]] = None]
    /\ phase' = [phase EXCEPT ![r] = "refresh"]
    /\ UNCHANGED <<codes, expired, presented, access, history>>

(* The credential is in neither store. *)
Unknown(r) ==
    /\ Serving
    /\ phase[r] = "start"
    /\ \/ presented[r] \in Codes /\ codes[presented[r]] = None
       \/ presented[r] \in Tokens /\ refresh[presented[r]] = None
    /\ Return(r)
    /\ UNCHANGED <<codes, expired, refresh, history>>

(* Mutation of ExchangeFails: the token is deleted although nobody gets it.*)
ExchangeFailsLate(r) ==
    /\ Serving
    /\ phase[r] = "start"
    /\ presented[r] \in Tokens
    /\ refresh' = [refresh EXCEPT ![presented[r]] = None]
    /\ Return(r)
    /\ UNCHANGED <<codes, expired, history>>

(* The SecretStore fails: the token stays as it was. *)
ExchangeFails(r) ==
    /\ Serving
    /\ phase[r] = "start"
    /\ presented[r] \in Tokens
    /\ Return(r)
    /\ UNCHANGED <<codes, expired, refresh, history>>

(* What came with the credential.  A refresh may leave client_id out.      *)
CodeForms == [client : Clients, redirect : Redirects, verifier : Verifiers]
RefreshForms == Clients \cup {None}

(* The grant a request took stands for its form: the code is unexpired and *)
(* client, redirect and PKCE match; the refresh token's client matches.    *)
CodeAccepts(r, f) ==
    /\ presented[r] \notin expired
    /\ f.client = grant[r].client
    /\ f.redirect = grant[r].redirect
    /\ f.verifier = grant[r].verifier

RefreshAccepts(r, f) == f \in {None, grant[r].client}

FormMatches(r) ==
    \/ phase[r] = "code" /\ \E f \in CodeForms : CodeAccepts(r, f)
    \/ phase[r] = "refresh" /\ \E f \in RefreshForms : RefreshAccepts(r, f)

FormDiffers(r) ==
    \/ phase[r] = "code" /\ \E f \in CodeForms : ~CodeAccepts(r, f)
    \/ phase[r] = "refresh" /\ \E f \in RefreshForms : ~RefreshAccepts(r, f)

(* The approval behind what request r presented. *)
ApprovalOf(r) ==
    IF presented[r] \in Codes THEN presented[r] ELSE origin[presented[r]]

(* Mutation of Refuse: a refused form puts the code back for another try.  *)
RefuseAndRestore(r) ==
    /\ Serving
    /\ FormDiffers(r)
    /\ codes' = IF phase[r] = "code" THEN [codes EXCEPT ![presented[r]] = grant[r]]
                ELSE codes
    /\ Return(r)
    /\ UNCHANGED <<expired, refresh, history>>

(* The form does not match: the credential is gone all the same. *)
Refuse(r) ==
    /\ Serving
    /\ FormDiffers(r)
    /\ Return(r)
    /\ UNCHANGED <<codes, expired, refresh, history>>

(* The claims of an access token for a grant: audience-bound, and with the *)
(* binding projected into that audience's vocabulary.                      *)
TokenFor(g) == [Lasting(g) EXCEPT !.binding = BindingFor[g.resource][g.binding]]

(* The form matches and MintFor signs an access token. *)
Mint(r) ==
    /\ Serving
    /\ FormMatches(r)
    /\ phase' = [phase EXCEPT ![r] = "minted"]
    /\ access' = [access EXCEPT ![r] = TokenFor(grant[r])]
    /\ UNCHANGED <<codes, expired, refresh, presented, grant, history>>

(* The form matches and MintFor fails, as on a verify-only issuer. *)
MintFails(r) ==
    /\ Serving
    /\ FormMatches(r)
    /\ Return(r)
    /\ UNCHANGED <<codes, expired, refresh, history>>

(* Mutation of ToStore: the refresh token keeps the projected principal.   *)
StoreProjected(r) == access[r]

(* Mutation of ToStore: redirect and challenge are stored with the rest.   *)
StoreWholeGrant(r) == grant[r]

(* The refresh token stores the ORIGINAL principal, to be projected anew.  *)
ToStore(r) == Lasting(grant[r])

(* refreshStore.issue stores a fresh refresh token; both are answered. *)
Answer(r) ==
    /\ Serving
    /\ phase[r] = "minted"
    /\ \E t \in Tokens :
          /\ origin[t] = None
          /\ refresh' = [refresh EXCEPT ![t] = ToStore(r)]
          /\ origin' = [origin EXCEPT ![t] = ApprovalOf(r)]
    /\ Return(r)
    /\ UNCHANGED <<codes, expired, approval>>

(* The SecretStore fails: neither token is answered. *)
AnswerFails(r) ==
    /\ Serving
    /\ phase[r] = "minted"
    /\ Return(r)
    /\ UNCHANGED <<codes, expired, refresh, history>>

(* The process dies: codes and requests are gone, refresh tokens persist. *)
Crash ==
    /\ up /\ up' = FALSE
    /\ codes' = [c \in Codes |-> None]
    /\ phase' = [r \in Requests |-> "idle"]
    /\ presented' = [r \in Requests |-> None]
    /\ grant' = [r \in Requests |-> None]
    /\ access' = [r \in Requests |-> None]
    /\ UNCHANGED <<expired, refresh, history>>

(* It starts again with an empty authCodeStore: newAuthCodeStore. *)
Restart ==
    /\ ~up /\ up' = TRUE
    /\ UNCHANGED <<codes, expired, refresh, phase, presented, grant, access, history>>

Handle(r) ==
    \/ Consume(r)
    \/ Exchange(r)
    \/ Unknown(r)
    \/ ExchangeFails(r)
    \/ Refuse(r)
    \/ Mint(r)
    \/ MintFails(r)
    \/ Answer(r)
    \/ AnswerFails(r)

Next ==
    \/ \E c \in Codes : IssueCode(c) \/ Expire(c)
    \/ \E r \in Requests : Submit(r) \/ Handle(r)
    \/ Crash
    \/ Restart

Spec == Init /\ [][Next]_vars

-----------------------------------------------------------------------------
Phases == {"idle", "start", "code", "refresh", "minted"}

(* Types, and what a request has in hand in each phase of its handler. *)
TypeOK ==
    /\ up \in BOOLEAN
    /\ codes \in [Codes -> Grants \cup {None}]
    /\ expired \subseteq Codes
    /\ refresh \in [Tokens -> RefreshGrants \cup {None}]
    /\ phase \in [Requests -> Phases]
    /\ presented \in [Requests -> Codes \cup Tokens \cup {None}]
    /\ grant \in [Requests -> Grants \cup RefreshGrants \cup {None}]
    /\ access \in [Requests -> RefreshGrants \cup {None}]
    /\ approval \in [Codes -> Grants \cup {None}]
    /\ origin \in [Tokens -> Codes \cup {None}]

(* Request r has taken c, or a token that descends from c. *)
Carries(r, c) == grant[r] # None /\ ApprovalOf(r) = c

(* Refresh token t is live and descends from c. *)
Renews(t, c) == refresh[t] # None /\ origin[t] = c

(***************************************************************************)
(* At any moment an approval is redeemable through one credential at most: *)
(* its unredeemed code, or one request that took the code or a descendant  *)
(* token, or one live refresh token.  Codes are single-use and refresh     *)
(* tokens rotate (src/authcode.go:52, src/refresh.go:61) however requests  *)
(* interleave and fail and whenever the server restarts.                   *)
(***************************************************************************)
OneCredentialPerApproval ==
    \A c \in Codes :
        /\ codes[c] # None => /\ \A t \in Tokens : ~Renews(t, c)
                              /\ \A r \in Requests : ~Carries(r, c)
        /\ \A t, u \in Tokens : Renews(t, c) /\ Renews(u, c) => t = u
        /\ \A r, s \in Requests : Carries(r, c) /\ Carries(s, c) => r = s
        /\ \A t \in Tokens, r \in Requests : ~(Renews(t, c) /\ Carries(r, c))

(* What a grant in the hands of request r must be. *)
GrantMatches(r) ==
    grant[r] # None =>
        /\ ApprovalOf(r) \in Codes
        /\ approval[ApprovalOf(r)] # None
        /\ Lasting(grant[r]) = Lasting(approval[ApprovalOf(r)])

(***************************************************************************)
(* Every token that an approval leads to, through any number of refreshes, *)
(* has the approved client, audience, name and binding: a stored refresh   *)
(* token the original binding, an access token its projection for the      *)
(* approved resource (src/grant.go:68-77).                                 *)
(***************************************************************************)
TokensMatchApproval ==
    /\ \A c \in Codes : codes[c] # None => codes[c] = approval[c]
    /\ \A t \in Tokens : refresh[t] # None =>
          /\ origin[t] # None
          /\ approval[origin[t]] # None
          /\ refresh[t] = Lasting(approval[origin[t]])
    /\ \A r \in Requests : GrantMatches(r)
    /\ \A r \in Requests : phase[r] = "minted" =>
          access[r] = TokenFor(approval[ApprovalOf(r)])

(***************************************************************************)
(* A credential works once: a code or refresh token that was issued and is *)
(* not in its store never returns to it, not even when the request that    *)
(* took it was refused or was lost in a crash (src/authcode.go:57,         *)
(* src/refresh.go:61-63).                                                  *)
(***************************************************************************)
SpentStaysSpent ==
    [][/\ \A c \in Codes : approval[c] # None /\ codes[c] = None => codes'[c] = None
       /\ \A t \in Tokens : origin[t] # None /\ refresh[t] = None => refresh'[t] = None]_vars

(***************************************************************************)
(* A stored refresh token disappears in no other way than into the hands of*)
(* the request that presented it: a restart, a failing store, a mismatch of*)
(* another request and the expiry of codes leave it where it is - "They    *)
(* persist so a client stays connected across server restarts."            *)
(* (src/refresh.go:3-4) - and what the request takes is the token's grant. *)
(***************************************************************************)
TokensAreLostOnlyInUse ==
    [][\A t \in Tokens : refresh[t] # None /\ refresh'[t] = None =>
          \E r \in Requests : presented[r] = t /\ grant'[r] = refresh[t]]_vars

(* The entries of the ledger: what the stores and the requests hold.       *)
CodeEntry(c) == [of |-> c, form |-> "code", grant |-> Lasting(codes[c])]
HandEntry(r) == [of |-> ApprovalOf(r), form |-> "hand", grant |-> Lasting(grant[r])]
TokenEntry(t) == [of |-> origin[t], form |-> "token", grant |-> refresh[t]]

Live ==
    {CodeEntry(c) : c \in {x \in Codes : codes[x] # None}}
    \cup {HandEntry(r) : r \in {x \in Requests : grant[x] # None}}
    \cup {TokenEntry(t) : t \in {x \in Tokens : refresh[x] # None}}

Ledger == INSTANCE ApprovalLedger WITH
    Grants <- RefreshGrants,
    ledger <- Live,
    approved <- {c \in Codes : approval[c] # None}

(***************************************************************************)
(* The endpoint keeps the ledger: an approval moves from its code through  *)
(* the hands of one request at a time to a refresh token and from there to *)
(* the next, with the client, audience, name and binding that were         *)
(* approved; what a failure or a crash loses is one entry, for good, and   *)
(* refresh tokens outlive the process (src/refresh.go:3-4, 61-63,          *)
(* src/authcode.go:52-57).                                                 *)
(***************************************************************************)
KeepsTheLedger == Ledger!Spec
=============================================================================
