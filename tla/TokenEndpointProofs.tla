------------------------ MODULE TokenEndpointProofs ------------------------
(***************************************************************************)
(* Proofs about TokenEndpoint, for any numbers of codes, tokens and        *)
(* requests, any approvals and any BindingForResource.  The invariants are *)
(* proved one after another, each from those before it: types, what a      *)
(* request holds in each phase, that every token matches its approval, and *)
(* from these that an approval has one credential at a time.  The last     *)
(* part proves that the endpoint implements ApprovalLedger.                *)
(***************************************************************************)
EXTENDS TokenEndpoint, TLAPS

LEMMA LastingType ==
    ASSUME NEW g \in Grants \cup RefreshGrants
    PROVE  Lasting(g) \in RefreshGrants
BY DEF Grants, RefreshGrants, Lasting

(* A refresh token's grant is already the lasting part of its approval. *)
LEMMA LastingOnce ==
    ASSUME NEW g \in RefreshGrants
    PROVE  Lasting(g) = g
BY DEF RefreshGrants, Lasting

LEMMA TokenForType ==
    ASSUME NEW g \in Grants \cup RefreshGrants
    PROVE  TokenFor(g) \in RefreshGrants
<1>1. g.resource \in Resources /\ g.binding \in Bindings
    BY DEF Grants, RefreshGrants
<1>2. BindingFor[g.resource][g.binding] \in Bindings
    BY <1>1, EndpointAssumption
<1> QED BY <1>2, LastingType DEF TokenFor, RefreshGrants

(* Only the lasting part of a grant reaches its access token. *)
LEMMA TokenForLasting ==
    ASSUME NEW g, NEW h, Lasting(g) = Lasting(h)
    PROVE  TokenFor(g) = TokenFor(h)
<1>1. g.binding = h.binding /\ g.resource = h.resource
    BY DEF Lasting
<1> QED BY <1>1 DEF TokenFor
-----------------------------------------------------------------------------
(* What a request holds in each phase of its handler. *)
GrantHeld ==
    \A r \in Requests :
        /\ phase[r] \in {"idle", "start"} => grant[r] = None
        /\ phase[r] = "start" => presented[r] \in Codes \cup Tokens
        /\ phase[r] = "code" =>
              grant[r] \in Grants /\ presented[r] \in Codes
        /\ phase[r] = "refresh" =>
              grant[r] \in RefreshGrants /\ presented[r] \in Tokens
        /\ phase[r] = "minted" =>
              /\ grant[r] \in Grants \cup RefreshGrants
              /\ presented[r] \in Codes \cup Tokens

LEMMA InitType == Init => TypeOK /\ GrantHeld
BY DEF Init, TypeOK, GrantHeld, Phases

LEMMA NextType == TypeOK /\ GrantHeld /\ [Next]_vars => TypeOK' /\ GrantHeld'
<1> SUFFICES ASSUME TypeOK, GrantHeld, [Next]_vars
             PROVE  TypeOK' /\ GrantHeld'
    OBVIOUS
<1> USE EndpointAssumption DEF TypeOK, GrantHeld, Phases, Serving, history
<1>1. ASSUME NEW c \in Codes, IssueCode(c)
      PROVE  TypeOK' /\ GrantHeld'
    BY <1>1 DEF IssueCode
<1>2. ASSUME NEW c \in Codes, Expire(c)
      PROVE  TypeOK' /\ GrantHeld'
    BY <1>2 DEF Expire
<1>3. ASSUME NEW r \in Requests, Submit(r)
      PROVE  TypeOK' /\ GrantHeld'
    BY <1>3 DEF Submit
<1>4. ASSUME NEW r \in Requests, Consume(r)
      PROVE  TypeOK' /\ GrantHeld'
    BY <1>4 DEF Consume
<1>5. ASSUME NEW r \in Requests, Exchange(r)
      PROVE  TypeOK' /\ GrantHeld'
    BY <1>5 DEF Exchange
<1>6. ASSUME NEW r \in Requests,
             Unknown(r) \/ ExchangeFails(r) \/ Refuse(r) \/ MintFails(r) \/ AnswerFails(r)
      PROVE  TypeOK' /\ GrantHeld'
    <2>1. Return(r) /\ UNCHANGED <<up, codes, expired, refresh, approval, origin>>
        BY <1>6 DEF Unknown, ExchangeFails, Refuse, MintFails, AnswerFails
    <2> QED BY <2>1 DEF Return
<1>7. ASSUME NEW r \in Requests, Mint(r)
      PROVE  TypeOK' /\ GrantHeld'
    <2>1. grant[r] \in Grants \cup RefreshGrants /\ presented[r] \in Codes \cup Tokens
        BY <1>7 DEF Mint, FormMatches
    <2>2. TokenFor(grant[r]) \in RefreshGrants
        BY <2>1, TokenForType
    <2> QED BY <1>7, <2>1, <2>2 DEF Mint
<1>8. ASSUME NEW r \in Requests, Answer(r)
      PROVE  TypeOK' /\ GrantHeld'
    <2>1. ToStore(r) \in RefreshGrants
        BY <1>8, LastingType DEF Answer, ToStore
    <2>2. ApprovalOf(r) \in Codes \cup {None}
        BY <1>8 DEF Answer, ApprovalOf
    <2>3. TypeOK'
        BY <1>8, <2>1, <2>2 DEF Answer, Return
    <2>4. GrantHeld'
        BY <1>8 DEF Answer, Return
    <2> QED BY <2>3, <2>4
<1>9. CASE Crash
    BY <1>9 DEF Crash
<1>10. CASE Restart \/ UNCHANGED vars
    BY <1>10 DEF Restart, vars
<1> QED BY <1>1, <1>2, <1>3, <1>4, <1>5, <1>6, <1>7, <1>8, <1>9, <1>10 DEF Next, Handle

(* Type correctness of the token endpoint. *)
THEOREM TypeCorrect == Spec => []TypeOK
BY InitType, NextType, PTL DEF Spec
-----------------------------------------------------------------------------
LEMMA InitMatch == Init => TokensMatchApproval
BY EndpointAssumption DEF Init, TokensMatchApproval, GrantMatches

LEMMA NextMatch ==
    TypeOK /\ GrantHeld /\ TokensMatchApproval /\ [Next]_vars => TokensMatchApproval'
<1> SUFFICES ASSUME TypeOK, GrantHeld, TokensMatchApproval, [Next]_vars
             PROVE  TokensMatchApproval'
    OBVIOUS
<1>t. TypeOK'
    BY NextType
<1> DEFINE CodesMatch == \A c \in Codes : codes[c] # None => codes[c] = approval[c]
           TokenMatches(t) == refresh[t] # None =>
                                 /\ origin[t] # None
                                 /\ approval[origin[t]] # None
                                 /\ refresh[t] = Lasting(approval[origin[t]])
           AccessMatches(r) == phase[r] = "minted" =>
                                 access[r] = TokenFor(approval[ApprovalOf(r)])
<1>h. /\ CodesMatch
      /\ \A t \in Tokens : TokenMatches(t)
      /\ \A r \in Requests : GrantMatches(r) /\ AccessMatches(r)
    BY DEF TokensMatchApproval
<1> SUFFICES /\ CodesMatch'
             /\ \A t \in Tokens : TokenMatches(t)'
             /\ \A r \in Requests : GrantMatches(r)' /\ AccessMatches(r)'
    BY DEF TokensMatchApproval
<1> USE EndpointAssumption DEF TypeOK, Serving, history
<1>1. ASSUME NEW c \in Codes, IssueCode(c)
      PROVE  /\ CodesMatch'
             /\ \A t \in Tokens : TokenMatches(t)'
             /\ \A r \in Requests : GrantMatches(r)' /\ AccessMatches(r)'
    <2>1. CodesMatch'
        BY <1>1, <1>h DEF IssueCode
    <2>2. \A d \in Codes : approval[d] # None => approval'[d] = approval[d]
        BY <1>1 DEF IssueCode
    <2>3. \A t \in Tokens : TokenMatches(t)'
        BY <1>1, <1>h, <2>2 DEF IssueCode
    <2>4. \A r \in Requests : ApprovalOf(r)' = ApprovalOf(r)
        BY <1>1 DEF IssueCode, ApprovalOf
    <2>5. \A r \in Requests : GrantMatches(r)'
        BY <1>1, <1>h, <2>2, <2>4 DEF IssueCode, GrantMatches
    <2>6. \A r \in Requests : phase[r] = "minted" => grant[r] # None
        BY DEF GrantHeld
    <2>7. \A r \in Requests : AccessMatches(r)'
        BY <1>1, <1>h, <2>2, <2>4, <2>6 DEF IssueCode, GrantMatches
    <2> QED BY <2>1, <2>3, <2>5, <2>7
<1>2. ASSUME UNCHANGED <<codes, refresh, phase, presented, grant, access, approval, origin>>
      PROVE  /\ CodesMatch'
             /\ \A t \in Tokens : TokenMatches(t)'
             /\ \A r \in Requests : GrantMatches(r)' /\ AccessMatches(r)'
    BY <1>2, <1>h DEF GrantMatches, ApprovalOf
<1>3. ASSUME NEW r \in Requests, Submit(r)
      PROVE  /\ CodesMatch'
             /\ \A t \in Tokens : TokenMatches(t)'
             /\ \A s \in Requests : GrantMatches(s)' /\ AccessMatches(s)'
    <2>1. grant[r] = None /\ phase'[r] = "start"
        BY <1>3 DEF Submit, GrantHeld
    <2>2. \A s \in Requests \ {r} : phase'[s] = phase[s] /\ presented'[s] = presented[s]
        BY <1>3 DEF Submit
    <2> QED BY <1>3, <1>h, <2>1, <2>2 DEF Submit, GrantMatches, ApprovalOf
<1>4. ASSUME NEW r \in Requests, Consume(r)
      PROVE  /\ CodesMatch'
             /\ \A t \in Tokens : TokenMatches(t)'
             /\ \A s \in Requests : GrantMatches(s)' /\ AccessMatches(s)'
    <2>1. codes[presented[r]] = approval[presented[r]]
        BY <1>4, <1>h DEF Consume
    <2>2. GrantMatches(r)'
        BY <1>4, <2>1 DEF Consume, GrantMatches, ApprovalOf
    <2>3. \A s \in Requests \ {r} : GrantMatches(s)'
        BY <1>4, <1>h DEF Consume, GrantMatches, ApprovalOf
    <2>4. \A s \in Requests : AccessMatches(s)'
        BY <1>4, <1>h DEF Consume, ApprovalOf
    <2> QED BY <1>4, <1>h, <2>2, <2>3, <2>4 DEF Consume
<1>5. ASSUME NEW r \in Requests, Exchange(r)
      PROVE  /\ CodesMatch'
             /\ \A t \in Tokens : TokenMatches(t)'
             /\ \A s \in Requests : GrantMatches(s)' /\ AccessMatches(s)'
    <2>1. TokenMatches(presented[r]) /\ refresh[presented[r]] \in RefreshGrants
        BY <1>5, <1>h DEF Exchange
    <2>2. Lasting(refresh[presented[r]]) = Lasting(approval[origin[presented[r]]])
        BY <1>5, <2>1, LastingOnce DEF Exchange
    <2>3. GrantMatches(r)'
        BY <1>5, <2>1, <2>2 DEF Exchange, GrantMatches, ApprovalOf
    <2>4. \A s \in Requests \ {r} : GrantMatches(s)'
        BY <1>5, <1>h DEF Exchange, GrantMatches, ApprovalOf
    <2>5. \A s \in Requests : AccessMatches(s)'
        BY <1>5, <1>h DEF Exchange, ApprovalOf
    <2> QED BY <1>5, <1>h, <2>3, <2>4, <2>5 DEF Exchange
<1>6. ASSUME NEW r \in Requests, Return(r), UNCHANGED <<codes, refresh, approval, origin>>
      PROVE  /\ CodesMatch'
             /\ \A t \in Tokens : TokenMatches(t)'
             /\ \A s \in Requests : GrantMatches(s)' /\ AccessMatches(s)'
    BY <1>6, <1>h DEF Return, GrantMatches, ApprovalOf
<1>7. ASSUME NEW r \in Requests, Mint(r)
      PROVE  /\ CodesMatch'
             /\ \A t \in Tokens : TokenMatches(t)'
             /\ \A s \in Requests : GrantMatches(s)' /\ AccessMatches(s)'
    <2>1. grant[r] # None
        BY <1>7 DEF Mint, FormMatches, GrantHeld
    <2>2. TokenFor(grant[r]) = TokenFor(approval[ApprovalOf(r)])
        BY <1>h, <2>1, TokenForLasting DEF GrantMatches
    <2>3. \A s \in Requests : ApprovalOf(s)' = ApprovalOf(s)
        BY <1>7 DEF Mint, ApprovalOf
    <2>4. \A s \in Requests : AccessMatches(s)'
        BY <1>7, <1>h, <2>2, <2>3 DEF Mint
    <2>5. \A s \in Requests : GrantMatches(s)'
        BY <1>7, <1>h, <2>3 DEF Mint, GrantMatches
    <2> QED BY <1>7, <1>h, <2>4, <2>5 DEF Mint
<1>8. ASSUME NEW r \in Requests, Answer(r)
      PROVE  /\ CodesMatch'
             /\ \A t \in Tokens : TokenMatches(t)'
             /\ \A s \in Requests : GrantMatches(s)' /\ AccessMatches(s)'
    <2>1. PICK t \in Tokens : /\ origin[t] = None
                              /\ refresh' = [refresh EXCEPT ![t] = ToStore(r)]
                              /\ origin' = [origin EXCEPT ![t] = ApprovalOf(r)]
        BY <1>8 DEF Answer
    <2>2. /\ Return(r)
          /\ UNCHANGED <<codes, approval>>
        BY <1>8 DEF Answer
    <2>3. grant[r] # None
        BY <1>8 DEF Answer, GrantHeld
    <2>4. TokenMatches(t)'
        BY <1>h, <2>1, <2>2, <2>3 DEF GrantMatches, ToStore
    <2>5. \A u \in Tokens \ {t} : TokenMatches(u)'
        BY <1>h, <2>1, <2>2
    <2>6. \A s \in Requests : grant[s] # None => presented[s] # t
        BY <1>h, <2>1 DEF GrantMatches, ApprovalOf
    <2>7. \A s \in Requests \ {r} : grant[s] # None => ApprovalOf(s)' = ApprovalOf(s)
        BY <2>1, <2>2, <2>6 DEF Return, ApprovalOf
    <2>8. \A s \in Requests : GrantMatches(s)'
        BY <1>h, <2>2, <2>7 DEF Return, GrantMatches
    <2>9. \A s \in Requests \ {r} : phase[s] = "minted" => grant[s] # None
        BY DEF GrantHeld
    <2>10. \A s \in Requests : AccessMatches(s)'
        BY <1>h, <2>2, <2>7, <2>9 DEF Return
    <2> QED BY <1>h, <2>2, <2>4, <2>5, <2>8, <2>10
<1>9. CASE Crash
    BY <1>9, <1>h DEF Crash, GrantMatches, ApprovalOf
<1> QED
    <2>1. ASSUME NEW c \in Codes, Expire(c)
          PROVE  UNCHANGED <<codes, refresh, phase, presented, grant, access, approval, origin>>
        BY <2>1 DEF Expire
    <2>2. ASSUME Restart \/ UNCHANGED vars
          PROVE  UNCHANGED <<codes, refresh, phase, presented, grant, access, approval, origin>>
        BY <2>2 DEF Restart, vars
    <2>3. ASSUME NEW r \in Requests,
                 Unknown(r) \/ ExchangeFails(r) \/ Refuse(r) \/ MintFails(r) \/ AnswerFails(r)
          PROVE  Return(r) /\ UNCHANGED <<codes, refresh, approval, origin>>
        BY <2>3 DEF Unknown, ExchangeFails, Refuse, MintFails, AnswerFails
    <2> QED BY <1>1, <1>2, <1>3, <1>4, <1>5, <1>6, <1>7, <1>8, <1>9, <2>1, <2>2, <2>3
            DEF Next, Handle

(* Every token an approval ever leads to carries what was approved. *)
THEOREM TokensAlwaysMatch == Spec => []TokensMatchApproval
BY InitType, NextType, InitMatch, NextMatch, PTL DEF Spec
-----------------------------------------------------------------------------
(* What the uniqueness of credentials is proved from. *)
Base == TypeOK /\ GrantHeld /\ TokensMatchApproval

(* An approval that nobody gave has no credential. *)
LEMMA NothingUnapproved ==
    ASSUME Base, NEW c \in Codes, approval[c] = None
    PROVE  /\ codes[c] = None
           /\ \A t \in Tokens : ~Renews(t, c)
           /\ \A r \in Requests : ~Carries(r, c)
<1>1. codes[c] = None
    BY DEF Base, TokensMatchApproval
<1>2. \A t \in Tokens : ~Renews(t, c)
    BY DEF Base, TokensMatchApproval, Renews
<1>3. \A r \in Requests : ~Carries(r, c)
    BY DEF Base, TokensMatchApproval, GrantMatches, Carries
<1> QED BY <1>1, <1>2, <1>3

(* A step in which credentials only disappear keeps them unique. *)
LEMMA FewerCredentials ==
    ASSUME OneCredentialPerApproval,
           \A c \in Codes : codes'[c] # None => codes[c] # None,
           \A c \in Codes, t \in Tokens : Renews(t, c)' => Renews(t, c),
           \A c \in Codes, r \in Requests : Carries(r, c)' => Carries(r, c)
    PROVE  OneCredentialPerApproval'
BY DEF OneCredentialPerApproval

LEMMA InitOne == Init => OneCredentialPerApproval
BY DEF Init, OneCredentialPerApproval, Renews, Carries

LEMMA NextOne ==
    Base /\ Base' /\ OneCredentialPerApproval /\ [Next]_vars => OneCredentialPerApproval'
<1> SUFFICES ASSUME Base, Base', OneCredentialPerApproval, [Next]_vars
             PROVE  OneCredentialPerApproval'
    OBVIOUS
<1>t. TypeOK /\ GrantHeld /\ TokensMatchApproval
    BY DEF Base
<1> USE EndpointAssumption DEF Serving, history
<1>1. ASSUME NEW c \in Codes, IssueCode(c)
      PROVE  OneCredentialPerApproval'
    <2>1. \A d \in Codes : \A t \in Tokens : Renews(t, d)' <=> Renews(t, d)
        BY <1>1 DEF IssueCode, Renews
    <2>2. \A d \in Codes : \A r \in Requests : Carries(r, d)' <=> Carries(r, d)
        BY <1>1 DEF IssueCode, Carries, ApprovalOf
    <2>3. \A d \in Codes \ {c} : codes'[d] = codes[d]
        BY <1>1, <1>t DEF IssueCode, TypeOK
    <2>4. /\ \A t \in Tokens : ~Renews(t, c)
          /\ \A r \in Requests : ~Carries(r, c)
        BY <1>1, NothingUnapproved DEF IssueCode
    <2> QED BY <2>1, <2>2, <2>3, <2>4 DEF OneCredentialPerApproval
<1>2. ASSUME UNCHANGED <<codes, refresh, grant, presented, origin>>
      PROVE  OneCredentialPerApproval'
    BY <1>2 DEF OneCredentialPerApproval, Renews, Carries, ApprovalOf
<1>3. ASSUME NEW r \in Requests, Submit(r)
      PROVE  OneCredentialPerApproval'
    <2>1. grant[r] = None
        BY <1>3, <1>t DEF Submit, GrantHeld
    <2> QED BY <1>3, <2>1, <1>t, FewerCredentials
            DEF Submit, Renews, Carries, ApprovalOf, TypeOK
<1>4. ASSUME NEW r \in Requests, Consume(r)
      PROVE  OneCredentialPerApproval'
    <2> DEFINE c == presented[r]
    <2>1. c \in Codes /\ codes[c] # None /\ codes'[c] = None
        BY <1>4, <1>t DEF Consume, TypeOK
    <2>2. \A d \in Codes \ {c} : codes'[d] = codes[d]
        BY <1>4, <1>t DEF Consume, TypeOK
    <2>3. \A d \in Codes, t \in Tokens : Renews(t, d)' <=> Renews(t, d)
        BY <1>4 DEF Consume, Renews
    <2>4. \A d \in Codes, s \in Requests \ {r} : Carries(s, d)' <=> Carries(s, d)
        BY <1>4, <1>t DEF Consume, Carries, ApprovalOf, TypeOK
    <2>5. \A d \in Codes \ {c} : ~Carries(r, d)'
        BY <1>4 DEF Consume, Carries, ApprovalOf
    <2>6. \A d \in Codes \ {c} : ~Carries(r, d)
        BY <1>4, <1>t DEF Consume, Carries, GrantHeld
    <2> HIDE DEF c
    <2> QED BY <2>1, <2>2, <2>3, <2>4, <2>5, <2>6 DEF OneCredentialPerApproval
<1>5. ASSUME NEW r \in Requests, Exchange(r)
      PROVE  OneCredentialPerApproval'
    <2>0. PICK u \in Tokens, c \in Codes : u = presented[r] /\ c = origin[u]
        BY <1>5, <1>t DEF Exchange, TypeOK, TokensMatchApproval
    <2>1. Renews(u, c) /\ UNCHANGED codes
        BY <1>5, <2>0 DEF Exchange, Renews
    <2>2. \A d \in Codes : ~Renews(u, d)'
        BY <1>5, <2>0, <1>t DEF Exchange, Renews, TypeOK
    <2>3. \A d \in Codes, t \in Tokens \ {u} : Renews(t, d)' <=> Renews(t, d)
        BY <1>5, <2>0, <1>t DEF Exchange, Renews, TypeOK
    <2>4. \A d \in Codes, s \in Requests \ {r} : Carries(s, d)' <=> Carries(s, d)
        BY <1>5, <2>0, <1>t DEF Exchange, Carries, ApprovalOf, TypeOK
    <2>5. \A d \in Codes \ {c} : ~Carries(r, d)'
        BY <1>5, <2>0 DEF Exchange, Carries, ApprovalOf
    <2>6. \A d \in Codes : ~Carries(r, d)
        BY <1>5, <2>0, <1>t DEF Exchange, Carries, GrantHeld
    <2>7. /\ codes'[c] = None
          /\ \A t \in Tokens : ~Renews(t, c)'
          /\ \A s \in Requests \ {r} : ~Carries(s, c)'
        BY <2>1, <2>2, <2>3, <2>4 DEF OneCredentialPerApproval
    <2>8. /\ \A d \in Codes, t \in Tokens : Renews(t, d)' => Renews(t, d)
          /\ \A d \in Codes \ {c}, s \in Requests : Carries(s, d)' => Carries(s, d)
        BY <2>2, <2>3, <2>4, <2>5
    <2> QED BY <2>1, <2>7, <2>8 DEF OneCredentialPerApproval
<1>6. ASSUME NEW r \in Requests, Return(r), UNCHANGED <<codes, refresh, origin>>
      PROVE  OneCredentialPerApproval'
    BY <1>6, <1>t, FewerCredentials DEF Return, Renews, Carries, ApprovalOf, TypeOK
<1>7. ASSUME NEW r \in Requests, Answer(r)
      PROVE  OneCredentialPerApproval'
    <2> DEFINE c == ApprovalOf(r)
    <2>1. PICK u \in Tokens : /\ origin[u] = None
                              /\ refresh' = [refresh EXCEPT ![u] = ToStore(r)]
                              /\ origin' = [origin EXCEPT ![u] = c]
        BY <1>7 DEF Answer
    <2>2. Return(r) /\ UNCHANGED codes
        BY <1>7 DEF Answer
    <2>3. c \in Codes /\ Carries(r, c)
        BY <1>7, <1>t DEF Answer, GrantHeld, TokensMatchApproval, GrantMatches, Carries
    <2>4. \A d \in Codes : ~Renews(u, d)
        BY <1>t, <2>1 DEF TokensMatchApproval, Renews
    <2>5. \A d \in Codes \ {c} : ~Renews(u, d)'
        BY <1>t, <2>1 DEF Renews, TypeOK
    <2>6. \A d \in Codes, t \in Tokens \ {u} : Renews(t, d)' <=> Renews(t, d)
        BY <1>t, <2>1 DEF Renews, TypeOK
    <2>7. \A d \in Codes : ~Carries(r, d)'
        BY <1>t, <2>2 DEF Return, Carries, TypeOK
    <2>8. \A s \in Requests : grant[s] # None => presented[s] # u
        BY <1>t, <2>1 DEF TokensMatchApproval, GrantMatches, ApprovalOf
    <2>9. \A d \in Codes, s \in Requests \ {r} : Carries(s, d)' => Carries(s, d)
        BY <1>t, <2>1, <2>2, <2>8 DEF Return, Carries, ApprovalOf, TypeOK
    <2> HIDE DEF c
    <2> QED BY <2>2, <2>3, <2>4, <2>5, <2>6, <2>7, <2>9 DEF OneCredentialPerApproval
<1>8. CASE Crash
    BY <1>8, FewerCredentials DEF Crash, Renews, Carries
<1> QED
    <2>1. ASSUME NEW c \in Codes, Expire(c)
          PROVE  UNCHANGED <<codes, refresh, grant, presented, origin>>
        BY <2>1 DEF Expire
    <2>2. ASSUME Restart \/ UNCHANGED vars
          PROVE  UNCHANGED <<codes, refresh, grant, presented, origin>>
        BY <2>2 DEF Restart, vars
    <2>3. ASSUME NEW r \in Requests, Mint(r)
          PROVE  UNCHANGED <<codes, refresh, grant, presented, origin>>
        BY <2>3 DEF Mint
    <2>4. ASSUME NEW r \in Requests,
                 Unknown(r) \/ ExchangeFails(r) \/ Refuse(r) \/ MintFails(r) \/ AnswerFails(r)
          PROVE  Return(r) /\ UNCHANGED <<codes, refresh, origin>>
        BY <2>4 DEF Unknown, ExchangeFails, Refuse, MintFails, AnswerFails
    <2> QED BY <1>1, <1>2, <1>3, <1>4, <1>5, <1>6, <1>7, <1>8, <2>1, <2>2, <2>3, <2>4
            DEF Next, Handle

LEMMA BaseHolds == Spec => []Base
BY InitType, NextType, InitMatch, NextMatch, PTL DEF Spec, Base

(* An approval can be redeemed through one credential at most. *)
THEOREM OneCredential == Spec => []OneCredentialPerApproval
BY BaseHolds, InitOne, NextOne, PTL DEF Spec

(* A spent code or refresh token never works again. *)
THEOREM CredentialsAreSpentOnce == Spec => SpentStaysSpent
<1> DEFINE Spent ==
        /\ \A c \in Codes : approval[c] # None /\ codes[c] = None => codes'[c] = None
        /\ \A t \in Tokens : origin[t] # None /\ refresh[t] = None => refresh'[t] = None
<1>1. Base /\ [Next]_vars => Spent
    <2> SUFFICES ASSUME Base, [Next]_vars PROVE Spent
        OBVIOUS
    <2>t. TypeOK
        BY DEF Base
    <2>1. ASSUME UNCHANGED <<codes, refresh>> PROVE Spent
        BY <2>1
    <2>2. ASSUME NEW c \in Codes, IssueCode(c) PROVE Spent
        BY <2>2, <2>t DEF IssueCode, TypeOK
    <2>3. ASSUME NEW r \in Requests, Consume(r) \/ Exchange(r) PROVE Spent
        BY <2>3, <2>t DEF Consume, Exchange, TypeOK
    <2>4. ASSUME NEW r \in Requests, Answer(r) PROVE Spent
        BY <2>4, <2>t DEF Answer, TypeOK
    <2>5. CASE Crash
        BY <2>5 DEF Crash
    <2>6. ASSUME NEW c \in Codes, Expire(c) PROVE UNCHANGED <<codes, refresh>>
        BY <2>6 DEF Expire
    <2>7. ASSUME NEW r \in Requests,
                 \/ Submit(r) \/ Unknown(r) \/ ExchangeFails(r) \/ Refuse(r)
                 \/ Mint(r) \/ MintFails(r) \/ AnswerFails(r)
          PROVE  UNCHANGED <<codes, refresh>>
        BY <2>7 DEF Submit, Unknown, ExchangeFails, Refuse, Mint, MintFails, AnswerFails
    <2>8. ASSUME Restart \/ UNCHANGED vars PROVE UNCHANGED <<codes, refresh>>
        BY <2>8 DEF Restart, vars
    <2> QED BY <2>1, <2>2, <2>3, <2>4, <2>5, <2>6, <2>7, <2>8 DEF Next, Handle
<1> QED BY <1>1, BaseHolds, PTL DEF Spec, SpentStaysSpent

(* A refresh token leaves its store only with the request that presented   *)
(* it: no crash, failure or refusal loses one.                             *)
THEOREM NoTokenIsLostUnused == Spec => TokensAreLostOnlyInUse
<1> DEFINE Kept ==
        \A t \in Tokens : refresh[t] # None /\ refresh'[t] = None =>
            \E r \in Requests : presented[r] = t /\ grant'[r] = refresh[t]
<1>1. Base /\ [Next]_vars => Kept
    <2> SUFFICES ASSUME Base, [Next]_vars PROVE Kept
        OBVIOUS
    <2>t. TypeOK
        BY DEF Base
    <2>1. ASSUME UNCHANGED refresh PROVE Kept
        BY <2>1
    <2>2. ASSUME NEW r \in Requests, Exchange(r) PROVE Kept
        BY <2>2, <2>t DEF Exchange, TypeOK
    <2>3. ASSUME NEW r \in Requests, Answer(r) PROVE Kept
        <3>1. PICK t \in Tokens : refresh' = [refresh EXCEPT ![t] = ToStore(r)]
            BY <2>3 DEF Answer
        <3>2. ToStore(r) # None
            <4>1. grant[r] \in Grants \cup RefreshGrants
                BY <2>3 DEF Base, GrantHeld, Answer
            <4> QED BY <4>1, LastingType, EndpointAssumption DEF ToStore
        <3> QED BY <3>1, <3>2, <2>t DEF TypeOK
    <2>4. ASSUME NEW r \in Requests,
                 \/ Submit(r) \/ Consume(r) \/ Unknown(r) \/ ExchangeFails(r) \/ Refuse(r)
                 \/ Mint(r) \/ MintFails(r) \/ AnswerFails(r)
          PROVE  UNCHANGED refresh
        BY <2>4 DEF Submit, Consume, Unknown, ExchangeFails, Refuse, Mint, MintFails, AnswerFails
    <2>5. ASSUME NEW c \in Codes, IssueCode(c) \/ Expire(c) PROVE UNCHANGED refresh
        BY <2>5 DEF IssueCode, Expire
    <2>6. ASSUME Crash \/ Restart \/ UNCHANGED vars PROVE UNCHANGED refresh
        BY <2>6 DEF Crash, Restart, vars
    <2> QED BY <2>1, <2>2, <2>3, <2>4, <2>5, <2>6 DEF Next, Handle
<1> QED BY <1>1, BaseHolds, PTL DEF Spec, TokensAreLostOnlyInUse

-----------------------------------------------------------------------------
(***************************************************************************)
(* The endpoint implements ApprovalLedger: every step moves one entry,     *)
(* loses one, enters one or leaves the ledger alone.  The steps rest on    *)
(* the invariants; that an approval has one credential is what makes an    *)
(* entry vanish from where it was when it appears where it goes.           *)
(***************************************************************************)
Invariants == Base /\ OneCredentialPerApproval

(* What is in the ledger. *)
LEMMA InLedger ==
    ASSUME NEW e
    PROVE  e \in Live <=>
              \/ \E c \in Codes : codes[c] # None /\ e = CodeEntry(c)
              \/ \E r \in Requests : grant[r] # None /\ e = HandEntry(r)
              \/ \E t \in Tokens : refresh[t] # None /\ e = TokenEntry(t)
BY DEF Live

LEMMA InNextLedger ==
    ASSUME NEW e
    PROVE  e \in Live' <=>
              \/ \E c \in Codes : codes'[c] # None /\ e = CodeEntry(c)'
              \/ \E r \in Requests : grant'[r] # None /\ e = HandEntry(r)'
              \/ \E t \in Tokens : refresh'[t] # None /\ e = TokenEntry(t)'
BY DEF Live

(* Entries of different forms differ, and so do those of two codes.        *)
LEMMA FormsDiffer ==
    /\ \A c \in Codes, r \in Requests : CodeEntry(c) # HandEntry(r)
    /\ \A c \in Codes, t \in Tokens : CodeEntry(c) # TokenEntry(t)
    /\ \A r \in Requests, t \in Tokens : HandEntry(r) # TokenEntry(t)
    /\ \A c, d \in Codes : c # d => CodeEntry(c) # CodeEntry(d)
<1> DEFINE Form(e) == e.form
           Of(e) == e.of
<1>1. /\ \A c \in Codes : Form(CodeEntry(c)) = "code" /\ Of(CodeEntry(c)) = c
      /\ \A r \in Requests : Form(HandEntry(r)) = "hand"
      /\ \A t \in Tokens : Form(TokenEntry(t)) = "token"
    BY DEF CodeEntry, HandEntry, TokenEntry
<1> HIDE DEF Form, Of
<1> QED BY <1>1

(* A request that carries a grant is the only one with its entry, ...      *)
LEMMA HandsDiffer ==
    ASSUME Invariants, NEW r \in Requests, NEW s \in Requests,
           grant[r] # None, grant[s] # None, r # s
    PROVE  HandEntry(r) # HandEntry(s)
<1>1. ApprovalOf(r) \in Codes /\ Carries(r, ApprovalOf(r))
    BY DEF Invariants, Base, TokensMatchApproval, GrantMatches, Carries
<1>2. ApprovalOf(s) # ApprovalOf(r)
    BY <1>1 DEF Invariants, OneCredentialPerApproval, Carries
<1>3. HandEntry(r).of = ApprovalOf(r) /\ HandEntry(s).of = ApprovalOf(s)
    BY DEF HandEntry
<1> QED BY <1>2, <1>3

(* ... and so is a live token. *)
LEMMA TokensDiffer ==
    ASSUME Invariants, NEW t \in Tokens, NEW u \in Tokens,
           refresh[t] # None, refresh[u] # None, t # u
    PROVE  TokenEntry(t) # TokenEntry(u)
<1>1. origin[t] \in Codes /\ Renews(t, origin[t])
    BY DEF Invariants, Base, TypeOK, TokensMatchApproval, Renews
<1>2. origin[u] # origin[t]
    BY <1>1 DEF Invariants, OneCredentialPerApproval, Renews
<1>3. TokenEntry(t).of = origin[t] /\ TokenEntry(u).of = origin[u]
    BY DEF TokenEntry
<1> QED BY <1>2, <1>3
-----------------------------------------------------------------------------
LEMMA InitLedger == Init => Ledger!Init
<1> SUFFICES ASSUME Init PROVE Live = {} /\ {c \in Codes : approval[c] # None} = {}
    BY DEF Ledger!Init
<1>1. \A e : e \notin Live
    BY InLedger DEF Init
<1>2. \A c \in Codes : approval[c] = None
    BY DEF Init
<1> QED BY <1>1, <1>2

(* IssueCode enters an approval. *)
LEMMA IssueApproves ==
    ASSUME Invariants, NEW c \in Codes, IssueCode(c)
    PROVE  \E g \in RefreshGrants : Ledger!Approve(c, g)
<1>t. TypeOK
    BY DEF Invariants, Base
<1>1. PICK g \in Approvals : /\ codes' = [codes EXCEPT ![c] = g]
                             /\ approval' = [approval EXCEPT ![c] = g]
    BY DEF IssueCode
<1>2. g \in Grants /\ g # None /\ Lasting(g) \in RefreshGrants
    BY EndpointAssumption, LastingType
<1>3. codes[c] = None /\ approval[c] = None
    BY NothingUnapproved DEF Invariants, IssueCode
<1>4. codes'[c] = g /\ \A d \in Codes \ {c} : codes'[d] = codes[d]
    BY <1>1, <1>t DEF TypeOK
<1>5. /\ CodeEntry(c)' = [of |-> c, form |-> "code", grant |-> Lasting(g)]
      /\ \A d \in Codes \ {c} : CodeEntry(d)' = CodeEntry(d)
    BY <1>4 DEF CodeEntry, Lasting
<1>6. /\ \A r \in Requests : grant'[r] = grant[r] /\ HandEntry(r)' = HandEntry(r)
      /\ \A t \in Tokens : refresh'[t] = refresh[t] /\ TokenEntry(t)' = TokenEntry(t)
    BY DEF IssueCode, HandEntry, ApprovalOf, Lasting, TokenEntry
<1>7. Live' = Live \cup {[of |-> c, form |-> "code", grant |-> Lasting(g)]}
    BY <1>2, <1>3, <1>4, <1>5, <1>6, InLedger, InNextLedger
<1>8. {d \in Codes : approval'[d] # None} = {d \in Codes : approval[d] # None} \cup {c}
    BY <1>1, <1>2, <1>t DEF TypeOK
<1> QED BY <1>2, <1>3, <1>7, <1>8 DEF Ledger!Approve

(* Consume takes a code ... *)
LEMMA ConsumeTakes ==
    ASSUME Invariants, NEW r \in Requests, Consume(r)
    PROVE  \E e \in Live : Ledger!Take(e)
<1> DEFINE c == presented[r]
<1>t. TypeOK /\ GrantHeld
    BY DEF Invariants, Base
<1>1. c \in Codes /\ codes[c] # None /\ codes'[c] = None /\ grant[r] = None
    BY <1>t DEF Consume, TypeOK, GrantHeld
<1>2. \A d \in Codes \ {c} : codes'[d] = codes[d] /\ CodeEntry(d)' = CodeEntry(d)
    BY <1>t DEF Consume, TypeOK, CodeEntry
<1>3. grant'[r] = codes[c] /\ HandEntry(r)' = [CodeEntry(c) EXCEPT !.form = "hand"]
    <2>1. grant'[r] = codes[c] /\ ApprovalOf(r)' = c
        BY <1>t, <1>1 DEF Consume, TypeOK, ApprovalOf
    <2> QED BY <2>1 DEF HandEntry, CodeEntry, Lasting
<1>4. \A s \in Requests \ {r} : grant'[s] = grant[s] /\ HandEntry(s)' = HandEntry(s)
    BY <1>t DEF Consume, TypeOK, HandEntry, ApprovalOf, Lasting, history
<1>5. \A t \in Tokens : refresh'[t] = refresh[t] /\ TokenEntry(t)' = TokenEntry(t)
    BY DEF Consume, TokenEntry, history
<1>6. UNCHANGED {d \in Codes : approval[d] # None}
    BY DEF Consume, history
<1>7. CodeEntry(c) \in Live /\ CodeEntry(c).form = "code"
    BY <1>1, InLedger DEF CodeEntry
<1> HIDE DEF c
<1>8. Live' = (Live \ {CodeEntry(c)}) \cup {HandEntry(r)'}
    BY <1>1, <1>2, <1>3, <1>4, <1>5, InLedger, InNextLedger, FormsDiffer
<1> QED BY <1>3, <1>6, <1>7, <1>8 DEF Ledger!Take

(* ... and Exchange a refresh token. *)
LEMMA ExchangeTakes ==
    ASSUME Invariants, NEW r \in Requests, Exchange(r)
    PROVE  \E e \in Live : Ledger!Take(e)
<1> DEFINE u == presented[r]
<1>t. TypeOK /\ GrantHeld
    BY DEF Invariants, Base
<1>1. /\ u \in Tokens /\ u \notin Codes /\ refresh[u] # None
      /\ refresh'[u] = None /\ grant[r] = None
    BY <1>t, EndpointAssumption DEF Exchange, TypeOK, GrantHeld
<1>2. \A t \in Tokens \ {u} : refresh'[t] = refresh[t] /\ TokenEntry(t)' = TokenEntry(t)
    BY <1>t DEF Exchange, TypeOK, TokenEntry, history
<1>3. grant'[r] = refresh[u] /\ HandEntry(r)' = [TokenEntry(u) EXCEPT !.form = "hand"]
    <2>1. grant'[r] = refresh[u] /\ ApprovalOf(r)' = origin[u]
        BY <1>t, <1>1 DEF Exchange, TypeOK, ApprovalOf, history
    <2>2. Lasting(refresh[u]) = refresh[u]
        BY <1>t, <1>1, LastingOnce DEF TypeOK
    <2>3. Lasting(grant[r])' = Lasting(refresh[u])
        BY <2>1 DEF Lasting
    <2> QED BY <2>1, <2>2, <2>3 DEF HandEntry, TokenEntry
<1>4. \A s \in Requests \ {r} : grant'[s] = grant[s] /\ HandEntry(s)' = HandEntry(s)
    BY <1>t DEF Exchange, TypeOK, HandEntry, ApprovalOf, Lasting, history
<1>5. \A c \in Codes : codes'[c] = codes[c] /\ CodeEntry(c)' = CodeEntry(c)
    BY DEF Exchange, CodeEntry, Lasting
<1>6. UNCHANGED {d \in Codes : approval[d] # None}
    BY DEF Exchange, history
<1>7. TokenEntry(u) \in Live /\ TokenEntry(u).form = "token"
    BY <1>1, InLedger DEF TokenEntry
<1> HIDE DEF u
<1>8. Live' = (Live \ {TokenEntry(u)}) \cup {HandEntry(r)'}
    <2>1. \A t \in Tokens \ {u} : refresh[t] # None => TokenEntry(t) # TokenEntry(u)
        BY <1>1, TokensDiffer
    <2> QED BY <1>1, <1>2, <1>3, <1>4, <1>5, <2>1, InLedger, InNextLedger, FormsDiffer
<1> QED BY <1>3, <1>6, <1>7, <1>8 DEF Ledger!Take

(* A handler that returns an error loses what its request carried, if it   *)
(* carried anything.                                                       *)
LEMMA ReturnLoses ==
    ASSUME Invariants, NEW r \in Requests, Return(r),
           UNCHANGED <<codes, refresh, approval, origin>>
    PROVE  \/ UNCHANGED Ledger!vars
           \/ \E e \in Live : Ledger!Lose(e)
<1>t. TypeOK
    BY DEF Invariants, Base
<1>1. grant'[r] = None
    BY <1>t DEF Return, TypeOK
<1>2. \A s \in Requests \ {r} : grant'[s] = grant[s] /\ HandEntry(s)' = HandEntry(s)
    BY <1>t DEF Return, TypeOK, HandEntry, ApprovalOf, Lasting
<1>3. /\ \A c \in Codes : codes'[c] = codes[c] /\ CodeEntry(c)' = CodeEntry(c)
      /\ \A t \in Tokens : refresh'[t] = refresh[t] /\ TokenEntry(t)' = TokenEntry(t)
    BY DEF CodeEntry, TokenEntry, Lasting
<1>4. UNCHANGED {d \in Codes : approval[d] # None}
    OBVIOUS
<1>5. CASE grant[r] = None
    <2>1. Live' = Live
        BY <1>1, <1>2, <1>3, <1>5, InLedger, InNextLedger
    <2> QED BY <1>4, <2>1 DEF Ledger!vars
<1>6. CASE grant[r] # None
    <2>1. HandEntry(r) \in Live /\ HandEntry(r).form = "hand"
        BY <1>6, InLedger DEF HandEntry
    <2>2. \A s \in Requests \ {r} : grant[s] # None => HandEntry(s) # HandEntry(r)
        BY <1>6, HandsDiffer
    <2>3. Live' = Live \ {HandEntry(r)}
        BY <1>1, <1>2, <1>3, <2>2, InLedger, InNextLedger, FormsDiffer
    <2> QED BY <1>4, <2>1, <2>3 DEF Ledger!Lose
<1> QED BY <1>5, <1>6

(* Answer renews it as a fresh refresh token. *)
LEMMA AnswerRenews ==
    ASSUME Invariants, NEW r \in Requests, Answer(r)
    PROVE  \E e \in Live : Ledger!Renew(e)
<1>t. TypeOK /\ GrantHeld /\ TokensMatchApproval
    BY DEF Invariants, Base
<1>0. PICK u \in Tokens : /\ origin[u] = None
                          /\ refresh' = [refresh EXCEPT ![u] = ToStore(r)]
                          /\ origin' = [origin EXCEPT ![u] = ApprovalOf(r)]
    BY DEF Answer
<1>1. Return(r) /\ UNCHANGED <<codes, approval>>
    BY DEF Answer
<1>2. grant[r] \in Grants \cup RefreshGrants /\ grant[r] # None /\ grant'[r] = None
    BY <1>t, <1>1, EndpointAssumption DEF Answer, GrantHeld, Return, TypeOK
<1>3. refresh[u] = None /\ \A s \in Requests : grant[s] # None => presented[s] # u
    BY <1>t, <1>0, EndpointAssumption DEF TokensMatchApproval, GrantMatches, ApprovalOf
<1>4. /\ refresh'[u] = Lasting(grant[r]) /\ refresh'[u] # None
      /\ TokenEntry(u)' = [HandEntry(r) EXCEPT !.form = "token"]
    <2>1. Lasting(grant[r]) # None
        BY <1>2, LastingType, EndpointAssumption
    <2>2. refresh'[u] = Lasting(grant[r]) /\ origin'[u] = ApprovalOf(r)
        BY <1>t, <1>0 DEF TypeOK, ToStore
    <2> QED BY <2>1, <2>2 DEF TokenEntry, HandEntry
<1>5. \A t \in Tokens \ {u} : refresh'[t] = refresh[t] /\ TokenEntry(t)' = TokenEntry(t)
    BY <1>t, <1>0 DEF TypeOK, TokenEntry
<1>6. \A s \in Requests \ {r} :
          /\ grant'[s] = grant[s]
          /\ grant[s] # None => HandEntry(s)' = HandEntry(s)
    <2>1. \A s \in Requests \ {r} : grant'[s] = grant[s] /\ presented'[s] = presented[s]
        BY <1>t, <1>1 DEF Return, TypeOK
    <2>2. \A s \in Requests \ {r} : grant[s] # None => ApprovalOf(s)' = ApprovalOf(s)
        BY <1>0, <1>3, <2>1 DEF ApprovalOf
    <2> QED BY <2>1, <2>2 DEF HandEntry, Lasting
<1>7. \A c \in Codes : codes'[c] = codes[c] /\ CodeEntry(c)' = CodeEntry(c)
    BY <1>1 DEF CodeEntry, Lasting
<1>8. UNCHANGED {d \in Codes : approval[d] # None}
    BY <1>1
<1>9. HandEntry(r) \in Live /\ HandEntry(r).form = "hand"
    BY <1>2, InLedger DEF HandEntry
<1>10. Live' = (Live \ {HandEntry(r)}) \cup {TokenEntry(u)'}
    <2>1. \A s \in Requests \ {r} : grant[s] # None => HandEntry(s) # HandEntry(r)
        BY <1>2, HandsDiffer
    <2> QED BY <1>2, <1>3, <1>4, <1>5, <1>6, <1>7, <2>1, InLedger, InNextLedger, FormsDiffer
<1> QED BY <1>4, <1>8, <1>9, <1>10 DEF Ledger!Renew

(* A crash leaves the refresh tokens. *)
LEMMA CrashLosesTheRest ==
    ASSUME Invariants, Crash
    PROVE  Ledger!Crash
<1>1. /\ \A c \in Codes : codes'[c] = None
      /\ \A r \in Requests : grant'[r] = None
      /\ \A t \in Tokens : refresh'[t] = refresh[t] /\ TokenEntry(t)' = TokenEntry(t)
      /\ UNCHANGED {d \in Codes : approval[d] # None}
    BY DEF Crash, TokenEntry, history
<1>2. /\ \A c \in Codes : CodeEntry(c).form # "token"
      /\ \A r \in Requests : HandEntry(r).form # "token"
      /\ \A t \in Tokens : TokenEntry(t).form = "token"
    BY DEF CodeEntry, HandEntry, TokenEntry
<1>3. Live' = {e \in Live : e.form = "token"}
    BY <1>1, <1>2, InLedger, InNextLedger
<1> QED BY <1>1, <1>3 DEF Ledger!Crash

(* The other steps move nothing. *)
LEMMA TheRestMovesNothing ==
    ASSUME Invariants,
           \/ \E c \in Codes : Expire(c)
           \/ \E r \in Requests : Submit(r) \/ Mint(r)
           \/ Restart \/ UNCHANGED vars
    PROVE  UNCHANGED Ledger!vars
<1>t. TypeOK /\ GrantHeld
    BY DEF Invariants, Base
<1>1. UNCHANGED <<codes, refresh, grant, approval, origin>>
    BY DEF Expire, Submit, Mint, Restart, vars, history
<1>2. \A r \in Requests : grant[r] # None => presented'[r] = presented[r]
    <2>1. ASSUME NEW r \in Requests, Submit(r)
          PROVE  \A s \in Requests : grant[s] # None => presented'[s] = presented[s]
        BY <2>1, <1>t DEF Submit, TypeOK, GrantHeld
    <2> QED BY <2>1 DEF Expire, Mint, Restart, vars
<1>3. \A r \in Requests : grant[r] # None => HandEntry(r)' = HandEntry(r)
    BY <1>1, <1>2 DEF HandEntry, ApprovalOf, Lasting
<1>4. /\ \A c \in Codes : CodeEntry(c)' = CodeEntry(c)
      /\ \A t \in Tokens : TokenEntry(t)' = TokenEntry(t)
    BY <1>1 DEF CodeEntry, TokenEntry, Lasting
<1>5. Live' = Live
    BY <1>1, <1>3, <1>4, InLedger, InNextLedger
<1> QED BY <1>1, <1>5 DEF Ledger!vars
-----------------------------------------------------------------------------
LEMMA NextKeepsTheLedger == Invariants /\ [Next]_vars => [Ledger!Next]_(Ledger!vars)
<1> SUFFICES ASSUME Invariants, [Next]_vars
             PROVE  [Ledger!Next]_(Ledger!vars)
    OBVIOUS
<1>1. ASSUME NEW c \in Codes, IssueCode(c) PROVE Ledger!Next
    BY <1>1, IssueApproves DEF Ledger!Next
<1>2. ASSUME NEW r \in Requests, Consume(r) PROVE Ledger!Next
    BY <1>2, ConsumeTakes DEF Ledger!Next
<1>3. ASSUME NEW r \in Requests, Exchange(r) PROVE Ledger!Next
    BY <1>3, ExchangeTakes DEF Ledger!Next
<1>4. ASSUME NEW r \in Requests, Answer(r) PROVE Ledger!Next
    BY <1>4, AnswerRenews DEF Ledger!Next
<1>5. ASSUME NEW r \in Requests,
             Unknown(r) \/ ExchangeFails(r) \/ Refuse(r) \/ MintFails(r) \/ AnswerFails(r)
      PROVE  [Ledger!Next]_(Ledger!vars)
    <2>1. Return(r) /\ UNCHANGED <<codes, refresh, approval, origin>>
        BY <1>5 DEF Unknown, ExchangeFails, Refuse, MintFails, AnswerFails, history
    <2> QED BY <2>1, ReturnLoses DEF Ledger!Next
<1>6. CASE Crash
    BY <1>6, CrashLosesTheRest DEF Ledger!Next
<1>7. ASSUME \/ \E c \in Codes : Expire(c)
             \/ \E r \in Requests : Submit(r) \/ Mint(r)
             \/ Restart \/ UNCHANGED vars
      PROVE  UNCHANGED Ledger!vars
    BY <1>7, TheRestMovesNothing
<1> QED BY <1>1, <1>2, <1>3, <1>4, <1>5, <1>6, <1>7 DEF Next, Handle

(* The endpoint implements the ledger of approvals: none is ever doubled,  *)
(* none returns after it was lost, and each keeps what was approved.       *)
THEOREM EndpointKeepsTheLedger == Spec => KeepsTheLedger
<1>1. Spec => []Invariants
    BY BaseHolds, OneCredential, PTL DEF Invariants
<1> QED BY <1>1, InitLedger, NextKeepsTheLedger, PTL DEF Spec, KeepsTheLedger, Ledger!Spec
=============================================================================
