---------------------------- MODULE AccessProofs ----------------------------
(***************************************************************************)
(* Safety of sign-in for every number of requests, handshakes, links and   *)
(* addresses and for all lifetimes: one session per handshake, one account *)
(* per address, one sign-in per magic link, no session without a sign-in.  *)
(***************************************************************************)
EXTENDS Access, TLAPS

(* What a request's locals hold at the steps that use them.                *)
Locals ==
    \A r \in Requests :
        /\ step[r] \in {"login", "registering", "absent", "linking"} => email[r] \in Emails
        /\ step[r] = "linking" => handshake[r] \in Handshakes
        /\ step[r] = "consumed" => link[r] \in Links /\ links[link[r]] \in LinkRows
        /\ step[r] \in {"binding", "bound"} =>
             email[r] \in accounts \ Inactive /\ handshake[r] \in handshakes

(* A handshake that has been bound belongs to one request until the token  *)
(* is signed, and to that token afterwards.                                *)
Sessions ==
    /\ \A t \in Blended : t.handshake \in Handshakes /\ t.user = bound[t.handshake]
    /\ \A t, u \in Blended : t.handshake = u.handshake => t = u
    /\ \A r \in Requests : step[r] = "bound" =>
         /\ bound[handshake[r]] = email[r]
         /\ \A t \in Blended : t.handshake # handshake[r]
    /\ \A r, s \in Requests :
         step[r] = "bound" /\ step[s] = "bound" /\ handshake[r] = handshake[s] => r = s

(* A spent link belongs to one request until the token is signed.          *)
LinkTokens ==
    /\ \A t \in tokens : t.link # None =>
         links[t.link] \in LinkRows /\ links[t.link].used /\ links[t.link].email = t.user
    /\ \A t, u \in tokens : t.link # None /\ t.link = u.link => t = u
    /\ \A r \in Requests : step[r] = "consumed" =>
         /\ links[link[r]].used
         /\ \A t \in tokens : t.link # link[r]
    /\ \A r, s \in Requests :
         step[r] = "consumed" /\ step[s] = "consumed" /\ link[r] = link[s] => r = s

(* A request that binds acts for a user with a user token.                 *)
SignedIn(e) == \E u \in tokens : u.kind = "user" /\ u.user = e

SignIns ==
    /\ \A t \in Blended : SignedIn(t.user)
    /\ \A t \in tokens : t.kind # "device" => t.user \in accounts \ Inactive
    /\ \A r \in Requests : step[r] \in {"binding", "bound"} => SignedIn(email[r])

(* Accounts that were there before stay.                                   *)
Accounts == Registered \subseteq accounts /\ OneAccountPerAddress

IInv == AccessTypeOK /\ Locals /\ Sessions /\ LinkTokens /\ SignIns /\ Accounts

LEMMA InitIInv == AccessInit => IInv
  <1> SUFFICES ASSUME AccessInit PROVE IInv
    OBVIOUS
  <1>1. AccessTypeOK
    BY AccessAssumption DEF AccessInit, AccessTypeOK, RowsType, LocalsType
  <1>2. Locals /\ Accounts
    BY DEF AccessInit, Locals, Accounts, OneAccountPerAddress
  <1>3. Sessions /\ LinkTokens /\ SignIns
    BY DEF AccessInit, Sessions, LinkTokens, SignIns, Blended
  <1>4. QED
    BY <1>1, <1>2, <1>3 DEF IInv


(* Type correctness of a step, one action at a time.                       *)
LEMMA NextTypeOK == IInv /\ [AccessNext]_accessVars => AccessTypeOK'
  <1> SUFFICES ASSUME IInv, [AccessNext]_accessVars PROVE AccessTypeOK'
    OBVIOUS
  <1> USE DEF AccessTypeOK, RowsType, LocalsType, rows, locals, Goto
  <1>0. AccessTypeOK /\ Locals
    BY DEF IInv
  <1>1. ASSUME NEW h \in Handshakes, CreateHandshake(h) PROVE AccessTypeOK'
    <2>1. tokens' \subseteq Token
      BY <1>0, <1>1, AccessAssumption DEF CreateHandshake, Token
    <2>2. QED
      BY <1>0, <1>1, <2>1, AccessAssumption DEF CreateHandshake
  <1>2. ASSUME NEW r \in Requests, NEW n \in {"login", "registering", "linking"},
               NEW e \in Emails, NEW h \in Handshakes \cup {None}, Start(r, n, e, h)
        PROVE  AccessTypeOK'
    BY <1>0, <1>2 DEF Start, InFlight
  <1>3. ASSUME NEW r \in Requests, RegisterLookup(r) PROVE AccessTypeOK'
    BY <1>0, <1>3 DEF RegisterLookup, InFlight
  <1>4. ASSUME NEW r \in Requests, RegisterCreate(r) PROVE AccessTypeOK'
    <2>1. email[r] \in Emails
      BY <1>0, <1>4 DEF Locals, RegisterCreate
    <2>2. QED
      BY <1>0, <1>4, <2>1 DEF RegisterCreate
  <1>5. ASSUME NEW r \in Requests, Login(r) PROVE AccessTypeOK'
    <2>1. UserToken(r, email[r], None) \in Token
      BY <1>0, AccessAssumption DEF UserToken, Token
    <2>2. QED
      BY <1>0, <1>5, <2>1 DEF Login
  <1>6. ASSUME NEW r \in Requests, NEW l \in Links, CreateLink(r, l) PROVE AccessTypeOK'
    <2>1. email[r] \in Emails /\ handshake[r] \in Handshakes
      BY <1>0, <1>6 DEF Locals, CreateLink
    <2>2. [email |-> Lower[email[r]], asked |-> email[r], handshake |-> handshake[r],
           expires |-> now + LinkTTL, used |-> FALSE] \in LinkRows
      BY <1>0, <2>1, AccessAssumption DEF LinkRows
    <2>3. links' \in [Links -> LinkRows \cup {None}]
      BY <1>0, <1>6, <2>2 DEF CreateLink
    <2>4. QED
      BY <1>0, <1>6, <2>3 DEF CreateLink
  <1>7. ASSUME NEW r \in Requests, NEW l \in Links, ConsumeLink(r, l) PROVE AccessTypeOK'
    <2>1. links[l] \in LinkRows
      BY <1>0, <1>7 DEF ConsumeLink
    <2>2. [links[l] EXCEPT !.used = TRUE] \in LinkRows
      BY <2>1 DEF LinkRows
    <2>3. links' = [links EXCEPT ![l] = [links[l] EXCEPT !.used = TRUE]]
      BY <1>7 DEF ConsumeLink
    <2>4. links' \in [Links -> LinkRows \cup {None}]
      BY <1>0, <2>2, <2>3
    <2>5. QED
      BY <1>0, <1>7, <2>4 DEF ConsumeLink, InFlight
  <1>8. ASSUME NEW r \in Requests, FinishLink(r) PROVE AccessTypeOK'
    <2>1. link[r] \in Links /\ links[link[r]].email \in Emails
      BY <1>0, <1>8 DEF Locals, FinishLink, LinkRows
    <2>2. UserToken(r, links[link[r]].email, link[r]) \in Token
      BY <1>0, <2>1, AccessAssumption DEF UserToken, Token
    <2>3. QED
      BY <1>0, <1>8, <2>2 DEF FinishLink
  <1>9. ASSUME NEW r \in Requests, NEW t \in tokens, NEW h \in Handshakes, StartBind(r, t, h)
        PROVE  AccessTypeOK'
    <2>1. t.user \in Emails \cup {None}
      BY <1>0 DEF Token
    <2>2. QED
      BY <1>0, <1>9, <2>1 DEF StartBind, InFlight
  <1>10. ASSUME NEW r \in Requests, BindUser(r) PROVE AccessTypeOK'
    BY <1>0, <1>10 DEF BindUser, InFlight
  <1>11. ASSUME NEW r \in Requests, IssueBlended(r) PROVE AccessTypeOK'
    <2>1. handshake[r] \in Handshakes
      BY <1>0, <1>11 DEF Locals, IssueBlended
    <2>2. tokens' \subseteq Token
      BY <1>0, <1>11, <2>1, AccessAssumption DEF IssueBlended, Token
    <2>3. QED
      BY <1>0, <1>11, <2>2 DEF IssueBlended
  <1>12. ASSUME NEW r \in Requests, Fail(r) PROVE AccessTypeOK'
    BY <1>0, <1>12 DEF Fail
  <1>13. CASE Tick
    BY <1>0, <1>13 DEF Tick
  <1>14. CASE UNCHANGED accessVars
    BY <1>0, <1>14 DEF accessVars
  <1>15. QED
    BY <1>1, <1>2, <1>3, <1>4, <1>5, <1>6, <1>7, <1>8, <1>9, <1>10, <1>11, <1>12, <1>13, <1>14
       DEF AccessNext, Entry, Progress

(* The row a link action leaves behind.                                    *)
LEMMA ConsumedRow ==
    ASSUME IInv, NEW r \in Requests, NEW l \in Links, ConsumeLink(r, l)
    PROVE  /\ links[l] \in LinkRows /\ ~links[l].used
           /\ links'[l] \in LinkRows /\ links'[l].used
           /\ links'[l].email = links[l].email
           /\ \A m \in Links \ {l} : links'[m] = links[m]
  <1>1. links \in [Links -> LinkRows \cup {None}]
    BY DEF IInv, AccessTypeOK, RowsType
  <1>2. links[l] \in LinkRows /\ ~links[l].used
    BY <1>1 DEF ConsumeLink
  <1>3. links' = [links EXCEPT ![l] = [links[l] EXCEPT !.used = TRUE]]
    BY DEF ConsumeLink
  <1>4. /\ [links[l] EXCEPT !.used = TRUE] \in LinkRows
        /\ [links[l] EXCEPT !.used = TRUE].used
        /\ [links[l] EXCEPT !.used = TRUE].email = links[l].email
    BY <1>2 DEF LinkRows
  <1>5. QED
    BY <1>1, <1>2, <1>3, <1>4

LEMMA NextLocals == IInv /\ [AccessNext]_accessVars => Locals'
  <1> SUFFICES ASSUME IInv, [AccessNext]_accessVars PROVE Locals'
    OBVIOUS
  <1> USE DEF Locals, rows, locals, Goto
  <1>0. /\ Locals
        /\ step \in [Requests -> {"idle", "done", "registered", "failed", "unknown"} \cup InFlight]
        /\ email \in [Requests -> Emails \cup {None}]
        /\ handshake \in [Requests -> Handshakes \cup {None}]
        /\ link \in [Requests -> Links \cup {None}]
        /\ links \in [Links -> LinkRows \cup {None}]
    BY DEF IInv, AccessTypeOK, RowsType, LocalsType
  <1>1. ASSUME NEW h \in Handshakes, CreateHandshake(h) PROVE Locals'
    BY <1>0, <1>1 DEF CreateHandshake
  <1>2. ASSUME NEW r \in Requests, NEW n \in {"login", "registering", "linking"},
               NEW e \in Emails, NEW h \in Handshakes \cup {None}, Start(r, n, e, h),
               n = "linking" => h \in Handshakes
        PROVE  Locals'
    BY <1>0, <1>2 DEF Start
  <1>3. ASSUME NEW r \in Requests, RegisterLookup(r) PROVE Locals'
    BY <1>0, <1>3 DEF RegisterLookup
  <1>4. ASSUME NEW r \in Requests, RegisterCreate(r) PROVE Locals'
    BY <1>0, <1>4 DEF RegisterCreate
  <1>5. ASSUME NEW r \in Requests, Login(r) PROVE Locals'
    BY <1>0, <1>5 DEF Login
  <1>6. ASSUME NEW r \in Requests, NEW l \in Links, CreateLink(r, l) PROVE Locals'
    <2>1. \A s \in Requests : step[s] = "consumed" => link[s] # l
      BY <1>0, <1>6, NoRowAssumption DEF CreateLink
    <2>2. \A m \in Links \ {l} : links'[m] = links[m]
      BY <1>0, <1>6 DEF CreateLink
    <2>3. QED
      BY <1>0, <1>6, <2>1, <2>2 DEF CreateLink
  <1>7. ASSUME NEW r \in Requests, NEW l \in Links, ConsumeLink(r, l) PROVE Locals'
    <2>1. /\ step' = [step EXCEPT ![r] = "consumed"]
          /\ link' = [link EXCEPT ![r] = l]
          /\ UNCHANGED <<email, handshake, handshakes, accounts>>
      BY <1>7 DEF ConsumeLink
    <2>2. links'[l] \in LinkRows /\ \A m \in Links \ {l} : links'[m] = links[m]
      BY <1>7, ConsumedRow
    <2>3. QED
      BY <1>0, <2>1, <2>2
  <1>8. ASSUME NEW r \in Requests, FinishLink(r) PROVE Locals'
    BY <1>0, <1>8 DEF FinishLink
  <1>9. ASSUME NEW r \in Requests, NEW t \in tokens, NEW h \in Handshakes, StartBind(r, t, h)
        PROVE  Locals'
    <2>1. t.user \in accounts \ Inactive
      BY <1>9 DEF IInv, SignIns, StartBind, Principal
    <2>2. h \in handshakes
      BY <1>9 DEF StartBind, Unexpired
    <2>3. QED
      BY <1>0, <1>9, <2>1, <2>2 DEF StartBind
  <1>10. ASSUME NEW r \in Requests, BindUser(r) PROVE Locals'
    BY <1>0, <1>10 DEF BindUser
  <1>11. ASSUME NEW r \in Requests, IssueBlended(r) PROVE Locals'
    BY <1>0, <1>11 DEF IssueBlended
  <1>12. ASSUME NEW r \in Requests, Fail(r) PROVE Locals'
    BY <1>0, <1>12 DEF Fail
  <1>13. CASE Tick \/ UNCHANGED accessVars
    BY <1>0, <1>13 DEF Tick, accessVars
  <1>14. QED
    BY <1>1, <1>2, <1>3, <1>4, <1>5, <1>6, <1>7, <1>8, <1>9, <1>10, <1>11, <1>12, <1>13
       DEF AccessNext, Entry, Progress

(* Blended tokens come from IssueBlended only.                             *)
LEMMA NextSessions == IInv /\ [AccessNext]_accessVars => Sessions'
  <1> SUFFICES ASSUME IInv, [AccessNext]_accessVars PROVE Sessions'
    OBVIOUS
  <1> USE DEF rows, locals, Goto
  <1>0. /\ Sessions
        /\ Locals
        /\ step \in [Requests -> {"idle", "done", "registered", "failed", "unknown"} \cup InFlight]
        /\ email \in [Requests -> Emails \cup {None}]
        /\ handshake \in [Requests -> Handshakes \cup {None}]
        /\ bound \in [Handshakes -> Emails \cup {None}]
        /\ handshakes \subseteq Handshakes /\ accounts \subseteq Emails
    BY DEF IInv, AccessTypeOK, RowsType, LocalsType
  <1>1. ASSUME NEW h \in Handshakes, CreateHandshake(h) PROVE Sessions'
    <2>1. Blended' = Blended
      BY <1>1 DEF CreateHandshake, Blended
    <2>2. QED
      BY <1>0, <1>1, <2>1 DEF Sessions, CreateHandshake
  <1>2. ASSUME NEW r \in Requests, NEW n \in {"login", "registering", "linking"},
               NEW e \in Emails, NEW h \in Handshakes \cup {None}, Start(r, n, e, h)
        PROVE  Sessions'
    <2>1. \A s \in Requests : step'[s] = "bound" =>
             s # r /\ step[s] = "bound" /\ handshake'[s] = handshake[s] /\ email'[s] = email[s]
      BY <1>0, <1>2 DEF Start
    <2>2. Blended' = Blended /\ bound' = bound
      BY <1>2 DEF Start, Blended
    <2>3. QED
      BY <1>0, <2>1, <2>2 DEF Sessions
  <1>3. ASSUME NEW r \in Requests,
               RegisterLookup(r) \/ RegisterCreate(r) \/ \E l \in Links : CreateLink(r, l)
        PROVE  Sessions'
    <2>1. Blended' = Blended
      BY <1>3 DEF RegisterLookup, RegisterCreate, CreateLink, Blended
    <2>2. QED
      BY <1>0, <1>3, <2>1 DEF Sessions, RegisterLookup, RegisterCreate, CreateLink
  <1>4. ASSUME NEW r \in Requests, Login(r) PROVE Sessions'
    <2>1. Blended' = Blended
      BY <1>4 DEF Login, Blended, UserToken
    <2>2. QED
      BY <1>0, <1>4, <2>1 DEF Sessions, Login
  <1>5. ASSUME NEW r \in Requests, NEW l \in Links, ConsumeLink(r, l) PROVE Sessions'
    <2>1. Blended' = Blended
      BY <1>5 DEF ConsumeLink, Blended
    <2>2. QED
      BY <1>0, <1>5, <2>1 DEF Sessions, ConsumeLink
  <1>6. ASSUME NEW r \in Requests, FinishLink(r) PROVE Sessions'
    <2>1. Blended' = Blended
      BY <1>6 DEF FinishLink, Blended, UserToken
    <2>2. QED
      BY <1>0, <1>6, <2>1 DEF Sessions, FinishLink
  <1>7. ASSUME NEW r \in Requests, NEW t \in tokens, NEW h \in Handshakes, StartBind(r, t, h)
        PROVE  Sessions'
    <2>1. \A s \in Requests : step'[s] = "bound" =>
             s # r /\ step[s] = "bound" /\ handshake'[s] = handshake[s] /\ email'[s] = email[s]
      BY <1>0, <1>7 DEF StartBind
    <2>2. Blended' = Blended /\ bound' = bound
      BY <1>7 DEF StartBind, Blended
    <2>3. QED
      BY <1>0, <2>1, <2>2 DEF Sessions
  <1>8. ASSUME NEW r \in Requests, BindUser(r) PROVE Sessions'
    <2> DEFINE h == handshake[r]
    <2>1. h \in Handshakes /\ email[r] \in Emails /\ bound[h] = None
      BY <1>0, <1>8 DEF Locals, BindUser
    <2>2. /\ bound' = [bound EXCEPT ![h] = email[r]]
          /\ step' = [step EXCEPT ![r] = "bound"]
          /\ UNCHANGED <<email, handshake>>
          /\ Blended' = Blended
      BY <1>8 DEF BindUser, Blended
    <2>3. \A t \in Blended : t.handshake # h
      <3>1. \A t \in Blended : t.user \in accounts \ Inactive
        BY DEF IInv, SignIns, Blended
      <3>2. \A t \in Blended : t.user # None
        BY <1>0, <3>1, AccessAssumption
      <3>3. QED
        BY <1>0, <2>1, <3>2 DEF Sessions
    <2>4. \A s \in Requests : step[s] = "bound" => handshake[s] # h
      BY <1>0, <2>1, AccessAssumption DEF Sessions, Locals
    <2>5. QED
      BY <1>0, <2>1, <2>2, <2>3, <2>4 DEF Sessions
  <1>9. ASSUME NEW r \in Requests, IssueBlended(r) PROVE Sessions'
    <2> DEFINE t == [kind |-> "blended", user |-> email[r], handshake |-> handshake[r],
                     link |-> None, request |-> r, expires |-> now + BlendedTTL]
    <2>1. Blended' = Blended \cup {t}
      BY <1>9 DEF IssueBlended, Blended
    <2>2. step[r] = "bound" /\ step' = [step EXCEPT ![r] = "done"]
      BY <1>9 DEF IssueBlended
    <2>3. UNCHANGED <<bound, email, handshake>>
      BY <1>9 DEF IssueBlended
    <2>4. t.handshake = handshake[r] /\ t.user = email[r] /\ handshake[r] \in Handshakes
      BY <1>0, <2>2 DEF Locals
    <2>5. bound[t.handshake] = t.user /\ \A u \in Blended : u.handshake # t.handshake
      BY <1>0, <2>2, <2>4 DEF Sessions
    <2> HIDE DEF t
    <2>6. QED
      BY <1>0, <2>1, <2>2, <2>3, <2>4, <2>5 DEF Sessions
  <1>10. ASSUME NEW r \in Requests, Fail(r) PROVE Sessions'
    <2>1. Blended' = Blended
      BY <1>10 DEF Fail, Blended
    <2>2. QED
      BY <1>0, <1>10, <2>1 DEF Sessions, Fail
  <1>11. CASE Tick \/ UNCHANGED accessVars
    <2>1. Blended' = Blended
      BY <1>11 DEF Tick, accessVars, Blended
    <2>2. QED
      BY <1>0, <1>11, <2>1 DEF Sessions, Tick, accessVars
  <1>12. QED
    BY <1>1, <1>2, <1>3, <1>4, <1>5, <1>6, <1>7, <1>8, <1>9, <1>10, <1>11
       DEF AccessNext, Entry, Progress

(* User tokens come from Login and FinishLink, and only FinishLink's name a link. *)
LEMMA NextLinkTokens == IInv /\ [AccessNext]_accessVars => LinkTokens'
  <1> SUFFICES ASSUME IInv, [AccessNext]_accessVars PROVE LinkTokens'
    OBVIOUS
  <1> USE DEF rows, locals, Goto
  <1>0. /\ LinkTokens
        /\ Locals
        /\ step \in [Requests -> {"idle", "done", "registered", "failed", "unknown"} \cup InFlight]
        /\ link \in [Requests -> Links \cup {None}]
        /\ links \in [Links -> LinkRows \cup {None}]
        /\ \A t \in tokens : t.link \in Links \cup {None}
    BY DEF IInv, AccessTypeOK, RowsType, LocalsType, Token
  <1>1. ASSUME NEW h \in Handshakes, CreateHandshake(h) PROVE LinkTokens'
    <2> DEFINE t == [kind |-> "device", user |-> None, handshake |-> h, link |-> None,
                     request |-> None, expires |-> now + HandshakeTTL]
    <2>1. tokens' = tokens \cup {t} /\ t.link = None /\ UNCHANGED <<links, link, step>>
      BY <1>1 DEF CreateHandshake
    <2>2. \A r \in Requests : step[r] = "consumed" => link[r] # None
      BY <1>0, AccessAssumption DEF Locals
    <2> HIDE DEF t
    <2>3. QED
      BY <1>0, <2>1, <2>2 DEF LinkTokens
  <1>2. ASSUME NEW r \in Requests, NEW n \in {"login", "registering", "linking"},
               NEW e \in Emails, NEW h \in Handshakes \cup {None}, Start(r, n, e, h)
        PROVE  LinkTokens'
    <2>1. \A s \in Requests : step'[s] = "consumed" => step[s] = "consumed"
      BY <1>0, <1>2 DEF Start
    <2>2. UNCHANGED <<tokens, links, link>>
      BY <1>2 DEF Start
    <2>3. QED
      BY <1>0, <2>1, <2>2 DEF LinkTokens
  <1>3. ASSUME NEW r \in Requests, RegisterLookup(r) \/ RegisterCreate(r) PROVE LinkTokens'
    BY <1>0, <1>3 DEF LinkTokens, RegisterLookup, RegisterCreate
  <1>4. ASSUME NEW r \in Requests, Login(r) PROVE LinkTokens'
    <2> DEFINE t == UserToken(r, email[r], None)
    <2>1. t.link = None
      BY DEF UserToken
    <2>2. tokens' = tokens \cup {t} /\ step' = [step EXCEPT ![r] = "done"]
      BY <1>4 DEF Login
    <2>3. UNCHANGED <<links, link>>
      BY <1>4 DEF Login
    <2>4. \A s \in Requests : step[s] = "consumed" => link[s] # None
      BY <1>0, AccessAssumption DEF Locals
    <2> HIDE DEF t
    <2>5. QED
      BY <1>0, <2>1, <2>2, <2>3, <2>4 DEF LinkTokens
  <1>5. ASSUME NEW r \in Requests, NEW l \in Links, CreateLink(r, l) PROVE LinkTokens'
    <2>1. links[l] = None /\ \A m \in Links \ {l} : links'[m] = links[m]
      BY <1>0, <1>5 DEF CreateLink
    <2>2. \A t \in tokens : t.link # l
      BY <1>0, <2>1, NoRowAssumption, AccessAssumption DEF LinkTokens
    <2>3. \A s \in Requests : step[s] = "consumed" => link[s] # l /\ link[s] \in Links
      BY <1>0, <2>1, NoRowAssumption DEF Locals
    <2>4. \A s \in Requests : step'[s] = "consumed" => step[s] = "consumed"
      BY <1>0, <1>5 DEF CreateLink
    <2>5. UNCHANGED <<tokens, link>>
      BY <1>5 DEF CreateLink
    <2>6. QED
      BY <1>0, <2>1, <2>2, <2>3, <2>4, <2>5 DEF LinkTokens
  <1>6. ASSUME NEW r \in Requests, NEW l \in Links, ConsumeLink(r, l) PROVE LinkTokens'
    <2>1. /\ links[l] \in LinkRows /\ ~links[l].used
          /\ links'[l] \in LinkRows /\ links'[l].used
          /\ links'[l].email = links[l].email
          /\ \A m \in Links \ {l} : links'[m] = links[m]
      BY <1>6, ConsumedRow
    <2>2. \A t \in tokens : t.link # l
      BY <1>0, <2>1, AccessAssumption DEF LinkTokens
    <2>3. \A s \in Requests : step[s] = "consumed" => link[s] # l /\ link[s] \in Links
      BY <1>0, <2>1 DEF LinkTokens, Locals
    <2>4. /\ step' = [step EXCEPT ![r] = "consumed"]
          /\ link' = [link EXCEPT ![r] = l]
          /\ UNCHANGED tokens
      BY <1>6 DEF ConsumeLink
    <2>5. QED
      BY <1>0, <2>1, <2>2, <2>3, <2>4 DEF LinkTokens
  <1>7. ASSUME NEW r \in Requests, FinishLink(r) PROVE LinkTokens'
    <2> DEFINE t == UserToken(r, links[link[r]].email, link[r])
    <2>1. t.link = link[r] /\ t.user = links[link[r]].email
      BY DEF UserToken
    <2>2. step[r] = "consumed" /\ UNCHANGED <<links, link>>
      BY <1>7 DEF FinishLink
    <2>3. /\ links[link[r]] \in LinkRows /\ links[link[r]].used
          /\ \A u \in tokens : u.link # link[r]
      BY <1>0, <2>2 DEF Locals, LinkTokens
    <2>4. tokens' = tokens \cup {t} \/ tokens' = tokens
      BY <1>7 DEF FinishLink
    <2>5. \A s \in Requests : step'[s] = "consumed" => s # r /\ step[s] = "consumed"
      BY <1>0, <1>7 DEF FinishLink
    <2>6. \A s \in Requests : step'[s] = "consumed" => link[s] # link[r]
      BY <1>0, <2>2, <2>5 DEF LinkTokens
    <2> HIDE DEF t
    <2>7. QED
      BY <1>0, <2>1, <2>2, <2>3, <2>4, <2>5, <2>6 DEF LinkTokens
  <1>8. ASSUME NEW r \in Requests, NEW t \in tokens, NEW h \in Handshakes, StartBind(r, t, h)
        PROVE  LinkTokens'
    <2>1. \A s \in Requests : step'[s] = "consumed" => step[s] = "consumed"
      BY <1>0, <1>8 DEF StartBind
    <2>2. UNCHANGED <<tokens, links, link>>
      BY <1>8 DEF StartBind
    <2>3. QED
      BY <1>0, <2>1, <2>2 DEF LinkTokens
  <1>9. ASSUME NEW r \in Requests, BindUser(r) PROVE LinkTokens'
    <2>1. \A s \in Requests : step'[s] = "consumed" => step[s] = "consumed"
      BY <1>0, <1>9 DEF BindUser
    <2>2. UNCHANGED <<tokens, links, link>>
      BY <1>9 DEF BindUser
    <2>3. QED
      BY <1>0, <2>1, <2>2 DEF LinkTokens
  <1>10. ASSUME NEW r \in Requests, IssueBlended(r) PROVE LinkTokens'
    <2> DEFINE t == [kind |-> "blended", user |-> email[r], handshake |-> handshake[r],
                     link |-> None, request |-> r, expires |-> now + BlendedTTL]
    <2>1. t.link = None /\ tokens' = tokens \cup {t} /\ UNCHANGED <<links, link>>
      BY <1>10 DEF IssueBlended
    <2>2. \A s \in Requests : step'[s] = "consumed" => step[s] = "consumed"
      BY <1>0, <1>10 DEF IssueBlended
    <2>3. \A s \in Requests : step[s] = "consumed" => link[s] # None
      BY <1>0, AccessAssumption DEF Locals
    <2> HIDE DEF t
    <2>4. QED
      BY <1>0, <2>1, <2>2, <2>3 DEF LinkTokens
  <1>11. ASSUME NEW r \in Requests, Fail(r) PROVE LinkTokens'
    <2>1. \A s \in Requests : step'[s] = "consumed" => step[s] = "consumed"
      BY <1>0, <1>11 DEF Fail
    <2>2. UNCHANGED <<tokens, links, link>>
      BY <1>11 DEF Fail
    <2>3. QED
      BY <1>0, <2>1, <2>2 DEF LinkTokens
  <1>12. CASE Tick \/ UNCHANGED accessVars
    BY <1>0, <1>12 DEF LinkTokens, Tick, accessVars
  <1>13. QED
    BY <1>1, <1>2, <1>3, <1>4, <1>5, <1>6, <1>7, <1>8, <1>9, <1>10, <1>11, <1>12
       DEF AccessNext, Entry, Progress

(* A blended token takes over the user of a request that was let through.  *)
LEMMA NextSignIns == IInv /\ [AccessNext]_accessVars => SignIns'
  <1> SUFFICES ASSUME IInv, [AccessNext]_accessVars PROVE SignIns'
    OBVIOUS
  <1> USE DEF rows, locals, Goto
  <1>0. /\ SignIns
        /\ Locals
        /\ step \in [Requests -> {"idle", "done", "registered", "failed", "unknown"} \cup InFlight]
        /\ email \in [Requests -> Emails \cup {None}]
    BY DEF IInv, AccessTypeOK, LocalsType
  <1>1. ASSUME tokens' = tokens, accounts \subseteq accounts',
               \A s \in Requests : step'[s] \in {"binding", "bound"} =>
                  step[s] \in {"binding", "bound"} /\ email'[s] = email[s]
        PROVE  SignIns'
    BY <1>0, <1>1 DEF SignIns, SignedIn, Blended
  <1>2. ASSUME NEW t, tokens' = tokens \cup {t}, UNCHANGED <<accounts, email>>,
               t.kind # "device" => t.user \in accounts \ Inactive,
               t.kind = "blended" => SignedIn(t.user),
               \A s \in Requests : step'[s] \in {"binding", "bound"} =>
                  step[s] \in {"binding", "bound"}
        PROVE  SignIns'
    <2>1. \A e : SignedIn(e) => SignedIn(e)'
      BY <1>2 DEF SignedIn
    <2>2. \A u \in Blended' : u \in Blended \/ (u = t /\ t.kind = "blended")
      BY <1>2 DEF Blended
    <2>3. QED
      BY <1>0, <1>2, <2>1, <2>2 DEF SignIns
  <1>3. ASSUME NEW h \in Handshakes, CreateHandshake(h) PROVE SignIns'
    <2> DEFINE t == [kind |-> "device", user |-> None, handshake |-> h, link |-> None,
                     request |-> None, expires |-> now + HandshakeTTL]
    <2>1. tokens' = tokens \cup {t} /\ UNCHANGED <<accounts, email, step>>
      BY <1>3 DEF CreateHandshake
    <2>2. t.kind = "device"
      OBVIOUS
    <2> HIDE DEF t
    <2>3. QED
      BY <1>2, <2>1, <2>2
  <1>4. ASSUME NEW r \in Requests, NEW n \in {"login", "registering", "linking"},
               NEW e \in Emails, NEW h \in Handshakes \cup {None}, Start(r, n, e, h)
        PROVE  SignIns'
    BY <1>0, <1>1, <1>4 DEF Start
  <1>5. ASSUME NEW r \in Requests,
               RegisterLookup(r) \/ RegisterCreate(r) \/ \E l \in Links : CreateLink(r, l)
        PROVE  SignIns'
    BY <1>0, <1>1, <1>5 DEF RegisterLookup, RegisterCreate, CreateLink
  <1>6. ASSUME NEW r \in Requests, Login(r) PROVE SignIns'
    <2> DEFINE t == UserToken(r, email[r], None)
    <2>1. t.kind = "user" /\ t.user = email[r]
      BY DEF UserToken
    <2>2. /\ tokens' = tokens \cup {t} /\ UNCHANGED <<accounts, email>>
          /\ email[r] \in accounts \ Inactive
          /\ step' = [step EXCEPT ![r] = "done"]
      BY <1>6 DEF Login
    <2> HIDE DEF t
    <2>3. QED
      BY <1>0, <1>2, <2>1, <2>2
  <1>7. ASSUME NEW r \in Requests, NEW l \in Links, ConsumeLink(r, l) PROVE SignIns'
    <2>1. step' = [step EXCEPT ![r] = "consumed"] /\ UNCHANGED <<tokens, accounts, email>>
      BY <1>7 DEF ConsumeLink
    <2>2. QED
      BY <1>0, <1>1, <2>1
  <1>8. ASSUME NEW r \in Requests, FinishLink(r) PROVE SignIns'
    <2> DEFINE t == UserToken(r, links[link[r]].email, link[r])
    <2>1. t.kind = "user" /\ t.user = links[link[r]].email
      BY DEF UserToken
    <2>2. /\ UNCHANGED <<accounts, email>>
          /\ step' = [step EXCEPT ![r] = "done"] \/ step' = [step EXCEPT ![r] = "unknown"]
          /\ \/ tokens' = tokens
             \/ tokens' = tokens \cup {t} /\ links[link[r]].email \in accounts \ Inactive
      BY <1>8 DEF FinishLink
    <2> HIDE DEF t
    <2>3. QED
      BY <1>0, <1>1, <1>2, <2>1, <2>2
  <1>9. ASSUME NEW r \in Requests, NEW t \in tokens, NEW h \in Handshakes, StartBind(r, t, h)
        PROVE  SignIns'
    <2>1. SignedIn(t.user)
      <3>1. t.kind \in {"device", "user", "blended"} /\ t.kind # "device"
        BY <1>9 DEF IInv, AccessTypeOK, RowsType, Token, StartBind, Principal
      <3>2. QED
        BY <1>0, <3>1 DEF SignIns, SignedIn, Blended
    <2>2. /\ step' = [step EXCEPT ![r] = "binding"]
          /\ email' = [email EXCEPT ![r] = t.user]
          /\ UNCHANGED <<tokens, accounts>>
      BY <1>9 DEF StartBind
    <2>3. \A e : SignedIn(e)' <=> SignedIn(e)
      BY <2>2 DEF SignedIn
    <2>4. Blended' = Blended
      BY <2>2 DEF Blended
    <2>5. QED
      BY <1>0, <2>1, <2>2, <2>3, <2>4 DEF SignIns
  <1>10. ASSUME NEW r \in Requests, BindUser(r) PROVE SignIns'
    BY <1>0, <1>1, <1>10 DEF BindUser
  <1>11. ASSUME NEW r \in Requests, IssueBlended(r) PROVE SignIns'
    <2> DEFINE t == [kind |-> "blended", user |-> email[r], handshake |-> handshake[r],
                     link |-> None, request |-> r, expires |-> now + BlendedTTL]
    <2>1. t.kind = "blended" /\ t.user = email[r]
      OBVIOUS
    <2>2. step[r] = "bound" /\ step' = [step EXCEPT ![r] = "done"]
      BY <1>11 DEF IssueBlended
    <2>3. tokens' = tokens \cup {t} /\ UNCHANGED <<accounts, email>>
      BY <1>11 DEF IssueBlended
    <2>4. email[r] \in accounts \ Inactive /\ SignedIn(email[r])
      BY <1>0, <2>2 DEF Locals, SignIns
    <2> HIDE DEF t
    <2>5. QED
      BY <1>0, <1>2, <2>1, <2>2, <2>3, <2>4
  <1>12. ASSUME NEW r \in Requests, Fail(r) PROVE SignIns'
    BY <1>0, <1>1, <1>12 DEF Fail
  <1>13. CASE Tick \/ UNCHANGED accessVars
    BY <1>1, <1>13 DEF Tick, accessVars
  <1>14. QED
    BY <1>3, <1>4, <1>5, <1>6, <1>7, <1>8, <1>9, <1>10, <1>11, <1>12, <1>13
       DEF AccessNext, Entry, Progress

(* Only RegisterCreate adds accounts, and the address it adds is new.      *)
LEMMA NextAccounts == IInv /\ [AccessNext]_accessVars => Accounts'
  <1> SUFFICES ASSUME IInv, [AccessNext]_accessVars PROVE Accounts'
    OBVIOUS
  <1> USE DEF rows, locals, Goto
  <1>0. /\ Accounts
        /\ step \in [Requests -> {"idle", "done", "registered", "failed", "unknown"} \cup InFlight]
        /\ email \in [Requests -> Emails \cup {None}]
    BY DEF IInv, AccessTypeOK, LocalsType
  <1>1. ASSUME accounts' = accounts,
               \A s \in Requests : step'[s] = "registered" =>
                  step[s] = "registered" /\ email'[s] = email[s]
        PROVE  Accounts'
    BY <1>0, <1>1 DEF Accounts, OneAccountPerAddress
  <1>2. ASSUME NEW h \in Handshakes, CreateHandshake(h) PROVE Accounts'
    BY <1>1, <1>2 DEF CreateHandshake
  <1>3. ASSUME NEW r \in Requests, NEW n \in {"login", "registering", "linking"},
               NEW e \in Emails, NEW h \in Handshakes \cup {None}, Start(r, n, e, h)
        PROVE  Accounts'
    BY <1>0, <1>1, <1>3 DEF Start
  <1>4. ASSUME NEW r \in Requests, RegisterCreate(r) PROVE Accounts'
    <2>1. /\ email[r] \notin accounts
          /\ accounts' = accounts \cup {email[r]}
          /\ step' = [step EXCEPT ![r] = "registered"]
          /\ UNCHANGED email
      BY <1>4 DEF RegisterCreate
    <2>2. QED
      BY <1>0, <2>1 DEF Accounts, OneAccountPerAddress
  <1>5. ASSUME NEW r \in Requests, NEW l \in Links, ConsumeLink(r, l) PROVE Accounts'
    <2>1. step' = [step EXCEPT ![r] = "consumed"] /\ UNCHANGED <<accounts, email>>
      BY <1>5 DEF ConsumeLink
    <2>2. QED
      BY <1>0, <1>1, <2>1
  <1>6. ASSUME NEW r \in Requests,
               \/ RegisterLookup(r) \/ Login(r) \/ FinishLink(r) \/ BindUser(r)
               \/ IssueBlended(r) \/ Fail(r) \/ \E l \in Links : CreateLink(r, l)
        PROVE  Accounts'
    <2>1. /\ \E s \in {"absent", "done", "unknown", "bound", "failed"} : step' = [step EXCEPT ![r] = s]
          /\ UNCHANGED <<accounts, email>>
      BY <1>6 DEF RegisterLookup, Login, FinishLink, BindUser, IssueBlended, Fail, CreateLink
    <2>2. QED
      BY <1>0, <1>1, <2>1
  <1>7. ASSUME NEW r \in Requests, NEW t \in tokens, NEW h \in Handshakes, StartBind(r, t, h)
        PROVE  Accounts'
    <2>1. /\ step[r] = "idle" /\ step' = [step EXCEPT ![r] = "binding"]
          /\ email' = [email EXCEPT ![r] = t.user] /\ UNCHANGED accounts
      BY <1>7 DEF StartBind
    <2>2. QED
      BY <1>0, <1>1, <2>1
  <1>8. CASE Tick \/ UNCHANGED accessVars
    BY <1>1, <1>8 DEF Tick, accessVars
  <1>9. QED
    BY <1>2, <1>3, <1>4, <1>5, <1>6, <1>7, <1>8 DEF AccessNext, Entry, Progress

LEMMA NextIInv == IInv /\ [AccessNext]_accessVars => IInv'
  BY NextTypeOK, NextLocals, NextSessions, NextLinkTokens, NextSignIns, NextAccounts DEF IInv

LEMMA SpecIInv == AccessSpec => []IInv
  BY InitIInv, NextIInv, PTL DEF AccessSpec

-----------------------------------------------------------------------------

(* Every variable of Access keeps its type.                                *)
THEOREM AccessTypeCorrect == AccessSpec => []AccessTypeOK
  <1>1. IInv => AccessTypeOK
    BY DEF IInv
  <1>2. QED
    BY <1>1, SpecIInv, PTL

(* BindUseCase: of all binds of one handshake exactly one can get a blended *)
(* token, and it names the user the row is bound to.                       *)
THEOREM HandshakeIsBoundOnce == AccessSpec => []OneSessionPerHandshake
  <1>1. IInv => OneSessionPerHandshake
    BY DEF IInv, Sessions, OneSessionPerHandshake
  <1>2. QED
    BY <1>1, SpecIInv, PTL

(* RegisterUseCase: the lookup is only a courtesy, the insert decides.     *)
THEOREM AddressIsRegisteredOnce == AccessSpec => []OneAccountPerAddress
  <1>1. IInv => OneAccountPerAddress
    BY DEF IInv, Accounts
  <1>2. QED
    BY <1>1, SpecIInv, PTL

(* VerifyMagicLinkUseCase: one link, at most one token, for its address.   *)
THEOREM LinkSignsInOnce == AccessSpec => []OneLoginPerLink
  <1>1. IInv => OneLoginPerLink
    <2> SUFFICES ASSUME IInv PROVE OneLoginPerLink
      OBVIOUS
    <2>1. \A t \in tokens : t.link # None => links[t.link] # None
      BY NoRowAssumption DEF IInv, LinkTokens
    <2>2. QED
      BY <2>1 DEF IInv, LinkTokens, OneLoginPerLink
  <1>2. QED
    BY <1>1, SpecIInv, PTL

(* RequireUserPrincipal: no blended token without a user token before it.  *)
THEOREM SessionsNeedLogin == AccessSpec => []SessionsStartWithLogin
  <1>1. IInv => SessionsStartWithLogin
    BY DEF IInv, SignIns, SignedIn, SessionsStartWithLogin
  <1>2. QED
    BY <1>1, SpecIInv, PTL

(* BindUser: a row is bound from NULL, once, while the handshake is alive. *)
THEOREM BoundForGood == AccessSpec => BindingsAreFinal
  <1> DEFINE Bound == \A h \in Handshakes : bound'[h] # bound[h] =>
                        bound[h] = None /\ h \in handshakes /\ now < expiry[h]
  <1>1. ASSUME IInv, [AccessNext]_accessVars PROVE Bound
    <2>1. CASE UNCHANGED bound
      BY <2>1
    <2>2. ASSUME NEW r \in Requests, BindUser(r) PROVE Bound
      BY <1>1, <2>2 DEF IInv, AccessTypeOK, RowsType, Locals, BindUser
    <2>3. (\E r \in Requests : BindUser(r)) \/ UNCHANGED bound
      BY <1>1 DEF AccessNext, Entry, Progress, CreateHandshake, Start, RegisterLookup, RegisterCreate,
           Login, CreateLink, ConsumeLink, FinishLink, StartBind, IssueBlended, Fail, Tick, accessVars, rows
    <2>4. QED
      BY <2>1, <2>2, <2>3
  <1>2. IInv /\ [AccessNext]_accessVars => [Bound]_accessVars
    BY <1>1
  <1>3. QED
    BY <1>2, SpecIInv, PTL DEF AccessSpec, BindingsAreFinal

(* Consume: a row changes from fresh to used, once, while it is alive.     *)
THEOREM SpentForGood == AccessSpec => LinksAreSpentOnce
  <1> DEFINE Spent == \A l \in Links : links[l] # None /\ links'[l] # links[l] =>
                        /\ links'[l] = [links[l] EXCEPT !.used = TRUE]
                        /\ now <= links[l].expires
  <1>1. ASSUME IInv, [AccessNext]_accessVars PROVE Spent
    <2>0. links \in [Links -> LinkRows \cup {None}]
      BY <1>1 DEF IInv, AccessTypeOK, RowsType
    <2>1. CASE UNCHANGED links
      BY <2>1
    <2>2. ASSUME NEW r \in Requests, NEW l \in Links, CreateLink(r, l) PROVE Spent
      BY <2>0, <2>2 DEF CreateLink
    <2>3. ASSUME NEW r \in Requests, NEW l \in Links, ConsumeLink(r, l) PROVE Spent
      BY <2>0, <2>3 DEF ConsumeLink
    <2>4. \/ \E r \in Requests, l \in Links : CreateLink(r, l) \/ ConsumeLink(r, l)
          \/ UNCHANGED links
      BY <1>1 DEF AccessNext, Entry, Progress, CreateHandshake, Start, RegisterLookup, RegisterCreate,
           Login, FinishLink, StartBind, BindUser, IssueBlended, Fail, Tick, accessVars, rows
    <2>5. QED
      BY <2>1, <2>2, <2>3, <2>4
  <1>2. IInv /\ [AccessNext]_accessVars => [Spent]_accessVars
    BY <1>1
  <1>3. QED
    BY <1>2, SpecIInv, PTL DEF AccessSpec, LinksAreSpentOnce
=============================================================================
