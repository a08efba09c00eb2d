------------------------------- MODULE Access -------------------------------
(***************************************************************************)
(* Signing in to NavGo: device handshakes, registration, password login,   *)
(* magic links and the bind that blends a signed-in user with a device.    *)
(*                                                                         *)
(* A request is one execution of a use case.  Its steps are the points     *)
(* where it reads or writes the database; requests interleave between      *)
(* them, time passes, and any of them may fail or be cancelled.  An        *)
(* account is named by its e-mail, spelled as it was registered.           *)
(***************************************************************************)
EXTENDS Naturals

CONSTANTS
    Requests,     \* executions of a use case
    Handshakes,   \* ids of rows of auth_handshakes
    Links,        \* rows of auth_magic_links
    Emails,       \* spellings of e-mail addresses
    Lower,        \* strings.ToLower(strings.TrimSpace(_)) on them
    Registered,   \* accounts that exist from the start
    Inactive,     \* those of them that are not active
    None,         \* the NULL of a column, the nil of a uuid
    RequireHandshake,  \* REQUIRE_AUTH_HANDSHAKE
    HandshakeTTL, \* 15 minutes
    LinkTTL,      \* 15 minutes
    UserTTL,      \* JWT_EXPIRATION_HOURS
    BlendedTTL,   \* 8 hours
    MaxTime       \* bound on the clock

ASSUME AccessAssumption ==
    /\ Lower \in [Emails -> Emails]
    /\ Registered \subseteq Emails
    /\ Inactive \subseteq Registered
    /\ None \notin Requests \cup Handshakes \cup Links \cup Emails
    /\ RequireHandshake \in BOOLEAN
    /\ HandshakeTTL \in Nat /\ LinkTTL \in Nat /\ UserTTL \in Nat /\ BlendedTTL \in Nat
    /\ MaxTime \in Nat

\* The columns of auth_magic_links; "asked" is how the address was spelled.
LinkRows == [email : Emails, asked : Emails, handshake : Handshakes,
             expires : Nat, used : BOOLEAN]

\* NULL is not a row.
ASSUME NoRowAssumption == None \notin LinkRows

VARIABLES
    now,        \* the clock of the server and of the database
    handshakes, \* the rows of auth_handshakes
    expiry,     \* expires_at of each of them
    bound,      \* bound_user_id of each of them
    links,      \* auth_magic_links: None or the row
    accounts,   \* users
    tokens,     \* history: every token that was signed
    step,       \* how far each request is
    email,      \* locals of each request: the account or address it is about,
    handshake,  \* the handshake it was given,
    link        \* and the magic link it consumed

rows == <<handshakes, expiry, bound, links, accounts>>
locals == <<email, handshake, link>>
accessVars == <<now, rows, tokens, step, locals>>

InFlight == {"login", "registering", "absent", "linking", "consumed", "binding", "bound"}

Token == [kind : {"device", "user", "blended"}, user : Emails \cup {None},
          handshake : Handshakes \cup {None}, link : Links \cup {None},
          request : Requests \cup {None}, expires : Nat]

RowsType ==
    /\ now \in Nat
    /\ handshakes \subseteq Handshakes
    /\ expiry \in [Handshakes -> Nat]
    /\ bound \in [Handshakes -> Emails \cup {None}]
    /\ links \in [Links -> LinkRows \cup {None}]
    /\ accounts \subseteq Emails
    /\ tokens \subseteq Token

LocalsType ==
    /\ step \in [Requests -> {"idle", "done", "registered", "failed", "unknown"} \cup InFlight]
    /\ email \in [Requests -> Emails \cup {None}]
    /\ handshake \in [Requests -> Handshakes \cup {None}]
    /\ link \in [Requests -> Links \cup {None}]

AccessTypeOK == RowsType /\ LocalsType

AccessInit ==
    /\ now = 0
    /\ handshakes = {}
    /\ expiry = [h \in Handshakes |-> 0]
    /\ bound = [h \in Handshakes |-> None]
    /\ links = [l \in Links |-> None]
    /\ accounts = Registered
    /\ tokens = {}
    /\ step = [r \in Requests |-> "idle"]
    /\ email = [r \in Requests |-> None]
    /\ handshake = [r \in Requests |-> None]
    /\ link = [r \in Requests |-> None]

Goto(r, s) == step' = [step EXCEPT ![r] = s]

-----------------------------------------------------------------------------
(* Handshakes.                                                             *)

\* HandshakeUseCase: the row, then the device token that names it.
CreateHandshake(h) ==
    /\ h \notin handshakes
    /\ handshakes' = handshakes \cup {h}
    /\ expiry' = [expiry EXCEPT ![h] = now + HandshakeTTL]
    /\ tokens' = tokens \cup
         {[kind |-> "device", user |-> None, handshake |-> h, link |-> None,
           request |-> None, expires |-> now + HandshakeTTL]}
    /\ UNCHANGED <<now, bound, links, accounts, step, locals>>

\* GetByID found the row and time.Now is not After its expiry.
Unexpired(h) == h \in handshakes /\ now <= expiry[h]

\* EnsureHandshakeValid: no handshake will do unless one is required.
EnsureHandshakeValid(h) == Unexpired(h) \/ (h = None /\ ~RequireHandshake)

\* The first step of login, registration and magic-link requests.
Start(r, next, e, h) ==
    /\ step[r] = "idle"
    /\ EnsureHandshakeValid(h)
    /\ Goto(r, next)
    /\ email' = [email EXCEPT ![r] = e]
    /\ handshake' = [handshake EXCEPT ![r] = h]
    /\ UNCHANGED <<now, rows, tokens, link>>

-----------------------------------------------------------------------------
(* Registration and password login.                                        *)

\* The lookup finds no account or fails: Execute does not tell the two apart.
RegisterLookup(r) ==
    /\ step[r] = "registering"
    /\ Goto(r, "absent")
    /\ UNCHANGED <<now, rows, tokens, locals>>

\* Mutant of RegisterCreate: users.email is not UNIQUE.
RegisterCreateTwice(r) ==
    /\ step[r] = "absent"
    /\ accounts' = accounts \cup {email[r]}
    /\ Goto(r, "registered")
    /\ UNCHANGED <<now, handshakes, expiry, bound, links, tokens, locals>>

\* The insert: the UNIQUE constraint on users.email refuses the second of two
\* registrations that both went past the lookup.
RegisterCreate(r) ==
    /\ step[r] = "absent"
    /\ email[r] \notin accounts
    /\ accounts' = accounts \cup {email[r]}
    /\ Goto(r, "registered")
    /\ UNCHANGED <<now, handshakes, expiry, bound, links, tokens, locals>>

UserToken(r, e, l) ==
    [kind |-> "user", user |-> e, handshake |-> None, link |-> l,
     request |-> r, expires |-> now + UserTTL]

\* The account exists, is active, and the password is right.
Login(r) ==
    /\ step[r] = "login"
    /\ email[r] \in accounts \ Inactive
    /\ tokens' = tokens \cup {UserToken(r, email[r], None)}
    /\ Goto(r, "done")
    /\ UNCHANGED <<now, rows, locals>>

-----------------------------------------------------------------------------
(* Magic links.                                                            *)

\* The row keeps the address in lower case.
CreateLink(r, l) ==
    /\ step[r] = "linking"
    /\ links[l] = None
    /\ links' = [links EXCEPT ![l] =
                   [email |-> Lower[email[r]], asked |-> email[r],
                    handshake |-> handshake[r], expires |-> now + LinkTTL, used |-> FALSE]]
    /\ Goto(r, "done")
    /\ UNCHANGED <<now, handshakes, expiry, bound, accounts, tokens, locals>>

\* Mutant of ConsumeLink: used_at is not looked at.
ConsumeLinkAgain(r, l) ==
    /\ step[r] = "idle"
    /\ links[l] # None
    /\ now <= links[l].expires
    /\ links' = [links EXCEPT ![l].used = TRUE]
    /\ link' = [link EXCEPT ![r] = l]
    /\ Goto(r, "consumed")
    /\ UNCHANGED <<now, handshakes, expiry, bound, accounts, tokens, email, handshake>>

\* Mutant of ConsumeLink: expires_at is not looked at.
ConsumeLinkLate(r, l) ==
    /\ step[r] = "idle"
    /\ links[l] # None
    /\ ~links[l].used
    /\ links' = [links EXCEPT ![l].used = TRUE]
    /\ link' = [link EXCEPT ![r] = l]
    /\ Goto(r, "consumed")
    /\ UNCHANGED <<now, handshakes, expiry, bound, accounts, tokens, email, handshake>>

\* Consume: SELECT ... FOR UPDATE, the checks, the UPDATE and the commit are one
\* transaction on the row.
ConsumeLink(r, l) ==
    /\ step[r] = "idle"
    /\ links[l] # None
    /\ ~links[l].used
    /\ now <= links[l].expires
    /\ links' = [links EXCEPT ![l].used = TRUE]
    /\ link' = [link EXCEPT ![r] = l]
    /\ Goto(r, "consumed")
    /\ UNCHANGED <<now, handshakes, expiry, bound, accounts, tokens, email, handshake>>

\* The rest of VerifyMagicLink, after the link is spent: find the account by the
\* link's address, refuse an inactive one, sign a user token.
FinishLink(r) ==
    LET e == links[link[r]].email IN
    /\ step[r] = "consumed"
    /\ \/ /\ e \notin accounts
          /\ Goto(r, "unknown")
          /\ UNCHANGED tokens
       \/ /\ e \in accounts \ Inactive
          /\ tokens' = tokens \cup {UserToken(r, e, link[r])}
          /\ Goto(r, "done")
    /\ UNCHANGED <<now, rows, locals>>

-----------------------------------------------------------------------------
(* Binding.                                                                *)

\* Mutant of Principal: RequireUserPrincipal is missing.
PrincipalAnyKind(t) == now < t.expires

\* What JWTAuth and RequireUserPrincipal let through to POST /auth/bind.
Principal(t) == t.kind # "device" /\ now < t.expires

\* Bind reads the row and checks its expiry and the barrier, which only the device
\* that made the handshake knows.
StartBind(r, t, h) ==
    /\ step[r] = "idle"
    /\ Principal(t)
    /\ Unexpired(h)
    /\ Goto(r, "binding")
    /\ email' = [email EXCEPT ![r] = t.user]
    /\ handshake' = [handshake EXCEPT ![r] = h]
    /\ UNCHANGED <<now, rows, tokens, link>>

\* Mutant of BindUser: the UPDATE does not require bound_user_id IS NULL.
BindUserAgain(r) ==
    LET h == handshake[r] IN
    /\ step[r] = "binding"
    /\ now < expiry[h]
    /\ bound' = [bound EXCEPT ![h] = email[r]]
    /\ Goto(r, "bound")
    /\ UNCHANGED <<now, handshakes, expiry, links, accounts, tokens, locals>>

\* Mutant of BindUser: the UPDATE does not require expires_at > NOW().
BindUserLate(r) ==
    LET h == handshake[r] IN
    /\ step[r] = "binding"
    /\ bound[h] = None
    /\ bound' = [bound EXCEPT ![h] = email[r]]
    /\ Goto(r, "bound")
    /\ UNCHANGED <<now, handshakes, expiry, links, accounts, tokens, locals>>

\* Mutant of BindUser: the arguments of the UPDATE are swapped.
BindUserSwapped(r) ==
    LET h == handshake[r] IN
    /\ step[r] = "binding"
    /\ bound[h] = None
    /\ now < expiry[h]
    /\ bound' = [bound EXCEPT ![h] = h]
    /\ Goto(r, "bound")
    /\ UNCHANGED <<now, handshakes, expiry, links, accounts, tokens, locals>>

\* UPDATE ... WHERE bound_user_id IS NULL AND expires_at > NOW()
BindUser(r) ==
    LET h == handshake[r] IN
    /\ step[r] = "binding"
    /\ bound[h] = None
    /\ now < expiry[h]
    /\ bound' = [bound EXCEPT ![h] = email[r]]
    /\ Goto(r, "bound")
    /\ UNCHANGED <<now, handshakes, expiry, links, accounts, tokens, locals>>

IssueBlended(r) ==
    /\ step[r] = "bound"
    /\ tokens' = tokens \cup
         {[kind |-> "blended", user |-> email[r], handshake |-> handshake[r],
           link |-> None, request |-> r, expires |-> now + BlendedTTL]}
    /\ Goto(r, "done")
    /\ UNCHANGED <<now, rows, locals>>

-----------------------------------------------------------------------------

\* A check fails, the database fails, or the caller goes away: what was committed
\* stays committed.
Fail(r) ==
    /\ step[r] \in InFlight
    /\ Goto(r, "failed")
    /\ UNCHANGED <<now, rows, tokens, locals>>

Tick ==
    /\ now < MaxTime
    /\ now' = now + 1
    /\ UNCHANGED <<rows, tokens, step, locals>>

Entry(r) ==
    \/ \E e \in Emails, h \in Handshakes \cup {None} :
         Start(r, "login", e, h) \/ Start(r, "registering", e, h)
    \/ \E e \in Emails, h \in Handshakes : Start(r, "linking", e, h)
    \/ \E l \in Links : ConsumeLink(r, l)
    \/ \E t \in tokens, h \in Handshakes : StartBind(r, t, h)

Progress(r) ==
    \/ RegisterLookup(r) \/ RegisterCreate(r)
    \/ Login(r)
    \/ \E l \in Links : CreateLink(r, l)
    \/ FinishLink(r)
    \/ BindUser(r) \/ IssueBlended(r)

AccessNext ==
    \/ \E h \in Handshakes : CreateHandshake(h)
    \/ \E r \in Requests : Entry(r) \/ Progress(r) \/ Fail(r)
    \/ Tick

AccessSpec == AccessInit /\ [][AccessNext]_accessVars

-----------------------------------------------------------------------------
(* Properties.                                                             *)

Blended == {t \in tokens : t.kind = "blended"}

\* A handshake is blended once: however binds race and fail between the check and
\* the update, one blended token names it, and it names the user the row is bound to.
OneSessionPerHandshake ==
    /\ \A t \in Blended : t.user = bound[t.handshake]
    /\ \A t, u \in Blended : t.handshake = u.handshake => t = u

\* An address is registered once: of the registrations that raced past the lookup, or
\* whose lookup failed, one succeeds, and none for an account that was there before.
OneAccountPerAddress ==
    \A r, s \in Requests :
        step[r] = "registered" =>
            /\ email[r] \in accounts \ Registered
            /\ step[s] = "registered" /\ email[s] = email[r] => s = r

\* A magic link signs in once, as the account its address names, and is spent then.
OneLoginPerLink ==
    /\ \A t \in tokens : t.link # None =>
         links[t.link] # None /\ links[t.link].used /\ links[t.link].email = t.user
    /\ \A t, u \in tokens : t.link # None /\ t.link = u.link => t = u

\* Every session goes back to a sign-in: a user with a blended token also got a user
\* token, and all of those belong to accounts that exist and are active.
SessionsStartWithLogin ==
    /\ \A t \in Blended : \E u \in tokens : u.kind = "user" /\ u.user = t.user
    /\ \A t \in tokens : t.kind # "device" => t.user \in accounts \ Inactive

\* A binding is never changed or undone, and is made while the handshake is alive,
\* even when the check and the update are far apart.
BindingsAreFinal ==
    [][\A h \in Handshakes : bound'[h] # bound[h] =>
          bound[h] = None /\ h \in handshakes /\ now < expiry[h]]_accessVars

\* A link row changes once, from fresh to used, while it is alive.
LinksAreSpentOnce ==
    [][\A l \in Links : links[l] # None /\ links'[l] # links[l] =>
          /\ links'[l] = [links[l] EXCEPT !.used = TRUE]
          /\ now <= links[l].expires]_accessVars

\* What magic_link.go:67 says of VerifyMagicLink: it "consumes a token and returns a
\* user JWT"; the link of an account that exists is not refused as unknown.
LinkServesItsAccount ==
    \A r \in Requests : step[r] = "unknown" => links[link[r]].asked \notin Registered
=============================================================================
