-------------------------------- MODULE Accounts --------------------------------
(***************************************************************************)
(* Accounts: UserController, UserService, UserManager, UserRepository,     *)
(* AuthService and the two guards, on the tables users, verify_code,       *)
(* refresh and reports.  A handler is one step up to its next query or     *)
(* e-mail and from the answer to the following one; the database runs each *)
(* query atomically and enforces the unique columns of                     *)
(* prisma/schema.prisma.                                                   *)
(*                                                                         *)
(* An e-mail address stands for the user's id as well: accounts are never  *)
(* deleted and their address never changes.  A hash is its password: what  *)
(* bcrypt.compare finds out.  A token is what it says and until when.      *)
(***************************************************************************)
EXTENDS Naturals, FiniteSets

CONSTANTS
    Emails,
    Passwords,
    Codes,          \* codes generateCode may return
    Browsers,       \* clients, each with its cookies
    Reasons,        \* what a report says
    Calls,          \* identities of handlers that wait
    NoToken,        \* the cookie is not set
    CodeTtl, AccessTtl, RefreshTtl,   \* 5 minutes, 2 minutes, 7 days
    MaxTime,        \* the clock stops (bound)
    MaxRequests,    \* requests of one behaviour (bound)
    LegacyAccounts  \* table users at the start

Account == [email : Emails, password : Passwords]

ASSUME AccountAssumption ==
    /\ CodeTtl \in Nat /\ AccessTtl \in Nat /\ RefreshTtl \in Nat
    /\ MaxTime \in Nat /\ MaxRequests \in Nat
    /\ LegacyAccounts \subseteq Account
    /\ \A a, b \in LegacyAccounts : a.email = b.email => a = b

Token == [email : Emails, until : Nat]

Report == [email : Emails, reason : Reasons]

ASSUME NoTokenAssumption == NoToken \notin Token

VARIABLES
    now,
    accounts,    \* table users: e-mail and password
    verified,    \* is_verified
    codes,       \* table verify_code: user, code, expired_at
    sessions,    \* table refresh: e-mail and token
    reports,     \* table reports: reporter and reason
    jars,        \* the cookie refresh_token of each browser
    access,      \* access tokens the browsers got
    inflight,    \* handlers waiting for an answer
    posts,       \* reports on their way to Discord, which no handler waits for
    requests,    \* how many requests there were
    registered,  \* history: registrations that were answered
    mailed,      \* history: codes sendMail was called with
    presented,   \* history: codes asked to be verified, and when
    proven,      \* history: who gave whose password
    admitted     \* history: who got past both guards, as whom

tables == <<accounts, verified, codes, sessions, reports>>
clients == <<jars, access>>
history == <<registered, mailed, presented, proven, admitted>>
vars == <<now, tables, clients, inflight, posts, requests, history>>

\* What is left of a handler, by the answer it waits for: the two queries and the
\* answer of register; the query, the e-mail and the upsert of sendVerifyEmail; the
\* two reads and the update of verifyCode; the password, the two upserts and the answer
\* of login; the two reads of refresh; the user a guarded request belongs to; the query, the
\* row and the answer of report.
Waiting ==
    [op : {"taken", "account", "welcome"}, call : Calls, email : Emails,
     password : Passwords]
    \cup [op : {"addressee", "verifier", "check", "mark"}, call : Calls, email : Emails,
          code : Codes]
    \cup [op : {"mail", "code", "unsent"}, call : Calls, email : Emails, code : Codes, until : Nat]
    \cup [op : {"password"}, call : Calls, browser : Browsers, email : Emails,
          password : Passwords]
    \cup [op : {"ip", "session", "cookie"}, call : Calls, browser : Browsers, email : Emails,
          access : Nat, until : Nat]
    \cup [op : {"lookup"}, call : Calls, browser : Browsers, token : Token]
    \cup [op : {"owner", "guard"}, call : Calls, browser : Browsers, email : Emails]
    \cup [op : {"reporter", "report", "thanks"}, call : Calls, browser : Browsers,
          email : Emails, reason : Reasons]

-----------------------------------------------------------------------------
(* Helpers.                                                                *)

\* findUserByEmail(email) and findUserById answer a row.
Registered(email) == \E a \in accounts : a.email = email

\* verifyAsync: the token is not too old.
Valid(t) == now < t.until

\* The row of the table with this row's key is created or updated.
Upsert(table, row) == {r \in table : r.email # row.email} \cup {row}

\* A request arrives: the handler waits as c.
Asks(c) ==
    /\ \A d \in inflight : d.call # c.call
    /\ requests < MaxRequests
    /\ requests' = requests + 1
    /\ inflight' = inflight \cup {c}
    /\ UNCHANGED <<now, tables, clients, posts>>

\* The handler that waited as c waits as d from now on.
Moves(c, d) ==
    /\ inflight' = (inflight \ {c}) \cup {d}
    /\ UNCHANGED <<now, clients, posts, requests>>

Ends(c) ==
    /\ inflight' = inflight \ {c}
    /\ UNCHANGED <<now, posts, requests>>

-----------------------------------------------------------------------------
Init ==
    /\ now = 0
    /\ accounts = LegacyAccounts
    /\ verified = {} /\ codes = {} /\ sessions = {} /\ reports = {}
    /\ jars = [b \in Browsers |-> NoToken]
    /\ access = {}
    /\ inflight = {} /\ posts = {}
    /\ requests = 0
    /\ registered = {} /\ mailed = {} /\ presented = {} /\ proven = {} /\ admitted = {}

Tick ==
    /\ now < MaxTime
    /\ now' = now + 1
    /\ UNCHANGED <<tables, clients, inflight, posts, requests, history>>

\* The process ends and starts again; tables and browsers keep what they have.
ProcessExit ==
    /\ inflight' = {} /\ posts' = {}
    /\ UNCHANGED <<now, tables, clients, requests, history>>

-----------------------------------------------------------------------------
(* POST auth/register.                                                     *)

Register(k, email, password) ==
    /\ Asks([op |-> "taken", call |-> k, email |-> email, password |-> password])
    /\ UNCHANGED history

\* ensureEmailNotExists; the password is hashed.
EmailFree(c) ==
    /\ c.op = "taken" /\ ~Registered(c.email)
    /\ Moves(c, [c EXCEPT !.op = "account"])
    /\ UNCHANGED <<tables, history>>

EmailTaken(c) ==
    /\ c.op = "taken" /\ Registered(c.email)
    /\ Ends(c)
    /\ UNCHANGED <<tables, clients, history>>

\* Faulty variant: the account is upserted.
AccountUpserted(c) ==
    /\ c.op = "account"
    /\ accounts' = Upsert(accounts, [email |-> c.email, password |-> c.password])
    /\ Moves(c, [c EXCEPT !.op = "welcome"])
    /\ UNCHANGED <<verified, codes, sessions, reports, history>>

\* Faulty variant: the column email is not unique.
AccountDoubled(c) ==
    /\ c.op = "account"
    /\ accounts' = accounts \cup {[email |-> c.email, password |-> c.password]}
    /\ Moves(c, [c EXCEPT !.op = "welcome"])
    /\ UNCHANGED <<verified, codes, sessions, reports, history>>

\* users.create.  If the address was taken meanwhile, the unique column refuses the
\* row (QueryFailed).
AccountCreated(c) ==
    /\ c.op = "account" /\ ~Registered(c.email)
    /\ accounts' = accounts \cup {[email |-> c.email, password |-> c.password]}
    /\ Moves(c, [c EXCEPT !.op = "welcome"])
    /\ UNCHANGED <<verified, codes, sessions, reports, history>>

RegistrationAnswered(c) ==
    /\ c.op = "welcome"
    /\ registered' = registered \cup {[email |-> c.email, password |-> c.password]}
    /\ Ends(c)
    /\ UNCHANGED <<tables, clients, mailed, presented, proven, admitted>>

-----------------------------------------------------------------------------
(* POST auth/email and auth/code.                                          *)

RequestCode(k, email, code) ==
    /\ Asks([op |-> "addressee", call |-> k, email |-> email, code |-> code])
    /\ UNCHANGED history

\* Faulty variant: the code is stored before sendMail is called.
AddresseeStored(c) ==
    /\ c.op = "addressee" /\ Registered(c.email)
    /\ codes' = Upsert(codes,
           [email |-> c.email, code |-> c.code, until |-> now + CodeTtl])
    /\ Moves(c, [op |-> "mail", call |-> c.call, email |-> c.email, code |-> c.code,
                 until |-> now + CodeTtl])
    /\ UNCHANGED <<accounts, verified, sessions, reports, history>>

\* The time to live starts now, and the e-mail leaves.
AddresseeFound(c) ==
    /\ c.op = "addressee" /\ Registered(c.email)
    /\ mailed' = mailed \cup
         {[email |-> c.email, code |-> c.code, until |-> now + CodeTtl]}
    /\ Moves(c, [op |-> "mail", call |-> c.call, email |-> c.email, code |-> c.code,
                 until |-> now + CodeTtl])
    /\ UNCHANGED <<tables, registered, presented, proven, admitted>>

\* The mail server took the e-mail.
MailSent(c) ==
    /\ c.op = "mail"
    /\ Moves(c, [c EXCEPT !.op = "code"])
    /\ UNCHANGED <<tables, history>>

\* The e-mail failed: sendEmailMessage logs that, and the handler goes on.
MailFailed(c) ==
    /\ c.op = "mail"
    /\ Moves(c, [c EXCEPT !.op = "unsent"])
    /\ UNCHANGED <<tables, history>>

\* verify_code.upsert: one code per user, the last one written.  The answer is that the
\* e-mail has been sent.
CodeStored(c) ==
    /\ c.op \in {"code", "unsent"}
    /\ codes' = Upsert(codes, [email |-> c.email, code |-> c.code, until |-> c.until])
    /\ Ends(c)
    /\ UNCHANGED <<accounts, verified, sessions, reports, clients, history>>

VerifyCode(k, email, code) ==
    /\ Asks([op |-> "verifier", call |-> k, email |-> email, code |-> code])
    /\ presented' = presented \cup {[email |-> email, code |-> code, at |-> now]}
    /\ UNCHANGED <<registered, mailed, proven, admitted>>

VerifierFound(c) ==
    /\ c.op = "verifier" /\ Registered(c.email)
    /\ Moves(c, [c EXCEPT !.op = "check"])
    /\ UNCHANGED <<tables, history>>

\* getUserByEmailOrThrow finds nobody.
UserUnknown(c) ==
    /\ c.op \in {"addressee", "verifier"} /\ ~Registered(c.email)
    /\ Ends(c)
    /\ UNCHANGED <<tables, clients, history>>

\* Faulty variant: expired_at is not looked at.
MatchesAnyTime(c) ==
    \E r \in codes : r.email = c.email /\ r.code = c.code

\* The stored code is the one presented, and expired_at is not past.
Matches(c) ==
    \E r \in codes : r.email = c.email /\ ~(r.until < now) /\ r.code = c.code

CodeAccepted(c) ==
    /\ c.op = "check" /\ Matches(c)
    /\ Moves(c, [c EXCEPT !.op = "mark"])
    /\ UNCHANGED <<tables, history>>

CodeRefused(c) ==
    /\ c.op = "check" /\ ~Matches(c)
    /\ Ends(c)
    /\ UNCHANGED <<tables, clients, history>>

\* users.update, whatever became of the code meanwhile.
EmailVerified(c) ==
    /\ c.op = "mark"
    /\ verified' = verified \cup {c.email}
    /\ Ends(c)
    /\ UNCHANGED <<accounts, codes, sessions, reports, clients, history>>

-----------------------------------------------------------------------------
(* POST auth/login and auth/refresh.                                       *)

Login(k, b, email, password) ==
    /\ Asks([op |-> "password", call |-> k, browser |-> b, email |-> email,
             password |-> password])
    /\ UNCHANGED history

\* Faulty variant: bcrypt.compare is not awaited, and a promise is no false.
PasswordUnawaited(c) ==
    /\ c.op = "password" /\ Registered(c.email)
    /\ proven' = proven \cup
         {p \in {<<c.browser, c.email>>} : [email |-> c.email, password |-> c.password] \in accounts}
    /\ Moves(c, [op |-> "ip", call |-> c.call, browser |-> c.browser,
                 email |-> c.email, access |-> now + AccessTtl, until |-> now + RefreshTtl])
    /\ UNCHANGED <<tables, registered, mailed, presented, admitted>>

\* validateLoginUser; both tokens are signed.
PasswordMatches(c) ==
    /\ c.op = "password" /\ [email |-> c.email, password |-> c.password] \in accounts
    /\ proven' = proven \cup {<<c.browser, c.email>>}
    /\ Moves(c, [op |-> "ip", call |-> c.call, browser |-> c.browser,
                 email |-> c.email, access |-> now + AccessTtl, until |-> now + RefreshTtl])
    /\ UNCHANGED <<tables, registered, mailed, presented, admitted>>

PasswordRefused(c) ==
    /\ c.op = "password" /\ [email |-> c.email, password |-> c.password] \notin accounts
    /\ Ends(c)
    /\ UNCHANGED <<tables, clients, history>>

\* ip.upsert: nothing reads that table.
IpStored(c) ==
    /\ c.op = "ip"
    /\ Moves(c, [c EXCEPT !.op = "session"])
    /\ UNCHANGED <<tables, history>>

\* refresh.upsert: one token per user, the last one written.
SessionStored(c) ==
    /\ c.op = "session"
    /\ sessions' = Upsert(sessions,
           [email |-> c.email, token |-> [email |-> c.email, until |-> c.until]])
    /\ Moves(c, [c EXCEPT !.op = "cookie"])
    /\ UNCHANGED <<accounts, verified, codes, reports, history>>

\* The answer: the cookie and the access token.
LoggedIn(c) ==
    /\ c.op = "cookie"
    /\ jars' = [jars EXCEPT ![c.browser] = [email |-> c.email, until |-> c.until]]
    /\ access' = access \cup {[browser |-> c.browser, email |-> c.email, until |-> c.access]}
    /\ Ends(c)
    /\ UNCHANGED <<tables, history>>

Refresh(k, b) ==
    /\ jars[b] # NoToken
    /\ Asks([op |-> "lookup", call |-> k, browser |-> b, token |-> jars[b]])
    /\ UNCHANGED history

\* getRefreshOrThrow finds the row of the token, and the token is still valid.
SessionFound(c) ==
    /\ c.op = "lookup" /\ Valid(c.token)
    /\ \E r \in sessions :
          /\ r.token = c.token
          /\ Moves(c, [op |-> "owner", call |-> c.call, browser |-> c.browser,
                       email |-> r.email])
    /\ UNCHANGED <<tables, history>>

\* The token was replaced by a later login, or is too old.
SessionRefused(c) ==
    /\ c.op = "lookup"
    /\ (\A r \in sessions : r.token # c.token) \/ ~Valid(c.token)
    /\ Ends(c)
    /\ UNCHANGED <<tables, clients, history>>

AccessRenewed(c) ==
    /\ c.op = "owner" /\ Registered(c.email)
    /\ access' = access \cup
         {[browser |-> c.browser, email |-> c.email, until |-> now + AccessTtl]}
    /\ Ends(c)
    /\ UNCHANGED <<tables, jars, history>>

-----------------------------------------------------------------------------
(* A request behind AuthGuard and EmailVerifiedGuard (POST /room).         *)

\* Faulty variant: EmailVerifiedGuard runs first, sees no user and lets everybody pass.
GuardedUnordered(k, t) ==
    /\ Valid(t)
    /\ requests < MaxRequests
    /\ requests' = requests + 1
    /\ admitted' = admitted \cup {<<t.browser, t.email>>}
    /\ UNCHANGED <<now, tables, clients, inflight, posts, registered, mailed, presented, proven>>

\* AuthGuard: the access token is valid now, and the request has its user before
\* EmailVerifiedGuard asks for it.
GuardedCall(k, t) ==
    /\ Valid(t)
    /\ Asks([op |-> "guard", call |-> k, browser |-> t.browser, email |-> t.email])
    /\ UNCHANGED history

\* EmailVerifiedGuard reads the user.
Admitted(c) ==
    /\ c.op = "guard" /\ c.email \in verified
    /\ admitted' = admitted \cup {<<c.browser, c.email>>}
    /\ Ends(c)
    /\ UNCHANGED <<tables, clients, registered, mailed, presented, proven>>

NotAdmitted(c) ==
    /\ c.op = "guard" /\ c.email \notin verified
    /\ Ends(c)
    /\ UNCHANGED <<tables, clients, history>>

-----------------------------------------------------------------------------
(* POST report, behind AuthGuard alone.                                    *)

ReportAsked(k, t, reason) ==
    /\ Valid(t)
    /\ Asks([op |-> "reporter", call |-> k, browser |-> t.browser, email |-> t.email,
             reason |-> reason])
    /\ UNCHANGED history

\* Faulty variant: Discord is told before the row is written.
ReporterPosted(c) ==
    /\ c.op = "reporter" /\ Registered(c.email)
    /\ posts' = posts \cup {[email |-> c.email, reason |-> c.reason]}
    /\ inflight' = (inflight \ {c}) \cup {[c EXCEPT !.op = "report"]}
    /\ UNCHANGED <<now, tables, clients, requests, history>>

ReporterFound(c) ==
    /\ c.op = "reporter" /\ Registered(c.email)
    /\ Moves(c, [c EXCEPT !.op = "report"])
    /\ UNCHANGED <<tables, history>>

ReportStored(c) ==
    /\ c.op = "report"
    /\ reports' = reports \cup {[email |-> c.email, reason |-> c.reason]}
    /\ Moves(c, [c EXCEPT !.op = "thanks"])
    /\ UNCHANGED <<accounts, verified, codes, sessions, history>>

\* reportLogger starts the post and does not wait for it; the reporter is answered.
ReportAnswered(c) ==
    /\ c.op = "thanks"
    /\ posts' = posts \cup {[email |-> c.email, reason |-> c.reason]}
    /\ inflight' = inflight \ {c}
    /\ UNCHANGED <<now, tables, clients, requests, history>>

PostDelivered(p) ==
    /\ posts' = posts \ {p}
    /\ UNCHANGED <<now, tables, clients, inflight, requests, history>>

\* Nobody catches the rejection of a post: it ends the process.
PostRejected == posts # {} /\ ProcessExit

-----------------------------------------------------------------------------
\* A query fails or a unique column refuses: the handler throws.  (The answer of a row
\* that was written may be lost.)
QueryFailed(c) ==
    /\ c.op # "mail"
    /\ Ends(c)
    /\ UNCHANGED <<tables, clients, history>>

-----------------------------------------------------------------------------
(* The specification.                                                      *)

\* A request of a client.
Requested(k) ==
    \/ \E email \in Emails, password \in Passwords : Register(k, email, password)
    \/ \E email \in Emails, code \in Codes : RequestCode(k, email, code)
    \/ \E email \in Emails, code \in Codes : VerifyCode(k, email, code)
    \/ \E b \in Browsers, email \in Emails, password \in Passwords :
          Login(k, b, email, password)
    \/ \E b \in Browsers : Refresh(k, b)
    \/ \E t \in access : GuardedCall(k, t)
    \/ \E t \in access, reason \in Reasons : ReportAsked(k, t, reason)

\* The answer the handler c waits for is there.
Answered(c) ==
    \/ EmailFree(c)
    \/ EmailTaken(c)
    \/ AccountCreated(c)
    \/ RegistrationAnswered(c)
    \/ AddresseeFound(c)
    \/ MailSent(c)
    \/ MailFailed(c)
    \/ CodeStored(c)
    \/ VerifierFound(c)
    \/ UserUnknown(c)
    \/ CodeAccepted(c)
    \/ CodeRefused(c)
    \/ EmailVerified(c)
    \/ PasswordMatches(c)
    \/ PasswordRefused(c)
    \/ IpStored(c)
    \/ SessionStored(c)
    \/ LoggedIn(c)
    \/ SessionFound(c)
    \/ SessionRefused(c)
    \/ AccessRenewed(c)
    \/ Admitted(c)
    \/ NotAdmitted(c)
    \/ ReporterFound(c)
    \/ ReportStored(c)
    \/ ReportAnswered(c)
    \/ QueryFailed(c)

Next ==
    \/ \E k \in Calls : Requested(k)
    \/ \E c \in inflight : Answered(c)
    \/ \E p \in posts : PostDelivered(p)
    \/ PostRejected
    \/ Tick
    \/ ProcessExit

Spec == Init /\ [][Next]_vars

-----------------------------------------------------------------------------
(* Properties.                                                             *)

\* Every variable has its type, and each table one row per user.
TypeOK ==
    /\ now \in Nat /\ requests \in Nat
    /\ accounts \subseteq Account
    /\ \A a, b \in accounts : a.email = b.email => a = b
    /\ verified \subseteq Emails
    /\ codes \subseteq [email : Emails, code : Codes, until : Nat]
    /\ \A r, s \in codes : r.email = s.email => r = s
    /\ sessions \subseteq [email : Emails, token : Token]
    /\ \A r, s \in sessions : r.email = s.email => r = s
    /\ jars \in [Browsers -> Token \cup {NoToken}]
    /\ access \subseteq [browser : Browsers, email : Emails, until : Nat]
    /\ reports \subseteq Report /\ posts \subseteq Report
    /\ inflight \subseteq Waiting
    /\ registered \subseteq Account
    /\ mailed \subseteq [email : Emails, code : Codes, until : Nat]
    /\ presented \subseteq [email : Emails, code : Codes, at : Nat]
    /\ proven \subseteq Browsers \X Emails
    /\ admitted \subseteq Browsers \X Emails

\* Whoever was told that he is registered can log in with his password: two requests
\* that found the same address free do not both succeed, and none takes an account over
\* (ensureEmailNotExists, then createUser).
RegistrationKept == registered \subseteq accounts

\* Whoever is verified presented, in its time, a code that was mailed to him, although
\* codes are replaced and expire while requests wait, and the row is marked after the
\* code was looked at.
VerifiedInTime ==
    \A email \in verified : \E m \in mailed, p \in presented :
        /\ m.email = email /\ p.email = email
        /\ p.code = m.code
        /\ ~(m.until < p.at)

\* sendMail was called with every code in the table before, with the same expiry: the
\* user may know every code that is accepted from him.
CodeMailedFirst == codes \subseteq mailed

\* A browser only ever has tokens of users whose password it gave: no refresh, however
\* late and whatever logins replaced meanwhile, answers somebody else's.
SessionEarned ==
    /\ \A t \in access : <<t.browser, t.email>> \in proven
    /\ \A b \in Browsers : jars[b] # NoToken => <<b, jars[b].email>> \in proven

\* Who gets past the guards gave the password, and is verified: EmailVerifiedGuard lets a
\* request without user pass, and AuthGuard has always run before it.
AdmissionEarned ==
    \A a \in admitted : a \in proven /\ a[2] \in verified

\* What Discord is told of is a row of the table by somebody who gave his password: the
\* post that nobody waits for starts after the row is written, whatever fails and
\* whenever the process ends.
ReportBacked ==
    /\ posts \subseteq reports
    /\ \A r \in reports : \E b \in Browsers : <<b, r.email>> \in proven

\* Nothing lives longer than its time from now on: no code, session or token is renewed
\* by a request that waited, and a refresh never extends the session it came with.
LifetimesKept ==
    /\ \A r \in codes : r.until <= now + CodeTtl
    /\ \A r \in sessions : r.token.until <= now + RefreshTtl
    /\ \A b \in Browsers : jars[b] # NoToken => jars[b].until <= now + RefreshTtl
    /\ \A t \in access : t.until <= now + AccessTtl

\* How many answers the handler that waits as c can still take.
AnswersLeft(c) ==
    CASE c.op = "password" -> 4
      [] c.op \in {"taken", "addressee", "verifier", "ip", "reporter"} -> 3
      [] c.op \in {"account", "mail", "check", "session", "lookup", "report"} -> 2
      [] c.op \in {"welcome", "code", "unsent", "mark", "cookie", "owner", "guard", "thanks"} -> 1

\* Every answer brings a request nearer to its end, a failed e-mail included: no handler
\* asks the same again, and none takes more than four answers.
RequestsAdvance ==
    [][\A c \in inflight, d \in inflight' :
          c.call = d.call => c = d \/ AnswersLeft(d) < AnswersLeft(c)]_vars

\* "Verification email has been sent." (user.service.ts:74) is only said when it was.
SentIsMailed == [][\A c \in inflight : c.op = "unsent" => ~CodeStored(c)]_vars
=============================================================================
