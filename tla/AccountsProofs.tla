---------------------------- MODULE AccountsProofs ----------------------------
(***************************************************************************)
(* Theorems about Accounts for every set of users, codes, browsers and     *)
(* handlers, every time to live and every number of requests.              *)
(*                                                                         *)
(* As in ChatRoomsProofs the properties rest on what a waiting handler has *)
(* established (RecordSound); it stays true because accounts and the       *)
(* histories only grow and the clock only goes forward.                    *)
(***************************************************************************)
EXTENDS Accounts, TLAPS

\* The user presented a code, not later than now.
Presented(email, code, time) ==
    \E p \in presented : p.email = email /\ p.code = code /\ ~(time < p.at)

\* The user presented in its time a code that was mailed to him.
Earned(email) ==
    \E m \in mailed, p \in presented :
        m.email = email /\ p.email = email /\ p.code = m.code /\ ~(m.until < p.at)

RecordSound(c) ==
    /\ c \in Waiting
    /\ c.op = "welcome" => [email |-> c.email, password |-> c.password] \in accounts
    /\ c.op \in {"mail", "code", "unsent"} =>
          [email |-> c.email, code |-> c.code, until |-> c.until] \in mailed
    /\ c.op \in {"verifier", "check"} => Presented(c.email, c.code, now)
    /\ c.op = "mark" => Earned(c.email)
    /\ c.op \in {"ip", "session", "cookie", "owner", "guard", "reporter", "report",
              "thanks"} =>
          <<c.browser, c.email>> \in proven
    /\ c.op = "thanks" => [email |-> c.email, reason |-> c.reason] \in reports
    /\ c.op = "lookup" => <<c.browser, c.token.email>> \in proven

RecordsSound == \A c \in inflight : RecordSound(c)

\* A row of refresh holds a token of its own user.
OwnTokens == \A r \in sessions : r.token.email = r.email

AccountInvariant ==
    /\ TypeOK
    /\ RecordsSound
    /\ OwnTokens
    /\ RegistrationKept
    /\ VerifiedInTime
    /\ CodeMailedFirst
    /\ SessionEarned
    /\ AdmissionEarned
    /\ ReportBacked

-----------------------------------------------------------------------------
(* Steps and records.                                                      *)

\* Accounts stay as they were created, what happened stays known, and time goes on.
LEMMA Grows ==
    ASSUME TypeOK, [Next]_vars
    PROVE  /\ now' \in Nat /\ now <= now'
           /\ accounts \subseteq accounts'
           /\ verified \subseteq verified'
           /\ mailed \subseteq mailed'
           /\ presented \subseteq presented'
           /\ proven \subseteq proven'
           /\ reports \subseteq reports'
  <1> DEFINE Goal == /\ now' \in Nat /\ now <= now'
                     /\ accounts \subseteq accounts'
                     /\ verified \subseteq verified'
                     /\ mailed \subseteq mailed'
                     /\ presented \subseteq presented'
                     /\ proven \subseteq proven'
                     /\ reports \subseteq reports'
  <1>1. now \in Nat
    BY DEF TypeOK
  <1>2. ASSUME NEW k \in Calls, Requested(k)
        PROVE  Goal
    BY <1>1, <1>2 DEF Requested, Register, RequestCode, VerifyCode, Login, Refresh,
        GuardedCall, ReportAsked, Asks, tables, history
  <1>3. ASSUME NEW c \in inflight, Answered(c)
        PROVE  Goal
    BY <1>1, <1>3 DEF Answered, EmailFree, EmailTaken, AccountCreated,
        RegistrationAnswered, AddresseeFound, MailSent, MailFailed, CodeStored, VerifierFound,
        UserUnknown, CodeAccepted, CodeRefused, EmailVerified, PasswordMatches,
        PasswordRefused, IpStored, SessionStored, LoggedIn, SessionFound, SessionRefused,
        AccessRenewed, Admitted, NotAdmitted, ReporterFound, ReportStored, ReportAnswered,
        QueryFailed, Moves, Ends, tables, history
  <1>4. ASSUME Tick
        PROVE  Goal
    BY <1>1, <1>4 DEF Tick, tables, history
  <1>5. ASSUME \/ \E p \in posts : PostDelivered(p)
               \/ PostRejected \/ ProcessExit \/ UNCHANGED vars
        PROVE  Goal
    BY <1>1, <1>5 DEF PostDelivered, PostRejected, ProcessExit, vars, tables, history
  <1> HIDE DEF Goal
  <1>6. Goal
    BY <1>2, <1>3, <1>4, <1>5 DEF Next
  <1> QED
    BY <1>6 DEF Goal

LEMMA PresentedStays ==
    ASSUME TypeOK, [Next]_vars, NEW email, NEW code, Presented(email, code, now)
    PROVE  Presented(email, code, now)'
  <1>1. PICK p \in presented : p.email = email /\ p.code = code /\ ~(now < p.at)
    BY DEF Presented
  <1>2. p \in presented' /\ p.at \in Nat /\ now \in Nat /\ now' \in Nat /\ now <= now'
    BY Grows DEF TypeOK
  <1>3. ~(now' < p.at)
    BY <1>1, <1>2
  <1> QED
    BY <1>1, <1>2, <1>3 DEF Presented

LEMMA EarnedStays ==
    ASSUME TypeOK, [Next]_vars, NEW email, Earned(email)
    PROVE  Earned(email)'
  BY Grows DEF Earned

\* What a handler knows stays true while it waits.
LEMMA RecordStays ==
    ASSUME TypeOK, [Next]_vars, NEW c, RecordSound(c)
    PROVE  RecordSound(c)'
  BY Grows, PresentedStays, EarnedStays DEF RecordSound

\* The fields of a record, by what it waits for.
LEMMA Fields ==
    ASSUME NEW c \in Waiting
    PROVE  /\ c.call \in Calls
           /\ c.op # "lookup" => c.email \in Emails
           /\ c.op \in {"taken", "account", "welcome", "password"} => c.password \in Passwords
           /\ c.op \in {"addressee", "verifier", "check", "mark", "mail", "code", "unsent"} =>
                 c.code \in Codes
           /\ c.op \in {"mail", "code", "unsent", "ip", "session", "cookie"} => c.until \in Nat
           /\ c.op \in {"ip", "session", "cookie"} => c.access \in Nat
           /\ c.op \in {"password", "ip", "session", "cookie", "lookup", "owner",
                       "guard", "reporter", "report", "thanks"} => c.browser \in Browsers
           /\ c.op \in {"reporter", "report", "thanks"} => c.reason \in Reasons
           /\ c.op = "lookup" => c.token \in Token
  BY DEF Waiting

\* A record that changes the answer it waits for keeps the rest.
LEMMA MovesOn ==
    ASSUME NEW c \in Waiting, NEW op,
           \/ c.op = "taken" /\ op = "account"
           \/ c.op = "account" /\ op = "welcome"
           \/ c.op = "mail" /\ op \in {"code", "unsent"}
           \/ c.op = "verifier" /\ op = "check"
           \/ c.op = "check" /\ op = "mark"
           \/ c.op = "ip" /\ op = "session"
           \/ c.op = "session" /\ op = "cookie"
           \/ c.op = "reporter" /\ op = "report"
           \/ c.op = "report" /\ op = "thanks"
    PROVE  /\ [c EXCEPT !.op = op] \in Waiting
           /\ [c EXCEPT !.op = op].op = op
           /\ [c EXCEPT !.op = op].email = c.email
           /\ c.op = "account" => [c EXCEPT !.op = op].password = c.password
           /\ c.op \in {"verifier", "check", "mail"} => [c EXCEPT !.op = op].code = c.code
           /\ c.op = "mail" => [c EXCEPT !.op = op].until = c.until
           /\ c.op \in {"ip", "session", "reporter", "report"} =>
                 [c EXCEPT !.op = op].browser = c.browser
           /\ c.op = "report" => [c EXCEPT !.op = op].reason = c.reason
  <1>1. CASE c.op \in {"taken", "account"}
    <2>1. c \in [op : {"taken", "account", "welcome"}, call : Calls, email : Emails,
                 password : Passwords]
      BY <1>1 DEF Waiting
    <2> QED
      BY <1>1, <2>1 DEF Waiting
  <1>2. CASE c.op = "mail"
    <2>1. c \in [op : {"mail", "code", "unsent"}, call : Calls, email : Emails,
                 code : Codes, until : Nat]
      BY <1>2 DEF Waiting
    <2> QED
      BY <1>2, <2>1 DEF Waiting
  <1>3. CASE c.op \in {"verifier", "check"}
    <2>1. c \in [op : {"addressee", "verifier", "check", "mark"}, call : Calls,
                 email : Emails, code : Codes]
      BY <1>3 DEF Waiting
    <2> QED
      BY <1>3, <2>1 DEF Waiting
  <1>4. CASE c.op \in {"ip", "session"}
    <2>1. c \in [op : {"ip", "session", "cookie"}, call : Calls, browser : Browsers,
                 email : Emails, access : Nat, until : Nat]
      BY <1>4 DEF Waiting
    <2> QED
      BY <1>4, <2>1 DEF Waiting
  <1>5. CASE c.op \in {"reporter", "report"}
    <2>1. c \in [op : {"reporter", "report", "thanks"}, call : Calls, browser : Browsers,
                 email : Emails, reason : Reasons]
      BY <1>5 DEF Waiting
    <2> QED
      BY <1>5, <2>1 DEF Waiting
  <1> QED
    BY <1>1, <1>2, <1>3, <1>4, <1>5

-----------------------------------------------------------------------------
(* The invariant, part by part.                                            *)

\* A request knows nothing but that it was made.
LEMMA RequestSound ==
    ASSUME AccountAssumption, NoTokenAssumption, AccountInvariant, [Next]_vars,
           NEW k \in Calls, Requested(k)
    PROVE  RecordsSound'
  <1>1. TypeOK /\ \A c \in inflight : RecordSound(c)'
    BY RecordStays DEF AccountInvariant, RecordsSound
  <1>2. ASSUME NEW d, Asks(d), RecordSound(d)'
        PROVE  RecordsSound'
    BY <1>1, <1>2 DEF RecordsSound, Asks
  <1>3. ASSUME NEW email \in Emails, NEW password \in Passwords, Register(k, email, password)
        PROVE  RecordsSound'
    <2> DEFINE d == [op |-> "taken", call |-> k, email |-> email, password |-> password]
    <2>1. RecordSound(d)'
      BY DEF RecordSound, Waiting
    <2> QED
      BY <1>2, <1>3, <2>1 DEF Register
  <1>4. ASSUME NEW email \in Emails, NEW code \in Codes, RequestCode(k, email, code)
        PROVE  RecordsSound'
    <2> DEFINE d == [op |-> "addressee", call |-> k, email |-> email, code |-> code]
    <2>1. RecordSound(d)'
      BY DEF RecordSound, Waiting
    <2> QED
      BY <1>2, <1>4, <2>1 DEF RequestCode
  <1>5. ASSUME NEW email \in Emails, NEW code \in Codes, VerifyCode(k, email, code)
        PROVE  RecordsSound'
    <2> DEFINE d == [op |-> "verifier", call |-> k, email |-> email, code |-> code]
    <2>1. /\ [email |-> email, code |-> code, at |-> now] \in presented'
          /\ now' = now /\ now \in Nat
      BY <1>1, <1>5 DEF VerifyCode, Asks, TypeOK
    <2>2. Presented(email, code, now)'
      BY <2>1 DEF Presented
    <2>3. RecordSound(d)'
      BY <2>2 DEF RecordSound, Waiting
    <2> QED
      BY <1>2, <1>5, <2>3 DEF VerifyCode
  <1>6. ASSUME NEW b \in Browsers, NEW email \in Emails, NEW password \in Passwords,
               Login(k, b, email, password)
        PROVE  RecordsSound'
    <2> DEFINE d == [op |-> "password", call |-> k, browser |-> b, email |-> email,
                     password |-> password]
    <2>1. RecordSound(d)'
      BY DEF RecordSound, Waiting
    <2> QED
      BY <1>2, <1>6, <2>1 DEF Login
  <1>7. ASSUME NEW b \in Browsers, Refresh(k, b)
        PROVE  RecordsSound'
    <2>1. PICK t \in Token : t = jars[b]
      BY <1>1, <1>7 DEF Refresh, TypeOK
    <2> DEFINE d == [op |-> "lookup", call |-> k, browser |-> b, token |-> t]
    <2>2. <<b, t.email>> \in proven'
      BY <1>7, <2>1, Grows DEF Refresh, AccountInvariant, SessionEarned
    <2>3. RecordSound(d)'
      BY <2>2 DEF RecordSound, Waiting
    <2> QED
      BY <1>2, <1>7, <2>1, <2>3 DEF Refresh
  <1>8. ASSUME NEW t \in access, GuardedCall(k, t)
        PROVE  RecordsSound'
    <2> DEFINE d == [op |-> "guard", call |-> k, browser |-> t.browser, email |-> t.email]
    <2>1. t.browser \in Browsers /\ t.email \in Emails /\ <<t.browser, t.email>> \in proven'
      BY <1>1, Grows DEF TypeOK, AccountInvariant, SessionEarned
    <2>2. RecordSound(d)'
      BY <2>1 DEF RecordSound, Waiting
    <2> QED
      BY <1>2, <1>8, <2>2 DEF GuardedCall
  <1>9. ASSUME NEW t \in access, NEW reason \in Reasons, ReportAsked(k, t, reason)
        PROVE  RecordsSound'
    <2> DEFINE d == [op |-> "reporter", call |-> k, browser |-> t.browser,
                     email |-> t.email, reason |-> reason]
    <2>1. t.browser \in Browsers /\ t.email \in Emails /\ <<t.browser, t.email>> \in proven'
      BY <1>1, Grows DEF TypeOK, AccountInvariant, SessionEarned
    <2>2. RecordSound(d)'
      BY <2>1 DEF RecordSound, Waiting
    <2> QED
      BY <1>2, <1>9, <2>2 DEF ReportAsked
  <1> QED
    BY <1>3, <1>4, <1>5, <1>6, <1>7, <1>8, <1>9 DEF Requested

\* A handler only goes on when its query answered what the record then claims.
LEMMA AnswerSound ==
    ASSUME AccountAssumption, AccountInvariant, [Next]_vars,
           NEW c \in inflight, Answered(c)
    PROVE  RecordsSound'
  <1>1. /\ TypeOK /\ now \in Nat
        /\ c \in Waiting /\ RecordSound(c) /\ RecordSound(c)'
        /\ \A d \in inflight : RecordSound(d)'
    BY RecordStays DEF AccountInvariant, RecordsSound, RecordSound, TypeOK
  <1>2. ASSUME NEW d, inflight' \subseteq inflight \cup {d}, RecordSound(d)'
        PROVE  RecordsSound'
    BY <1>1, <1>2 DEF RecordsSound
  <1>3. ASSUME inflight' \subseteq inflight
        PROVE  RecordsSound'
    BY <1>1, <1>3 DEF RecordsSound
  <1>4. ASSUME EmailFree(c)
        PROVE  RecordsSound'
    <2> DEFINE d == [c EXCEPT !.op = "account"]
    <2>1. d \in Waiting /\ d.op = "account" /\ inflight' \subseteq inflight \cup {d}
      BY <1>1, <1>4, MovesOn DEF EmailFree, Moves
    <2> HIDE DEF d
    <2>2. RecordSound(d)'
      BY <2>1 DEF RecordSound
    <2> QED
      BY <1>2, <2>1, <2>2
  <1>5. ASSUME AccountCreated(c)
        PROVE  RecordsSound'
    <2> DEFINE d == [c EXCEPT !.op = "welcome"]
    <2>1. /\ d \in Waiting /\ d.op = "welcome" /\ d.email = c.email
          /\ d.password = c.password /\ inflight' \subseteq inflight \cup {d}
      BY <1>1, <1>5, MovesOn DEF AccountCreated, Moves
    <2>2. [email |-> c.email, password |-> c.password] \in accounts'
      BY <1>5 DEF AccountCreated
    <2> HIDE DEF d
    <2>3. RecordSound(d)'
      BY <2>1, <2>2 DEF RecordSound
    <2> QED
      BY <1>2, <2>1, <2>3
  <1>6. ASSUME AddresseeFound(c)
        PROVE  RecordsSound'
    <2>1. PICK u \in Nat : u = now + CodeTtl
      BY <1>1 DEF AccountAssumption
    <2> DEFINE d == [op |-> "mail", call |-> c.call, email |-> c.email, code |-> c.code,
                     until |-> u]
    <2>2. d \in Waiting
      BY <1>1, <1>6, Fields DEF AddresseeFound, Waiting
    <2>3. [email |-> c.email, code |-> c.code, until |-> u] \in mailed'
      BY <1>6, <2>1 DEF AddresseeFound
    <2>4. RecordSound(d)'
      BY <2>2, <2>3 DEF RecordSound
    <2> QED
      BY <1>2, <1>6, <2>1, <2>4 DEF AddresseeFound, Moves
  <1>7. ASSUME NEW op \in {"code", "unsent"}, c.op = "mail", Moves(c, [c EXCEPT !.op = op])
        PROVE  RecordsSound'
    <2> DEFINE d == [c EXCEPT !.op = op]
    <2>1. /\ d \in Waiting /\ d.op = op /\ d.email = c.email /\ d.code = c.code
          /\ d.until = c.until /\ inflight' \subseteq inflight \cup {d}
      BY <1>1, <1>7, MovesOn DEF Moves
    <2>2. [email |-> c.email, code |-> c.code, until |-> c.until] \in mailed'
      BY <1>1, <1>7 DEF RecordSound
    <2> HIDE DEF d
    <2>3. RecordSound(d)'
      BY <2>1, <2>2 DEF RecordSound
    <2> QED
      BY <1>2, <2>1, <2>3
  <1>8. ASSUME VerifierFound(c)
        PROVE  RecordsSound'
    <2> DEFINE d == [c EXCEPT !.op = "check"]
    <2>1. /\ d \in Waiting /\ d.op = "check" /\ d.email = c.email /\ d.code = c.code
          /\ inflight' \subseteq inflight \cup {d}
      BY <1>1, <1>8, MovesOn DEF VerifierFound, Moves
    <2>2. Presented(c.email, c.code, now)'
      BY <1>1, <1>8 DEF VerifierFound, RecordSound
    <2> HIDE DEF d
    <2>3. RecordSound(d)'
      BY <2>1, <2>2 DEF RecordSound
    <2> QED
      BY <1>2, <2>1, <2>3
  <1>9. ASSUME CodeAccepted(c)
        PROVE  RecordsSound'
    <2> DEFINE d == [c EXCEPT !.op = "mark"]
    <2>1. d \in Waiting /\ d.op = "mark" /\ d.email = c.email
          /\ inflight' \subseteq inflight \cup {d}
      BY <1>1, <1>9, MovesOn DEF CodeAccepted, Moves
    <2>2. PICK r \in codes : r.email = c.email /\ ~(r.until < now) /\ r.code = c.code
      BY <1>9 DEF CodeAccepted, Matches
    <2>3. PICK p \in presented : p.email = c.email /\ p.code = c.code /\ ~(now < p.at)
      BY <1>1, <1>9 DEF CodeAccepted, RecordSound, Presented
    <2>4. r \in mailed /\ r.until \in Nat /\ p.at \in Nat
      BY <1>1 DEF AccountInvariant, CodeMailedFirst, TypeOK
    <2>5. ~(r.until < p.at)
      BY <1>1, <2>2, <2>3, <2>4
    <2>6. Earned(c.email)'
      BY <2>2, <2>3, <2>4, <2>5, <1>1, EarnedStays DEF Earned
    <2> HIDE DEF d
    <2>7. RecordSound(d)'
      BY <2>1, <2>6 DEF RecordSound
    <2> QED
      BY <1>2, <2>1, <2>7
  <1>10. ASSUME PasswordMatches(c)
         PROVE  RecordsSound'
    <2>1. PICK a \in Nat, u \in Nat : a = now + AccessTtl /\ u = now + RefreshTtl
      BY <1>1 DEF AccountAssumption
    <2> DEFINE d == [op |-> "ip", call |-> c.call, browser |-> c.browser,
                     email |-> c.email, access |-> a, until |-> u]
    <2>2. d \in Waiting
      BY <1>1, <1>10, Fields DEF PasswordMatches, Waiting
    <2>3. <<c.browser, c.email>> \in proven'
      BY <1>10 DEF PasswordMatches
    <2>4. RecordSound(d)'
      BY <2>2, <2>3 DEF RecordSound
    <2> QED
      BY <1>2, <1>10, <2>1, <2>4 DEF PasswordMatches, Moves
  <1>17. ASSUME IpStored(c)
         PROVE  RecordsSound'
    <2> DEFINE d == [c EXCEPT !.op = "session"]
    <2>1. /\ d \in Waiting /\ d.op = "session" /\ d.email = c.email
          /\ d.browser = c.browser /\ inflight' \subseteq inflight \cup {d}
      BY <1>1, <1>17, MovesOn DEF IpStored, Moves
    <2>2. <<c.browser, c.email>> \in proven'
      BY <1>1, <1>17 DEF IpStored, RecordSound, history
    <2> HIDE DEF d
    <2>3. RecordSound(d)'
      BY <2>1, <2>2 DEF RecordSound
    <2> QED
      BY <1>2, <2>1, <2>3
  <1>11. ASSUME SessionStored(c)
         PROVE  RecordsSound'
    <2> DEFINE d == [c EXCEPT !.op = "cookie"]
    <2>1. /\ d \in Waiting /\ d.op = "cookie" /\ d.email = c.email
          /\ d.browser = c.browser /\ inflight' \subseteq inflight \cup {d}
      BY <1>1, <1>11, MovesOn DEF SessionStored, Moves
    <2>2. <<c.browser, c.email>> \in proven'
      BY <1>1, <1>11 DEF SessionStored, RecordSound
    <2> HIDE DEF d
    <2>3. RecordSound(d)'
      BY <2>1, <2>2 DEF RecordSound
    <2> QED
      BY <1>2, <2>1, <2>3
  <1>12. ASSUME SessionFound(c)
         PROVE  RecordsSound'
    <2>1. PICK r \in sessions :
            /\ r.token = c.token
            /\ Moves(c, [op |-> "owner", call |-> c.call, browser |-> c.browser,
                         email |-> r.email])
      BY <1>12 DEF SessionFound
    <2> DEFINE d == [op |-> "owner", call |-> c.call, browser |-> c.browser,
                     email |-> r.email]
    <2>2. r.email \in Emails /\ r.token.email = r.email
      BY <1>1 DEF AccountInvariant, OwnTokens, TypeOK
    <2>3. d \in Waiting
      BY <1>1, <1>12, <2>2, Fields DEF SessionFound, Waiting
    <2>4. <<c.browser, r.email>> \in proven'
      BY <1>1, <1>12, <2>1, <2>2 DEF SessionFound, RecordSound
    <2>5. RecordSound(d)'
      BY <2>3, <2>4 DEF RecordSound
    <2> QED
      BY <1>2, <2>1, <2>5 DEF Moves
  <1>13. ASSUME ReporterFound(c)
         PROVE  RecordsSound'
    <2> DEFINE d == [c EXCEPT !.op = "report"]
    <2>1. /\ d \in Waiting /\ d.op = "report" /\ d.email = c.email
          /\ d.browser = c.browser /\ inflight' \subseteq inflight \cup {d}
      BY <1>1, <1>13, MovesOn DEF ReporterFound, Moves
    <2>2. <<c.browser, c.email>> \in proven'
      BY <1>1, <1>13 DEF ReporterFound, RecordSound
    <2> HIDE DEF d
    <2>3. RecordSound(d)'
      BY <2>1, <2>2 DEF RecordSound
    <2> QED
      BY <1>2, <2>1, <2>3
  <1>14. ASSUME ReportStored(c)
         PROVE  RecordsSound'
    <2> DEFINE d == [c EXCEPT !.op = "thanks"]
    <2>1. /\ d \in Waiting /\ d.op = "thanks" /\ d.email = c.email /\ d.reason = c.reason
          /\ d.browser = c.browser /\ inflight' \subseteq inflight \cup {d}
      BY <1>1, <1>14, MovesOn DEF ReportStored, Moves
    <2>2. /\ <<c.browser, c.email>> \in proven'
          /\ [email |-> c.email, reason |-> c.reason] \in reports'
      BY <1>1, <1>14 DEF ReportStored, RecordSound
    <2> HIDE DEF d
    <2>3. RecordSound(d)'
      BY <2>1, <2>2 DEF RecordSound
    <2> QED
      BY <1>2, <2>1, <2>3
  <1>15. ASSUME \/ EmailTaken(c) \/ RegistrationAnswered(c) \/ CodeStored(c)
                \/ UserUnknown(c) \/ CodeRefused(c) \/ EmailVerified(c)
                \/ PasswordRefused(c) \/ LoggedIn(c) \/ SessionRefused(c)
                \/ AccessRenewed(c) \/ Admitted(c) \/ NotAdmitted(c)
                \/ ReportAnswered(c) \/ QueryFailed(c)
         PROVE  inflight' \subseteq inflight
    BY <1>15 DEF EmailTaken, RegistrationAnswered, CodeStored, UserUnknown, CodeRefused,
        EmailVerified, PasswordRefused, LoggedIn, SessionRefused, AccessRenewed, Admitted,
        NotAdmitted, ReportAnswered, QueryFailed, Ends
  <1>16. ASSUME MailSent(c) \/ MailFailed(c)
         PROVE  RecordsSound'
    BY <1>7, <1>16 DEF MailSent, MailFailed
  <1> QED
    BY <1>3, <1>4, <1>5, <1>6, <1>8, <1>9, <1>10, <1>11, <1>12, <1>13, <1>14, <1>15,
       <1>16, <1>17 DEF Answered

LEMMA RecordsStep ==
    ASSUME AccountAssumption, NoTokenAssumption, AccountInvariant, [Next]_vars
    PROVE  RecordsSound'
  <1>1. CASE \E k \in Calls : Requested(k)
    BY <1>1, RequestSound
  <1>2. CASE \E c \in inflight : Answered(c)
    BY <1>2, AnswerSound
  <1>3. ASSUME inflight' \subseteq inflight
        PROVE  RecordsSound'
    BY <1>3, RecordStays DEF AccountInvariant, RecordsSound
  <1>4. CASE \/ \E p \in posts : PostDelivered(p)
             \/ PostRejected \/ Tick \/ ProcessExit \/ UNCHANGED vars
    BY <1>3, <1>4 DEF PostDelivered, PostRejected, Tick, ProcessExit, vars
  <1> QED
    BY <1>1, <1>2, <1>4 DEF Next

\* An upsert leaves one row for its key.
LEMMA UpsertUnique ==
    ASSUME NEW table, NEW row, \A r, s \in table : r.email = s.email => r = s
    PROVE  \A r, s \in Upsert(table, row) : r.email = s.email => r = s
  BY DEF Upsert

\* The only steps that write a table.
LEMMA TableWrites ==
    ASSUME [Next]_vars
    PROVE  \/ UNCHANGED tables
           \/ \E c \in inflight : \/ AccountCreated(c) \/ CodeStored(c)
                                  \/ EmailVerified(c) \/ SessionStored(c)
                                  \/ ReportStored(c)
  BY DEF Next, vars, Requested, Register, RequestCode, VerifyCode, Login, Refresh,
      GuardedCall, ReportAsked, Asks, Answered, EmailFree, EmailTaken,
      RegistrationAnswered, AddresseeFound, MailSent, MailFailed, VerifierFound,
      UserUnknown, CodeAccepted, CodeRefused, PasswordMatches, PasswordRefused, IpStored, LoggedIn,
      SessionFound, SessionRefused, AccessRenewed, Admitted, NotAdmitted, ReporterFound,
      ReportAnswered, QueryFailed, PostDelivered, PostRejected, Tick, ProcessExit

\* The tables keep one row per user; codes were mailed, tokens are their user's, and
\* who is marked verified has earned it.
TablesSound ==
    /\ accounts \subseteq Account
    /\ \A a, b \in accounts : a.email = b.email => a = b
    /\ verified \subseteq Emails
    /\ codes \subseteq [email : Emails, code : Codes, until : Nat]
    /\ \A r, s \in codes : r.email = s.email => r = s
    /\ sessions \subseteq [email : Emails, token : Token]
    /\ \A r, s \in sessions : r.email = s.email => r = s
    /\ reports \subseteq Report
    /\ \A r \in reports : \E b \in Browsers : <<b, r.email>> \in proven
    /\ OwnTokens
    /\ codes \subseteq mailed
    /\ \A email \in verified : Earned(email)

LEMMA TablesStep ==
    ASSUME AccountAssumption, AccountInvariant, [Next]_vars
    PROVE  TablesSound'
  <1>1. /\ TypeOK /\ TablesSound
        /\ mailed \subseteq mailed' /\ proven \subseteq proven'
        /\ \A email : Earned(email) => Earned(email)'
        /\ \A c \in inflight : c \in Waiting /\ RecordSound(c)'
    BY Grows, EarnedStays, RecordStays DEF AccountInvariant, TypeOK, TablesSound, CodeMailedFirst,
        VerifiedInTime, ReportBacked, Earned, RecordsSound, RecordSound
  <1>2. ASSUME UNCHANGED tables
        PROVE  TablesSound'
    BY <1>1, <1>2 DEF tables, TablesSound, OwnTokens
  <1>3. ASSUME NEW c \in inflight, AccountCreated(c)
        PROVE  TablesSound'
    <2> DEFINE row == [email |-> c.email, password |-> c.password]
    <2>1. row \in Account /\ row.email = c.email
      BY <1>1, <1>3, Fields DEF AccountCreated, Account
    <2>2. accounts' = accounts \cup {row} /\ \A a \in accounts : a.email # row.email
      BY <1>3 DEF AccountCreated, Registered
    <2>3. UNCHANGED <<verified, codes, sessions, reports>>
      BY <1>3 DEF AccountCreated
    <2> HIDE DEF row
    <2>4. /\ accounts' \subseteq Account
          /\ \A a, b \in accounts' : a.email = b.email => a = b
      BY <1>1, <2>1, <2>2 DEF TablesSound
    <2> QED
      BY <1>1, <2>3, <2>4 DEF TablesSound, OwnTokens
  <1>4. ASSUME NEW c \in inflight, CodeStored(c)
        PROVE  TablesSound'
    <2> DEFINE row == [email |-> c.email, code |-> c.code, until |-> c.until]
    <2>1. row \in [email : Emails, code : Codes, until : Nat]
      BY <1>1, <1>4, Fields DEF CodeStored
    <2>2. row \in mailed'
      BY <1>1, <1>4 DEF CodeStored, RecordSound
    <2>3. codes' = Upsert(codes, row) /\ UNCHANGED <<accounts, verified, sessions, reports>>
      BY <1>4 DEF CodeStored
    <2> HIDE DEF row
    <2>4. \A r, s \in codes' : r.email = s.email => r = s
      BY <1>1, <2>3, UpsertUnique DEF TablesSound
    <2>5. codes' \subseteq codes \cup {row}
      BY <2>3 DEF Upsert
    <2> QED
      BY <1>1, <2>1, <2>2, <2>3, <2>4, <2>5 DEF TablesSound, OwnTokens
  <1>5. ASSUME NEW c \in inflight, EmailVerified(c)
        PROVE  TablesSound'
    <2>1. c.email \in Emails /\ Earned(c.email)'
      BY <1>1, <1>5, Fields DEF EmailVerified, RecordSound
    <2>2. verified' = verified \cup {c.email} /\ UNCHANGED <<accounts, codes, sessions, reports>>
      BY <1>5 DEF EmailVerified
    <2> QED
      BY <1>1, <2>1, <2>2 DEF TablesSound, OwnTokens
  <1>6. ASSUME NEW c \in inflight, SessionStored(c)
        PROVE  TablesSound'
    <2> DEFINE row == [email |-> c.email, token |-> [email |-> c.email, until |-> c.until]]
    <2>1. row \in [email : Emails, token : Token] /\ row.token.email = row.email
      BY <1>1, <1>6, Fields DEF SessionStored, Token
    <2>2. sessions' = Upsert(sessions, row) /\ UNCHANGED <<accounts, verified, codes, reports>>
      BY <1>6 DEF SessionStored
    <2> HIDE DEF row
    <2>3. \A r, s \in sessions' : r.email = s.email => r = s
      BY <1>1, <2>2, UpsertUnique DEF TablesSound
    <2>4. sessions' \subseteq sessions \cup {row}
      BY <2>2 DEF Upsert
    <2> QED
      BY <1>1, <2>1, <2>2, <2>3, <2>4 DEF TablesSound, OwnTokens
  <1>7. ASSUME NEW c \in inflight, ReportStored(c)
        PROVE  TablesSound'
    <2> DEFINE row == [email |-> c.email, reason |-> c.reason]
    <2>1. row \in Report /\ row.email = c.email /\ c.browser \in Browsers
      BY <1>1, <1>7, Fields DEF ReportStored, Report
    <2>2. <<c.browser, c.email>> \in proven'
      BY <1>1, <1>7 DEF ReportStored, RecordsSound, AccountInvariant, RecordSound
    <2>3. reports' = reports \cup {row} /\ UNCHANGED <<accounts, verified, codes, sessions>>
      BY <1>7 DEF ReportStored
    <2> HIDE DEF row
    <2>4. \A r \in reports' : \E b \in Browsers : <<b, r.email>> \in proven'
      BY <1>1, <2>1, <2>2, <2>3 DEF TablesSound
    <2> QED
      BY <1>1, <2>1, <2>3, <2>4 DEF TablesSound, OwnTokens
  <1> QED
    BY <1>2, <1>3, <1>4, <1>5, <1>6, <1>7, TableWrites

\* What the browsers have, and who was admitted.
ClientsSound ==
    /\ requests \in Nat
    /\ jars \in [Browsers -> Token \cup {NoToken}]
    /\ access \subseteq [browser : Browsers, email : Emails, until : Nat]
    /\ registered \subseteq Account
    /\ mailed \subseteq [email : Emails, code : Codes, until : Nat]
    /\ presented \subseteq [email : Emails, code : Codes, at : Nat]
    /\ proven \subseteq Browsers \X Emails
    /\ admitted \subseteq Browsers \X Emails
    /\ registered \subseteq accounts
    /\ SessionEarned
    /\ AdmissionEarned

LEMMA ClientsStep ==
    ASSUME AccountAssumption, NoTokenAssumption, AccountInvariant, [Next]_vars
    PROVE  ClientsSound'
  <1>1. /\ TypeOK /\ ClientsSound /\ now \in Nat /\ requests \in Nat
        /\ accounts \subseteq accounts' /\ verified \subseteq verified'
        /\ proven \subseteq proven'
        /\ \A c \in inflight : c \in Waiting /\ RecordSound(c)
    BY Grows DEF AccountInvariant, TypeOK, ClientsSound, RegistrationKept, RecordsSound,
        RecordSound
  <1>2. ASSUME UNCHANGED <<clients, history>>, requests' \in Nat
        PROVE  ClientsSound'
    BY <1>1, <1>2 DEF clients, history, ClientsSound, SessionEarned, AdmissionEarned
  <1>3. ASSUME NEW k \in Calls, NEW email \in Emails, NEW code \in Codes,
               VerifyCode(k, email, code)
        PROVE  ClientsSound'
    <2>1. /\ presented' = presented \cup {[email |-> email, code |-> code, at |-> now]}
          /\ requests' \in Nat
          /\ UNCHANGED <<jars, access, accounts, verified, registered, mailed, proven,
                         admitted>>
      BY <1>1, <1>3 DEF VerifyCode, Asks, tables, clients
    <2> QED
      BY <1>1, <2>1 DEF ClientsSound, SessionEarned, AdmissionEarned
  <1>4. ASSUME NEW k \in Calls, Requested(k),
               ~(\E email \in Emails, code \in Codes : VerifyCode(k, email, code))
        PROVE  UNCHANGED <<clients, history>> /\ requests' \in Nat
    BY <1>1, <1>4 DEF Requested, Register, RequestCode, Login, Refresh, GuardedCall,
        ReportAsked, Asks
  <1>5. ASSUME NEW c \in inflight, RegistrationAnswered(c)
        PROVE  ClientsSound'
    <2>1. /\ [email |-> c.email, password |-> c.password] \in accounts
          /\ [email |-> c.email, password |-> c.password] \in Account
      BY <1>1, <1>5 DEF RegistrationAnswered, RecordSound, TypeOK
    <2>2. /\ registered' = registered \cup {[email |-> c.email, password |-> c.password]}
          /\ UNCHANGED <<requests, jars, access, accounts, verified, mailed, presented,
                         proven, admitted>>
      BY <1>5 DEF RegistrationAnswered, Ends, tables, clients
    <2> QED
      BY <1>1, <2>1, <2>2 DEF ClientsSound, SessionEarned, AdmissionEarned
  <1>6. ASSUME NEW c \in inflight, AddresseeFound(c)
        PROVE  ClientsSound'
    <2> DEFINE m == [email |-> c.email, code |-> c.code, until |-> now + CodeTtl]
    <2>1. m \in [email : Emails, code : Codes, until : Nat]
      BY <1>1, <1>6, Fields DEF AddresseeFound, AccountAssumption
    <2>2. /\ mailed' = mailed \cup {m}
          /\ UNCHANGED <<requests, jars, access, accounts, verified, registered, presented,
                         proven, admitted>>
      BY <1>6 DEF AddresseeFound, Moves, tables, clients
    <2> HIDE DEF m
    <2> QED
      BY <1>1, <2>1, <2>2 DEF ClientsSound, SessionEarned, AdmissionEarned
  <1>7. ASSUME NEW c \in inflight, PasswordMatches(c)
        PROVE  ClientsSound'
    <2>1. c.browser \in Browsers /\ c.email \in Emails
      BY <1>1, <1>7, Fields DEF PasswordMatches
    <2>2. /\ proven' = proven \cup {<<c.browser, c.email>>}
          /\ UNCHANGED <<requests, jars, access, accounts, verified, registered, mailed,
                         presented, admitted>>
      BY <1>7 DEF PasswordMatches, Moves, tables, clients
    <2> QED
      BY <1>1, <2>1, <2>2 DEF ClientsSound, SessionEarned, AdmissionEarned
  <1>8. ASSUME NEW c \in inflight, LoggedIn(c)
        PROVE  ClientsSound'
    <2> DEFINE t == [email |-> c.email, until |-> c.until]
               a == [browser |-> c.browser, email |-> c.email, until |-> c.access]
    <2>1. /\ c.browser \in Browsers /\ c.email \in Emails
          /\ t \in Token /\ t.email = c.email
          /\ a \in [browser : Browsers, email : Emails, until : Nat]
          /\ a.browser = c.browser /\ a.email = c.email
      BY <1>1, <1>8, Fields DEF LoggedIn, Token
    <2>2. <<c.browser, c.email>> \in proven
      BY <1>1, <1>8 DEF LoggedIn, RecordSound
    <2>3. /\ jars' = [jars EXCEPT ![c.browser] = t]
          /\ access' = access \cup {a}
          /\ UNCHANGED <<requests, accounts, verified, registered, mailed, presented,
                         proven, admitted>>
      BY <1>8 DEF LoggedIn, Ends, tables, history
    <2> HIDE DEF t, a
    <2>4. SessionEarned'
      BY <1>1, <2>1, <2>2, <2>3 DEF ClientsSound, SessionEarned
    <2> QED
      BY <1>1, <2>1, <2>3, <2>4 DEF ClientsSound, AdmissionEarned
  <1>9. ASSUME NEW c \in inflight, AccessRenewed(c)
        PROVE  ClientsSound'
    <2> DEFINE a == [browser |-> c.browser, email |-> c.email, until |-> now + AccessTtl]
    <2>1. /\ a \in [browser : Browsers, email : Emails, until : Nat]
          /\ a.browser = c.browser /\ a.email = c.email
      BY <1>1, <1>9, Fields DEF AccessRenewed, AccountAssumption
    <2>2. <<c.browser, c.email>> \in proven
      BY <1>1, <1>9 DEF AccessRenewed, RecordSound
    <2>3. /\ access' = access \cup {a}
          /\ UNCHANGED <<requests, jars, accounts, verified, registered, mailed, presented,
                         proven, admitted>>
      BY <1>9 DEF AccessRenewed, Ends, tables, history
    <2> HIDE DEF a
    <2> QED
      BY <1>1, <2>1, <2>2, <2>3 DEF ClientsSound, SessionEarned, AdmissionEarned
  <1>10. ASSUME NEW c \in inflight, Admitted(c)
         PROVE  ClientsSound'
    <2>1. c.browser \in Browsers /\ c.email \in Emails /\ <<c.browser, c.email>> \in proven
      BY <1>1, <1>10, Fields DEF Admitted, RecordSound
    <2>2. /\ admitted' = admitted \cup {<<c.browser, c.email>>}
          /\ c.email \in verified
          /\ UNCHANGED <<requests, jars, access, accounts, verified, registered, mailed,
                         presented, proven>>
      BY <1>10 DEF Admitted, Ends, tables, clients
    <2> QED
      BY <1>1, <2>1, <2>2 DEF ClientsSound, SessionEarned, AdmissionEarned
  <1>11. ASSUME NEW c \in inflight,
                \/ EmailFree(c) \/ EmailTaken(c) \/ AccountCreated(c) \/ MailSent(c)
                \/ MailFailed(c) \/ CodeStored(c) \/ VerifierFound(c) \/ UserUnknown(c) \/ CodeAccepted(c)
                \/ CodeRefused(c) \/ EmailVerified(c) \/ PasswordRefused(c)
                \/ IpStored(c) \/ SessionStored(c) \/ SessionFound(c) \/ SessionRefused(c)
                \/ NotAdmitted(c) \/ ReporterFound(c) \/ ReportStored(c)
                \/ ReportAnswered(c) \/ QueryFailed(c)
         PROVE  UNCHANGED <<clients, history>> /\ requests' \in Nat
    BY <1>1, <1>11 DEF EmailFree, EmailTaken, AccountCreated, MailSent, MailFailed,
        CodeStored, VerifierFound, UserUnknown, CodeAccepted, CodeRefused, EmailVerified,
        PasswordRefused, IpStored, SessionStored, SessionFound, SessionRefused, NotAdmitted,
        ReporterFound, ReportStored, ReportAnswered, QueryFailed, Moves, Ends
  <1>12. ASSUME \/ \E p \in posts : PostDelivered(p)
                \/ PostRejected \/ Tick \/ ProcessExit \/ UNCHANGED vars
         PROVE  UNCHANGED <<clients, history>> /\ requests' \in Nat
    BY <1>1, <1>12 DEF PostDelivered, PostRejected, Tick, ProcessExit, vars
  <1> QED
    BY <1>2, <1>3, <1>4, <1>5, <1>6, <1>7, <1>8, <1>9, <1>10, <1>11, <1>12
       DEF Next, Answered

\* A post only starts when its row was written.
LEMMA PostsStep ==
    ASSUME AccountInvariant, [Next]_vars
    PROVE  posts' \subseteq Report /\ posts' \subseteq reports'
  <1>1. /\ posts \subseteq Report /\ posts \subseteq reports /\ reports \subseteq reports'
        /\ reports \subseteq Report
        /\ \A c \in inflight : RecordSound(c)
    BY Grows DEF AccountInvariant, TypeOK, ReportBacked, RecordsSound
  <1>2. ASSUME NEW c \in inflight, ReportAnswered(c)
        PROVE  posts' \subseteq Report /\ posts' \subseteq reports'
    <2> DEFINE row == [email |-> c.email, reason |-> c.reason]
    <2>1. row \in reports /\ posts' = posts \cup {row}
      BY <1>1, <1>2 DEF ReportAnswered, RecordSound
    <2> HIDE DEF row
    <2> QED
      BY <1>1, <2>1
  <1>3. ASSUME NEW c \in inflight, Answered(c), ~ReportAnswered(c)
        PROVE  posts' = posts
    BY <1>3 DEF Answered, EmailFree, EmailTaken, AccountCreated, RegistrationAnswered,
        AddresseeFound, MailSent, MailFailed, CodeStored, VerifierFound, UserUnknown,
        CodeAccepted, CodeRefused, EmailVerified, PasswordMatches, PasswordRefused, IpStored,
        SessionStored, LoggedIn, SessionFound, SessionRefused, AccessRenewed, Admitted,
        NotAdmitted, ReporterFound, ReportStored, QueryFailed, Moves, Ends
  <1>4. ASSUME NEW k \in Calls, Requested(k)
        PROVE  posts' = posts
    BY <1>4 DEF Requested, Register, RequestCode, VerifyCode, Login, Refresh, GuardedCall,
        ReportAsked, Asks
  <1>5. ASSUME \/ \E p \in posts : PostDelivered(p)
               \/ PostRejected \/ Tick \/ ProcessExit \/ UNCHANGED vars
        PROVE  posts' \subseteq posts
    BY <1>5 DEF PostDelivered, PostRejected, Tick, ProcessExit, vars
  <1> QED
    BY <1>1, <1>2, <1>3, <1>4, <1>5 DEF Next

-----------------------------------------------------------------------------
(* The theorems.                                                           *)

LEMMA AccountInit ==
    ASSUME AccountAssumption, Init
    PROVE  AccountInvariant
  BY DEF Init, AccountAssumption, AccountInvariant, TypeOK, RecordsSound, OwnTokens,
      RegistrationKept, VerifiedInTime, CodeMailedFirst, SessionEarned, AdmissionEarned,
      ReportBacked

LEMMA AccountStep ==
    ASSUME AccountAssumption, NoTokenAssumption, AccountInvariant, [Next]_vars
    PROVE  AccountInvariant'
  <1>1. RecordsSound' /\ TablesSound' /\ ClientsSound'
    BY RecordsStep, TablesStep, ClientsStep
  <1>2. inflight' \subseteq Waiting
    BY <1>1 DEF RecordsSound, RecordSound
  <1>3. now' \in Nat
    BY Grows DEF AccountInvariant
  <1>4. posts' \subseteq Report /\ posts' \subseteq reports'
    BY PostsStep
  <1>5. TypeOK'
    BY <1>1, <1>2, <1>3, <1>4 DEF TypeOK, TablesSound, ClientsSound
  <1>6. (OwnTokens /\ RegistrationKept /\ VerifiedInTime /\ CodeMailedFirst)'
    BY <1>1 DEF TablesSound, ClientsSound, RegistrationKept, VerifiedInTime, Earned,
        CodeMailedFirst
  <1>7. (SessionEarned /\ AdmissionEarned /\ ReportBacked)'
    BY <1>1, <1>4 DEF ClientsSound, TablesSound, ReportBacked
  <1> QED
    BY <1>1, <1>5, <1>6, <1>7 DEF AccountInvariant

LEMMA AccountInvariantHolds == Spec => []AccountInvariant
  BY AccountAssumption, NoTokenAssumption, AccountInit, AccountStep, PTL DEF Spec

\* Every variable keeps its type, every table one row per user.
THEOREM Typing == Spec => []TypeOK
  <1>1. AccountInvariant => TypeOK
    BY DEF AccountInvariant
  <1> QED
    BY <1>1, AccountInvariantHolds, PTL

\* Whoever was told that he is registered keeps the account and its password.
THEOREM Registration == Spec => []RegistrationKept
  <1>1. AccountInvariant => RegistrationKept
    BY DEF AccountInvariant
  <1> QED
    BY <1>1, AccountInvariantHolds, PTL

\* Whoever is verified presented, in its time, a code that was mailed to him.
THEOREM Verification == Spec => []VerifiedInTime
  <1>1. AccountInvariant => VerifiedInTime
    BY DEF AccountInvariant
  <1> QED
    BY <1>1, AccountInvariantHolds, PTL

\* sendMail was called with every code in the table before.
THEOREM Mailing == Spec => []CodeMailedFirst
  <1>1. AccountInvariant => CodeMailedFirst
    BY DEF AccountInvariant
  <1> QED
    BY <1>1, AccountInvariantHolds, PTL

\* A browser only ever has tokens of users whose password it gave.
THEOREM SessionsEarned == Spec => []SessionEarned
  <1>1. AccountInvariant => SessionEarned
    BY DEF AccountInvariant
  <1> QED
    BY <1>1, AccountInvariantHolds, PTL

\* Who gets past both guards gave the password and is verified.
THEOREM Admissions == Spec => []AdmissionEarned
  <1>1. AccountInvariant => AdmissionEarned
    BY DEF AccountInvariant
  <1> QED
    BY <1>1, AccountInvariantHolds, PTL

\* What Discord is told of is a row of the table by somebody who gave his password.
THEOREM Reporting == Spec => []ReportBacked
  <1>1. AccountInvariant => ReportBacked
    BY DEF AccountInvariant
  <1> QED
    BY <1>1, AccountInvariantHolds, PTL

-----------------------------------------------------------------------------
(* Requests come to their end.                                             *)

\* One request runs under an identity.
CallsUnique == \A c, d \in inflight : c.call = d.call => c = d

\* The rank of a handler, by the answer it waits for.
LEMMA Ranks ==
    ASSUME NEW c
    PROVE  /\ c.op = "password" => AnswersLeft(c) = 4
           /\ c.op \in {"taken", "addressee", "verifier", "ip", "reporter"} =>
                 AnswersLeft(c) = 3
           /\ c.op \in {"account", "mail", "check", "session", "lookup", "report"} =>
                 AnswersLeft(c) = 2
           /\ c.op \in {"welcome", "code", "unsent", "mark", "cookie", "owner", "guard",
                        "thanks"} => AnswersLeft(c) = 1
  BY Zenon DEF AnswersLeft

\* The record d is the request of c with an answer less to wait for.
Nearer(c, d) ==
    /\ d.call = c.call
    /\ inflight' = (inflight \ {c}) \cup {d}
    /\ AnswersLeft(d) < AnswersLeft(c)

LEMMA MovesNearer ==
    ASSUME NEW c \in Waiting, NEW op, Moves(c, [c EXCEPT !.op = op]),
           \/ c.op = "taken" /\ op = "account"
           \/ c.op = "account" /\ op = "welcome"
           \/ c.op = "mail" /\ op \in {"code", "unsent"}
           \/ c.op = "verifier" /\ op = "check"
           \/ c.op = "check" /\ op = "mark"
           \/ c.op = "ip" /\ op = "session"
           \/ c.op = "session" /\ op = "cookie"
           \/ c.op = "reporter" /\ op = "report"
           \/ c.op = "report" /\ op = "thanks"
    PROVE  \E d : Nearer(c, d)
  <1> DEFINE d == [c EXCEPT !.op = op]
  <1>1. d.op = op
    BY MovesOn
  <1>2. d.call = c.call
    BY DEF Waiting
  <1>3. inflight' = (inflight \ {c}) \cup {d}
    BY DEF Moves
  <1> HIDE DEF d
  <1>4. AnswersLeft(d) < AnswersLeft(c)
    <2>1. CASE c.op \in {"taken", "verifier", "ip", "reporter"}
      <3>1. AnswersLeft(c) = 3 /\ AnswersLeft(d) = 2
        BY <1>1, <2>1, Ranks
      <3> QED
        BY <3>1
    <2>2. CASE c.op \in {"account", "mail", "check", "session", "report"}
      <3>1. AnswersLeft(c) = 2 /\ AnswersLeft(d) = 1
        BY <1>1, <2>2, Ranks
      <3> QED
        BY <3>1
    <2> QED
      BY <2>1, <2>2
  <1> QED
    BY <1>2, <1>3, <1>4 DEF Nearer

\* A step ends requests, or starts one under a free identity, or brings one of them
\* nearer to its end.
LEMMA InflightStep ==
    ASSUME TypeOK, [Next]_vars
    PROVE  \/ inflight' \subseteq inflight
           \/ \E d : Asks(d)
           \/ \E c \in inflight : \E d : Nearer(c, d)
  <1> DEFINE Kept == inflight' \subseteq inflight
             Begins == \E d : Asks(d)
             Advances == \E c \in inflight : \E d : Nearer(c, d)
  <1>1. ASSUME NEW k \in Calls, Requested(k)
        PROVE  Begins
    BY <1>1 DEF Requested, Register, RequestCode, VerifyCode, Login, Refresh, GuardedCall,
        ReportAsked
  <1>2. ASSUME NEW c \in inflight, Answered(c)
        PROVE  Kept \/ Advances
    <2>1. c \in Waiting
      BY DEF TypeOK
    <2>2. ASSUME \/ EmailTaken(c) \/ RegistrationAnswered(c) \/ CodeStored(c)
                 \/ UserUnknown(c) \/ CodeRefused(c) \/ EmailVerified(c)
                 \/ PasswordRefused(c) \/ LoggedIn(c) \/ SessionRefused(c)
                 \/ AccessRenewed(c) \/ Admitted(c) \/ NotAdmitted(c)
                 \/ ReportAnswered(c) \/ QueryFailed(c)
          PROVE  Kept
      BY <2>2 DEF EmailTaken, RegistrationAnswered, CodeStored, UserUnknown, CodeRefused,
          EmailVerified, PasswordRefused, IpStored, LoggedIn, SessionRefused, AccessRenewed,
          Admitted, NotAdmitted, ReportAnswered, QueryFailed, Ends
    <2>3. EmailFree(c) => Advances
      BY <2>1, MovesNearer DEF EmailFree
    <2>4. AccountCreated(c) => Advances
      BY <2>1, MovesNearer DEF AccountCreated
    <2>5. MailSent(c) \/ MailFailed(c) => Advances
      BY <2>1, MovesNearer DEF MailSent, MailFailed
    <2>6. VerifierFound(c) \/ CodeAccepted(c) => Advances
      BY <2>1, MovesNearer DEF VerifierFound, CodeAccepted
    <2>7. IpStored(c) \/ SessionStored(c) => Advances
      BY <2>1, MovesNearer DEF IpStored, SessionStored
    <2>8. ReporterFound(c) \/ ReportStored(c) => Advances
      BY <2>1, MovesNearer DEF ReporterFound, ReportStored
    <2>9. ASSUME NEW d, d.call = c.call, Moves(c, d),
                 \/ c.op = "addressee" /\ d.op = "mail"
                 \/ c.op = "password" /\ d.op = "ip"
                 \/ c.op = "lookup" /\ d.op = "owner"
          PROVE  Advances
      <3>1. AnswersLeft(d) < AnswersLeft(c)
        <4>1. CASE c.op = "lookup"
          <5>1. AnswersLeft(c) = 2 /\ AnswersLeft(d) = 1
            BY <2>9, <4>1, Ranks
          <5> QED
            BY <5>1
        <4>2. CASE c.op = "password"
          <5>1. AnswersLeft(c) = 4 /\ AnswersLeft(d) = 3
            BY <2>9, <4>2, Ranks
          <5> QED
            BY <5>1
        <4>3. CASE c.op = "addressee"
          <5>1. AnswersLeft(c) = 3 /\ AnswersLeft(d) = 2
            BY <2>9, <4>3, Ranks
          <5> QED
            BY <5>1
        <4> QED
          BY <2>9, <4>1, <4>2, <4>3
      <3> QED
        BY <2>9, <3>1 DEF Nearer, Moves
    <2> HIDE DEF Advances
    <2>10. ASSUME AddresseeFound(c)
           PROVE  Advances
      <3> DEFINE d == [op |-> "mail", call |-> c.call, email |-> c.email, code |-> c.code,
                       until |-> now + CodeTtl]
      <3>1. Moves(c, d) /\ c.op = "addressee"
        BY <2>10 DEF AddresseeFound
      <3>2. d.call = c.call /\ d.op = "mail"
        OBVIOUS
      <3> HIDE DEF d
      <3> QED
        BY <2>9, <3>1, <3>2
    <2>11. ASSUME PasswordMatches(c)
           PROVE  Advances
      <3> DEFINE d == [op |-> "ip", call |-> c.call, browser |-> c.browser,
                       email |-> c.email, access |-> now + AccessTtl,
                       until |-> now + RefreshTtl]
      <3>1. Moves(c, d) /\ c.op = "password"
        BY <2>11 DEF PasswordMatches
      <3>2. d.call = c.call /\ d.op = "ip"
        OBVIOUS
      <3> HIDE DEF d
      <3> QED
        BY <2>9, <3>1, <3>2
    <2>12. ASSUME SessionFound(c)
           PROVE  Advances
      <3>1. PICK r \in sessions :
                Moves(c, [op |-> "owner", call |-> c.call, browser |-> c.browser,
                          email |-> r.email])
        BY <2>12 DEF SessionFound
      <3> DEFINE d == [op |-> "owner", call |-> c.call, browser |-> c.browser,
                       email |-> r.email]
      <3>2. Moves(c, d) /\ c.op = "lookup"
        BY <2>12, <3>1 DEF SessionFound
      <3>3. d.call = c.call /\ d.op = "owner"
        OBVIOUS
      <3> HIDE DEF d
      <3> QED
        BY <2>9, <3>2, <3>3
    <2> HIDE DEF Kept
    <2> QED
      BY <1>2, <2>2, <2>3, <2>4, <2>5, <2>6, <2>7, <2>8, <2>10, <2>11, <2>12 DEF Answered
  <1>3. ASSUME \/ \E p \in posts : PostDelivered(p)
               \/ PostRejected \/ Tick \/ ProcessExit \/ UNCHANGED vars
        PROVE  Kept
    BY <1>3 DEF PostDelivered, PostRejected, Tick, ProcessExit, vars
  <1> HIDE DEF Kept, Begins, Advances
  <1>4. Kept \/ Begins \/ Advances
    BY <1>1, <1>2, <1>3 DEF Next
  <1> QED
    BY <1>4 DEF Kept, Begins, Advances

\* A step keeps the identities apart, and what it leaves of a request is nearer to its end.
LEMMA AdvanceStep ==
    ASSUME TypeOK, CallsUnique, [Next]_vars
    PROVE  /\ CallsUnique'
           /\ \A c \in inflight, d \in inflight' :
                 c.call = d.call => c = d \/ AnswersLeft(d) < AnswersLeft(c)
  <1> DEFINE Goal == /\ CallsUnique'
                     /\ \A c \in inflight, d \in inflight' :
                           c.call = d.call => c = d \/ AnswersLeft(d) < AnswersLeft(c)
  <1>1. ASSUME inflight' \subseteq inflight
        PROVE  Goal
    BY <1>1 DEF CallsUnique
  <1>2. ASSUME NEW e, Asks(e)
        PROVE  Goal
    BY <1>2 DEF CallsUnique, Asks
  <1>3. ASSUME NEW b \in inflight, NEW e, Nearer(b, e)
        PROVE  Goal
    <2>1. /\ e.call = b.call /\ AnswersLeft(e) < AnswersLeft(b)
          /\ \A d \in inflight' : d = e \/ (d \in inflight /\ d # b)
      BY <1>3 DEF Nearer
    <2>2. CallsUnique'
      BY <2>1 DEF CallsUnique
    <2>3. ASSUME NEW c \in inflight, NEW d \in inflight', c.call = d.call
          PROVE  c = d \/ AnswersLeft(d) < AnswersLeft(c)
      <3>1. CASE d = e
        <4>1. c = b
          BY <2>1, <2>3, <3>1 DEF CallsUnique
        <4> QED
          BY <2>1, <3>1, <4>1
      <3>2. CASE d # e
        BY <2>1, <2>3, <3>2 DEF CallsUnique
      <3> QED
        BY <3>1, <3>2
    <2> QED
      BY <2>2, <2>3
  <1> QED
    BY <1>1, <1>2, <1>3, InflightStep

\* Every answer brings a request nearer to its end, a failed e-mail included, and none
\* takes more than four: no handler of the accounts goes on for ever by itself.
THEOREM Advancing == Spec => RequestsAdvance
  <1>1. Init => CallsUnique
    BY DEF Init, CallsUnique
  <1>2. TypeOK /\ CallsUnique /\ [Next]_vars => CallsUnique'
    BY AdvanceStep
  <1>3. TypeOK /\ CallsUnique /\ [Next]_vars =>
            [\A c \in inflight, d \in inflight' :
                c.call = d.call => c = d \/ AnswersLeft(d) < AnswersLeft(c)]_vars
    BY AdvanceStep
  <1> QED
    BY <1>1, <1>2, <1>3, Typing, PTL DEF Spec, RequestsAdvance

-----------------------------------------------------------------------------
(* Lifetimes.                                                              *)

\* What a handler is going to hand out does not live longer than its time from now on.
LifeSound(c) ==
    /\ c.op \in {"mail", "code", "unsent"} => c.until <= now + CodeTtl
    /\ c.op \in {"ip", "session", "cookie"} =>
          c.until <= now + RefreshTtl /\ c.access <= now + AccessTtl

Lifetimes == LifetimesKept /\ \A c \in inflight : LifeSound(c)

\* The steps that write a code, a session, a cookie or an access token.
LEMMA TokenWrites ==
    ASSUME [Next]_vars
    PROVE  \/ UNCHANGED <<codes, sessions, jars, access>>
           \/ \E c \in inflight : CodeStored(c) \/ SessionStored(c) \/ LoggedIn(c)
                                  \/ AccessRenewed(c)
  <1>1. ASSUME NEW k \in Calls, Requested(k)
        PROVE  UNCHANGED <<codes, sessions, jars, access>>
    BY <1>1 DEF Requested, Register, RequestCode, VerifyCode, Login, Refresh, GuardedCall,
        ReportAsked, Asks, tables, clients
  <1>2. ASSUME NEW c \in inflight, Answered(c), ~CodeStored(c), ~SessionStored(c),
               ~LoggedIn(c), ~AccessRenewed(c)
        PROVE  UNCHANGED <<codes, sessions, jars, access>>
    <2>1. UNCHANGED <<codes, sessions>>
      BY <1>2 DEF Answered, EmailFree, EmailTaken, AccountCreated, RegistrationAnswered,
          AddresseeFound, MailSent, MailFailed, VerifierFound, UserUnknown, CodeAccepted,
          CodeRefused, EmailVerified, PasswordMatches, PasswordRefused, IpStored, SessionFound,
          SessionRefused, Admitted, NotAdmitted, ReporterFound, ReportStored,
          ReportAnswered, QueryFailed, tables
    <2>2. UNCHANGED <<jars, access>>
      BY <1>2 DEF Answered, EmailFree, EmailTaken, AccountCreated, RegistrationAnswered,
          AddresseeFound, MailSent, MailFailed, VerifierFound, UserUnknown, CodeAccepted,
          CodeRefused, EmailVerified, PasswordMatches, PasswordRefused, IpStored, SessionFound,
          SessionRefused, Admitted, NotAdmitted, ReporterFound, ReportStored,
          ReportAnswered, QueryFailed, Moves, clients
    <2> QED
      BY <2>1, <2>2
  <1>3. ASSUME \/ \E p \in posts : PostDelivered(p)
               \/ PostRejected \/ Tick \/ ProcessExit \/ UNCHANGED vars
        PROVE  UNCHANGED <<codes, sessions, jars, access>>
    BY <1>3 DEF PostDelivered, PostRejected, Tick, ProcessExit, vars, tables, clients
  <1> QED
    BY <1>1, <1>2, <1>3 DEF Next

\* What ends soon enough now ends soon enough later.
LEMMA Later ==
    ASSUME NEW m \in Nat, NEW k \in Nat, NEW t \in Nat, NEW n \in Nat, m <= k, t <= m + n
    PROVE  t <= k + n
  OBVIOUS

\* Time only shortens what is left of a life.
LEMMA LifeStays ==
    ASSUME AccountAssumption, TypeOK, [Next]_vars
    PROVE  /\ \A t, n \in Nat : t <= now + n => t <= now' + n
           /\ CodeTtl \in Nat /\ RefreshTtl \in Nat /\ AccessTtl \in Nat
           /\ now \in Nat /\ now' \in Nat
  <1>1. now \in Nat
    BY DEF TypeOK
  <1>2. now' \in Nat /\ now <= now'
    BY Grows
  <1>3. ASSUME NEW t \in Nat, NEW n \in Nat, t <= now + n
        PROVE  t <= now' + n
    BY <1>1, <1>2, <1>3, Later
  <1>4. CodeTtl \in Nat /\ RefreshTtl \in Nat /\ AccessTtl \in Nat
    BY DEF AccountAssumption
  <1> QED
    BY <1>1, <1>2, <1>3, <1>4

LEMMA TokenLives ==
    ASSUME AccountAssumption, NoTokenAssumption, AccountInvariant, Lifetimes, [Next]_vars
    PROVE  LifetimesKept'
  <1>1. /\ TypeOK
        /\ \A t, n \in Nat : t <= now + n => t <= now' + n
        /\ CodeTtl \in Nat /\ RefreshTtl \in Nat /\ AccessTtl \in Nat
        /\ now \in Nat /\ now' \in Nat
    BY LifeStays DEF AccountInvariant
  <1>2. /\ \A r \in codes : r.until \in Nat
        /\ \A r \in sessions : r.token.until \in Nat
        /\ \A b \in Browsers : jars[b] # NoToken => jars[b].until \in Nat
        /\ \A t \in access : t.until \in Nat
    <2>1. \A t \in Token : t.until \in Nat
      BY DEF Token
    <2>2. /\ codes \subseteq [email : Emails, code : Codes, until : Nat]
          /\ sessions \subseteq [email : Emails, token : Token]
          /\ jars \in [Browsers -> Token \cup {NoToken}]
          /\ access \subseteq [browser : Browsers, email : Emails, until : Nat]
      BY <1>1 DEF TypeOK
    <2>3. \A b \in Browsers : jars[b] # NoToken => jars[b] \in Token
      BY <2>2
    <2>4. \A r \in sessions : r.token \in Token
      BY <2>2
    <2>5. (\A r \in codes : r.until \in Nat) /\ (\A t \in access : t.until \in Nat)
      BY <2>2
    <2> QED
      BY <2>1, <2>3, <2>4, <2>5
  <1>3. /\ \A r \in codes : r.until <= now' + CodeTtl
        /\ \A r \in sessions : r.token.until <= now' + RefreshTtl
        /\ \A b \in Browsers : jars[b] # NoToken => jars[b].until <= now' + RefreshTtl
        /\ \A t \in access : t.until <= now' + AccessTtl
    BY <1>1, <1>2 DEF Lifetimes, LifetimesKept
  <1>4. \A c \in inflight : c \in Waiting /\ LifeSound(c)
    BY <1>1 DEF TypeOK, Lifetimes
  <1>5. CASE UNCHANGED <<codes, sessions, jars, access>>
    BY <1>3, <1>5 DEF LifetimesKept
  <1>6. ASSUME NEW c \in inflight, CodeStored(c)
        PROVE  LifetimesKept'
    <2>1. c.until <= now' + CodeTtl
      BY <1>1, <1>4, <1>6, Fields DEF CodeStored, LifeSound
    <2>2. UNCHANGED <<sessions, jars, access>>
      BY <1>6 DEF CodeStored, clients
    <2>3. \A r \in codes' : r.until <= now' + CodeTtl
      BY <1>3, <1>6, <2>1 DEF CodeStored, Upsert
    <2> QED
      BY <1>3, <2>2, <2>3 DEF LifetimesKept
  <1>7. ASSUME NEW c \in inflight, SessionStored(c)
        PROVE  LifetimesKept'
    <2>1. c.until <= now' + RefreshTtl
      BY <1>1, <1>4, <1>7, Fields DEF SessionStored, LifeSound
    <2>2. UNCHANGED <<codes, jars, access>>
      BY <1>7 DEF SessionStored, Moves, clients
    <2>3. \A r \in sessions' : r.token.until <= now' + RefreshTtl
      BY <1>3, <1>7, <2>1 DEF SessionStored, Upsert
    <2> QED
      BY <1>3, <2>2, <2>3 DEF LifetimesKept
  <1>8. ASSUME NEW c \in inflight, LoggedIn(c)
        PROVE  LifetimesKept'
    <2>1. c.until <= now' + RefreshTtl /\ c.access <= now' + AccessTtl
      BY <1>1, <1>4, <1>8, Fields DEF LoggedIn, LifeSound
    <2>2. UNCHANGED <<codes, sessions>>
      BY <1>8 DEF LoggedIn, tables
    <2>3. \A b \in Browsers : jars'[b] # NoToken => jars'[b].until <= now' + RefreshTtl
      BY <1>1, <1>3, <1>8, <2>1 DEF LoggedIn, TypeOK
    <2>4. \A t \in access' : t.until <= now' + AccessTtl
      BY <1>3, <1>8, <2>1 DEF LoggedIn
    <2> QED
      BY <1>3, <2>2, <2>3, <2>4 DEF LifetimesKept
  <1>9. ASSUME NEW c \in inflight, AccessRenewed(c)
        PROVE  LifetimesKept'
    <2>1. UNCHANGED <<codes, sessions, jars, now>>
      BY <1>9 DEF AccessRenewed, tables, Ends
    <2>2. \A t \in access' : t.until <= now' + AccessTtl
      BY <1>1, <1>3, <1>9, <2>1 DEF AccessRenewed
    <2> QED
      BY <1>3, <2>1, <2>2 DEF LifetimesKept
  <1> QED
    BY <1>5, <1>6, <1>7, <1>8, <1>9, TokenWrites

\* A life begins when the record is made, and what the record says of it is kept.
LEMMA RecordLives ==
    ASSUME AccountAssumption, AccountInvariant, Lifetimes, [Next]_vars,
           NEW d \in inflight'
    PROVE  LifeSound(d)'
  <1>1. /\ TypeOK
        /\ \A t, n \in Nat : t <= now + n => t <= now' + n
        /\ CodeTtl \in Nat /\ RefreshTtl \in Nat /\ AccessTtl \in Nat
        /\ now \in Nat /\ now' \in Nat
    BY LifeStays DEF AccountInvariant
  <1>2. \A c \in inflight : c \in Waiting /\ LifeSound(c)'
    <2> SUFFICES ASSUME NEW c \in inflight PROVE c \in Waiting /\ LifeSound(c)'
      OBVIOUS
    <2>1. c \in Waiting /\ LifeSound(c)
      BY <1>1 DEF TypeOK, Lifetimes
    <2> QED
      BY <1>1, <2>1, Fields DEF LifeSound
  <1>3. CASE d \in inflight
    BY <1>2, <1>3
  <1>4. CASE d.op \notin {"mail", "code", "unsent", "ip", "session", "cookie"}
    BY <1>4 DEF LifeSound
  <1>5. ASSUME NEW c \in inflight, NEW op, Moves(c, [c EXCEPT !.op = op]), d \notin inflight,
               \/ c.op = "mail" /\ op \in {"code", "unsent"}
               \/ c.op = "ip" /\ op = "session"
               \/ c.op = "session" /\ op = "cookie"
        PROVE  LifeSound(d)'
    <2>1. d = [c EXCEPT !.op = op]
      BY <1>5 DEF Moves
    <2>2. c \in Waiting /\ LifeSound(c)'
      BY <1>2
    <2>3. /\ c.op = "mail" =>
               c \in [op : {"mail", "code", "unsent"}, call : Calls, email : Emails,
                      code : Codes, until : Nat]
          /\ c.op \in {"ip", "session"} =>
               c \in [op : {"ip", "session", "cookie"}, call : Calls, browser : Browsers,
                      email : Emails, access : Nat, until : Nat]
      BY <2>2 DEF Waiting
    <2>4. d.op = op /\ d.until = c.until /\ (c.op # "mail" => d.access = c.access)
      BY <1>5, <2>1, <2>3
    <2> QED
      BY <1>5, <2>2, <2>4 DEF LifeSound
  <1>6. ASSUME NEW c \in inflight, AddresseeFound(c), d \notin inflight
        PROVE  LifeSound(d)'
    <2>1. d.op = "mail" /\ d.until = now + CodeTtl /\ now' = now
      BY <1>6 DEF AddresseeFound, Moves
    <2> QED
      BY <1>1, <2>1 DEF LifeSound
  <1>7. ASSUME NEW c \in inflight, PasswordMatches(c), d \notin inflight
        PROVE  LifeSound(d)'
    <2>1. d.op = "ip" /\ d.until = now + RefreshTtl /\ d.access = now + AccessTtl
          /\ now' = now
      BY <1>7 DEF PasswordMatches, Moves
    <2> QED
      BY <1>1, <2>1 DEF LifeSound
  <1>8. ASSUME NEW c \in inflight, NEW op, Moves(c, [c EXCEPT !.op = op]), d \notin inflight,
               op \in {"account", "welcome", "check", "mark", "report", "thanks"}
        PROVE  LifeSound(d)'
    <2>1. d = [c EXCEPT !.op = op] /\ c \in Waiting
      BY <1>2, <1>8 DEF Moves
    <2>2. d.op = op
      BY <2>1 DEF Waiting
    <2> QED
      BY <1>4, <1>8, <2>2
  <1>9. ASSUME NEW c \in inflight, SessionFound(c), d \notin inflight
        PROVE  LifeSound(d)'
    <2>1. d.op = "owner"
      BY <1>9 DEF SessionFound, Moves
    <2> QED
      BY <1>4, <2>1
  <1>10. ASSUME NEW k \in Calls, Requested(k), d \notin inflight
         PROVE  LifeSound(d)'
    <2>1. d.op \in {"taken", "addressee", "verifier", "password", "lookup", "guard", "reporter"}
      BY <1>10 DEF Requested, Register, RequestCode, VerifyCode, Login, Refresh, GuardedCall,
          ReportAsked, Asks
    <2> QED
      BY <1>4, <2>1
  <1>11. ASSUME NEW c \in inflight, Answered(c), d \notin inflight
         PROVE  LifeSound(d)'
    <2>1. \/ \E op : /\ Moves(c, [c EXCEPT !.op = op])
                     /\ \/ op \in {"account", "welcome", "check", "mark", "report", "thanks"}
                        \/ c.op = "mail" /\ op \in {"code", "unsent"}
                        \/ c.op = "ip" /\ op = "session"
                        \/ c.op = "session" /\ op = "cookie"
          \/ AddresseeFound(c) \/ PasswordMatches(c) \/ SessionFound(c)
          \/ inflight' \subseteq inflight
      BY <1>11 DEF Answered, EmailFree, EmailTaken, AccountCreated, RegistrationAnswered,
          MailSent, MailFailed, CodeStored, VerifierFound, UserUnknown, CodeAccepted,
          CodeRefused, EmailVerified, PasswordRefused, IpStored, SessionStored, LoggedIn,
          SessionRefused, AccessRenewed, Admitted, NotAdmitted, ReporterFound,
          ReportStored, ReportAnswered, QueryFailed, Ends
    <2> QED
      BY <1>5, <1>6, <1>7, <1>8, <1>9, <1>11, <2>1
  <1>12. ASSUME \/ \E p \in posts : PostDelivered(p)
                \/ PostRejected \/ Tick \/ ProcessExit \/ UNCHANGED vars
         PROVE  d \in inflight
    BY <1>12 DEF PostDelivered, PostRejected, Tick, ProcessExit, vars
  <1> QED
    BY <1>3, <1>10, <1>11, <1>12 DEF Next

\* No code, session or token lives longer than its time from now on, whatever waited,
\* was replaced or was renewed meanwhile.
THEOREM Expiry == Spec => []LifetimesKept
  <1>1. Init => Lifetimes
    BY DEF Init, Lifetimes, LifetimesKept
  <1>2. AccountInvariant /\ Lifetimes /\ [Next]_vars => Lifetimes'
    BY AccountAssumption, NoTokenAssumption, TokenLives, RecordLives DEF Lifetimes
  <1>3. Lifetimes => LifetimesKept
    BY DEF Lifetimes
  <1> QED
    BY <1>1, <1>2, <1>3, AccountInvariantHolds, PTL DEF Spec
=============================================================================
