--------------------------------- MODULE Mfa ---------------------------------
(***************************************************************************)
(* Two-factor authentication of one user: enrolment from the settings page *)
(* in several tabs (SettingsPage, MfaEnrollmentService) and sign-in        *)
(* through a challenge (LoginPage, MfaChallengePage, AuthService,          *)
(* MfaChallengeService), over one User row and the keys kept in Redis.     *)
(*                                                                         *)
(* A TOTP code is named by the secret it is computed from, an emailed code *)
(* by its number; 0 is a code that is wrong.  Covered: keys that expire,   *)
(* requests and answers that are lost, a page left while it waits.  Not    *)
(* covered: SMS (no page enrols it), the time window of a TOTP code, the   *)
(* password, backup codes as a way to sign in (no code accepts them).      *)
(***************************************************************************)
EXTENDS Naturals, FiniteSets

CONSTANTS Tabs,          \* tabs that have the settings page open
          Reqs,          \* requests that are under way at a time
          MaxBegins,     \* bound: enrolments begun
          MaxEnabled,    \* bound: confirmations that may complete an enrolment
          MaxChallenges, \* bound: challenges created
          MaxSubmits,    \* bound: codes submitted to challenges
          MaxFaults,     \* bound: lost requests or answers, expired keys
          Nobody         \* no tab waits for the answer

ASSUME MfaAssumption == /\ MaxBegins \in Nat /\ MaxEnabled \in Nat
                        /\ MaxChallenges \in Nat /\ MaxSubmits \in Nat /\ MaxFaults \in Nat
                        /\ Nobody \notin Tabs /\ IsFiniteSet(Reqs)

Challenges == 1..MaxChallenges
Methods == {"TOTP", "EMAIL"}

VARIABLES secret,     \* User.mfaTotpSecret, 0 when there is none
          secrets,    \* secrets generated so far
          preferred,  \* User.mfaPreferred; "none" while mfaEnabled is false
          batch,      \* the MfaBackupCode rows: the enrolment that made them
          enrolOtp,   \* Redis, mfa:email-enroll: a code, 0 when there is none
          codes,      \* enrolment codes generated so far
          mailed,     \* enrolment codes in the user's mailbox
          captured,   \* secrets in the user's authenticator
          challenge,  \* Redis, mfa:challenge: the method, "new" or "gone"
          otp,        \* Redis, mfa:otp: "unsent", "live" or "gone"
          held,       \* challenges some sign-in page has the token of
          tab,        \* the settings page of each tab
          req,        \* requests under way
          begins, submits, faults,
          sessions,   \* history: sessions issued for each challenge
          spent,      \* history: enrolments completed with each emailed code
          met,        \* history: challenges and codes two submissions checked at once
          restarted,  \* history: a secret was replaced after it was confirmed
          twice,      \* history: tabs with two enrolments begun at once
          superseded  \* history: tabs whose QR code another tab has replaced

vars == <<secret, secrets, preferred, batch, enrolOtp, codes, mailed, captured, challenge, otp,
          held, tab, req, begins, submits, faults,
          sessions, spent, met, restarted, twice, superseded>>
totpVars == <<secret, secrets, captured, restarted, superseded>>
emailVars == <<enrolOtp, codes, mailed, begins>>
signInVars == <<challenge, otp, held, submits, sessions>>
userVars == <<preferred, batch>>

PageSteps == {"loading", "error", "overview", "choose", "totp-verify", "email-verify",
              "backup-codes"}
Loading == [step |-> "loading", enabled |-> FALSE, shown |-> 0, submitting |-> FALSE]

Ops == {"begin TOTP", "begin EMAIL", "confirm TOTP", "confirm EMAIL", "login", "verify"}
Steps == {"idle", "starting", "mailing", "checking", "spending", "enabling", "challenging",
          "finding", "consuming", "issuing", "answering"}
NoReq == [op |-> "none", step |-> "idle", tab |-> Nobody, arg |-> 0, got |-> 0, method |-> "none"]

Init == /\ secret = 0 /\ secrets = 0 /\ preferred = "none" /\ batch = 0
        /\ enrolOtp = 0 /\ codes = 0 /\ mailed = {} /\ captured = {}
        /\ challenge = [c \in Challenges |-> "new"] /\ otp = [c \in Challenges |-> "unsent"]
        /\ held = {}
        /\ tab = [t \in Tabs |-> Loading]
        /\ req = [q \in Reqs |-> NoReq]
        /\ begins = 0 /\ submits = 0 /\ faults = 0
        /\ sessions = [c \in Challenges |-> 0] /\ spent = [c \in 1..MaxBegins |-> 0]
        /\ met = {} /\ restarted = FALSE /\ twice = {} /\ superseded = {}

At(q, op, step) == req[q].op = op /\ req[q].step = step
Send(q, r) == req[q].step = "idle" /\ req' = [req EXCEPT ![q] = r]
GoOn(q, step) == req' = [req EXCEPT ![q].step = step]
Done(q) == req' = [req EXCEPT ![q] = NoReq]
UnderWay(op) == {q \in Reqs : req[q].op = op}

(* What a tab does with an answer; a page that was left does nothing. *)
Show(q, page) == tab' = IF req[q].tab = Nobody THEN tab ELSE [tab EXCEPT ![req[q].tab] = page]
Page(q) == tab[req[q].tab]

(* Mutant: setSubmitting(false) is not in the `finally`. *)
StillSubmitting(page) == page

AfterError(page) == [page EXCEPT !.submitting = FALSE]

Refused(q) == Done(q) /\ Show(q, AfterError(Page(q)))

-----------------------------------------------------------------------------
(* SettingsPage: loading the profile, leaving (and opening the page again), *)
(* choosing a method.                                                        *)

pageOnly == <<totpVars, emailVars, signInVars, userVars, spent, met, twice>>

ProfileLoads(t) == /\ tab[t].step = "loading"
                   /\ tab' = [tab EXCEPT ![t].step = "overview", ![t].enabled = preferred # "none"]
                   /\ UNCHANGED <<pageOnly, req, faults>>

ProfileFails(t) == /\ tab[t].step = "loading"
                   /\ faults < MaxFaults /\ faults' = faults + 1
                   /\ tab' = [tab EXCEPT ![t].step = "error"]
                   /\ UNCHANGED <<pageOnly, req>>

Leave(t) == /\ tab[t] # Loading
            /\ tab' = [tab EXCEPT ![t] = Loading]
            /\ req' = [q \in Reqs |-> IF req[q].tab = t THEN [req[q] EXCEPT !.tab = Nobody] ELSE req[q]]
            /\ twice' = twice \ {t} /\ superseded' = superseded \ {t}
            /\ UNCHANGED <<secret, secrets, captured, restarted, emailVars, signInVars, userVars,
                           spent, met, faults>>

SetUp(t) == /\ tab[t].step = "overview" /\ ~tab[t].enabled
            /\ tab' = [tab EXCEPT ![t].step = "choose"]
            /\ UNCHANGED <<pageOnly, req, faults>>

(* beginTotp, beginEmail: nothing stops a second click while the first is under way. *)
Beginning(t) == {q \in Reqs : req[q].tab = t /\ req[q].op \in {"begin TOTP", "begin EMAIL"}}

Begin(t, q, op) ==
  /\ op \in {"begin TOTP", "begin EMAIL"} /\ tab[t].step = "choose"
  /\ begins < MaxBegins /\ begins' = begins + 1
  /\ Send(q, [NoReq EXCEPT !.op = op, !.step = "starting", !.tab = t])
  /\ twice' = IF Beginning(t) # {} THEN twice \cup {t} ELSE twice
  /\ UNCHANGED <<totpVars, enrolOtp, codes, mailed, signInVars, userVars, tab, spent, met, faults>>

-----------------------------------------------------------------------------
(* startTotpEnrollment: the new secret replaces the stored one. *)

(* Mutant: the secret is shown, and stored only when there is none. *)
KeptSecret(s) == IF secret = 0 THEN s ELSE secret

StoredSecret(s) == s

StartTotp(q) ==
  /\ At(q, "begin TOTP", "starting")
  /\ secrets' = secrets + 1
  /\ secret' = StoredSecret(secrets')
  /\ req' = [req EXCEPT ![q].step = "answering", ![q].got = secrets']
  /\ restarted' = (restarted \/ preferred = "TOTP"
                     \/ \E p \in Reqs : At(p, "confirm TOTP", "enabling"))
  /\ superseded' = IF req[q].tab = Nobody THEN Tabs ELSE Tabs \ {req[q].tab}
  /\ UNCHANGED <<captured, emailVars, signInVars, userVars, tab, spent, met, twice, faults>>

(* startEmailEnrollment: the key, then the mail. *)
StartEmail(q) ==
  /\ At(q, "begin EMAIL", "starting")
  /\ codes' = codes + 1
  /\ enrolOtp' = codes'
  /\ req' = [req EXCEPT ![q].step = "mailing", ![q].got = codes']
  /\ UNCHANGED <<totpVars, mailed, begins, signInVars, userVars, tab, spent, met, twice, faults>>

MailCode(q) == /\ At(q, "begin EMAIL", "mailing")
               /\ mailed' = mailed \cup {req[q].got}
               /\ GoOn(q, "answering")
               /\ UNCHANGED <<totpVars, enrolOtp, codes, begins, signInVars, userVars, tab, spent, met,
                              twice, faults>>

(* Whatever step the page is at, the answer moves it on. *)
Begun(q) ==
  /\ req[q].step = "answering" /\ req[q].op \in {"begin TOTP", "begin EMAIL"}
  /\ Show(q, IF req[q].op = "begin TOTP"
               THEN [Page(q) EXCEPT !.step = "totp-verify", !.shown = req[q].got]
               ELSE [Page(q) EXCEPT !.step = "email-verify", !.shown = 0])
  /\ Done(q)
  /\ UNCHANGED <<pageOnly, faults>>

(* The user scans the QR code. *)
Scan(t) == /\ tab[t].step = "totp-verify"
           /\ captured' = captured \cup {tab[t].shown}
           /\ UNCHANGED <<secret, secrets, restarted, superseded, emailVars, signInVars, userVars,
                          tab, req, spent, met, twice, faults>>

-----------------------------------------------------------------------------
(* submitCode, and the enrolment it confirms. *)

(* Mutant: the button is not disabled while a code is verified. *)
NotDisabled(t) == tab[t].step \in {"totp-verify", "email-verify"}

CanSubmit(t) == tab[t].step \in {"totp-verify", "email-verify"} /\ ~tab[t].submitting

Submit(t, q, code) ==
  LET method == IF tab[t].step = "totp-verify" THEN "TOTP" ELSE "EMAIL" IN
  /\ CanSubmit(t)
  /\ batch + Cardinality(UnderWay("confirm TOTP") \cup UnderWay("confirm EMAIL")) < MaxEnabled
  /\ code \in {0} \cup (IF method = "TOTP" THEN captured ELSE mailed)
  /\ Send(q, [NoReq EXCEPT !.op = IF method = "TOTP" THEN "confirm TOTP" ELSE "confirm EMAIL",
                           !.step = "checking", !.tab = t, !.arg = code, !.method = method])
  /\ tab' = [tab EXCEPT ![t].submitting = TRUE]
  /\ UNCHANGED <<pageOnly, faults>>

(* Mutant: a pending enrolment is confirmed by any code. *)
AnyCode(code, stored) == stored # 0

Matches(code, stored) == stored # 0 /\ code = stored

CheckTotp(q) ==
  /\ At(q, "confirm TOTP", "checking")
  /\ IF Matches(req[q].arg, secret) THEN GoOn(q, "enabling") /\ UNCHANGED tab ELSE Refused(q)
  /\ UNCHANGED <<pageOnly, faults>>

(* Two submissions of a code both find the key when neither has deleted it yet. *)
CheckEmail(q) ==
  /\ At(q, "confirm EMAIL", "checking")
  /\ IF Matches(req[q].arg, enrolOtp)
       THEN /\ GoOn(q, "spending") /\ UNCHANGED tab
            /\ met' = IF \E p \in Reqs : At(p, "confirm EMAIL", "spending")
                        THEN met \cup {<<"code", enrolOtp>>} ELSE met
       ELSE Refused(q) /\ UNCHANGED met
  /\ UNCHANGED <<totpVars, emailVars, signInVars, userVars, spent, twice, faults>>

SpendEmail(q) == /\ At(q, "confirm EMAIL", "spending")
                 /\ enrolOtp' = 0
                 /\ GoOn(q, "enabling")
                 /\ UNCHANGED <<totpVars, codes, mailed, begins, signInVars, userVars, tab, spent, met,
                                twice, faults>>

(* enableMfa: one transaction. *)
Enable(q) ==
  /\ req[q].step = "enabling"
  /\ batch' = batch + 1
  /\ preferred' = req[q].method
  /\ req' = [req EXCEPT ![q].step = "answering", ![q].got = batch']
  /\ spent' = IF req[q].op = "confirm EMAIL" THEN [spent EXCEPT ![req[q].arg] = @ + 1] ELSE spent
  /\ UNCHANGED <<totpVars, emailVars, signInVars, tab, met, twice, faults>>

Confirmed(q) ==
  /\ req[q].step = "answering" /\ req[q].op \in {"confirm TOTP", "confirm EMAIL"}
  /\ Show(q, [Page(q) EXCEPT !.step = "backup-codes", !.shown = req[q].got, !.submitting = FALSE])
  /\ Done(q)
  /\ UNCHANGED <<pageOnly, faults>>

FinishBackupCodes(t) == /\ tab[t].step = "backup-codes"
                        /\ tab' = [tab EXCEPT ![t].step = "overview", ![t].enabled = TRUE, ![t].shown = 0]
                        /\ UNCHANGED <<pageOnly, req, faults>>

-----------------------------------------------------------------------------
(* Signing in: AuthService.login, then verifyMfaChallenge. *)

signInOnly == <<totpVars, emailVars, userVars, tab, spent, twice>>

(* The password is right, and the row read says that a second factor is due. *)
Login(q) == /\ preferred # "none"
            /\ UnderWay("login") = {} /\ \E c \in Challenges : challenge[c] = "new"
            /\ Send(q, [NoReq EXCEPT !.op = "login", !.step = "challenging", !.method = preferred])
            /\ UNCHANGED <<signInOnly, signInVars, met, faults>>

CreateChallenge(q) ==
  /\ At(q, "login", "challenging")
  /\ \E c \in Challenges :
       /\ challenge[c] = "new" /\ \A b \in Challenges : challenge[b] = "new" => c <= b
       /\ challenge' = [challenge EXCEPT ![c] = req[q].method]
       /\ req' = [req EXCEPT ![q].step = IF req[q].method = "TOTP" THEN "answering" ELSE "mailing",
                             ![q].arg = c]
  /\ UNCHANGED <<signInOnly, otp, held, submits, sessions, met, faults>>

(* sendOtpForChallenge; it throws when the challenge has expired meanwhile. *)
SendOtp(q) ==
  LET c == req[q].arg IN
  /\ At(q, "login", "mailing")
  /\ IF challenge[c] = "gone" THEN Done(q) /\ UNCHANGED otp
     ELSE otp' = [otp EXCEPT ![c] = "live"] /\ GoOn(q, "answering")
  /\ UNCHANGED <<signInOnly, challenge, held, submits, sessions, met, faults>>

LoggedIn(q) == /\ At(q, "login", "answering")
               /\ held' = held \cup {req[q].arg}
               /\ Done(q)
               /\ UNCHANGED <<signInOnly, challenge, otp, submits, sessions, met, faults>>

(* A code is submitted: the right one (the emailed code, or one of the authenticator), *)
(* or 0.  A page waits for its answer, but a duplicated tab has the token as well.      *)
Right(c) == IF challenge[c] = "EMAIL" /\ otp[c] # "unsent" THEN {c} ELSE captured

VerifyChallenge(q, c, code) ==
  /\ c \in held /\ code \in {0} \cup Right(c)
  /\ submits < MaxSubmits /\ submits' = submits + 1
  /\ Send(q, [NoReq EXCEPT !.op = "verify", !.step = "finding", !.arg = c, !.got = code])
  /\ UNCHANGED <<signInOnly, challenge, otp, held, sessions, met, faults>>

Verifying(c) == {q \in Reqs : req[q].op = "verify" /\ req[q].arg = c /\ req[q].step # "finding"}

GetChallenge(q) ==
  LET c == req[q].arg IN
  /\ At(q, "verify", "finding")
  /\ IF challenge[c] \in Methods
       THEN /\ req' = [req EXCEPT ![q].step = "checking", ![q].method = challenge[c]]
            /\ met' = IF Verifying(c) # {} THEN met \cup {<<"challenge", c>>} ELSE met
       ELSE Done(q) /\ UNCHANGED met
  /\ UNCHANGED <<signInOnly, signInVars, faults>>

(* A TOTP code is checked against the secret stored now, an emailed one against its key. *)
VerifyCode(q) ==
  LET c == req[q].arg IN
  /\ At(q, "verify", "checking")
  /\ IF req[q].method = "TOTP"
       THEN IF Matches(req[q].got, secret) THEN GoOn(q, "consuming") ELSE Done(q)
       ELSE IF otp[c] = "live" /\ req[q].got = c THEN GoOn(q, "spending") ELSE Done(q)
  /\ UNCHANGED <<signInOnly, signInVars, met, faults>>

SpendOtp(q) == /\ At(q, "verify", "spending")
               /\ otp' = [otp EXCEPT ![req[q].arg] = "gone"]
               /\ GoOn(q, "consuming")
               /\ UNCHANGED <<signInOnly, challenge, held, submits, sessions, met, faults>>

(* Mutant: the challenge is left to expire. *)
ChallengeKept(c) == challenge

ChallengeDeleted(c) == [challenge EXCEPT ![c] = "gone"]

ConsumeChallenge(q) == /\ At(q, "verify", "consuming")
                       /\ challenge' = ChallengeDeleted(req[q].arg)
                       /\ GoOn(q, "issuing")
                       /\ UNCHANGED <<signInOnly, otp, held, submits, sessions, met, faults>>

IssueTokens(q) == /\ At(q, "verify", "issuing")
                  /\ sessions' = [sessions EXCEPT ![req[q].arg] = @ + 1]
                  /\ Done(q)
                  /\ UNCHANGED <<signInOnly, challenge, otp, held, submits, met, faults>>

-----------------------------------------------------------------------------
Fault == faults < MaxFaults /\ faults' = faults + 1

(* A request or its answer is lost, or a statement of its handler throws. *)
Lost(q) == /\ Fault
           /\ req[q].step # "idle"
           /\ Refused(q)
           /\ UNCHANGED pageOnly

(* The keys of a challenge have the same lifetime, the code's began later. *)
ChallengeExpires(c) == /\ Fault
                       /\ \/ /\ challenge[c] \in Methods
                             /\ challenge' = [challenge EXCEPT ![c] = "gone"] /\ UNCHANGED otp
                          \/ /\ challenge[c] = "gone" /\ otp[c] = "live"
                             /\ otp' = [otp EXCEPT ![c] = "gone"] /\ UNCHANGED challenge
                       /\ UNCHANGED <<signInOnly, held, submits, sessions, met, req>>

EnrolmentExpires == /\ Fault
                    /\ enrolOtp # 0 /\ enrolOtp' = 0
                    /\ UNCHANGED <<totpVars, codes, mailed, begins, signInVars, userVars, tab, spent, met,
                                   twice, req>>

Statement(q) == \/ StartTotp(q) \/ StartEmail(q) \/ MailCode(q) \/ Begun(q)
                \/ CheckTotp(q) \/ CheckEmail(q) \/ SpendEmail(q) \/ Enable(q) \/ Confirmed(q)
                \/ CreateChallenge(q) \/ SendOtp(q) \/ LoggedIn(q)
                \/ GetChallenge(q) \/ VerifyCode(q) \/ SpendOtp(q) \/ ConsumeChallenge(q)
                \/ IssueTokens(q)

Codes == 0..(MaxBegins + MaxChallenges)

Next == \/ \E t \in Tabs : \/ ProfileLoads(t) \/ ProfileFails(t) \/ Leave(t) \/ SetUp(t)
                           \/ Scan(t) \/ FinishBackupCodes(t)
                           \/ \E q \in Reqs : \/ \E op \in Ops : Begin(t, q, op)
                                              \/ \E code \in Codes : Submit(t, q, code)
        \/ \E q \in Reqs : \/ Statement(q) \/ Lost(q) \/ Login(q)
                           \/ \E c \in Challenges, code \in Codes : VerifyChallenge(q, c, code)
        \/ \E c \in Challenges : ChallengeExpires(c)
        \/ EnrolmentExpires

Spec == Init /\ [][Next]_vars
-----------------------------------------------------------------------------
PageType == [step : PageSteps, enabled : BOOLEAN, shown : Nat, submitting : BOOLEAN]
ReqType == [op : Ops \cup {"none"}, step : Steps, tab : Tabs \cup {Nobody}, arg : Codes, got : Nat,
            method : Methods \cup {"none"}]

TypeOK == /\ secrets \in 0..MaxBegins /\ secret \in 0..secrets /\ captured \subseteq 1..secrets
          /\ preferred \in Methods \cup {"none"}
          /\ batch \in 0..MaxEnabled /\ (batch = 0) = (preferred = "none")
          /\ codes \in 0..MaxBegins /\ enrolOtp \in 0..codes /\ mailed \subseteq 1..codes
          /\ challenge \in [Challenges -> Methods \cup {"new", "gone"}]
          /\ otp \in [Challenges -> {"unsent", "live", "gone"}] /\ held \subseteq Challenges
          /\ tab \in [Tabs -> PageType] /\ req \in [Reqs -> ReqType]
          /\ \A t \in Tabs : tab[t].submitting =>
               \E q \in Reqs : req[q].tab = t /\ req[q].op \in {"confirm TOTP", "confirm EMAIL"}
          /\ begins \in 0..MaxBegins /\ submits \in 0..MaxSubmits /\ faults \in 0..MaxFaults
          /\ sessions \in [Challenges -> Nat] /\ spent \in [1..MaxBegins -> Nat]
          /\ restarted \in BOOLEAN /\ twice \subseteq Tabs /\ superseded \subseteq Tabs

(* Nobody is locked out by enrolling: once the authenticator is the second     *)
(* factor, the stored secret is one the user has captured ("confirm the user   *)
(* actually captured a working secret"), unless another enrolment was started  *)
(* after the code was checked, which replaces the secret that is in use.       *)
SecretCaptured == preferred = "TOTP" => secret \in captured \/ restarted

(* The QR code on screen is of the secret that is stored: scanning it works,   *)
(* unless the page began two enrolments at once, whose answers may arrive in   *)
(* the other order, or another tab began one later.                            *)
QrCodeCurrent == \A t \in Tabs : tab[t].step = "totp-verify" =>
                   tab[t].shown = secret \/ t \in twice \cup superseded

(* The backup codes, which the API returns once only, stay on screen until the *)
(* user says that they are saved or leaves the page; but a second enrolment    *)
(* begun at once with the first answers late and takes them off.               *)
BackupCodesStay ==
  [][\A t \in Tabs : tab[t].step = "backup-codes" =>
       \/ tab'[t] = tab[t] \/ tab'[t] = Loading \/ FinishBackupCodes(t)
       \/ t \in twice]_vars

(* One use for each code: a challenge issues one session and an emailed code   *)
(* completes one enrolment, whatever is lost or expires, unless two            *)
(* submissions both passed the check before either deleted the key.            *)
OneUse == /\ \A c \in Challenges : sessions[c] <= 1 \/ <<"challenge", c>> \in met
          /\ \A n \in 1..MaxBegins : spent[n] <= 1 \/ <<"code", n>> \in met
=============================================================================
