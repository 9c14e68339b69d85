------------------------------- MODULE MfaProofs -------------------------------
(***************************************************************************)
(* Theorems about Mfa, for any tabs, requests and bounds.                  *)
(***************************************************************************)
EXTENDS Mfa, FiniteSetTheorems, TLAPS

Begins == {"begin TOTP", "begin EMAIL"}
Confirms == {"confirm TOTP", "confirm EMAIL"}

(* The statements of each operation, and who waits for its answer. *)
InOrder(r) ==
  \/ r = NoReq
  \/ r.op = "begin TOTP" /\ r.step \in {"starting", "answering"}
  \/ r.op = "begin EMAIL" /\ r.step \in {"starting", "mailing", "answering"}
  \/ r.op = "confirm TOTP" /\ r.step \in {"checking", "enabling", "answering"} /\ r.method = "TOTP"
  \/ /\ r.op = "confirm EMAIL" /\ r.step \in {"checking", "spending", "enabling", "answering"}
     /\ r.method = "EMAIL"
  \/ /\ r.op = "login" /\ r.step \in {"challenging", "mailing", "answering"}
     /\ r.tab = Nobody /\ r.method \in Methods
  \/ /\ r.op = "verify" /\ r.step \in {"finding", "checking", "spending", "consuming", "issuing"}
     /\ r.tab = Nobody

(* The secrets, codes and challenges that a request names were made before. *)
Carries(r, made, coded) ==
  /\ r.op = "begin TOTP" /\ r.step = "answering" => r.got \in 1..made
  /\ r.op = "begin EMAIL" /\ r.step # "starting" => r.got \in 1..coded
  /\ r.op = "confirm TOTP" => r.arg \in 0..made
  /\ r.op = "confirm EMAIL" => r.arg \in 0..coded /\ (r.step # "checking" => r.arg # 0)
  /\ r.op = "login" /\ r.step # "challenging" => r.arg \in Challenges
  /\ r.op = "verify" => r.arg \in Challenges

Starting == {q \in Reqs : req[q].step = "starting"}
Pending == {q \in Reqs : req[q].op \in Confirms /\ req[q].step # "answering"}

Known ==
  /\ \A q \in Reqs : InOrder(req[q]) /\ Carries(req[q], secrets, codes)
  /\ \A t \in Tabs : tab[t].step = "totp-verify" => tab[t].shown \in 1..secrets
  /\ secrets + codes + Cardinality(Starting) <= begins
  /\ batch + Cardinality(Pending) <= MaxEnabled

TypeInv == TypeOK /\ Known

LEMMA Idle ==
  /\ NoReq \in ReqType /\ NoReq.op = "none" /\ NoReq.step = "idle" /\ NoReq.tab = Nobody
  /\ InOrder(NoReq) /\ \A made, coded \in Nat : Carries(NoReq, made, coded)
<1>1. NoReq.op = "none" /\ NoReq.step = "idle" /\ NoReq.tab = Nobody
  BY DEF NoReq
<1>2. NoReq \in ReqType
  BY MfaAssumption DEF NoReq, ReqType, Ops, Steps, Codes
<1> QED BY <1>1, <1>2 DEF InOrder, Carries

LEMMA PageTyped ==
  /\ Loading \in PageType /\ Loading.step = "loading" /\ Loading.submitting = FALSE
  /\ \A p \in PageType : /\ AfterError(p) \in PageType /\ AfterError(p).step = p.step
                         /\ AfterError(p).shown = p.shown /\ ~AfterError(p).submitting
                         /\ (~p.submitting => AfterError(p) = p)
BY DEF Loading, PageType, PageSteps, AfterError

LEMMA Finite == \A S \in SUBSET Reqs : IsFiniteSet(S) /\ Cardinality(S) \in Nat
BY MfaAssumption, FS_Subset, FS_CardinalityType

LEMMA Smaller ==
  ASSUME NEW S \in SUBSET Reqs, NEW T \in SUBSET S
  PROVE  Cardinality(T) <= Cardinality(S)
BY Finite, FS_Subset

LEMMA OneMore ==
  ASSUME NEW S \in SUBSET Reqs, NEW q \in Reqs
  PROVE  Cardinality(S \cup {q}) <= Cardinality(S) + 1
BY Finite, FS_AddElement

LEMMA OneLess ==
  ASSUME NEW S \in SUBSET Reqs, NEW q \in S
  PROVE  Cardinality(S \ {q}) = Cardinality(S) - 1
BY Finite, FS_RemoveElement

LEMMA TypeInit == Init => TypeInv
<1> SUFFICES ASSUME Init PROVE TypeInv
  OBVIOUS
<1> USE Idle, PageTyped, MfaAssumption DEF Init
<1>1. (\A q \in Reqs : req[q] = NoReq) /\ \A t \in Tabs : tab[t] = Loading
  OBVIOUS
<1>2. Starting = {} /\ Pending = {}
  BY <1>1 DEF Starting, Pending, Confirms
<1>3. Cardinality({}) = 0
  BY FS_EmptySet
<1>4. Known
  BY <1>1, <1>2, <1>3 DEF Known
<1>5. /\ challenge \in [Challenges -> Methods \cup {"new", "gone"}]
      /\ otp \in [Challenges -> {"unsent", "live", "gone"}]
      /\ tab \in [Tabs -> PageType] /\ req \in [Reqs -> ReqType]
      /\ sessions \in [Challenges -> Nat] /\ spent \in [1..MaxBegins -> Nat]
  OBVIOUS
<1>6. (batch = 0) = (preferred = "none") /\ \A t \in Tabs : ~tab[t].submitting
  BY <1>1
<1>7. /\ secrets \in 0..MaxBegins /\ secret \in 0..secrets /\ captured \subseteq 1..secrets
      /\ batch \in 0..MaxEnabled /\ codes \in 0..MaxBegins /\ enrolOtp \in 0..codes
      /\ mailed \subseteq 1..codes /\ begins \in 0..MaxBegins /\ submits \in 0..MaxSubmits
      /\ faults \in 0..MaxFaults /\ preferred \in Methods \cup {"none"}
  OBVIOUS
<1>8. TypeOK
  <2> USE <1>5, <1>6, <1>7 DEF TypeOK
  <2> QED OBVIOUS
<1> QED BY <1>4, <1>8 DEF TypeInv

-----------------------------------------------------------------------------
(* How a request goes on *)

Keeps(s, r) == s \in ReqType /\ s.op = r.op /\ s.tab = r.tab
KeepsArg(s, r) == Keeps(s, r) /\ s.arg = r.arg
KeepsBody(s, r) == KeepsArg(s, r) /\ s.method = r.method

LEMMA StepTo ==
  ASSUME NEW r \in ReqType, NEW step \in Steps
  PROVE  LET s == [r EXCEPT !.step = step] IN KeepsBody(s, r) /\ s.step = step /\ s.got = r.got
BY DEF ReqType, Keeps, KeepsArg, KeepsBody

GoOnWith(q, step, got) == req' = [req EXCEPT ![q].step = step, ![q].got = got]

(* What each statement makes of its request, when it goes on. *)
Goes(q, s) ==
  LET r == req[q] IN
  \/ StartTotp(q) /\ KeepsBody(s, r) /\ s.step = "answering" /\ s.got = secrets'
  \/ StartEmail(q) /\ KeepsBody(s, r) /\ s.step = "mailing" /\ s.got = codes'
  \/ MailCode(q) /\ KeepsBody(s, r) /\ s.step = "answering" /\ s.got = r.got
  \/ CheckTotp(q) /\ KeepsBody(s, r) /\ s.step = "enabling" /\ r.arg = secret /\ secret # 0
  \/ CheckEmail(q) /\ KeepsBody(s, r) /\ s.step = "spending" /\ r.arg = enrolOtp /\ enrolOtp # 0
  \/ SpendEmail(q) /\ KeepsBody(s, r) /\ s.step = "enabling"
  \/ Enable(q) /\ KeepsBody(s, r) /\ s.step = "answering"
  \/ /\ CreateChallenge(q) /\ Keeps(s, r) /\ s.step \in {"answering", "mailing"} /\ s.method = r.method
     /\ s.arg \in Challenges /\ challenge[s.arg] = "new"
     /\ challenge' = [challenge EXCEPT ![s.arg] = r.method]
  \/ SendOtp(q) /\ KeepsBody(s, r) /\ s.step = "answering"
  \/ GetChallenge(q) /\ KeepsArg(s, r) /\ s.step = "checking" /\ challenge[r.arg] \in Methods
  \/ VerifyCode(q) /\ KeepsBody(s, r) /\ s.step \in {"spending", "consuming"}
  \/ SpendOtp(q) /\ KeepsBody(s, r) /\ s.step = "consuming"
  \/ ConsumeChallenge(q) /\ KeepsBody(s, r) /\ s.step = "issuing"

(* A request that ends is answered to its page, unless it is one of signing in. *)
Ends(q) == Done(q) /\ (Refused(q) \/ Begun(q) \/ Confirmed(q) \/ req[q].op \in {"login", "verify"})

LEMMA StatementKinds ==
  ASSUME TypeInv, NEW q \in Reqs, Statement(q) \/ Lost(q)
  PROVE  Ends(q) \/ \E s \in ReqType : req' = [req EXCEPT ![q] = s] /\ Goes(q, s)
<1> DEFINE r == req[q]
<1> USE DEF TypeInv
<1>1. r \in ReqType /\ req \in [Reqs -> ReqType]
  BY DEF TypeOK
<1>2. secrets + 1 \in Nat /\ codes + 1 \in Nat /\ batch + 1 \in Nat
  <2>1. secrets \in 0..MaxBegins /\ codes \in 0..MaxBegins /\ batch \in 0..MaxEnabled
    BY DEF TypeOK
  <2> QED BY <2>1, MfaAssumption
<1>20. Challenges \subseteq Codes
  BY MfaAssumption DEF Challenges, Codes
<1>3. ASSUME NEW step \in Steps, GoOn(q, step)
      PROVE  \E s \in ReqType : /\ req' = [req EXCEPT ![q] = s] /\ KeepsBody(s, r)
                                /\ s.step = step /\ s.got = r.got
  <2> DEFINE s == [r EXCEPT !.step = step]
  <2>1. req' = [req EXCEPT ![q] = s]
    BY <1>1, <1>3 DEF GoOn
  <2>2. KeepsBody(s, r) /\ s.step = step /\ s.got = r.got
    BY <1>1, StepTo
  <2>3. s \in ReqType
    BY <2>2 DEF KeepsBody, KeepsArg, Keeps
  <2> HIDE DEF s
  <2> QED BY <2>1, <2>2, <2>3
<1>4. ASSUME NEW step \in Steps, NEW got \in Nat, GoOnWith(q, step, got)
      PROVE  \E s \in ReqType : /\ req' = [req EXCEPT ![q] = s] /\ KeepsBody(s, r)
                                /\ s.step = step /\ s.got = got
  <2> DEFINE s == [r EXCEPT !.step = step, !.got = got]
  <2>1. req' = [req EXCEPT ![q] = s]
    BY <1>1, <1>4 DEF GoOnWith
  <2>2. KeepsBody(s, r) /\ s.step = step /\ s.got = got
    BY <1>1 DEF ReqType, Keeps, KeepsArg, KeepsBody
  <2>3. s \in ReqType
    BY <2>2 DEF KeepsBody, KeepsArg, Keeps
  <2> HIDE DEF s
  <2> QED BY <2>1, <2>2, <2>3
<1>5. {"starting", "mailing", "checking", "spending", "enabling", "challenging",
       "finding", "consuming", "issuing", "answering"} \subseteq Steps
  BY DEF Steps
<1>6. CASE StartTotp(q)
  <2>1. GoOnWith(q, "answering", secrets') /\ secrets' \in Nat
    BY <1>2, <1>6 DEF StartTotp, GoOnWith
  <2> QED BY <1>4, <1>5, <1>6, <2>1 DEF Goes
<1>7. CASE StartEmail(q)
  <2>1. GoOnWith(q, "mailing", codes') /\ codes' \in Nat
    BY <1>2, <1>7 DEF StartEmail, GoOnWith
  <2> QED BY <1>4, <1>5, <1>7, <2>1 DEF Goes
<1>8. CASE MailCode(q)
  <2>1. GoOn(q, "answering")
    BY <1>8 DEF MailCode
  <2> QED BY <1>3, <1>5, <1>8, <2>1 DEF Goes
<1>9. CASE CheckTotp(q)
  <2>1. Ends(q) \/ (GoOn(q, "enabling") /\ r.arg = secret /\ secret # 0)
    BY <1>9 DEF CheckTotp, Refused, Matches, Ends
  <2> QED BY <1>3, <1>5, <1>9, <2>1 DEF Goes
<1>10. CASE CheckEmail(q)
  <2>1. Ends(q) \/ (GoOn(q, "spending") /\ r.arg = enrolOtp /\ enrolOtp # 0)
    BY <1>10 DEF CheckEmail, Refused, Matches, Ends
  <2> QED BY <1>3, <1>5, <1>10, <2>1 DEF Goes
<1>11. CASE SpendEmail(q)
  <2>1. GoOn(q, "enabling")
    BY <1>11 DEF SpendEmail
  <2> QED BY <1>3, <1>5, <1>11, <2>1 DEF Goes
<1>12. CASE Enable(q)
  <2>1. GoOnWith(q, "answering", batch') /\ batch' \in Nat
    BY <1>2, <1>12 DEF Enable, GoOnWith
  <2> QED BY <1>4, <1>5, <1>12, <2>1 DEF Goes
<1>13. CASE CreateChallenge(q)
  <2>1. PICK c \in Challenges :
          /\ challenge[c] = "new" /\ challenge' = [challenge EXCEPT ![c] = r.method]
          /\ req' = [req EXCEPT ![q].step = IF r.method = "TOTP" THEN "answering" ELSE "mailing", ![q].arg = c]
    BY <1>13 DEF CreateChallenge
  <2> DEFINE step == IF r.method = "TOTP" THEN "answering" ELSE "mailing"
             s == [r EXCEPT !.step = step, !.arg = c]
  <2>2. step \in Steps /\ step \in {"answering", "mailing"} /\ c \in Codes
    BY <1>5, <1>20
  <2>3. req' = [req EXCEPT ![q] = s]
    BY <1>1, <2>1
  <2> HIDE DEF step
  <2>4. Keeps(s, r) /\ s.method = r.method /\ s.step = step /\ s.arg = c
    BY <1>1, <2>2 DEF ReqType, Keeps
  <2> HIDE DEF s
  <2>5. Goes(q, s) /\ s \in ReqType
    BY <1>13, <2>1, <2>2, <2>4 DEF Goes, Keeps
  <2> QED BY <2>3, <2>5
<1>14. CASE SendOtp(q)
  <2>1. Ends(q) \/ GoOn(q, "answering")
    BY <1>14 DEF SendOtp, Ends, At
  <2> QED BY <1>3, <1>5, <1>14, <2>1 DEF Goes
<1>15. CASE GetChallenge(q)
  <2> DEFINE method == challenge[r.arg]
             s == [r EXCEPT !.step = "checking", !.method = method]
  <2>1. CASE method \in Methods
    <3>1. req' = [req EXCEPT ![q] = s]
      BY <1>1, <1>15, <2>1 DEF GetChallenge
    <3>2. KeepsArg(s, r) /\ s.step = "checking"
      BY <1>1, <1>5, <2>1 DEF ReqType, KeepsArg, Keeps
    <3>3. s \in ReqType
      BY <3>2 DEF KeepsArg, Keeps
    <3> HIDE DEF s
    <3> QED BY <1>15, <2>1, <3>1, <3>2, <3>3 DEF Goes
  <2>2. CASE method \notin Methods
    BY <1>15, <2>2 DEF GetChallenge, Ends, At
  <2> QED BY <2>1, <2>2
<1>16. CASE VerifyCode(q)
  <2>1. Ends(q) \/ GoOn(q, "consuming") \/ GoOn(q, "spending")
    BY <1>16 DEF VerifyCode, Ends, At
  <2> QED BY <1>3, <1>5, <1>16, <2>1 DEF Goes
<1>17. CASE SpendOtp(q)
  <2>1. GoOn(q, "consuming")
    BY <1>17 DEF SpendOtp
  <2> QED BY <1>3, <1>5, <1>17, <2>1 DEF Goes
<1>18. CASE ConsumeChallenge(q)
  <2>1. GoOn(q, "issuing")
    BY <1>18 DEF ConsumeChallenge
  <2> QED BY <1>3, <1>5, <1>18, <2>1 DEF Goes
<1>19. CASE Begun(q) \/ Confirmed(q) \/ LoggedIn(q) \/ IssueTokens(q) \/ Lost(q)
  BY <1>19 DEF Begun, Confirmed, LoggedIn, IssueTokens, Lost, Refused, Ends, At
<1> QED BY <1>6, <1>7, <1>8, <1>9, <1>10, <1>11, <1>12, <1>13, <1>14, <1>15, <1>16, <1>17,
           <1>18, <1>19 DEF Statement

LEMMA StatementMoves ==
  ASSUME TypeInv, NEW q \in Reqs, Statement(q) \/ Lost(q)
  PROVE  /\ req' \in [Reqs -> ReqType] /\ \A p \in Reqs \ {q} : req'[p] = req[p]
         /\ (Ends(q) /\ req'[q] = NoReq) \/ Goes(q, req'[q])
<1>1. req \in [Reqs -> ReqType]
  BY DEF TypeInv, TypeOK
<1>2. CASE Ends(q)
  BY <1>1, <1>2, Idle DEF Done, Ends
<1>3. CASE ~Ends(q)
  <2>1. PICK s \in ReqType : req' = [req EXCEPT ![q] = s] /\ Goes(q, s)
    BY <1>3, StatementKinds
  <2> QED BY <1>1, <2>1
<1> QED BY <1>2, <1>3

-----------------------------------------------------------------------------
(* What a statement, or its loss, makes of a tab *)

Shown(q, t, step) == req[q].tab = t /\ req'[q] = NoReq /\ tab'[t].step = step

PageAfter(q, t) ==
  \/ tab'[t] = tab[t] /\ (req[q].tab = t => req'[q] # NoReq)
  \/ req[q].tab = t /\ req'[q] = NoReq /\ tab'[t] = AfterError(tab[t])
  \/ /\ At(q, "begin TOTP", "answering") /\ Shown(q, t, "totp-verify")
     /\ tab'[t].shown = req[q].got /\ tab'[t].submitting = tab[t].submitting
  \/ /\ At(q, "begin EMAIL", "answering") /\ Shown(q, t, "email-verify")
     /\ tab'[t].submitting = tab[t].submitting
  \/ /\ req[q].op \in Confirms /\ req[q].step = "answering" /\ Shown(q, t, "backup-codes")
     /\ ~tab'[t].submitting

LEMMA ShowOne ==
  ASSUME TypeInv, NEW q \in Reqs, NEW page, Show(q, page), req[q].tab # Nobody => page \in PageType
  PROVE  /\ tab' \in [Tabs -> PageType]
         /\ \A t \in Tabs : tab'[t] = IF req[q].tab = t THEN page ELSE tab[t]
<1>1. tab \in [Tabs -> PageType] /\ req[q].tab \in Tabs \cup {Nobody} /\ Nobody \notin Tabs
  BY MfaAssumption DEF TypeInv, TypeOK, ReqType
<1>2. CASE req[q].tab = Nobody
  BY <1>1, <1>2 DEF Show
<1>3. CASE req[q].tab # Nobody
  <2>1. tab' = [tab EXCEPT ![req[q].tab] = page]
    BY <1>3 DEF Show
  <2> QED BY <1>1, <1>3, <2>1
<1> QED BY <1>2, <1>3

LEMMA PagesAfter ==
  ASSUME TypeInv, NEW q \in Reqs, Statement(q) \/ Lost(q)
  PROVE  tab' \in [Tabs -> PageType] /\ \A t \in Tabs : PageAfter(q, t)
<1> DEFINE r == req[q]
<1> USE DEF TypeInv
<1>1. /\ tab \in [Tabs -> PageType] /\ r \in ReqType /\ r.tab \in Tabs \cup {Nobody} /\ Nobody \notin Tabs
      /\ r.got \in Nat /\ InOrder(r)
  BY MfaAssumption DEF TypeOK, ReqType, Known
<1>2. r.tab # Nobody => Page(q) \in PageType /\ AfterError(Page(q)) \in PageType
  BY <1>1, PageTyped DEF Page
<1>3. Done(q) => req'[q] = NoReq
  BY DEF Done, TypeOK
<1>4. CASE Refused(q)
  <2>1. \A t \in Tabs : tab'[t] = IF r.tab = t THEN AfterError(Page(q)) ELSE tab[t]
    BY <1>2, <1>4, ShowOne DEF Refused
  <2>2. tab' \in [Tabs -> PageType]
    BY <1>2, <1>4, ShowOne DEF Refused
  <2> QED BY <1>3, <1>4, <2>1, <2>2 DEF Refused, PageAfter, Page
<1>5. CASE Begun(q)
  <2>1. Done(q) /\ r.step = "answering" /\ r.op \in {"begin TOTP", "begin EMAIL"}
    BY <1>5 DEF Begun
  <2>2. CASE r.op = "begin TOTP"
    <3> DEFINE s == [Page(q) EXCEPT !.step = "totp-verify", !.shown = r.got]
    <3>1. Show(q, s)
      BY <1>5, <2>2 DEF Begun
    <3>2. r.tab # Nobody => /\ s \in PageType /\ s.step = "totp-verify" /\ s.shown = r.got
                            /\ s.submitting = Page(q).submitting
      BY <1>1, <1>2 DEF PageType, PageSteps
    <3> HIDE DEF s
    <3>3. /\ tab' \in [Tabs -> PageType]
          /\ \A t \in Tabs : tab'[t] = IF r.tab = t THEN s ELSE tab[t]
      BY <3>1, <3>2, ShowOne
    <3> QED BY <1>1, <1>3, <2>1, <2>2, <3>2, <3>3 DEF PageAfter, Shown, At, Page
  <2>3. CASE r.op = "begin EMAIL"
    <3> DEFINE s == [Page(q) EXCEPT !.step = "email-verify", !.shown = 0]
    <3>1. Show(q, s)
      BY <1>5, <2>3 DEF Begun
    <3>2. r.tab # Nobody => /\ s \in PageType /\ s.step = "email-verify"
                            /\ s.submitting = Page(q).submitting
      BY <1>1, <1>2 DEF PageType, PageSteps
    <3> HIDE DEF s
    <3>3. /\ tab' \in [Tabs -> PageType]
          /\ \A t \in Tabs : tab'[t] = IF r.tab = t THEN s ELSE tab[t]
      BY <3>1, <3>2, ShowOne
    <3> QED BY <1>1, <1>3, <2>1, <2>3, <3>2, <3>3 DEF PageAfter, Shown, At, Page
  <2> QED BY <2>1, <2>2, <2>3
<1>6. CASE Confirmed(q)
  <2> DEFINE s == [Page(q) EXCEPT !.step = "backup-codes", !.shown = r.got, !.submitting = FALSE]
  <2>1. Done(q) /\ r.step = "answering" /\ r.op \in Confirms /\ Show(q, s)
    BY <1>6 DEF Confirmed, Confirms
  <2>2. r.tab # Nobody => s \in PageType /\ s.step = "backup-codes" /\ ~s.submitting
    BY <1>1, <1>2 DEF PageType, PageSteps
  <2> HIDE DEF s
  <2>3. /\ tab' \in [Tabs -> PageType]
        /\ \A t \in Tabs : tab'[t] = IF r.tab = t THEN s ELSE tab[t]
    BY <2>1, <2>2, ShowOne
  <2> QED BY <1>1, <1>3, <2>1, <2>2, <2>3 DEF PageAfter, Shown
<1>7. CASE ~Refused(q) /\ ~Begun(q) /\ ~Confirmed(q)
  <2>1. tab' = tab
    BY <1>7 DEF Statement, Lost, StartTotp, StartEmail, MailCode, CheckTotp, CheckEmail, SpendEmail, Enable,
                CreateChallenge, SendOtp, LoggedIn, GetChallenge, VerifyCode, SpendOtp, ConsumeChallenge,
                IssueTokens, signInOnly, pageOnly
  <2>2. ASSUME NEW t \in Tabs, r.tab = t PROVE req'[q] # NoReq
    <3>1. r.op \in Begins \cup Confirms
      BY <1>1, <2>2, Idle DEF InOrder, Begins, Confirms
    <3>2. Goes(q, req'[q])
      BY <1>7, <3>1, StatementMoves DEF Ends, Begins, Confirms
    <3>3. req'[q].op = r.op
      BY <3>2 DEF Goes, KeepsBody, KeepsArg, Keeps
    <3> QED BY <3>1, <3>3, Idle DEF Begins, Confirms
  <2> QED BY <1>1, <2>1, <2>2 DEF PageAfter
<1> QED BY <1>4, <1>5, <1>6, <1>7

-----------------------------------------------------------------------------
(* Type correctness *)

(* What no statement but these writes. *)
LEMMA Writes ==
  ASSUME NEW q \in Reqs, Statement(q) \/ Lost(q)
  PROVE  /\ UNCHANGED <<captured, begins, twice, submits>>
         /\ ~StartTotp(q) => UNCHANGED totpVars
         /\ ~StartEmail(q) => UNCHANGED codes
         /\ ~StartEmail(q) /\ ~SpendEmail(q) => UNCHANGED enrolOtp
         /\ ~MailCode(q) => UNCHANGED mailed
         /\ ~Enable(q) => UNCHANGED <<preferred, batch, spent>>
         /\ ~Lost(q) => UNCHANGED faults
         /\ ~CheckEmail(q) /\ ~GetChallenge(q) => UNCHANGED met
         /\ ~CreateChallenge(q) /\ ~ConsumeChallenge(q) => UNCHANGED challenge
         /\ ~SendOtp(q) /\ ~SpendOtp(q) => UNCHANGED otp
         /\ ~LoggedIn(q) => UNCHANGED held
         /\ ~IssueTokens(q) => UNCHANGED sessions
BY DEF Statement, Lost, Refused, StartTotp, StartEmail, MailCode, Begun, CheckTotp, CheckEmail, SpendEmail,
       Enable, Confirmed, CreateChallenge, SendOtp, LoggedIn, GetChallenge, VerifyCode, SpendOtp,
       ConsumeChallenge, IssueTokens, Fault, pageOnly, totpVars, emailVars, signInVars, userVars, signInOnly

LEMMA StepIs ==
  ASSUME NEW q \in Reqs
  PROVE  /\ StartTotp(q) => At(q, "begin TOTP", "starting")
         /\ StartEmail(q) => At(q, "begin EMAIL", "starting")
         /\ MailCode(q) => At(q, "begin EMAIL", "mailing")
         /\ CheckTotp(q) => At(q, "confirm TOTP", "checking")
         /\ CheckEmail(q) => At(q, "confirm EMAIL", "checking")
         /\ SpendEmail(q) => At(q, "confirm EMAIL", "spending")
         /\ Enable(q) => req[q].step = "enabling"
         /\ CreateChallenge(q) => At(q, "login", "challenging")
         /\ SendOtp(q) => At(q, "login", "mailing")
         /\ GetChallenge(q) => At(q, "verify", "finding")
         /\ VerifyCode(q) => At(q, "verify", "checking")
         /\ SpendOtp(q) => At(q, "verify", "spending")
         /\ ConsumeChallenge(q) => At(q, "verify", "consuming")
         /\ IssueTokens(q) => At(q, "verify", "issuing")
         /\ LoggedIn(q) => At(q, "login", "answering")
BY DEF StartTotp, StartEmail, MailCode, CheckTotp, CheckEmail, SpendEmail, Enable, CreateChallenge, SendOtp,
       GetChallenge, VerifyCode, SpendOtp, ConsumeChallenge, IssueTokens, LoggedIn

LEMMA CountersGrow ==
  ASSUME TypeInv, NEW q \in Reqs, Statement(q) \/ Lost(q)
  PROVE  /\ secrets \in Nat /\ codes \in Nat /\ batch \in Nat /\ begins \in Nat
         /\ secrets' = IF StartTotp(q) THEN secrets + 1 ELSE secrets
         /\ codes' = IF StartEmail(q) THEN codes + 1 ELSE codes
         /\ batch' = IF Enable(q) THEN batch + 1 ELSE batch
         /\ secrets' \in Nat /\ codes' \in Nat
<1>1. /\ secrets \in 0..MaxBegins /\ codes \in 0..MaxBegins /\ batch \in 0..MaxEnabled
      /\ begins \in 0..MaxBegins
  BY DEF TypeInv, TypeOK
<1>2. /\ secrets' = IF StartTotp(q) THEN secrets + 1 ELSE secrets
      /\ codes' = IF StartEmail(q) THEN codes + 1 ELSE codes
      /\ batch' = IF Enable(q) THEN batch + 1 ELSE batch
  BY Writes DEF StartTotp, StartEmail, Enable, totpVars
<1> QED BY <1>1, <1>2, MfaAssumption

LEMMA CarriesOn ==
  ASSUME NEW made \in Nat, NEW coded \in Nat, NEW made2 \in Nat, NEW coded2 \in Nat,
         made <= made2, coded <= coded2, NEW r, Carries(r, made, coded)
  PROVE  Carries(r, made2, coded2)
<1>1. 1..made \subseteq 1..made2 /\ 1..coded \subseteq 1..coded2
  OBVIOUS
<1>2. 0..made \subseteq 0..made2 /\ 0..coded \subseteq 0..coded2
  OBVIOUS
<1> QED BY <1>1, <1>2, Zenon DEF Carries

LEMMA KnownStatement ==
  ASSUME TypeInv, NEW q \in Reqs, Statement(q) \/ Lost(q)
  PROVE  Known'
<1> DEFINE r == req[q]
           s == req'[q]
<1> USE DEF TypeInv
<1>1. /\ req' \in [Reqs -> ReqType] /\ \A p \in Reqs \ {q} : req'[p] = req[p]
      /\ s = NoReq \/ Goes(q, s)
  BY StatementMoves
<1>2. /\ secrets \in Nat /\ codes \in Nat /\ batch \in Nat /\ begins \in Nat
      /\ secrets' = IF StartTotp(q) THEN secrets + 1 ELSE secrets
      /\ codes' = IF StartEmail(q) THEN codes + 1 ELSE codes
      /\ batch' = IF Enable(q) THEN batch + 1 ELSE batch
      /\ secrets' \in Nat /\ codes' \in Nat
  BY CountersGrow
<1>3. InOrder(r) /\ Carries(r, secrets, codes) /\ secrets <= secrets' /\ codes <= codes'
  BY <1>2 DEF Known
<1>4. Carries(r, secrets', codes')
  BY <1>2, <1>3, CarriesOn
<1>5. InOrder(s)
  BY <1>1, <1>3, Idle, StepIs DEF InOrder, Goes, KeepsBody, KeepsArg, Keeps, At
<1>6. Carries(s, secrets', codes')
  <2>1. CASE s = NoReq
    BY <1>2, <2>1, Idle
  <2>2. CASE StartTotp(q) /\ Goes(q, s)
    <3>1. s.op = "begin TOTP" /\ s.step = "answering" /\ s.got = secrets'
      BY <2>2, StepIs DEF Goes, KeepsBody, KeepsArg, Keeps, At
    <3>2. secrets' \in 1..secrets'
      BY <1>2, <2>2
    <3> QED BY <3>1, <3>2 DEF Carries
  <2>3. CASE StartEmail(q) /\ Goes(q, s)
    <3>1. s.op = "begin EMAIL" /\ s.got = codes'
      BY <2>3, StepIs DEF Goes, KeepsBody, KeepsArg, Keeps, At
    <3>2. codes' \in 1..codes'
      BY <1>2, <2>3
    <3> QED BY <3>1, <3>2 DEF Carries
  <2>4. CASE MailCode(q) /\ Goes(q, s)
    <3>1. s.op = "begin EMAIL" /\ s.got = r.got /\ r.op = "begin EMAIL" /\ r.step = "mailing"
      BY <2>4, StepIs DEF Goes, KeepsBody, KeepsArg, Keeps, At
    <3> QED BY <1>4, <3>1 DEF Carries
  <2>5. CASE CheckTotp(q) /\ Goes(q, s)
    <3>1. s.op = "confirm TOTP" /\ s.arg = r.arg /\ r.op = "confirm TOTP"
      BY <2>5, StepIs DEF Goes, KeepsBody, KeepsArg, Keeps, At
    <3> QED BY <1>4, <3>1 DEF Carries
  <2>6. CASE CheckEmail(q) /\ Goes(q, s)
    <3>1. s.op = "confirm EMAIL" /\ s.arg = r.arg /\ r.op = "confirm EMAIL" /\ s.arg # 0
      BY <2>6, StepIs DEF Goes, KeepsBody, KeepsArg, Keeps, At
    <3> QED BY <1>4, <3>1 DEF Carries
  <2>7. CASE SpendEmail(q) /\ Goes(q, s)
    <3>1. s.op = "confirm EMAIL" /\ s.arg = r.arg /\ r.op = "confirm EMAIL" /\ r.step = "spending"
      BY <2>7, StepIs DEF Goes, KeepsBody, KeepsArg, Keeps, At
    <3> QED BY <1>4, <3>1 DEF Carries
  <2>8. CASE Enable(q) /\ Goes(q, s)
    <3>1. s.op = r.op /\ s.arg = r.arg /\ r.op \in Confirms /\ r.step = "enabling"
      BY <1>3, <2>8, StepIs, Idle DEF Goes, KeepsBody, KeepsArg, Keeps, At, InOrder, Confirms
    <3> QED BY <1>4, <3>1 DEF Carries, Confirms
  <2>9. CASE CreateChallenge(q) /\ Goes(q, s)
    <3>1. s.op = "login" /\ s.arg \in Challenges
      BY <2>9, StepIs DEF Goes, KeepsBody, KeepsArg, Keeps, At
    <3> QED BY <3>1 DEF Carries
  <2>10. CASE SendOtp(q) /\ Goes(q, s)
    <3>1. s.op = "login" /\ s.arg = r.arg /\ r.op = "login" /\ r.step = "mailing"
      BY <2>10, StepIs DEF Goes, KeepsBody, KeepsArg, Keeps, At
    <3> QED BY <1>4, <3>1 DEF Carries
  <2>11. CASE (GetChallenge(q) \/ VerifyCode(q) \/ SpendOtp(q) \/ ConsumeChallenge(q)) /\ Goes(q, s)
    <3>1. s.op = "verify" /\ s.arg = r.arg /\ r.op = "verify"
      BY <2>11, StepIs DEF Goes, KeepsBody, KeepsArg, Keeps, At
    <3> QED BY <1>4, <3>1 DEF Carries
  <2> QED BY <1>1, <2>1, <2>2, <2>3, <2>4, <2>5, <2>6, <2>7, <2>8, <2>9, <2>10, <2>11 DEF Goes
<1>7. ASSUME NEW p \in Reqs PROVE InOrder(req'[p]) /\ Carries(req'[p], secrets', codes')
  <2>1. CASE p = q
    BY <1>5, <1>6, <2>1
  <2>2. CASE p # q
    <3>1. req'[p] = req[p] /\ InOrder(req[p]) /\ Carries(req[p], secrets, codes)
      BY <1>1, <2>2 DEF Known
    <3>2. Carries(req[p], secrets', codes')
      BY <1>2, <1>3, <3>1, CarriesOn
    <3> QED BY <3>1, <3>2
  <2> QED BY <2>1, <2>2
<1>8. ASSUME NEW t \in Tabs, tab'[t].step = "totp-verify"
      PROVE  tab'[t].shown \in 1..secrets'
  <2>1. PageAfter(q, t) /\ tab[t] \in PageType /\ (tab[t].step = "totp-verify" => tab[t].shown \in 1..secrets)
    BY PagesAfter DEF TypeOK, Known
  <2>2. tab[t].step = "totp-verify" => tab[t].shown \in 1..secrets'
    BY <1>2, <1>3, <2>1
  <2>3. CASE At(q, "begin TOTP", "answering") /\ tab'[t].shown = r.got
    <3>1. r.got \in 1..secrets'
      BY <1>4, <2>3 DEF At, Carries
    <3> QED BY <2>3, <3>1
  <2>4. CASE tab'[t] = tab[t]
    BY <1>8, <2>2, <2>4
  <2>5. CASE tab'[t] = AfterError(tab[t])
    <3>1. tab'[t].step = tab[t].step /\ tab'[t].shown = tab[t].shown
      BY <2>1, <2>5, PageTyped
    <3> QED BY <1>8, <2>2, <3>1
  <2> QED BY <1>8, <2>1, <2>3, <2>4, <2>5 DEF PageAfter, Shown
<1>9. secrets' + codes' + Cardinality(Starting') <= begins'
  <2>1. begins' = begins /\ secrets + codes + Cardinality(Starting) <= begins
    BY Writes DEF Known
  <2>2. Starting' = Starting \ {q} /\ Starting \subseteq Reqs
    <3>1. s.step # "starting"
      BY <1>1, Idle DEF Goes
    <3> QED BY <1>1, <3>1 DEF Starting
  <2>3. ~(StartTotp(q) /\ StartEmail(q)) /\ (StartTotp(q) \/ StartEmail(q) => q \in Starting)
    BY StepIs DEF At, Starting
  <2> DEFINE L == Cardinality(Starting)
             M == Cardinality(Starting')
  <2>4. L \in Nat /\ M \in Nat /\ M <= L /\ (q \in Starting => M = L - 1)
    BY <2>2, Finite, Smaller, OneLess
  <2> HIDE DEF L, M
  <2>5. secrets' + codes' + M <= begins
    BY <1>2, <2>1, <2>3, <2>4 DEF L
  <2> QED BY <2>1, <2>5 DEF M
<1>10. batch' + Cardinality(Pending') <= MaxEnabled
  <2>1. batch + Cardinality(Pending) <= MaxEnabled
    BY DEF Known
  <2>2. s.op \in Confirms /\ s.step # "answering" => q \in Pending
    BY <1>1, Idle, StepIs DEF Goes, KeepsBody, KeepsArg, Keeps, Pending, Confirms, At
  <2>3. Pending' \subseteq Pending /\ Pending \subseteq Reqs
    BY <1>1, <2>2 DEF Pending
  <2>4. Enable(q) => q \in Pending /\ q \notin Pending'
    <3>1. Enable(q) => r.op \in Confirms /\ r.step = "enabling"
      BY <1>3, StepIs, Idle DEF InOrder, Confirms
    <3>2. Enable(q) => s = NoReq \/ s.step = "answering"
      BY <1>1, <3>1, StepIs DEF Goes, At
    <3> QED BY <3>1, <3>2, Idle DEF Pending, Confirms
  <2> DEFINE L == Cardinality(Pending)
             M == Cardinality(Pending')
  <2>5. L \in Nat /\ M \in Nat /\ M <= L
    BY <2>3, Finite, Smaller
  <2>6. Enable(q) => M <= L - 1
    <3>1. SUFFICES ASSUME Enable(q) PROVE M <= L - 1
      OBVIOUS
    <3>2. Pending' \subseteq Pending \ {q} /\ Pending \ {q} \subseteq Reqs /\ q \in Pending
      BY <2>3, <2>4, <3>1
    <3>3. Cardinality(Pending \ {q}) = L - 1 /\ M <= Cardinality(Pending \ {q})
      BY <2>3, <3>2, OneLess, Smaller
    <3> QED BY <2>5, <3>3
  <2> HIDE DEF L, M
  <2>7. batch' + M <= MaxEnabled
    BY <1>2, <2>1, <2>5, <2>6, MfaAssumption DEF L
  <2> QED BY <2>7 DEF M
<1> QED BY <1>7, <1>8, <1>9, <1>10 DEF Known

(* TypeOK, in parts. *)
SecretsTyped ==
  /\ secrets \in 0..MaxBegins /\ secret \in 0..secrets /\ captured \subseteq 1..secrets
  /\ restarted \in BOOLEAN /\ superseded \subseteq Tabs
CodesTyped ==
  /\ codes \in 0..MaxBegins /\ enrolOtp \in 0..codes /\ mailed \subseteq 1..codes
  /\ begins \in 0..MaxBegins
UserTyped ==
  /\ preferred \in Methods \cup {"none"}
  /\ batch \in 0..MaxEnabled /\ (batch = 0) = (preferred = "none")
  /\ spent \in [1..MaxBegins -> Nat]
SignInTyped ==
  /\ challenge \in [Challenges -> Methods \cup {"new", "gone"}]
  /\ otp \in [Challenges -> {"unsent", "live", "gone"}] /\ held \subseteq Challenges
  /\ sessions \in [Challenges -> Nat] /\ submits \in 0..MaxSubmits
Awaited(t) ==
  tab[t].submitting => \E q \in Reqs : req[q].tab = t /\ req[q].op \in Confirms
PagesTyped ==
  /\ tab \in [Tabs -> PageType] /\ req \in [Reqs -> ReqType]
  /\ \A t \in Tabs : Awaited(t)
  /\ faults \in 0..MaxFaults /\ twice \subseteq Tabs

LEMMA TypeParts == TypeOK <=> SecretsTyped /\ CodesTyped /\ UserTyped /\ SignInTyped /\ PagesTyped
<1> USE DEF SecretsTyped, CodesTyped, UserTyped, SignInTyped, PagesTyped, Awaited, Confirms
<1> QED BY Zenon DEF TypeOK

LEMMA TypePartsNext ==
  TypeOK' <=> SecretsTyped' /\ CodesTyped' /\ UserTyped' /\ SignInTyped' /\ PagesTyped'
<1> USE DEF SecretsTyped, CodesTyped, UserTyped, SignInTyped, PagesTyped, Awaited, Confirms
<1> QED BY Zenon DEF TypeOK

LEMMA TypeStatement ==
  ASSUME TypeInv, NEW q \in Reqs, Statement(q) \/ Lost(q)
  PROVE  TypeInv'
<1> DEFINE r == req[q]
<1> USE DEF TypeInv
<1>1. SecretsTyped /\ CodesTyped /\ UserTyped /\ SignInTyped /\ PagesTyped
  BY TypeParts
<1>2. Known'
  BY KnownStatement
<1>3. /\ secrets \in Nat /\ codes \in Nat /\ batch \in Nat /\ begins \in Nat
      /\ secrets' = IF StartTotp(q) THEN secrets + 1 ELSE secrets
      /\ codes' = IF StartEmail(q) THEN codes + 1 ELSE codes
      /\ batch' = IF Enable(q) THEN batch + 1 ELSE batch
      /\ secrets' \in Nat /\ codes' \in Nat
  BY CountersGrow
<1>4. /\ req' \in [Reqs -> ReqType] /\ \A p \in Reqs \ {q} : req'[p] = req[p]
      /\ (Ends(q) /\ req'[q] = NoReq) \/ Goes(q, req'[q])
  BY StatementMoves
<1>5. InOrder(r) /\ Carries(r, secrets, codes) /\ r \in ReqType
  BY <1>1 DEF Known, PagesTyped
<1>6. secrets' \in 0..MaxBegins /\ codes' \in 0..MaxBegins /\ begins' \in 0..MaxBegins
  <2> DEFINE M == Cardinality(Starting')
  <2>1. Starting' \subseteq Reqs
    BY DEF Starting
  <2>2. M \in Nat /\ secrets' + codes' + M <= begins'
    BY <1>2, <2>1, Finite DEF Known
  <2>3. begins' = begins /\ begins \in 0..MaxBegins
    BY <1>1, Writes DEF CodesTyped
  <2> HIDE DEF M
  <2> QED BY <1>3, <2>2, <2>3, MfaAssumption
<1>7. SecretsTyped'
  <2>1. CASE StartTotp(q)
    <3>1. secret' = secrets' /\ captured' = captured /\ captured \subseteq 1..secrets
      BY <1>1, <2>1 DEF StartTotp, StoredSecret, SecretsTyped
    <3>2. secret' \in 0..secrets' /\ captured' \subseteq 1..secrets'
      BY <1>3, <2>1, <3>1
    <3>3. restarted' \in BOOLEAN /\ superseded' \subseteq Tabs
      BY <2>1 DEF StartTotp
    <3> QED BY <1>6, <3>2, <3>3 DEF SecretsTyped
  <2>2. CASE ~StartTotp(q)
    BY <1>1, <2>2, Writes DEF SecretsTyped, totpVars
  <2> QED BY <2>1, <2>2
<1>8. CodesTyped'
  <2>1. enrolOtp' \in 0..codes'
    <3>1. CASE StartEmail(q)
      <4>1. enrolOtp' = codes'
        BY <3>1 DEF StartEmail
      <4> QED BY <1>3, <4>1
    <3>2. CASE SpendEmail(q)
      <4>1. enrolOtp' = 0
        BY <3>2 DEF SpendEmail
      <4> QED BY <1>3, <4>1
    <3>3. CASE ~StartEmail(q) /\ ~SpendEmail(q)
      BY <1>1, <3>3, Writes DEF CodesTyped
    <3> QED BY <3>1, <3>2, <3>3
  <2>2. 1..codes \subseteq 1..codes' /\ mailed \subseteq 1..codes
    BY <1>1, <1>3 DEF CodesTyped
  <2>3. mailed' \subseteq mailed \cup 1..codes
    <3>1. CASE MailCode(q)
      <4>1. mailed' = mailed \cup {r.got} /\ r.got \in 1..codes
        BY <1>5, <3>1, StepIs DEF MailCode, Carries, At
      <4> QED BY <4>1
    <3>2. CASE ~MailCode(q)
      BY <3>2, Writes
    <3> QED BY <3>1, <3>2
  <2> QED BY <1>6, <2>1, <2>2, <2>3 DEF CodesTyped
<1>9. UserTyped'
  <2>1. CASE Enable(q)
    <3>1. r.op \in Confirms /\ r.method \in Methods
      BY <1>5, <2>1, StepIs, Idle DEF InOrder, Confirms, Methods
    <3>2. preferred' = r.method /\ batch' = batch + 1 /\ preferred' # "none"
      BY <2>1, <3>1 DEF Enable, Methods
    <3>3. batch' \in 0..MaxEnabled /\ batch' # 0
      <4> DEFINE M == Cardinality(Pending')
      <4>1. Pending' \subseteq Reqs
        BY DEF Pending
      <4>2. M \in Nat /\ batch' + M <= MaxEnabled
        BY <1>2, <4>1, Finite DEF Known
      <4> HIDE DEF M
      <4> QED BY <1>3, <3>2, <4>2, MfaAssumption
    <3>4. spent' \in [1..MaxBegins -> Nat]
      <4>1. spent \in [1..MaxBegins -> Nat]
        BY <1>1 DEF UserTyped
      <4>2. spent' = spent \/ spent' = [spent EXCEPT ![r.arg] = @ + 1]
        BY <2>1 DEF Enable
      <4> QED BY <4>1, <4>2
    <3>5. (batch' = 0) = (preferred' = "none")
      BY <3>2, <3>3
    <3> QED BY <3>1, <3>2, <3>3, <3>4, <3>5, Zenon DEF UserTyped
  <2>2. CASE ~Enable(q)
    BY <1>1, <2>2, Writes DEF UserTyped
  <2> QED BY <2>1, <2>2
<1>10. SignInTyped'
  <2>1. challenge' \in [Challenges -> Methods \cup {"new", "gone"}]
    <3>1. challenge \in [Challenges -> Methods \cup {"new", "gone"}]
      BY <1>1 DEF SignInTyped
    <3>2. CASE CreateChallenge(q)
      <4>1. PICK c \in Challenges : challenge' = [challenge EXCEPT ![c] = r.method]
        BY <3>2 DEF CreateChallenge
      <4>2. r.method \in Methods
        BY <1>5, <3>2, StepIs, Idle DEF InOrder, At
      <4> QED BY <3>1, <4>1, <4>2
    <3>3. CASE ConsumeChallenge(q)
      BY <3>1, <3>3 DEF ConsumeChallenge, ChallengeDeleted
    <3>4. CASE ~CreateChallenge(q) /\ ~ConsumeChallenge(q)
      BY <3>1, <3>4, Writes
    <3> QED BY <3>2, <3>3, <3>4
  <2>2. otp' \in [Challenges -> {"unsent", "live", "gone"}]
    <3>1. otp \in [Challenges -> {"unsent", "live", "gone"}]
      BY <1>1 DEF SignInTyped
    <3>2. otp' = otp \/ otp' = [otp EXCEPT ![r.arg] = "live"] \/ otp' = [otp EXCEPT ![r.arg] = "gone"]
      BY Writes DEF SendOtp, SpendOtp
    <3> QED BY <3>1, <3>2
  <2>3. held' \subseteq Challenges
    <3>1. LoggedIn(q) => held' = held \cup {r.arg} /\ r.arg \in Challenges
      BY <1>5, StepIs DEF LoggedIn, Carries, At
    <3> QED BY <1>1, <3>1, Writes DEF SignInTyped
  <2>4. sessions' \in [Challenges -> Nat]
    <3>1. sessions \in [Challenges -> Nat]
      BY <1>1 DEF SignInTyped
    <3>2. sessions' = sessions \/ sessions' = [sessions EXCEPT ![r.arg] = @ + 1]
      BY Writes DEF IssueTokens
    <3> QED BY <3>1, <3>2
  <2> QED BY <1>1, <2>1, <2>2, <2>3, <2>4, Writes DEF SignInTyped
<1>11. PagesTyped'
  <2>1. ASSUME NEW t \in Tabs PROVE Awaited(t)'
    <3>1. SUFFICES ASSUME tab'[t].submitting
                   PROVE  \E p \in Reqs : req'[p].tab = t /\ req'[p].op \in Confirms
      BY DEF Awaited
    <3>2. PageAfter(q, t) /\ tab[t] \in PageType
      BY <1>1, PagesAfter DEF PagesTyped
    <3>3. tab[t].submitting
      BY <3>1, <3>2, PageTyped DEF PageAfter
    <3>4. PICK p \in Reqs : req[p].tab = t /\ req[p].op \in Confirms
      BY <1>1, <3>3 DEF PagesTyped, Awaited
    <3>5. p = q => req'[q] # NoReq
      <4>1. tab'[t] # AfterError(tab[t])
        BY <3>1, <3>2, PageTyped
      <4>2. p = q => ~At(q, "begin TOTP", "answering") /\ ~At(q, "begin EMAIL", "answering")
        BY <3>4 DEF At, Confirms
      <4> QED BY <3>1, <3>2, <3>4, <4>1, <4>2 DEF PageAfter
    <3>6. p = q => req'[q].tab = t /\ req'[q].op \in Confirms
      BY <1>4, <3>4, <3>5 DEF Goes, KeepsBody, KeepsArg, Keeps
    <3> QED BY <1>4, <3>4, <3>6
  <2>2. tab' \in [Tabs -> PageType] /\ req' \in [Reqs -> ReqType] /\ twice' \subseteq Tabs
    BY <1>1, <1>4, PagesAfter, Writes DEF PagesTyped
  <2>3. faults' \in 0..MaxFaults
    <3>1. faults \in 0..MaxFaults
      BY <1>1 DEF PagesTyped
    <3>2. faults' = faults \/ (faults < MaxFaults /\ faults' = faults + 1)
      BY Writes DEF Lost, Fault
    <3> QED BY <3>1, <3>2, MfaAssumption
  <2> QED BY <2>1, <2>2, <2>3 DEF PagesTyped
<1> QED BY <1>2, <1>7, <1>8, <1>9, <1>10, <1>11, TypePartsNext

LEMMA IdleIsNoReq ==
  ASSUME TypeInv, NEW q \in Reqs, req[q].step = "idle"
  PROVE  req[q] = NoReq
BY DEF TypeInv, Known, InOrder

(* A request sent from an idle place. *)
LEMMA Sent ==
  ASSUME TypeInv, NEW q \in Reqs, NEW s \in ReqType, Send(q, s)
  PROVE  /\ req' \in [Reqs -> ReqType] /\ req'[q] = s /\ \A p \in Reqs \ {q} : req'[p] = req[p]
         /\ req[q] = NoReq
<1>1. req \in [Reqs -> ReqType]
  BY DEF TypeInv, TypeOK
<1> QED BY <1>1, IdleIsNoReq DEF Send

LEMMA KnownSent ==
  ASSUME TypeInv, NEW q \in Reqs, NEW s \in ReqType, Send(q, s),
         InOrder(s), Carries(s, secrets, codes), UNCHANGED <<secrets, codes, batch>>,
         \A t \in Tabs : tab'[t].step = tab[t].step /\ tab'[t].shown = tab[t].shown,
         begins' = IF s.step = "starting" THEN begins + 1 ELSE begins,
         s.op \in Confirms => batch + Cardinality(Pending) < MaxEnabled
  PROVE  Known'
<1> USE DEF TypeInv
<1>1. req'[q] = s /\ \A p \in Reqs \ {q} : req'[p] = req[p]
  BY Sent
<1>2. \A p \in Reqs : InOrder(req'[p]) /\ Carries(req'[p], secrets', codes')
  <2>1. ASSUME NEW p \in Reqs PROVE InOrder(req'[p]) /\ Carries(req'[p], secrets', codes')
    <3>1. CASE p = q
      BY <1>1, <3>1
    <3>2. CASE p # q
      BY <1>1, <3>2 DEF Known
    <3> QED BY <3>1, <3>2
  <2> QED BY <2>1
<1>3. \A t \in Tabs : tab'[t].step = "totp-verify" => tab'[t].shown \in 1..secrets'
  BY DEF Known
<1>4. Starting' \subseteq Starting \cup {q} /\ (s.step # "starting" => Starting' \subseteq Starting)
  BY <1>1 DEF Starting
<1>5. Pending' \subseteq Pending \cup {q} /\ (s.op \notin Confirms => Pending' \subseteq Pending)
  BY <1>1 DEF Pending
<1>6. /\ Starting \subseteq Reqs /\ Pending \subseteq Reqs /\ Starting' \subseteq Reqs /\ Pending' \subseteq Reqs
      /\ Starting \cup {q} \subseteq Reqs /\ Pending \cup {q} \subseteq Reqs
  BY DEF Starting, Pending
<1> DEFINE L == Cardinality(Starting)
           L2 == Cardinality(Starting')
           M == Cardinality(Pending)
           M2 == Cardinality(Pending')
           S == s.step = "starting"
           C == s.op \in Confirms
<1>7. L \in Nat /\ L2 \in Nat /\ L2 <= L + 1 /\ (~S => L2 <= L)
  <2>1. L \in Nat /\ L2 \in Nat /\ Cardinality(Starting \cup {q}) <= L + 1
    BY <1>6, Finite, OneMore
  <2>2. Cardinality(Starting \cup {q}) \in Nat /\ L2 <= Cardinality(Starting \cup {q})
    BY <1>4, <1>6, Finite, Smaller
  <2>3. ~S => L2 <= L
    BY <1>4, <1>6, Smaller
  <2> HIDE DEF S, L, L2
  <2> QED BY <2>1, <2>2, <2>3
<1>8. M \in Nat /\ M2 \in Nat /\ M2 <= M + 1 /\ (~C => M2 <= M)
  <2>1. M \in Nat /\ M2 \in Nat /\ Cardinality(Pending \cup {q}) <= M + 1
    BY <1>6, Finite, OneMore
  <2>2. Cardinality(Pending \cup {q}) \in Nat /\ M2 <= Cardinality(Pending \cup {q})
    BY <1>5, <1>6, Finite, Smaller
  <2>3. ~C => M2 <= M
    BY <1>5, <1>6, Smaller
  <2> HIDE DEF C, M, M2
  <2> QED BY <2>1, <2>2, <2>3
<1>9. secrets + codes + L <= begins /\ batch + M <= MaxEnabled
  BY DEF Known
<1>10. secrets \in Nat /\ codes \in Nat /\ begins \in Nat /\ batch \in Nat /\ MaxEnabled \in Nat
  <2>1. secrets \in 0..MaxBegins /\ codes \in 0..MaxBegins /\ begins \in 0..MaxBegins /\ batch \in 0..MaxEnabled
    BY DEF TypeOK
  <2> QED BY <2>1, MfaAssumption
<1>11. begins' = (IF S THEN begins + 1 ELSE begins) /\ (C => batch + M < MaxEnabled)
  OBVIOUS
<1> HIDE DEF S, C, L, L2, M, M2
<1>12. secrets' + codes' + L2 <= begins'
  BY <1>7, <1>9, <1>10, <1>11
<1>13. batch' + M2 <= MaxEnabled
  BY <1>8, <1>9, <1>10, <1>11
<1> USE DEF L2, M2
<1> QED BY <1>2, <1>3, <1>12, <1>13 DEF Known

(* The tab of a request that is sent waits for it. *)
LEMMA PagesSent ==
  ASSUME TypeInv, NEW q \in Reqs, NEW s \in ReqType, Send(q, s), tab' \in [Tabs -> PageType],
         \A t \in Tabs : tab'[t].submitting => tab[t].submitting \/ (s.tab = t /\ s.op \in Confirms),
         faults' = faults, twice' \subseteq Tabs
  PROVE  PagesTyped'
<1>1. PagesTyped
  BY TypeParts DEF TypeInv
<1>2. /\ req' \in [Reqs -> ReqType] /\ req'[q] = s /\ \A p \in Reqs \ {q} : req'[p] = req[p]
      /\ req[q] = NoReq
  BY Sent
<1>3. ASSUME NEW t \in Tabs, tab'[t].submitting
      PROVE  \E p \in Reqs : req'[p].tab = t /\ req'[p].op \in Confirms
  <2>1. CASE tab[t].submitting
    <3>1. PICK p \in Reqs : req[p].tab = t /\ req[p].op \in Confirms
      BY <1>1, <2>1 DEF PagesTyped, Awaited
    <3>2. p # q
      BY <1>2, <3>1, Idle DEF Confirms
    <3> QED BY <1>2, <3>1, <3>2
  <2>2. CASE s.tab = t /\ s.op \in Confirms
    BY <1>2, <2>2
  <2> QED BY <1>3, <2>1, <2>2
<1> QED BY <1>1, <1>2, <1>3 DEF PagesTyped, Awaited

(* What each click of the user sends. *)
LEMMA BeginSends ==
  ASSUME NEW t \in Tabs, NEW q \in Reqs, NEW op, Begin(t, q, op)
  PROVE  \E s \in ReqType : /\ Send(q, s) /\ s.op \in Begins /\ s.step = "starting" /\ s.tab = t
                            /\ InOrder(s) /\ Carries(s, secrets, codes)
<1> DEFINE s == [NoReq EXCEPT !.op = op, !.step = "starting", !.tab = t]
<1>1. op \in Begins /\ Send(q, s)
  BY DEF Begin, Begins
<1>2. s \in ReqType /\ s.op = op /\ s.step = "starting" /\ s.tab = t
  BY <1>1, Idle DEF ReqType, Ops, Steps, Begins
<1> HIDE DEF s
<1>3. InOrder(s) /\ Carries(s, secrets, codes)
  BY <1>1, <1>2 DEF InOrder, Carries, Begins
<1> QED BY <1>1, <1>2, <1>3

LEMMA TypeBegin ==
  ASSUME TypeInv, NEW t \in Tabs, NEW q \in Reqs, NEW op, Begin(t, q, op)
  PROVE  TypeInv'
<1> USE DEF TypeInv
<1>1. SecretsTyped /\ CodesTyped /\ UserTyped /\ SignInTyped /\ PagesTyped
  BY TypeParts
<1>2. begins' = begins + 1 /\ begins < MaxBegins
  BY DEF Begin
<1>3. PICK s \in ReqType : /\ Send(q, s) /\ s.op \in Begins /\ s.step = "starting" /\ s.tab = t
                          /\ InOrder(s) /\ Carries(s, secrets, codes)
  BY BeginSends
<1>5. /\ UNCHANGED <<totpVars, enrolOtp, codes, mailed, signInVars, userVars, tab, spent, met, faults>>
      /\ twice' \subseteq twice \cup {t}
  BY DEF Begin
<1>6. Known'
  <2>1. UNCHANGED <<secrets, codes, batch>> /\ \A u \in Tabs : tab'[u].step = tab[u].step /\ tab'[u].shown = tab[u].shown
    BY <1>5 DEF totpVars, userVars
  <2> QED BY <1>2, <1>3, <2>1, KnownSent DEF Begins, Confirms
<1>7. PagesTyped'
  BY <1>1, <1>3, <1>5, PagesSent DEF PagesTyped
<1>8. begins' \in 0..MaxBegins
  <2>1. begins \in 0..MaxBegins
    BY <1>1 DEF CodesTyped
  <2> QED BY <1>2, <2>1, MfaAssumption
<1>9. SecretsTyped' /\ UserTyped' /\ SignInTyped'
  BY <1>1, <1>5 DEF SecretsTyped, UserTyped, SignInTyped, totpVars, userVars, signInVars
<1>10. CodesTyped'
  BY <1>1, <1>5, <1>8 DEF CodesTyped
<1> QED BY <1>6, <1>7, <1>9, <1>10, TypePartsNext

LEMMA SubmitSends ==
  ASSUME TypeInv, NEW t \in Tabs, NEW q \in Reqs, NEW code, Submit(t, q, code)
  PROVE  \E s \in ReqType : /\ Send(q, s) /\ s.op \in Confirms /\ s.step = "checking" /\ s.tab = t
                            /\ InOrder(s) /\ Carries(s, secrets, codes)
                            /\ s.op = "confirm TOTP" => s.arg \in {0} \cup captured
<1> DEFINE method == IF tab[t].step = "totp-verify" THEN "TOTP" ELSE "EMAIL"
           op == IF method = "TOTP" THEN "confirm TOTP" ELSE "confirm EMAIL"
           s == [NoReq EXCEPT !.op = op, !.step = "checking", !.tab = t, !.arg = code, !.method = method]
<1>1. SecretsTyped /\ CodesTyped
  BY TypeParts DEF TypeInv
<1>2. /\ Send(q, s)
      /\ code \in {0} \cup (IF method = "TOTP" THEN captured ELSE mailed)
  BY DEF Submit
<1>3. \/ method = "TOTP" /\ op = "confirm TOTP" /\ code \in 0..secrets /\ code \in {0} \cup captured
      \/ method = "EMAIL" /\ op = "confirm EMAIL" /\ code \in 0..codes
  <2>1. captured \subseteq 0..secrets /\ mailed \subseteq 0..codes /\ 0 \in 0..secrets /\ 0 \in 0..codes
    <3>1. secrets \in 0..MaxBegins /\ codes \in 0..MaxBegins /\ captured \subseteq 1..secrets /\ mailed \subseteq 1..codes
      BY <1>1 DEF SecretsTyped, CodesTyped
    <3> QED BY <3>1, MfaAssumption
  <2> QED BY <1>2, <2>1
<1>4. code \in Codes
  <2>1. secrets \in 0..MaxBegins /\ codes \in 0..MaxBegins
    BY <1>1 DEF SecretsTyped, CodesTyped
  <2>2. 0..secrets \subseteq 0..(MaxBegins + MaxChallenges) /\ 0..codes \subseteq 0..(MaxBegins + MaxChallenges)
    BY <2>1, MfaAssumption
  <2> QED BY <1>3, <2>2 DEF Codes
<1> HIDE DEF method
<1>5. op \in Confirms /\ method \in Methods
  BY <1>3 DEF Confirms, Methods
<1> HIDE DEF op
<1>6. s \in ReqType /\ s.op = op /\ s.step = "checking" /\ s.tab = t /\ s.arg = code /\ s.method = method
  BY <1>4, <1>5, Idle DEF ReqType, Ops, Steps, Confirms
<1> HIDE DEF s
<1>7. InOrder(s) /\ Carries(s, secrets, codes)
  BY <1>3, <1>6 DEF InOrder, Carries
<1>8. s.op = "confirm TOTP" => s.arg \in {0} \cup captured
  BY <1>3, <1>6
<1> QED BY <1>2, <1>5, <1>6, <1>7, <1>8

LEMMA SubmitShown ==
  ASSUME TypeInv, NEW t \in Tabs, NEW q \in Reqs, NEW code, Submit(t, q, code)
  PROVE  /\ tab' \in [Tabs -> PageType] /\ tab'[t].submitting
         /\ \A u \in Tabs : tab'[u].step = tab[u].step /\ tab'[u].shown = tab[u].shown
         /\ \A u \in Tabs \ {t} : tab'[u] = tab[u]
<1> DEFINE page == [tab[t] EXCEPT !.submitting = TRUE]
<1>1. tab \in [Tabs -> PageType] /\ tab[t] \in PageType
  BY DEF TypeInv, TypeOK
<1>2. page \in PageType /\ page.submitting /\ page.step = tab[t].step /\ page.shown = tab[t].shown
  BY <1>1 DEF PageType
<1>3. tab' = [tab EXCEPT ![t] = page]
  BY <1>1 DEF Submit
<1> HIDE DEF page
<1> QED BY <1>1, <1>2, <1>3

LEMMA TypeSubmit ==
  ASSUME TypeInv, NEW t \in Tabs, NEW q \in Reqs, NEW code, Submit(t, q, code)
  PROVE  TypeInv'
<1> DEFINE U == UnderWay("confirm TOTP") \cup UnderWay("confirm EMAIL")
<1> USE DEF TypeInv
<1>1. SecretsTyped /\ CodesTyped /\ UserTyped /\ SignInTyped /\ PagesTyped
  BY TypeParts
<1>2. batch + Cardinality(U) < MaxEnabled /\ UNCHANGED <<pageOnly, faults>>
  BY DEF Submit
<1>3. PICK s \in ReqType : /\ Send(q, s) /\ s.op \in Confirms /\ s.step = "checking" /\ s.tab = t
                          /\ InOrder(s) /\ Carries(s, secrets, codes)
  BY SubmitSends
<1>4. /\ tab' \in [Tabs -> PageType]
      /\ \A u \in Tabs : tab'[u].step = tab[u].step /\ tab'[u].shown = tab[u].shown
      /\ \A u \in Tabs \ {t} : tab'[u] = tab[u]
  BY SubmitShown
<1>5. batch + Cardinality(Pending) < MaxEnabled
  <2> DEFINE L == Cardinality(U)
             M == Cardinality(Pending)
  <2>1. Pending \subseteq U /\ U \subseteq Reqs
    BY DEF Pending, UnderWay, Confirms
  <2>2. L \in Nat /\ M \in Nat /\ M <= L
    <3> HIDE DEF U
    <3> QED BY <2>1, Finite, Smaller
  <2>3. batch \in 0..MaxEnabled
    BY <1>1 DEF UserTyped
  <2>4. batch + L < MaxEnabled
    BY <1>2
  <2> HIDE DEF L, M
  <2>5. batch + M < MaxEnabled
    BY <2>2, <2>3, <2>4, MfaAssumption
  <2> QED BY <2>5 DEF M
<1>6. Known'
  <2>1. UNCHANGED <<secrets, codes, batch, begins>>
    BY <1>2 DEF pageOnly, totpVars, userVars, emailVars
  <2> QED BY <1>3, <1>4, <1>5, <2>1, KnownSent
<1>7. PagesTyped'
  BY <1>1, <1>2, <1>3, <1>4, PagesSent DEF PagesTyped, pageOnly
<1>8. SecretsTyped' /\ UserTyped' /\ SignInTyped' /\ CodesTyped'
  BY <1>1, <1>2 DEF SecretsTyped, UserTyped, SignInTyped, CodesTyped, totpVars, userVars, signInVars, emailVars, pageOnly
<1> QED BY <1>6, <1>7, <1>8, TypePartsNext

LEMMA SignInSends ==
  ASSUME TypeInv, NEW q \in Reqs,
         Login(q) \/ \E c \in Challenges, code \in Codes : VerifyChallenge(q, c, code)
  PROVE  \E s \in ReqType : /\ Send(q, s) /\ InOrder(s) /\ Carries(s, secrets, codes)
                            /\ \/ s.op = "login" /\ s.step = "challenging"
                               \/ s.op = "verify" /\ s.step = "finding"
<1>0. UserTyped
  BY TypeParts DEF TypeInv
<1>1. CASE Login(q)
  <2> DEFINE s == [NoReq EXCEPT !.op = "login", !.step = "challenging", !.method = preferred]
  <2>1. Send(q, s) /\ preferred \in Methods
    BY <1>0, <1>1 DEF Login, UserTyped
  <2>2. /\ s \in ReqType /\ s.op = "login" /\ s.step = "challenging" /\ s.method = preferred
        /\ s.tab = NoReq.tab
    BY <2>1, Idle DEF ReqType, Ops, Steps
  <2> HIDE DEF s
  <2>3. InOrder(s) /\ Carries(s, secrets, codes)
    BY <2>1, <2>2, Idle DEF InOrder, Carries
  <2> QED BY <2>1, <2>2, <2>3
<1>2. ASSUME NEW c \in Challenges, NEW code \in Codes, VerifyChallenge(q, c, code)
      PROVE  \E s \in ReqType : /\ Send(q, s) /\ InOrder(s) /\ Carries(s, secrets, codes)
                                /\ \/ s.op = "login" /\ s.step = "challenging"
                                   \/ s.op = "verify" /\ s.step = "finding"
  <2> DEFINE s == [NoReq EXCEPT !.op = "verify", !.step = "finding", !.arg = c, !.got = code]
  <2>1. Send(q, s)
    BY <1>2 DEF VerifyChallenge
  <2>2. c \in Codes /\ code \in Nat
    BY MfaAssumption DEF Codes, Challenges
  <2>3. /\ s \in ReqType /\ s.op = "verify" /\ s.step = "finding" /\ s.arg = c
        /\ s.tab = NoReq.tab
    BY <2>2, Idle DEF ReqType, Ops, Steps
  <2> HIDE DEF s
  <2>4. InOrder(s) /\ Carries(s, secrets, codes)
    BY <2>3, Idle DEF InOrder, Carries
  <2> QED BY <2>1, <2>3, <2>4
<1> QED BY <1>1, <1>2

LEMMA TypeSignIn ==
  ASSUME TypeInv, NEW q \in Reqs,
         Login(q) \/ \E c \in Challenges, code \in Codes : VerifyChallenge(q, c, code)
  PROVE  TypeInv'
<1> USE DEF TypeInv
<1>1. SecretsTyped /\ CodesTyped /\ UserTyped /\ SignInTyped /\ PagesTyped
  BY TypeParts
<1>2. /\ UNCHANGED <<signInOnly, challenge, otp, held, sessions, met, faults>>
      /\ submits' = submits \/ (submits < MaxSubmits /\ submits' = submits + 1)
  BY DEF Login, VerifyChallenge, signInVars
<1>3. PICK s \in ReqType : /\ Send(q, s) /\ InOrder(s) /\ Carries(s, secrets, codes)
                           /\ \/ s.op = "login" /\ s.step = "challenging"
                              \/ s.op = "verify" /\ s.step = "finding"
  BY SignInSends
<1>4. UNCHANGED <<totpVars, emailVars, userVars, tab, spent, twice>>
  BY <1>2 DEF signInOnly
<1>5. Known'
  <2>1. /\ UNCHANGED <<secrets, codes, batch, begins>>
        /\ \A u \in Tabs : tab'[u].step = tab[u].step /\ tab'[u].shown = tab[u].shown
    BY <1>4 DEF totpVars, userVars, emailVars
  <2> QED BY <1>3, <2>1, KnownSent DEF Confirms
<1>6. PagesTyped'
  BY <1>1, <1>2, <1>3, <1>4, PagesSent DEF PagesTyped, Confirms
<1>7. submits' \in 0..MaxSubmits
  <2>1. submits \in 0..MaxSubmits
    BY <1>1 DEF SignInTyped
  <2> QED BY <1>2, <2>1, MfaAssumption
<1>8. SecretsTyped' /\ UserTyped' /\ CodesTyped'
  BY <1>1, <1>4 DEF SecretsTyped, UserTyped, CodesTyped, totpVars, userVars, emailVars
<1>9. SignInTyped'
  BY <1>1, <1>2, <1>7 DEF SignInTyped
<1> QED BY <1>5, <1>6, <1>8, <1>9, TypePartsNext

(* A step of the user in a tab, which leaves every request alone. *)
PageStep(t) == ProfileLoads(t) \/ ProfileFails(t) \/ SetUp(t) \/ Scan(t) \/ FinishBackupCodes(t)

PageMoved(t) ==
  \/ tab'[t] = tab[t]
  \/ tab'[t].step \in {"overview", "error", "choose"} /\ tab'[t].submitting = tab[t].submitting

LEMMA PagesMoved ==
  ASSUME TypeInv, NEW t \in Tabs, PageStep(t)
  PROVE  /\ tab' \in [Tabs -> PageType] /\ \A u \in Tabs \ {t} : tab'[u] = tab[u]
         /\ PageMoved(t)
<1>1. tab \in [Tabs -> PageType] /\ tab[t] \in PageType
  BY DEF TypeInv, TypeOK
<1>2. CASE ProfileLoads(t)
  <2> DEFINE p == [tab[t] EXCEPT !.step = "overview", !.enabled = preferred # "none"]
  <2>1. p \in PageType /\ p.step = "overview" /\ p.submitting = tab[t].submitting
    BY <1>1 DEF PageType, PageSteps
  <2>2. tab' = [tab EXCEPT ![t] = p]
    BY <1>1, <1>2 DEF ProfileLoads
  <2> HIDE DEF p
  <2> QED BY <1>1, <2>1, <2>2 DEF PageMoved
<1>3. CASE ProfileFails(t)
  <2> DEFINE p == [tab[t] EXCEPT !.step = "error"]
  <2>1. p \in PageType /\ p.step = "error" /\ p.submitting = tab[t].submitting
    BY <1>1 DEF PageType, PageSteps
  <2>2. tab' = [tab EXCEPT ![t] = p]
    BY <1>1, <1>3 DEF ProfileFails
  <2> HIDE DEF p
  <2> QED BY <1>1, <2>1, <2>2 DEF PageMoved
<1>4. CASE SetUp(t)
  <2> DEFINE p == [tab[t] EXCEPT !.step = "choose"]
  <2>1. p \in PageType /\ p.step = "choose" /\ p.submitting = tab[t].submitting
    BY <1>1 DEF PageType, PageSteps
  <2>2. tab' = [tab EXCEPT ![t] = p]
    BY <1>1, <1>4 DEF SetUp
  <2> HIDE DEF p
  <2> QED BY <1>1, <2>1, <2>2 DEF PageMoved
<1>5. CASE FinishBackupCodes(t)
  <2> DEFINE p == [tab[t] EXCEPT !.step = "overview", !.enabled = TRUE, !.shown = 0]
  <2>1. p \in PageType /\ p.step = "overview" /\ p.submitting = tab[t].submitting
    BY <1>1 DEF PageType, PageSteps
  <2>2. tab' = [tab EXCEPT ![t] = p]
    BY <1>1, <1>5 DEF FinishBackupCodes
  <2> HIDE DEF p
  <2> QED BY <1>1, <2>1, <2>2 DEF PageMoved
<1>6. CASE Scan(t)
  BY <1>1, <1>6 DEF Scan, PageMoved
<1> QED BY <1>2, <1>3, <1>4, <1>5, <1>6 DEF PageStep

LEMMA TypePageStep ==
  ASSUME TypeInv, NEW t \in Tabs, PageStep(t)
  PROVE  TypeInv'
<1> USE DEF TypeInv
<1>1. SecretsTyped /\ CodesTyped /\ UserTyped /\ SignInTyped /\ PagesTyped
  BY TypeParts
<1>2. /\ UNCHANGED <<secret, secrets, restarted, superseded, emailVars, signInVars, userVars, req, spent, twice>>
      /\ faults' = faults \/ (faults < MaxFaults /\ faults' = faults + 1)
      /\ captured' = captured \/ (tab[t].step = "totp-verify" /\ captured' = captured \cup {tab[t].shown})
  BY DEF PageStep, ProfileLoads, ProfileFails, SetUp, Scan, FinishBackupCodes, pageOnly, totpVars
<1>3. tab' \in [Tabs -> PageType] /\ (\A u \in Tabs \ {t} : tab'[u] = tab[u]) /\ PageMoved(t)
  BY PagesMoved
<1>4. captured' \subseteq 1..secrets
  <2>1. captured \subseteq 1..secrets /\ (tab[t].step = "totp-verify" => tab[t].shown \in 1..secrets)
    BY <1>1 DEF SecretsTyped, Known
  <2> QED BY <1>2, <2>1
<1>5. SecretsTyped'
  BY <1>1, <1>2, <1>4 DEF SecretsTyped
<1>6. CodesTyped' /\ UserTyped' /\ SignInTyped'
  BY <1>1, <1>2 DEF CodesTyped, UserTyped, SignInTyped, emailVars, userVars, signInVars
<1>7. faults' \in 0..MaxFaults
  <2>1. faults \in 0..MaxFaults
    BY <1>1 DEF PagesTyped
  <2> QED BY <1>2, <2>1, MfaAssumption
<1>8. \A u \in Tabs : tab'[u].submitting => tab[u].submitting
  BY <1>3 DEF PageMoved
<1>9. PagesTyped'
  BY <1>1, <1>2, <1>3, <1>7, <1>8 DEF PagesTyped, Awaited
<1>10. Known'
  <2>1. \A u \in Tabs : tab'[u].step = "totp-verify" => tab'[u] = tab[u]
    BY <1>3 DEF PageMoved
  <2>2. \A u \in Tabs : tab'[u].step = "totp-verify" => tab'[u].shown \in 1..secrets'
    BY <1>2, <2>1 DEF Known
  <2>3. Starting' = Starting /\ Pending' = Pending
    BY <1>2 DEF Starting, Pending
  <2>4. secrets' = secrets /\ codes' = codes /\ batch' = batch /\ begins' = begins /\ req' = req
    BY <1>2 DEF emailVars, userVars
  <2> QED BY <2>2, <2>3, <2>4 DEF Known
<1> QED BY <1>5, <1>6, <1>9, <1>10, TypePartsNext

(* A page that is left: no tab waits for its requests any more. *)
LEMMA LeftAlone ==
  ASSUME TypeInv, NEW t \in Tabs, Leave(t)
  PROVE  /\ tab' \in [Tabs -> PageType] /\ tab'[t] = Loading /\ \A u \in Tabs \ {t} : tab'[u] = tab[u]
         /\ req' \in [Reqs -> ReqType]
         /\ \A q \in Reqs : /\ req[q].tab # t => req'[q] = req[q]
                            /\ req[q].tab = t => req'[q].tab = Nobody
                            /\ req'[q].op = req[q].op /\ req'[q].step = req[q].step
                            /\ req'[q].arg = req[q].arg /\ req'[q].got = req[q].got
                            /\ req'[q].method = req[q].method
<1>1. tab \in [Tabs -> PageType] /\ req \in [Reqs -> ReqType] /\ Nobody \notin Tabs
  BY MfaAssumption DEF TypeInv, TypeOK
<1>2. /\ tab' = [tab EXCEPT ![t] = Loading]
      /\ req' = [q \in Reqs |-> IF req[q].tab = t THEN [req[q] EXCEPT !.tab = Nobody] ELSE req[q]]
  BY DEF Leave
<1>3. tab' \in [Tabs -> PageType] /\ tab'[t] = Loading /\ \A u \in Tabs \ {t} : tab'[u] = tab[u]
  BY <1>1, <1>2, PageTyped
<1>4. ASSUME NEW q \in Reqs
      PROVE  /\ req'[q] \in ReqType
             /\ req[q].tab # t => req'[q] = req[q]
             /\ req[q].tab = t => req'[q].tab = Nobody
             /\ req'[q].op = req[q].op /\ req'[q].step = req[q].step
             /\ req'[q].arg = req[q].arg /\ req'[q].got = req[q].got
             /\ req'[q].method = req[q].method
  <2> DEFINE s == [req[q] EXCEPT !.tab = Nobody]
  <2>1. req'[q] = IF req[q].tab = t THEN s ELSE req[q]
    BY <1>2
  <2>2. /\ s \in ReqType /\ s.tab = Nobody /\ s.op = req[q].op /\ s.step = req[q].step /\ s.arg = req[q].arg
        /\ s.got = req[q].got /\ s.method = req[q].method
    BY <1>1 DEF ReqType
  <2> HIDE DEF s
  <2> QED BY <1>1, <2>1, <2>2
<1>5. req' \in [Reqs -> ReqType]
  <2>1. req' = [q \in Reqs |-> req'[q]]
    BY <1>2
  <2> QED BY <1>4, <2>1
<1> QED BY <1>3, <1>4, <1>5

LEMMA TypeLeave ==
  ASSUME TypeInv, NEW t \in Tabs, Leave(t)
  PROVE  TypeInv'
<1> USE DEF TypeInv
<1>1. SecretsTyped /\ CodesTyped /\ UserTyped /\ SignInTyped /\ PagesTyped
  BY TypeParts
<1>2. /\ UNCHANGED <<secret, secrets, captured, restarted, emailVars, signInVars, userVars, spent, met, faults>>
      /\ twice' = twice \ {t} /\ superseded' = superseded \ {t}
  BY DEF Leave
<1>3. /\ tab' \in [Tabs -> PageType] /\ tab'[t] = Loading /\ \A u \in Tabs \ {t} : tab'[u] = tab[u]
      /\ req' \in [Reqs -> ReqType]
      /\ \A q \in Reqs : /\ req[q].tab # t => req'[q] = req[q]
                         /\ req[q].tab = t => req'[q].tab = Nobody
                         /\ req'[q].op = req[q].op /\ req'[q].step = req[q].step
                         /\ req'[q].arg = req[q].arg /\ req'[q].got = req[q].got
                         /\ req'[q].method = req[q].method
  BY LeftAlone
<1>4. SecretsTyped' /\ CodesTyped' /\ UserTyped' /\ SignInTyped'
  BY <1>1, <1>2 DEF SecretsTyped, CodesTyped, UserTyped, SignInTyped, emailVars, userVars, signInVars
<1>5. PagesTyped'
  <2>1. ASSUME NEW u \in Tabs, tab'[u].submitting
        PROVE  \E q \in Reqs : req'[q].tab = u /\ req'[q].op \in Confirms
    <3>1. u # t /\ tab[u].submitting
      BY <1>3, <2>1, PageTyped
    <3>2. PICK q \in Reqs : req[q].tab = u /\ req[q].op \in Confirms
      BY <1>1, <3>1 DEF PagesTyped, Awaited
    <3> QED BY <1>3, <3>1, <3>2
  <2> QED BY <1>1, <1>2, <1>3, <2>1 DEF PagesTyped, Awaited
<1>6. Known'
  <2>1. ASSUME NEW q \in Reqs PROVE InOrder(req'[q]) /\ Carries(req'[q], secrets', codes')
    <3>1. InOrder(req[q]) /\ Carries(req[q], secrets, codes)
      BY DEF Known
    <3>2. CASE req[q].tab # t
      BY <1>2, <1>3, <3>1, <3>2 DEF emailVars
    <3>3. CASE req[q].tab = t
      <4>1. Carries(req'[q], secrets', codes')
        BY <1>2, <1>3, <3>1 DEF Carries, emailVars
      <4>2. req[q] # NoReq
        BY <3>3, Idle, MfaAssumption
      <4>3. InOrder(req'[q])
        BY <1>3, <3>1, <3>3, <4>2 DEF InOrder
      <4> QED BY <4>1, <4>3
    <3> QED BY <3>2, <3>3
  <2>2. \A u \in Tabs : tab'[u].step = "totp-verify" => tab'[u].shown \in 1..secrets'
    BY <1>2, <1>3, PageTyped DEF Known
  <2>3. Starting' = Starting /\ Pending' = Pending
    BY <1>3 DEF Starting, Pending
  <2>4. secrets' = secrets /\ codes' = codes /\ batch' = batch /\ begins' = begins
    BY <1>2 DEF emailVars, userVars
  <2> QED BY <2>1, <2>2, <2>3, <2>4 DEF Known
<1> QED BY <1>4, <1>5, <1>6, TypePartsNext

Expires == (\E c \in Challenges : ChallengeExpires(c)) \/ EnrolmentExpires

LEMMA TypeExpires == TypeInv /\ Expires => TypeInv'
<1> SUFFICES ASSUME TypeInv, Expires PROVE TypeInv'
  OBVIOUS
<1> USE DEF TypeInv
<1>1. SecretsTyped /\ CodesTyped /\ UserTyped /\ SignInTyped /\ PagesTyped
  BY TypeParts
<1>2. /\ UNCHANGED <<totpVars, codes, mailed, begins, held, submits, sessions, userVars, tab, spent, met, twice, req>>
      /\ faults < MaxFaults /\ faults' = faults + 1
      /\ enrolOtp' = enrolOtp \/ enrolOtp' = 0
  BY DEF Expires, ChallengeExpires, EnrolmentExpires, Fault, signInOnly, signInVars, emailVars
<1>3. faults' \in 0..MaxFaults
  <2>1. faults \in 0..MaxFaults
    BY <1>1 DEF PagesTyped
  <2> QED BY <1>2, <2>1, MfaAssumption
<1>4. CodesTyped'
  <2>1. codes \in 0..MaxBegins /\ enrolOtp \in 0..codes
    BY <1>1 DEF CodesTyped
  <2>2. enrolOtp' \in 0..codes
    BY <1>2, <2>1, MfaAssumption
  <2> QED BY <1>1, <1>2, <2>2 DEF CodesTyped
<1>5. /\ challenge' \in [Challenges -> Methods \cup {"new", "gone"}]
      /\ otp' \in [Challenges -> {"unsent", "live", "gone"}]
  BY <1>1 DEF Expires, ChallengeExpires, EnrolmentExpires, SignInTyped, signInVars
<1>6. SecretsTyped' /\ UserTyped' /\ SignInTyped' /\ PagesTyped'
  BY <1>1, <1>2, <1>3, <1>5 DEF SecretsTyped, UserTyped, SignInTyped, PagesTyped, Awaited, totpVars, userVars
<1>7. Known'
  BY <1>2 DEF Known, Starting, Pending, totpVars, userVars
<1> QED BY <1>4, <1>6, <1>7, TypePartsNext

(* The steps, by what they do. *)
LEMMA NextKinds ==
  ASSUME Next
  PROVE  \/ \E t \in Tabs : PageStep(t) \/ Leave(t)
         \/ \E t \in Tabs, q \in Reqs : (\E op \in Ops : Begin(t, q, op)) \/ (\E code \in Codes : Submit(t, q, code))
         \/ \E q \in Reqs : Statement(q) \/ Lost(q)
         \/ \E q \in Reqs : Login(q) \/ \E c \in Challenges, code \in Codes : VerifyChallenge(q, c, code)
         \/ Expires
BY DEF Next, PageStep, Expires

LEMMA TypeNext == TypeInv /\ [Next]_vars => TypeInv'
<1> SUFFICES ASSUME TypeInv, [Next]_vars PROVE TypeInv'
  OBVIOUS
<1>1. CASE Next
  BY <1>1, NextKinds, TypePageStep, TypeLeave, TypeBegin, TypeSubmit, TypeStatement, TypeSignIn, TypeExpires
<1>2. CASE UNCHANGED vars
  BY <1>2 DEF vars, TypeInv, TypeOK, Known, Starting, Pending
<1> QED BY <1>1, <1>2

(* Every secret, code and challenge that the user row, the keys in Redis, a    *)
(* page or a request names is one that was made, a page is "submitting" only   *)
(* while a confirmation of its own is under way (so its button is enabled      *)
(* again), and backup codes exist exactly while a second factor is preferred.  *)
THEOREM MfaTypeCorrect == Spec => []TypeOK
<1>1. Spec => []TypeInv
  BY TypeInit, TypeNext, PTL DEF Spec
<1>2. TypeInv => TypeOK
  BY DEF TypeInv
<1> QED BY <1>1, <1>2, PTL

-----------------------------------------------------------------------------
(* The requests after any step *)

(* A request that no statement was run for: at most its page was left. *)
Stays(p) ==
  /\ req'[p].op = req[p].op /\ req'[p].step = req[p].step /\ req'[p].arg = req[p].arg
  /\ req'[p].got = req[p].got /\ req'[p].method = req[p].method

(* A request that was sent now. *)
New(p) ==
  /\ req[p] = NoReq
  /\ \/ req'[p].op \in Begins /\ req'[p].step = "starting"
     \/ /\ req'[p].op \in Confirms /\ req'[p].step = "checking"
        /\ req'[p].op = "confirm TOTP" => req'[p].arg \in {0} \cup captured
     \/ req'[p].op = "login" /\ req'[p].step = "challenging"
     \/ req'[p].op = "verify" /\ req'[p].step = "finding"

(* A step of the user, of the mailbox or of time: no statement of a handler. *)
Outside ==
  \/ \E t \in Tabs : PageStep(t) \/ Leave(t)
  \/ \E t \in Tabs, q \in Reqs : (\E op \in Ops : Begin(t, q, op)) \/ (\E code \in Codes : Submit(t, q, code))
  \/ \E q \in Reqs : Login(q) \/ \E c \in Challenges, code \in Codes : VerifyChallenge(q, c, code)
  \/ Expires
  \/ UNCHANGED vars

LEMMA NextOr == [Next]_vars => Outside \/ \E q \in Reqs : Statement(q) \/ Lost(q)
BY NextKinds DEF Outside

LEMMA OutsideKeeps ==
  ASSUME Outside
  PROVE  /\ UNCHANGED <<secret, secrets, restarted, codes, userVars, spent, sessions, met>>
         /\ captured \subseteq captured'
         /\ enrolOtp' \in {0, enrolOtp}
         /\ UNCHANGED challenge \/ \E c \in Challenges : /\ challenge[c] \in Methods
                                                         /\ challenge' = [challenge EXCEPT ![c] = "gone"]
<1>1. CASE \E t \in Tabs : PageStep(t)
  BY <1>1 DEF PageStep, ProfileLoads, ProfileFails, SetUp, Scan, FinishBackupCodes, pageOnly, totpVars,
              emailVars, userVars, signInVars
<1>2. CASE \E t \in Tabs : Leave(t)
  BY <1>2 DEF Leave, emailVars, userVars, signInVars
<1>3. CASE \E t \in Tabs, q \in Reqs : (\E op \in Ops : Begin(t, q, op)) \/ (\E code \in Codes : Submit(t, q, code))
  BY <1>3 DEF Begin, Submit, pageOnly, totpVars, emailVars, userVars, signInVars
<1>4. CASE \E q \in Reqs : Login(q) \/ \E c \in Challenges, code \in Codes : VerifyChallenge(q, c, code)
  BY <1>4 DEF Login, VerifyChallenge, signInOnly, totpVars, emailVars, userVars, signInVars
<1>5. CASE Expires
  BY <1>5 DEF Expires, ChallengeExpires, EnrolmentExpires, signInOnly, totpVars, emailVars, userVars, signInVars
<1>6. CASE UNCHANGED vars
  BY <1>6 DEF vars, userVars
<1> QED BY <1>1, <1>2, <1>3, <1>4, <1>5, <1>6 DEF Outside

LEMMA OutsideRequests ==
  ASSUME TypeInv, Outside, NEW p \in Reqs
  PROVE  Stays(p) \/ New(p)
<1>1. CASE (\E t \in Tabs : PageStep(t)) \/ Expires \/ UNCHANGED vars
  BY <1>1 DEF PageStep, ProfileLoads, ProfileFails, SetUp, Scan, FinishBackupCodes, Expires, ChallengeExpires,
              EnrolmentExpires, vars, Stays
<1>2. CASE \E t \in Tabs : Leave(t)
  BY <1>2, LeftAlone DEF Stays
<1>3. ASSUME NEW q \in Reqs, NEW s \in ReqType, Send(q, s),
             \/ s.op \in Begins /\ s.step = "starting"
             \/ s.op \in Confirms /\ s.step = "checking" /\ (s.op = "confirm TOTP" => s.arg \in {0} \cup captured)
             \/ s.op = "login" /\ s.step = "challenging"
             \/ s.op = "verify" /\ s.step = "finding"
      PROVE  Stays(p) \/ New(p)
  <2>1. req'[q] = s /\ req[q] = NoReq /\ (p # q => req'[p] = req[p])
    BY <1>3, Sent
  <2> QED BY <1>3, <2>1 DEF Stays, New
<1>4. ASSUME NEW t \in Tabs, NEW q \in Reqs, NEW op \in Ops, Begin(t, q, op) PROVE Stays(p) \/ New(p)
  BY <1>3, <1>4, BeginSends
<1>5. ASSUME NEW t \in Tabs, NEW q \in Reqs, NEW code \in Codes, Submit(t, q, code) PROVE Stays(p) \/ New(p)
  BY <1>3, <1>5, SubmitSends
<1>6. ASSUME NEW q \in Reqs, Login(q) \/ \E c \in Challenges, code \in Codes : VerifyChallenge(q, c, code)
      PROVE  Stays(p) \/ New(p)
  BY <1>3, <1>6, SignInSends
<1> QED BY <1>1, <1>2, <1>4, <1>5, <1>6 DEF Outside

-----------------------------------------------------------------------------
(* The stored secret is one the user has captured *)

CapturedInv ==
  \/ restarted
  \/ /\ preferred = "TOTP" \/ (\E q \in Reqs : At(q, "confirm TOTP", "enabling")) => secret \in captured
     /\ \A q \in Reqs : At(q, "confirm TOTP", "checking") => req[q].arg \in {0} \cup captured

LEMMA CapturedInit == Init => CapturedInv
BY Idle DEF Init, CapturedInv, At

LEMMA CapturedOutside ==
  ASSUME TypeInv, CapturedInv, Outside
  PROVE  CapturedInv'
<1>1. /\ secret' = secret /\ restarted' = restarted /\ preferred' = preferred /\ captured \subseteq captured'
  BY OutsideKeeps DEF userVars
<1>2. CASE restarted
  BY <1>1, <1>2 DEF CapturedInv
<1>3. CASE ~restarted
  <2>1. ASSUME NEW q \in Reqs, At(q, "confirm TOTP", "enabling")' PROVE At(q, "confirm TOTP", "enabling")
    BY <2>1, OutsideRequests DEF Stays, New, At
  <2>2. ASSUME NEW q \in Reqs, At(q, "confirm TOTP", "checking")' PROVE req'[q].arg \in {0} \cup captured'
    <3>1. CASE Stays(q)
      BY <1>1, <1>3, <2>2, <3>1 DEF Stays, At, CapturedInv
    <3>2. CASE New(q)
      BY <1>1, <2>2, <3>2 DEF New, At, Begins, Confirms
    <3> QED BY <3>1, <3>2, OutsideRequests
  <2>3. preferred' = "TOTP" \/ (\E q \in Reqs : At(q, "confirm TOTP", "enabling")') => secret' \in captured'
    BY <1>1, <1>3, <2>1 DEF CapturedInv
  <2> QED BY <2>2, <2>3 DEF CapturedInv
<1> QED BY <1>2, <1>3

LEMMA CapturedStatement ==
  ASSUME TypeInv, CapturedInv, NEW q \in Reqs, Statement(q) \/ Lost(q)
  PROVE  CapturedInv'
<1> DEFINE r == req[q]
           s == req'[q]
<1>1. /\ \A p \in Reqs \ {q} : req'[p] = req[p]
      /\ s = NoReq \/ Goes(q, s)
  BY StatementMoves
<1>2. captured' = captured /\ (~StartTotp(q) => secret' = secret /\ restarted' = restarted)
      /\ (~Enable(q) => preferred' = preferred)
  BY Writes DEF totpVars
<1>3. InOrder(r)
  BY DEF TypeInv, Known
<1>4. restarted => restarted'
  BY <1>2 DEF StartTotp
<1>5. SUFFICES ASSUME ~restarted' PROVE CapturedInv'
  BY DEF CapturedInv
<1>6. /\ preferred = "TOTP" \/ (\E p \in Reqs : At(p, "confirm TOTP", "enabling")) => secret \in captured
      /\ \A p \in Reqs : At(p, "confirm TOTP", "checking") => req[p].arg \in {0} \cup captured
  BY <1>4, <1>5 DEF CapturedInv
<1>7. ASSUME NEW p \in Reqs, At(p, "confirm TOTP", "checking")' PROVE req'[p].arg \in {0} \cup captured'
  <2>1. p # q
    BY <1>1, <1>7, Idle, StepIs DEF At, Goes, KeepsBody, KeepsArg, Keeps
  <2> QED BY <1>1, <1>2, <1>6, <1>7, <2>1 DEF At
<1>8. CASE StartTotp(q)
  <2>1. preferred # "TOTP" /\ \A p \in Reqs : ~At(p, "confirm TOTP", "enabling")
    BY <1>5, <1>8 DEF StartTotp
  <2>2. preferred' = preferred
    BY <1>8 DEF StartTotp, userVars
  <2>3. \A p \in Reqs : ~At(p, "confirm TOTP", "enabling")'
    BY <1>1, <1>8, <2>1, Idle, StepIs DEF At, Goes, KeepsBody, KeepsArg, Keeps
  <2> QED BY <1>7, <2>1, <2>2, <2>3 DEF CapturedInv
<1>9. CASE ~StartTotp(q)
  <2>1. ASSUME NEW p \in Reqs, At(p, "confirm TOTP", "enabling")' PROVE secret \in captured
    <3>1. CASE p # q
      BY <1>1, <1>6, <2>1, <3>1 DEF At
    <3>2. CASE p = q
      <4>1. CheckTotp(q) /\ r.arg = secret /\ secret # 0
        BY <1>1, <2>1, <3>2, Idle, StepIs DEF At, Goes, KeepsBody, KeepsArg, Keeps
      <4> QED BY <1>6, <4>1, StepIs
    <3> QED BY <3>1, <3>2
  <2>2. ASSUME preferred' = "TOTP" PROVE secret \in captured
    <3>1. CASE Enable(q)
      <4>1. r.step = "enabling" /\ r.method = "TOTP"
        BY <2>2, <3>1 DEF Enable
      <4>2. At(q, "confirm TOTP", "enabling")
        BY <1>3, <4>1, Idle DEF InOrder, At
      <4> QED BY <1>6, <4>2
    <3>2. CASE ~Enable(q)
      BY <1>2, <1>6, <2>2, <3>2
    <3> QED BY <3>1, <3>2
  <2> QED BY <1>2, <1>7, <1>9, <2>1, <2>2 DEF CapturedInv
<1> QED BY <1>8, <1>9

(* Nobody is locked out by enrolling: a secret that is in use as the second    *)
(* factor is one the user has captured, whatever is lost or clicked twice,     *)
(* unless it was replaced after its code was checked.                          *)
THEOREM EnrolledSecretCaptured == Spec => []SecretCaptured
<1> DEFINE Inv == TypeInv /\ CapturedInv
<1>1. Init => Inv
  BY TypeInit, CapturedInit
<1>2. Inv /\ [Next]_vars => Inv'
  BY TypeNext, NextOr, CapturedOutside, CapturedStatement
<1>3. Inv => SecretCaptured
  BY DEF CapturedInv, SecretCaptured
<1> QED BY <1>1, <1>2, <1>3, PTL DEF Spec

-----------------------------------------------------------------------------
(* What a page shows while it waits *)

Waiting(t) == {q \in Reqs : req[q].tab = t}

(* A tab that did not begin two enrolments at once waits for one answer, and   *)
(* stays at the step that asked for it.                                        *)
OneAnswer(t) ==
  /\ \A p, q \in Waiting(t) : p = q
  /\ \A q \in Waiting(t) :
       /\ req[q].op \in Begins => tab[t].step = "choose"
       /\ req[q].op \in Confirms => tab[t].step \in {"totp-verify", "email-verify"} /\ tab[t].submitting

PagesInv == \A t \in Tabs \ twice : OneAnswer(t)

LEMMA WaitingKinds ==
  ASSUME TypeInv, NEW t \in Tabs, NEW q \in Waiting(t)
  PROVE  q \in Reqs /\ req[q].tab = t /\ req[q] # NoReq /\ req[q].op \in Begins \cup Confirms
<1>1. q \in Reqs /\ req[q].tab = t /\ t # Nobody /\ InOrder(req[q])
  BY MfaAssumption DEF Waiting, TypeInv, Known
<1>2. req[q] # NoReq
  BY <1>1, Idle
<1> QED BY <1>1, <1>2 DEF InOrder, Begins, Confirms

(* At any other step, it waits for nothing. *)
LEMMA NothingAwaited ==
  ASSUME TypeInv, PagesInv, NEW t \in Tabs \ twice,
         tab[t].step \notin {"choose", "totp-verify", "email-verify"}
  PROVE  Waiting(t) = {}
BY WaitingKinds DEF PagesInv, OneAnswer

LEMMA PagesInit == Init => PagesInv
BY Idle, MfaAssumption DEF Init, PagesInv, OneAnswer, Waiting

LEMMA PagesStatement ==
  ASSUME TypeInv, PagesInv, NEW q \in Reqs, Statement(q) \/ Lost(q)
  PROVE  PagesInv'
<1>1. /\ \A p \in Reqs \ {q} : req'[p] = req[p]
      /\ (Ends(q) /\ req'[q] = NoReq) \/ Goes(q, req'[q])
  BY StatementMoves
<1>2. twice' = twice
  BY Writes
<1>3. req'[q] # NoReq => req'[q].op = req[q].op /\ req'[q].tab = req[q].tab
  BY <1>1 DEF Goes, KeepsBody, KeepsArg, Keeps
<1>4. SUFFICES ASSUME NEW t \in Tabs \ twice PROVE OneAnswer(t)'
  BY <1>2 DEF PagesInv
<1>5. PageAfter(q, t) /\ OneAnswer(t)
  BY <1>4, PagesAfter DEF PagesInv
<1>6. Waiting(t)' = IF req'[q] = NoReq THEN Waiting(t) \ {q} ELSE Waiting(t)
  <2>1. req'[q] = NoReq => req'[q].tab # t
    BY <1>4, Idle, MfaAssumption
  <2> QED BY <1>1, <1>3, <2>1 DEF Waiting
<1>7. CASE tab'[t] = tab[t]
  <2>1. \A p \in Waiting(t)' : p \in Waiting(t) /\ req'[p].op = req[p].op
    BY <1>1, <1>3, <1>6 DEF Waiting
  <2> QED BY <1>5, <1>7, <2>1 DEF OneAnswer
<1>8. CASE tab'[t] # tab[t]
  <2>1. req[q].tab = t /\ req'[q] = NoReq
    BY <1>5, <1>8 DEF PageAfter, Shown
  <2>2. Waiting(t)' = {}
    BY <1>5, <1>6, <2>1 DEF OneAnswer, Waiting
  <2> QED BY <2>2 DEF OneAnswer
<1> QED BY <1>7, <1>8

LEMMA PagesOutside ==
  ASSUME TypeInv, PagesInv, Outside
  PROVE  PagesInv'
<1>1. ASSUME NEW t \in Tabs, PageStep(t) PROVE PagesInv'
  <2>1. /\ req' = req /\ twice' = twice /\ \A u \in Tabs \ {t} : tab'[u] = tab[u]
        /\ PageMoved(t)
    BY <1>1, PagesMoved DEF PageStep, ProfileLoads, ProfileFails, SetUp, Scan, FinishBackupCodes, pageOnly
  <2>2. tab'[t] = tab[t] \/ tab[t].step \notin {"choose", "totp-verify", "email-verify"}
    BY <1>1 DEF PageStep, ProfileLoads, ProfileFails, SetUp, Scan, FinishBackupCodes
  <2>3. ASSUME NEW u \in Tabs \ twice PROVE OneAnswer(u)'
    <3>1. Waiting(u)' = Waiting(u) /\ OneAnswer(u)
      BY <2>1 DEF Waiting, PagesInv
    <3>2. CASE tab'[u] = tab[u]
      BY <2>1, <3>1, <3>2 DEF OneAnswer
    <3>3. CASE tab'[u] # tab[u]
      <4>1. Waiting(u) = {}
        BY <2>1, <2>2, <3>3, NothingAwaited
      <4> QED BY <3>1, <4>1 DEF OneAnswer
    <3> QED BY <3>2, <3>3
  <2> QED BY <2>1, <2>3 DEF PagesInv
<1>2. ASSUME NEW t \in Tabs, Leave(t) PROVE PagesInv'
  <2>1. /\ tab'[t] = Loading /\ \A u \in Tabs \ {t} : tab'[u] = tab[u]
        /\ \A q \in Reqs : /\ req[q].tab # t => req'[q] = req[q]
                           /\ req[q].tab = t => req'[q].tab = Nobody
    BY <1>2, LeftAlone
  <2>2. twice' = twice \ {t}
    BY <1>2 DEF Leave
  <2>3. Waiting(t)' = {}
    BY <2>1, MfaAssumption DEF Waiting
  <2>4. ASSUME NEW u \in Tabs \ twice', u # t PROVE OneAnswer(u)'
    <3>1. OneAnswer(u) /\ tab'[u] = tab[u]
      BY <2>1, <2>2, <2>4 DEF PagesInv
    <3>2. \A q \in Waiting(u)' : q \in Waiting(u) /\ req'[q] = req[q]
      BY <2>1, <2>4, MfaAssumption DEF Waiting
    <3> QED BY <3>1, <3>2 DEF OneAnswer
  <2>5. OneAnswer(t)'
    BY <2>3 DEF OneAnswer
  <2> QED BY <2>4, <2>5 DEF PagesInv
<1>3. ASSUME NEW t \in Tabs, NEW q \in Reqs, NEW op \in Ops, Begin(t, q, op) PROVE PagesInv'
  <2>1. PICK s \in ReqType : Send(q, s) /\ s.op \in Begins /\ s.tab = t
    BY <1>3, BeginSends
  <2>2. req'[q] = s /\ \A p \in Reqs \ {q} : req'[p] = req[p]
    BY <2>1, Sent
  <2>3. /\ tab' = tab /\ tab[t].step = "choose"
        /\ twice' = IF Beginning(t) # {} THEN twice \cup {t} ELSE twice
    BY <1>3 DEF Begin
  <2>4. ASSUME NEW u \in Tabs \ twice' PROVE OneAnswer(u)'
    <3>1. OneAnswer(u)
      BY <2>3 DEF PagesInv
    <3>2. CASE u = t
      <4>1. Beginning(t) = {}
        BY <2>3, <3>2
      <4>2. Waiting(t) = {}
        BY <2>3, <3>1, <3>2, <4>1, WaitingKinds DEF OneAnswer, Beginning, Begins
      <4>3. Waiting(t)' = {q}
        BY <2>1, <2>2, <4>2 DEF Waiting
      <4> QED BY <2>1, <2>2, <2>3, <3>2, <4>3 DEF OneAnswer, Begins, Confirms
    <3>3. CASE u # t
      <4>1. \A p \in Waiting(u)' : p \in Waiting(u) /\ req'[p] = req[p]
        BY <2>1, <2>2, <3>3 DEF Waiting
      <4> QED BY <2>3, <3>1, <4>1 DEF OneAnswer
    <3> QED BY <3>2, <3>3
  <2> QED BY <2>4 DEF PagesInv
<1>4. ASSUME NEW t \in Tabs, NEW q \in Reqs, NEW code \in Codes, Submit(t, q, code) PROVE PagesInv'
  <2>1. PICK s \in ReqType : Send(q, s) /\ s.op \in Confirms /\ s.tab = t
    BY <1>4, SubmitSends
  <2>2. req'[q] = s /\ \A p \in Reqs \ {q} : req'[p] = req[p]
    BY <2>1, Sent
  <2>3. CanSubmit(t) /\ twice' = twice
    BY <1>4 DEF Submit, pageOnly
  <2>4. tab'[t].submitting /\ tab'[t].step = tab[t].step /\ \A u \in Tabs \ {t} : tab'[u] = tab[u]
    BY <1>4, SubmitShown
  <2>5. ASSUME NEW u \in Tabs \ twice' PROVE OneAnswer(u)'
    <3>1. OneAnswer(u)
      BY <2>3 DEF PagesInv
    <3>2. CASE u = t
      <4>1. Waiting(t) = {}
        BY <2>3, <3>1, <3>2, WaitingKinds DEF OneAnswer, CanSubmit
      <4>2. Waiting(t)' = {q}
        BY <2>1, <2>2, <4>1 DEF Waiting
      <4> QED BY <2>1, <2>2, <2>3, <2>4, <3>2, <4>2 DEF OneAnswer, Begins, Confirms, CanSubmit
    <3>3. CASE u # t
      <4>1. \A p \in Waiting(u)' : p \in Waiting(u) /\ req'[p] = req[p]
        BY <2>1, <2>2, <3>3 DEF Waiting
      <4>2. tab'[u] = tab[u]
        BY <2>4, <3>3
      <4> QED BY <3>1, <4>1, <4>2 DEF OneAnswer
    <3> QED BY <3>2, <3>3
  <2> QED BY <2>5 DEF PagesInv
<1>5. ASSUME NEW q \in Reqs, Login(q) \/ \E c \in Challenges, code \in Codes : VerifyChallenge(q, c, code)
      PROVE  PagesInv'
  <2>1. PICK s \in ReqType : Send(q, s) /\ InOrder(s) /\ s.op \in {"login", "verify"}
    BY <1>5, SignInSends
  <2>2. req'[q] = s /\ \A p \in Reqs \ {q} : req'[p] = req[p]
    BY <2>1, Sent
  <2>3. tab' = tab /\ twice' = twice
    BY <1>5 DEF Login, VerifyChallenge, signInOnly
  <2>4. s.tab = Nobody
    BY <2>1, Idle DEF InOrder
  <2>5. ASSUME NEW u \in Tabs \ twice PROVE OneAnswer(u)'
    <3>1. \A p \in Waiting(u)' : p \in Waiting(u) /\ req'[p] = req[p]
      BY <2>2, <2>4, MfaAssumption DEF Waiting
    <3> QED BY <2>3, <3>1 DEF OneAnswer, PagesInv
  <2> QED BY <2>3, <2>5 DEF PagesInv
<1>6. ASSUME Expires \/ UNCHANGED vars PROVE PagesInv'
  BY <1>6 DEF Expires, ChallengeExpires, EnrolmentExpires, signInOnly, vars, PagesInv, OneAnswer, Waiting
<1> QED BY <1>1, <1>2, <1>3, <1>4, <1>5, <1>6 DEF Outside

LEMMA PagesNext == TypeInv /\ PagesInv /\ [Next]_vars => PagesInv'
BY NextOr, PagesOutside, PagesStatement

(* The backup codes, which are shown once, stay on screen until the user says  *)
(* that they are saved or leaves the page: no answer, late or lost, takes them *)
(* off, unless two enrolments were begun at once.                              *)
THEOREM CodesStayOnScreen == Spec => BackupCodesStay
<1>1. TypeInv /\ PagesInv /\ [Next]_vars =>
        [\A t \in Tabs : tab[t].step = "backup-codes" =>
           \/ tab'[t] = tab[t] \/ tab'[t] = Loading \/ FinishBackupCodes(t)
           \/ t \in twice]_vars
  <2> SUFFICES ASSUME TypeInv, PagesInv, [Next]_vars, NEW t \in Tabs \ twice, tab[t].step = "backup-codes",
                      tab'[t] # tab[t]
               PROVE  tab'[t] = Loading \/ FinishBackupCodes(t)
    OBVIOUS
  <2>1. Waiting(t) = {}
    BY NothingAwaited
  <2>2. ASSUME NEW q \in Reqs, Statement(q) \/ Lost(q) PROVE FALSE
    <3>1. PageAfter(q, t)
      BY <2>2, PagesAfter
    <3> QED BY <2>1, <3>1 DEF PageAfter, Shown, Waiting
  <2>3. ASSUME NEW u \in Tabs, PageStep(u) PROVE FinishBackupCodes(t)
    <3>1. u = t
      BY <2>3, PagesMoved
    <3> QED BY <2>3, <3>1 DEF PageStep, ProfileLoads, ProfileFails, SetUp, Scan
  <2>4. ASSUME NEW u \in Tabs, Leave(u) PROVE tab'[t] = Loading
    BY <2>4, LeftAlone
  <2>5. ASSUME NEW u \in Tabs, NEW q \in Reqs, NEW code \in Codes, Submit(u, q, code) PROVE FALSE
    <3>1. u = t
      BY <2>5, SubmitShown
    <3> QED BY <2>5, <3>1 DEF Submit, CanSubmit
  <2>6. ASSUME \/ \E u \in Tabs, q \in Reqs : \E op \in Ops : Begin(u, q, op)
               \/ \E q \in Reqs : Login(q) \/ \E c \in Challenges, code \in Codes : VerifyChallenge(q, c, code)
               \/ Expires \/ UNCHANGED vars
        PROVE  FALSE
    BY <2>6 DEF Begin, Login, VerifyChallenge, Expires, ChallengeExpires, EnrolmentExpires, signInOnly, vars
  <2> QED BY <2>2, <2>3, <2>4, <2>5, <2>6, NextOr DEF Outside
<1>2. Spec => [](TypeInv /\ PagesInv)
  BY TypeInit, TypeNext, PagesInit, PagesNext, PTL DEF Spec
<1>3. QED
  BY <1>1, <1>2, PTL DEF Spec, BackupCodesStay

-----------------------------------------------------------------------------
(* The QR code on screen *)

Superseded(t) == t \in twice \cup superseded

(* The code on screen, and the one that an answer brings, is the stored one. *)
Current(t) ==
  /\ tab[t].step = "totp-verify" => tab[t].shown = secret
  /\ \A q \in Waiting(t) : At(q, "begin TOTP", "answering") => req[q].got = secret

QrInv == \A t \in Tabs : Superseded(t) \/ Current(t)

LEMMA QrInit == Init => QrInv
<1> SUFFICES ASSUME Init, NEW t \in Tabs PROVE Current(t)
  BY DEF QrInv
<1>1. tab[t].step # "totp-verify" /\ \A q \in Reqs : req[q].op # "begin TOTP"
  BY Idle, PageTyped DEF Init
<1> QED BY <1>1 DEF Current, Waiting, At

LEMMA QrStatement ==
  ASSUME TypeInv, PagesInv, QrInv, NEW q \in Reqs, Statement(q) \/ Lost(q)
  PROVE  QrInv'
<1>1. /\ \A p \in Reqs \ {q} : req'[p] = req[p]
      /\ (Ends(q) /\ req'[q] = NoReq) \/ Goes(q, req'[q])
  BY StatementMoves
<1>2. twice' = twice /\ (~StartTotp(q) => secret' = secret /\ superseded' = superseded)
  BY Writes DEF totpVars
<1>3. req'[q] # NoReq => req'[q].op = req[q].op /\ req'[q].tab = req[q].tab
  BY <1>1 DEF Goes, KeepsBody, KeepsArg, Keeps
<1>4. CASE StartTotp(q)
  <2>1. /\ At(q, "begin TOTP", "starting") /\ secret' = secrets' /\ tab' = tab
        /\ superseded' = IF req[q].tab = Nobody THEN Tabs ELSE Tabs \ {req[q].tab}
    BY <1>4 DEF StartTotp, StoredSecret
  <2>2. req'[q].got = secrets'
    <3>1. req[q] \in ReqType /\ req \in [Reqs -> ReqType]
      BY DEF TypeInv, TypeOK
    <3>2. req'[q] = [req[q] EXCEPT !.step = "answering", !.got = secrets']
      BY <1>4, <3>1 DEF StartTotp
    <3> QED BY <3>1, <3>2 DEF ReqType
  <2>3. ASSUME NEW t \in Tabs \ twice, req[q].tab = t PROVE Current(t)'
    <3>1. OneAnswer(t) /\ q \in Waiting(t)
      BY <2>3 DEF PagesInv, Waiting
    <3>2. tab[t].step = "choose"
      BY <2>1, <3>1 DEF OneAnswer, At, Begins
    <3>3. \A p \in Waiting(t)' : p = q
      BY <1>1, <3>1 DEF OneAnswer, Waiting
    <3> QED BY <2>1, <2>2, <3>2, <3>3 DEF Current
  <2>4. ASSUME NEW t \in Tabs \ twice, req[q].tab # t PROVE t \in superseded'
    BY <2>1, <2>4
  <2> QED BY <1>2, <2>3, <2>4 DEF QrInv, Superseded
<1>5. CASE ~StartTotp(q)
  <2>1. SUFFICES ASSUME NEW t \in Tabs, ~Superseded(t) PROVE Current(t)'
    BY <1>2, <1>5 DEF QrInv, Superseded
  <2>2. Current(t) /\ PageAfter(q, t) /\ tab[t] \in PageType /\ secret' = secret
    BY <1>2, <1>5, <2>1, PagesAfter DEF QrInv, TypeInv, TypeOK
  <2>3. ASSUME NEW p \in Waiting(t)', At(p, "begin TOTP", "answering")' PROVE req'[p].got = secret
    <3>1. CASE p # q
      BY <1>1, <2>2, <2>3, <3>1 DEF Current, Waiting, At
    <3>2. CASE p = q
      <4>1. InOrder(req[q]) /\ Goes(q, req'[q]) /\ req'[q].op = "begin TOTP" /\ req'[q].step = "answering"
        BY <1>1, <2>3, <3>2, Idle DEF TypeInv, Known, At
      <4>2. req[q].op = "begin TOTP"
        BY <1>3, <4>1, Idle
      <4>3. req[q].step \in {"starting", "answering"}
        BY <4>1, <4>2, Idle DEF InOrder
      <4> QED BY <1>5, <4>1, <4>2, <4>3, StepIs DEF Goes, At
    <3> QED BY <3>1, <3>2
  <2>4. ASSUME tab'[t].step = "totp-verify" PROVE tab'[t].shown = secret
    <3>1. CASE tab'[t] = tab[t] \/ tab'[t] = AfterError(tab[t])
      <4>1. tab'[t].step = tab[t].step /\ tab'[t].shown = tab[t].shown
        BY <2>2, <3>1, PageTyped
      <4> QED BY <2>2, <2>4, <4>1 DEF Current
    <3>2. CASE At(q, "begin TOTP", "answering") /\ Shown(q, t, "totp-verify") /\ tab'[t].shown = req[q].got
      BY <2>2, <3>2 DEF Current, Waiting, Shown
    <3> QED BY <2>2, <2>4, <3>1, <3>2 DEF PageAfter, Shown
  <2> QED BY <2>2, <2>3, <2>4 DEF Current
<1> QED BY <1>4, <1>5

LEMMA QrOutside ==
  ASSUME TypeInv, PagesInv, QrInv, Outside
  PROVE  QrInv'
<1>1. secret' = secret
  BY OutsideKeeps
<1>2. ASSUME NEW t \in Tabs, Leave(t) PROVE QrInv'
  <2>1. /\ tab'[t] = Loading /\ \A u \in Tabs \ {t} : tab'[u] = tab[u]
        /\ \A q \in Reqs : /\ req[q].tab # t => req'[q] = req[q]
                           /\ req[q].tab = t => req'[q].tab = Nobody
    BY <1>2, LeftAlone
  <2>2. twice' = twice \ {t} /\ superseded' = superseded \ {t}
    BY <1>2 DEF Leave
  <2>3. Current(t)'
    <3>1. Waiting(t)' = {}
      BY <2>1, MfaAssumption DEF Waiting
    <3>2. tab'[t].step # "totp-verify"
      BY <2>1, PageTyped
    <3> QED BY <3>1, <3>2 DEF Current
  <2>4. ASSUME NEW u \in Tabs, u # t PROVE Superseded(u)' \/ Current(u)'
    <3>1. Superseded(u) \/ Current(u)
      BY DEF QrInv
    <3>2. Superseded(u) => Superseded(u)'
      BY <2>2, <2>4 DEF Superseded
    <3>3. \A q \in Waiting(u)' : q \in Waiting(u) /\ req'[q] = req[q]
      BY <2>1, <2>4, MfaAssumption DEF Waiting
    <3>4. Current(u) => Current(u)'
      BY <1>1, <2>1, <2>4, <3>3 DEF Current, At
    <3> QED BY <3>1, <3>2, <3>4
  <2> QED BY <2>3, <2>4 DEF QrInv
<1>3. ASSUME ~\E t \in Tabs : Leave(t) PROVE QrInv'
  <2>1. twice \subseteq twice' /\ superseded' = superseded
    BY <1>3 DEF Outside, PageStep, ProfileLoads, ProfileFails, SetUp, Scan, FinishBackupCodes, Begin, Submit, Login,
                VerifyChallenge, Expires, ChallengeExpires, EnrolmentExpires, pageOnly, signInOnly, totpVars, vars
  <2>2. ASSUME NEW t \in Tabs, tab'[t].step = "totp-verify"
        PROVE  tab[t].step = "totp-verify" /\ tab'[t].shown = tab[t].shown
    <3>1. CASE \E u \in Tabs : PageStep(u)
      BY <2>2, <3>1, PagesMoved DEF PageMoved
    <3>2. CASE \E u \in Tabs, q \in Reqs : \E code \in Codes : Submit(u, q, code)
      BY <2>2, <3>2, SubmitShown
    <3>3. CASE \/ \E u \in Tabs, q \in Reqs : \E op \in Ops : Begin(u, q, op)
               \/ \E q \in Reqs : Login(q) \/ \E c \in Challenges, code \in Codes : VerifyChallenge(q, c, code)
               \/ Expires \/ UNCHANGED vars
      BY <2>2, <3>3 DEF Begin, Login, VerifyChallenge, Expires, ChallengeExpires, EnrolmentExpires, signInOnly, vars
    <3> QED BY <1>3, <3>1, <3>2, <3>3 DEF Outside
  <2>3. ASSUME NEW t \in Tabs, NEW p \in Waiting(t)', At(p, "begin TOTP", "answering")'
        PROVE  p \in Waiting(t) /\ At(p, "begin TOTP", "answering") /\ req'[p].got = req[p].got
    <3>1. Stays(p)
      BY <2>3, OutsideRequests DEF New, At, Waiting, Begins
    <3>2. req'[p].tab = req[p].tab
      <4>1. ASSUME NEW u \in Tabs, NEW q \in Reqs,
                   (\E op \in Ops : Begin(u, q, op)) \/ (\E code \in Codes : Submit(u, q, code))
            PROVE  req'[p].tab = req[p].tab
        <5>1. PICK s \in ReqType : Send(q, s) /\ s.step \in {"starting", "checking"}
          <6>1. ASSUME NEW op \in Ops, Begin(u, q, op)
                PROVE  \E s \in ReqType : Send(q, s) /\ s.step \in {"starting", "checking"}
            BY <6>1, BeginSends
          <6>2. ASSUME NEW code \in Codes, Submit(u, q, code)
                PROVE  \E s \in ReqType : Send(q, s) /\ s.step \in {"starting", "checking"}
            BY <6>2, SubmitSends
          <6> QED BY <4>1, <6>1, <6>2
        <5>2. p # q
          BY <2>3, <5>1, Sent DEF At
        <5> QED BY <2>3, <5>1, <5>2, Sent DEF Waiting
      <4>2. CASE \E q \in Reqs : Login(q) \/ \E c \in Challenges, code \in Codes : VerifyChallenge(q, c, code)
        <5>1. PICK q \in Reqs, s \in ReqType : Send(q, s) /\ s.step \in {"challenging", "finding"}
          BY <4>2, SignInSends
        <5>2. p # q
          BY <2>3, <5>1, Sent DEF At
        <5> QED BY <2>3, <5>1, <5>2, Sent DEF Waiting
      <4>3. CASE (\E u \in Tabs : PageStep(u)) \/ Expires \/ UNCHANGED vars
        BY <4>3 DEF PageStep, ProfileLoads, ProfileFails, SetUp, Scan, FinishBackupCodes, Expires, ChallengeExpires,
                    EnrolmentExpires, vars
      <4> QED BY <1>3, <4>1, <4>2, <4>3 DEF Outside
    <3> QED BY <2>3, <3>1, <3>2 DEF Stays, At, Waiting
  <2>4. ASSUME NEW t \in Tabs, Current(t) PROVE Current(t)'
    BY <1>1, <2>2, <2>3, <2>4 DEF Current
  <2> QED BY <2>1, <2>4 DEF QrInv, Superseded
<1> QED BY <1>2, <1>3

(* The QR code on screen is of the stored secret, so that scanning it works,   *)
(* in every tab that did not begin two enrolments at once and whose enrolment  *)
(* no other tab has superseded.                                                *)
THEOREM QrCodeIsCurrent == Spec => []QrCodeCurrent
<1> DEFINE Inv == TypeInv /\ PagesInv /\ QrInv
<1>1. Init => Inv
  BY TypeInit, PagesInit, QrInit
<1>2. Inv /\ [Next]_vars => Inv'
  BY TypeNext, PagesNext, NextOr, QrOutside, QrStatement
<1>3. Inv => QrCodeCurrent
  BY DEF QrInv, Superseded, Current, QrCodeCurrent
<1> QED BY <1>1, <1>2, <1>3, PTL DEF Spec

-----------------------------------------------------------------------------
(* One use for each code *)

(* Of the submissions to a challenge, at most one has passed the first check; *)
(* it has deleted the challenge before it issues the session.                 *)
ChallengeOnce(c) ==
  /\ \A p, q \in Verifying(c) : p = q
  /\ Verifying(c) # {} => sessions[c] = 0
  /\ sessions[c] <= 1

Gone(c) ==
  sessions[c] # 0 \/ (\E q \in Verifying(c) : req[q].step = "issuing") => challenge[c] = "gone"

Spending(n) ==
  {q \in Reqs : req[q].op = "confirm EMAIL" /\ req[q].step \in {"spending", "enabling"} /\ req[q].arg = n}

CodeOnce(n) ==
  /\ \A p, q \in Spending(n) : p = q
  /\ Spending(n) # {} => spent[n] = 0
  /\ spent[n] <= 1

(* A code that completes an enrolment is no longer the stored one, nor is it  *)
(* stored again.                                                              *)
Deleted(n) ==
  spent[n] # 0 \/ (\E q \in Spending(n) : req[q].step = "enabling") => n <= codes /\ n # enrolOtp

UseInv ==
  /\ \A c \in Challenges : Gone(c) /\ (<<"challenge", c>> \in met \/ ChallengeOnce(c))
  /\ \A n \in 1..MaxBegins : Deleted(n) /\ (<<"code", n>> \in met \/ CodeOnce(n))

LEMMA UseInit == Init => UseInv
<1> SUFFICES ASSUME Init PROVE UseInv
  OBVIOUS
<1>1. \A c \in Challenges : Verifying(c) = {} /\ sessions[c] = 0
  BY Idle DEF Init, Verifying
<1>2. \A n \in 1..MaxBegins : Spending(n) = {} /\ spent[n] = 0
  BY Idle DEF Init, Spending
<1> QED BY <1>1, <1>2 DEF UseInv, Gone, ChallengeOnce, Deleted, CodeOnce

LEMMA UseOutside ==
  ASSUME TypeInv, UseInv, Outside
  PROVE  UseInv'
<1>1. /\ UNCHANGED <<codes, spent, sessions, met>> /\ enrolOtp' \in {0, enrolOtp}
      /\ UNCHANGED challenge \/ \E c \in Challenges : /\ challenge[c] \in Methods
                                                      /\ challenge' = [challenge EXCEPT ![c] = "gone"]
  BY OutsideKeeps
<1>2. ASSUME NEW c \in Challenges PROVE challenge[c] = "gone" => challenge'[c] = "gone"
  BY <1>1 DEF TypeInv, TypeOK
<1>3. ASSUME NEW c \in Challenges
      PROVE  /\ Verifying(c)' = Verifying(c)
             /\ \A q \in Verifying(c) : req'[q].step = req[q].step
  BY OutsideRequests, Idle DEF Stays, New, Verifying, Begins, Confirms
<1>4. ASSUME NEW n \in 1..MaxBegins
      PROVE  /\ Spending(n)' = Spending(n)
             /\ \A q \in Spending(n) : req'[q].step = req[q].step
  BY OutsideRequests, Idle DEF Stays, New, Spending, Begins, Confirms
<1>5. ASSUME NEW c \in Challenges PROVE Gone(c)' /\ (<<"challenge", c>> \in met' \/ ChallengeOnce(c)')
  <2>1. Gone(c) /\ (<<"challenge", c>> \in met \/ ChallengeOnce(c))
    BY DEF UseInv
  <2> QED BY <1>1, <1>2, <1>3, <2>1 DEF Gone, ChallengeOnce
<1>6. ASSUME NEW n \in 1..MaxBegins PROVE Deleted(n)' /\ (<<"code", n>> \in met' \/ CodeOnce(n)')
  <2>1. Deleted(n) /\ (<<"code", n>> \in met \/ CodeOnce(n)) /\ n # 0
    BY DEF UseInv
  <2> QED BY <1>1, <1>4, <2>1 DEF Deleted, CodeOnce
<1> QED BY <1>5, <1>6 DEF UseInv

LEMMA ChallengeStatement ==
  ASSUME TypeInv, UseInv, NEW q \in Reqs, Statement(q) \/ Lost(q), NEW c \in Challenges
  PROVE  Gone(c)' /\ (<<"challenge", c>> \in met' \/ ChallengeOnce(c)')
<1> DEFINE r == req[q]
           s == req'[q]
<1>1. /\ \A p \in Reqs \ {q} : req'[p] = req[p]
      /\ (Ends(q) /\ s = NoReq) \/ Goes(q, s)
  BY StatementMoves
<1>2. /\ challenge \in [Challenges -> Methods \cup {"new", "gone"}]
      /\ sessions \in [Challenges -> Nat] /\ InOrder(r) /\ Carries(r, secrets, codes)
      /\ Gone(c) /\ (<<"challenge", c>> \in met \/ ChallengeOnce(c))
  BY DEF TypeInv, TypeOK, Known, UseInv
<1>3. s # NoReq => s.op = r.op
  BY <1>1 DEF Goes, KeepsBody, KeepsArg, Keeps
<1>4. s # NoReq /\ s.op = "verify" => s.arg = r.arg
  BY <1>1, <1>3, StepIs DEF Goes, KeepsBody, KeepsArg, At
<1>5. \A p \in Verifying(c) \ {q} : p \in Verifying(c)' /\ req'[p] = req[p]
  BY <1>1 DEF Verifying
<1>6. \A p \in Verifying(c)' : p = q \/ p \in Verifying(c)
  BY <1>1 DEF Verifying
<1>7. CASE GetChallenge(q) /\ s # NoReq /\ r.arg = c
  <2>1. /\ At(q, "verify", "finding") /\ challenge[c] \in Methods
        /\ met' = IF Verifying(c) # {} THEN met \cup {<<"challenge", c>>} ELSE met
    BY <1>1, <1>7, Idle, StepIs DEF GetChallenge, Goes, At, Done
  <2>2. s.step = "checking"
    BY <1>1, <1>7, <2>1, StepIs DEF Goes, At
  <2>3. challenge' = challenge /\ sessions' = sessions
    BY <1>7 DEF GetChallenge, signInVars
  <2>4. sessions[c] = 0 /\ challenge[c] # "gone" /\ \A p \in Verifying(c) : req[p].step # "issuing"
    BY <1>2, <2>1 DEF Gone, Methods
  <2>5. Gone(c)'
    BY <1>5, <1>6, <2>2, <2>3, <2>4 DEF Gone
  <2>6. CASE Verifying(c) # {}
    BY <2>1, <2>5, <2>6
  <2>7. CASE Verifying(c) = {}
    BY <1>6, <2>3, <2>4, <2>5, <2>7 DEF ChallengeOnce
  <2> QED BY <2>6, <2>7
<1>8. CASE IssueTokens(q) /\ r.arg = c
  <2>1. /\ At(q, "verify", "issuing") /\ sessions' = [sessions EXCEPT ![c] = @ + 1]
        /\ challenge' = challenge /\ met' = met /\ Done(q)
    BY <1>8, Writes DEF IssueTokens
  <2>2. s = NoReq
    BY <2>1 DEF Done, TypeInv, TypeOK
  <2>3. q \in Verifying(c) /\ q \notin Verifying(c)'
    BY <1>8, <2>1, <2>2, Idle DEF Verifying, At
  <2>4. challenge[c] = "gone"
    BY <1>2, <2>1, <2>3 DEF Gone, At
  <2>5. Gone(c)'
    BY <2>1, <2>4 DEF Gone
  <2>6. ASSUME ChallengeOnce(c) PROVE ChallengeOnce(c)'
    <3>1. sessions[c] = 0 /\ Verifying(c)' = {}
      BY <1>6, <2>3, <2>6 DEF ChallengeOnce
    <3>2. sessions'[c] = 1
      BY <1>2, <2>1, <3>1
    <3> QED BY <3>1, <3>2 DEF ChallengeOnce
  <2> QED BY <1>2, <2>1, <2>5, <2>6
<1>9. CASE ~(GetChallenge(q) /\ s # NoReq /\ r.arg = c) /\ ~(IssueTokens(q) /\ r.arg = c)
  <2>1. sessions'[c] = sessions[c]
    <3>1. CASE IssueTokens(q)
      BY <1>2, <1>9, <3>1 DEF IssueTokens
    <3>2. CASE ~IssueTokens(q)
      BY <3>2, Writes
    <3> QED BY <3>1, <3>2
  <2>2. met \subseteq met'
    BY Writes DEF CheckEmail, GetChallenge
  <2>3. \A p \in Verifying(c)' : p \in Verifying(c)
    <3>1. ASSUME q \in Verifying(c)' PROVE q \in Verifying(c)
      <4>1. s # NoReq /\ s.op = "verify" /\ s.arg = c /\ s.step # "finding"
        BY <3>1, Idle DEF Verifying
      <4>2. r.op = "verify" /\ r.arg = c /\ ~GetChallenge(q)
        BY <1>3, <1>4, <1>9, <4>1
      <4>3. r.step # "finding"
        BY <1>1, <4>1, <4>2, StepIs DEF Goes, At
      <4> QED BY <4>2, <4>3 DEF Verifying
    <3> QED BY <1>6, <3>1
  <2>4. <<"challenge", c>> \in met' \/ ChallengeOnce(c)'
    <3>1. ChallengeOnce(c) => ChallengeOnce(c)'
      BY <2>1, <2>3 DEF ChallengeOnce
    <3> QED BY <1>2, <2>2, <3>1
  <2>5. challenge[c] = "gone" => challenge'[c] = "gone"
    <3>1. CASE CreateChallenge(q)
      <4>1. PICK d \in Challenges : challenge[d] = "new" /\ challenge' = [challenge EXCEPT ![d] = r.method]
        BY <3>1 DEF CreateChallenge
      <4> QED BY <1>2, <4>1
    <3>2. CASE ConsumeChallenge(q)
      BY <1>2, <3>2 DEF ConsumeChallenge, ChallengeDeleted
    <3>3. CASE ~CreateChallenge(q) /\ ~ConsumeChallenge(q)
      BY <3>3, Writes
    <3> QED BY <3>1, <3>2, <3>3
  <2>6. ASSUME q \in Verifying(c)', s.step = "issuing" PROVE challenge'[c] = "gone"
    <3>1. s # NoReq /\ s.op = "verify" /\ s.arg = c
      BY <2>6, Idle DEF Verifying
    <3>2. ConsumeChallenge(q) /\ r.arg = c
      BY <1>1, <1>3, <1>4, <2>6, <3>1, StepIs DEF Goes, At
    <3> QED BY <1>2, <3>2 DEF ConsumeChallenge, ChallengeDeleted
  <2>7. Gone(c)'
    BY <1>2, <1>5, <2>1, <2>3, <2>5, <2>6 DEF Gone
  <2> QED BY <2>4, <2>7
<1> QED BY <1>7, <1>8, <1>9

LEMMA CodeStatement ==
  ASSUME TypeInv, UseInv, NEW q \in Reqs, Statement(q) \/ Lost(q), NEW n \in 1..MaxBegins
  PROVE  Deleted(n)' /\ (<<"code", n>> \in met' \/ CodeOnce(n)')
<1> DEFINE r == req[q]
           s == req'[q]
<1>1. /\ \A p \in Reqs \ {q} : req'[p] = req[p]
      /\ (Ends(q) /\ s = NoReq) \/ Goes(q, s)
  BY StatementMoves
<1>2. /\ spent \in [1..MaxBegins -> Nat] /\ InOrder(r) /\ Carries(r, secrets, codes)
      /\ Deleted(n) /\ (<<"code", n>> \in met \/ CodeOnce(n))
  BY DEF TypeInv, TypeOK, Known, UseInv
<1>3. s # NoReq => s.op = r.op
  BY <1>1 DEF Goes, KeepsBody, KeepsArg, Keeps
<1>4. s # NoReq /\ s.op = "confirm EMAIL" => s.arg = r.arg
  BY <1>1, <1>3, StepIs DEF Goes, KeepsBody, KeepsArg, At
<1>5. \A p \in Spending(n) \ {q} : p \in Spending(n)' /\ req'[p] = req[p]
  BY <1>1 DEF Spending
<1>6. \A p \in Spending(n)' : p = q \/ p \in Spending(n)
  BY <1>1 DEF Spending
<1>7. codes \in Nat /\ codes' \in {codes, codes + 1} /\ n \in Nat /\ n # 0
  <2>1. codes \in Nat /\ codes' = IF StartEmail(q) THEN codes + 1 ELSE codes
    BY CountersGrow
  <2> QED BY <2>1, MfaAssumption
<1>8. ASSUME n <= codes, n # enrolOtp PROVE n <= codes' /\ n # enrolOtp'
  <2>1. enrolOtp' \in {0, enrolOtp} \/ (enrolOtp' = codes' /\ codes' = codes + 1)
    BY Writes DEF StartEmail, SpendEmail
  <2> QED BY <1>7, <1>8, <2>1
<1>9. CASE CheckEmail(q) /\ s # NoReq /\ r.arg = n
  <2>1. /\ At(q, "confirm EMAIL", "checking") /\ n = enrolOtp
        /\ met' = IF \E p \in Reqs : At(p, "confirm EMAIL", "spending")
                    THEN met \cup {<<"code", n>>} ELSE met
    BY <1>1, <1>9, Idle, StepIs DEF CheckEmail, Goes, At, Done, Refused, Matches
  <2>2. s.step = "spending"
    BY <1>1, <1>9, <2>1, StepIs DEF Goes, At
  <2>3. spent' = spent /\ codes' = codes /\ enrolOtp' = enrolOtp
    BY <1>9 DEF CheckEmail, emailVars
  <2>4. spent[n] = 0 /\ \A p \in Spending(n) : req[p].step # "enabling"
    BY <1>2, <2>1 DEF Deleted
  <2>5. Deleted(n)'
    BY <1>5, <1>6, <2>2, <2>3, <2>4 DEF Deleted
  <2>6. CASE \E p \in Reqs : At(p, "confirm EMAIL", "spending")
    BY <2>1, <2>5, <2>6
  <2>7. CASE ~\E p \in Reqs : At(p, "confirm EMAIL", "spending")
    <3>1. Spending(n) = {}
      BY <2>4, <2>7 DEF Spending, At
    <3> QED BY <1>6, <2>3, <2>4, <2>5, <3>1 DEF CodeOnce
  <2> QED BY <2>6, <2>7
<1>10. CASE Enable(q) /\ r.op = "confirm EMAIL" /\ r.arg = n
  <2>1. /\ r.step = "enabling" /\ spent' = [spent EXCEPT ![n] = @ + 1]
        /\ codes' = codes /\ enrolOtp' = enrolOtp /\ met' = met
    BY <1>10 DEF Enable, emailVars
  <2>2. s = NoReq \/ s.step = "answering"
    BY <1>1, <1>10, <2>1, StepIs DEF Goes, At
  <2>3. q \in Spending(n) /\ q \notin Spending(n)'
    BY <1>10, <2>1, <2>2, Idle DEF Spending
  <2>4. n <= codes /\ n # enrolOtp
    BY <1>2, <2>1, <2>3 DEF Deleted
  <2>5. Deleted(n)'
    BY <2>1, <2>4 DEF Deleted
  <2>6. ASSUME CodeOnce(n) PROVE CodeOnce(n)'
    <3>1. spent[n] = 0 /\ Spending(n)' = {}
      BY <1>6, <2>3, <2>6 DEF CodeOnce
    <3>2. spent'[n] = 1
      BY <1>2, <2>1, <3>1
    <3> QED BY <3>1, <3>2 DEF CodeOnce
  <2> QED BY <1>2, <2>1, <2>5, <2>6
<1>11. CASE ~(CheckEmail(q) /\ s # NoReq /\ r.arg = n) /\ ~(Enable(q) /\ r.op = "confirm EMAIL" /\ r.arg = n)
  <2>1. spent'[n] = spent[n]
    <3>1. CASE Enable(q)
      BY <1>2, <1>11, <3>1 DEF Enable
    <3>2. CASE ~Enable(q)
      BY <3>2, Writes
    <3> QED BY <3>1, <3>2
  <2>2. met \subseteq met'
    BY Writes DEF CheckEmail, GetChallenge
  <2>3. \A p \in Spending(n)' : p \in Spending(n)
    <3>1. ASSUME q \in Spending(n)' PROVE q \in Spending(n)
      <4>1. s # NoReq /\ s.op = "confirm EMAIL" /\ s.arg = n /\ s.step \in {"spending", "enabling"}
        BY <3>1, Idle DEF Spending
      <4>2. r.op = "confirm EMAIL" /\ r.arg = n /\ ~CheckEmail(q)
        BY <1>3, <1>4, <1>11, <4>1
      <4>3. r.step \in {"spending", "enabling"}
        BY <1>1, <4>1, <4>2, StepIs DEF Goes, At
      <4> QED BY <4>2, <4>3 DEF Spending
    <3> QED BY <1>6, <3>1
  <2>4. <<"code", n>> \in met' \/ CodeOnce(n)'
    <3>1. CodeOnce(n) => CodeOnce(n)'
      BY <2>1, <2>3 DEF CodeOnce
    <3> QED BY <1>2, <2>2, <3>1
  <2>5. ASSUME q \in Spending(n)', s.step = "enabling" PROVE n <= codes' /\ n # enrolOtp'
    <3>1. s # NoReq /\ s.op = "confirm EMAIL" /\ s.arg = n
      BY <2>5, Idle DEF Spending
    <3>2. SpendEmail(q) /\ r.arg = n
      BY <1>1, <1>3, <1>4, <2>5, <3>1, StepIs DEF Goes, At
    <3>3. At(q, "confirm EMAIL", "spending") /\ enrolOtp' = 0 /\ codes' = codes
      BY <3>2 DEF SpendEmail
    <3>4. n \in 0..codes
      <4>1. r.arg \in 0..codes
        BY <1>2, <3>3 DEF Carries, At
      <4> QED BY <3>2, <4>1
    <3>5. n <= codes
      BY <1>7, <3>4
    <3> QED BY <1>7, <3>3, <3>5, Zenon
  <2>6. Deleted(n)'
    BY <1>2, <1>5, <1>8, <2>1, <2>3, <2>5 DEF Deleted
  <2> QED BY <2>4, <2>6
<1> QED BY <1>9, <1>10, <1>11

(* One use for each code: a challenge issues at most one session and an        *)
(* emailed code completes at most one enrolment, whatever is lost, duplicated  *)
(* or expires, unless two submissions both passed the check before either      *)
(* deleted the key.                                                            *)
THEOREM CodesUsedOnce == Spec => []OneUse
<1> DEFINE Inv == TypeInv /\ UseInv
<1>1. Init => Inv
  BY TypeInit, UseInit
<1>2. Inv /\ [Next]_vars => Inv'
  <2> SUFFICES ASSUME Inv, [Next]_vars PROVE UseInv'
    BY TypeNext
  <2>1. CASE Outside
    BY <2>1, UseOutside
  <2>2. ASSUME NEW q \in Reqs, Statement(q) \/ Lost(q) PROVE UseInv'
    BY <2>2, ChallengeStatement, CodeStatement DEF UseInv
  <2> QED BY <2>1, <2>2, NextOr
<1>3. Inv => OneUse
  BY DEF UseInv, ChallengeOnce, CodeOnce, OneUse
<1> QED BY <1>1, <1>2, <1>3, PTL DEF Spec
================================================================================
