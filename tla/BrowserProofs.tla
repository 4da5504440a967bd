----------------------------- MODULE BrowserProofs -----------------------------
(***************************************************************************)
(* The pages of the browser: who is let in (BrowserSession), and what is   *)
(* shown of the orders and holdings of the account and has been sent about *)
(* them (OrderTicket, OrdersPage, OrderLots, OptionsBook).                 *)
(*                                                                         *)
(* The session is for every set of accounts, everything the backend may    *)
(* answer and any number of presses and page loads.                        *)
(*                                                                         *)
(* A delivery sale on its way to the server is covered there, for any      *)
(* symbols, quantities and number of orders.  The panel checks a sale      *)
(* against the holdings it shows, and the server sells from those it has.  *)
(* The two are related only through what an answer says and when it lands, *)
(* so the invariant is that they agree unless the order under way has been *)
(* executed and waits for its refresh (PanelCounts); that a sale was       *)
(* covered when it was confirmed then stays true (SaleCovered), because    *)
(* whatever else sells is remembered.                                      *)
(*                                                                         *)
(* A row that the orders page shows as cancelled is cancelled or has its   *)
(* request under way, for every set of orders, every view and any number   *)
(* of cancellations under way.                                             *)
(*                                                                         *)
(* The profit that page derives closes the oldest lots first.  Before each *)
(* order, as many shares of either side as there are of both have met, and *)
(* the open lots are the shares beyond them, in their order (Balanced): an *)
(* order takes the next shares of the other side, and what is left of it   *)
(* follows its own.  So what has been realised is what the k-th share sold *)
(* brings against the k-th bought, for any orders in any number.           *)
(***************************************************************************)
EXTENDS BrowserSession, OrderTicket, OrdersPage, OrderLots, OptionsBook, SumTheorems,
        SequenceTheorems, TLAPS
-----------------------------------------------------------------------------
(* The session *)

\* A user of the store, whatever the phone dialog has written into its profile.
Holders == [who : People, profile : ProfileShape]
Stored == [user : Holders \cup {Nobody}, token : People \cup {Nobody}, intent : Intents,
           onboarded : BOOLEAN, mode : {"none", "demo", "live"}]

Shaped ==
  /\ fbUser \in People \cup {Nobody}
  /\ mail \in [People \ Google -> {"none", "unverified", "verified"}]
  /\ user \in Holders \cup {Nobody} /\ phoneModal \in Holders \cup {Nobody}
  /\ storage \in Stored /\ tasks \subseteq Task

\* A page load takes its user from localStorage.
StoredVerified == storage.user # Nobody => Verified(storage.user.who)

\* Whoever waits for a profile, or is about to ask for one after a new link was refused,
\* has been found verified when the request was made.
AsksProfile(t) == t.at = "sync" \/ (t.by = "resend" /\ t.at = "again")
AskedVerified == \A t \in tasks : AsksProfile(t) /\ t.who \in People => Verified(t.who)

Out == UnverifiedStaysOut /\ StoredVerified /\ AskedVerified
SessionInv == Shaped /\ Out

USE DEF AsksProfile

LEMMA SessionInitInv == SessionInit => SessionInv
BY DEF SessionInit, SessionInv, Shaped, Out, UnverifiedStaysOut, StoredVerified, AskedVerified,
       Stored, Intents

\* A step that verifies nobody anew: the user and the stored one are as before or gone,
\* and every request is an old one or of a verified account.
LEMMA KeptOut ==
  ASSUME SessionInv, UNCHANGED mail, user' \in {user, Nobody, storage.user},
         storage'.user \in {storage.user, Nobody},
         \A t \in tasks' : AsksProfile(t) => t \in tasks \/ Verified(t.who)
  PROVE  Out'
<1>1. \A w : Verified(w)' <=> Verified(w)
  BY DEF Verified
<1>2. UnverifiedStaysOut' /\ StoredVerified'
  BY <1>1 DEF SessionInv, Out, UnverifiedStaysOut, StoredVerified
<1>3. AskedVerified'
  BY <1>1 DEF SessionInv, Out, AskedVerified
<1> QED
  BY <1>2, <1>3 DEF Out

LEMMA SignedOutShape ==
  ASSUME NEW st \in Stored
  PROVE  SignedOut(st) \in Stored /\ SignedOut(st).user = Nobody
BY DEF SignedOut, Stored

LEMMA NewTask ==
  ASSUME NEW h \in Handlers, NEW w \in People \cup {Nobody}, NEW i \in Intents,
         NEW a \in {"sync", "clear", "refuse", "popup", "mail", "again", "post"}
  PROVE  [by |-> h, who |-> w, intent |-> i, at |-> a] \in Task
BY DEF Task

LEMMA TaskMoved ==
  ASSUME NEW t \in Task,
         NEW a \in {"sync", "clear", "refuse", "popup", "mail", "again", "post"}
  PROVE  /\ [t EXCEPT !.at = a] \in Task
         /\ [t EXCEPT !.at = a].at = a /\ [t EXCEPT !.at = a].by = t.by
         /\ [t EXCEPT !.at = a].who = t.who
BY DEF Task
-----------------------------------------------------------------------------
LEMMA NoticeInv == ASSUME SessionInv, Notice PROVE SessionInv'
<1> USE DEF SessionInv, Heard
<1>1. CASE HearNobody
  <2>1. Shaped'
    BY <1>1, SignedOutShape DEF HearNobody, Shaped
  <2> QED
    BY <1>1, <2>1, KeptOut, SignedOutShape DEF HearNobody, Shaped
<1>2. CASE HearUnverified
  <2> DEFINE t == [by |-> "listener", who |-> fbUser, intent |-> "none", at |-> "refuse"]
  <2>1. t \in Task /\ ~ AsksProfile(t)
    BY NewTask DEF Shaped, Handlers, Intents
  <2> HIDE DEF t
  <2>2. /\ tasks' = tasks \cup {t}
        /\ UNCHANGED <<fbUser, mail, user, storage, phoneModal>>
    BY <1>2 DEF HearUnverified, t
  <2> QED
    BY <2>1, <2>2, KeptOut DEF Shaped
<1>3. CASE HearVerified
  <2> DEFINE i == IF storage.intent = "register" THEN "register" ELSE "login"
             t == [by |-> "listener", who |-> fbUser, at |-> "sync", intent |-> i]
  <2>1. t \in Task /\ t.who \in People /\ Verified(t.who)
    BY <1>3 DEF HearVerified, Shaped, Handlers, Intents, Task
  <2>2. tasks' = tasks \cup {t} /\ storage' = [storage EXCEPT !.token = fbUser]
        /\ UNCHANGED <<fbUser, mail, user, phoneModal>>
    BY <1>3 DEF HearVerified, StartSync
  <2> HIDE DEF t
  <2>3. storage' \in Stored /\ storage'.user = storage.user
    BY <2>2 DEF Shaped, Stored
  <2> QED
    BY <2>1, <2>2, <2>3, KeptOut DEF Shaped
<1> QED
  BY <1>1, <1>2, <1>3 DEF Notice

LEMMA RouteInv ==
  ASSUME SessionInv, Redirect \/ (\E p \in Pages : Visit(p) \/ Load(p))
  PROVE  SessionInv'
<1> USE DEF SessionInv
<1>1. CASE Redirect
  <2>1. storage' \in Stored /\ storage'.user = storage.user
    BY <1>1 DEF Redirect, Shaped, Stored
  <2> QED
    BY <1>1, <2>1, KeptOut DEF Redirect, Shaped
<1>2. ASSUME NEW p \in Pages, Visit(p) PROVE SessionInv'
  BY <1>2, KeptOut DEF Visit, Shaped
<1>3. ASSUME NEW p \in Pages, Load(p) PROVE SessionInv'
  <2>1. storage.user \in Holders \cup {Nobody}
    BY DEF Shaped, Stored
  <2> QED
    BY <1>3, <2>1, KeptOut DEF Load, Loaded, Shaped
<1> QED
  BY <1>1, <1>2, <1>3

-----------------------------------------------------------------------------
\* The answer of a sync is of a verified account: nothing unverified asked for it.
LEMMA AnswerInv == ASSUME SessionInv, Answer PROVE SessionInv'
<1> USE DEF SessionInv
<1>1. ASSUME NEW w \in People, NEW i \in Intents, NEW p \in Profiles, SyncAnswered(w, i, p)
      PROVE  SessionInv'
  <2> DEFINE u == [who |-> w, profile |-> p]
             T == Waiting(w, i)
  <2>1. PICK t \in tasks : t.at = "sync" /\ t.who = w
    BY <1>1 DEF SyncAnswered, Waiting
  <2>2. Verified(w) /\ u \in Holders /\ u.who = w
    BY <2>1, ProfileAssumption DEF Out, AskedVerified, Holders
  <2>3. /\ tasks' = tasks \ T /\ user' = u
        /\ \E adminIntent \in BOOLEAN : Welcome(T, u, adminIntent)
        /\ UNCHANGED <<fbUser, mail>>
    BY <1>1 DEF SyncAnswered
  <2>4. PICK adminIntent \in BOOLEAN : Welcome(T, u, adminIntent)
    BY <2>3
  <2> HIDE DEF u, T
  <2>5. phoneModal' \in Holders \cup {Nobody}
    BY <2>2, <2>4 DEF Welcome, Shaped
  <2>6. storage' \in Stored /\ storage'.user = u
    <3> DEFINE intent == IF \E k \in T : k.by \in {"listener", "google"} THEN "none" ELSE storage.intent
               stored == [storage EXCEPT !.user = u, !.intent = intent]
    <3>1. intent \in Intents
      BY DEF Shaped, Stored, Intents
    <3> HIDE DEF intent
    <3>2. stored \in Stored /\ stored.user = u
      BY <2>2, <3>1 DEF Shaped, Stored
    <3>3. storage' \in {stored, [stored EXCEPT !.onboarded = TRUE, !.mode = "demo"]}
      BY <2>4 DEF Welcome, intent
    <3> HIDE DEF stored
    <3> QED
      BY <3>2, <3>3 DEF Stored
  <2>7. \A x : Verified(x)' <=> Verified(x)
    BY <2>3 DEF Verified
  <2>8. Out'
    BY <2>2, <2>3, <2>6, <2>7 DEF Out, UnverifiedStaysOut, StoredVerified, AskedVerified
  <2> QED
    BY <2>2, <2>3, <2>5, <2>6, <2>8 DEF Shaped, u, T
<1>2. ASSUME NEW w \in People, NEW i \in Intents, NEW code \in {401, 404, 500}, SyncFailed(w, i, code)
      PROVE  SessionInv'
  <2>1. \A t \in tasks' : t \in tasks \/ (t \in Task /\ ~ AsksProfile(t))
    <3> SUFFICES ASSUME NEW t \in tasks', t \notin tasks PROVE t \in Task /\ ~ AsksProfile(t)
      OBVIOUS
    <3>1. PICK s \in tasks : t = [s EXCEPT !.at = "clear"]
      BY <1>2 DEF SyncFailed, Waiting
    <3>2. s \in Task
      BY <3>1 DEF Shaped
    <3>3. [s EXCEPT !.at = "clear"] \in Task /\ [s EXCEPT !.at = "clear"].at = "clear"
      BY <3>2, TaskMoved
    <3> QED
      BY <3>1, <3>3
  <2>2. storage' \in Stored /\ storage'.user = storage.user
    BY <1>2 DEF SyncFailed, Shaped, Stored, Intents
  <2> QED
    BY <1>2, <2>1, <2>2, KeptOut DEF SyncFailed, Shaped
<1> QED
  BY <1>1, <1>2 DEF Answer

-----------------------------------------------------------------------------
\* The tasks that go on: what they leave behind is signed out, or was verified when
\* the task was begun.
LEMMA ResumeInv == ASSUME SessionInv, NEW t \in tasks PROVE
  /\ RefuseUnverified(t) \/ ClearInvalidSession(t) \/ LoggedOut(t) \/ Registered(t) => SessionInv'
  /\ EmailRefused(t) \/ EmailAgain(t) \/ PopupClosed(t) \/ PhoneRefused(t) \/ CheckRefused(t) => SessionInv'
  /\ Resent(t) \/ ResendSignsIn(t) => SessionInv'
  /\ \A w \in People : PopupAnswered(t, w) => SessionInv'
  /\ PhoneSaved(t) => SessionInv'
<1> USE DEF SessionInv
<1>t. t \in Task /\ t.who \in People \cup {Nobody}
  BY DEF Shaped, Task
<1>1. ASSUME RefuseUnverified(t) \/ ClearInvalidSession(t) \/ LoggedOut(t) \/ Registered(t)
      PROVE  SessionInv'
  <2>1. /\ tasks' = tasks \ {t} /\ mail' = mail
        /\ fbUser' \in {fbUser, Nobody} /\ user' \in {user, Nobody}
        /\ phoneModal' \in {phoneModal, Nobody}
    BY <1>1 DEF RefuseUnverified, ClearInvalidSession, LoggedOut, Registered
  <2>2. SignedOut(storage) \in Stored /\ SignedOut(storage).user = Nobody
    BY SignedOutShape DEF Shaped
  <2>3. storage' \in {storage, SignedOut(storage), [SignedOut(storage) EXCEPT !.onboarded = FALSE]}
    BY <1>1 DEF RefuseUnverified, ClearInvalidSession, LoggedOut, Registered
  <2>4. storage' \in Stored /\ storage'.user \in {storage.user, Nobody}
    <3>1. \A st \in Stored : /\ [st EXCEPT !.onboarded = FALSE] \in Stored
                            /\ [st EXCEPT !.onboarded = FALSE].user = st.user
      BY DEF Stored
    <3>2. storage \in Stored
      BY DEF Shaped
    <3> QED
      BY <2>2, <2>3, <3>1, <3>2
  <2> QED
    BY <2>1, <2>4, KeptOut DEF Shaped
<1>2. ASSUME EmailRefused(t) \/ EmailAgain(t) \/ PopupClosed(t) \/ PhoneRefused(t) \/ CheckRefused(t)
      PROVE  SessionInv'
  <2> DEFINE m == [t EXCEPT !.at = "mail"]
             a == [t EXCEPT !.at = "again"]
  <2>1. m \in Task /\ ~ AsksProfile(m) /\ a \in Task /\ (t.by = "email" => ~ AsksProfile(a))
    BY <1>t, TaskMoved
  <2> HIDE DEF m, a
  <2>2. \A x \in tasks' : x \in tasks \/ (x \in Task /\ ~ AsksProfile(x))
    BY <1>2, <2>1 DEF EmailRefused, EmailAgain, PopupClosed, PhoneRefused, CheckRefused, m, a
  <2>3. /\ UNCHANGED <<mail, user, storage>> /\ fbUser' \in {fbUser, Nobody, t.who}
        /\ phoneModal' \in {phoneModal, Nobody}
    BY <1>2 DEF EmailRefused, EmailAgain, PopupClosed, PhoneRefused, CheckRefused
  <2> QED
    BY <1>t, <2>2, <2>3, KeptOut DEF Shaped
<1>3. ASSUME Resent(t) \/ ResendSignsIn(t) PROVE SessionInv'
  <2> DEFINE a == [t EXCEPT !.at = "again"]
             s == [t EXCEPT !.at = "sync"]
  <2>1. /\ a \in Task /\ a.who = t.who /\ s \in Task /\ s.who = t.who
    BY <1>t, TaskMoved
  <2> HIDE DEF a, s
  <2>2. \A x \in tasks' : x \in tasks \/ (x \in {a, s} /\ (t.who \in People => Verified(t.who)))
    BY <1>3 DEF Resent, ResendSignsIn, Out, AskedVerified, a, s
  <2>3. \A w : Verified(w)' <=> Verified(w)
    BY <1>3 DEF Resent, ResendSignsIn, Verified
  <2>4. storage' \in Stored /\ storage'.user = storage.user
    BY <1>t, <1>3 DEF Resent, ResendSignsIn, Shaped, Stored
  <2>5. /\ UNCHANGED <<mail, user, phoneModal>> /\ fbUser' \in {Nobody, t.who}
    BY <1>3 DEF Resent, ResendSignsIn
  <2>6. AskedVerified'
    BY <2>1, <2>2, <2>3 DEF Out, AskedVerified
  <2>7. Out'
    BY <2>3, <2>4, <2>5, <2>6 DEF Out, UnverifiedStaysOut, StoredVerified
  <2> QED
    BY <1>t, <2>1, <2>2, <2>4, <2>5, <2>7 DEF Shaped
<1>4. ASSUME NEW w \in People, PopupAnswered(t, w) PROVE SessionInv'
  <2> DEFINE s == [t EXCEPT !.who = w, !.at = "sync"]
  <2>1. s \in Task /\ s.who = w /\ Verified(w)
    BY <1>t, <1>4 DEF PopupAnswered, Verified, Task
  <2>2. storage' \in Stored /\ storage'.user = storage.user
    BY <1>4 DEF PopupAnswered, Shaped, Stored
  <2>3. /\ tasks' = (tasks \ {t}) \cup {s} /\ fbUser' = w
        /\ UNCHANGED <<mail, user, phoneModal>>
    BY <1>4 DEF PopupAnswered
  <2> HIDE DEF s
  <2> QED
    BY <2>1, <2>2, <2>3, KeptOut DEF Shaped
<1>5. ASSUME PhoneSaved(t) PROVE SessionInv'
  <2>1. user # Nobody => user' \in Holders /\ user'.who = user.who
    BY <1>5 DEF PhoneSaved, Shaped, Holders, ProfileShape
  <2>2. user = Nobody => user' = Nobody
    BY <1>5 DEF PhoneSaved
  <2> DEFINE stored == IF user = Nobody THEN storage ELSE [storage EXCEPT !.user = user']
  <2>3. stored \in Stored /\ stored.user \in {storage.user, user'}
    BY <2>1 DEF Shaped, Stored
  <2>4. storage' \in {stored, [stored EXCEPT !.onboarded = TRUE, !.mode = "demo"]}
    BY <1>5 DEF PhoneSaved
  <2> HIDE DEF stored
  <2>5. storage' \in Stored /\ storage'.user \in {storage.user, user'}
    BY <2>3, <2>4 DEF Stored
  <2>6. /\ tasks' = tasks \ {t} /\ phoneModal' = Nobody /\ UNCHANGED <<fbUser, mail>>
    BY <1>5 DEF PhoneSaved
  <2>7. \A w : Verified(w)' <=> Verified(w)
    BY <2>6 DEF Verified
  <2>8. Out'
    BY <2>1, <2>2, <2>5, <2>6, <2>7 DEF Out, UnverifiedStaysOut, StoredVerified, AskedVerified
  <2> QED
    BY <2>1, <2>2, <2>5, <2>6, <2>8 DEF Shaped
<1> QED
  BY <1>1, <1>2, <1>3, <1>4, <1>5
-----------------------------------------------------------------------------
\* Sign-ins of a page: only that of a verified account asks for a profile.
LEMMA SignInInv ==
  ASSUME SessionInv, NEW h \in Handlers, NEW w \in People, h # "resend", SignInWith(h, w, "refuse")
  PROVE  SessionInv'
<1> USE DEF SessionInv
<1> DEFINE s == [by |-> h, who |-> w, intent |-> "none", at |-> "sync"]
           r == [by |-> h, who |-> w, intent |-> "none", at |-> "refuse"]
<1>1. s \in Task /\ s.who = w /\ r \in Task /\ ~ AsksProfile(r)
  BY NewTask DEF Intents
<1>2. /\ fbUser' = w /\ UNCHANGED <<mail, user, phoneModal>>
      /\ \/ Verified(w) /\ tasks' = tasks \cup {s} /\ storage' = [storage EXCEPT !.token = w]
         \/ tasks' = tasks \cup {r} /\ storage' = storage
  BY DEF SignInWith, StartSync
<1> HIDE DEF s, r
<1>3. storage' \in Stored /\ storage'.user = storage.user
  BY <1>2 DEF Shaped, Stored
<1> QED
  BY <1>1, <1>2, <1>3, KeptOut DEF Shaped

\* A mail is verified once and for all, and a new account has none.
LEMMA MailInv ==
  ASSUME SessionInv, NEW w \in People \ Google, RegisterWithEmail(w) \/ VerifyMail(w)
  PROVE  SessionInv'
<1> USE DEF SessionInv
<1> DEFINE r == [by |-> "register", who |-> w, intent |-> "none", at |-> "mail"]
<1>1. r \in Task /\ ~ AsksProfile(r)
  BY NewTask DEF Handlers, Intents
<1> HIDE DEF r
<1>2. /\ tasks' \in {tasks, tasks \cup {r}} /\ fbUser' \in {fbUser, w}
      /\ UNCHANGED <<user, storage, phoneModal>>
  BY DEF RegisterWithEmail, VerifyMail, r
<1>3. /\ mail' \in [People \ Google -> {"none", "unverified", "verified"}]
      /\ \A x \in People \ Google : mail[x] = "verified" => mail'[x] = "verified"
  BY DEF RegisterWithEmail, VerifyMail, Shaped
<1>4. \A x \in People : Verified(x) => Verified(x)'
  BY <1>3 DEF Verified
<1>5. \A h \in Holders : h.who \in People
  BY DEF Holders
<1>6. storage.user \in Holders \cup {Nobody}
  BY DEF Shaped, Stored
<1>7. Out'
  BY <1>1, <1>2, <1>4, <1>5, <1>6 DEF Shaped, Out, UnverifiedStaysOut, StoredVerified, AskedVerified
<1> QED
  BY <1>1, <1>2, <1>3, <1>7 DEF Shaped

LEMMA ButtonInv == ASSUME SessionInv, Button PROVE SessionInv'
<1> USE DEF SessionInv
<1>1. ASSUME NEW w \in People \ Google, LoginWithEmail(w) \/ CheckVerification(w) PROVE SessionInv'
  BY <1>1, SignInInv DEF LoginWithEmail, CheckVerification, Handlers
<1>2. ASSUME NEW w \in People \ Google, ResendVerification(w) PROVE SessionInv'
  <2> DEFINE r == [by |-> "resend", who |-> w, intent |-> "none", at |-> "mail"]
  <2>1. r \in Task /\ ~ AsksProfile(r)
    BY NewTask DEF Handlers, Intents
  <2> HIDE DEF r
  <2>2. /\ tasks' = tasks \cup {r} /\ fbUser' = w /\ UNCHANGED <<mail, user, storage, phoneModal>>
    BY <1>2 DEF ResendVerification, r
  <2> QED
    BY <2>1, <2>2, KeptOut DEF Shaped
<1>3. ASSUME NEW i \in {"login", "register"}, LoginWithGoogle(i) PROVE SessionInv'
  <2> DEFINE r == [by |-> "google", who |-> Nobody, intent |-> i, at |-> "popup"]
  <2>1. r \in Task /\ ~ AsksProfile(r)
    BY NewTask DEF Handlers, Intents
  <2> HIDE DEF r
  <2>2. /\ tasks' = tasks \cup {r} /\ fbUser' = Nobody /\ UNCHANGED <<mail, user, phoneModal>>
    BY <1>3 DEF LoginWithGoogle, r
  <2>3. storage' \in Stored /\ storage'.user = storage.user
    BY <1>3 DEF LoginWithGoogle, Shaped, Stored, Intents
  <2> QED
    BY <2>1, <2>2, <2>3, KeptOut DEF Shaped
<1>4. CASE SubmitPhone \/ Logout
  <2>1. PICK h \in {"phone", "logout"}, w \in People :
          tasks' = tasks \cup {[by |-> h, who |-> w, intent |-> "none", at |-> "post"]}
    BY <1>4 DEF SubmitPhone, Logout, Shaped, Holders
  <2> DEFINE r == [by |-> h, who |-> w, intent |-> "none", at |-> "post"]
  <2>2. r \in Task /\ ~ AsksProfile(r) /\ tasks' = tasks \cup {r}
    BY <2>1, NewTask DEF Handlers, Intents
  <2> HIDE DEF r
  <2>3. UNCHANGED <<fbUser, mail, user, storage, phoneModal>>
    BY <1>4 DEF SubmitPhone, Logout
  <2> QED
    BY <2>2, <2>3, KeptOut DEF Shaped
<1>5. CASE ConnectBroker \/ ClearCache
  <2>1. storage' \in Stored /\ storage'.user = storage.user
    BY <1>5 DEF ConnectBroker, ClearCache, Shaped, Stored, Intents
  <2>2. UNCHANGED <<fbUser, mail, user, tasks, phoneModal>>
    BY <1>5 DEF ConnectBroker, ClearCache
  <2> QED
    BY <2>1, <2>2, KeptOut DEF Shaped
<1> QED
  BY <1>1, <1>2, <1>3, <1>4, <1>5, MailInv DEF Button

LEMMA ForceLogoutInv == ASSUME SessionInv, ForceLogout PROVE SessionInv'
<1> USE DEF SessionInv
<1>1. storage' \in Stored /\ storage'.user = Nobody
  BY SignedOutShape DEF ForceLogout, Shaped
<1>2. /\ fbUser' = Nobody /\ mail' = mail /\ user' \in {user, Nobody} /\ tasks' \subseteq tasks
      /\ phoneModal' \in {phoneModal, Nobody}
  BY <1>1 DEF ForceLogout, Loaded
<1> QED
  BY <1>1, <1>2, KeptOut DEF Shaped

LEMMA SessionNextInv == SessionInv /\ [SessionNext]_sessionVars => SessionInv'
<1> SUFFICES ASSUME SessionInv, [SessionNext]_sessionVars PROVE SessionInv'
  OBVIOUS
<1>1. ASSUME NEW w \in People, VerifyMail(w) PROVE SessionInv'
  BY <1>1, MailInv DEF VerifyMail
<1>2. CASE Resume
  BY <1>2, ResumeInv DEF Resume
<1>3. CASE UNCHANGED sessionVars
  BY <1>3, KeptOut DEF SessionInv, Shaped, sessionVars
<1> QED
  BY <1>1, <1>2, <1>3, NoticeInv, RouteInv, AnswerInv, ButtonInv, ForceLogoutInv DEF SessionNext

\* Whatever the listener overtakes, whichever pages are loaded and whatever the backend
\* answers, an account whose mail is not verified is never the application's user
\* (useAuthStore.js:110-301, LoginPage.jsx, VerifyEmailPage.jsx).
THEOREM UnverifiedNeverIn == SessionSpec => []UnverifiedStaysOut
<1>1. SessionInv => UnverifiedStaysOut
  BY DEF SessionInv, Out
<1> QED
  BY <1>1, SessionInitInv, SessionNextInv, PTL DEF SessionSpec
-----------------------------------------------------------------------------
(***************************************************************************)
(* Redirects.  A profile that the page of the account lets in is one that  *)
(* the guard of the application lets in, so these two do not send the      *)
(* browser to each other; and only they send it away from a page they sent *)
(* it to.                                                                  *)
(***************************************************************************)
LEMMA StatusPageAgrees ==
  ASSUME NEW p \in ProfileShape, OpenToStatusPage(p)
  PROVE  OpenToGuard(p)
BY DEF OpenToStatusPage, OpenToGuard

\* Where each page's guard may lead, and when it leads back.
LEMMA GuardsLead ==
  ASSUME Shaped
  PROVE  /\ AppTarget \in {"app", "login", "account", "selectBroker"}
         /\ AccountTarget \in {"account", "login", "app"}
         /\ AccountTarget = "app" => AppTarget # "account" /\ AppTarget # "login"
         /\ AppTarget = "selectBroker" => ~Spinner /\ (user # Nobody \/ CachedUser)
         /\ AppTarget = "account" => AccountTarget = "account"
<1>1. user # Nobody => (OpenToStatusPage(user.profile) => OpenToGuard(user.profile))
  BY StatusPageAgrees DEF Shaped, Holders
<1>2. CachedUser => ~Spinner /\ user = Nobody
  BY DEF CachedUser, Spinner
<1> QED
  BY <1>1, <1>2 DEF AppTarget, AccountTarget

LEMMA ShapedSettles == Shaped => RedirectsSettle
<1> SUFFICES ASSUME Shaped, NEW p \in Pages PROVE LET q == Target(Target(p)) IN Target(q) = q
  BY DEF RedirectsSettle
<1>1. /\ Target("app") = AppTarget /\ Target("account") = AccountTarget
      /\ Target("login") = "login" /\ Target("verify") = "verify"
      /\ Target("selectBroker") = IF ~Spinner /\ user = Nobody /\ ~CachedUser
                                  THEN "login" ELSE "selectBroker"
      /\ Target("adminPanel") = IF ~initializing /\ ~IsAdmin THEN "admin" ELSE "adminPanel"
      /\ Target("admin") = IF ~initializing /\ IsAdmin THEN "adminPanel" ELSE "admin"
  BY DEF Target
<1>2. p \in {"login", "verify", "admin", "adminPanel", "account", "selectBroker", "app"}
  BY DEF Pages
<1> HIDE DEF Pages
<1> QED
  BY <1>1, <1>2, GuardsLead

\* The guards never send the browser round in a circle: from any page, with any profile
\* the backend may have answered, three redirects reach a page that renders
\* (App.jsx, ProtectedRoute.jsx, AdminRoute.jsx, AccountStatusPage.jsx).
THEOREM GuardsSettle == SessionSpec => []RedirectsSettle
<1>1. SessionInv => RedirectsSettle
  BY ShapedSettles DEF SessionInv
<1> QED
  BY <1>1, SessionInitInv, SessionNextInv, PTL DEF SessionSpec
-----------------------------------------------------------------------------
(* The order ticket *)

Holdings == [Traded -> Int]
Sent == [stage : {"none", "session", "post", "refresh", "landing"}, symbol : Traded,
         side : {"BUY", "SELL"}, market : BOOLEAN, product : {"MIS", "CNC", "NRML"},
         quantity : 0 .. MaxQty, knew : BOOLEAN, served : Holdings \cup {NoHoldings}]

TicketShaped ==
  /\ form \in Forms /\ chosen \in Traded /\ order \in Sent
  /\ shownHoldings \in Holdings /\ realHoldings \in Holdings
  /\ sync \in Holdings \cup {NoHoldings} /\ excused \in BOOLEAN
  /\ order.stage = "landing" => order.served \in Holdings

PanelCounts ==
  excused \/ shownHoldings = realHoldings \/ order.stage \in {"refresh", "landing"}

SaleCovered == OwnSalesCounted

TicketInv == TicketShaped /\ PanelCounts /\ SaleCovered

-----------------------------------------------------------------------------
LEMMA NoOrderSent == NoOrder \in Sent /\ NoOrder.stage = "none"
<1>1. NoOrder.symbol \in Traded
  BY TicketAssumption DEF NoOrder
<1>2. 0 \in 0 .. MaxQty
  BY TicketAssumption
<1> QED
  BY <1>1, <1>2 DEF NoOrder, Sent

LEMMA TicketInvInit == TicketInit => TicketInv
<1> SUFFICES ASSUME TicketInit PROVE TicketInv
  OBVIOUS
<1>1. ResetForm \in Forms
  BY TicketAssumption DEF ResetForm, Forms, ModeOf
<1>2. realHoldings \in Holdings
  BY DEF TicketInit, Holdings
<1>3. chosen \in Traded
  BY NoOrderSent DEF TicketInit, Sent
<1> QED
  BY <1>1, <1>2, <1>3, NoOrderSent
  DEF TicketInit, TicketInv, TicketShaped, PanelCounts, SaleCovered, OwnSalesCounted

\* What shows the form and the dialog only touches nothing the invariant relates.
LEMMA FormStep ==
  ASSUME TicketInv, form' \in Forms, chosen' \in Traded,
         UNCHANGED <<order, shownHoldings, realHoldings, sync, excused>>
  PROVE  TicketInv'
BY DEF TicketInv, TicketShaped, PanelCounts, SaleCovered, OwnSalesCounted

LEMMA ModeTyped ==
  ASSUME TicketShaped, NEW mode \in {"DELIVERY", "INTRADAY"}, NEW f \in Forms
  PROVE  /\ Capped(f) \in Forms
         /\ SetTradingMode(f, mode) \in Forms
<1>1. ASSUME NEW g \in Forms PROVE Capped(g) \in Forms
  <2>1. CASE DeliverySale(g) /\ HoldingQty > 0
    <3>1. HoldingQty \in Int
      BY DEF TicketShaped, Holdings, HoldingQty
    <3>2. Least2(g.quantity, HoldingQty) \in 0 .. MaxQty
      BY <2>1, <3>1, TicketAssumption DEF Least2, Forms
    <3> DEFINE n == Least2(g.quantity, HoldingQty)
    <3>3. [g EXCEPT !.quantity = n] \in Forms
      <4> HIDE DEF n
      <4> QED BY <3>2 DEF Forms, n
    <3> QED
      BY <2>1, <3>3 DEF Capped
  <2>2. CASE ~(DeliverySale(g) /\ HoldingQty > 0)
    BY <2>2 DEF Capped
  <2> QED
    BY <2>1, <2>2
<1>2. [f EXCEPT !.mode = mode, !.product = IF mode = "DELIVERY" THEN "CNC" ELSE "MIS"] \in Forms
  BY DEF Forms, ModeOf
<1> QED
  BY <1>1, <1>2 DEF SetTradingMode

LEMMA FormChangesKeep == TicketInv /\ FormChanges => TicketInv'
<1> SUFFICES ASSUME TicketInv, FormChanges PROVE TicketInv'
  OBVIOUS
<1>1. TicketShaped /\ form \in Forms
  BY DEF TicketInv, TicketShaped
<1>2. ASSUME NEW f \in Forms, Touch(f) PROVE TicketInv'
  BY <1>1, <1>2, FormStep DEF Touch, TicketShaped
<1>3. CASE SetSide
  <2>1. PICK side \in {"BUY", "SELL"} : Touch([form EXCEPT !.side = side])
    BY <1>3 DEF SetSide
  <2>2. [form EXCEPT !.side = side] \in Forms
    BY <1>1 DEF Forms
  <2> QED
    BY <1>2, <2>1, <2>2
<1>4. CASE PressTradeBar
  <2> DEFINE f == SetTradingMode(form, "INTRADAY")
  <2>1. PICK side \in {"BUY", "SELL"} : Touch([f EXCEPT !.side = side])
    BY <1>4 DEF PressTradeBar, OpenOnSide
  <2>2. f \in Forms
    BY <1>1, ModeTyped
  <2> HIDE DEF f
  <2>3. [f EXCEPT !.side = side] \in Forms
    BY <2>2 DEF Forms
  <2> QED
    BY <1>2, <2>1, <2>3
<1>5. CASE SwitchToIntraday
  BY <1>1, <1>2, <1>5, ModeTyped DEF SwitchToIntraday
<1>6. CASE HandleTradingTypeChange
  <2>1. PICK product \in {"MIS", "CNC", "NRML"} :
          LET f == [form EXCEPT !.product = product, !.mode = ModeOf(product)]
          IN Touch(IF DeliverySale(f) /\ f.quantity = 0 THEN Capped([f EXCEPT !.quantity = 1])
                   ELSE Capped(f))
    BY <1>6 DEF HandleTradingTypeChange
  <2> DEFINE f == [form EXCEPT !.product = product, !.mode = ModeOf(product)]
             one == [f EXCEPT !.quantity = 1]
  <2>2. f \in Forms
    BY <1>1 DEF Forms, ModeOf
  <2>3. one \in Forms
    <3> HIDE DEF f
    <3> QED BY <2>2, TicketAssumption DEF Forms
  <2>4. Capped(f) \in Forms /\ Capped(one) \in Forms
    <3> HIDE DEF f, one
    <3> QED BY <1>1, <2>2, <2>3, ModeTyped
  <2> QED
    BY <1>2, <2>1, <2>4
<1>7. CASE HandleOrderTypeChange
  <2>1. PICK type \in {"MARKET", "LIMIT", "SL", "SL-M"}, quoted \in BOOLEAN :
          Touch([form EXCEPT !.type = type, !.trigger = @ \/ (type = "SL-M" /\ quoted)])
    BY <1>7 DEF HandleOrderTypeChange
  <2>2. (form.trigger \/ (type = "SL-M" /\ quoted)) \in BOOLEAN
    BY Zenon
  <2>3. [form EXCEPT !.type = type, !.trigger = @ \/ (type = "SL-M" /\ quoted)] \in Forms
    BY <1>1, <2>2 DEF Forms
  <2> QED
    BY <1>2, <2>1, <2>3
<1>8. CASE TypePrice
  <2>1. PICK given \in BOOLEAN : \/ Touch([form EXCEPT !.price = given])
                                 \/ Touch([form EXCEPT !.trigger = given])
    BY <1>8 DEF TypePrice
  <2>2. [form EXCEPT !.price = given] \in Forms /\ [form EXCEPT !.trigger = given] \in Forms
    BY <1>1 DEF Forms
  <2> QED
    BY <1>2, <2>1, <2>2
<1>9. CASE TypeQuantity \/ PressMax
  <2>1. PICK q \in 0 .. MaxQty : Touch([form EXCEPT !.quantity = q])
    BY <1>9, TicketAssumption DEF TypeQuantity, PressMax
  <2>2. [form EXCEPT !.quantity = q] \in Forms
    BY <1>1 DEF Forms
  <2> QED
    BY <1>2, <2>1, <2>2
<1>10. CASE SelectSymbolToTrade
  BY <1>1, <1>10, FormStep DEF SelectSymbolToTrade
<1> QED
  BY <1>3, <1>4, <1>5, <1>6, <1>7, <1>8, <1>9, <1>10 DEF FormChanges

-----------------------------------------------------------------------------
\* A sale is confirmed while nothing of this panel is under way, so what is shown
\* is what the server has, unless another cause is known.
LEMMA ConfirmKeeps == TicketInv /\ HandleConfirm => TicketInv'
<1> SUFFICES ASSUME TicketInv, HandleConfirm PROVE TicketInv'
  OBVIOUS
<1>1. CASE ~ValidateOrderForm(form)
  <2>1. UNCHANGED <<form, chosen, order, shownHoldings, realHoldings, sync, excused>>
    BY <1>1 DEF HandleConfirm
  <2> QED
    BY <2>1, FormStep DEF TicketInv, TicketShaped
<1>2. CASE ValidateOrderForm(form)
  <2>1. /\ order' = [stage |-> "session", symbol |-> chosen, side |-> form.side,
                     market |-> form.type = "MARKET", product |-> form.product,
                     quantity |-> form.quantity, knew |-> ~excused, served |-> NoHoldings]
        /\ UNCHANGED <<form, chosen, shownHoldings, realHoldings, sync, excused>>
        /\ order = NoOrder /\ ~SellBlocked /\ ~QtyExceedsHoldings
    BY <1>2 DEF HandleConfirm
  <2>2. TicketShaped'
    <3>1. (form.type = "MARKET") \in BOOLEAN /\ (~excused) \in BOOLEAN
      BY Zenon
    <3>2. /\ form.side \in {"BUY", "SELL"} /\ form.product \in {"MIS", "CNC", "NRML"}
          /\ form.quantity \in 0 .. MaxQty
      BY DEF TicketInv, TicketShaped, Forms
    <3>3. order' \in Sent /\ order'.stage = "session"
      BY <2>1, <3>1, <3>2 DEF TicketInv, TicketShaped, Sent
    <3> QED
      BY <2>1, <3>3 DEF TicketInv, TicketShaped
  <2>3. excused \/ shownHoldings = realHoldings
    BY <2>1, NoOrderSent DEF TicketInv, PanelCounts
  <2>4. SaleCovered'
    <3>1. SUFFICES ASSUME form.side = "SELL", form.product = "CNC", ~excused
                   PROVE  form.quantity <= realHoldings[chosen]
      BY <2>1 DEF SaleCovered, OwnSalesCounted
    <3>2. form.mode = "DELIVERY"
      BY <3>1 DEF TicketInv, TicketShaped, Forms, ModeOf
    <3>3. DeliverySale(form)
      BY <3>1, <3>2 DEF DeliverySale
    <3>4. HoldingQty # 0 /\ ~(HoldingQty > 0 /\ form.quantity > HoldingQty)
      BY <2>1, <3>3 DEF SellBlocked, QtyExceedsHoldings
    <3>5. shownHoldings[chosen] \in Int /\ form.quantity \in Int
      BY TicketAssumption DEF TicketInv, TicketShaped, Holdings, Forms
    <3> QED
      BY <2>3, <3>1, <3>4, <3>5 DEF HoldingQty
  <2>5. PanelCounts'
    BY <2>1, <2>3 DEF PanelCounts
  <2> QED
    BY <2>2, <2>4, <2>5 DEF TicketInv
<1> QED
  BY <1>1, <1>2

LEMMA PostKeeps == TicketInv /\ OrderPosted => TicketInv'
<1> SUFFICES ASSUME TicketInv, OrderPosted PROVE TicketInv'
  OBVIOUS
<1> DEFINE q == IF order.side = "BUY" THEN order.quantity ELSE -order.quantity
<1>1. q \in Int
  BY TicketAssumption DEF TicketInv, TicketShaped, Sent
<1>2. Executed \in Holdings
  <2>1. Executed = [realHoldings EXCEPT ![order.symbol] = @ + q]
    BY Zenon DEF Executed
  <2> HIDE DEF q
  <2>2. realHoldings \in [Traded -> Int]
    BY DEF TicketInv, TicketShaped, Holdings
  <2>3. order.symbol \in Traded
    BY DEF TicketInv, TicketShaped, Sent
  <2>4. [realHoldings EXCEPT ![order.symbol] = @ + q] \in [Traded -> Int]
    BY <1>1, <2>2, <2>3
  <2> QED
    BY <2>1, <2>4 DEF Holdings
<1>3. /\ realHoldings' \in Holdings
      /\ UNCHANGED <<form, chosen, shownHoldings, sync>>
  BY <1>2 DEF OrderPosted, TicketInv, TicketShaped
<1>4. CASE order' = NoOrder /\ Excuse(TRUE)
  <2>1. excused' = (shownHoldings' # realHoldings')
    BY <1>4 DEF Excuse
  <2>2. order' \in Sent /\ order'.stage = "none"
    BY <1>4, NoOrderSent
  <2>3. excused' \in BOOLEAN
    BY <2>1, Zenon
  <2> QED
    BY <1>3, <2>1, <2>2, <2>3
    DEF TicketInv, TicketShaped, PanelCounts, SaleCovered, OwnSalesCounted
<1>5. ASSUME NEW copy \in {NoHoldings, realHoldings}, Excuse(FALSE),
             order' = [order EXCEPT !.stage = "refresh", !.served = copy]
      PROVE  TicketInv'
  <2>1. excused' \in BOOLEAN
    BY <1>5, Zenon DEF Excuse
  <2>2. order' \in Sent /\ order'.stage = "refresh"
    BY <1>5 DEF TicketInv, TicketShaped, Sent
  <2> QED
    BY <1>3, <2>1, <2>2
    DEF TicketInv, TicketShaped, PanelCounts, SaleCovered, OwnSalesCounted
<1> QED
  BY <1>4, <1>5 DEF OrderPosted

LEMMA OrderMovesKeep == TicketInv /\ OrderMoves => TicketInv'
<1> SUFFICES ASSUME TicketInv, OrderMoves PROVE TicketInv'
  OBVIOUS
<1>1. CASE SessionChecked
  <2>1. UNCHANGED <<form, chosen, shownHoldings, realHoldings, sync, excused>>
    BY <1>1 DEF SessionChecked
  <2>2. order.stage = "session" /\ (order' = NoOrder \/ order' = [order EXCEPT !.stage = "post"])
    BY <1>1 DEF SessionChecked
  <2>3. /\ order' \in Sent /\ order'.stage \in {"none", "post"}
        /\ order'.stage = "post" => /\ order'.side = order.side /\ order'.product = order.product
                                    /\ order'.knew = order.knew /\ order'.symbol = order.symbol
                                    /\ order'.quantity = order.quantity
    BY <2>2, NoOrderSent DEF TicketInv, TicketShaped, Sent
  <2>4. excused \/ shownHoldings = realHoldings
    BY <2>2 DEF TicketInv, PanelCounts
  <2> QED
    BY <2>1, <2>2, <2>3, <2>4
    DEF TicketInv, TicketShaped, PanelCounts, SaleCovered, OwnSalesCounted
<1>2. CASE OrderPosted
  BY <1>2, PostKeeps
<1>3. CASE RefreshServed
  <2>1. /\ UNCHANGED <<form, chosen, shownHoldings, realHoldings, sync, excused>>
        /\ \E served \in {order.served, realHoldings} \ {NoHoldings} :
             order' = [order EXCEPT !.stage = "landing", !.served = served]
    BY <1>3 DEF RefreshServed
  <2>2. PICK served \in {order.served, realHoldings} \ {NoHoldings} :
          order' = [order EXCEPT !.stage = "landing", !.served = served]
    BY <2>1
  <2>3. order \in Sent /\ order.served \in Holdings \cup {NoHoldings}
        /\ realHoldings \in Holdings
    BY DEF TicketInv, TicketShaped, Sent
  <2>4. served \in Holdings
    BY <2>3
  <2>5. order' \in Sent /\ order'.stage = "landing" /\ order'.served = served
    BY <2>2, <2>3, <2>4 DEF Sent
  <2> QED
    BY <2>1, <2>4, <2>5 DEF TicketInv, TicketShaped, PanelCounts, SaleCovered, OwnSalesCounted
<1>4. CASE RefreshEnds
  <2>1. /\ UNCHANGED <<form, chosen, sync, realHoldings>> /\ order.stage = "landing"
        /\ order' \in Sent /\ order'.stage = "none"
    BY <1>4, NoOrderSent DEF RefreshEnds
  <2>2. excused' \in BOOLEAN
    BY <1>4, Zenon DEF RefreshEnds, Excuse
  <2>3. shownHoldings' \in Holdings
    BY <1>4, <2>1 DEF RefreshEnds, TicketInv, TicketShaped
  <2>4. excused' \/ shownHoldings' = realHoldings'
    <3>1. CASE shownHoldings' = order.served /\ Excuse(order.served # realHoldings)
      BY <2>1, <3>1 DEF Excuse
    <3>2. CASE UNCHANGED shownHoldings /\ Excuse(TRUE)
      BY <3>2 DEF Excuse
    <3> QED
      BY <1>4, <3>1, <3>2 DEF RefreshEnds
  <2> QED
    BY <2>1, <2>2, <2>3, <2>4
    DEF TicketInv, TicketShaped, PanelCounts, SaleCovered, OwnSalesCounted
<1> QED
  BY <1>1, <1>2, <1>3, <1>4 DEF OrderMoves

\* What trades elsewhere makes the order under way one that did not know.
LEMMA ElsewhereKeeps ==
  ASSUME TicketInv, NEW held \in Holdings, Elsewhere(held)
  PROVE  TicketInv'
<1>1. /\ realHoldings' = held /\ UNCHANGED <<form, chosen, shownHoldings, sync>>
      /\ order' = [order EXCEPT !.knew = @ /\ order = NoOrder]
      /\ excused' = (shownHoldings' # realHoldings')
  BY DEF Elsewhere, Excuse
<1>2. (order.knew /\ order = NoOrder) \in BOOLEAN /\ excused' \in BOOLEAN
  BY <1>1, Zenon
<1>3. /\ order' \in Sent /\ order'.stage = order.stage /\ order'.served = order.served
      /\ order # NoOrder => ~order'.knew
  BY <1>1, <1>2 DEF TicketInv, TicketShaped, Sent
<1>4. SaleCovered'
  <2>1. CASE order = NoOrder
    BY <1>3, <2>1, NoOrderSent DEF SaleCovered, OwnSalesCounted
  <2>2. CASE order # NoOrder
    BY <1>3, <2>2 DEF SaleCovered, OwnSalesCounted
  <2> QED
    BY <2>1, <2>2
<1>5. TicketShaped'
  BY <1>1, <1>2, <1>3 DEF TicketInv, TicketShaped
<1>6. PanelCounts'
  BY <1>1 DEF PanelCounts
<1> QED
  BY <1>4, <1>5, <1>6 DEF TicketInv

LEMMA BesidesKeep ==
  TicketInv /\ (CheckSession \/ SyncServed \/ SyncLands \/ RestingFills \/ QuickOrder \/ HandleCloseAll)
    => TicketInv'
<1> SUFFICES ASSUME TicketInv,
                    CheckSession \/ SyncServed \/ SyncLands \/ RestingFills \/ QuickOrder
                      \/ HandleCloseAll
             PROVE  TicketInv'
  OBVIOUS
<1>1. CASE CheckSession
  BY <1>1, FormStep DEF CheckSession, TicketInv, TicketShaped
<1>2. CASE SyncServed
  BY <1>2 DEF SyncServed, TicketInv, TicketShaped, PanelCounts, SaleCovered, OwnSalesCounted
<1>3. CASE SyncLands
  <2>1. /\ UNCHANGED <<form, chosen, order, realHoldings>>
        /\ shownHoldings' = sync /\ sync # NoHoldings /\ sync' = NoHoldings
        /\ excused' = (sync # realHoldings /\ (excused \/ sync # realHoldings))
    BY <1>3 DEF SyncLands, Excuse
  <2>2. excused' \in BOOLEAN
    BY <2>1, Zenon
  <2>3. TicketShaped'
    BY <2>1, <2>2 DEF TicketInv, TicketShaped
  <2>4. PanelCounts'
    BY <2>1 DEF PanelCounts
  <2>5. SaleCovered'
    BY <2>1 DEF TicketInv, SaleCovered, OwnSalesCounted
  <2> QED
    BY <2>3, <2>4, <2>5 DEF TicketInv
<1>4. CASE RestingFills
  <2>1. PICK s \in Traded : Elsewhere([realHoldings EXCEPT ![s] = @ - 1])
    BY <1>4 DEF RestingFills
  <2>2. [realHoldings EXCEPT ![s] = @ - 1] \in Holdings
    BY DEF TicketInv, TicketShaped, Holdings
  <2> QED
    BY <2>1, <2>2, ElsewhereKeeps
<1>5. CASE QuickOrder
  <2>1. PICK s \in Traded, q \in {1, -1} : Elsewhere([realHoldings EXCEPT ![s] = @ + q])
    BY <1>5 DEF QuickOrder
  <2>2. [realHoldings EXCEPT ![s] = @ + q] \in Holdings
    BY DEF TicketInv, TicketShaped, Holdings
  <2> QED
    BY <2>1, <2>2, ElsewhereKeeps
<1>6. CASE HandleCloseAll
  <2>1. [s \in Traded |-> 0] \in Holdings
    BY DEF Holdings
  <2> QED
    BY <1>6, <2>1, ElsewhereKeeps DEF HandleCloseAll
<1> QED
  BY <1>1, <1>2, <1>3, <1>4, <1>5, <1>6

LEMMA TicketInvNext == TicketInv /\ [TicketNext]_ticketVars => TicketInv'
<1> SUFFICES ASSUME TicketInv, [TicketNext]_ticketVars PROVE TicketInv'
  OBVIOUS
<1>1. CASE PressPlace \/ CancelConfirm
  BY <1>1, FormStep DEF PressPlace, CancelConfirm, TicketInv, TicketShaped
<1>2. CASE UNCHANGED ticketVars
  BY <1>2, FormStep DEF ticketVars, TicketInv, TicketShaped
<1> QED
  BY <1>1, <1>2, FormChangesKeep, ConfirmKeeps, OrderMovesKeep, BesidesKeep DEF TicketNext

\* The panel counts its own sales: a delivery sale it sends is of shares the
\* server has, while nobody else traded and no refresh was lost or late
\* (useOrders.js:153-245), whatever the form, the symbol and the session
\* become under way.
THEOREM SalesCovered == TicketSpec => []OwnSalesCounted
<1>1. TicketInv => OwnSalesCounted
  BY DEF TicketInv, SaleCovered
<1> QED
  BY <1>1, TicketInvInit, TicketInvNext, PTL DEF TicketSpec
-----------------------------------------------------------------------------
(* The orders page *)

\* What a refresh was served as cancelled is cancelled: an order never leaves that status.
RefreshIsTrue ==
  refresh # NoRefresh => \A o \in OrderIds : refresh[o] = "CANCELLED" => realOrders[o] = "CANCELLED"

PageInv ==
  /\ shownOrders \in Books2 /\ realOrders \in Books2
  /\ \A r \in cancelling : r.id \in OrderIds /\ r.shown \in Books2
  /\ refresh \in Books2 \cup {NoRefresh}
  /\ RefreshIsTrue
  /\ ShownCancelledIsTrue

USE DEF Books2, Statuses

LEMMA PageInitInv == PageInit => PageInv
<1> SUFFICES ASSUME PageInit PROVE PageInv
  OBVIOUS
<1> QED
  BY DEF PageInit, PageInv, RefreshIsTrue, ShownCancelledIsTrue

\* A step that keeps what is shown, what is asked and what was served, and only moves
\* the server's orders towards an outcome.
LEMMA ServerKeeps ==
  ASSUME PageInv, realOrders' \in Books2,
         \A o \in OrderIds : realOrders[o] = "CANCELLED" => realOrders'[o] = "CANCELLED",
         UNCHANGED <<shownOrders, cancelling, refresh, restored>>
  PROVE  PageInv'
BY DEF PageInv, RefreshIsTrue, ShownCancelledIsTrue

LEMMA LoadInv ==
  ASSUME PageInv, LoadOrders \/ OrdersLoaded
  PROVE  PageInv'
<1>1. CASE LoadOrders
  BY <1>1 DEF PageInv, RefreshIsTrue, ShownCancelledIsTrue, LoadOrders
<1>2. CASE OrdersLoaded
  <2>1. RefreshIsTrue'
    BY <1>2 DEF OrdersLoaded, RefreshIsTrue
  <2>2. CASE shownOrders' = refresh
    BY <1>2, <2>1, <2>2 DEF PageInv, RefreshIsTrue, ShownCancelledIsTrue, OrdersLoaded
  <2>3. CASE UNCHANGED <<shownOrders, restored>>
    BY <1>2, <2>1, <2>3 DEF PageInv, RefreshIsTrue, ShownCancelledIsTrue, OrdersLoaded
  <2> QED
    BY <1>2, <2>2, <2>3 DEF OrdersLoaded
<1> QED
  BY <1>1, <1>2

\* The row shown cancelled is one that a request has been sent for.
LEMMA CancelInv ==
  ASSUME PageInv, HandleCancelOrder
  PROVE  PageInv'
<1> DEFINE new == [id |-> confirmCancelId, shown |-> shownOrders, n |-> cancelCount]
<1>1. /\ confirmCancelId \in OrderIds /\ cancelling' = cancelling \cup {new}
      /\ shownOrders' = [shownOrders EXCEPT ![confirmCancelId] = "CANCELLED"]
      /\ UNCHANGED <<realOrders, refresh, restored>>
  BY DEF HandleCancelOrder, VisibleByTab, FilteredBaseOrders
<1>2. new.id = confirmCancelId /\ new.shown = shownOrders
  OBVIOUS
<1> HIDE DEF new
<1>3. /\ \A r \in cancelling' : r.id \in OrderIds /\ r.shown \in Books2
      /\ shownOrders' \in Books2
  BY <1>1, <1>2 DEF PageInv
<1>4. ShownCancelledIsTrue'
  <2> SUFFICES ASSUME NEW o \in OrderIds, shownOrders'[o] = "CANCELLED",
                      realOrders[o] # "CANCELLED", ~ restored
               PROVE  o \in {r.id : r \in cancelling'}
    BY <1>1 DEF ShownCancelledIsTrue
  <2>1. CASE o = confirmCancelId
    BY <1>1, <1>2, <2>1
  <2>2. CASE o # confirmCancelId
    <3>1. shownOrders[o] = "CANCELLED"
      BY <1>1, <2>2 DEF PageInv
    <3>2. o \in {r.id : r \in cancelling}
      BY <3>1 DEF PageInv, ShownCancelledIsTrue
    <3> QED
      BY <1>1, <3>2
  <2> QED
    BY <2>1, <2>2
<1> QED
  BY <1>1, <1>3, <1>4 DEF PageInv, RefreshIsTrue

\* An answer ends one request: its order is cancelled, and only its own.
LEMMA AnsweredInv ==
  ASSUME PageInv, CancelAnswered
  PROVE  PageInv'
<1>1. PICK r \in cancelling : /\ realOrders' = [realOrders EXCEPT ![r.id] = "CANCELLED"]
                              /\ cancelling' = cancelling \ {r}
                              /\ UNCHANGED <<shownOrders, refresh, restored>>
  BY DEF CancelAnswered
<1>2. r.id \in OrderIds /\ realOrders' \in Books2
      /\ \A o \in OrderIds : realOrders[o] = "CANCELLED" => realOrders'[o] = "CANCELLED"
  BY <1>1 DEF PageInv
<1>3. ShownCancelledIsTrue'
  <2> SUFFICES ASSUME NEW o \in OrderIds, shownOrders[o] = "CANCELLED",
                      realOrders'[o] # "CANCELLED", ~ restored
               PROVE  o \in {s.id : s \in cancelling'}
    BY <1>1 DEF ShownCancelledIsTrue
  <2>1. o # r.id /\ realOrders[o] # "CANCELLED"
    BY <1>1, <1>2 DEF PageInv
  <2>2. PICK s \in cancelling : s.id = o
    BY <2>1 DEF PageInv, ShownCancelledIsTrue
  <2> QED
    BY <1>1, <2>1, <2>2
<1> QED
  BY <1>1, <1>2, <1>3 DEF PageInv, RefreshIsTrue

\* A failure puts the rows of before back: a cancelled one among them is either as it
\* was, with its own request, or marks the page as restored.
LEMMA FailsInv ==
  ASSUME PageInv, CancelFails
  PROVE  PageInv'
<1>1. PICK r \in cancelling, done \in BOOLEAN :
        /\ realOrders' = IF done /\ realOrders[r.id] = "OPEN"
                         THEN [realOrders EXCEPT ![r.id] = "CANCELLED"] ELSE realOrders
        /\ cancelling' = cancelling \ {r} /\ shownOrders' = r.shown
        /\ restored' = (restored \/ \E o \in OrderIds :
                          r.shown[o] = "CANCELLED" /\ (o = r.id \/ shownOrders[o] # "CANCELLED"))
        /\ refresh' = refresh
  BY DEF CancelFails
<1>2. /\ r.id \in OrderIds /\ shownOrders' \in Books2 /\ realOrders' \in Books2
      /\ \A o \in OrderIds : realOrders[o] = "CANCELLED" => realOrders'[o] = "CANCELLED"
  BY <1>1 DEF PageInv
<1>3. ShownCancelledIsTrue'
  <2> SUFFICES ASSUME NEW o \in OrderIds, r.shown[o] = "CANCELLED",
                      realOrders'[o] # "CANCELLED", ~ restored'
               PROVE  o \in {s.id : s \in cancelling'}
    BY <1>1 DEF ShownCancelledIsTrue
  <2>1. o # r.id /\ shownOrders[o] = "CANCELLED" /\ realOrders[o] # "CANCELLED" /\ ~ restored
    BY <1>1, <1>2
  <2>2. PICK s \in cancelling : s.id = o
    BY <2>1 DEF PageInv, ShownCancelledIsTrue
  <2> QED
    BY <1>1, <2>1, <2>2
<1> QED
  BY <1>1, <1>2, <1>3 DEF PageInv, RefreshIsTrue

LEMMA PageNextInv == PageInv /\ [PageNext]_pageVars => PageInv'
<1> SUFFICES ASSUME PageInv, [PageNext]_pageVars PROVE PageInv'
  OBVIOUS
<1>1. CASE ServerMoves
  <2>1. PICK o \in OrderIds : OrderMovesAt(o)
    BY <1>1 DEF ServerMoves
  <2>2. /\ realOrders' \in Books2
        /\ \A x \in OrderIds : realOrders[x] = "CANCELLED" => realOrders'[x] = "CANCELLED"
    BY <2>1 DEF OrderMovesAt, PageInv
  <2> QED
    BY <1>1, <2>2, ServerKeeps DEF ServerMoves
<1>2. CASE ChangeView \/ PressCancel \/ OpenModifyEditor \/ CloseEditor \/ DismissCancel
  BY <1>2, ServerKeeps DEF PageInv, ChangeView, PressCancel, OpenModifyEditor, CloseEditor, DismissCancel
<1>3. CASE UNCHANGED pageVars
  BY <1>3, ServerKeeps DEF PageInv, pageVars
<1> QED
  BY <1>1, <1>2, <1>3, LoadInv, CancelInv, AnsweredInv, FailsInv DEF PageNext

\* No order of cancellations, failures, fills and refreshes leaves an order shown
\* cancelled that is not, except as the page says so (OrdersPage.jsx:554-588).
THEOREM CancelledRowsTrue == PageSpec => []ShownCancelledIsTrue
<1>1. PageInv => ShownCancelledIsTrue
  BY DEF PageInv
<1> QED
  BY <1>1, PageInitInv, PageNextInv, PTL DEF PageSpec
-----------------------------------------------------------------------------
(***************************************************************************)
(* The profit that is derived from the orders.                             *)
(***************************************************************************)
Lot == [qty : Nat \ {0}, price : Int]
Lots == Seq(Lot)

\* A lot closed is what is left of the order, its gain and the lots that remain.
LEMMA ClosedTyped ==
  ASSUME NEW a \in [left : Nat, realized : Int, rest : Lots], NEW lot \in Lot,
         NEW price \in Int, NEW sign \in {1, -1}
  PROVE  CloseLot(a, lot, price, sign) \in [left : Nat, realized : Int, rest : Lots]
<1> DEFINE c == Smaller(a.left, lot.qty)
<1>1. a.left \in Nat /\ a.realized \in Int /\ a.rest \in Lots /\ lot.qty \in Nat \ {0} /\ lot.price \in Int
  BY DEF Lot
<1>2. c \in Nat /\ c <= a.left /\ c <= lot.qty
  BY <1>1 DEF Smaller
<1> HIDE DEF c
<1>3. a.left - c \in Nat /\ a.realized + sign * (price - lot.price) * c \in Int
  <2>1. sign \in Int /\ price - lot.price \in Int
    BY <1>1
  <2>2. sign * (price - lot.price) \in Int
    BY <2>1
  <2>3. sign * (price - lot.price) * c \in Int
    BY <1>2, <2>2
  <2> QED BY <1>1, <1>2, <2>3
<1>4. ASSUME lot.qty > c PROVE Append(a.rest, [lot EXCEPT !.qty = @ - c]) \in Lots
  <2>1. [lot EXCEPT !.qty = @ - c] \in Lot
    BY <1>1, <1>2, <1>4 DEF Lot
  <2> QED BY <1>1, <2>1, AppendProperties DEF Lots
<1> QED
  BY <1>1, <1>3, <1>4 DEF CloseLot, c

\* Lots of a side closed one after the other: a has what there is after each.
LEMMA MatchedRuns ==
  ASSUME NEW lots \in Lots, NEW qty \in Nat, NEW price \in Int, NEW sign \in {1, -1}
  PROVE  \E a : /\ a[0] = [left |-> qty, realized |-> 0, rest |-> <<>>]
                /\ \A k \in 1 .. Len(lots) : a[k] = CloseLot(a[k - 1], lots[k], price, sign)
                /\ Matched(lots, qty, price, sign) = a[Len(lots)]
<1> DEFINE n == Len(lots)
           base == [left |-> qty, realized |-> 0, rest |-> <<>>]
           V == [left : Nat, realized : Int, rest : Lots]
           h == [p \in V \X (1 .. n) |-> CloseLot(p[1], lots[p[2]], price, sign)]
           Follows(g) == g = [T \in SUBSET DOMAIN lots |->
             IF T = {} THEN base ELSE CloseLot(g[T \ {Top(T)}], lots[Top(T)], price, sign)]
           it == CHOOSE g : Follows(g)
           a == [k \in 0 .. n |-> it[1 .. k]]
<1>1. n \in Nat /\ DOMAIN lots = 1 .. n /\ \A k \in 1 .. n : lots[k] \in Lot
  BY LenProperties, ElementOfSeq DEF Lots
<1>2. base \in V
  BY EmptySeq DEF Lots
<1>3. IsStep(h, n, V)
  <2>1. \A v \in V, k \in 1 .. n : CloseLot(v, lots[k], price, sign) \in V
    BY <1>1, ClosedTyped
  <2> HIDE DEF V
  <2> QED BY <2>1 DEF IsStep
<1>4. Matched(lots, qty, price, sign) = it[DOMAIN lots]
  BY DEF Matched, FoldLeft, MapThenFoldSet, Max, Top
<1> HIDE DEF V, n, base, h
<1>5. Follows(it)
  <2>1. PICK g : FoldsOver(g, h, base, n, V)
    BY <1>1, <1>2, <1>3, FoldFound
  <2>2. Follows(g)
    BY <1>1, <2>1 DEF h, FoldsOver
  <2> QED BY <2>2
<1> HIDE DEF it
<1>6. a[0] = base /\ a[n] = it[DOMAIN lots]
  BY <1>1, <1>5, FirstOnes
<1>7. ASSUME NEW k \in 1 .. n PROVE a[k] = CloseLot(a[k - 1], lots[k], price, sign)
  <2>1. it[1 .. k] = CloseLot(it[1 .. (k - 1)], lots[k], price, sign)
    <3>1. /\ 1 .. k \in SUBSET DOMAIN lots /\ 1 .. k # {}
          /\ Top(1 .. k) = k /\ (1 .. k) \ {k} = 1 .. (k - 1)
      BY <1>1, FirstOnes
    <3> QED BY <1>5, <3>1
  <2> QED BY <1>1, <2>1, FirstOnes
<1> HIDE DEF a
<1> QED
  BY <1>4, <1>6, <1>7 DEF n, base
\* e has the sums of the first of N terms.
Adds(e, f, N) == e \in [0 .. N -> Int] /\ e[0] = 0 /\ \A i \in 1 .. N : e[i] = e[i - 1] + f[i]

LEMMA AddsExist ==
  ASSUME NEW N \in Nat, NEW f, \A i \in 1 .. N : f[i] \in Int
  PROVE  \E e : Adds(e, f, N)
<1> DEFINE h == [p \in Int \X (1 .. N) |-> p[1] + f[p[2]]]
<1>1. IsStep(h, N, Int)
  BY DEF IsStep
<1> HIDE DEF h
<1>2. PICK g : FoldsOver(g, h, 0, N, Int)
  BY <1>1, FoldFound
<1> DEFINE e == [k \in 0 .. N |-> g[1 .. k]]
<1>3. e[0] = 0
  BY <1>2, FirstOnes DEF FoldsOver
<1>4. ASSUME NEW k \in 1 .. N PROVE e[k - 1] \in Int /\ e[k] = e[k - 1] + f[k]
  <2>1. /\ 1 .. k \in SUBSET (1 .. N) /\ 1 .. k # {} /\ Top(1 .. k) = k
        /\ (1 .. k) \ {k} = 1 .. (k - 1) /\ k \in 0 .. N /\ k - 1 \in 0 .. N
    BY FirstOnes
  <2>2. g[1 .. (k - 1)] \in Int /\ g[1 .. k] = h[<<g[1 .. (k - 1)], k>>]
    BY <1>2, <2>1 DEF FoldsOver
  <2>3. g[1 .. k] = g[1 .. (k - 1)] + f[k]
    BY <2>2 DEF h
  <2> QED BY <2>1, <2>2, <2>3
<1>5. \A k \in 0 .. N : e[k] \in Int
  <2> SUFFICES ASSUME NEW k \in 0 .. N PROVE e[k] \in Int
    OBVIOUS
  <2>1. CASE k = 0
    BY <1>3, <2>1
  <2>2. CASE k # 0
    <3>1. k \in 1 .. N
      BY <2>2
    <3>2. e[k - 1] \in Int /\ e[k] = e[k - 1] + f[k] /\ f[k] \in Int
      BY <1>4, <3>1
    <3> HIDE DEF e
    <3> QED BY <3>2
  <2> QED BY <2>1, <2>2
<1>6. e \in [0 .. N -> Int]
  BY <1>5
<1> HIDE DEF e
<1> QED
  BY <1>3, <1>4, <1>6 DEF Adds

\* The same of what may have other values too.
AddsUp(a, f, N) == a[0] = 0 /\ \A i \in 1 .. N : a[i] = a[i - 1] + f[i]

\* Whatever else adds the same terms has the same sum.
LEMMA AddsOnce ==
  ASSUME NEW N \in Nat, NEW f, NEW e, Adds(e, f, N),
         NEW a, AddsUp(a, f, N)
  PROVE  a[N] = e[N]
<1> DEFINE Same == {k \in Nat : k <= N => a[k] = e[k]}
<1>1. 0 \in Same
  BY DEF Adds, AddsUp
<1>2. ASSUME NEW k \in Same PROVE k + 1 \in Same
  <2>1. k \in Nat /\ k + 1 \in Nat
    OBVIOUS
  <2> SUFFICES ASSUME k + 1 <= N PROVE a[k + 1] = e[k + 1]
    BY <2>1
  <2>2. k + 1 \in 1 .. N /\ (k + 1) - 1 = k /\ k <= N
    BY <2>1
  <2>3. a[k] = e[k]
    BY <2>1, <2>2
  <2>4. a[k + 1] = a[k] + f[k + 1] /\ e[k + 1] = e[k] + f[k + 1]
    BY <2>2 DEF Adds, AddsUp
  <2> QED BY <2>3, <2>4
<1> HIDE DEF Same
<1>3. Same = Nat
  <2>1. Same \in SUBSET Nat
    BY DEF Same
  <2> QED BY <1>1, <1>2, <2>1, NatSetInduction
<1> QED
  BY <1>3 DEF Same

\* The c terms after m are v each.
Runs(f, m, c, v) == \A i \in m + 1 .. m + c : f[i] = v

LEMMA AddsRun ==
  ASSUME NEW N \in Nat, NEW f, NEW e, Adds(e, f, N), NEW m \in Nat, NEW c \in Nat, m + c <= N,
         NEW v \in Int, Runs(f, m, c, v)
  PROVE  e[m + c] = e[m] + v * c
<1> DEFINE Grown == {k \in Nat : k <= c => e[m + k] = e[m] + v * k}
<1>0. \A k \in 0 .. N : e[k] \in Int
  BY DEF Adds
<1>1. 0 \in Grown
  <2>1. e[m] \in Int /\ m + 0 = m /\ v * 0 = 0
    BY <1>0
  <2> QED BY <2>1
<1>2. ASSUME NEW k \in Grown PROVE k + 1 \in Grown
  <2>1. k \in Nat /\ k + 1 \in Nat
    OBVIOUS
  <2> SUFFICES ASSUME k + 1 <= c PROVE e[m + (k + 1)] = e[m] + v * (k + 1)
    BY <2>1
  <2>2. k <= c /\ m + (k + 1) \in m + 1 .. m + c /\ m + (k + 1) \in 1 .. N
        /\ (m + (k + 1)) - 1 = m + k /\ m \in 0 .. N
    BY <2>1
  <2>3. e[m + k] = e[m] + v * k
    BY <2>1, <2>2
  <2>4. e[m + (k + 1)] = e[m + k] + v
    BY <2>2 DEF Adds, Runs
  <2>5. v * (k + 1) = v * k + v /\ v * k \in Int
    BY <2>1
  <2>6. e[m] \in Int
    BY <1>0, <2>2
  <2> QED BY <2>3, <2>4, <2>5, <2>6
<1> HIDE DEF Grown
<1>3. Grown = Nat
  <2>1. Grown \in SUBSET Nat
    BY DEF Grown
  <2> QED BY <1>1, <1>2, <2>1, NatSetInduction
<1>4. c \in Grown
  BY <1>3
<1> QED
  BY <1>4 DEF Grown

\* Y begins as X does; X comes after m terms of it.
SameTo(Y, X, N) == \A i \in 1 .. N : Y[i] = X[i]
Continues(Y, X, m, c) == \A i \in 1 .. c : X[i] \in Int /\ Y[m + i] = X[i]

\* One sum continued by another.
LEMMA AddsJoin ==
  ASSUME NEW m \in Nat, NEW c \in Nat, NEW f, NEW f1, NEW f2, NEW e1, NEW e2,
         Adds(e1, f1, m), Adds(e2, f2, c), SameTo(f, f1, m), Continues(f, f2, m, c)
  PROVE  \E e : Adds(e, f, m + c) /\ e[m + c] = e1[m] + e2[c]
<1> DEFINE e == [i \in 0 .. m + c |-> IF i <= m THEN e1[i] ELSE e1[m] + e2[i - m]]
<1>0. /\ \A i \in 0 .. m : e1[i] \in Int
      /\ \A i \in 0 .. c : e2[i] \in Int
      /\ e1[0] = 0 /\ e2[0] = 0
  BY DEF Adds
<1>1. \A i \in 0 .. m + c : e[i] \in Int
  <2> SUFFICES ASSUME NEW i \in 0 .. m + c PROVE e[i] \in Int
    OBVIOUS
  <2>1. CASE i <= m
    BY <1>0, <2>1
  <2>2. CASE ~(i <= m)
    <3>1. i - m \in 0 .. c /\ m \in 0 .. m
      BY <2>2
    <3> QED BY <1>0, <2>2, <3>1
  <2> QED BY <2>1, <2>2
<1>2. ASSUME NEW i \in 1 .. m + c PROVE e[i] = e[i - 1] + f[i]
  <2>1. CASE i <= m
    <3>1. i \in 1 .. m /\ i - 1 \in 0 .. m + c /\ i - 1 <= m /\ i \in 0 .. m + c
      BY <2>1
    <3>2. e1[i] = e1[i - 1] + f1[i] /\ f[i] = f1[i]
      BY <3>1 DEF Adds, SameTo
    <3> QED BY <2>1, <3>1, <3>2
  <2>2. CASE ~(i <= m)
    <3>1. i - m \in 1 .. c /\ m + (i - m) = i /\ i - 1 \in 0 .. m + c /\ i \in 0 .. m + c
      BY <2>2
    <3>2. e2[i - m] = e2[(i - m) - 1] + f2[i - m] /\ f2[i - m] = f[i] /\ f2[i - m] \in Int
      BY <3>1 DEF Adds, Continues
    <3>3. e[i] = e1[m] + e2[i - m]
      BY <2>2, <3>1
    <3>4. e1[m] \in Int /\ e2[(i - m) - 1] \in Int /\ e2[i - m] \in Int
      <4>1. m \in 0 .. m /\ (i - m) - 1 \in 0 .. c /\ i - m \in 0 .. c
        BY <3>1
      <4> QED BY <1>0, <4>1
    <3>5. e[i - 1] = e1[m] + e2[(i - m) - 1]
      <4>1. CASE i - 1 = m
        <5>1. (i - m) - 1 = 0 /\ i - 1 <= m
          BY <3>1, <4>1
        <5>2. e2[(i - m) - 1] = 0
          BY <1>0, <5>1
        <5>3. e[i - 1] = e1[i - 1] /\ e1[i - 1] = e1[m]
          BY <3>1, <4>1, <5>1
        <5> HIDE DEF e
        <5> QED BY <3>4, <5>2, <5>3
      <4>2. CASE i - 1 # m
        <5>1. ~(i - 1 <= m) /\ (i - 1) - m = (i - m) - 1
          BY <2>2, <4>2
        <5> QED BY <3>1, <5>1
      <4> QED BY <4>1, <4>2
    <3>6. f[i] \in Int
      BY <3>1, <3>2
    <3> HIDE DEF e
    <3> QED BY <3>2, <3>3, <3>4, <3>5, <3>6
  <2> QED BY <2>1, <2>2
<1>3. e[0] = 0
  BY <1>0
<1>4. e[m + c] = e1[m] + e2[c]
  <2>1. CASE c = 0
    <3>1. e[m + c] = e1[m] /\ e1[m] \in Int
      BY <1>0, <2>1
    <3> QED BY <1>0, <2>1, <3>1
  <2>2. CASE c # 0
    <3>1. ~(m + c <= m) /\ (m + c) - m = c /\ m + c \in 0 .. m + c
      BY <2>2
    <3> QED BY <3>1
  <2> QED BY <2>1, <2>2
<1>5. e \in [0 .. m + c -> Int]
  BY <1>1
<1> HIDE DEF e
<1> QED
  BY <1>2, <1>3, <1>4, <1>5 DEF Adds
\* The lots are of the shares from + 1 to to of X; off has the last share of each.
Reaches(off, lots, X, from, to) ==
  /\ off \in [0 .. Len(lots) -> Nat] /\ off[0] = from /\ off[Len(lots)] = to
  /\ \A j \in 0 .. Len(lots) : from <= off[j] /\ off[j] <= to
  /\ \A j \in 1 .. Len(lots) :
       /\ off[j] = off[j - 1] + lots[j].qty
       /\ \A i \in off[j - 1] + 1 .. off[j] : X[i] = lots[j].price
Spans(lots, X, from, to) == \E off : Reaches(off, lots, X, from, to)

LEMMA LotsAre ==
  ASSUME NEW lots \in Lots
  PROVE  /\ Len(lots) \in Nat /\ DOMAIN lots = 1 .. Len(lots)
         /\ lots = <<>> <=> Len(lots) = 0
         /\ \A j \in 1 .. Len(lots) : lots[j] \in Lot
  BY LenProperties, ElementOfSeq, EmptySeq DEF Lots

LEMMA SpansNothing == ASSUME NEW X, NEW m \in Nat PROVE <<>> \in Lots /\ Spans(<<>>, X, m, m)
<1> DEFINE off == [j \in 0 .. 0 |-> m]
<1>1. <<>> \in Lots /\ Len(<<>>) = 0
  BY EmptySeq DEF Lots
<1>2. Reaches(off, <<>>, X, m, m)
  BY <1>1 DEF Reaches
<1> QED BY <1>1, <1>2 DEF Spans

LEMMA NothingSpanned ==
  ASSUME NEW lots \in Lots, NEW X, NEW m \in Nat, Spans(lots, X, m, m)
  PROVE  lots = <<>>
<1>1. PICK off : Reaches(off, lots, X, m, m)
  BY DEF Spans
<1> SUFFICES ASSUME Len(lots) # 0 PROVE FALSE
  BY LotsAre
<1>2. 1 \in 1 .. Len(lots) /\ 1 \in 0 .. Len(lots) /\ 1 - 1 = 0
  BY LotsAre
<1>3. off[1] = off[0] + lots[1].qty /\ off[0] = m /\ off[1] <= m
  BY <1>1, <1>2 DEF Reaches
<1>4. lots[1].qty \in Nat \ {0}
  BY <1>2, LotsAre DEF Lot
<1> QED BY <1>3, <1>4

LEMMA SpanTyped ==
  ASSUME NEW lots \in Lots, NEW X, NEW from, NEW to, Spans(lots, X, from, to)
  PROVE  from \in Nat /\ to \in Nat /\ from <= to
<1>1. PICK off : Reaches(off, lots, X, from, to)
  BY DEF Spans
<1>2. 0 \in 0 .. Len(lots) /\ Len(lots) \in 0 .. Len(lots)
  BY LotsAre
<1> QED BY <1>1, <1>2 DEF Reaches

\* SharesOf beyond the lots do not matter.
LEMMA SpansAlso ==
  ASSUME NEW lots \in Lots, NEW X, NEW Y, NEW from, NEW to, Spans(lots, X, from, to),
         \A i \in 1 .. to : Y[i] = X[i]
  PROVE  Spans(lots, Y, from, to)
<1>1. PICK off : Reaches(off, lots, X, from, to)
  BY DEF Spans
<1>2. ASSUME NEW j \in 1 .. Len(lots), NEW i \in off[j - 1] + 1 .. off[j] PROVE Y[i] = lots[j].price
  <2>1. j \in 0 .. Len(lots) /\ j - 1 \in 0 .. Len(lots)
    BY LotsAre
  <2>2. off[j] \in Nat /\ off[j - 1] \in Nat /\ off[j] <= to /\ to \in Nat
    BY <1>1, <2>1, SpanTyped DEF Reaches
  <2>3. i \in 1 .. to
    BY <2>2
  <2>4. X[i] = lots[j].price
    BY <1>1 DEF Reaches
  <2> QED BY <2>3, <2>4
<1>3. Reaches(off, lots, Y, from, to)
  BY <1>1, <1>2 DEF Reaches
<1> QED BY <1>3 DEF Spans

\* One more lot, of the shares that follow.
LEMMA SpansMore ==
  ASSUME NEW lots \in Lots, NEW X, NEW from, NEW to, Spans(lots, X, from, to),
         NEW lot \in Lot, \A i \in to + 1 .. to + lot.qty : X[i] = lot.price
  PROVE  Append(lots, lot) \in Lots /\ Spans(Append(lots, lot), X, from, to + lot.qty)
<1> DEFINE n == Len(lots)
           more == Append(lots, lot)
<1>1. PICK off : Reaches(off, lots, X, from, to)
  BY DEF Spans
<1>2. /\ n \in Nat /\ more \in Lots /\ Len(more) = n + 1
      /\ \A j \in 1 .. n : more[j] = lots[j]
      /\ more[n + 1] = lot
  BY LotsAre, AppendProperties DEF Lots
<1>3. from \in Nat /\ to \in Nat /\ from <= to /\ lot.qty \in Nat \ {0} /\ to + lot.qty \in Nat
  BY SpanTyped DEF Lot
<1> DEFINE off2 == [j \in 0 .. n + 1 |-> IF j <= n THEN off[j] ELSE to + lot.qty]
<1>4. /\ off \in [0 .. n -> Nat] /\ off[0] = from /\ off[n] = to
      /\ \A j \in 0 .. n : from <= off[j] /\ off[j] <= to
      /\ \A j \in 1 .. n : off[j] = off[j - 1] + lots[j].qty
      /\ \A j \in 1 .. n : \A i \in off[j - 1] + 1 .. off[j] : X[i] = lots[j].price
  BY <1>1 DEF Reaches
<1> HIDE DEF n, more
<1>5. /\ \A j \in 0 .. n : off2[j] = off[j]
      /\ off2[n + 1] = to + lot.qty
  BY <1>2
<1>6. off2 \in [0 .. n + 1 -> Nat] /\ off2[0] = from
  BY <1>2, <1>3, <1>4
<1>7. \A j \in 0 .. n + 1 : from <= off2[j] /\ off2[j] <= to + lot.qty
  <2> SUFFICES ASSUME NEW j \in 0 .. n + 1 PROVE from <= off2[j] /\ off2[j] <= to + lot.qty
    OBVIOUS
  <2>1. CASE j = n + 1
    BY <1>3, <1>5, <2>1
  <2>2. CASE j # n + 1
    <3>1. j \in 0 .. n
      BY <1>2, <2>2
    <3>2. off2[j] = off[j] /\ off[j] \in Nat /\ from <= off[j] /\ off[j] <= to
      BY <1>4, <1>5, <3>1
    <3> HIDE DEF off2
    <3> QED BY <1>3, <3>2
  <2> QED BY <2>1, <2>2
<1>8. ASSUME NEW j \in 1 .. n + 1
      PROVE  /\ off2[j] = off2[j - 1] + more[j].qty
             /\ \A i \in off2[j - 1] + 1 .. off2[j] : X[i] = more[j].price
  <2>1. CASE j = n + 1
    <3>1. j - 1 = n /\ n \in 0 .. n
      BY <1>2, <2>1
    <3>2. off2[j] = to + lot.qty /\ off2[j - 1] = to /\ more[j] = lot
      BY <1>2, <1>4, <1>5, <2>1, <3>1
    <3> HIDE DEF off2
    <3> QED BY <3>2
  <2>2. CASE j # n + 1
    <3>1. j \in 1 .. n /\ j \in 0 .. n /\ j - 1 \in 0 .. n
      BY <1>2, <2>2
    <3>2. off2[j] = off[j] /\ off2[j - 1] = off[j - 1] /\ more[j] = lots[j]
      BY <1>2, <1>5, <3>1
    <3> HIDE DEF off2
    <3> QED BY <1>4, <3>1, <3>2
  <2> QED BY <2>1, <2>2
<1> HIDE DEF off2
<1>9. Reaches(off2, more, X, from, to + lot.qty)
  BY <1>2, <1>5, <1>6, <1>7, <1>8 DEF Reaches
<1> QED BY <1>2, <1>9 DEF Spans, more
LEMMA RestOfLot ==
  ASSUME NEW lot \in Lot, NEW c \in Nat, lot.qty > c
  PROVE  LET left == [lot EXCEPT !.qty = @ - c]
         IN left \in Lot /\ left.qty = lot.qty - c /\ left.price = lot.price
<1>1. lot = [qty |-> lot.qty, price |-> lot.price] /\ lot.qty \in Nat /\ lot.price \in Int
  BY DEF Lot
<1>2. lot.qty - c \in Nat \ {0}
  BY <1>1
<1>3. [lot EXCEPT !.qty = @ - c] = [qty |-> lot.qty - c, price |-> lot.price]
  BY <1>1
<1> QED BY <1>1, <1>2, <1>3 DEF Lot

\* What the shares of X after from cost at that price.
Loss(X, from, price, sign, N) == [i \in 1 .. N |-> sign * (price - X[from + i])]

LEMMA SignedInt ==
  ASSUME NEW sign \in {1, -1}, NEW x \in Int PROVE sign * x \in Int
<1>1. sign \in Int
  OBVIOUS
<1> QED BY <1>1

\* m is what the order leaves, the lots it leaves, and what it realised.
Takes(m, X, from, qty, price, sign) ==
  LET c == Smaller(qty, Len(X) - from)
  IN /\ m \in [left : Nat, realized : Int, rest : Lots]
     /\ m.left = qty - c /\ Spans(m.rest, X, from + c, Len(X))
     /\ \E e : Adds(e, Loss(X, from, price, sign, c), c) /\ m.realized = e[c]

\* Matched goes through the lots: before one that it does not close there are none left
\* of those it has been through (At).
LEMMA MatchTakes ==
  ASSUME NEW lots \in Lots, NEW X \in Seq(Int), NEW from, Spans(lots, X, from, Len(X)),
         NEW qty \in Nat, NEW price \in Int, NEW sign \in {1, -1}
  PROVE  Takes(Matched(lots, qty, price, sign), X, from, qty, price, sign)
<1> DEFINE to == Len(X)
           n == Len(lots)
           V == [left : Nat, realized : Int, rest : Lots]
           f == Loss(X, from, price, sign, to - from)
<1>1. /\ from \in Nat /\ to \in Nat /\ from <= to /\ to - from \in Nat
      /\ \A i \in 1 .. to : X[i] \in Int
      /\ n \in Nat /\ \A j \in 1 .. n : lots[j] \in Lot /\ lots[j].qty \in Nat \ {0}
                                        /\ lots[j].price \in Int
  BY SpanTyped, LotsAre, LenProperties, ElementOfSeq DEF Lot
<1>2. PICK off : Reaches(off, lots, X, from, to)
  BY DEF Spans
<1>3. PICK a : /\ a[0] = [left |-> qty, realized |-> 0, rest |-> <<>>]
               /\ \A k \in 1 .. n : a[k] = CloseLot(a[k - 1], lots[k], price, sign)
               /\ Matched(lots, qty, price, sign) = a[n]
  BY MatchedRuns
<1>4. \A i \in 1 .. to - from : f[i] = sign * (price - X[from + i]) /\ f[i] \in Int
  <2> SUFFICES ASSUME NEW i \in 1 .. to - from
               PROVE  f[i] = sign * (price - X[from + i]) /\ f[i] \in Int
    OBVIOUS
  <2>1. from + i \in 1 .. to
    BY <1>1
  <2>2. price - X[from + i] \in Int
    BY <1>1, <2>1
  <2> QED BY <2>2, SignedInt DEF Loss
<1> HIDE DEF to, n, V, f
<1>5. PICK e : Adds(e, f, to - from)
  BY <1>1, <1>4, AddsExist
<1>6. /\ off \in [0 .. n -> Nat] /\ off[0] = from /\ off[n] = to
      /\ \A j \in 0 .. n : off[j] \in Nat /\ from <= off[j] /\ off[j] <= to
      /\ \A j \in 1 .. n : /\ off[j] = off[j - 1] + lots[j].qty
                           /\ \A i \in off[j - 1] + 1 .. off[j] : X[i] = lots[j].price
  BY <1>2 DEF Reaches, n
<1> DEFINE Taken(j) == Smaller(qty, off[j] - from)
           At(j) == /\ a[j] \in V /\ a[j].left = qty - Taken(j)
                    /\ a[j].left > 0 => a[j].rest = <<>>
                    /\ Spans(a[j].rest, X, from + Taken(j), off[j])
                    /\ a[j].realized = e[Taken(j)]
           Done == {j \in Nat : j <= n => At(j)}
<1>7. 0 \in Done
  <2>1. Taken(0) = 0
    BY <1>1, <1>6 DEF Smaller
  <2>2. a[0] \in V /\ a[0].left = qty /\ a[0].realized = 0 /\ a[0].rest = <<>>
    BY <1>3, SpansNothing DEF V
  <2>3. Spans(a[0].rest, X, from + 0, off[0])
    <3>1. from + 0 = from /\ off[0] = from
      BY <1>1, <1>6
    <3> QED BY <1>1, <2>2, <3>1, SpansNothing
  <2>4. e[0] = 0
    BY <1>5 DEF Adds
  <2> HIDE DEF Taken
  <2> QED BY <2>1, <2>2, <2>3, <2>4
<1>8. ASSUME NEW j \in 1 .. n, At(j - 1) PROVE At(j)
  <2> DEFINE b == a[j - 1]
             lot == lots[j]
             c == Smaller(b.left, lot.qty)
             before == Taken(j - 1)
  <2>1. /\ j - 1 \in 0 .. n /\ j \in 0 .. n /\ n \in Nat
        /\ lot \in Lot /\ lot.qty \in Nat \ {0} /\ lot.price \in Int
        /\ off[j - 1] \in Nat /\ off[j] \in Nat /\ from <= off[j - 1] /\ off[j] <= to
        /\ off[j] = off[j - 1] + lot.qty
        /\ \A i \in off[j - 1] + 1 .. off[j] : X[i] = lot.price
    BY <1>1, <1>6
  <2>2. /\ b.left \in Nat /\ b.realized \in Int /\ b.rest \in Lots
        /\ b.left = qty - before
        /\ b.left > 0 => b.rest = <<>>
        /\ Spans(b.rest, X, from + before, off[j - 1])
        /\ b.realized = e[before]
    BY <1>8 DEF V
  <2>3. a[j] = CloseLot(b, lot, price, sign)
    BY <1>3
  <2>4. a[j] \in V
    <3>1. b \in [left : Nat, realized : Int, rest : Lots]
      BY <1>8 DEF V
    <3>2. lot \in Lot
      BY <2>1
    <3> HIDE DEF b, lot
    <3>3. CloseLot(b, lot, price, sign) \in [left : Nat, realized : Int, rest : Lots]
      BY <3>1, <3>2, ClosedTyped
    <3> QED BY <2>3, <3>3 DEF V
  <2>5. /\ a[j].left = b.left - c
        /\ a[j].realized = b.realized + sign * (price - lot.price) * c
        /\ a[j].rest = IF lot.qty > c THEN Append(b.rest, [lot EXCEPT !.qty = @ - c]) ELSE b.rest
    BY <2>3 DEF CloseLot
  <2>6. /\ c \in Nat /\ c <= b.left /\ c <= lot.qty /\ (c = b.left \/ c = lot.qty)
        /\ before \in Nat /\ before <= qty /\ from + before <= off[j - 1]
        /\ b.left > 0 => from + before = off[j - 1]
        /\ Taken(j) = before + c
    <3>0. before = (IF qty < off[j - 1] - from THEN qty ELSE off[j - 1] - from)
      BY DEF Smaller
    <3>1. /\ before \in Nat /\ before <= qty /\ from + before <= off[j - 1]
          /\ qty - before > 0 => from + before = off[j - 1]
      <4>1. /\ qty \in Nat /\ from \in Nat /\ off[j - 1] \in Nat /\ from <= off[j - 1]
        BY <1>1, <2>1
      <4> HIDE DEF before
      <4>2. CASE qty < off[j - 1] - from
        <5>1. before = qty
          BY <3>0, <4>2
        <5> QED BY <4>1, <4>2, <5>1
      <4>3. CASE ~(qty < off[j - 1] - from)
        <5>1. before = off[j - 1] - from
          BY <3>0, <4>3
        <5> QED BY <4>1, <4>3, <5>1
      <4> QED BY <4>2, <4>3
    <3>2. c = (IF b.left < lot.qty THEN b.left ELSE lot.qty)
      BY DEF Smaller
    <3> HIDE DEF b, lot, c
    <3>3. c \in Nat /\ c <= b.left /\ c <= lot.qty /\ (c = b.left \/ c = lot.qty)
      BY <2>1, <2>2, <3>2
    <3>4. Taken(j) = IF qty < off[j] - from THEN qty ELSE off[j] - from
      BY DEF Smaller
    <3> HIDE DEF before, Taken
    <3>5. Taken(j) = before + c
      <4>1. off[j] = off[j - 1] + lot.qty /\ b.left = qty - before
        BY <2>1, <2>2
      <4>2. off[j - 1] \in Nat /\ lot.qty \in Nat /\ from \in Nat /\ from <= off[j - 1]
        BY <1>1, <2>1
      <4>3. CASE qty < off[j - 1] - from
        <5>1. before = qty /\ b.left = 0 /\ c = 0
          BY <3>0, <3>2, <4>1, <4>2, <4>3
        <5> QED BY <3>4, <4>1, <4>2, <4>3, <5>1
      <4>4. CASE ~(qty < off[j - 1] - from)
        <5>1. before = off[j - 1] - from /\ b.left = qty - (off[j - 1] - from)
          BY <3>0, <4>1, <4>4
        <5>2. CASE b.left < lot.qty
          <6>1. c = b.left
            BY <3>2, <5>2
          <6>2. before + c = qty
            BY <1>1, <4>1, <4>2, <5>1, <6>1
          <6>3. qty < off[j] - from
            BY <1>1, <4>1, <4>2, <5>1, <5>2
          <6> QED BY <3>4, <6>2, <6>3
        <5>3. CASE ~(b.left < lot.qty)
          <6>1. c = lot.qty
            BY <3>2, <5>3
          <6>2. before + c = off[j] - from
            BY <1>1, <4>1, <4>2, <5>1, <6>1
          <6>3. ~(qty < off[j] - from)
            <7>1. qty \in Nat
              BY <1>1
            <7> QED BY ONLY <4>1, <4>2, <5>1, <5>3, <7>1
          <6> QED BY <3>4, <6>2, <6>3
        <5> QED BY <5>2, <5>3
      <4> QED BY <4>3, <4>4
    <3> QED BY <2>2, <3>1, <3>3, <3>5
  <2> HIDE DEF b, lot, c, before, Taken
  <2>7. a[j].left = qty - Taken(j)
    BY <2>2, <2>5, <2>6
  <2>8. a[j].left > 0 => a[j].rest = <<>>
    BY <2>2, <2>5, <2>6
  <2>9. Spans(a[j].rest, X, from + Taken(j), off[j])
    <3>1. CASE lot.qty > c
      <4> DEFINE left == [lot EXCEPT !.qty = @ - c]
                 start == off[j - 1] + c
      <4>1. left \in Lot /\ left.qty = lot.qty - c /\ left.price = lot.price
        BY <2>1, <2>6, <3>1, RestOfLot
      <4> HIDE DEF left
      <4>2. start \in Nat /\ start + left.qty = off[j]
        <5>1. /\ off[j - 1] \in Nat /\ c \in Nat /\ lot.qty \in Nat /\ off[j] = off[j - 1] + lot.qty
              /\ left.qty = lot.qty - c
          BY <2>1, <2>6, <4>1
        <5> QED BY <5>1
      <4>3. \A i \in start + 1 .. start + left.qty : X[i] = left.price
        BY <2>1, <2>6, <4>1, <4>2
      <4>4. Spans(b.rest, X, from + Taken(j), start)
        <5>1. CASE b.left > 0
          <6>1. b.rest = <<>> /\ from + Taken(j) = start
            BY <1>1, <2>1, <2>2, <2>6, <5>1
          <6> QED BY <4>2, <6>1, SpansNothing
        <5>2. CASE ~(b.left > 0)
          <6>1. c = 0 /\ Taken(j) = before /\ start = off[j - 1]
            BY <2>1, <2>2, <2>6, <5>2
          <6> QED BY <2>2, <6>1
        <5> QED BY <5>1, <5>2
      <4> HIDE DEF start
      <4>5. Spans(Append(b.rest, left), X, from + Taken(j), start + left.qty)
        BY <2>2, <4>1, <4>3, <4>4, SpansMore
      <4>6. a[j].rest = Append(b.rest, left)
        BY <2>5, <3>1 DEF left
      <4> QED BY <4>2, <4>5, <4>6
    <3>2. CASE ~(lot.qty > c)
      <4>1. c = lot.qty /\ b.left > 0
        BY <2>1, <2>2, <2>6, <3>2
      <4>2. from + Taken(j) = off[j] /\ a[j].rest = <<>>
        BY <1>1, <2>1, <2>2, <2>5, <2>6, <3>2, <4>1
      <4> QED BY <2>1, <4>2, SpansNothing
    <3> QED BY <3>1, <3>2
  <2>10. a[j].realized = e[Taken(j)]
    <3> DEFINE v == sign * (price - lot.price)
    <3>1. v \in Int
      BY <2>1, SignedInt
    <3>2. before + c <= to - from
      <4>1. /\ before \in Nat /\ c \in Nat /\ from \in Nat /\ to \in Nat /\ off[j] \in Nat
            /\ off[j - 1] \in Nat /\ lot.qty \in Nat /\ off[j] <= to
            /\ off[j] = off[j - 1] + lot.qty /\ from + before <= off[j - 1] /\ c <= lot.qty
        BY <1>1, <2>1, <2>6
      <4> QED BY <4>1
    <3>3. \A i \in before + 1 .. before + c : f[i] = v
      <4> SUFFICES ASSUME NEW i \in before + 1 .. before + c PROVE f[i] = v
        OBVIOUS
      <4>1. i \in 1 .. to - from /\ from + i \in off[j - 1] + 1 .. off[j]
        <5>1. i \in Nat /\ before < i /\ i <= before + c /\ before \in Nat /\ c \in Nat
          BY <2>6
        <5>2. b.left > 0
          <6>1. c > 0
            BY <5>1
          <6>2. c <= b.left /\ b.left \in Nat
            BY <2>2, <2>6
          <6> QED BY <5>1, <6>1, <6>2
        <5>3. from + before = off[j - 1] /\ c <= lot.qty /\ off[j] = off[j - 1] + lot.qty
          BY <2>1, <2>6, <5>2
        <5>4. from \in Nat /\ off[j - 1] \in Nat /\ to \in Nat /\ off[j] \in Nat /\ lot.qty \in Nat
          BY <1>1, <2>1
        <5> QED BY <3>2, <5>1, <5>3, <5>4
      <4>2. X[from + i] = lot.price
        BY <2>1, <4>1
      <4> QED BY <1>4, <4>1, <4>2
    <3> HIDE DEF v
    <3>4. e[before + c] = e[before] + v * c
      <4>1. to - from \in Nat /\ before \in Nat /\ c \in Nat
        BY <1>1, <2>6
      <4> DEFINE N == to - from
      <4>2. Adds(e, f, N) /\ N \in Nat /\ before + c <= N
        BY <1>5, <3>2, <4>1
      <4>3. Runs(f, before, c, v)
        BY <3>3 DEF Runs
      <4> HIDE DEF N
      <4> QED BY <3>1, <4>1, <4>2, <4>3, AddsRun
    <3>5. a[j].realized = b.realized + v * c
      BY <2>5 DEF v
    <3> QED BY <2>2, <2>6, <3>4, <3>5
  <2> QED
    BY <2>4, <2>7, <2>8, <2>9, <2>10
<1>9. ASSUME NEW j \in Done PROVE j + 1 \in Done
  <2>1. j \in Nat /\ j + 1 \in Nat /\ n \in Nat
    BY <1>1
  <2> HIDE DEF At
  <2> SUFFICES ASSUME j + 1 <= n PROVE At(j + 1)
    BY <2>1
  <2>2. j <= n /\ j + 1 \in 1 .. n /\ (j + 1) - 1 = j
    BY <2>1
  <2>3. At(j)
    BY <2>1, <2>2
  <2> QED BY <1>8, <2>2, <2>3
<1> HIDE DEF At, Done
<1>10. Done = Nat
  <2>1. Done \in SUBSET Nat
    BY DEF Done
  <2> QED BY <1>7, <1>9, <2>1, NatSetInduction
<1>11. At(n)
  <2>1. n \in Done
    BY <1>1, <1>10
  <2> QED BY <1>1, <2>1 DEF Done
<1> DEFINE c == Smaller(qty, to - from)
<1>12. Taken(n) = c
  BY <1>6
<1>13. c \in Nat /\ c <= to - from
  BY <1>1 DEF Smaller
<1> DEFINE early == [i \in 0 .. c |-> e[i]]
<1>14. Adds(early, Loss(X, from, price, sign, c), c) /\ early[c] = e[c]
  <2>1. \A i \in 1 .. c : Loss(X, from, price, sign, c)[i] = f[i]
    <3> SUFFICES ASSUME NEW i \in 1 .. c PROVE Loss(X, from, price, sign, c)[i] = f[i]
      OBVIOUS
    <3>1. i \in 1 .. to - from
      BY <1>1, <1>13
    <3> QED BY <1>4, <3>1 DEF Loss
  <2> QED
    <3>1. /\ \A i \in 1 .. c : i \in 1 .. to - from /\ i - 1 \in 0 .. c /\ i \in 0 .. c
          /\ \A i \in 0 .. c : i \in 0 .. to - from
          /\ 0 \in 0 .. c /\ c \in 0 .. c
      BY <1>1, <1>13
    <3> HIDE DEF c
    <3>2. \A i \in 0 .. c : early[i] = e[i] /\ e[i] \in Int
      BY <1>5, <3>1 DEF Adds
    <3>3. early \in [0 .. c -> Int]
      BY <3>2
    <3> HIDE DEF early
    <3>4. ASSUME NEW i \in 1 .. c
          PROVE  early[i] = early[i - 1] + Loss(X, from, price, sign, c)[i]
      <4>1. e[i] = e[i - 1] + f[i]
        BY <1>5, <3>1 DEF Adds
      <4> QED BY <2>1, <3>1, <3>2, <4>1
    <3>5. early[0] = 0
      BY <1>5, <3>1, <3>2 DEF Adds
    <3> QED BY <3>1, <3>2, <3>3, <3>4, <3>5 DEF Adds
<1>15. /\ a[n] \in V /\ a[n].left = qty - c /\ Spans(a[n].rest, X, from + c, to)
       /\ a[n].realized = early[c]
  BY <1>6, <1>11, <1>12, <1>14 DEF At
<1> HIDE DEF early, c, Taken
<1> QED
  BY <1>3, <1>14, <1>15 DEF V, to, c, Takes

Run(q, p) == [k \in 1 .. q |-> p]

\* The shares of one more order.
LEMMA SharesAdded ==
  ASSUME NEW O \in Seq(Int), NEW q \in Nat, NEW p \in Int
  PROVE  LET O2 == O \o Run(q, p)
         IN /\ O2 \in Seq(Int) /\ Len(O2) = Len(O) + q
            /\ SameTo(O2, O, Len(O)) /\ Runs(O2, Len(O), q, p)
<1> DEFINE more == Run(q, p)
           O2 == O \o more
<1>1. more \in Seq(Int) /\ Len(more) = q /\ \A k \in 1 .. q : more[k] = p
  BY IsASeq DEF Run
<1> HIDE DEF more
<1>2. /\ O2 \in Seq(Int) /\ Len(O2) = Len(O) + q
      /\ \A i \in 1 .. Len(O) + q : O2[i] = IF i <= Len(O) THEN O[i] ELSE more[i - Len(O)]
  BY <1>1, ConcatProperties
<1> DEFINE n == Len(O)
<1>3. n \in Nat
  BY LenProperties
<1> HIDE DEF O2, n
<1>4. SameTo(O2, O, n)
  BY <1>2, <1>3 DEF SameTo, n
<1>5. ASSUME NEW i \in n + 1 .. n + q PROVE O2[i] = p
  <2>1. i \in 1 .. n + q /\ ~(i <= n) /\ i - n \in 1 .. q
    BY <1>3
  <2>2. O2[i] = more[i - n]
    BY <1>2, <2>1 DEF n
  <2> QED BY <1>1, <2>1, <2>2
<1>6. Runs(O2, n, q, p)
  BY <1>5 DEF Runs
<1> QED BY <1>2, <1>4, <1>6 DEF O2, n, more

\* How far both sides go, before and after q more shares of one side.
LEMMA PairsAfter ==
  ASSUME NEW a \in Nat, NEW b \in Nat, NEW q \in Nat \ {0}
  PROVE  LET m == Smaller(a, b)
             c == Smaller(q, b - m)
         IN /\ m \in Nat /\ c \in Nat /\ m <= a /\ m <= b /\ c <= q /\ m + c <= b
            /\ Smaller(a + q, b) = m + c /\ Smaller(b, a + q) = m + c /\ Smaller(b, a) = m
            /\ c > 0 => m = a
            /\ c < q => m + c = b
  BY DEF Smaller

\* What is left of the order opens a lot of its own shares, behind the pairs.
LEMMA OwnSpans ==
  ASSUME NEW own \in Lots, NEW O, NEW O2, NEW n \in Nat, NEW q \in Nat \ {0}, NEW p \in Int,
         NEW m \in Nat, NEW c \in Nat, m <= n, c <= q, c > 0 => m = n,
         Spans(own, O, m, n), SameTo(O2, O, n), Runs(O2, n, q, p)
  PROVE  LET new == own \o NewLot(q - c, p)
         IN new \in Lots /\ Spans(new, O2, m + c, n + q)
<1>1. Spans(own, O2, m, n)
  BY SpansAlso DEF SameTo
<1>2. c > 0 => own = <<>>
  BY NothingSpanned
<1>3. CASE c = q
  <2>1. NewLot(q - c, p) = <<>> /\ own = <<>> /\ m + c = n + q
    BY <1>2, <1>3 DEF NewLot
  <2>2. own \o <<>> = own
    BY ConcatEmptySeq DEF Lots
  <2> QED BY <2>1, <2>2, SpansNothing
<1>4. CASE c # q
  <2> DEFINE lot == [qty |-> q - c, price |-> p]
  <2>1. lot \in Lot /\ lot.qty = q - c /\ lot.price = p
    BY <1>4 DEF Lot
  <2>2. NewLot(q - c, p) = <<lot>>
    BY <1>4 DEF NewLot
  <2>3. own \o <<lot>> = Append(own, lot)
    BY <2>1, AppendIsConcat DEF Lots
  <2> HIDE DEF lot
  <2>4. Spans(own, O2, m + c, n + c)
    <3>1. CASE c = 0
      <4>1. m + c = m /\ n + c = n
        BY <3>1
      <4> QED BY <1>1, <4>1
    <3>2. CASE c # 0
      <4>1. own = <<>> /\ m + c = n + c /\ n + c \in Nat
        BY <1>2, <3>2
      <4> QED BY <4>1, SpansNothing
    <3> QED BY <3>1, <3>2
  <2>5. \A i \in (n + c) + 1 .. (n + c) + lot.qty : O2[i] = lot.price
    <3> SUFFICES ASSUME NEW i \in (n + c) + 1 .. (n + c) + lot.qty PROVE O2[i] = p
      BY <2>1
    <3>1. i \in n + 1 .. n + q
      BY <2>1
    <3> QED BY <3>1 DEF Runs
  <2> DEFINE to == n + c
  <2>6. to + lot.qty = n + q
    BY <2>1
  <2> HIDE DEF to
  <2>7. Append(own, lot) \in Lots /\ Spans(Append(own, lot), O2, m + c, to + lot.qty)
    BY <2>1, <2>4, <2>5, SpansMore DEF to
  <2> QED BY <2>2, <2>3, <2>6, <2>7
<1> QED BY <1>3, <1>4

\* What the first N shares of a side bring against those of the other.
Gains(O, X, sign, N) == [i \in 1 .. N |-> sign * (O[i] - X[i])]

\* They bring v in all.
Brings(v, O, X, sign, N) == \E e : Adds(e, Gains(O, X, sign, N), N) /\ v = e[N]
Costs(v, X, from, price, sign, N) == \E e : Adds(e, Loss(X, from, price, sign, N), N) /\ v = e[N]

\* q shares at p follow the n of O, and c of them meet those of the other side.
Grows(O2, O, n, q, p) == SameTo(O2, O, n) /\ Runs(O2, n, q, p)
Meets(m, c, n, q, N) ==
  {m, c, n, q} \subseteq Nat /\ m <= n /\ c <= q /\ m + c <= N /\ (c > 0 => m = n)

LEMMA GainsGoOn ==
  ASSUME NEW O, NEW O2, NEW X \in Seq(Int), NEW n, NEW q, NEW p \in Int, NEW sign \in {1, -1},
         NEW m, NEW c, Meets(m, c, n, q, Len(X)), Grows(O2, O, n, q, p),
         NEW v, Brings(v, O, X, sign, m), NEW r, Costs(r, X, m, p, sign, c),
         NEW w, w = v + r, NEW k, k = m + c
  PROVE  Brings(w, O2, X, sign, k)
<1> DEFINE f == Gains(O2, X, sign, m + c)
           f1 == Gains(O, X, sign, m)
           f2 == Loss(X, m, p, sign, c)
           N == Len(X)
<1>0. /\ N \in Nat /\ m + c <= N /\ \A i \in 1 .. N : X[i] \in Int
      /\ m \in Nat /\ c \in Nat /\ n \in Nat /\ q \in Nat /\ m <= n /\ c <= q /\ (c > 0 => m = n)
  BY LenProperties, ElementOfSeq DEF Meets
<1>1. ASSUME NEW i \in 1 .. c PROVE f2[i] \in Int /\ f[m + i] = f2[i]
  <2>1. m + i \in 1 .. N /\ m + i \in 1 .. m + c /\ m + i \in n + 1 .. n + q
    BY <1>0
  <2>2. X[m + i] \in Int /\ O2[m + i] = p
    BY <1>0, <2>1 DEF Runs, Grows
  <2>3. p - X[m + i] \in Int
    BY <2>2
  <2>4. sign * (p - X[m + i]) \in Int
    BY <2>3, SignedInt
  <2> QED BY <2>1, <2>2, <2>4 DEF Gains, Loss
<1>2. ASSUME NEW i \in 1 .. m PROVE f[i] = f1[i]
  <2>1. i \in 1 .. n /\ i \in 1 .. m + c
    BY <1>0
  <2>2. O2[i] = O[i]
    BY <2>1 DEF SameTo, Grows
  <2> QED BY <2>1, <2>2 DEF Gains
<1>3. PICK e, l : Adds(e, f1, m) /\ v = e[m] /\ Adds(l, f2, c) /\ r = l[c]
  BY DEF Brings, Costs
<1> HIDE DEF f, f1, f2
<1>5. SameTo(f, f1, m) /\ Continues(f, f2, m, c)
  BY <1>1, <1>2 DEF SameTo, Continues
<1>4. \E e2 : Adds(e2, f, m + c) /\ e2[m + c] = e[m] + l[c]
  BY <1>0, <1>3, <1>5, AddsJoin
<1> QED BY <1>3, <1>4 DEF f, Brings

\* The lots of two sides with the shares O and X are of those beyond the pairs, the
\* pairs bring v.
Balanced(own, other, O, X, v, sign) ==
  LET m == Smaller(Len(O), Len(X))
  IN /\ own \in Lots /\ other \in Lots /\ O \in Seq(Int) /\ X \in Seq(Int) /\ v \in Int
     /\ Spans(own, O, m, Len(O)) /\ Spans(other, X, m, Len(X))
     /\ Brings(v, O, X, sign, m)

\* One order of q shares at p against the lots of the other side.
LEMMA OrderTakes ==
  ASSUME NEW own, NEW other, NEW O, NEW X, NEW v, NEW sign \in {1, -1},
         Balanced(own, other, O, X, v, sign), NEW q \in Nat \ {0}, NEW p \in Int
  PROVE  LET t == Matched(other, q, p, sign)
         IN /\ t.realized \in Int
            /\ Balanced(own \o NewLot(t.left, p), t.rest, O \o Run(q, p), X,
                        v + t.realized, sign)
<1> DEFINE t == Matched(other, q, p, sign)
           O2 == O \o Run(q, p)
           n == Len(O)
           N == Len(X)
           m == Smaller(Len(O), Len(X))
           c == Smaller(q, N - m)
           m2 == Smaller(Len(O2), N)
           new == own \o NewLot(t.left, p)
<1>0. /\ own \in Lots /\ other \in Lots /\ O \in Seq(Int) /\ X \in Seq(Int) /\ v \in Int
      /\ Spans(own, O, m, Len(O)) /\ Spans(other, X, m, Len(X))
      /\ Brings(v, O, X, sign, m)
  BY DEF Balanced
<1>1. n \in Nat /\ N \in Nat
  BY <1>0, LenProperties
<1>2. O2 \in Seq(Int) /\ Len(O2) = n + q /\ SameTo(O2, O, n) /\ Runs(O2, n, q, p)
  BY <1>0, SharesAdded
<1>3. /\ t \in [left : Nat, realized : Int, rest : Lots]
      /\ t.left = q - c /\ Spans(t.rest, X, m + c, N)
      /\ Costs(t.realized, X, m, p, sign, c)
  <2>1. q \in Nat /\ Spans(other, X, m, Len(X))
    BY <1>0
  <2>2. Takes(t, X, m, q, p, sign)
    BY <1>0, <2>1, MatchTakes
  <2> QED BY <2>2 DEF Takes, Costs
<1> HIDE DEF t, O2, n, N
<1>4. m = Smaller(n, N)
  BY DEF n, N
<1>5. /\ m \in Nat /\ c \in Nat /\ m <= n /\ m <= N /\ c <= q /\ m + c <= N
      /\ m2 = m + c /\ (c > 0 => m = n)
  <2>1. LET k == Smaller(n, N)
            d == Smaller(q, N - k)
        IN /\ k \in Nat /\ d \in Nat /\ k <= n /\ k <= N /\ d <= q /\ k + d <= N
           /\ Smaller(n + q, N) = k + d /\ (d > 0 => k = n)
    <3>1. q \in Nat \ {0} /\ n \in Nat /\ N \in Nat
      BY <1>1
    <3> QED BY ONLY <3>1, PairsAfter
  <2> QED BY <1>2, <1>4, <2>1
<1> HIDE DEF c, m, m2
<1>6. Spans(own, O, m, n)
  BY <1>0 DEF n
<1>7. new \in Lots /\ Spans(new, O2, m + c, n + q)
  BY <1>0, <1>1, <1>2, <1>3, <1>5, <1>6, OwnSpans
<1>8. Brings(v + t.realized, O2, X, sign, m + c)
  <2>1. Meets(m, c, n, q, Len(X)) /\ Grows(O2, O, n, q, p)
    BY <1>1, <1>2, <1>5 DEF N, Meets, Grows
  <2>2. ASSUME NEW w, w = v + t.realized, NEW k, k = m + c PROVE Brings(w, O2, X, sign, k)
    <3>1. Costs(t.realized, X, m, p, sign, c) /\ Brings(v, O, X, sign, m) /\ X \in Seq(Int)
      BY <1>0, <1>3
    <3>2. p \in Int /\ sign \in {1, -1}
      OBVIOUS
    <3> QED BY ONLY <2>1, <2>2, <3>1, <3>2, GainsGoOn
  <2> QED BY <2>2
<1>10. t.rest \in Lots /\ t.realized \in Int
  BY <1>3
<1> HIDE DEF new
<1>11. /\ v + t.realized \in Int /\ Spans(new, O2, m2, Len(O2)) /\ Spans(t.rest, X, m2, N)
       /\ Brings(v + t.realized, O2, X, sign, m2)
  BY <1>0, <1>2, <1>3, <1>5, <1>7, <1>8, <1>10
<1>12. Balanced(new, t.rest, O2, X, v + t.realized, sign)
  BY <1>0, <1>2, <1>7, <1>10, <1>11 DEF Balanced, m2, N
<1> QED BY <1>10, <1>12 DEF new, t, O2
\* v is the sum of the pnl of the orders.
SumsTo(v, pnl) == \E e : Adds(e, pnl, Len(pnl)) /\ v = e[Len(pnl)]

LEMMA OneMore ==
  ASSUME NEW pnl \in Seq(Int), NEW r \in Int, NEW v, SumsTo(v, pnl)
  PROVE  Append(pnl, r) \in Seq(Int) /\ SumsTo(v + r, Append(pnl, r))
<1> DEFINE more == Append(pnl, r)
           n == Len(pnl)
           e2 == [i \in 0 .. 1 |-> IF i = 0 THEN 0 ELSE r]
           f2 == [i \in 1 .. 1 |-> r]
<1>1. PICK e : Adds(e, pnl, n) /\ v = e[n]
  BY DEF SumsTo
<1>2. /\ more \in Seq(Int) /\ Len(more) = n + 1 /\ n \in Nat
      /\ \A i \in 1 .. n : more[i] = pnl[i]
      /\ more[n + 1] = r
  BY AppendProperties, LenProperties
<1>3. Adds(e2, f2, 1) /\ e2[1] = r
  BY DEF Adds
<1> HIDE DEF more, n, e2
<1>4. SameTo(more, pnl, n) /\ Continues(more, f2, n, 1)
  BY <1>2 DEF SameTo, Continues
<1> HIDE DEF f2
<1>5. \E d : Adds(d, more, n + 1) /\ d[n + 1] = e[n] + e2[1]
  BY <1>1, <1>2, <1>3, <1>4, AddsJoin
<1>6. SumsTo(v + r, more)
  BY <1>1, <1>2, <1>3, <1>5 DEF SumsTo
<1> QED BY <1>2, <1>6 DEF more

\* Orders of any quantity and price, and books of them.
AnyOrder == [side : {"BUY", "SELL"}, qty : Nat \ {0}, price : Int,
          status : {"FILLED", "CANCELLED"}, ts : Nat, uid : Int]
AnyBook == [longs : Lots, shorts : Lots, pnl : Seq(Int)]
SharesOf(acc, o, side) ==
  IF o.status = "FILLED" /\ o.side = side THEN acc \o Run(o.qty, o.price) ELSE acc

\* What the book has realised is what the shares bring, pair by pair.
Paired(book, B, S) ==
  /\ book \in AnyBook
  /\ \E v : SumsTo(v, book.pnl) /\ Balanced(book.longs, book.shorts, B, S, v, -1)

LEMMA NothingPaired == Paired(EmptyBook, <<>>, <<>>)
<1>1. <<>> \in Seq(Int) /\ <<>> \in Lots /\ Len(<<>>) = 0
  BY EmptySeq DEF Lots
<1>2. EmptyBook \in AnyBook
  BY <1>1 DEF EmptyBook, AnyBook
<1>3. Smaller(0, 0) = 0
  BY DEF Smaller
<1>4. Spans(<<>>, <<>>, 0, 0)
  BY SpansNothing
<1> DEFINE e == [i \in 0 .. 0 |-> 0]
<1>5. \A f : Adds(e, f, 0) /\ e[0] = 0
  BY DEF Adds
<1> HIDE DEF e
<1>6. SumsTo(0, <<>>) /\ Brings(0, <<>>, <<>>, -1, 0)
  BY <1>1, <1>5 DEF SumsTo, Brings
<1> QED
  BY <1>1, <1>2, <1>3, <1>4, <1>6 DEF Paired, Balanced, EmptyBook

\* The same seen from the other side.
LEMMA GainsBack ==
  ASSUME NEW O, NEW X, NEW N \in Nat, \A i \in 1 .. N : O[i] \in Int /\ X[i] \in Int
  PROVE  Gains(O, X, 1, N) = Gains(X, O, -1, N)
<1>1. ASSUME NEW i \in 1 .. N PROVE 1 * (O[i] - X[i]) = (-1) * (X[i] - O[i])
  BY <1>1
<1> QED BY <1>1 DEF Gains

LEMMA BalancedBack ==
  ASSUME NEW own, NEW other, NEW O, NEW X, NEW v
  PROVE  Balanced(own, other, O, X, v, -1) <=> Balanced(other, own, X, O, v, 1)
<1> DEFINE m == Smaller(Len(O), Len(X))
<1> SUFFICES ASSUME O \in Seq(Int), X \in Seq(Int)
             PROVE  Balanced(own, other, O, X, v, -1) <=> Balanced(other, own, X, O, v, 1)
  BY DEF Balanced
<1>1. Len(O) \in Nat /\ Len(X) \in Nat
  BY LenProperties
<1>2. m = Smaller(Len(X), Len(O)) /\ m \in Nat /\ m <= Len(O) /\ m <= Len(X)
  BY <1>1 DEF Smaller
<1> HIDE DEF m
<1>3. ASSUME NEW i \in 1 .. m PROVE O[i] \in Int /\ X[i] \in Int
  <2>1. i \in 1 .. Len(O) /\ i \in 1 .. Len(X)
    BY <1>1, <1>2
  <2> QED BY <2>1, ElementOfSeq
<1>4. Gains(X, O, 1, m) = Gains(O, X, -1, m)
  BY <1>2, <1>3, GainsBack
<1>5. Brings(v, O, X, -1, m) <=> Brings(v, X, O, 1, m)
  BY <1>4 DEF Brings
<1> QED BY <1>2, <1>5 DEF Balanced, m

LEMMA BookKeepsPairs ==
  ASSUME NEW book, NEW B, NEW S, Paired(book, B, S), NEW o \in AnyOrder
  PROVE  Paired(BookOrder(book, o), SharesOf(B, o, "BUY"), SharesOf(S, o, "SELL"))
<1>1. /\ book \in AnyBook /\ book.longs \in Lots /\ book.shorts \in Lots /\ book.pnl \in Seq(Int)
  BY DEF Paired, AnyBook
<1>2. PICK v : SumsTo(v, book.pnl) /\ Balanced(book.longs, book.shorts, B, S, v, -1)
  BY DEF Paired
<1>3. o.qty \in Nat \ {0} /\ o.price \in Int /\ o.side \in {"BUY", "SELL"}
  BY DEF AnyOrder
<1> DEFINE q == o.qty
           p == o.price
           run == Run(q, p)
<1>5. CASE o.status # "FILLED"
  BY <1>5 DEF BookOrder, SharesOf
<1>6. CASE o.status = "FILLED" /\ o.side = "BUY"
  <2> DEFINE t == Matched(book.shorts, q, p, -1)
             new == book.longs \o NewLot(t.left, p)
             book2 == [longs |-> new, shorts |-> t.rest, pnl |-> Append(book.pnl, t.realized)]
  <2>1. BookOrder(book, o) = book2 /\ SharesOf(B, o, "BUY") = B \o run /\ SharesOf(S, o, "SELL") = S
    BY <1>6 DEF BookOrder, SharesOf
  <2>2. t.realized \in Int /\ Balanced(new, t.rest, B \o run, S, v + t.realized, -1)
    BY <1>2, <1>3, OrderTakes
  <2> HIDE DEF t, new, run
  <2>3. Append(book.pnl, t.realized) \in Seq(Int) /\ SumsTo(v + t.realized, Append(book.pnl, t.realized))
    BY <1>1, <1>2, <2>2, OneMore
  <2>4. book2 \in AnyBook
    BY <2>2, <2>3 DEF AnyBook, Balanced
  <2>5. Paired(book2, B \o run, S)
    BY <2>2, <2>3, <2>4 DEF Paired
  <2> QED BY <2>1, <2>5
<1>7. CASE o.status = "FILLED" /\ o.side = "SELL"
  <2> DEFINE t == Matched(book.longs, q, p, 1)
             new == book.shorts \o NewLot(t.left, p)
             book2 == [longs |-> t.rest, shorts |-> new, pnl |-> Append(book.pnl, t.realized)]
  <2>1. BookOrder(book, o) = book2 /\ SharesOf(B, o, "BUY") = B /\ SharesOf(S, o, "SELL") = S \o run
    BY <1>7 DEF BookOrder, SharesOf
  <2>0. Balanced(book.shorts, book.longs, S, B, v, 1)
    BY <1>2, BalancedBack
  <2>2. t.realized \in Int /\ Balanced(new, t.rest, S \o run, B, v + t.realized, 1)
    BY <1>3, <2>0, OrderTakes
  <2> HIDE DEF t, new, run
  <2>6. Balanced(t.rest, new, B, S \o run, v + t.realized, -1)
    BY <2>2, BalancedBack
  <2>3. Append(book.pnl, t.realized) \in Seq(Int) /\ SumsTo(v + t.realized, Append(book.pnl, t.realized))
    BY <1>1, <1>2, <2>2, OneMore
  <2>4. book2 \in AnyBook
    BY <2>2, <2>3 DEF AnyBook, Balanced
  <2>5. Paired(book2, B, S \o run)
    BY <2>3, <2>4, <2>6 DEF Paired
  <2> QED BY <2>1, <2>5
<1> QED
  BY <1>3, <1>5, <1>6, <1>7

\* The books and the shares of a side after each order.
LEMMA BooksRun ==
  ASSUME NEW n \in Nat, InTime \in [1 .. n -> AnyOrder]
  PROVE  \E a : /\ a[0] = EmptyBook
                /\ \A k \in 1 .. n : a[k] = BookOrder(a[k - 1], InTime[k])
                /\ Books = a[n]
<1> DEFINE V == {book \in AnyBook : \E B, S : Paired(book, B, S)}
           h == [p \in V \X (1 .. n) |-> BookOrder(p[1], InTime[p[2]])]
           Follows(g) == g = [T \in SUBSET DOMAIN InTime |->
             IF T = {} THEN EmptyBook ELSE BookOrder(g[T \ {Top(T)}], InTime[Top(T)])]
           it == CHOOSE g : Follows(g)
           a == [k \in 0 .. n |-> it[1 .. k]]
<1>1. DOMAIN InTime = 1 .. n /\ \A k \in 1 .. n : InTime[k] \in AnyOrder
  OBVIOUS
<1>2. EmptyBook \in V
  BY NothingPaired DEF Paired
<1>3. IsStep(h, n, V)
  <2>1. ASSUME NEW v \in V, NEW k \in 1 .. n PROVE BookOrder(v, InTime[k]) \in V
    <3>1. PICK B, S : Paired(v, B, S)
      OBVIOUS
    <3>2. \E B2, S2 : Paired(BookOrder(v, InTime[k]), B2, S2)
      BY <1>1, <3>1, BookKeepsPairs
    <3> QED BY <3>2 DEF Paired
  <2> HIDE DEF V
  <2> QED BY <2>1 DEF IsStep
<1>4. Books = it[DOMAIN InTime]
  BY DEF Books, FoldLeft, MapThenFoldSet, Max, Top
<1> HIDE DEF V, h
<1>5. Follows(it)
  <2>1. PICK g : FoldsOver(g, h, EmptyBook, n, V)
    BY <1>2, <1>3, FoldFound
  <2>2. Follows(g)
    BY <1>1, <2>1 DEF h, FoldsOver
  <2> QED BY <2>2
<1> HIDE DEF it
<1>6. a[0] = EmptyBook /\ a[n] = it[DOMAIN InTime]
  BY <1>1, <1>5, FirstOnes
<1>7. ASSUME NEW k \in 1 .. n PROVE a[k] = BookOrder(a[k - 1], InTime[k])
  <2>1. it[1 .. k] = BookOrder(it[1 .. (k - 1)], InTime[k])
    <3>1. /\ 1 .. k \in SUBSET DOMAIN InTime /\ 1 .. k # {}
          /\ Top(1 .. k) = k /\ (1 .. k) \ {k} = 1 .. (k - 1)
      BY <1>1, FirstOnes
    <3> QED BY <1>5, <3>1
  <2> QED BY <2>1, FirstOnes
<1> HIDE DEF a
<1> QED BY <1>4, <1>6, <1>7

LEMMA SharesRun ==
  ASSUME NEW n \in Nat, InTime \in [1 .. n -> AnyOrder], NEW side \in {"BUY", "SELL"}
  PROVE  \E a : /\ a[0] = <<>>
                /\ \A k \in 1 .. n : a[k] = SharesOf(a[k - 1], InTime[k], side)
                /\ SharePrices(side) = a[n]
<1> DEFINE V == Seq(Int)
           h == [p \in V \X (1 .. n) |-> SharesOf(p[1], InTime[p[2]], side)]
           Follows(g) == g = [T \in SUBSET DOMAIN InTime |->
             IF T = {} THEN <<>> ELSE SharesOf(g[T \ {Top(T)}], InTime[Top(T)], side)]
           it == CHOOSE g : Follows(g)
           a == [k \in 0 .. n |-> it[1 .. k]]
<1>1. DOMAIN InTime = 1 .. n /\ \A k \in 1 .. n : InTime[k] \in AnyOrder
  OBVIOUS
<1>2. <<>> \in V
  BY EmptySeq
<1>3. IsStep(h, n, V)
  <2>1. ASSUME NEW v \in V, NEW k \in 1 .. n PROVE SharesOf(v, InTime[k], side) \in V
    <3>1. InTime[k].qty \in Nat /\ InTime[k].price \in Int
      BY <1>1 DEF AnyOrder
    <3>2. v \o Run(InTime[k].qty, InTime[k].price) \in V
      BY <3>1, SharesAdded
    <3> QED BY <3>2 DEF SharesOf
  <2> HIDE DEF V
  <2> QED BY <2>1 DEF IsStep
<1>4. SharePrices(side) = it[DOMAIN InTime]
  BY DEF SharePrices, FoldLeft, MapThenFoldSet, Max, Top, SharesOf, Run
<1> HIDE DEF V, h
<1>5. Follows(it)
  <2>1. PICK g : FoldsOver(g, h, <<>>, n, V)
    BY <1>2, <1>3, FoldFound
  <2>2. Follows(g)
    BY <1>1, <2>1 DEF h, FoldsOver
  <2> QED BY <2>2
<1> HIDE DEF it
<1>6. a[0] = <<>> /\ a[n] = it[DOMAIN InTime]
  BY <1>1, <1>5, FirstOnes
<1>7. ASSUME NEW k \in 1 .. n PROVE a[k] = SharesOf(a[k - 1], InTime[k], side)
  <2>1. it[1 .. k] = SharesOf(it[1 .. (k - 1)], InTime[k], side)
    <3>1. /\ 1 .. k \in SUBSET DOMAIN InTime /\ 1 .. k # {}
          /\ Top(1 .. k) = k /\ (1 .. k) \ {k} = 1 .. (k - 1)
      BY <1>1, FirstOnes
    <3> QED BY <1>5, <3>1
  <2> QED BY <2>1, FirstOnes
<1> HIDE DEF a
<1> QED BY <1>4, <1>6, <1>7

\* The profits added, and the pairs.
LEMMA SumFound ==
  ASSUME NEW n \in Nat, NEW h, IsStep(h, n, Int)
  PROVE  \E g : FoldsOver(g, h, 0, n, Int)
<1> DEFINE V == Int
<1>1. 0 \in V /\ IsStep(h, n, V)
  OBVIOUS
<1> HIDE DEF V
<1>2. \E g : FoldsOver(g, h, 0, n, V)
  BY <1>1, FoldFound
<1> QED BY <1>2 DEF V

PairAdded(acc, B, S, k) == acc + S[k] - B[k]

LEMMA PnlIsSum ==
  ASSUME NEW pnl \in Seq(Int), Books.pnl = pnl, NEW v, SumsTo(v, pnl)
  PROVE  DerivedRealizedPnl = v
<1> DEFINE n == Len(pnl)
           h == [p \in Int \X (1 .. n) |-> p[1] + pnl[p[2]]]
           Follows(g) == g = [T \in SUBSET DOMAIN pnl |->
             IF T = {} THEN 0 ELSE g[T \ {Top(T)}] + pnl[Top(T)]]
           it == CHOOSE g : Follows(g)
           a == [k \in 0 .. n |-> it[1 .. k]]
<1>1. n \in Nat /\ DOMAIN pnl = 1 .. n /\ \A k \in 1 .. n : pnl[k] \in Int
  BY LenProperties, ElementOfSeq
<1>3. IsStep(h, n, Int)
  BY <1>1 DEF IsStep
<1>4. DerivedRealizedPnl = it[DOMAIN pnl]
  BY DEF DerivedRealizedPnl, FoldLeft, MapThenFoldSet, Max, Top
<1> HIDE DEF n, h
<1>5. Follows(it)
  <2>1. PICK g : FoldsOver(g, h, 0, n, Int)
    BY <1>1, <1>3, SumFound
  <2>2. Follows(g)
    BY <1>1, <2>1 DEF h, FoldsOver
  <2> QED BY <2>2
<1> HIDE DEF it
<1>6. a[0] = 0 /\ a[n] = it[DOMAIN pnl]
  BY <1>1, <1>5, FirstOnes
<1>7. ASSUME NEW k \in 1 .. n PROVE a[k] = a[k - 1] + pnl[k]
  <2>1. it[1 .. k] = it[1 .. (k - 1)] + pnl[k]
    <3>1. /\ 1 .. k \in SUBSET DOMAIN pnl /\ 1 .. k # {}
          /\ Top(1 .. k) = k /\ (1 .. k) \ {k} = 1 .. (k - 1)
      BY <1>1, FirstOnes
    <3> QED BY <1>5, <3>1
  <2> QED BY <1>1, <2>1, FirstOnes
<1> HIDE DEF a
<1>8. PICK e : Adds(e, pnl, n) /\ v = e[n]
  BY DEF SumsTo, n
<1>9. a[n] = e[n]
  <2>1. AddsUp(a, pnl, n)
    BY <1>6, <1>7 DEF AddsUp
  <2> QED BY <1>1, <1>8, <2>1, AddsOnce
<1> QED BY <1>4, <1>6, <1>8, <1>9

PairsTotal(B, S, m) ==
  LET Gain2(acc, k) == acc + S[k] - B[k] IN FoldLeft(Gain2, 0, [k \in 1 .. m |-> k])

LEMMA PairsAreSum ==
  ASSUME NEW B, NEW S, NEW m \in Nat, \A k \in 1 .. m : B[k] \in Int /\ S[k] \in Int,
         NEW v, Brings(v, B, S, -1, m)
  PROVE  PairsTotal(B, S, m) = v
<1> DEFINE ks == [k \in 1 .. m |-> k]
           h == [p \in Int \X (1 .. m) |-> PairAdded(p[1], B, S, ks[p[2]])]
           Follows(g) == g = [T \in SUBSET DOMAIN ks |->
             IF T = {} THEN 0 ELSE PairAdded(g[T \ {Top(T)}], B, S, ks[Top(T)])]
           it == CHOOSE g : Follows(g)
           a == [k \in 0 .. m |-> it[1 .. k]]
<1>1. DOMAIN ks = 1 .. m /\ \A k \in 1 .. m : ks[k] = k
  OBVIOUS
<1>3. IsStep(h, m, Int)
  BY DEF IsStep, PairAdded
<1>4. PairsTotal(B, S, m) = it[DOMAIN ks]
  BY DEF PairsTotal, FoldLeft, MapThenFoldSet, Max, Top, PairAdded
<1> HIDE DEF h, ks
<1>5. Follows(it)
  <2>1. PICK g : FoldsOver(g, h, 0, m, Int)
    BY <1>3, SumFound
  <2>2. Follows(g)
    BY <1>1, <2>1 DEF h, FoldsOver
  <2> QED BY <2>2
<1> HIDE DEF it
<1>6. a[0] = 0 /\ a[m] = it[DOMAIN ks]
  BY <1>1, <1>5, FirstOnes
<1>8. PICK e : Adds(e, Gains(B, S, -1, m), m) /\ v = e[m]
  BY DEF Brings
<1> DEFINE g == Gains(B, S, -1, m)
<1>7. ASSUME NEW k \in 1 .. m PROVE a[k] = a[k - 1] + S[k] - B[k]
  <2>1. it[1 .. k] = it[1 .. (k - 1)] + S[k] - B[k]
    <3>1. /\ 1 .. k \in SUBSET DOMAIN ks /\ 1 .. k # {}
          /\ Top(1 .. k) = k /\ (1 .. k) \ {k} = 1 .. (k - 1)
      BY <1>1, FirstOnes
    <3> QED BY <1>1, <1>5, <3>1 DEF PairAdded
  <2> QED BY <1>1, <2>1, FirstOnes
<1> HIDE DEF a
<1>9. \A k \in 1 .. m : g[k] = S[k] - B[k]
  <2> SUFFICES ASSUME NEW k \in 1 .. m PROVE g[k] = S[k] - B[k]
    OBVIOUS
  <2>1. g[k] = (-1) * (B[k] - S[k])
    BY DEF Gains
  <2> HIDE DEF g
  <2> QED BY <2>1
<1> HIDE DEF g
<1>10. a[m] = e[m]
  <2> DEFINE Same == {k \in Nat : k <= m => a[k] = e[k]}
  <2>0. Adds(e, g, m)
    BY <1>8 DEF g
  <2>1. 0 \in Same
    BY <1>6, <2>0 DEF Adds
  <2>2. ASSUME NEW k \in Same PROVE k + 1 \in Same
    <3>1. k \in Nat /\ k + 1 \in Nat
      OBVIOUS
    <3> SUFFICES ASSUME k + 1 <= m PROVE a[k + 1] = e[k + 1]
      BY <3>1
    <3>2. k + 1 \in 1 .. m /\ (k + 1) - 1 = k /\ k <= m /\ k \in 0 .. m
      BY <3>1
    <3>3. a[k] = e[k] /\ e[k] \in Int
      BY <2>0, <3>1, <3>2 DEF Adds
    <3>4. a[k + 1] = a[k] + S[k + 1] - B[k + 1] /\ e[k + 1] = e[k] + g[k + 1]
      BY <1>7, <2>0, <3>2 DEF Adds
    <3>5. g[k + 1] = S[k + 1] - B[k + 1] /\ S[k + 1] \in Int /\ B[k + 1] \in Int
      BY <1>9, <3>2
    <3> QED BY <3>3, <3>4, <3>5
  <2> HIDE DEF Same
  <2>3. Same = Nat
    <3>1. Same \in SUBSET Nat
      BY DEF Same
    <3> QED BY <2>1, <2>2, <3>1, NatSetInduction
  <2> QED BY <2>3 DEF Same
<1> QED BY <1>4, <1>6, <1>8, <1>10
LEMMA CoursePaired ==
  ASSUME NEW n \in Nat, InTime \in [1 .. n -> AnyOrder]
  PROVE  Paired(Books, SharePrices("BUY"), SharePrices("SELL"))
<1>1. PICK a : /\ a[0] = EmptyBook
               /\ \A k \in 1 .. n : a[k] = BookOrder(a[k - 1], InTime[k])
               /\ Books = a[n]
  BY BooksRun
<1>2. PICK b : /\ b[0] = <<>>
               /\ \A k \in 1 .. n : b[k] = SharesOf(b[k - 1], InTime[k], "BUY")
               /\ SharePrices("BUY") = b[n]
  BY SharesRun
<1>3. PICK s : /\ s[0] = <<>>
               /\ \A k \in 1 .. n : s[k] = SharesOf(s[k - 1], InTime[k], "SELL")
               /\ SharePrices("SELL") = s[n]
  BY SharesRun
<1> DEFINE Done == {k \in Nat : k <= n => Paired(a[k], b[k], s[k])}
<1>4. 0 \in Done
  BY <1>1, <1>2, <1>3, NothingPaired
<1>5. ASSUME NEW k \in Done PROVE k + 1 \in Done
  <2>1. k \in Nat /\ k + 1 \in Nat
    OBVIOUS
  <2> SUFFICES ASSUME k + 1 <= n PROVE Paired(a[k + 1], b[k + 1], s[k + 1])
    BY <2>1
  <2>2. k + 1 \in 1 .. n /\ (k + 1) - 1 = k /\ k <= n
    BY <2>1
  <2>3. Paired(a[k], b[k], s[k]) /\ InTime[k + 1] \in AnyOrder
    BY <2>1, <2>2
  <2>4. Paired(BookOrder(a[k], InTime[k + 1]), SharesOf(b[k], InTime[k + 1], "BUY"),
               SharesOf(s[k], InTime[k + 1], "SELL"))
    BY <2>3, BookKeepsPairs
  <2> QED BY <1>1, <1>2, <1>3, <2>2, <2>4
<1> HIDE DEF Done
<1>6. Done = Nat
  <2>1. Done \in SUBSET Nat
    BY DEF Done
  <2> QED BY <1>4, <1>5, <2>1, NatSetInduction
<1>7. Paired(a[n], b[n], s[n])
  BY <1>6 DEF Done
<1> QED BY <1>1, <1>2, <1>3, <1>7

\* However the orders are in time, their profit is that of the pairs.
LEMMA PairsOfAnyOrders ==
  ASSUME NEW n \in Nat, InTime \in [1 .. n -> AnyOrder]
  PROVE  RealisedPairsShares
<1> DEFINE B == SharePrices("BUY")
           S == SharePrices("SELL")
           book == Books
           m == Smaller(Len(B), Len(S))
<1>1. Paired(book, B, S)
  BY CoursePaired
<1> HIDE DEF B, S, book
<1>2. book \in AnyBook /\ \E v : SumsTo(v, book.pnl) /\ Balanced(book.longs, book.shorts, B, S, v, -1)
  BY <1>1 DEF Paired
<1>3. PICK v : SumsTo(v, book.pnl) /\ Balanced(book.longs, book.shorts, B, S, v, -1)
  BY <1>2
<1>4. /\ book.longs \in Lots /\ book.shorts \in Lots /\ B \in Seq(Int) /\ S \in Seq(Int)
      /\ Spans(book.longs, B, m, Len(B)) /\ Spans(book.shorts, S, m, Len(S))
      /\ Brings(v, B, S, -1, m)
  BY <1>3 DEF Balanced
<1>5. Len(B) \in Nat /\ Len(S) \in Nat
  BY <1>4, LenProperties
<1>6. m \in Nat /\ m <= Len(B) /\ m <= Len(S) /\ (m = Len(B) \/ m = Len(S))
  BY <1>5 DEF Smaller
<1> HIDE DEF m
<1>7. book.longs = <<>> \/ book.shorts = <<>>
  BY <1>4, <1>6, NothingSpanned
<1>8. \A k \in 1 .. m : B[k] \in Int /\ S[k] \in Int
  <2> SUFFICES ASSUME NEW k \in 1 .. m PROVE B[k] \in Int /\ S[k] \in Int
    OBVIOUS
  <2>1. k \in 1 .. Len(B) /\ k \in 1 .. Len(S)
    BY <1>5, <1>6
  <2> QED BY <1>4, <2>1, ElementOfSeq
<1>9. PairsTotal(B, S, m) = v
  BY <1>4, <1>6, <1>8, PairsAreSum
<1>10. DerivedRealizedPnl = v
  BY <1>2, <1>3, PnlIsSum DEF AnyBook, book
<1> QED
  BY <1>7, <1>9, <1>10 DEF RealisedPairsShares, PairsTotal, B, S, book, m
TimeOrder(s) ==
  /\ s \in [1 .. Len(fills) -> ToSet(fills)]
  /\ \A i, j \in 1 .. Len(fills) : i < j => Earlier(s[i], s[j])

\* The newest order is among the last, and each uid above the next one given.
LotsInv ==
  /\ fills \in Seq(OrderRows)
  /\ \A i \in 1 .. Len(fills) :
       /\ fills[i].ts <= fills[1].ts /\ fills[i].ts <= Len(fills)
       /\ fills[i].uid > -Len(fills)
  /\ \E s : TimeOrder(s)

\* So there is an order of time for InTime to be.
LEMMA InvPairs == ASSUME LotsInv PROVE RealisedPairsShares
<1> DEFINE n == Len(fills)
<1>1. n \in Nat /\ DOMAIN fills = 1 .. n /\ \A i \in 1 .. n : fills[i] \in OrderRows
  BY LenProperties, ElementOfSeq DEF LotsInv
<1>2. PICK s : TimeOrder(s)
  BY DEF LotsInv
<1>3. InTime \in [1 .. n -> ToSet(fills)]
  BY <1>1, <1>2 DEF InTime, TimeOrder
<1>4. ToSet(fills) \subseteq AnyOrder
  <2>1. OrderRows \subseteq AnyOrder
    <3>1. 1 .. MaxLot \subseteq Nat \ {0} /\ Prices2 \subseteq Int
      BY LotsAssumption
    <3> QED BY <3>1 DEF OrderRows, AnyOrder
  <2> HIDE DEF n
  <2> QED BY <1>1, <2>1 DEF ToSet
<1>5. InTime \in [1 .. n -> AnyOrder]
  BY <1>3, <1>4
<1> QED BY <1>1, <1>5, PairsOfAnyOrders

LEMMA LotsInvStart == LotsInit => LotsInv
<1> SUFFICES ASSUME fills = <<>> PROVE LotsInv
  BY DEF LotsInit
<1>1. fills \in Seq(OrderRows) /\ Len(fills) = 0
  BY EmptySeq
<1> DEFINE s == [i \in 1 .. Len(fills) |-> 0]
<1>2. TimeOrder(s)
  BY <1>1 DEF TimeOrder
<1> QED BY <1>1, <1>2 DEF LotsInv

\* Where an order of the time ts comes in: behind all that are earlier.
LEMMA CutIs ==
  ASSUME NEW n \in Nat, NEW s, \A i \in 1 .. n : s[i].ts \in Nat, NEW ts \in Nat,
         \A i, j \in 1 .. n : i < j => s[i].ts <= s[j].ts
  PROVE  \E q \in 0 .. n : /\ \A i \in 1 .. q : s[i].ts < ts
                           /\ \A i \in q + 1 .. n : s[i].ts >= ts
<1> DEFINE T == {i \in 1 .. n : s[i].ts < ts}
<1>1. CASE T = {}
  <2>1. \A i \in 0 + 1 .. n : s[i].ts >= ts
    BY <1>1
  <2> QED BY <2>1
<1>2. CASE T # {}
  <2> DEFINE q == Top(T)
  <2>1. q \in T /\ \A y \in T : q >= y
    BY <1>2, TopIsLast
  <2> HIDE DEF q
  <2>2. q \in 1 .. n /\ s[q].ts < ts
    BY <2>1
  <2>3. ASSUME NEW i \in 1 .. q PROVE s[i].ts < ts
    <3>1. i \in 1 .. n /\ (i = q \/ i < q)
      BY <2>2
    <3>2. s[i].ts <= s[q].ts /\ s[i].ts \in Nat /\ s[q].ts \in Nat
      BY <2>2, <3>1
    <3> QED BY <2>2, <3>2
  <2>4. ASSUME NEW i \in q + 1 .. n PROVE s[i].ts >= ts
    <3>1. i \in 1 .. n /\ ~(q >= i)
      BY <2>2
    <3>2. i \notin T /\ s[i].ts \in Nat
      BY <2>1, <3>1
    <3> QED BY <3>1, <3>2
  <2>5. q \in 0 .. n
    BY <2>2
  <2> QED BY <2>3, <2>4, <2>5
<1> QED BY <1>1, <1>2

\* The newest order comes behind all of an earlier time and before those of its own.
LEMMA NewOrderKeeps ==
  ASSUME LotsInv, NEW ts, NewOrder(ts),
         ts = Len(fills) + 1 \/ (fills # <<>> /\ ts = fills[1].ts)
  PROVE  LotsInv'
<1> DEFINE n == Len(fills)
<1>1. /\ n \in Nat /\ DOMAIN fills = 1 .. n /\ \A i \in 1 .. n : fills[i] \in OrderRows
      /\ (fills # <<>> => 1 \in 1 .. n) /\ fills \in Seq(OrderRows)
  BY LenProperties, ElementOfSeq, EmptySeq DEF LotsInv
<1>2. /\ \A i \in 1 .. n : /\ fills[i].ts <= fills[1].ts /\ fills[i].ts <= n /\ fills[i].uid > -n
                           /\ fills[i].ts \in Nat /\ fills[i].uid \in Int
  BY <1>1 DEF LotsInv, OrderRows
<1>3. PICK o \in OrderRows :
        /\ fills' = <<o>> \o fills /\ o.ts = ts
        /\ o.uid = IF ts = n + 1 THEN ts ELSE -n
  <2>1. ts \in Nat /\ n + 1 \in Nat /\ -n \in Int
    BY <1>1, <1>2
  <2>2. PICK side \in {"BUY", "SELL"}, qty \in 1 .. MaxLot, price \in Prices2,
             status \in {"FILLED", "CANCELLED"} :
          fills' = <<[side |-> side, qty |-> qty, price |-> price, status |-> status, ts |-> ts,
                      uid |-> IF ts = n + 1 THEN ts ELSE -n]>> \o fills
    BY DEF NewOrder
  <2> DEFINE o == [side |-> side, qty |-> qty, price |-> price, status |-> status, ts |-> ts,
                   uid |-> IF ts = n + 1 THEN ts ELSE -n]
  <2> HIDE DEF n
  <2>3. o \in OrderRows
    BY <2>1 DEF OrderRows
  <2> QED BY <2>2, <2>3
<1> HIDE DEF n
<1>4. /\ fills' \in Seq(OrderRows) /\ Len(fills') = n + 1
      /\ fills'[1] = o /\ \A i \in 1 .. n : fills'[i + 1] = fills[i]
  <2>1. <<o>> \in Seq(OrderRows) /\ Len(<<o>>) = 1 /\ <<o>>[1] = o
    OBVIOUS
  <2> DEFINE one == <<o>>
  <2> HIDE DEF one
  <2>2. /\ one \o fills \in Seq(OrderRows) /\ Len(one \o fills) = 1 + n
        /\ \A i \in 1 .. 1 + n : (one \o fills)[i] = IF i <= 1 THEN one[1] ELSE fills[i - 1]
    <3>1. one \in Seq(OrderRows) /\ Len(one) = 1
      BY <2>1 DEF one
    <3>2. /\ one \o fills \in Seq(OrderRows) /\ Len(one \o fills) = Len(one) + n
          /\ \A i \in 1 .. Len(one) + n :
               (one \o fills)[i] = IF i <= Len(one) THEN one[i] ELSE fills[i - Len(one)]
      BY <1>1, <3>1, ConcatProperties DEF n
    <3>3. ASSUME NEW i \in 1 .. 1 + n
          PROVE  (one \o fills)[i] = IF i <= 1 THEN one[1] ELSE fills[i - 1]
      <4>1. i <= 1 => i = 1
        BY <1>1
      <4> QED BY <3>1, <3>2, <4>1
    <3> QED BY <3>1, <3>2, <3>3
  <2>3. fills' = one \o fills /\ one[1] = o
    BY <1>3, <2>1 DEF one
  <2>4. ASSUME NEW i \in 1 .. n PROVE fills'[i + 1] = fills[i]
    <3>1. i + 1 \in 1 .. 1 + n /\ ~(i + 1 <= 1) /\ (i + 1) - 1 = i
      BY <1>1
    <3> QED BY <2>2, <2>3, <3>1
  <2>5. fills'[1] = o
    BY <1>1, <2>2, <2>3
  <2> QED BY <1>1, <2>2, <2>3, <2>4, <2>5
<1>5. /\ ts \in Nat /\ ts <= n + 1 /\ o.uid \in Int /\ o.uid > -(n + 1)
      /\ \A i \in 1 .. n : /\ fills[i].ts <= ts
                           /\ fills[i].ts = ts => o.uid < fills[i].uid
  <2>0. ts = n + 1 \/ (fills # <<>> /\ ts = fills[1].ts)
    BY DEF n
  <2>1. CASE ts = n + 1
    <3>1. o.uid = n + 1
      BY <1>3, <2>1
    <3>2. \A i \in 1 .. n : fills[i].ts <= n /\ fills[i].ts \in Nat
      BY <1>2
    <3> QED BY <1>1, <2>1, <3>1, <3>2
  <2>2. CASE ts # n + 1
    <3>1. o.uid = -n /\ ts = fills[1].ts /\ 1 \in 1 .. n
      BY <1>1, <1>3, <2>0, <2>2
    <3>2. ts \in Nat /\ ts <= n
      BY <1>2, <3>1
    <3>3. \A i \in 1 .. n : fills[i].ts <= ts /\ fills[i].uid > -n /\ fills[i].uid \in Int
      BY <1>2, <3>1
    <3> QED BY <1>1, <3>1, <3>2, <3>3
  <2> QED BY <2>1, <2>2
<1>6. PICK s : s \in [1 .. n -> ToSet(fills)] /\ \A i, j \in 1 .. n : i < j => Earlier(s[i], s[j])
  BY DEF LotsInv, TimeOrder, n
<1>7. /\ ToSet(fills) = {fills[i] : i \in 1 .. n}
      /\ o \in ToSet(fills') /\ ToSet(fills) \subseteq ToSet(fills')
  <2>1. ToSet(fills) = {fills[i] : i \in 1 .. n}
    BY <1>1 DEF ToSet
  <2>2. ToSet(fills') = {fills'[i] : i \in 1 .. n + 1}
    <3>1. DOMAIN fills' = 1 .. n + 1
      BY <1>4, LenProperties
    <3> QED BY <3>1 DEF ToSet
  <2>3. 1 \in 1 .. n + 1 /\ \A i \in 1 .. n : i + 1 \in 1 .. n + 1
    BY <1>1
  <2> QED BY <1>4, <2>1, <2>2, <2>3
<1>8. /\ \A i \in 1 .. n : /\ s[i] \in ToSet(fills) /\ s[i].ts \in Nat /\ s[i].ts <= ts
                           /\ s[i].ts = ts => o.uid < s[i].uid
  <2> SUFFICES ASSUME NEW i \in 1 .. n
               PROVE  /\ s[i] \in ToSet(fills) /\ s[i].ts \in Nat /\ s[i].ts <= ts
                      /\ s[i].ts = ts => o.uid < s[i].uid
    OBVIOUS
  <2>1. s[i] \in ToSet(fills)
    BY <1>6
  <2>2. PICK k \in 1 .. n : s[i] = fills[k]
    BY <1>7, <2>1
  <2> QED BY <1>2, <1>5, <2>1, <2>2
<1>9. \A i, j \in 1 .. n : i < j => s[i].ts <= s[j].ts
  <2> SUFFICES ASSUME NEW i \in 1 .. n, NEW j \in 1 .. n, i < j PROVE s[i].ts <= s[j].ts
    OBVIOUS
  <2>1. Earlier(s[i], s[j]) /\ s[i].ts \in Nat /\ s[j].ts \in Nat
    BY <1>6, <1>8
  <2> QED BY <2>1 DEF Earlier
<1>10. PICK q \in 0 .. n : /\ \A i \in 1 .. q : s[i].ts < ts
                           /\ \A i \in q + 1 .. n : s[i].ts >= ts
  BY <1>1, <1>5, <1>8, <1>9, CutIs
<1> DEFINE s2 == [i \in 1 .. n + 1 |-> IF i <= q THEN s[i] ELSE IF i = q + 1 THEN o ELSE s[i - 1]]
<1>11. ASSUME NEW i \in 1 .. n + 1
       PROVE  \/ i <= q /\ i \in 1 .. q /\ i \in 1 .. n /\ s2[i] = s[i]
              \/ i = q + 1 /\ s2[i] = o
              \/ i > q + 1 /\ i - 1 \in q + 1 .. n /\ i - 1 \in 1 .. n /\ s2[i] = s[i - 1]
  BY <1>1
<1> HIDE DEF s2
<1>12. s2 \in [1 .. n + 1 -> ToSet(fills')]
  <2>1. \A i \in 1 .. n + 1 : s2[i] \in ToSet(fills')
    BY <1>7, <1>8, <1>11
  <2> QED BY <2>1 DEF s2
<1>13. ASSUME NEW i \in 1 .. n + 1, NEW j \in 1 .. n + 1, i < j PROVE Earlier(s2[i], s2[j])
  <2>0. i \in Nat /\ j \in Nat /\ q \in Nat
    BY <1>1
  <2>1. CASE i <= q
    <3>1. i \in 1 .. q /\ i \in 1 .. n /\ s2[i] = s[i] /\ s[i].ts < ts
      BY <1>10, <1>11, <2>0, <2>1
    <3>2. CASE j <= q
      <4>1. j \in 1 .. n /\ s2[j] = s[j]
        BY <1>11, <2>0, <3>2
      <4> QED BY <1>6, <1>13, <3>1, <4>1
    <3>3. CASE j = q + 1
      <4>1. s2[j] = o
        BY <1>11, <2>0, <3>3
      <4> QED BY <1>3, <3>1, <4>1 DEF Earlier
    <3>4. CASE j > q + 1
      <4>1. j - 1 \in 1 .. n /\ s2[j] = s[j - 1] /\ i < j - 1
        BY <1>11, <2>0, <2>1, <3>4
      <4> QED BY <1>6, <3>1, <4>1
    <3> QED BY <2>0, <3>2, <3>3, <3>4
  <2>2. CASE i = q + 1
    <3>1. s2[i] = o
      BY <1>11, <2>0, <2>2
    <3>2. j > q + 1
      BY <1>13, <2>0, <2>2
    <3>3. j - 1 \in q + 1 .. n /\ j - 1 \in 1 .. n /\ s2[j] = s[j - 1]
      BY <1>11, <2>0, <3>2
    <3>4. s[j - 1].ts >= ts /\ s[j - 1].ts <= ts /\ s[j - 1].ts \in Nat
      BY <1>8, <1>10, <3>3
    <3>5. s[j - 1].ts = ts
      BY <1>5, <3>4
    <3> QED BY <1>3, <1>8, <3>1, <3>3, <3>5 DEF Earlier
  <2>3. CASE i > q + 1
    <3>1. i - 1 \in 1 .. n /\ s2[i] = s[i - 1]
      BY <1>11, <2>0, <2>3
    <3>2. j > q + 1
      BY <1>13, <2>0, <2>3
    <3>3. j - 1 \in 1 .. n /\ s2[j] = s[j - 1] /\ i - 1 < j - 1
      BY <1>11, <1>13, <2>0, <3>2
    <3> QED BY <1>6, <3>1, <3>3
  <2> QED BY <2>0, <2>1, <2>2, <2>3
<1>14. \E s3 : TimeOrder(s3)'
  <2>2. PICK s3 : s3 = s2
    OBVIOUS
  <2>3. /\ s3 \in [1 .. n + 1 -> ToSet(fills')]
        /\ \A i, j \in 1 .. n + 1 : i < j => Earlier(s3[i], s3[j])
    BY <1>12, <1>13, <2>2
  <2>1. TimeOrder(s3)'
    BY <1>4, <2>3 DEF TimeOrder, Earlier
  <2> QED BY <2>1
<1>15. ASSUME NEW i \in 1 .. n + 1
       PROVE  /\ fills'[i].ts <= ts /\ fills'[i].ts <= n + 1 /\ fills'[i].uid > -(n + 1)
  <2>1. CASE i = 1
    BY <1>1, <1>3, <1>4, <1>5, <2>1
  <2>2. CASE i # 1
    <3>1. i - 1 \in 1 .. n /\ (i - 1) + 1 = i
      BY <1>1, <2>2
    <3>2. fills'[i] = fills[i - 1]
      BY <1>4, <3>1
    <3>3. /\ fills[i - 1].ts <= ts /\ fills[i - 1].ts <= n /\ fills[i - 1].uid > -n
          /\ fills[i - 1].ts \in Nat /\ fills[i - 1].uid \in Int
      BY <1>2, <1>5, <3>1
    <3> QED BY <1>1, <3>2, <3>3
  <2> QED BY <2>1, <2>2
<1> QED
  BY <1>3, <1>4, <1>14, <1>15 DEF LotsInv

LEMMA LotsInvStep == LotsInv /\ [LotsNext]_fills => LotsInv'
<1> SUFFICES ASSUME LotsInv, [LotsNext]_fills PROVE LotsInv'
  OBVIOUS
<1>1. CASE UNCHANGED fills
  BY <1>1 DEF LotsInv, TimeOrder
<1>2. CASE OrderArrives
  <2>1. PICK ts : NewOrder(ts) /\ (ts = Len(fills) + 1 \/ (fills # <<>> /\ ts = fills[1].ts))
    BY <1>2 DEF OrderArrives
  <2> QED BY <2>1, NewOrderKeeps
<1> QED BY <1>1, <1>2 DEF LotsNext

\* The profit that the orders page derives is that of the k-th share sold against the k-th
\* share bought, and what is open is on one side (OrdersPage.jsx:243-303), for any prices, any
\* quantities and any number of orders.
THEOREM RealisedPairs == LotsSpec => []RealisedPairsShares
<1>1. LotsSpec => []LotsInv
  BY LotsInvStart, LotsInvStep, PTL DEF LotsSpec
<1> QED BY <1>1, InvPairs, PTL

-----------------------------------------------------------------------------
(***************************************************************************)
(* The positions in options.                                               *)
(***************************************************************************)
BookRow == [id : Nat, leg : OptionLegs, lots : Nat]
OneEach(rows) == \A p, q \in rows : p.leg = q.leg => p = q
Numbered(rows) == \A p, q \in rows : p.id = q.id => p = q
Balance(rows, net) ==
  \A k \in OptionLegs :
    \/ \E p \in rows : p.leg = k /\ net[k] = p.lots
    \/ (\A p \in rows : p.leg # k) /\ net[k] = 0

\* Before another load the numbers grow; until one is given twice a row has its own.
BookInv ==
  /\ optPositions \subseteq BookRow /\ posId \in Nat /\ reloads \in Nat /\ doubled \in BOOLEAN
  /\ netLots \in [OptionLegs -> Int]
  /\ OneEach(optPositions)
  /\ reloads = 0 => Numbered(optPositions) /\ \A p \in optPositions : p.id < posId
  /\ doubled => reloads > 0
  /\ ~doubled => Numbered(optPositions) /\ Balance(optPositions, netLots)

LEMMA BookStart == BookInit => BookInv
<1> SUFFICES ASSUME BookInit PROVE BookInv
  OBVIOUS
<1>1. optPositions = {} /\ posId = 1 /\ reloads = 0 /\ doubled = FALSE
      /\ netLots = [k \in OptionLegs |-> 0]
  BY DEF BookInit
<1>2. netLots \in [OptionLegs -> Int] /\ \A k \in OptionLegs : netLots[k] = 0
  BY <1>1
<1>3. OneEach(optPositions) /\ Numbered(optPositions) /\ Balance(optPositions, netLots)
  BY <1>1, <1>2 DEF OneEach, Numbered, Balance
<1> QED BY <1>1, <1>2, <1>3 DEF BookInv

LEMMA PlaceKeeps == BookInv /\ HandlePlaceOrder => BookInv'
<1> SUFFICES ASSUME BookInv, HandlePlaceOrder PROVE BookInv'
  OBVIOUS
<1>1. PICK leg \in OptionLegs :
        /\ AddPosition(leg) /\ netLots' = [netLots EXCEPT ![leg] = @ + 1]
        /\ doubled' = (doubled \/ \E p, q \in optPositions' : p # q /\ p.id = q.id)
        /\ reloads' = reloads
  BY DEF HandlePlaceOrder
<1>2. /\ optPositions \subseteq BookRow /\ posId \in Nat /\ reloads \in Nat /\ doubled \in BOOLEAN
      /\ netLots \in [OptionLegs -> Int]
      /\ OneEach(optPositions)
      /\ reloads = 0 => Numbered(optPositions) /\ \A p \in optPositions : p.id < posId
      /\ doubled => reloads > 0
      /\ ~doubled => Numbered(optPositions) /\ Balance(optPositions, netLots)
  BY DEF BookInv
<1>3. netLots' \in [OptionLegs -> Int] /\ netLots'[leg] = netLots[leg] + 1
      /\ \A k \in OptionLegs : k # leg => netLots'[k] = netLots[k]
  BY <1>1, <1>2
<1>4. ~doubled' => ~doubled /\ Numbered(optPositions')
  BY <1>1 DEF Numbered
<1>5. CASE \E p \in optPositions : p.leg = leg /\ AddLots(p)
  <2>1. PICK f \in optPositions : f.leg = leg /\ AddLots(f)
    BY <1>5
  <2> DEFINE New(p) == IF p.id # f.id THEN p ELSE [p EXCEPT !.lots = f.lots + 1]
  <2>2. optPositions' = {New(p) : p \in optPositions} /\ posId' = posId
    BY <2>1 DEF AddLots
  <2>3. ASSUME NEW p \in optPositions
        PROVE  /\ New(p) \in BookRow /\ New(p).id = p.id /\ New(p).leg = p.leg
               /\ p.id # f.id => New(p) = p
               /\ p.id = f.id => New(p).lots = f.lots + 1
    <3>1. p = [id |-> p.id, leg |-> p.leg, lots |-> p.lots] /\ p.id \in Nat /\ p.leg \in OptionLegs
      BY <1>2 DEF BookRow
    <3>2. f.lots \in Nat
      BY <1>2, <2>1 DEF BookRow
    <3>3. [p EXCEPT !.lots = f.lots + 1] = [id |-> p.id, leg |-> p.leg, lots |-> f.lots + 1]
      BY <3>1
    <3> QED BY <1>2, <3>1, <3>2, <3>3 DEF BookRow
  <2> HIDE DEF New
  <2>4. optPositions' \subseteq BookRow
    BY <2>2, <2>3
  <2>5. OneEach(optPositions')
    BY <1>2, <2>2, <2>3 DEF OneEach
  <2>6. Numbered(optPositions) => Numbered(optPositions')
    BY <2>2, <2>3 DEF Numbered
  <2>7. reloads' = 0 => Numbered(optPositions') /\ \A p \in optPositions' : p.id < posId'
    BY <1>1, <1>2, <2>2, <2>3, <2>6
  <2>8. doubled' => reloads' > 0
    <3>1. SUFFICES ASSUME reloads = 0 PROVE ~doubled'
      BY <1>1, <1>2
    <3>2. Numbered(optPositions') /\ ~doubled
      BY <1>1, <1>2, <2>7, <3>1
    <3> QED BY <1>1, <3>2 DEF Numbered
  <2>9. ASSUME ~doubled PROVE Balance(optPositions', netLots')
    <3>1. Numbered(optPositions) /\ Balance(optPositions, netLots)
      BY <1>2, <2>9
    <3>2. ASSUME NEW k \in OptionLegs
          PROVE  \/ \E p \in optPositions' : p.leg = k /\ netLots'[k] = p.lots
                 \/ (\A p \in optPositions' : p.leg # k) /\ netLots'[k] = 0
      <4>1. CASE k = leg
        <5>1. netLots[leg] = f.lots
          BY <1>2, <2>1, <3>1 DEF OneEach, Balance
        <5>2. New(f) \in optPositions' /\ New(f).leg = k /\ New(f).lots = f.lots + 1
          BY <2>1, <2>2, <2>3, <4>1
        <5> QED BY <1>3, <4>1, <5>1, <5>2
      <4>2. CASE k # leg
        <5>1. netLots'[k] = netLots[k]
          BY <1>3, <4>2
        <5>2. CASE \E p \in optPositions : p.leg = k /\ netLots[k] = p.lots
          <6>1. PICK p \in optPositions : p.leg = k /\ netLots[k] = p.lots
            BY <5>2
          <6>2. p.id # f.id
            BY <2>1, <3>1, <4>2, <6>1 DEF Numbered
          <6>3. New(p) = p /\ New(p) \in optPositions'
            BY <2>2, <2>3, <6>2
          <6> QED BY <5>1, <6>1, <6>3
        <5>3. CASE (\A p \in optPositions : p.leg # k) /\ netLots[k] = 0
          BY <2>2, <2>3, <5>1, <5>3
        <5> QED BY <3>1, <5>2, <5>3 DEF Balance
      <4> QED BY <4>1, <4>2
    <3> QED BY <3>2 DEF Balance
  <2>10. doubled' \in BOOLEAN
    BY <1>1
  <2> QED BY <1>1, <1>2, <1>3, <1>4, <2>2, <2>4, <2>5, <2>7, <2>8, <2>9, <2>10 DEF BookInv
<1>6. CASE (\A p \in optPositions : p.leg # leg) /\ AddPositionAnew(leg)
  <2> DEFINE new == [id |-> posId, leg |-> leg, lots |-> 1]
  <2>1. optPositions' = optPositions \cup {new} /\ posId' = posId + 1
    BY <1>6 DEF AddPositionAnew
  <2>2. new \in BookRow /\ new.id = posId /\ new.leg = leg /\ new.lots = 1
    BY <1>2 DEF BookRow
  <2> HIDE DEF new
  <2>3. optPositions' \subseteq BookRow /\ posId' \in Nat /\ doubled' \in BOOLEAN
    BY <1>1, <1>2, <2>1, <2>2
  <2>4. OneEach(optPositions')
    BY <1>2, <1>6, <2>1, <2>2 DEF OneEach
  <2>5. ASSUME reloads = 0
        PROVE  Numbered(optPositions') /\ \A p \in optPositions' : p.id < posId'
    <3>1. Numbered(optPositions) /\ \A p \in optPositions : p.id < posId /\ p.id \in Nat
      BY <1>2, <2>5 DEF BookRow
    <3> QED BY <1>2, <2>1, <2>2, <3>1 DEF Numbered
  <2>6. doubled' => reloads' > 0
    <3>1. SUFFICES ASSUME reloads = 0 PROVE ~doubled'
      BY <1>1, <1>2
    <3>2. Numbered(optPositions') /\ ~doubled
      BY <1>1, <1>2, <2>5, <3>1
    <3> QED BY <1>1, <3>2 DEF Numbered
  <2>7. ASSUME ~doubled PROVE Balance(optPositions', netLots')
    <3>1. Balance(optPositions, netLots)
      BY <1>2, <2>7
    <3>2. netLots[leg] = 0
      BY <1>6, <3>1 DEF Balance
    <3> QED BY <1>3, <2>1, <2>2, <3>1, <3>2 DEF Balance
  <2> QED BY <1>1, <1>2, <1>3, <1>4, <2>3, <2>4, <2>5, <2>6, <2>7 DEF BookInv
<1> QED BY <1>1, <1>5, <1>6 DEF AddPosition

LEMMA CloseKeeps == BookInv /\ ClosePosition => BookInv'
<1> SUFFICES ASSUME BookInv, ClosePosition PROVE BookInv'
  OBVIOUS
<1>1. PICK f \in optPositions :
        /\ optPositions' = {q \in optPositions : q.id # f.id}
        /\ netLots' = [netLots EXCEPT ![f.leg] = @ - f.lots]
        /\ posId' = posId /\ doubled' = doubled /\ reloads' = reloads
  BY DEF ClosePosition
<1>2. /\ optPositions \subseteq BookRow /\ posId \in Nat /\ reloads \in Nat /\ doubled \in BOOLEAN
      /\ netLots \in [OptionLegs -> Int]
      /\ OneEach(optPositions)
      /\ reloads = 0 => Numbered(optPositions) /\ \A p \in optPositions : p.id < posId
      /\ doubled => reloads > 0
      /\ ~doubled => Numbered(optPositions) /\ Balance(optPositions, netLots)
  BY DEF BookInv
<1>3. f.leg \in OptionLegs /\ f.lots \in Nat
  BY <1>2 DEF BookRow
<1>4. netLots' \in [OptionLegs -> Int] /\ netLots'[f.leg] = netLots[f.leg] - f.lots
      /\ \A k \in OptionLegs : k # f.leg => netLots'[k] = netLots[k]
  BY <1>1, <1>2, <1>3
<1>5. OneEach(optPositions') /\ (Numbered(optPositions) => Numbered(optPositions'))
  BY <1>1, <1>2 DEF OneEach, Numbered
<1>6. ASSUME ~doubled PROVE Balance(optPositions', netLots')
  <2>1. Numbered(optPositions) /\ Balance(optPositions, netLots)
    BY <1>2, <1>6
  <2>2. netLots[f.leg] = f.lots
    BY <1>2, <1>3, <2>1 DEF OneEach, Balance
  <2>3. \A q \in optPositions : q \in optPositions' <=> q # f
    BY <1>1, <2>1 DEF Numbered
  <2>4. ASSUME NEW k \in OptionLegs
        PROVE  \/ \E p \in optPositions' : p.leg = k /\ netLots'[k] = p.lots
               \/ (\A p \in optPositions' : p.leg # k) /\ netLots'[k] = 0
    <3>1. CASE k = f.leg
      <4>1. \A p \in optPositions' : p.leg # k
        BY <1>1, <1>2, <2>3, <3>1 DEF OneEach
      <4>2. netLots'[k] = 0
        BY <1>3, <1>4, <2>2, <3>1
      <4> QED BY <4>1, <4>2
    <3>2. CASE k # f.leg
      <4>1. netLots'[k] = netLots[k]
        BY <1>4, <3>2
      <4>2. CASE \E p \in optPositions : p.leg = k /\ netLots[k] = p.lots
        BY <2>3, <3>2, <4>1, <4>2
      <4>3. CASE (\A p \in optPositions : p.leg # k) /\ netLots[k] = 0
        BY <1>1, <4>1, <4>3
      <4> QED BY <2>1, <4>2, <4>3 DEF Balance
    <3> QED BY <3>1, <3>2
  <2> QED BY <2>4 DEF Balance
<1> QED BY <1>1, <1>2, <1>4, <1>5, <1>6 DEF BookInv

LEMMA BookStep == BookInv /\ [BookNext]_bookVars => BookInv'
<1> SUFFICES ASSUME BookInv, [BookNext]_bookVars PROVE BookInv'
  OBVIOUS
<1>1. CASE HandlePlaceOrder
  BY <1>1, PlaceKeeps
<1>2. CASE ClosePosition
  BY <1>2, CloseKeeps
<1>3. CASE LoadStore
  BY <1>3 DEF LoadStore, BookInv
<1>4. CASE UNCHANGED bookVars
  BY <1>4 DEF bookVars, BookInv
<1> QED BY <1>1, <1>2, <1>3, <1>4 DEF BookNext

LEMMA BookHolds == BookInv => LotsHeld
  BY DEF BookInv, LotsHeld, OneEach, Balance

\* A position has one row, and until a number is given twice, which takes another load of the
\* page, the row holds the lots ordered less those closed (useOptionsStore.js:4-5, 33-84), for
\* any options, orders and loads.
THEOREM PositionsHoldLots == BookSpec => []LotsHeld
<1>1. BookSpec => []BookInv
  BY BookStart, BookStep, PTL DEF BookSpec
<1> QED BY <1>1, BookHolds, PTL

-----------------------------------------------------------------------------
(* The session, in full *)

\* Beyond the shape of the session: the profiles are such as the backend answers.
Known(u) == u \in Users \cup {Nobody}

SessionTyped ==
  /\ notified \in People \cup {Nobody, Unseen} /\ initializing \in BOOLEAN
  /\ Known(user) /\ Known(storage.user) /\ Known(phoneModal)
  /\ page \in Pages /\ presses \in 0 .. MaxPresses

LEMMA SessionTypedShows == SessionInv /\ SessionTyped => SessionTypeOK
<1> SUFFICES ASSUME SessionInv, SessionTyped PROVE SessionTypeOK
  OBVIOUS
<1>1. storage \in Storage
  BY DEF SessionInv, Shaped, Stored, Storage, SessionTyped, Known
<1> QED
  BY <1>1 DEF SessionInv, Shaped, SessionTyped, Known, SessionTypeOK

LEMMA SessionTypedInit == SessionInit => SessionTyped
<1> SUFFICES ASSUME SessionInit PROVE SessionTyped
  OBVIOUS
<1>1. 0 \in 0 .. MaxPresses
  BY SessionAssumption
<1> QED
  BY <1>1 DEF SessionInit, SessionTyped, Known, Pages

LEMMA LandsOnPage ==
  ASSUME NEW u, NEW asAdmin
  PROVE  LandingPage(u, asAdmin) \in Pages
BY DEF LandingPage, Pages

LEMMA SentToPage ==
  ASSUME NEW p \in Pages
  PROVE  Target(p) \in Pages
BY DEF Target, AppTarget, AccountTarget, Pages

\* A step that takes no profile from the backend.
LEMMA ProfilesKept ==
  ASSUME SessionInv, SessionTyped,
         notified' \in {notified, fbUser, Unseen}, initializing' \in BOOLEAN,
         user' \in {user, Nobody, storage.user}, storage'.user \in {storage.user, Nobody},
         phoneModal' \in {phoneModal, Nobody}, page' \in Pages,
         presses' = presses \/ Press
  PROVE  SessionTyped'
<1>1. fbUser \in People \cup {Nobody}
  BY DEF SessionInv, Shaped
<1>2. presses' \in 0 .. MaxPresses
  BY SessionAssumption DEF SessionTyped, Press
<1> QED
  BY <1>1, <1>2 DEF SessionTyped, Known

\* Signing out and marking a stored session leave no other user in it.
LEMMA StoredUser ==
  ASSUME NEW st \in Stored
  PROVE  /\ SignedOut(st).user = Nobody
         /\ [SignedOut(st) EXCEPT !.onboarded = FALSE].user = Nobody
         /\ \A w \in People \cup {Nobody} : [st EXCEPT !.token = w].user = st.user
         /\ \A i \in Intents : [st EXCEPT !.intent = i].user = st.user
         /\ [st EXCEPT !.onboarded = TRUE, !.mode = "demo"].user = st.user
         /\ [st EXCEPT !.onboarded = FALSE, !.mode = "none", !.intent = "none"].user = st.user
         /\ \A m \in {"live", st.mode} : [st EXCEPT !.onboarded = TRUE, !.mode = m].user = st.user
BY DEF SignedOut, Stored

LEMMA NoticeTyped == SessionInv /\ SessionTyped /\ Notice => SessionTyped'
<1> SUFFICES ASSUME SessionInv, SessionTyped, Notice PROVE SessionTyped'
  OBVIOUS
<1>1. /\ storage \in Stored /\ fbUser \in People \cup {Nobody} /\ page \in Pages
      /\ initializing \in BOOLEAN
  BY DEF SessionInv, Shaped, SessionTyped
<1>2. /\ notified' = fbUser /\ UNCHANGED <<page, phoneModal, presses>>
      /\ user' \in {user, Nobody} /\ initializing' \in BOOLEAN
      /\ \/ storage' = SignedOut(storage) \/ storage' = storage
         \/ storage' = [storage EXCEPT !.token = fbUser]
  BY <1>1 DEF Notice, HearNobody, HearUnverified, HearVerified, Heard, StartSync
<1>3. SignedOut(storage).user = Nobody /\ [storage EXCEPT !.token = fbUser].user = storage.user
  BY <1>1, StoredUser
<1>4. storage'.user \in {storage.user, Nobody}
  BY <1>2, <1>3
<1> QED BY <1>1, <1>2, <1>4, ProfilesKept

LEMMA RouteTyped ==
  ASSUME SessionInv, SessionTyped, NEW p \in Pages, Redirect \/ Visit(p) \/ Load(p)
  PROVE  SessionTyped'
<1>1. /\ storage \in Stored /\ page \in Pages /\ initializing \in BOOLEAN
  BY DEF SessionInv, Shaped, SessionTyped
<1>2. CASE Redirect
  <2>1. /\ page' = Target(page) /\ phoneModal' \in {phoneModal, Nobody}
        /\ UNCHANGED <<notified, user, initializing, presses>>
        /\ storage' \in {storage, [storage EXCEPT !.onboarded = TRUE, !.mode = "demo"]}
    BY <1>2 DEF Redirect
  <2>2. storage'.user = storage.user /\ page' \in Pages
    BY <1>1, <2>1, StoredUser, SentToPage
  <2> QED BY <1>1, <2>1, <2>2, ProfilesKept
<1>3. CASE Visit(p)
  BY <1>1, <1>3, ProfilesKept DEF Visit
<1>4. CASE Load(p)
  BY <1>1, <1>4, ProfilesKept DEF Load, Loaded
<1> QED BY <1>2, <1>3, <1>4

\* The profile that the backend has answered.
LEMMA SyncTyped ==
  ASSUME SessionInv, SessionTyped, NEW w \in People, NEW i \in Intents,
         \/ \E p \in Profiles : SyncAnswered(w, i, p)
         \/ \E code \in {401, 404, 500} : SyncFailed(w, i, code)
  PROVE  SessionTyped'
<1>1. /\ storage \in Stored /\ page \in Pages /\ initializing \in BOOLEAN
  BY DEF SessionInv, Shaped, SessionTyped
<1>2. ASSUME NEW p \in Profiles, SyncAnswered(w, i, p) PROVE SessionTyped'
  <2> DEFINE T == Waiting(w, i)
             u == [who |-> w, profile |-> p]
             stored == [storage EXCEPT !.user = u,
                          !.intent = IF \E t \in T : t.by \in {"listener", "google"}
                                     THEN "none" ELSE @]
  <2>1. PICK asAdmin \in BOOLEAN : Welcome(T, u, asAdmin)
    BY <1>2 DEF SyncAnswered
  <2>2. u \in Users
    BY DEF Users
  <2>3. user' = u /\ initializing' = FALSE /\ UNCHANGED <<notified, presses>>
    BY <1>2 DEF SyncAnswered
  <2> HIDE DEF u, T
  <2>4. page' \in Pages
    <3>1. page' \in {page, "app", LandingPage(u, asAdmin)}
      BY <2>1 DEF Welcome
    <3> QED BY <1>1, <3>1, LandsOnPage DEF Pages
  <2>5. phoneModal' \in {u, Nobody, phoneModal}
    BY <2>1 DEF Welcome
  <2>6. storage' \in {stored, [stored EXCEPT !.onboarded = TRUE, !.mode = "demo"]}
    BY <2>1 DEF Welcome
  <2>7. stored.user = u /\ [stored EXCEPT !.onboarded = TRUE, !.mode = "demo"].user = u
    BY <1>1 DEF Stored
  <2> HIDE DEF stored
  <2>8. storage'.user = u
    BY <2>6, <2>7
  <2>9. Known(u) /\ Known(phoneModal) /\ Known(Nobody)
    BY <2>2 DEF SessionTyped, Known
  <2>10. Known(user') /\ Known(storage'.user) /\ Known(phoneModal')
    BY <2>3, <2>5, <2>8, <2>9
  <2>11. notified' \in People \cup {Nobody, Unseen} /\ presses' \in 0 .. MaxPresses
    BY <2>3 DEF SessionTyped
  <2>12. initializing' \in BOOLEAN
    BY <2>3
  <2> QED BY <2>4, <2>10, <2>11, <2>12 DEF SessionTyped
<1>3. ASSUME NEW code, SyncFailed(w, i, code) PROVE SessionTyped'
  <2>1. /\ storage' \in {storage, [storage EXCEPT !.intent = "none"]}
        /\ UNCHANGED <<notified, user, initializing, page, phoneModal, presses>>
    BY <1>3 DEF SyncFailed
  <2>2. [storage EXCEPT !.intent = "none"].user = storage.user
    BY <1>1, StoredUser DEF Intents
  <2>3. storage'.user = storage.user
    BY <2>1, <2>2
  <2>4. /\ initializing' \in BOOLEAN /\ page' \in Pages /\ notified' = notified
        /\ user' = user /\ phoneModal' = phoneModal /\ presses' = presses
    BY <1>1, <2>1
  <2> QED BY <2>3, <2>4, ProfilesKept
<1> QED BY <1>2, <1>3

\* The dialog writes the phone into the profile of the user.
LEMMA PhoneSavedTyped ==
  ASSUME SessionInv, SessionTyped, NEW t \in tasks, PhoneSaved(t)
  PROVE  SessionTyped'
<1>1. /\ storage \in Stored /\ page \in Pages /\ Known(user) /\ Known(storage.user)
  BY DEF SessionInv, Shaped, SessionTyped
<1>2. Known(user')
  <2>1. CASE user = Nobody
    BY <2>1 DEF PhoneSaved, Known
  <2>2. CASE user # Nobody
    <3>1. user \in Users /\ user.profile \in Profiles
      BY <1>1, <2>2 DEF Known, Users
    <3>2. [user.profile EXCEPT !.phone = TRUE] \in Profiles
      BY <3>1, ProfileAssumption
    <3>3. user' = [user EXCEPT !.profile = [user.profile EXCEPT !.phone = TRUE]]
      BY <2>2 DEF PhoneSaved
    <3> QED BY <3>1, <3>2, <3>3 DEF Known, Users
  <2> QED BY <2>1, <2>2
<1> DEFINE written == IF user = Nobody THEN storage ELSE [storage EXCEPT !.user = user']
<1>3. /\ \/ storage' = written
         \/ storage' = [written EXCEPT !.onboarded = TRUE, !.mode = "demo"]
      /\ page' = page \/ \E asAdmin \in BOOLEAN : page' = LandingPage(phoneModal, asAdmin)
      /\ phoneModal' = Nobody /\ UNCHANGED <<notified, initializing, presses>>
  BY DEF PhoneSaved
<1>4. written.user \in {storage.user, user'}
      /\ [written EXCEPT !.onboarded = TRUE, !.mode = "demo"].user \in {storage.user, user'}
  BY <1>1 DEF Stored
<1> HIDE DEF written
<1>5. Known(storage'.user)
  BY <1>1, <1>2, <1>3, <1>4
<1>6. page' \in Pages
  BY <1>1, <1>3, LandsOnPage
<1> QED BY <1>2, <1>3, <1>5, <1>6 DEF SessionTyped, Known

LEMMA ResumeTyped == SessionInv /\ SessionTyped /\ Resume => SessionTyped'
<1> SUFFICES ASSUME SessionInv, SessionTyped, Resume PROVE SessionTyped'
  OBVIOUS
<1>1. /\ storage \in Stored /\ page \in Pages /\ initializing \in BOOLEAN /\ tasks \subseteq Task
  BY DEF SessionInv, Shaped, SessionTyped
<1>2. PICK t \in tasks :
        \/ RefuseUnverified(t) \/ ClearInvalidSession(t) \/ EmailRefused(t) \/ EmailAgain(t)
        \/ PopupClosed(t) \/ (\E w \in People : PopupAnswered(t, w)) \/ Registered(t)
        \/ PhoneSaved(t) \/ PhoneRefused(t) \/ CheckRefused(t) \/ Resent(t) \/ ResendSignsIn(t)
        \/ LoggedOut(t)
  BY DEF Resume
<1>t. t.who \in People \cup {Nobody}
  BY <1>1 DEF Task
<1>3. CASE RefuseUnverified(t) \/ ClearInvalidSession(t)
  <2>1. /\ storage' = SignedOut(storage) /\ user' = Nobody /\ initializing' \in BOOLEAN
        /\ UNCHANGED <<notified, page, phoneModal, presses>>
    BY <1>1, <1>3 DEF RefuseUnverified, ClearInvalidSession
  <2> QED BY <1>1, <2>1, StoredUser, ProfilesKept
<1>4. CASE EmailRefused(t)
  <2>1. /\ page' \in {page, "verify"} /\ phoneModal' \in {phoneModal, Nobody}
        /\ UNCHANGED <<notified, user, initializing, storage, presses>>
    BY <1>4 DEF EmailRefused
  <2> QED BY <1>1, <2>1, ProfilesKept DEF Pages
<1>5. CASE EmailAgain(t) \/ PopupClosed(t) \/ PhoneRefused(t) \/ CheckRefused(t) \/ Resent(t)
  <2>1. UNCHANGED <<notified, user, initializing, storage, page, phoneModal, presses>>
    BY <1>5 DEF EmailAgain, PopupClosed, PhoneRefused, CheckRefused, Resent
  <2> QED BY <1>1, <2>1, ProfilesKept
<1>6. CASE (\E w \in People : PopupAnswered(t, w)) \/ ResendSignsIn(t)
  <2>1. PICK w \in People \cup {Nobody} : storage' = [storage EXCEPT !.token = w]
    BY <1>t, <1>6 DEF PopupAnswered, ResendSignsIn
  <2>2. UNCHANGED <<notified, user, initializing, page, phoneModal, presses>>
    BY <1>6 DEF PopupAnswered, ResendSignsIn
  <2> QED BY <1>1, <2>1, <2>2, StoredUser, ProfilesKept
<1>7. CASE Registered(t)
  <2>1. /\ page' \in {page, "verify"} /\ phoneModal' \in {phoneModal, Nobody}
        /\ user' \in {user, Nobody} /\ storage' \in {storage, SignedOut(storage)}
        /\ UNCHANGED <<notified, initializing, presses>>
    BY <1>7 DEF Registered
  <2>2. storage'.user \in {storage.user, Nobody} /\ page' \in Pages
    BY <1>1, <2>1, StoredUser DEF Pages
  <2> QED BY <1>1, <2>1, <2>2, ProfilesKept
<1>8. CASE LoggedOut(t)
  <2>1. /\ storage' = [SignedOut(storage) EXCEPT !.onboarded = FALSE] /\ user' = Nobody
        /\ page' = "login" /\ UNCHANGED <<notified, initializing, phoneModal, presses>>
    BY <1>8 DEF LoggedOut
  <2> QED BY <1>1, <2>1, StoredUser, ProfilesKept DEF Pages
<1> QED BY <1>2, <1>3, <1>4, <1>5, <1>6, <1>7, <1>8, PhoneSavedTyped

LEMMA ButtonTyped == SessionInv /\ SessionTyped /\ Button => SessionTyped'
<1> SUFFICES ASSUME SessionInv, SessionTyped, Button PROVE SessionTyped'
  OBVIOUS
<1>1. /\ storage \in Stored /\ page \in Pages /\ initializing \in BOOLEAN
  BY DEF SessionInv, Shaped, SessionTyped
<1>2. ASSUME NEW w \in People,
             LoginWithEmail(w) \/ RegisterWithEmail(w) \/ CheckVerification(w) \/ ResendVerification(w)
      PROVE  SessionTyped'
  <2>1. /\ storage' = storage \/ storage' = [storage EXCEPT !.token = w]
        /\ Press /\ UNCHANGED <<notified, user, initializing, page, phoneModal>>
    BY <1>2 DEF LoginWithEmail, RegisterWithEmail, CheckVerification, ResendVerification,
                SignInWith, StartSync
  <2>2. [storage EXCEPT !.token = w].user = storage.user
    BY <1>1, StoredUser
  <2>3. storage'.user = storage.user
    BY <2>1, <2>2
  <2> QED BY <1>1, <2>1, <2>3, ProfilesKept
<1>3. ASSUME NEW i \in {"login", "register"}, LoginWithGoogle(i) PROVE SessionTyped'
  BY <1>1, <1>3, StoredUser, ProfilesKept DEF LoginWithGoogle, Intents
<1>4. CASE SubmitPhone \/ Logout
  <2>1. Press /\ UNCHANGED <<notified, user, initializing, storage, page, phoneModal>>
    BY <1>4 DEF SubmitPhone, Logout
  <2> QED BY <1>1, <2>1, ProfilesKept
<1>5. CASE ConnectBroker
  <2>1. PICK m \in {"live", storage.mode} :
          storage' = [storage EXCEPT !.onboarded = TRUE, !.mode = m]
    BY <1>5 DEF ConnectBroker
  <2>2. page' = "app" /\ UNCHANGED <<notified, user, initializing, phoneModal, presses>>
    BY <1>5 DEF ConnectBroker
  <2> QED BY <1>1, <2>1, <2>2, StoredUser, ProfilesKept DEF Pages
<1>6. CASE ClearCache
  BY <1>1, <1>6, StoredUser, ProfilesKept DEF ClearCache
<1> QED BY <1>2, <1>3, <1>4, <1>5, <1>6 DEF Button

LEMMA ForceLogoutTyped == SessionInv /\ SessionTyped /\ ForceLogout => SessionTyped'
<1> SUFFICES ASSUME SessionInv, SessionTyped, ForceLogout PROVE SessionTyped'
  OBVIOUS
<1>1. /\ storage \in Stored /\ page \in Pages /\ initializing \in BOOLEAN
  BY DEF SessionInv, Shaped, SessionTyped
<1>2. Press /\ storage' = SignedOut(storage) /\ storage'.user = Nobody
  BY <1>1, StoredUser DEF ForceLogout
<1>3. CASE Loaded("login")
  BY <1>2, <1>3, ProfilesKept DEF Loaded, Pages
<1>4. CASE UNCHANGED <<notified, user, initializing, page, phoneModal>>
  BY <1>1, <1>2, <1>4, ProfilesKept
<1> QED BY <1>3, <1>4 DEF ForceLogout

LEMMA SessionTypedNext == SessionInv /\ SessionTyped /\ [SessionNext]_sessionVars => SessionTyped'
<1> SUFFICES ASSUME SessionInv, SessionTyped, [SessionNext]_sessionVars PROVE SessionTyped'
  OBVIOUS
<1>1. page \in Pages /\ initializing \in BOOLEAN
  BY DEF SessionTyped
<1>2. CASE Redirect \/ \E p \in Pages : Visit(p) \/ Load(p)
  BY <1>1, <1>2, RouteTyped
<1>3. CASE Answer
  BY <1>3, SyncTyped DEF Answer
<1>4. ASSUME NEW w \in People, VerifyMail(w) PROVE SessionTyped'
  BY <1>1, <1>4, ProfilesKept DEF VerifyMail
<1>5. CASE UNCHANGED sessionVars
  BY <1>1, <1>5, ProfilesKept DEF sessionVars
<1> QED
  BY <1>2, <1>3, <1>4, <1>5, NoticeTyped, ResumeTyped, ButtonTyped, ForceLogoutTyped DEF SessionNext

-----------------------------------------------------------------------------
(* The order panel, in full *)

\* No more shares than the orders made so far can have moved; the order that has yet to
\* execute has not moved any.
UnsettledOrders == IF order.stage \in {"session", "post"} THEN 1 ELSE 0
SettledOrders == orders - UnsettledOrders
Within(h, n) == \A s \in Traded : h[s] \in Int /\ -(1 + n * MaxQty) <= h[s] /\ h[s] <= 1 + n * MaxQty

TicketTyped ==
  /\ {confirmOpen, marketOpen} \subseteq BOOLEAN
  /\ touches \in 0 .. MaxTouches /\ orders \in 0 .. MaxOrders /\ SettledOrders \in Nat
  /\ Within(shownHoldings, SettledOrders) /\ Within(realHoldings, SettledOrders)
  /\ sync # NoHoldings => Within(sync, SettledOrders)
  /\ order.stage = "landing" => Within(order.served, SettledOrders)
  /\ order.stage = "refresh" /\ order.served # NoHoldings => Within(order.served, SettledOrders)

LEMMA MoreOrders ==
  ASSUME NEW m \in Nat, NEW n \in Nat, m <= n, NEW h, Within(h, m)
  PROVE  Within(h, n)
<1>1. MaxQty \in Nat /\ m * MaxQty <= n * MaxQty /\ m * MaxQty \in Nat /\ n * MaxQty \in Nat
  BY TicketAssumption
<1> QED BY <1>1 DEF Within

LEMMA OneMoreOrder ==
  ASSUME NEW n \in Nat, NEW h \in Holdings, Within(h, n), NEW s \in Traded, NEW q \in Int,
         -MaxQty <= q, q <= MaxQty
  PROVE  Within([h EXCEPT ![s] = @ + q], n + 1)
<1>1. MaxQty \in Nat /\ (n + 1) * MaxQty = n * MaxQty + MaxQty /\ n * MaxQty \in Nat
  BY TicketAssumption
<1> DEFINE g == [h EXCEPT ![s] = @ + q]
<1>2. \A x \in Traded : g[x] = IF x = s THEN h[s] + q ELSE h[x]
  BY DEF Holdings
<1> HIDE DEF g
<1>3. \A x \in Traded : h[x] \in Int /\ -(1 + n * MaxQty) <= h[x] /\ h[x] <= 1 + n * MaxQty
  BY DEF Within
<1>4. \A x \in Traded : g[x] \in Int /\ -(1 + (n + 1) * MaxQty) <= g[x] /\ g[x] <= 1 + (n + 1) * MaxQty
  BY <1>1, <1>2, <1>3
<1>5. Within(g, n + 1)
  BY <1>4 DEF Within
<1> QED BY <1>5 DEF g

LEMMA WithinStakes ==
  ASSUME NEW n \in 0 .. MaxOrders, NEW h \in Holdings, Within(h, n)
  PROVE  h \in Stakes
<1>1. /\ MaxQty \in Nat \ {0} /\ MaxOrders \in Nat \ {0}
  BY TicketAssumption
<1>2. MaxOrders * MaxQty \in Nat /\ n * MaxQty <= MaxOrders * MaxQty
      /\ 1 <= MaxOrders * MaxQty /\ 2 * MaxOrders * MaxQty = MaxOrders * MaxQty + MaxOrders * MaxQty
      /\ n * MaxQty \in Nat
  BY <1>1
<1>3. \A s \in Traded : h[s] \in -(2 * MaxOrders * MaxQty) .. 2 * MaxOrders * MaxQty
  BY <1>2 DEF Within
<1> QED BY <1>3 DEF Holdings, Stakes

LEMMA TicketTypedShows == TicketInv /\ TicketTyped => TicketTypeOK
<1> SUFFICES ASSUME TicketInv, TicketTyped PROVE TicketTypeOK
  OBVIOUS
<1>0. UnsettledOrders \in 0 .. 1
  BY DEF UnsettledOrders
<1>1. SettledOrders \in 0 .. MaxOrders
  BY <1>0, TicketAssumption DEF TicketTyped, SettledOrders
<1>2. shownHoldings \in Stakes /\ realHoldings \in Stakes
  BY <1>1, WithinStakes DEF TicketTyped, TicketInv, TicketShaped
<1>3. sync \in Stakes \cup {NoHoldings}
  BY <1>1, WithinStakes DEF TicketTyped, TicketInv, TicketShaped
<1>4. order.stage \in {"none", "session", "post", "refresh", "landing"}
  BY DEF TicketInv, TicketShaped, Sent
<1> QED BY <1>2, <1>3, <1>4 DEF TicketTyped, TicketTypeOK, TicketInv, TicketShaped

LEMMA TicketTypedInit == TicketInit => TicketTyped
<1> SUFFICES ASSUME TicketInit PROVE TicketTyped
  OBVIOUS
<1>1. order.stage = "none" /\ orders = 0 /\ touches = 0 /\ sync = NoHoldings
  BY NoOrderSent DEF TicketInit
<1>0. UnsettledOrders = 0
  BY <1>1 DEF UnsettledOrders
<1>2. SettledOrders = 0
  BY <1>0, <1>1 DEF SettledOrders
<1>3. \A s \in Traded : realHoldings[s] \in 0 .. 1
  BY DEF TicketInit
<1>4. 0 * MaxQty = 0 /\ 0 \in 0 .. MaxTouches /\ 0 \in 0 .. MaxOrders
  BY TicketAssumption
<1>5. Within(realHoldings, 0) /\ shownHoldings = realHoldings
  BY <1>3, <1>4 DEF Within, TicketInit
<1>6. confirmOpen = FALSE /\ marketOpen = TRUE
  BY DEF TicketInit
<1> QED BY <1>1, <1>2, <1>4, <1>5, <1>6 DEF TicketTyped

\* A step that moves no holdings, as far as the shares are concerned.
LEMMA SharesKept ==
  ASSUME TicketInv, TicketTyped,
         confirmOpen' \in BOOLEAN, marketOpen' \in BOOLEAN, touches' \in 0 .. MaxTouches,
         orders' \in 0 .. MaxOrders, SettledOrders' \in Nat, SettledOrders <= SettledOrders',
         shownHoldings' \in {shownHoldings, realHoldings} \/ (sync # NoHoldings /\ shownHoldings' = sync)
           \/ (order.stage = "landing" /\ shownHoldings' = order.served),
         realHoldings' = realHoldings \/ Within(realHoldings', SettledOrders'),
         sync' \in {sync, NoHoldings, realHoldings},
         order'.stage = "landing" =>
           \/ order.stage = "landing" /\ order'.served = order.served
           \/ order.stage = "refresh" /\ order.served # NoHoldings /\ order'.served = order.served
           \/ order'.served = realHoldings,
         order'.stage = "refresh" =>
           \/ order.stage = "refresh" /\ order'.served = order.served
           \/ order'.served \in {NoHoldings, realHoldings}
  PROVE  TicketTyped'
<1>1. SettledOrders \in Nat
  BY DEF TicketTyped
<1>2. \A h : Within(h, SettledOrders) => Within(h, SettledOrders')
  BY <1>1, MoreOrders
<1>3. Within(shownHoldings, SettledOrders) /\ Within(realHoldings, SettledOrders)
      /\ (sync # NoHoldings => Within(sync, SettledOrders))
      /\ (order.stage = "landing" => Within(order.served, SettledOrders))
      /\ (order.stage = "refresh" /\ order.served # NoHoldings
           => Within(order.served, SettledOrders))
  BY DEF TicketTyped
<1>4. Within(shownHoldings', SettledOrders') /\ Within(realHoldings', SettledOrders')
  BY <1>2, <1>3
<1>5. sync' # NoHoldings => Within(sync', SettledOrders')
  BY <1>2, <1>3
<1>6. order'.stage = "landing" => Within(order'.served, SettledOrders')
  BY <1>2, <1>3
<1>7. order'.stage = "refresh" /\ order'.served # NoHoldings => Within(order'.served, SettledOrders')
  BY <1>2, <1>3
<1> QED BY <1>4, <1>5, <1>6, <1>7 DEF TicketTyped, Within

LEMMA UnsettledIs == UnsettledOrders \in {0, 1} /\ UnsettledOrders' \in {0, 1}
BY DEF UnsettledOrders

\* What shows the form and the dialog only.
LEMMA FormTyped ==
  ASSUME TicketInv, TicketTyped, confirmOpen' \in BOOLEAN, touches' \in 0 .. MaxTouches,
         UNCHANGED <<order, marketOpen, shownHoldings, realHoldings, sync, orders>>
  PROVE  TicketTyped'
<1>1. SettledOrders' = SettledOrders
  BY DEF SettledOrders, UnsettledOrders
<1>2. SettledOrders \in Nat /\ marketOpen \in BOOLEAN /\ orders \in 0 .. MaxOrders
  BY DEF TicketTyped
<1> QED BY <1>1, <1>2, SharesKept

LEMMA TouchTyped ==
  ASSUME TicketInv, TicketTyped, NEW f, Touch(f)
  PROVE  TicketTyped'
<1>1. touches' \in 0 .. MaxTouches /\ confirmOpen' \in BOOLEAN
  BY TicketAssumption DEF Touch, TicketTyped
<1> QED BY <1>1, FormTyped DEF Touch

LEMMA FormChangesTyped == TicketInv /\ TicketTyped /\ FormChanges => TicketTyped'
<1> SUFFICES ASSUME TicketInv, TicketTyped, FormChanges PROVE TicketTyped'
  OBVIOUS
<1>1. CASE SelectSymbolToTrade
  <2>1. touches' \in 0 .. MaxTouches /\ confirmOpen' \in BOOLEAN
    BY <1>1, TicketAssumption DEF SelectSymbolToTrade, TicketTyped
  <2> QED BY <1>1, <2>1, FormTyped DEF SelectSymbolToTrade
<1>2. CASE \E f : Touch(f)
  BY <1>2, TouchTyped
<1> QED
  BY <1>1, <1>2
  DEF FormChanges, SetSide, PressTradeBar, OpenOnSide, SwitchToIntraday, HandleTradingTypeChange,
      HandleOrderTypeChange, TypePrice, TypeQuantity, PressMax

LEMMA ConfirmTyped ==
  ASSUME TicketInv, TicketTyped, PressPlace \/ CancelConfirm \/ HandleConfirm
  PROVE  TicketTyped'
<1>t. /\ SettledOrders \in Nat /\ marketOpen \in BOOLEAN /\ orders \in 0 .. MaxOrders
      /\ touches \in 0 .. MaxTouches /\ MaxOrders \in Nat
  BY TicketAssumption DEF TicketTyped
<1>1. CASE PressPlace \/ CancelConfirm
  <2>1. confirmOpen' \in BOOLEAN /\ touches' = touches
        /\ UNCHANGED <<order, marketOpen, shownHoldings, realHoldings, sync, orders>>
    BY <1>1 DEF PressPlace, CancelConfirm
  <2> QED BY <1>t, <2>1, FormTyped
<1>2. CASE HandleConfirm
  <2>1. confirmOpen' = FALSE /\ UNCHANGED <<marketOpen, shownHoldings, realHoldings, sync, touches>>
    BY <1>2 DEF HandleConfirm
  <2>2. CASE UNCHANGED <<order, orders>>
    BY <1>t, <2>1, <2>2, FormTyped
  <2>3. CASE orders < MaxOrders /\ orders' = orders + 1 /\ order'.stage = "session"
    <3>1. order.stage = "none" /\ order.stage # "landing"
      BY <1>2, NoOrderSent DEF HandleConfirm
    <3>2. UnsettledOrders = 0 /\ UnsettledOrders' = 1
      BY <2>3, <3>1 DEF UnsettledOrders
    <3>3. SettledOrders' = SettledOrders /\ orders' \in 0 .. MaxOrders
          /\ order'.stage \notin {"refresh", "landing"}
      BY <1>t, <2>3, <3>2 DEF SettledOrders
    <3>4. marketOpen' = marketOpen /\ touches' = touches
      BY <2>1
    <3>5. confirmOpen' \in BOOLEAN /\ marketOpen' \in BOOLEAN /\ touches' \in 0 .. MaxTouches
      BY <1>t, <2>1, <3>4
    <3>6. SettledOrders' \in Nat /\ SettledOrders <= SettledOrders'
      BY <1>t, <3>3
    <3> QED BY <2>1, <3>3, <3>5, <3>6, SharesKept
  <2> QED BY <1>2, <2>2, <2>3 DEF HandleConfirm
<1> QED BY <1>1, <1>2

LEMMA PostedTyped == TicketInv /\ TicketTyped /\ OrderPosted => TicketTyped'
<1> SUFFICES ASSUME TicketInv, TicketTyped, OrderPosted PROVE TicketTyped'
  OBVIOUS
<1>t. /\ SettledOrders \in Nat /\ marketOpen \in BOOLEAN /\ orders \in 0 .. MaxOrders
      /\ touches \in 0 .. MaxTouches /\ MaxOrders \in Nat /\ confirmOpen \in BOOLEAN
      /\ order \in Sent /\ realHoldings \in Holdings /\ Within(realHoldings, SettledOrders)
  BY TicketAssumption DEF TicketTyped, TicketInv, TicketShaped
<1>1. /\ order.stage = "post" /\ realHoldings' \in {realHoldings, Executed}
      /\ UNCHANGED <<confirmOpen, marketOpen, shownHoldings, sync, touches, orders>>
      /\ \/ order' = NoOrder
         \/ \E copy \in {NoHoldings, realHoldings} :
              order' = [order EXCEPT !.stage = "refresh", !.served = copy]
  BY DEF OrderPosted
<1>2. \A copy : LET o == [order EXCEPT !.stage = "refresh", !.served = copy]
                IN o.stage = "refresh" /\ o.served = copy
  BY <1>t DEF Sent
<1>3. \/ order'.stage = "none"
      \/ order'.stage = "refresh" /\ order'.served \in {NoHoldings, realHoldings}
  BY <1>1, <1>2, NoOrderSent
<1>4. UnsettledOrders = 1 /\ UnsettledOrders' = 0
  BY <1>1, <1>3 DEF UnsettledOrders
<1>5. SettledOrders' = SettledOrders + 1
  BY <1>1, <1>4, <1>t DEF SettledOrders
<1>6. Within(Executed, SettledOrders + 1)
  <2> DEFINE q == IF order.side = "BUY" THEN order.quantity ELSE -order.quantity
  <2>1. order.symbol \in Traded /\ order.quantity \in 0 .. MaxQty /\ MaxQty \in Nat
    BY <1>t, TicketAssumption DEF Sent
  <2>2. q \in Int /\ -MaxQty <= q /\ q <= MaxQty
    BY <2>1
  <2>3. Executed = [realHoldings EXCEPT ![order.symbol] = @ + q]
    BY DEF Executed
  <2> HIDE DEF q
  <2> QED BY <1>t, <2>1, <2>2, <2>3, OneMoreOrder
<1>7. realHoldings' = realHoldings \/ Within(realHoldings', SettledOrders')
  BY <1>1, <1>5, <1>6
<1>8. order'.stage # "landing" /\ SettledOrders <= SettledOrders' /\ SettledOrders' \in Nat
  BY <1>3, <1>5, <1>t
<1> QED BY <1>1, <1>3, <1>7, <1>8, <1>t, SharesKept

LEMMA OrderMovesTyped == TicketInv /\ TicketTyped /\ OrderMoves => TicketTyped'
<1> SUFFICES ASSUME TicketInv, TicketTyped, OrderMoves PROVE TicketTyped'
  OBVIOUS
<1>t. /\ SettledOrders \in Nat /\ marketOpen \in BOOLEAN /\ orders \in 0 .. MaxOrders
      /\ touches \in 0 .. MaxTouches /\ confirmOpen \in BOOLEAN /\ order \in Sent
  BY DEF TicketTyped, TicketInv, TicketShaped
<1>1. CASE SessionChecked
  <2>1. /\ order.stage = "session" /\ marketOpen' \in BOOLEAN
        /\ order' = NoOrder \/ order' = [order EXCEPT !.stage = "post"]
        /\ UNCHANGED <<confirmOpen, shownHoldings, realHoldings, sync, touches, orders>>
    BY <1>1, <1>t DEF SessionChecked
  <2>2. [order EXCEPT !.stage = "post"].stage = "post"
    BY <1>t DEF Sent
  <2>3. order'.stage \notin {"refresh", "landing"}
    BY <2>1, <2>2, NoOrderSent
  <2>4. UnsettledOrders = 1 /\ UnsettledOrders' \in {0, 1}
    BY <2>1 DEF UnsettledOrders
  <2>5. SettledOrders <= SettledOrders' /\ SettledOrders' \in Nat
    BY <1>t, <2>1, <2>4 DEF SettledOrders
  <2> QED BY <1>t, <2>1, <2>3, <2>5, SharesKept
<1>2. CASE RefreshServed
  <2>0. PICK served \in {order.served, realHoldings} \ {NoHoldings} :
          order' = [order EXCEPT !.stage = "landing", !.served = served]
    BY <1>2 DEF RefreshServed
  <2>1. /\ order.stage = "refresh"
        /\ UNCHANGED <<confirmOpen, marketOpen, shownHoldings, realHoldings, sync, touches, orders>>
    BY <1>2 DEF RefreshServed
  <2>2. /\ order'.stage = "landing"
        /\ \/ order.served # NoHoldings /\ order'.served = order.served
           \/ order'.served = realHoldings
    BY <1>t, <2>0 DEF Sent
  <2>3. UnsettledOrders = 0 /\ UnsettledOrders' = 0
    BY <2>1, <2>2 DEF UnsettledOrders
  <2>4. SettledOrders' = SettledOrders
    BY <2>1, <2>3 DEF SettledOrders
  <2> QED BY <1>t, <2>1, <2>2, <2>4, SharesKept
<1>3. CASE RefreshEnds
  <2>1. /\ order.stage = "landing" /\ order' = NoOrder /\ realHoldings' = realHoldings
        /\ shownHoldings' \in {order.served, shownHoldings}
        /\ UNCHANGED <<confirmOpen, marketOpen, sync, touches, orders>>
    BY <1>3 DEF RefreshEnds
  <2>2. order'.stage = "none"
    BY <2>1, NoOrderSent
  <2>3. UnsettledOrders = 0 /\ UnsettledOrders' = 0
    BY <2>1, <2>2 DEF UnsettledOrders
  <2>4. SettledOrders' = SettledOrders
    BY <2>1, <2>3 DEF SettledOrders
  <2> QED BY <1>t, <2>1, <2>2, <2>4, SharesKept
<1> QED BY <1>1, <1>2, <1>3, PostedTyped DEF OrderMoves

\* Trades elsewhere count as orders, of a share or of all.
LEMMA ElsewhereTyped ==
  ASSUME TicketInv, TicketTyped, NEW h \in Holdings, Elsewhere(h),
         \/ \E s \in Traded, q \in {-1, 1} : h = [realHoldings EXCEPT ![s] = @ + q]
         \/ h = [s \in Traded |-> 0]
  PROVE  TicketTyped'
<1>t. /\ SettledOrders \in Nat /\ marketOpen \in BOOLEAN /\ orders \in 0 .. MaxOrders
      /\ touches \in 0 .. MaxTouches /\ MaxOrders \in Nat /\ confirmOpen \in BOOLEAN
      /\ order \in Sent /\ realHoldings \in Holdings /\ Within(realHoldings, SettledOrders)
      /\ MaxQty \in Nat \ {0}
  BY TicketAssumption DEF TicketTyped, TicketInv, TicketShaped
<1>1. /\ orders < MaxOrders /\ orders' = orders + 1 /\ realHoldings' = h
      /\ order' = [order EXCEPT !.knew = @ /\ order = NoOrder]
      /\ UNCHANGED <<confirmOpen, marketOpen, shownHoldings, sync, touches>>
  BY DEF Elsewhere
<1>2. order'.stage = order.stage /\ order'.served = order.served
  BY <1>1, <1>t DEF Sent
<1>3. UnsettledOrders' = UnsettledOrders /\ UnsettledOrders \in {0, 1}
  BY <1>2 DEF UnsettledOrders
<1>4. SettledOrders' = SettledOrders + 1 /\ orders' \in 0 .. MaxOrders
  BY <1>1, <1>3, <1>t DEF SettledOrders
<1>5. Within(h, SettledOrders + 1)
  <2>1. CASE h = [s \in Traded |-> 0]
    <3>1. (SettledOrders + 1) * MaxQty \in Nat
      BY <1>t
    <3>2. \A s \in Traded : h[s] = 0
      BY <2>1
    <3> QED BY <3>1, <3>2 DEF Within
  <2>2. CASE \E s \in Traded, q \in {-1, 1} : h = [realHoldings EXCEPT ![s] = @ + q]
    <3>1. PICK s \in Traded, q \in {-1, 1} : h = [realHoldings EXCEPT ![s] = @ + q]
      BY <2>2
    <3>2. q \in Int /\ -MaxQty <= q /\ q <= MaxQty
      BY <1>t
    <3> QED BY <1>t, <3>1, <3>2, OneMoreOrder
  <2> QED BY <2>1, <2>2
<1>6. SettledOrders <= SettledOrders' /\ SettledOrders' \in Nat /\ Within(realHoldings', SettledOrders')
  BY <1>1, <1>4, <1>5, <1>t
<1> QED BY <1>1, <1>2, <1>4, <1>6, <1>t, SharesKept

LEMMA BesidesTyped ==
  ASSUME TicketInv, TicketTyped,
         CheckSession \/ SyncServed \/ SyncLands \/ RestingFills \/ QuickOrder \/ HandleCloseAll
  PROVE  TicketTyped'
<1>t. /\ SettledOrders \in Nat /\ marketOpen \in BOOLEAN /\ orders \in 0 .. MaxOrders
      /\ touches \in 0 .. MaxTouches /\ MaxTouches \in Nat /\ confirmOpen \in BOOLEAN
      /\ realHoldings \in Holdings
  BY TicketAssumption DEF TicketTyped, TicketInv, TicketShaped
<1>1. CASE CheckSession
  <2>1. /\ marketOpen' \in BOOLEAN /\ touches' \in 0 .. MaxTouches
        /\ UNCHANGED <<confirmOpen, order, shownHoldings, realHoldings, sync, orders>>
    BY <1>1, <1>t DEF CheckSession
  <2>2. SettledOrders' = SettledOrders
    BY <2>1 DEF SettledOrders, UnsettledOrders
  <2> QED BY <1>t, <2>1, <2>2, SharesKept
<1>2. CASE SyncServed \/ SyncLands
  <2>1. /\ UNCHANGED <<confirmOpen, marketOpen, order, realHoldings, touches, orders>>
        /\ sync' \in {realHoldings, NoHoldings}
        /\ shownHoldings' = shownHoldings \/ (sync # NoHoldings /\ shownHoldings' = sync)
    BY <1>2 DEF SyncServed, SyncLands
  <2>2. SettledOrders' = SettledOrders
    BY <2>1 DEF SettledOrders, UnsettledOrders
  <2> QED BY <1>t, <2>1, <2>2, SharesKept
<1>3. CASE RestingFills
  <2>1. PICK s \in Traded : Elsewhere([realHoldings EXCEPT ![s] = @ - 1])
    BY <1>3 DEF RestingFills
  <2>2. [realHoldings EXCEPT ![s] = @ - 1] = [realHoldings EXCEPT ![s] = @ + (-1)]
    BY <1>t DEF Holdings
  <2>3. [realHoldings EXCEPT ![s] = @ + (-1)] \in Holdings
    BY <1>t DEF Holdings
  <2> QED BY <2>1, <2>2, <2>3, ElsewhereTyped
<1>4. CASE QuickOrder
  <2>1. PICK s \in Traded :
          LET q == IF shownHoldings[s] < 0 THEN 1 ELSE -1
          IN Elsewhere([realHoldings EXCEPT ![s] = @ + q])
    BY <1>4 DEF QuickOrder
  <2> DEFINE q == IF shownHoldings[s] < 0 THEN 1 ELSE -1
  <2>2. q \in {-1, 1} /\ Elsewhere([realHoldings EXCEPT ![s] = @ + q])
    BY <2>1
  <2> HIDE DEF q
  <2>3. [realHoldings EXCEPT ![s] = @ + q] \in Holdings
    BY <1>t, <2>2 DEF Holdings
  <2> QED BY <2>2, <2>3, ElsewhereTyped
<1>5. CASE HandleCloseAll
  <2>1. [s \in Traded |-> 0] \in Holdings
    BY DEF Holdings
  <2> QED BY <1>5, <2>1, ElsewhereTyped DEF HandleCloseAll
<1> QED BY <1>1, <1>2, <1>3, <1>4, <1>5

LEMMA TicketTypedNext == TicketInv /\ TicketTyped /\ [TicketNext]_ticketVars => TicketTyped'
<1> SUFFICES ASSUME TicketInv, TicketTyped, [TicketNext]_ticketVars PROVE TicketTyped'
  OBVIOUS
<1>1. CASE UNCHANGED ticketVars
  BY <1>1, FormTyped DEF ticketVars, TicketTyped
<1> QED
  BY <1>1, FormChangesTyped, ConfirmTyped, OrderMovesTyped, BesidesTyped DEF TicketNext

-----------------------------------------------------------------------------
(* The orders page, in full *)

PageTyped ==
  /\ {confirmCancelId, cancelLoadingId, editingRowId} \subseteq OrderIds \cup {NoId}
  /\ pageView \in Views /\ restored \in BOOLEAN /\ cancelCount \in 0 .. MaxCancels

LEMMA PageTypedShows == PageInv /\ PageTyped => PageTypeOK
BY DEF PageInv, PageTyped, PageTypeOK

LEMMA PageTypedInit == PageInit => PageTyped
<1>1. 0 \in 0 .. MaxCancels
  BY PageAssumption
<1> QED BY <1>1 DEF PageInit, PageTyped

LEMMA PageTypedNext == PageInv /\ PageTyped /\ [PageNext]_pageVars => PageTyped'
<1> SUFFICES ASSUME PageInv, PageTyped, [PageNext]_pageVars PROVE PageTyped'
  OBVIOUS
<1>1. VisibleByTab(pageView) \subseteq OrderIds
  BY DEF VisibleByTab, FilteredBaseOrders
<1>2. CASE ServerMoves \/ LoadOrders \/ UNCHANGED pageVars
  BY <1>2 DEF ServerMoves, LoadOrders, pageVars, PageTyped
<1>3. CASE OrdersLoaded \/ ChangeView
  BY <1>3 DEF OrdersLoaded, ChangeView, PageTyped
<1>4. CASE PressCancel \/ OpenModifyEditor \/ CloseEditor \/ DismissCancel
  BY <1>1, <1>4 DEF PressCancel, OpenModifyEditor, CloseEditor, DismissCancel, PendingRows, PageTyped
<1>5. CASE HandleCancelOrder
  BY <1>1, <1>5, PageAssumption DEF HandleCancelOrder, PageTyped
<1>6. CASE CancelAnswered
  BY <1>6 DEF CancelAnswered, PageTyped
<1>7. CASE CancelFails
  <2>1. PICK r \in cancelling :
          restored' = (restored \/ \E o \in OrderIds :
                         r.shown[o] = "CANCELLED" /\ (o = r.id \/ shownOrders[o] # "CANCELLED"))
    BY <1>7 DEF CancelFails
  <2>2. restored' \in BOOLEAN
    BY <2>1
  <2> QED BY <1>7, <2>2 DEF CancelFails, PageTyped
<1> QED
  BY <1>2, <1>3, <1>4, <1>5, <1>6, <1>7 DEF PageNext

-----------------------------------------------------------------------------
(* The orders and positions in options, in full *)

\* A number that was given, and the lots of a row, are at most as many as the orders.
BookOrders == [id : 1 .. MaxPlaced, status : {"PENDING"}]
BookTyped ==
  /\ optOrders \in Seq(BookOrders) /\ Len(optOrders) <= MaxPlaced
  /\ {orderId, posId} \subseteq 1 .. Len(optOrders) + 1 /\ doubled \in BOOLEAN
  /\ optPositions \subseteq [id : 1 .. Len(optOrders), leg : OptionLegs, lots : 1 .. Len(optOrders)]

LEMMA BookTypedShows == BookTyped => BookTypeOK
<1> SUFFICES ASSUME BookTyped PROVE BookTypeOK
  OBVIOUS
<1>1. Len(optOrders) \in Nat /\ Len(optOrders) <= MaxPlaced /\ MaxPlaced \in Nat
  BY LenProperties, BookAssumption DEF BookTyped
<1>2. 1 .. Len(optOrders) \subseteq 1 .. MaxPlaced /\ 1 .. Len(optOrders) + 1 \subseteq 1 .. MaxPlaced + 1
  BY <1>1
<1>3. \A i \in DOMAIN optOrders : optOrders[i].id \in 1 .. MaxPlaced
  <2>1. \A i \in DOMAIN optOrders : optOrders[i] \in BookOrders
    BY ElementOfSeq, LenProperties DEF BookTyped
  <2> QED BY <2>1 DEF BookOrders
<1>4. optPositions \subseteq [id : 1 .. MaxPlaced, leg : OptionLegs, lots : 1 .. MaxPlaced]
  BY <1>2 DEF BookTyped
<1> QED BY <1>2, <1>3, <1>4 DEF BookTyped, BookTypeOK

LEMMA BookTypedInit == BookInit => BookTyped
<1> SUFFICES ASSUME BookInit PROVE BookTyped
  OBVIOUS
<1>1. <<>> \in Seq(BookOrders) /\ Len(<<>>) = 0
  BY EmptySeq
<1>2. optOrders = <<>> /\ optPositions = {} /\ orderId = 1 /\ posId = 1 /\ doubled = FALSE
  BY DEF BookInit
<1>3. 1 \in 1 .. Len(optOrders) + 1 /\ Len(optOrders) <= MaxPlaced
  BY <1>1, <1>2, BookAssumption
<1> QED BY <1>1, <1>2, <1>3 DEF BookTyped

LEMMA PlaceTyped == BookTyped /\ HandlePlaceOrder => BookTyped'
<1> SUFFICES ASSUME BookTyped, HandlePlaceOrder PROVE BookTyped'
  OBVIOUS
<1> DEFINE n == Len(optOrders)
           placed == [id |-> orderId, status |-> "PENDING"]
           Rows2(m) == [id : 1 .. m, leg : OptionLegs, lots : 1 .. m]
<1>1. PICK leg \in OptionLegs :
        /\ optOrders' = <<placed>> \o optOrders /\ orderId' = orderId + 1
        /\ AddPosition(leg)
        /\ doubled' = (doubled \/ \E p, q \in optPositions' : p # q /\ p.id = q.id)
  BY DEF HandlePlaceOrder
<1>2. /\ n \in Nat /\ n < MaxPlaced /\ MaxPlaced \in Nat /\ optOrders \in Seq(BookOrders)
      /\ orderId \in 1 .. n + 1 /\ posId \in 1 .. n + 1 /\ optPositions \subseteq Rows2(n)
  BY LenProperties, BookAssumption DEF BookTyped, HandlePlaceOrder
<1>3. placed \in BookOrders
  BY <1>2 DEF BookOrders
<1> HIDE DEF placed
<1>4. optOrders' \in Seq(BookOrders) /\ Len(optOrders') = n + 1
  <2>1. <<placed>> \in Seq(BookOrders) /\ Len(<<placed>>) = 1
    BY <1>3
  <2> QED BY <1>1, <1>2, <2>1, ConcatProperties
<1> HIDE DEF n
<1>5. posId' \in 1 .. n + 2 /\ optPositions' \subseteq Rows2(n + 1)
  <2>1. CASE AddPositionAnew(leg)
    <3>1. [id |-> posId, leg |-> leg, lots |-> 1] \in Rows2(n + 1)
      BY <1>2
    <3>2. Rows2(n) \subseteq Rows2(n + 1)
      BY <1>2
    <3> QED BY <1>2, <2>1, <3>1, <3>2 DEF AddPositionAnew
  <2>2. CASE \E p \in optPositions : AddLots(p)
    <3>1. PICK f \in optPositions : AddLots(f)
      BY <2>2
    <3>2. f \in Rows2(n)
      BY <1>2
    <3>3. ASSUME NEW p \in optPositions
          PROVE  p \in Rows2(n + 1) /\ [p EXCEPT !.lots = f.lots + 1] \in Rows2(n + 1)
      <4>1. p \in Rows2(n)
        BY <1>2
      <4> QED BY <1>2, <3>2, <4>1
    <3>4. optPositions' = {IF p.id # f.id THEN p ELSE [p EXCEPT !.lots = f.lots + 1] :
                             p \in optPositions} /\ posId' = posId
      BY <3>1 DEF AddLots
    <3> HIDE DEF Rows2
    <3>5. optPositions' \subseteq Rows2(n + 1)
      BY <3>3, <3>4
    <3> QED BY <1>2, <3>4, <3>5
  <2> QED BY <1>1, <2>1, <2>2 DEF AddPosition
<1>6. orderId' \in 1 .. n + 2 /\ doubled' \in BOOLEAN
  BY <1>1, <1>2
<1> QED BY <1>2, <1>4, <1>5, <1>6 DEF BookTyped

LEMMA BookTypedNext == BookTyped /\ [BookNext]_bookVars => BookTyped'
<1> SUFFICES ASSUME BookTyped, [BookNext]_bookVars PROVE BookTyped'
  OBVIOUS
<1>1. CASE ClosePosition
  BY <1>1 DEF ClosePosition, BookTyped
<1>2. CASE LoadStore
  <2>1. Len(optOrders) \in Nat
    BY LenProperties DEF BookTyped
  <2> QED BY <1>2, <2>1 DEF LoadStore, BookTyped
<1>3. CASE UNCHANGED bookVars
  BY <1>3 DEF bookVars, BookTyped
<1> QED
  BY <1>1, <1>2, <1>3, PlaceTyped DEF BookNext

=============================================================================
