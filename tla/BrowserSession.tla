--------------------------- MODULE BrowserSession ---------------------------
(***************************************************************************)
(* The browser application's session: the authentication store              *)
(* (stores/useAuthStore.js), the token interceptor (services/api.js), the    *)
(* route guards (App.jsx, ProtectedRoute, AdminRoute) and the handlers of    *)
(* the sign-in, verification, account-status and admin-access pages.         *)
(*                                                                           *)
(* A handler suspended at an await is a task; every action below runs one     *)
(* task from one await to the next, so tasks interleave as promises do.       *)
(***************************************************************************)
EXTENDS Naturals, FiniteSets

CONSTANTS
  People,     \* Firebase accounts
  Google,     \* those that sign in with Google; the others use a password
  Profiles,   \* what the backend may answer about an account
  Nobody,     \* no account, no profile
  Unseen,     \* the auth listener has not been called yet
  MaxPresses  \* bound: buttons pressed and pages loaded in a behaviour

ASSUME SessionAssumption ==
  /\ Google \subseteq People
  /\ Nobody \notin People
  /\ Unseen \notin People \cup {Nobody}
  /\ MaxPresses \in Nat

VARIABLES
  fbUser,        \* auth.currentUser
  notified,      \* the account the auth listener was last called with
  mail,          \* password accounts: "none", "unverified" or "verified"
  user,          \* the store's user: [who, profile], or Nobody
  initializing,  \* the store's flag: the guards show a spinner
  storage,       \* localStorage: user, token, intent, onboarded, mode
  tasks,         \* handlers suspended at an await
  page,          \* the route shown
  phoneModal,    \* the profile the phone dialog waits with, or Nobody
  presses        \* buttons pressed so far

sessionVars == <<fbUser, notified, mail, user, initializing, storage, tasks,
                 page, phoneModal, presses>>
-----------------------------------------------------------------------------
(* A profile as far as the code looks at it; a field the answer leaves out   *)
(* is "missing", which is falsy.                                             *)
ProfileShape == [status : {"missing", "active", "expired"},
                 active : {"missing", "yes", "no"},
                 role   : {"user", "admin"}, phone : BOOLEAN]

\* Of any account the backend may answer that its phone is known.
ASSUME ProfileAssumption ==
  /\ Profiles \subseteq ProfileShape
  /\ \A p \in Profiles : [p EXCEPT !.phone = TRUE] \in Profiles

Users == [who : People, profile : Profiles]
Intents == {"none", "login", "register"}
Pages == {"login", "verify", "admin", "adminPanel", "account",
          "selectBroker", "app"}
Storage == [user : Users \cup {Nobody}, token : People \cup {Nobody},
            intent : Intents, onboarded : BOOLEAN,
            mode : {"none", "demo", "live"}]
Handlers == {"listener", "email", "google", "register", "resend", "check",
             "phone", "logout"}
Task == [by : Handlers, who : People \cup {Nobody}, intent : Intents,
         at : {"sync", "clear", "refuse", "popup", "mail", "again", "post"}]

SessionTypeOK ==
  /\ fbUser \in People \cup {Nobody}
  /\ notified \in People \cup {Nobody, Unseen}
  /\ mail \in [People \ Google -> {"none", "unverified", "verified"}]
  /\ user \in Users \cup {Nobody}
  /\ initializing \in BOOLEAN
  /\ storage \in Storage
  /\ tasks \subseteq Task
  /\ page \in Pages
  /\ phoneModal \in Users \cup {Nobody}
  /\ presses \in 0 .. MaxPresses

SessionInit ==
  /\ fbUser = Nobody
  /\ notified = Unseen
  /\ mail \in [People \ Google -> {"none", "unverified", "verified"}]
  /\ user = Nobody
  /\ initializing = TRUE
  /\ storage = [user |-> Nobody, token |-> Nobody, intent |-> "none",
                onboarded |-> FALSE, mode |-> "none"]
  /\ tasks = {}
  /\ page = "login"
  /\ phoneModal = Nobody
  /\ presses = 0
-----------------------------------------------------------------------------
(* Helpers *)

Verified(w) == IF w \in Google THEN TRUE ELSE mail[w] = "verified"
Idle(h) == \A t \in tasks : t.by # h
Press == presses < MaxPresses /\ presses' = presses + 1

SignedOut(st) == [st EXCEPT !.user = Nobody, !.token = Nobody]

\* handleAuthSuccess() and the two pages read is_active !== false ...
OpenToGuard(p) == p.status \in {"missing", "active"} /\ p.active # "no"
\* ... while AccountStatusPage reads it as a truth value.
OpenToStatusPage(p) == p.status = "active" /\ p.active = "yes"

\* A cached user in localStorage stands in for the store's while initializing.
CachedUser == user = Nobody /\ initializing /\ storage.user # Nobody
Spinner == initializing /\ ~CachedUser

LandingOnSelectMode(u, adminIntent) ==
  IF OpenToGuard(u.profile) THEN "selectMode" ELSE "account"

\* Where routeByAccountStatus() sends a profile; adminIntent is the page's
\* ?intent=admin.
LandingPage(u, adminIntent) ==
  CASE ~OpenToGuard(u.profile)                          -> "account"
    [] adminIntent /\ OpenToGuard(u.profile)            ->
         IF u.profile.role = "admin" THEN "adminPanel" ELSE "admin"
    [] OTHER                                            -> "app"

\* The page the guard of p sends the browser to, p itself when it renders.
AppTarget ==
  IF Spinner THEN "app"
  ELSE IF user = Nobody /\ ~CachedUser THEN "login"
  ELSE IF user # Nobody /\ ~OpenToGuard(user.profile) THEN "account"
  ELSE IF ~storage.onboarded /\ storage.mode = "live" THEN "selectBroker"
  ELSE "app"

AccountTargetUnguarded ==
  IF user # Nobody /\ user.profile.status = "active" THEN "app" ELSE "account"

AccountTarget ==
  IF Spinner THEN "account"
  ELSE IF user = Nobody THEN "login"
  ELSE IF OpenToStatusPage(user.profile) THEN "app"
  ELSE "account"

IsAdmin == user # Nobody /\ user.profile.role = "admin"

Target(p) ==
  CASE p = "app"     -> AppTarget
    [] p = "account" -> AccountTarget
    [] p = "selectBroker" /\ ~Spinner /\ user = Nobody /\ ~CachedUser -> "login"
    [] p = "adminPanel" /\ ~initializing /\ ~IsAdmin -> "admin"
    [] p = "admin" /\ ~initializing /\ IsAdmin       -> "adminPanel"
    [] OTHER -> p
-----------------------------------------------------------------------------
(* Routes *)

\* The guard of the page shown redirects; ProtectedRoute marks a user without
\* a trading mode as onboarded in demo mode while it renders the application.
Redirect ==
  /\ \/ Target(page) # page
     \/ page = "app" /\ ~Spinner /\ ~storage.onboarded
  /\ page' = Target(page)
  /\ storage' = IF page = "app" /\ page' = "app"
                THEN [storage EXCEPT !.onboarded = TRUE, !.mode = "demo"]
                ELSE storage
  /\ phoneModal' = IF page' = "login" THEN phoneModal ELSE Nobody
  /\ UNCHANGED <<fbUser, notified, mail, user, initializing, tasks, presses>>

\* A link, or the browser's back button: no page is loaded, tasks go on.
Visit(p) ==
  /\ Press
  /\ p # page
  /\ page' = p
  /\ phoneModal' = Nobody
  /\ UNCHANGED <<fbUser, notified, mail, user, initializing, storage, tasks>>

\* A page load: the store starts from localStorage, no task survives, and
\* Firebase restores its own user.
Loaded(p) ==
  /\ page' = p
  /\ user' = storage'.user
  /\ initializing' = TRUE
  /\ notified' = Unseen
  /\ tasks' = {}
  /\ phoneModal' = Nobody

Load(p) ==
  /\ Press
  /\ UNCHANGED <<fbUser, mail, storage>>
  /\ Loaded(p)
-----------------------------------------------------------------------------
(* The auth listener *)

StartSync(t) ==
  /\ tasks' = tasks \cup {t}
  /\ storage' = [storage EXCEPT !.token = t.who]

\* Firebase calls the listener when its user differs from the last one named.
Heard ==
  /\ notified # fbUser /\ notified' = fbUser
  /\ UNCHANGED <<fbUser, mail, page, phoneModal, presses>>

HearNobodyAndSpin ==
  /\ Heard /\ fbUser = Nobody
  /\ storage' = SignedOut(storage)
  /\ user' = Nobody
  /\ UNCHANGED <<initializing, tasks>>

HearNobody ==
  /\ Heard /\ fbUser = Nobody
  /\ storage' = SignedOut(storage)
  /\ user' = Nobody /\ initializing' = FALSE
  /\ UNCHANGED tasks

\* An unverified password account is signed out ...
HearUnverified ==
  /\ Heard /\ fbUser # Nobody /\ ~Verified(fbUser)
  /\ tasks' = tasks \cup {[by |-> "listener", who |-> fbUser,
                           intent |-> "none", at |-> "refuse"]}
  /\ UNCHANGED <<user, initializing, storage>>

HearAnybody ==
  /\ Heard /\ fbUser # Nobody
  /\ StartSync([by |-> "listener", who |-> fbUser, at |-> "sync",
                intent |-> IF storage.intent = "register" THEN "register" ELSE "login"])
  /\ UNCHANGED <<user, initializing>>

\* ... the others are synced with the stored intent.
HearVerified ==
  /\ Heard /\ fbUser # Nobody /\ Verified(fbUser)
  /\ StartSync([by |-> "listener", who |-> fbUser, at |-> "sync",
                intent |-> IF storage.intent = "register" THEN "register" ELSE "login"])
  /\ UNCHANGED <<user, initializing>>

Notice == HearNobody \/ HearUnverified \/ HearVerified

\* signOut() of the refused account has completed.
RefuseUnverified(t) ==
  /\ t.by = "listener" /\ t.at = "refuse"
  /\ tasks' = tasks \ {t}
  /\ fbUser' = Nobody
  /\ storage' = SignedOut(storage)
  /\ user' = Nobody
  /\ initializing' = FALSE
  /\ UNCHANGED <<notified, mail, page, phoneModal, presses>>
-----------------------------------------------------------------------------
(* POST /auth/sync: requests with the same account and payload share one     *)
(* answer (pendingSyncRequests).                                             *)

Waiting(w, i) == {t \in tasks : t.at = "sync" /\ t.who = w /\ t.intent = i}

\* The page after every waiting handler has been told of success: the phone
\* gate of the sign-in page, /dashboard from the verification page.
Welcome(T, u, adminIntent) ==
  LET gated == u.profile.role # "admin" /\ ~u.profile.phone
      signIn == \E t \in T : t.by \in {"email", "google"}
      lands == LandingPage(u, adminIntent)
  IN /\ page' = IF signIn /\ ~gated THEN lands
                ELSE IF \E t \in T : t.by \in {"check", "resend"} THEN "app"
                ELSE page
     /\ phoneModal' = CASE signIn /\ gated /\ page' = "login" -> u
                        [] page' # "login" -> Nobody
                        [] OTHER -> phoneModal
     /\ storage' =
          LET stored == [storage EXCEPT !.user = u,
                !.intent = IF \E t \in T : t.by \in {"listener", "google"}
                           THEN "none" ELSE @]
          IN IF signIn /\ ~gated /\ lands = "app"
             THEN [stored EXCEPT !.onboarded = TRUE, !.mode = "demo"]
             ELSE stored

SyncAnswered(w, i, p) ==
  LET T == Waiting(w, i)
      u == [who |-> w, profile |-> p]
  IN /\ T # {}
     /\ tasks' = tasks \ T
     /\ user' = u
     /\ initializing' = FALSE
     /\ \E adminIntent \in BOOLEAN : Welcome(T, u, adminIntent)
     /\ UNCHANGED <<fbUser, notified, mail, presses>>

\* Who clears the session when the sync fails: the listener always, a sign-in
\* handler on 401 (after one retry with a fresh token), Google also on 404.
ClearsOn(t, code) ==
  \/ t.by = "listener"
  \/ code = 401
  \/ t.by = "google" /\ code = 404

SyncFailed(w, i, code) ==
  LET T == Waiting(w, i)
  IN /\ T # {}
     /\ tasks' = (tasks \ T) \cup
                 {[t EXCEPT !.at = "clear"] : t \in {s \in T : ClearsOn(s, code)}}
     /\ storage' = IF \E t \in T : t.by \in {"listener", "google"}
                   THEN [storage EXCEPT !.intent = "none"] ELSE storage
     /\ UNCHANGED <<fbUser, notified, mail, user, initializing, page,
                    phoneModal, presses>>

\* clearInvalidSession() has signed out and returns.
ClearInvalidSession(t) ==
  /\ t.at = "clear"
  /\ tasks' = tasks \ {t}
  /\ fbUser' = Nobody
  /\ storage' = SignedOut(storage)
  /\ user' = Nobody
  /\ initializing' = IF t.by = "listener" THEN FALSE ELSE initializing
  /\ UNCHANGED <<notified, mail, page, phoneModal, presses>>
-----------------------------------------------------------------------------
(* The sign-in page *)

SignInWith(h, w, onUnverified) ==
  /\ fbUser' = w
  /\ IF Verified(w)
     THEN StartSync([by |-> h, who |-> w, intent |-> "none", at |-> "sync"])
     ELSE /\ tasks' = tasks \cup {[by |-> h, who |-> w, intent |-> "none",
                                   at |-> onUnverified]}
          /\ UNCHANGED storage
  /\ UNCHANGED <<notified, mail, user, initializing, page, phoneModal>>

\* handleLogin(): the button is disabled while its own request runs.
LoginWithEmail(w) ==
  /\ page = "login" /\ Idle("email") /\ Press
  /\ w \in People \ Google /\ mail[w] # "none"
  /\ SignInWith("email", w, "refuse")

\* Not verified: signed out, then resendVerification() signs in once more for
\* another link, unless that fails, and out again.
EmailRefused(t) ==
  /\ t.by = "email" /\ t.at \in {"refuse", "mail"}
  /\ fbUser' = Nobody
  /\ \/ /\ t.at = "refuse"
        /\ tasks' = (tasks \ {t}) \cup {[t EXCEPT !.at = "again"]}
        /\ UNCHANGED page
     \/ /\ tasks' = tasks \ {t}
        /\ page' = "verify"
  /\ phoneModal' = IF page' = "login" THEN phoneModal ELSE Nobody
  /\ UNCHANGED <<notified, mail, user, initializing, storage, presses>>

EmailAgain(t) ==
  /\ t.by = "email" /\ t.at = "again"
  /\ fbUser' = t.who
  /\ tasks' = (tasks \ {t}) \cup {[t EXCEPT !.at = "mail"]}
  /\ UNCHANGED <<notified, mail, user, initializing, storage, page, phoneModal,
                 presses>>

\* handleGoogleLogin() and handleGoogleRegister() share one loading flag.
LoginWithGoogle(i) ==
  /\ page = "login" /\ Idle("google") /\ Press
  /\ storage' = [storage EXCEPT !.intent = i]
  /\ fbUser' = Nobody
  /\ tasks' = tasks \cup {[by |-> "google", who |-> Nobody, intent |-> i,
                           at |-> "popup"]}
  /\ UNCHANGED <<notified, mail, user, initializing, page, phoneModal>>

\* The popup is closed: the call rejects before the try, the intent stays.
PopupClosed(t) ==
  /\ t.at = "popup"
  /\ tasks' = tasks \ {t}
  /\ UNCHANGED <<fbUser, notified, mail, user, initializing, storage, page,
                 phoneModal, presses>>

PopupAnswered(t, w) ==
  /\ t.at = "popup" /\ w \in Google
  /\ fbUser' = w
  /\ tasks' = (tasks \ {t}) \cup {[t EXCEPT !.who = w, !.at = "sync"]}
  /\ storage' = [storage EXCEPT !.token = w]
  /\ UNCHANGED <<notified, mail, user, initializing, page, phoneModal, presses>>

RegisterWithEmail(w) ==
  /\ page = "login" /\ Idle("register") /\ Press
  /\ w \in People \ Google /\ mail[w] = "none"
  /\ mail' = [mail EXCEPT ![w] = "unverified"]
  /\ fbUser' = w
  /\ tasks' = tasks \cup {[by |-> "register", who |-> w, intent |-> "none",
                           at |-> "mail"]}
  /\ UNCHANGED <<notified, user, initializing, storage, page, phoneModal>>

\* The link was sent: signed out until it is followed; or sending it failed and
\* the new account stays signed in with Firebase.
Registered(t) ==
  /\ t.by = "register"
  /\ tasks' = tasks \ {t}
  /\ \/ /\ fbUser' = Nobody
        /\ storage' = SignedOut(storage)
        /\ user' = Nobody
        /\ page' = "verify"
        /\ phoneModal' = Nobody
     \/ UNCHANGED <<fbUser, storage, user, page, phoneModal>>
  /\ UNCHANGED <<notified, mail, initializing, presses>>

\* The phone dialog: the number is posted, then the profile the dialog was
\* opened with is routed.
SubmitPhone ==
  /\ phoneModal # Nobody /\ Idle("phone") /\ Press
  /\ tasks' = tasks \cup {[by |-> "phone", who |-> phoneModal.who,
                           intent |-> "none", at |-> "post"]}
  /\ UNCHANGED <<fbUser, notified, mail, user, initializing, storage, page,
                 phoneModal>>

PhoneSaved(t) ==
  /\ t.by = "phone"
  /\ tasks' = tasks \ {t}
  /\ user' = IF user = Nobody THEN Nobody ELSE
             [user EXCEPT !.profile = [@ EXCEPT !.phone = TRUE]]
  /\ LET stored == IF user = Nobody THEN storage
                   ELSE [storage EXCEPT !.user = user']
     IN \/ /\ phoneModal # Nobody
           /\ \E adminIntent \in BOOLEAN :
                page' = LandingPage(phoneModal, adminIntent)
           /\ storage' = IF page' = "app"
                         THEN [stored EXCEPT !.onboarded = TRUE, !.mode = "demo"]
                         ELSE stored
        \/ phoneModal = Nobody /\ storage' = stored /\ UNCHANGED page
  /\ phoneModal' = Nobody
  /\ UNCHANGED <<fbUser, notified, mail, initializing, presses>>

PhoneRefused(t) ==
  /\ t.by = "phone"
  /\ tasks' = tasks \ {t}
  /\ UNCHANGED <<fbUser, notified, mail, user, initializing, storage, page,
                 phoneModal, presses>>
-----------------------------------------------------------------------------
(* The verification page *)

\* The link in the mail is followed elsewhere; the next sign-in sees it.
VerifyMail(w) ==
  /\ w \in People \ Google /\ mail[w] = "unverified" /\ fbUser # w
  /\ mail' = [mail EXCEPT ![w] = "verified"]
  /\ UNCHANGED <<fbUser, notified, user, initializing, storage, tasks, page,
                 phoneModal, presses>>

CheckVerification(w) ==
  /\ page = "verify" /\ Idle("check") /\ Press
  /\ w \in People \ Google /\ mail[w] # "none"
  /\ SignInWith("check", w, "refuse")

CheckRefused(t) ==
  /\ t.by = "check" /\ t.at = "refuse"
  /\ tasks' = tasks \ {t}
  /\ fbUser' = Nobody
  /\ UNCHANGED <<notified, mail, user, initializing, storage, page,
                 phoneModal, presses>>

ResendVerification(w) ==
  /\ page = "verify" /\ Idle("resend") /\ Press
  /\ w \in People \ Google /\ mail[w] # "none"
  /\ fbUser' = w
  /\ tasks' = tasks \cup {[by |-> "resend", who |-> w, intent |-> "none",
                           at |-> "mail"]}
  /\ UNCHANGED <<notified, mail, user, initializing, storage, page, phoneModal>>

\* Signed out: done, or (already verified) on to a proper sign-in.
Resent(t) ==
  /\ t.by = "resend" /\ t.at = "mail"
  /\ fbUser' = Nobody
  /\ tasks' = IF Verified(t.who)
              THEN (tasks \ {t}) \cup {[t EXCEPT !.at = "again"]}
              ELSE tasks \ {t}
  /\ UNCHANGED <<notified, mail, user, initializing, storage, page, phoneModal,
                 presses>>

ResendSignsIn(t) ==
  /\ t.by = "resend" /\ t.at = "again"
  /\ fbUser' = t.who
  /\ tasks' = (tasks \ {t}) \cup {[t EXCEPT !.at = "sync"]}
  /\ storage' = [storage EXCEPT !.token = t.who]
  /\ UNCHANGED <<notified, mail, user, initializing, page, phoneModal, presses>>
-----------------------------------------------------------------------------
(* Onboarding *)

\* BrokerSelectPage after a broker login sets live mode; BrokerCallbackPage after
\* the redirect back only marks the user as onboarded.
ConnectBroker ==
  /\ page = "selectBroker" /\ ~Spinner
  /\ \E mode \in {"live", storage.mode} :
       storage' = [storage EXCEPT !.onboarded = TRUE, !.mode = mode]
  /\ page' = "app"
  /\ UNCHANGED <<fbUser, notified, mail, user, initializing, tasks, phoneModal,
                 presses>>

\* Settings, "Clear Local Storage": all alphasync_ keys but token and user.
ClearCache ==
  /\ page = "app" /\ ~Spinner
  /\ storage' = [storage EXCEPT !.onboarded = FALSE, !.mode = "none",
                                !.intent = "none"]
  /\ UNCHANGED <<fbUser, notified, mail, user, initializing, tasks, page,
                 phoneModal, presses>>
-----------------------------------------------------------------------------
(* Signing out *)

Logout ==
  /\ page \in {"app", "account", "admin", "adminPanel"} /\ user # Nobody
  /\ Idle("logout") /\ Press
  /\ tasks' = tasks \cup {[by |-> "logout", who |-> user.who,
                           intent |-> "none", at |-> "post"]}
  /\ UNCHANGED <<fbUser, notified, mail, user, initializing, storage, page,
                 phoneModal>>

LoggedOut(t) ==
  /\ t.by = "logout"
  /\ tasks' = tasks \ {t}
  /\ fbUser' = Nobody
  /\ storage' = [SignedOut(storage) EXCEPT !.onboarded = FALSE]
  /\ user' = Nobody
  /\ page' = "login"
  /\ UNCHANGED <<notified, mail, initializing, phoneModal, presses>>

\* A request was answered 401 and no fresh token could be had: signed out, and
\* /login is loaded unless it is the page shown.
ForceLogout ==
  /\ (page = "app" /\ ~Spinner) \/ ~Idle("phone")
  /\ Press
  /\ fbUser' = Nobody
  /\ storage' = SignedOut(storage)
  /\ \/ page # "login" /\ Loaded("login")
     \/ /\ page = "login"
        /\ tasks' = {t \in tasks : t.by # "phone"}
        /\ UNCHANGED <<notified, user, initializing, page, phoneModal>>
  /\ UNCHANGED mail
-----------------------------------------------------------------------------
Answer == \E w \in People, i \in Intents :
  \/ \E p \in Profiles : SyncAnswered(w, i, p)
  \/ \E code \in {401, 404, 500} : SyncFailed(w, i, code)

Resume == \E t \in tasks :
  \/ RefuseUnverified(t)
  \/ ClearInvalidSession(t)
  \/ EmailRefused(t)
  \/ EmailAgain(t)
  \/ PopupClosed(t)
  \/ \E w \in People : PopupAnswered(t, w)
  \/ Registered(t)
  \/ PhoneSaved(t)
  \/ PhoneRefused(t)
  \/ CheckRefused(t)
  \/ Resent(t)
  \/ ResendSignsIn(t)
  \/ LoggedOut(t)

Button ==
  \/ \E w \in People \ Google : \/ LoginWithEmail(w)
                                \/ RegisterWithEmail(w)
                                \/ CheckVerification(w)
                                \/ ResendVerification(w)
  \/ \E i \in {"login", "register"} : LoginWithGoogle(i)
  \/ SubmitPhone
  \/ ConnectBroker
  \/ ClearCache
  \/ Logout

\* The listener is called as soon as Firebase's user changes, before the
\* network or the user can do anything; sign-ins wait for the first call.
SessionNext ==
  \/ Notice
  \/ Redirect
  \/ \E p \in Pages : Visit(p) \/ Load(p)
  \/ notified = fbUser /\ Answer
  \/ notified = fbUser /\ Resume
  \/ notified = fbUser /\ Button
  \/ notified = fbUser /\ ForceLogout
  \/ \E w \in People : VerifyMail(w)

SessionSpec ==
  /\ SessionInit /\ [][SessionNext]_sessionVars
  /\ WF_sessionVars(Notice)
  /\ WF_sessionVars(notified = fbUser /\ Answer)
  /\ WF_sessionVars(notified = fbUser /\ Resume)
-----------------------------------------------------------------------------
(* Properties *)

\* The guards of App.jsx never send the browser round in a circle: from any
\* page, with any profile the backend may have answered, three redirects reach
\* a page that renders.
RedirectsSettle ==
  \A p \in Pages : LET q == Target(Target(p)) IN Target(q) = q

\* A password account whose mail was not verified is never the application's
\* user, whichever of the five handlers that sign it in to Firebase the
\* listener overtakes.
UnverifiedStaysOut == user # Nobody => Verified(user.who)

\* The spinner of the route guards ends.
InitializationEnds == []<>~initializing

\* useAuthStore.js:87-96: the profile stored is the one of the account that
\* Firebase has signed in.
ProfileIsFirebaseUsers ==
  user # Nobody /\ tasks = {} /\ notified = fbUser => user.who = fbUser
=============================================================================
