---------------------------- MODULE AdminConsole ----------------------------
(***************************************************************************)
(* The administration page (pages/AdminPanelPage.jsx) over its client        *)
(* (services/adminApi.js): the bootstrap that resumes an admin session, the   *)
(* two-factor stages, the dashboard with its filtered user table, the dialog  *)
(* of one user and the dialog of the admins.                                  *)
(*                                                                           *)
(* A request that waits for its answer is a job; every job may answer at any  *)
(* time, so two jobs of one kind answer in any order.                         *)
(***************************************************************************)
EXTENDS Naturals, FiniteSets

CONSTANTS
  Accounts,   \* rows of the user table
  NoAccount,  \* no dialog, no detail
  MaxClicks   \* bound: clicks, expiries and new profiles in a behaviour

ASSUME ConsoleAssumption == NoAccount \notin Accounts /\ MaxClicks \in Nat

VARIABLES
  adminToken,     \* sessionStorage holds an admin session token
  liveSession,    \* the backend still honours it
  hasTwoFactor,   \* the admin has enabled two-factor login
  bootstrapping,  \* the whole page is a spinner
  authStage,      \* "setup", "verify" or "dashboard"
  adminLevel,     \* the level the page believes in
  trueLevel,      \* the level the backend will name
  filter,         \* the page of the table asked for
  rows,           \* the page of the table shown
  auditOpen,      \* the audit section is unfolded
  modalUser,      \* the user whose dialog is open
  detail,         \* the user whose detail was loaded
  adminsOpen,     \* the dialog of the admins is open
  jobs,           \* requests under way
  clicks          \* clicks so far

consoleVars == <<adminToken, liveSession, hasTwoFactor, bootstrapping, authStage,
                 adminLevel, trueLevel, filter, rows, auditOpen, modalUser,
                 detail, adminsOpen, jobs, clicks>>
-----------------------------------------------------------------------------
Levels == {"root", "manage", "view_only"}
Filters == {1, 2}
Kinds == {"validate", "refresh", "status", "reload", "verified", "setup",
          "enable", "verify", "detail", "act", "admins"}
Job == [kind : Kinds, about : Accounts \cup Filters \cup {NoAccount},
        token : BOOLEAN]

ConsoleTypeOK ==
  /\ adminToken \in BOOLEAN /\ liveSession \in BOOLEAN
  /\ hasTwoFactor \in BOOLEAN /\ bootstrapping \in BOOLEAN
  /\ authStage \in {"setup", "verify", "dashboard"}
  /\ adminLevel \in Levels /\ trueLevel \in Levels
  /\ filter \in Filters /\ rows \in Filters \cup {0}
  /\ auditOpen \in BOOLEAN
  /\ modalUser \in Accounts \cup {NoAccount}
  /\ detail \in Accounts \cup {NoAccount}
  /\ adminsOpen \in BOOLEAN
  /\ jobs \subseteq Job
  /\ clicks \in 0 .. MaxClicks

\* withAdminSession(): the token goes with every call but the two-factor ones.
Request(kind, about) == [kind |-> kind, about |-> about, token |-> adminToken]

\* bootstrapAdmin(): validate the stored session, or ask how to log in.
Bootstrap ==
  IF adminToken THEN Request("validate", NoAccount) ELSE Request("status", NoAccount)

ConsoleInit ==
  /\ adminToken \in BOOLEAN
  /\ liveSession = adminToken
  /\ hasTwoFactor \in BOOLEAN
  /\ adminToken => hasTwoFactor
  /\ bootstrapping = TRUE
  /\ authStage = "verify"
  /\ adminLevel = "manage"
  /\ trueLevel \in Levels
  /\ filter = 1 /\ rows = 0
  /\ auditOpen = FALSE
  /\ modalUser = NoAccount /\ detail = NoAccount
  /\ adminsOpen = FALSE
  /\ jobs = {Bootstrap}
  /\ clicks = 0
-----------------------------------------------------------------------------
(* Helpers *)

Click == clicks < MaxClicks /\ clicks' = clicks + 1
Running(kind) == \E j \in jobs : j.kind = kind
Authorised(j) == j.token /\ liveSession

Finish(j, more) == jobs' = (jobs \ {j}) \cup more

\* The effect on modalUser and authStage: load the detail of the open dialog
\* on the dashboard, forget it elsewhere.
DetailJob(stage, who) ==
  IF stage = "dashboard" /\ who # NoAccount THEN {Request("detail", who)} ELSE {}

DetailShown(stage, who) ==
  IF stage = "dashboard" /\ who # NoAccount THEN detail ELSE NoAccount

\* resetToVerifyStage(): the token, the dialogs and the stage.
ResetToVerifyStage ==
  /\ adminToken' = FALSE
  /\ authStage' = "verify"
  /\ modalUser' = NoAccount
  /\ detail' = NoAccount
  /\ adminsOpen' = FALSE

KeepsDialogs == UNCHANGED <<adminToken, authStage, modalUser, detail, adminsOpen>>
KeepsServer == UNCHANGED <<liveSession, hasTwoFactor, trueLevel>>
-----------------------------------------------------------------------------
(* Bootstrap *)

SessionValidated(j) ==
  /\ j.kind = "validate"
  /\ IF Authorised(j)
     THEN /\ adminLevel' = trueLevel
          /\ authStage' = "dashboard"
          /\ Finish(j, {Request("refresh", filter)} \cup
                       (IF authStage = "dashboard" THEN {}
                        ELSE DetailJob("dashboard", modalUser)))
          /\ UNCHANGED adminToken
     ELSE /\ adminToken' = FALSE
          /\ Finish(j, {[kind |-> "status", about |-> NoAccount, token |-> FALSE]})
          /\ UNCHANGED <<adminLevel, authStage>>
  /\ UNCHANGED <<bootstrapping, filter, rows, auditOpen, modalUser, detail,
                 adminsOpen, clicks>>
  /\ KeepsServer

\* The answer, or a failure, that ends in the verify stage.
StatusKnown(j) ==
  /\ j.kind = "status"
  /\ authStage' \in {"verify", IF hasTwoFactor THEN "verify" ELSE "setup"}
  /\ bootstrapping' = FALSE
  /\ detail' = DetailShown(authStage', modalUser)
  /\ Finish(j, {})
  /\ UNCHANGED <<adminToken, adminLevel, filter, rows, auditOpen, modalUser,
                 adminsOpen, clicks>>
  /\ KeepsServer

RefreshedAndSpins(j) ==
  /\ j.kind \in {"refresh", "reload", "verified"}
  /\ Finish(j, {})
  /\ \/ /\ Authorised(j)
        /\ adminLevel' = trueLevel /\ rows' = j.about /\ KeepsDialogs
     \/ /\ ~Authorised(j)
        /\ ResetToVerifyStage /\ UNCHANGED <<adminLevel, rows>>
  /\ UNCHANGED <<bootstrapping, filter, auditOpen, clicks>>
  /\ KeepsServer

\* refreshDashboard() has settled: rows and level are set; a 401 or 403 goes
\* back to the verify stage, another failure leaves the page as it is. Inside
\* the bootstrap the spinner ends with it.
Refreshed(j) ==
  /\ j.kind \in {"refresh", "reload", "verified"}
  /\ Finish(j, {})
  /\ \/ /\ Authorised(j)
        /\ adminLevel' = trueLevel /\ rows' = j.about /\ KeepsDialogs
     \/ /\ ~Authorised(j)
        /\ ResetToVerifyStage /\ UNCHANGED <<adminLevel, rows>>
     \/ UNCHANGED <<adminLevel, rows>> /\ KeepsDialogs
  /\ bootstrapping' = IF j.kind = "refresh" THEN FALSE ELSE bootstrapping
  /\ UNCHANGED <<filter, auditOpen, clicks>>
  /\ KeepsServer

\* The bootstrap depends on the filters, on auditOpen and on the profile object:
\* a change of one runs it again, behind the spinner.
BootstrapAgain ==
  /\ bootstrapping' = TRUE
  /\ jobs' = jobs \cup {Bootstrap}
  /\ UNCHANGED <<adminLevel, rows>> /\ KeepsDialogs /\ KeepsServer

ApplyFilter(f) ==
  /\ Click /\ ~bootstrapping /\ authStage = "dashboard" /\ f # filter
  /\ filter' = f
  /\ BootstrapAgain
  /\ UNCHANGED auditOpen

ToggleAudit ==
  /\ Click /\ ~bootstrapping /\ authStage = "dashboard"
  /\ auditOpen' = ~auditOpen
  /\ BootstrapAgain
  /\ UNCHANGED filter

NewProfile ==
  /\ Click
  /\ BootstrapAgain
  /\ UNCHANGED <<filter, auditOpen>>
-----------------------------------------------------------------------------
(* Two-factor stages *)

Send(kind, about) ==
  /\ jobs' = jobs \cup {Request(kind, about)}
  /\ UNCHANGED <<bootstrapping, adminLevel, filter, rows, auditOpen>>
  /\ KeepsServer

\* The two buttons of the setup stage share setupLoading.
PressSetup ==
  /\ Click /\ ~bootstrapping /\ authStage = "setup"
  /\ ~Running("setup") /\ ~Running("enable")
  /\ \E kind \in {"setup", "enable"} : Send(kind, NoAccount)
  /\ KeepsDialogs

PressVerify ==
  /\ Click /\ ~bootstrapping /\ authStage = "verify"
  /\ ~Running("verify") /\ ~Running("verified")
  /\ Send("verify", NoAccount)
  /\ KeepsDialogs

SetupAnswered(j) ==
  /\ j.kind \in {"setup", "enable"}
  /\ Finish(j, {})
  /\ \/ /\ j.kind = "enable"
        /\ hasTwoFactor' = TRUE /\ authStage' = "verify"
     \/ UNCHANGED <<hasTwoFactor, authStage>>
  /\ UNCHANGED <<adminToken, liveSession, trueLevel, bootstrapping, adminLevel,
                 filter, rows, auditOpen, modalUser, detail, adminsOpen, clicks>>

\* A right code opens a session and shows the dashboard before it is loaded.
VerifyAnswered(j) ==
  /\ j.kind = "verify"
  /\ \/ /\ hasTwoFactor
        /\ adminToken' = TRUE /\ liveSession' = TRUE
        /\ authStage' = "dashboard"
        /\ Finish(j, {[kind |-> "verified", about |-> filter, token |-> TRUE]}
                     \cup (IF authStage = "dashboard" THEN {} ELSE
                           {[d EXCEPT !.token = TRUE] :
                              d \in DetailJob("dashboard", modalUser)}))
     \/ Finish(j, {}) /\ UNCHANGED <<adminToken, liveSession, authStage>>
  /\ UNCHANGED <<hasTwoFactor, trueLevel, bootstrapping, adminLevel, filter, rows,
                 auditOpen, modalUser, detail, adminsOpen, clicks>>
-----------------------------------------------------------------------------
(* The dashboard *)

PressRefresh ==
  /\ Click /\ ~bootstrapping
  /\ Send("reload", filter)
  /\ KeepsDialogs

OpenManageModal(a) ==
  /\ Click /\ ~bootstrapping /\ authStage = "dashboard"
  /\ modalUser = NoAccount /\ rows # 0
  /\ modalUser' = a
  /\ jobs' = jobs \cup DetailJob("dashboard", a)
  /\ UNCHANGED <<adminToken, bootstrapping, authStage, adminLevel, filter, rows,
                 auditOpen, detail, adminsOpen>>
  /\ KeepsServer

CloseManageModal ==
  /\ Click /\ ~bootstrapping /\ modalUser # NoAccount
  /\ modalUser' = NoAccount /\ detail' = NoAccount
  /\ UNCHANGED <<adminToken, bootstrapping, authStage, adminLevel, filter, rows,
                 auditOpen, adminsOpen, jobs>>
  /\ KeepsServer

DetailLoaded(j) ==
  /\ j.kind = "detail"
  /\ Finish(j, {})
  /\ \/ /\ Authorised(j)
        /\ detail' = j.about
        /\ UNCHANGED <<adminToken, authStage, modalUser, adminsOpen>>
     \/ ~Authorised(j) /\ ResetToVerifyStage
     \/ KeepsDialogs
  /\ UNCHANGED <<bootstrapping, adminLevel, filter, rows, auditOpen, clicks>>
  /\ KeepsServer

\* approve, reactivate, set-duration and deactivate; one at a time, for who may
\* manage. The dialog is drawn in every stage.
RunUserAction ==
  /\ Click /\ ~bootstrapping /\ modalUser # NoAccount
  /\ adminLevel \in {"root", "manage"} /\ ~Running("act")
  /\ Send("act", modalUser)
  /\ KeepsDialogs

\* Then the dashboard is refreshed and the detail loaded again.
UserActionDone(j) ==
  /\ j.kind = "act"
  /\ \/ /\ Authorised(j)
        /\ Finish(j, {Request("reload", filter), Request("detail", j.about)})
        /\ KeepsDialogs
     \/ ~Authorised(j) /\ Finish(j, {}) /\ ResetToVerifyStage
     \/ Finish(j, {}) /\ KeepsDialogs
  /\ UNCHANGED <<bootstrapping, adminLevel, filter, rows, auditOpen, clicks>>
  /\ KeepsServer

\* The dialog of the admins, its promotions, level changes and revocations: each
\* loads the list again and reports a failure.
OpenAdmins ==
  /\ Click /\ ~bootstrapping /\ authStage = "dashboard" /\ adminLevel = "root"
  /\ adminsOpen' = TRUE
  /\ Send("admins", NoAccount)
  /\ UNCHANGED <<adminToken, authStage, modalUser, detail>>

AdminsAnswered(j) ==
  /\ j.kind = "admins"
  /\ Finish(j, {})
  /\ UNCHANGED <<bootstrapping, adminLevel, filter, rows, auditOpen, clicks>>
  /\ KeepsDialogs /\ KeepsServer

ManageAdmins ==
  /\ Click /\ ~bootstrapping /\ adminsOpen
  /\ \/ Send("admins", NoAccount) /\ UNCHANGED adminsOpen
     \/ adminsOpen' = FALSE /\ UNCHANGED <<jobs, bootstrapping, adminLevel, filter,
                                 rows, auditOpen>> /\ KeepsServer
  /\ UNCHANGED <<adminToken, authStage, modalUser, detail>>

EndAdminSession ==
  /\ Click /\ ~bootstrapping
  /\ ResetToVerifyStage
  /\ UNCHANGED <<bootstrapping, adminLevel, filter, rows, auditOpen, jobs>>
  /\ KeepsServer

\* The backend forgets the session, or the root changes this admin's level.
SessionExpires ==
  /\ Click
  /\ \/ liveSession /\ liveSession' = FALSE /\ UNCHANGED trueLevel
     \/ trueLevel' \in Levels \ {trueLevel} /\ UNCHANGED liveSession
  /\ UNCHANGED <<hasTwoFactor, bootstrapping, adminLevel, filter, rows, auditOpen,
                 jobs>>
  /\ KeepsDialogs
-----------------------------------------------------------------------------
Answered == \E j \in jobs :
  \/ SessionValidated(j) \/ StatusKnown(j) \/ Refreshed(j)
  \/ SetupAnswered(j) \/ VerifyAnswered(j)
  \/ DetailLoaded(j) \/ UserActionDone(j) \/ AdminsAnswered(j)

Clicked ==
  \/ \E f \in Filters : ApplyFilter(f)
  \/ ToggleAudit \/ PressSetup \/ PressVerify \/ PressRefresh
  \/ \E a \in Accounts : OpenManageModal(a)
  \/ CloseManageModal \/ RunUserAction
  \/ OpenAdmins \/ ManageAdmins \/ EndAdminSession

ConsoleNext == Answered \/ Clicked \/ NewProfile \/ SessionExpires

ConsoleSpec == ConsoleInit /\ [][ConsoleNext]_consoleVars /\ WF_consoleVars(Answered)
-----------------------------------------------------------------------------
(* Properties *)

\* However many times the filters, the audit section or the profile start the
\* bootstrap again, and whichever of them answers last, the spinner ends.
BootstrapEnds == []<>~bootstrapping
=============================================================================
