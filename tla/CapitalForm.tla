------------------------------- MODULE CapitalForm -------------------------------
(***************************************************************************)
(* The capital of the account in the settings (pages/SettingsPage.jsx): it is    *)
(* read when the panel opens and whenever the mark of the request under way      *)
(* changes, so also when a request ends; and the reset of the whole account,     *)
(* which reloads the page a second after it succeeded.                        *)
(***************************************************************************)
EXTENDS Integers, FiniteSets

CONSTANTS Default,        \* the capital of a reset
          NoCapital,
          MaxDeposits,    \* bound: requests of the user
          MaxReadings,    \* bound: reads under way when a request begins
          MaxUnread,      \* bound: requests and reads that fail
          MaxVisits       \* bound: openings to the panel after the first
ASSUME CapitalAssumption == Default \in Nat

VARIABLES capital,        \* the server's
          shownCapital,   \* portfolio: what the panel shows
          loadingMark,    \* loading: the button that says it is busy
          resetting,      \* loading of the account's reset
          reloadDue,      \* the timer of the reload
          deposits,       \* requests under way
          capReads,       \* reads under way
          deposited, readCount, openings, refused2,
          unseen,         \* requests overlapped, or the answer of a reset of the account was lost
          behind          \* what is shown was not the last to be asked for

capitalVars ==
  <<capital, shownCapital, loadingMark, resetting, reloadDue, deposits, capReads, deposited,
    readCount, openings, refused2, unseen, behind>>

Marks2 == {"add", "set", "reset", ""}
Amount == 1

\* A read: its number, and the capital it was served.
Reading2(n) == [n |-> n, value |-> NoCapital]

\* The effect of the mark: a change of it reads the capital.
Marked(mark) ==
  /\ loadingMark' = mark
  /\ IF mark # loadingMark
     THEN readCount' = readCount + 1 /\ capReads' = capReads \cup {Reading2(readCount + 1)}
     ELSE UNCHANGED <<readCount, capReads>>

CapitalInit ==
  /\ capital = Default /\ shownCapital = NoCapital /\ loadingMark = ""
  /\ resetting = FALSE /\ reloadDue = FALSE
  /\ deposits = {} /\ readCount = 1 /\ capReads = {Reading2(1)}
  /\ deposited = 0 /\ openings = 0 /\ refused2 = 0 /\ unseen = FALSE /\ behind = FALSE

\* A request: whether the panel that sent it is still there, and whether it is carried out.
Deposit(kind, amount) ==
  /\ deposited < MaxDeposits /\ Cardinality(capReads) <= MaxReadings /\ deposited' = deposited + 1
  /\ deposits' = deposits \cup {[id |-> deposited, kind |-> kind, amount |-> amount, here |-> TRUE,
                                 carried |-> FALSE]}
  /\ unseen' = (deposits # {} \/ (kind = "account" /\ unseen))
-----------------------------------------------------------------------------
(* The panel *)

\* The button of one kind stays free while a request of another is under way.
\* The field holds an amount: an empty one is refused.
HandleCapital(kind) ==
  /\ loadingMark # kind
  /\ Deposit(kind, Amount) /\ Marked(kind)
  /\ UNCHANGED <<capital, shownCapital, resetting, reloadDue, openings, refused2, behind>>
HandleAddCapital == HandleCapital("add")
HandleSetCapital == HandleCapital("set")
HandleResetCapital == HandleCapital("reset")

HandleResetAccount ==
  /\ ~resetting /\ resetting' = TRUE /\ Deposit("account", 0)
  /\ UNCHANGED <<capital, shownCapital, loadingMark, reloadDue, capReads, readCount, openings,
                 refused2, behind>>

\* A new panel: it reads the capital, and hears nothing of the requests of the former.
Opened ==
  /\ shownCapital' = NoCapital /\ loadingMark' = "" /\ resetting' = FALSE
  /\ readCount' = readCount + 1 /\ capReads' = {Reading2(readCount + 1)} /\ behind' = FALSE
  /\ unseen' = (deposits # {})
  /\ UNCHANGED <<capital, deposited, refused2>>

\* The user leaves the panel and comes back.  The timer of the reload goes on.
Reopen ==
  /\ openings < MaxVisits /\ openings' = openings + 1 /\ Opened
  /\ deposits' = {[q EXCEPT !.here = FALSE] : q \in deposits} /\ UNCHANGED reloadDue

\* Nobody hears of the requests of before the reload, and that of an account's reset
\* does to the capital what a reset does.
Reload ==
  /\ reloadDue /\ reloadDue' = FALSE /\ Opened
  /\ deposits' = {[q EXCEPT !.here = FALSE, !.kind = IF @ = "account" THEN "reset" ELSE @]
                    : q \in deposits}
  /\ UNCHANGED openings
-----------------------------------------------------------------------------
(* The server *)

CapitalServed ==
  \/ \E q \in deposits :
       /\ ~q.carried /\ deposits' = (deposits \ {q}) \cup {[q EXCEPT !.carried = TRUE]}
       /\ capital' = CASE q.kind = "add" -> capital + q.amount [] q.kind = "set" -> q.amount
                       [] OTHER -> Default
       /\ UNCHANGED capReads
  \/ \E r \in capReads :
       /\ r.value = NoCapital /\ capReads' = (capReads \ {r}) \cup {[r EXCEPT !.value = capital]}
       /\ UNCHANGED <<capital, deposits>>
-----------------------------------------------------------------------------
(* The answers *)

\* The answer of a request, or an error whether or not it was carried out.  The mark goes
\* either way, also that of a later request.
DepositAnswered ==
  \E q \in deposits :
    /\ deposits' = deposits \ {q}
    /\ \/ /\ q.carried /\ UNCHANGED refused2
          /\ reloadDue' = (reloadDue \/ q.kind = "account") /\ UNCHANGED unseen
       \/ refused2 < MaxUnread /\ refused2' = refused2 + 1 /\ UNCHANGED reloadDue
          /\ unseen' = (unseen \/ q.kind = "account")
    /\ IF q.here /\ q.kind # "account" THEN Marked("")
       ELSE UNCHANGED <<loadingMark, capReads, readCount>>
    /\ resetting' = (resetting /\ ~(q.here /\ q.kind = "account"))
    /\ UNCHANGED <<capital, shownCapital, deposited, openings, behind>>

ReadingAnswered ==
  \E r \in capReads :
    /\ capReads' = capReads \ {r}
    /\ \/ /\ r.value # NoCapital /\ shownCapital' = r.value
          /\ behind' = (r.n # readCount) /\ UNCHANGED refused2
       \/ refused2 < MaxUnread /\ refused2' = refused2 + 1 /\ UNCHANGED shownCapital
          /\ behind' = (behind \/ r.n = readCount)
    /\ UNCHANGED <<capital, loadingMark, resetting, reloadDue, deposits, deposited, readCount,
                   openings, unseen>>

CapitalAnswered ==
  \/ CapitalServed
     /\ UNCHANGED <<shownCapital, loadingMark, resetting, reloadDue, deposited,
                    readCount, openings, refused2, unseen, behind>>
  \/ DepositAnswered
  \/ ReadingAnswered

CapitalNext ==
  \/ HandleAddCapital \/ HandleSetCapital \/ HandleResetCapital \/ HandleResetAccount
  \/ Reopen \/ Reload \/ CapitalAnswered

CapitalSpec ==
  /\ CapitalInit /\ [][CapitalNext]_capitalVars /\ WF_capitalVars(CapitalAnswered)
  /\ WF_capitalVars(Reload)
-----------------------------------------------------------------------------
CapitalTypeOK ==
  /\ capital \in Nat /\ shownCapital \in Nat \cup {NoCapital} /\ loadingMark \in Marks2
  /\ {resetting, reloadDue, unseen, behind} \subseteq BOOLEAN
  /\ \A r \in capReads : r.n \in 1 .. readCount
  /\ \A q \in deposits : q.id \in 0 .. deposited

\* When every answer has come, the capital shown is the account's, unless requests overlapped, the
\* answer of the account's reset was lost, or the last reads came in another order or not at all
\* (SettingsPage.jsx:407-447, 555-565).
CapitalShown ==
  deposits = {} /\ capReads = {} /\ ~reloadDue /\ ~unseen /\ ~behind => shownCapital = capital
=============================================================================
