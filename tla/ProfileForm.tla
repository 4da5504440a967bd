------------------------------- MODULE ProfileForm -------------------------------
(***************************************************************************)
(* The profile tab of the settings (pages/SettingsPage.jsx): a form of the     *)
(* user's details and a photo.  The store's profile is replaced by the answer   *)
(* of a save and patched by those of the photo; the form follows every change   *)
(* of the store, and the picture shown every change of its photo.              *)
(***************************************************************************)
EXTENDS Integers

CONSTANTS Photos, NoPhoto,
          Details2,       \* what the user may enter as name and phone
          MaxSent,        \* bound: requests of the user
          MaxSpoiled      \* bound: requests that fail
ASSUME DetailsAssumption == Details2 # {}

VARIABLES account,        \* the server's profile
          known,          \* the store's: useAuthStore's user
          typed,          \* profile: the details in the form
          saving,         \* loading
          preview, uploading,
          sent, asks,     \* requests under way, and how many there have been
          served,         \* requests the server has carried out
          newest,         \* the latest of them whose answer has come, or was lost
          crossed,        \* an answer landed after that of a later request, or never
          restored2,      \* the picture went back to one from before another answer
          spoiled

profileVars ==
  <<account, known, typed, saving, preview, uploading, sent, asks, served, newest, crossed,
    restored2, spoiled>>

Accounts2 == [details : Details2, photo : Photos \cup {NoPhoto}]

\* A request: what it carries, the photo of the store when it was sent, whether the
\* panel that sent it is still there, and what it was served, as the n-th of all.
SentProfile(kind, carries) ==
  [id |-> asks, kind |-> kind, carries |-> carries, before |-> known.photo, here |-> TRUE,
   n |-> 0, answer |-> account]

ProfileInit ==
  /\ account \in [details : {CHOOSE d \in Details2 : TRUE}, photo : {NoPhoto}]
  /\ known = account /\ typed = account.details /\ saving = FALSE
  /\ preview = known.photo /\ uploading = FALSE /\ sent = {} /\ asks = 0 /\ served = 0 /\ newest = 0
  /\ crossed = FALSE /\ restored2 = FALSE /\ spoiled = 0

SendProfile(kind, carries) ==
  asks < MaxSent /\ asks' = asks + 1 /\ sent' = sent \cup {SentProfile(kind, carries)}
-----------------------------------------------------------------------------
(* The page *)

TypeDetails ==
  /\ typed' \in Details2 \ {typed}
  /\ UNCHANGED <<account, known, saving, preview, uploading, sent, asks, served, newest, crossed,
                 restored2, spoiled>>

SaveProfile ==
  /\ ~saving /\ saving' = TRUE /\ SendProfile("save", typed)
  /\ UNCHANGED <<account, known, typed, preview, uploading, served, newest, crossed, restored2, spoiled>>

\* Every upload gets an address of its own, so it is of a photo that is nowhere else.
\* The area for dropped files takes one while another is on its way, unlike the buttons.
ProcessFile ==
  /\ \E file \in Photos \ ({account.photo, known.photo}
                            \cup UNION {{q.carries, q.before} : q \in sent}) :
       preview' = file /\ SendProfile("upload", file)
  /\ uploading' = TRUE /\ restored2' = FALSE
  /\ UNCHANGED <<account, known, typed, saving, served, newest, crossed, spoiled>>

HandleRemove ==
  /\ preview # NoPhoto /\ ~uploading /\ uploading' = TRUE /\ SendProfile("remove", NoPhoto)
  /\ UNCHANGED <<account, known, typed, saving, preview, served, newest, crossed, restored2, spoiled>>

\* Another tab and back: a new panel for the photo, the same form.
SwitchTab ==
  /\ preview' = known.photo /\ uploading' = FALSE /\ restored2' = FALSE
  /\ sent' = {[q EXCEPT !.here = q.kind = "save"] : q \in sent}
  /\ UNCHANGED <<account, known, typed, saving, asks, served, newest, crossed, spoiled>>
-----------------------------------------------------------------------------
(* The server; a removal needs a photo.  *)

ProfileServed ==
  \E q \in sent :
    /\ q.n = 0 /\ (q.kind = "remove" => account.photo # NoPhoto)
    /\ account' = IF q.kind = "save" THEN [account EXCEPT !.details = q.carries]
                                     ELSE [account EXCEPT !.photo = q.carries]
    /\ served' = served + 1
    /\ sent' = (sent \ {q}) \cup {[q EXCEPT !.n = served + 1, !.answer = account']}
    /\ UNCHANGED <<known, typed, saving, preview, uploading, asks, newest, crossed, restored2, spoiled>>
-----------------------------------------------------------------------------
(* The answers *)

\* The store changes: the form follows, and the picture if the photo is another.
UpdateUser(patched) ==
  /\ known' = patched /\ typed' = patched.details

Settles(q) == newest' = IF q.n > newest THEN q.n ELSE newest

\* The answer of a save brings the whole profile, so it also mends what crossed before.
Lands(q) ==
  /\ Settles(q)
  /\ crossed' = (q.n < newest \/ (crossed /\ q.kind # "save"))

SaveAnswered(q) ==
  /\ UpdateUser(q.answer) /\ Lands(q) /\ saving' = FALSE
  /\ IF q.answer.photo # known.photo
     THEN preview' = q.answer.photo /\ restored2' = FALSE ELSE UNCHANGED <<preview, restored2>>
  /\ UNCHANGED uploading

PhotoAnswered(q) ==
  /\ UpdateUser([known EXCEPT !.photo = q.carries]) /\ Lands(q)
  /\ IF q.here \/ q.carries # known.photo
     THEN preview' = q.carries /\ restored2' = FALSE ELSE UNCHANGED <<preview, restored2>>
  /\ uploading' = (uploading /\ ~q.here) /\ UNCHANGED saving

ProfileAnswered ==
  \E q \in sent :
    /\ q.n > 0 /\ sent' = sent \ {q}
    /\ IF q.kind = "save" THEN SaveAnswered(q) ELSE PhotoAnswered(q)
    /\ UNCHANGED <<account, asks, served, spoiled>>

\* The picture goes back to the photo of the store when the file was chosen.
PutBack(q) ==
  IF q.kind = "upload" /\ q.here
  THEN preview' = q.before /\ restored2' = (q.before # known.photo)
  ELSE UNCHANGED <<preview, restored2>>

\* A request that was refused, that had nothing to remove or whose answer was lost.
ProfileRefused ==
  \E q \in sent :
    /\ spoiled < MaxSpoiled \/ (q.kind = "remove" /\ q.n = 0 /\ account.photo = NoPhoto)
    /\ sent' = sent \ {q} /\ spoiled' = IF spoiled < MaxSpoiled THEN spoiled + 1 ELSE spoiled
    /\ Settles(q) /\ crossed' = (crossed \/ q.n > 0)
    /\ IF q.kind = "save" THEN saving' = FALSE /\ UNCHANGED <<preview, uploading, restored2>>
       ELSE /\ UNCHANGED saving /\ PutBack(q) /\ uploading' = (uploading /\ ~q.here)
    /\ UNCHANGED <<account, known, typed, asks, served>>

ProfileMoves == ProfileServed \/ ProfileAnswered \/ ProfileRefused

ProfileNext == TypeDetails \/ SaveProfile \/ ProcessFile \/ HandleRemove \/ SwitchTab \/ ProfileMoves

ProfileSpec == ProfileInit /\ [][ProfileNext]_profileVars /\ WF_profileVars(ProfileMoves)
-----------------------------------------------------------------------------
ProfileTypeOK ==
  /\ {account, known} \subseteq Accounts2 /\ typed \in Details2
  /\ preview \in Photos \cup {NoPhoto} /\ {saving, uploading, crossed, restored2} \subseteq BOOLEAN
  /\ \A q \in sent : q.kind \in {"save", "upload", "remove"} /\ q.n \in 0 .. served
  /\ newest \in 0 .. served

\* When every request has been answered, and in the order in which they were carried out, the
\* application shows the user's own details and photo, and the panel that same photo
\* (SettingsPage.jsx:204-274, 676-693).
OwnProfileShown ==
  sent = {} /\ ~crossed => known = account /\ (restored2 \/ preview = known.photo)
=============================================================================
