---------------------------- MODULE AccountScreen ----------------------------
(***************************************************************************)
(* The screens about the account itself.                                    *)
(*                                                                         *)
(*   "profile"  pages/Profile.tsx with EditProfileModal and                  *)
(*              ChangePasswordModal; the app has the change of password as a *)
(*              screen of its own, app/change-password.tsx                  *)
(*   "campus"   binding the university account, services.tsx and Campus.tsx *)
(*   "code"     login.tsx, Login.tsx, Register.tsx, ForgotPassword.tsx: a   *)
(*              code is sent to the address, and again after a minute        *)
(*                                                                         *)
(* A dialog may be closed, and opened again, while it waits for an answer:   *)
(* the new one starts with fresh flags, and the old one is told the answer.  *)
(***************************************************************************)
EXTENDS Screen

CONSTANTS
  Bios,         \* what the form of the profile may hold
  Minute        \* ticks of the wait for another code: 60 in the code

ASSUME AccountScreenAssumption == Minute \in Nat \ {0}

(* The user as the server has it; any text field stands for all. *)
Account == [bio : Bios \cup {None}, avatar : BOOLEAN, password : BOOLEAN]

ASSUME AccountsAreThere == None \notin Account

(* The login of the app, and the login (by password), registration and reset  *)
(* pages of the web.                                                       *)
Pages == {"login", "signin", "register", "forgot"}

AccountTypeOK ==
  /\ screen = "profile" =>
       /\ ui \in [user : Account, dialog : {None, "edit", "password"},
                  form : Bios \cup {None}, saving : BOOLEAN, uploading : BOOLEAN]
       /\ db \in Account
  /\ screen = "campus" =>
       /\ ui \in [status : BOOLEAN \cup {None}, open : BOOLEAN,
                  filled : BOOLEAN, submitting : BOOLEAN]
       /\ db \in BOOLEAN
  /\ screen = "code" =>
       /\ ui \in [page : Pages,
                  mode : {"code", "password", "sso"}, code : Nat,
                  countdown : 0 .. Minute, sending : BOOLEAN, busy : BOOLEAN]
       /\ db \in [code : Nat, sent : Nat, cool : 0 .. Minute]

ProfileMounts ==
  {Mount(c, "profile",
         [user |-> a, dialog |-> IF c = "web" THEN None ELSE "password",
          form |-> None, saving |-> FALSE, uploading |-> FALSE],
         <<>>, a) : c \in Clients, a \in Account}

CampusMounts ==
  {Mount(c, "campus",
         [status |-> None, open |-> FALSE, filled |-> FALSE, submitting |-> FALSE],
         <<Call("status", [here |-> FALSE, form |-> None])>>, b) : c \in Clients, b \in BOOLEAN}

CodeMounts ==
  {Mount(IF p = "login" THEN "app" ELSE "web", "code",
         [page |-> p, mode |-> IF p = "signin" THEN "password" ELSE "code", code |-> 0, countdown |-> 0,
          sending |-> FALSE, busy |-> FALSE],
         <<>>, [code |-> 0, sent |-> 0, cool |-> 0]) :
     p \in Pages}

AccountMounts == ProfileMounts \cup CampusMounts \cup CodeMounts

(* What a dialog sends says what its form held, and whether the dialog that   *)
(* sent it is still there.                                                 *)
FromDialog(kind) == Call(kind, [here |-> TRUE, form |-> ui.form])

Orphaned == [i \in DOMAIN calls |-> [calls[i] EXCEPT !.of.here = FALSE]]

-----------------------------------------------------------------------------
(* The profile: a dialog starts from the user as he is shown.                *)
OpenDialog(d) ==
  /\ client = "web" /\ ui.dialog = None
  /\ ui' = [ui EXCEPT !.dialog = d, !.saving = FALSE, !.uploading = FALSE,
                      !.form = IF d = "edit" THEN ui.user.bio ELSE None]
  /\ Stays /\ UNCHANGED <<calls, db, upset>>

(* Cancel, Esc, a click beside it; in the app, back. *)
CloseDialog ==
  /\ ui.dialog # None
  /\ IF client = "web"
     THEN /\ ui' = [ui EXCEPT !.dialog = None]
          /\ calls' = Orphaned
          /\ Stays /\ UNCHANGED <<db, upset>>
     ELSE Opens(Home(client))

EditForm(b) ==
  /\ ui.dialog = "edit" /\ b # ui.form
  /\ ui' = [ui EXCEPT !.form = b]
  /\ upset' = (upset \/ ui.saving)
  /\ Stays /\ UNCHANGED <<calls, db>>

(* Saving, a picture and a password may be under way together. *)
AskAccount(k) ==
  /\ Send(k)
  /\ upset' = (upset \/ calls # <<>>)
  /\ Stays /\ UNCHANGED db

SaveProfile ==
  /\ ui.dialog = "edit" /\ ~ui.saving
  /\ ui' = [ui EXCEPT !.saving = TRUE]
  /\ AskAccount(FromDialog("save"))

(* onPickAvatar: another picture may be picked while one is uploaded. *)
PickAvatar ==
  /\ ui.dialog = "edit"
  /\ ui' = [ui EXCEPT !.uploading = TRUE]
  /\ AskAccount(FromDialog("put"))

ChangePassword ==
  /\ ui.dialog = "password" /\ ~ui.saving
  /\ ui' = [ui EXCEPT !.saving = TRUE]
  /\ AskAccount(FromDialog("password"))

(* UpdateMe leaves a field alone that comes empty. *)
AfterAccount(k) ==
  CASE k.kind = "save" -> [db EXCEPT !.bio = IF k.of.form = None THEN @ ELSE k.of.form]
    [] k.kind = "avatar" -> [db EXCEPT !.avatar = TRUE]
    [] k.kind = "password" -> [db EXCEPT !.password = TRUE]
    [] OTHER -> db

ServeAccount(i) ==
  /\ calls[i].ans = None
  /\ db' = AfterAccount(calls[i])
  /\ Served(i, AfterAccount(calls[i]))
  /\ Stays /\ UNCHANGED <<ui, upset>>

(* setEditing(false) or setChangingPwd(false) of the page, whichever dialog   *)
(* of that kind is open by now.                                            *)
Closed(u, d) == IF u.dialog = d THEN [u EXCEPT !.dialog = None] ELSE u

(* The flag of a dialog that is still there is let go. *)
Freed(k) == IF k.of.here THEN [ui EXCEPT !.saving = FALSE] ELSE ui

(* The dialog that closes is not the one that saved. *)
Mistaken(k, d) == ~k.of.here /\ ui.dialog = d

Saved(k) == Closed([Freed(k) EXCEPT !.user = k.ans], "edit")

ProfileSaved(i) ==
  LET k == calls[i]
  IN /\ k.kind = "save" /\ k.ans # None
     /\ ui' = Saved(k)
     /\ Ends(i)
     /\ upset' = (upset \/ Mistaken(k, "edit"))
     /\ Stays /\ UNCHANGED db

(* The picture is there: the second call makes it the user's. *)
AvatarPut(i) ==
  /\ calls[i].kind = "put" /\ calls[i].ans # None
  /\ calls' = Append(RemoveAt(calls, i), Call("avatar", calls[i].of))
  /\ Stays /\ UNCHANGED <<ui, db, upset>>

AvatarSet(i) ==
  LET k == calls[i]
  IN /\ k.kind = "avatar" /\ k.ans # None
     /\ ui' = [ui EXCEPT !.user = k.ans,
                         !.uploading = IF k.of.here THEN FALSE ELSE @]
     /\ Ends(i)
     /\ Stays /\ UNCHANGED <<db, upset>>

(* The user is read again, and the dialog waits for that too. *)
PasswordChanged(i) ==
  /\ calls[i].kind = "password" /\ calls[i].ans # None
  /\ calls' = Append(RemoveAt(calls, i), Call("me", calls[i].of))
  /\ upset' = (upset \/ Len(calls) > 1)
  /\ Stays /\ UNCHANGED <<ui, db>>

MeRead(i) ==
  LET k == calls[i]
  IN /\ k.kind = "me" /\ k.ans # None
     /\ IF client = "web"
        THEN /\ ui' = Closed([Freed(k) EXCEPT !.user = k.ans], "password")
             /\ Ends(i)
             /\ upset' = (upset \/ Mistaken(k, "password"))
             /\ Stays /\ UNCHANGED db
        ELSE Opens(Home(client))

(* Refused or lost.  A password that could not be read back is changed all    *)
(* the same, and the dialog closes.                                        *)
Unsaved(k) ==
  CASE k.kind = "me" -> Closed(Freed(k), "password")
    [] k.kind \in {"put", "avatar"} ->
         [ui EXCEPT !.uploading = IF k.of.here THEN FALSE ELSE @]
    [] OTHER -> Freed(k)

AccountMissed(i) ==
  LET k == calls[i]
  IN IF k.kind = "me" /\ client = "app" THEN Opens(Home(client))
     ELSE /\ ui' = Unsaved(k)
          /\ Ends(i)
          /\ upset' = (upset \/ k.kind = "me" \/ k.ans # None)
          /\ Stays /\ UNCHANGED db

(* The app's screen, the web's page and its two dialogs. *)
AppProfile == client = "app" /\ (ChangePassword \/ CloseDialog)

WebProfile == client = "web" /\ \E d \in {"edit", "password"} : OpenDialog(d)

EditDialog ==
  /\ client = "web" /\ ui.dialog = "edit"
  /\ \/ \E b \in Bios \cup {None} : EditForm(b)
     \/ SaveProfile
     \/ PickAvatar
     \/ CloseDialog

PasswordDialog ==
  /\ client = "web" /\ ui.dialog = "password"
  /\ ChangePassword \/ CloseDialog

ProfileNext ==
  /\ screen = "profile"
  /\ \/ AppProfile \/ WebProfile \/ EditDialog \/ PasswordDialog
     \/ \E i \in DOMAIN calls :
          \/ ServeAccount(i)
          \/ ProfileSaved(i) \/ AvatarPut(i) \/ AvatarSet(i)
          \/ PasswordChanged(i) \/ MeRead(i)
          \/ AccountMissed(i)

-----------------------------------------------------------------------------
(* The university account: loadStatus, and a dialog that binds or unbinds and *)
(* waits until the status has been read again.                             *)
OpenCas ==
  /\ ~ui.open
  /\ ui' = [ui EXCEPT !.open = TRUE, !.filled = FALSE, !.submitting = FALSE]
  /\ Stays /\ UNCHANGED <<calls, db, upset>>

CloseCas ==
  /\ ui.open
  /\ ui' = [ui EXCEPT !.open = FALSE]
  /\ calls' = Orphaned
  /\ Stays /\ UNCHANGED <<db, upset>>

(* Spinner, the form to bind, or the button to unbind. *)
CasOffers ==
  IF ~ui.open \/ ui.status = None \/ ui.submitting THEN {}
  ELSE IF ui.status THEN {"unbind"} ELSE {"type", "bind"}

TypeCas ==
  /\ "type" \in CasOffers /\ ~ui.filled
  /\ ui' = [ui EXCEPT !.filled = TRUE]
  /\ Stays /\ UNCHANGED <<calls, db, upset>>

FromCas(kind) == Call(kind, [here |-> TRUE, form |-> None])

Submits(kind) ==
  /\ kind \in CasOffers /\ (kind = "bind" => ui.filled)
  /\ ui' = [ui EXCEPT !.submitting = TRUE]
  /\ Send(FromCas(kind))
  /\ upset' = (upset \/ calls # <<>>)
  /\ Stays /\ UNCHANGED db

(* Bind asks the university first; Unbind deletes the session; the session    *)
(* also ends by itself.                                                    *)
ServeCas(i) ==
  LET k == calls[i]
  IN /\ k.ans = None
     /\ db' = IF k.kind = "status" THEN db ELSE k.kind = "bind"
     /\ Served(i, IF k.kind = "status" THEN db ELSE "ok")
     /\ Stays /\ UNCHANGED <<ui, upset>>

CasExpires ==
  /\ db /\ db' = FALSE
  /\ upset' = TRUE
  /\ Stays /\ UNCHANGED <<ui, calls>>

(* onBind and onUnbind go on to read the status, with the flag still set. *)
Rechecked(k) == <<[k EXCEPT !.kind = "status", !.ans = None]>>

CasChanged(i) ==
  LET k == calls[i]
  IN /\ k.kind # "status" /\ k.ans # None
     /\ ui' = [ui EXCEPT !.filled = @ /\ ~(k.kind = "bind" /\ k.of.here)]
     /\ calls' = RemoveAt(calls, i) \o Rechecked(k)
     /\ Stays /\ UNCHANGED <<db, upset>>

CasRead(i) ==
  LET k == calls[i]
  IN /\ k.kind = "status" /\ k.ans # None
     /\ ui' = [ui EXCEPT !.status = k.ans, !.submitting = @ /\ ~k.of.here]
     /\ Ends(i)
     /\ upset' = (upset /\ ~(Len(calls) = 1 /\ k.ans = db))
     /\ Stays /\ UNCHANGED db

(* loadStatus takes no notice of a failure: what was shown stays. *)
CasMissed(i) ==
  LET k == calls[i]
  IN /\ ui' = [ui EXCEPT !.submitting = @ /\ ~k.of.here]
     /\ Ends(i)
     /\ upset' = (upset \/ k.kind = "status" \/ k.ans # None)
     /\ Stays /\ UNCHANGED db

(* The dialog, which is the same in both. *)
CasActions ==
  \/ OpenCas \/ CloseCas \/ TypeCas
  \/ Submits("bind") \/ Submits("unbind")

AppCampus == client = "app" /\ CasActions

WebCampus == client = "web" /\ CasActions

CampusNext ==
  /\ screen = "campus"
  /\ \/ AppCampus \/ WebCampus
     \/ CasExpires
     \/ \E i \in DOMAIN calls :
          ServeCas(i) \/ CasChanged(i) \/ CasRead(i) \/ CasMissed(i)

-----------------------------------------------------------------------------
(* Codes: the web pages count a minute down before they offer another one;    *)
(* the app does not, and lets the server refuse it.                        *)
AskCode ==
  /\ ui.mode = "code" /\ ~ui.sending
  /\ client = "web" => ui.countdown = 0
  /\ ui' = [ui EXCEPT !.sending = TRUE]
  /\ Send(Call("code", 0))
  /\ Stays /\ UNCHANGED <<db, upset>>

(* The code in the mail is typed in. *)
TypeCode ==
  /\ db.code # 0 /\ ui.code # db.code
  /\ ui' = [ui EXCEPT !.code = db.code]
  /\ Stays /\ UNCHANGED <<calls, db, upset>>

SwitchMode(m) ==
  /\ ui.page = "login" /\ m # ui.mode
  /\ ui' = [ui EXCEPT !.mode = m]
  /\ Stays /\ UNCHANGED <<calls, db, upset>>

(* login, loginByCode, ssoLogin, register or resetPassword, from a form that  *)
(* is filled in: loggingIn, or submitting, is set until it is answered.     *)
Enter ==
  /\ ~ui.busy
  /\ ui.mode = "code" => ui.code # 0
  /\ ui' = [ui EXCEPT !.busy = TRUE]
  /\ Send(Call("enter", IF ui.mode = "code" THEN ui.code ELSE 0))
  /\ Stays /\ UNCHANGED <<db, upset>>

(* A second passes.  A timer of the page may be late, but not early. *)
OneLess(n) == IF n > 0 THEN n - 1 ELSE 0

Tick(late) ==
  /\ db.cool > 0 \/ ui.countdown > 0
  /\ db' = [db EXCEPT !.cool = OneLess(@)]
  /\ ui' = [ui EXCEPT !.countdown = IF late THEN @ ELSE OneLess(@)]
  /\ Stays /\ UNCHANGED <<calls, upset>>

(* SendCode refuses another code within the minute; a code is good once.      *)
(* (MaxCalls also bounds the codes that are sent.)                          *)
ServeCode(i) ==
  LET k == calls[i]
  IN /\ k.ans = None
     /\ \/ /\ k.kind = "code" /\ db.cool = 0 /\ db.sent < MaxCalls
           /\ db' = [code |-> db.sent + 1, sent |-> db.sent + 1, cool |-> Minute]
        \/ /\ k.kind = "enter" /\ k.of = 0
           /\ UNCHANGED db
        \/ /\ k.kind = "enter" /\ k.of # 0 /\ k.of = db.code
           /\ db' = [db EXCEPT !.code = 0]
     /\ Served(i, "ok")
     /\ Stays /\ UNCHANGED <<ui, upset>>

Counting ==
  [ui EXCEPT !.sending = FALSE, !.countdown = IF client = "web" THEN Minute ELSE @]

CodeSent(i) ==
  /\ calls[i].kind = "code" /\ calls[i].ans # None
  /\ ui' = Counting
  /\ Ends(i)
  /\ Stays /\ UNCHANGED <<db, upset>>

Entered(i) ==
  /\ calls[i].kind = "enter" /\ calls[i].ans # None
  /\ Opens(Home(client))

CodeMissed(i) ==
  LET k == calls[i]
  IN /\ ui' = IF k.kind = "code" THEN [ui EXCEPT !.sending = FALSE]
              ELSE [ui EXCEPT !.busy = FALSE]
     /\ Ends(i)
     /\ upset' = (upset \/ k.ans # None)
     /\ Stays /\ UNCHANGED db

(* The pages: three ways to log in, a button for codes, the form itself. *)
AppLogin ==
  /\ ui.page = "login"
  /\ \/ AskCode \/ TypeCode \/ Enter
     \/ \E m \in {"code", "password", "sso"} : SwitchMode(m)

WebLogin == ui.page = "signin" /\ Enter

WebRegister == ui.page = "register" /\ (AskCode \/ TypeCode \/ Enter)

WebForgot == ui.page = "forgot" /\ (AskCode \/ TypeCode \/ Enter)

CodeNext ==
  /\ screen = "code"
  /\ \/ AppLogin \/ WebLogin \/ WebRegister \/ WebForgot
     \/ \E late \in BOOLEAN : Tick(late)
     \/ \E i \in DOMAIN calls :
          ServeCode(i) \/ CodeSent(i) \/ Entered(i) \/ CodeMissed(i)

AccountNext == ProfileNext \/ CampusNext \/ CodeNext

-----------------------------------------------------------------------------
(* With nothing under way the page shows the user as the server has him, and  *)
(* the bar says whether the university account is bound, though each of them *)
(* comes with the answer to another call: calls that crossed, an answer that *)
(* was lost and a session that ended by itself excepted.                    *)
AccountIsShown ==
  (calls = <<>> /\ ~upset) =>
    /\ screen = "profile" => ui.user = db
    /\ screen = "campus" => ui.status = db

(* A form that is closed by an answer has been stored as it is: the dialog    *)
(* that closes is the one that was saved.  (Typing on while it is saved, and *)
(* a dialog opened again before the answer to the former one, lose what was  *)
(* typed; so does emptying a field, which UpdateMe takes for leaving it.)   *)
FormIsStored ==
  [][(screen = "profile" /\ screen' = "profile" /\ ui.dialog = "edit"
      /\ ui'.dialog # "edit" /\ Len(calls') < Len(calls) /\ ~upset' /\ ui.form # None)
     => ui.form = db.bio]_vars

(* The pages offer another code only when the server would send one: their    *)
(* minute ends after the server's.  Only an answer that was lost hides it.  *)
CooldownIsCounted ==
  (screen = "code" /\ client = "web" /\ ~ui.sending /\ ~upset) =>
    db.cool <= ui.countdown
=============================================================================
