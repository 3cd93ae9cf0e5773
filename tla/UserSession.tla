----------------------------- MODULE UserSession -----------------------------
(***************************************************************************)
(* The customer session of Artable: Firebase Auth's current user, the     *)
(* UserServices singleton with its two Firestore listeners (the user's    *)
(* document and the favourites collection), and the screens that start,   *)
(* end or depend on a session: the home screen, the modal login flow      *)
(* (login, register, forgot password) and whatever is pushed above home.  *)
(*                                                                         *)
(* Everything asynchronous is a step of its own: a request is sent, the   *)
(* server answers it (Auth switches its current user at that moment), and *)
(* the completion block runs later on the main queue; snapshots wait on   *)
(* the main queue too, and a removed registration is muted, so what it    *)
(* still had queued is never delivered.  The process may die at any time. *)
(***************************************************************************)
EXTENDS Naturals, Sequences, FiniteSets, Functions

CONSTANTS
    Uids,        \* registered users an account may exist for
    Anonymous,   \* the anonymous Firebase user
    NoUid,       \* nil current user, and the id "" of an empty User()
    Products,    \* product ids
    Slots,       \* requests that may be outstanding at once (a bound)
    NoReg,       \* a nil ListenerRegistration
    OtherDevices, \* whether favourites change from elsewhere, too
    MaxChanges   \* bound on changes of the favourites collections

ASSUME SessionAssumption ==
    /\ Anonymous \notin Uids
    /\ NoUid \notin Uids
    /\ Anonymous # NoUid
    /\ IsFiniteSet(Slots)
    /\ OtherDevices \in BOOLEAN
    /\ MaxChanges \in Nat
    /\ NoReg \notin [uid : Uids, n : Nat]

VARIABLES
    currentUser,        \* Auth.auth().currentUser
    accounts,           \* uids that have an account (Firebase Auth)
    requests,           \* [Slots -> Request]
    callbacks,          \* answered slots, in main queue order
    userDocs,           \* uids whose users/{uid} document exists
    favDocs,            \* users/{uid}/favorites of every uid
    user,               \* UserServices.user.id
    favorites,          \* ids in UserServices.favorites
    userListener,       \* UserServices.userListener
    favoritesListener,  \* UserServices.favoritesListener
    userInbox,          \* live registration on a user document -> snapshots
    favInbox,           \* live registration on favourites -> snapshots
    base,               \* home, something pushed above it, or a dead process
    appearing,          \* a transition back to home is under way
    modal,              \* the login flow presented over base
    overlay,            \* an alert or the forgot-password screen on top
    late,               \* history: an answer came after its flow had closed
    changes             \* how often a favourites collection changed

authVars    == <<currentUser, accounts, requests, callbacks>>
docVars     == <<userDocs, favDocs>>
serviceVars == <<user, favorites, userListener, favoritesListener,
                 userInbox, favInbox>>
uiVars      == <<base, appearing, modal, overlay>>
history     == <<late, changes>>
vars == <<authVars, docVars, serviceVars, uiVars, history>>

Registrations == [uid : Uids, n : Nat]

Screens == {"none", "home", "login", "register"}
Stages  == {"sent", "ok", "failed"}

Request ==
    [op : {"none", "anonLaunch", "anonLogout"}, uid : {NoUid},
     ui : Screens, stage : Stages]
    \cup
    [op : {"signIn", "create", "setDoc"}, uid : Uids,
     ui : Screens, stage : Stages]

\* A slot that holds no request.
Idle == [op |-> "none", uid |-> NoUid, ui |-> "none", stage |-> "sent"]

TypeOK ==
    /\ currentUser \in Uids \cup {Anonymous, NoUid}
    /\ accounts \subseteq Uids
    /\ requests \in [Slots -> Request]
    /\ callbacks \in Seq(Slots)
    /\ userDocs \subseteq Uids
    /\ favDocs \in [Uids -> SUBSET Products]
    /\ user \in Uids \cup {NoUid}
    /\ favorites \subseteq Products
    /\ userListener \in Registrations \cup {NoReg}
    /\ favoritesListener \in Registrations \cup {NoReg}
    /\ DOMAIN userInbox \subseteq Registrations
    /\ userInbox \in [DOMAIN userInbox -> Seq(SUBSET Uids)]
    /\ DOMAIN favInbox \subseteq Registrations
    /\ favInbox \in [DOMAIN favInbox -> Seq(SUBSET Products)]
    /\ base \in {"home", "pushed", "dead"}
    /\ appearing \in BOOLEAN
    /\ modal \in {"none", "login", "register"}
    /\ overlay \in {"none", "alert", "forgot"}
    /\ late \in BOOLEAN
    /\ changes \in Nat
------------------------------------------------------------------------------
(* Firestore, as the code uses it. *)

NoInbox == [r \in {} |-> <<>>]

\* The registration addSnapshotListener returns: distinct from the live ones.
NewRegistration(inbox, uid) == [uid |-> uid, n |-> Cardinality(DOMAIN inbox)]

\* addSnapshotListener: the current content is the first snapshot.
Listen(inbox, reg, content) ==
    [r \in DOMAIN inbox \cup {reg} |-> IF r = reg THEN <<content>> ELSE inbox[r]]

\* ListenerRegistration.remove(): mutes it; on nil nothing happens.
Remove(inbox, reg) == Restrict(inbox, DOMAIN inbox \ {reg})

\* A change of what belongs to uid: one more snapshot for its listeners.
Publish(inbox, uid, content) ==
    [r \in DOMAIN inbox |->
        IF r.uid = uid THEN Append(inbox[r], content) ELSE inbox[r]]
------------------------------------------------------------------------------
(* UserServices. *)

isGuest == currentUser \in {NoUid, Anonymous}

\* getCurrentUser and getFavoritesSubcolectionOf: what was held is overwritten.
GetCurrentUser ==
    IF currentUser = NoUid
    THEN UNCHANGED serviceVars
    ELSE LET userReg == NewRegistration(userInbox, currentUser)
             favReg  == NewRegistration(favInbox, currentUser)
         IN  /\ userListener' = userReg
             /\ userInbox' = Listen(userInbox, userReg, {currentUser} \cap userDocs)
             /\ favoritesListener' = favReg
             /\ favInbox' = Listen(favInbox, favReg, favDocs[currentUser])
             /\ UNCHANGED <<user, favorites>>

\* Mutant: the registration is forgotten, but not removed.
LogoutUserWithoutRemove ==
    /\ userListener' = NoReg
    /\ favInbox' = Remove(favInbox, favoritesListener)
    /\ favoritesListener' = NoReg
    /\ user' = NoUid
    /\ favorites' = {}
    /\ UNCHANGED userInbox

LogoutUser ==
    /\ userInbox' = Remove(userInbox, userListener)
    /\ userListener' = NoReg
    /\ favInbox' = Remove(favInbox, favoritesListener)
    /\ favoritesListener' = NoReg
    /\ user' = NoUid
    /\ favorites' = {}

\* Mutant: the document only refreshes a user that is already loaded.
UserSnapshotOnlyRefreshes(reg) ==
    /\ reg \in DOMAIN userInbox
    /\ userInbox[reg] # <<>>
    /\ user' = IF user = NoUid \/ Head(userInbox[reg]) = {} THEN user ELSE reg.uid
    /\ userInbox' = [userInbox EXCEPT ![reg] = Tail(@)]
    /\ UNCHANGED <<favorites, userListener, favoritesListener, favInbox>>
    /\ UNCHANGED <<authVars, docVars, uiVars, history>>

\* The callback of the listener on the user's document; a snapshot without
\* data (here an empty set) is that of a document that does not exist.
UserSnapshot(reg) ==
    /\ reg \in DOMAIN userInbox
    /\ userInbox[reg] # <<>>
    /\ user' = IF Head(userInbox[reg]) = {} THEN user ELSE reg.uid
    /\ userInbox' = [userInbox EXCEPT ![reg] = Tail(@)]
    /\ UNCHANGED <<favorites, userListener, favoritesListener, favInbox>>
    /\ UNCHANGED <<authVars, docVars, uiVars, history>>

\* Mutant: only the first snapshot is taken over.
FavoritesSnapshotOnce(reg) ==
    /\ reg \in DOMAIN favInbox
    /\ favInbox[reg] # <<>>
    /\ favorites' = IF favorites = {} THEN Head(favInbox[reg]) ELSE favorites
    /\ favInbox' = [favInbox EXCEPT ![reg] = Tail(@)]
    /\ UNCHANGED <<user, userListener, favoritesListener, userInbox>>
    /\ UNCHANGED <<authVars, docVars, uiVars, history>>

\* The callback of the favourites listener: it appends, and never clears.
FavoritesSnapshot(reg) ==
    /\ reg \in DOMAIN favInbox
    /\ favInbox[reg] # <<>>
    /\ favorites' = favorites \cup Head(favInbox[reg])
    /\ favInbox' = [favInbox EXCEPT ![reg] = Tail(@)]
    /\ UNCHANGED <<user, userListener, favoritesListener, userInbox>>
    /\ UNCHANGED <<authVars, docVars, uiVars, history>>

\* Either callback gets an error: the code returns, and Firestore ends the
\* listener; the code keeps holding the registration.
UserListenerFails(reg) ==
    /\ reg \in DOMAIN userInbox
    /\ userInbox' = Remove(userInbox, reg)
    /\ UNCHANGED <<user, favorites, userListener, favoritesListener, favInbox>>
    /\ UNCHANGED <<authVars, docVars, uiVars, history>>

FavoritesListenerFails(reg) ==
    /\ reg \in DOMAIN favInbox
    /\ favInbox' = Remove(favInbox, reg)
    /\ UNCHANGED <<user, favorites, userListener, favoritesListener, userInbox>>
    /\ UNCHANGED <<authVars, docVars, uiVars, history>>

SetFavorites(uid, content) ==
    /\ favDocs' = [favDocs EXCEPT ![uid] = content]
    /\ favInbox' = Publish(favInbox, uid, content)
    /\ changes' = changes + 1

\* favoritesSelected(product:) for a user whose document has been loaded.
FavoritesSelected(p) ==
    /\ changes < MaxChanges
    /\ \/ /\ p \in favorites
          /\ favorites' = favorites \ {p}
          /\ SetFavorites(user, favDocs[user] \ {p})
       \/ /\ p \notin favorites
          /\ favorites' = favorites \cup {p}
          /\ SetFavorites(user, favDocs[user] \cup {p})
    /\ UNCHANGED <<user, userListener, favoritesListener, userInbox, userDocs>>
    /\ UNCHANGED <<authVars, uiVars, late>>

\* Another device of the user changes the collection, or the server rejects
\* a write and Firestore reverts it.
RemoteFavorites(uid, p) ==
    /\ OtherDevices
    /\ changes < MaxChanges
    /\ uid \in accounts
    /\ SetFavorites(uid, IF p \in favDocs[uid] THEN favDocs[uid] \ {p}
                                               ELSE favDocs[uid] \cup {p})
    /\ UNCHANGED <<user, favorites, userListener, favoritesListener, userInbox>>
    /\ UNCHANGED <<userDocs, authVars, uiVars, late>>
------------------------------------------------------------------------------
(* Requests to the servers and their answers. *)

Send(op, uid, ui) ==
    \E s \in Slots :
        /\ requests[s] = Idle
        /\ requests' = [requests EXCEPT ![s] =
               [op |-> op, uid |-> uid, ui |-> ui, stage |-> "sent"]]

\* The requests once the screens in gone have closed: their completion
\* blocks still run, but dismiss and present on a closed screen do nothing.
Orphaned(gone) ==
    [s \in Slots |-> IF requests[s].ui \in gone
                     THEN [requests[s] EXCEPT !.ui = "none"] ELSE requests[s]]

Answer(s, stage) ==
    /\ requests' = [requests EXCEPT ![s].stage = stage]
    /\ callbacks' = Append(callbacks, s)

\* Firebase accepts the request in s: Auth switches its current user before
\* the completion block is queued.
ServerAccepts(s) ==
    LET r == requests[s] IN
    /\ base # "dead"
    /\ r.stage = "sent"
    /\ \/ /\ r.op \in {"anonLaunch", "anonLogout"}
          /\ currentUser' = Anonymous
          /\ UNCHANGED accounts
       \/ /\ r.op = "signIn"
          /\ r.uid \in accounts
          /\ currentUser' = r.uid
          /\ UNCHANGED accounts
       \/ /\ r.op = "create"
          /\ r.uid \notin accounts
          /\ accounts' = accounts \cup {r.uid}
          /\ currentUser' = r.uid
       \/ /\ r.op = "setDoc"
          /\ UNCHANGED <<currentUser, accounts>>
    /\ Answer(s, "ok")
    /\ late' = (late \/ (r.op \in {"signIn", "create"} /\ r.ui = "none"))
    /\ UNCHANGED <<docVars, serviceVars, uiVars, changes>>

\* Firebase refuses the request, or cannot be reached; a refused document is
\* rolled back in the local cache.
ServerRefuses(s) ==
    LET r == requests[s] IN
    /\ base # "dead"
    /\ r.stage = "sent"
    /\ r.op # "none"
    /\ Answer(s, "failed")
    /\ IF r.op = "setDoc"
       THEN /\ userDocs' = userDocs \ {r.uid}
            /\ userInbox' = Publish(userInbox, r.uid, {})
       ELSE UNCHANGED <<userDocs, userInbox>>
    /\ UNCHANGED <<user, favorites, userListener, favoritesListener, favInbox>>
    /\ UNCHANGED <<currentUser, accounts, favDocs, uiVars, history>>
------------------------------------------------------------------------------
(* Screens. *)

\* Nothing is presented above the screen and no transition is running.
Touchable == modal = "none" /\ overlay = "none" /\ ~appearing
AtHome    == base = "home" /\ Touchable
AtPushed  == base = "pushed" /\ Touchable

\* The main queue runs its blocks before a later touch.  A touch may still
\* overtake the block of an answer that just came in: that matters only to
\* handlers that read currentUser (the others commute with the answer), so
\* the others are modelled after the queue has been drained.
Drained == callbacks = <<>>
At(m)   == modal = m /\ overlay = "none" /\ Drained

\* present(alert) in a completion block: refused while something is up; on a
\* screen that is not the visible one, UIKit may show it or not.
Visible(ui) == IF ui = "home" THEN AtHome ELSE modal = ui

Alert(ui) ==
    \/ /\ overlay = "none" /\ (ui = "home" => modal = "none")
       /\ overlay' = "alert"
    \/ /\ overlay # "none" \/ ~Visible(ui)
       /\ UNCHANGED overlay

\* The login flow leaves the screen; home appears again if it was below.
CloseFlow ==
    /\ modal' = "none"
    /\ appearing' = (base = "home")

\* presentLoginViewController: refused while home presents something; when
\* home is not on screen, UIKit may present it or not.
PresentLogin ==
    /\ \/ /\ modal = "none" /\ overlay = "none"
          /\ modal' = "login"
          /\ appearing' = FALSE
       \/ /\ ~AtHome
          /\ UNCHANGED <<modal, appearing>>
    /\ UNCHANGED <<base, overlay>>

\* Mutant: the listeners are added again at every appearance.
HomeDidAppearListensAgain ==
    /\ base = "home"
    /\ appearing
    /\ appearing' = FALSE
    /\ IF ~isGuest THEN GetCurrentUser ELSE UNCHANGED serviceVars
    /\ UNCHANGED <<authVars, docVars, base, modal, overlay, history>>

\* viewDidAppear of the home screen.
HomeDidAppear ==
    /\ base = "home"
    /\ appearing
    /\ appearing' = FALSE
    /\ IF ~isGuest /\ userListener = NoReg
       THEN GetCurrentUser
       ELSE UNCHANGED serviceVars
    /\ UNCHANGED <<authVars, docVars, base, modal, overlay, history>>

\* didPressLoginOutButton: nothing for a nil user, the login flow for an
\* anonymous one, and for a registered one sign out (which may throw).
PressLogin ==
    /\ AtHome
    /\ currentUser = Anonymous
    /\ modal' = "login"
    /\ UNCHANGED <<authVars, docVars, serviceVars, base, appearing, overlay, history>>

\* Mutant: signing out leaves UserServices as it is.
PressLogoutKeepsServices ==
    /\ AtHome
    /\ ~isGuest
    /\ currentUser' = NoUid
    /\ Send("anonLogout", NoUid, "home")
    /\ UNCHANGED <<accounts, callbacks, docVars, serviceVars, uiVars, history>>

PressLogout ==
    /\ AtHome
    /\ ~isGuest
    /\ currentUser' = NoUid
    /\ LogoutUser
    /\ Send("anonLogout", NoUid, "home")
    /\ UNCHANGED <<accounts, callbacks, docVars, uiVars, history>>

SignOutThrows ==
    /\ AtHome
    /\ ~isGuest
    /\ overlay' = "alert"
    /\ UNCHANGED <<authVars, docVars, serviceVars, base, appearing, modal, history>>

\* A category or the favourites button pushes a screen; favourites only for
\* users who are no guests.
OpenPushed ==
    /\ AtHome
    /\ Drained
    /\ base' = "pushed"
    /\ UNCHANGED <<authVars, docVars, serviceVars, appearing, modal, overlay, history>>

FavoritesButtonRefused ==
    /\ AtHome
    /\ isGuest
    /\ overlay' = "alert"
    /\ UNCHANGED <<authVars, docVars, serviceVars, base, appearing, modal, history>>

Back ==
    /\ AtPushed
    /\ Drained
    /\ base' = "home"
    /\ appearing' = TRUE
    /\ UNCHANGED <<authVars, docVars, serviceVars, modal, overlay, history>>

\* The process is gone: what lived in memory is lost, not what is on the wire.
Die ==
    /\ base' = "dead"
    /\ callbacks' = <<>>
    /\ user' = NoUid /\ favorites' = {}
    /\ userListener' = NoReg /\ favoritesListener' = NoReg
    /\ userInbox' = NoInbox /\ favInbox' = NoInbox
    /\ appearing' = FALSE /\ modal' = "none" /\ overlay' = "none"
    /\ UNCHANGED <<currentUser, accounts, requests, docVars, history>>

\* productFavorited: an alert for a guest; favoritesSelected builds the path
\* users/{user.id}, which Firestore refuses with an exception for an empty id.
ProductFavorited(p) ==
    /\ AtPushed
    /\ \/ /\ isGuest
          /\ overlay' = "alert"
          /\ UNCHANGED <<authVars, docVars, serviceVars, base, appearing, modal, history>>
       \/ /\ ~isGuest /\ user # NoUid
          /\ FavoritesSelected(p)
       \/ /\ ~isGuest /\ user = NoUid
          /\ Die

\* loginButtonPressed and registerClicked, with the fields filled in ...
LoginButtonPressed(uid) ==
    /\ At("login")
    /\ Send("signIn", uid, "login")
    /\ UNCHANGED <<currentUser, accounts, callbacks, docVars, serviceVars, uiVars, history>>

RegisterClicked(uid) ==
    /\ At("register")
    /\ Send("create", uid, "register")
    /\ UNCHANGED <<currentUser, accounts, callbacks, docVars, serviceVars, uiVars, history>>

\* ... or not: an alert.
FieldsMissing ==
    /\ At("login") \/ At("register")
    /\ overlay' = "alert"
    /\ UNCHANGED <<authVars, docVars, serviceVars, base, appearing, modal, history>>

ForgotPasswordPressed ==
    /\ At("login")
    /\ overlay' = "forgot"
    /\ UNCHANGED <<authVars, docVars, serviceVars, base, appearing, modal, history>>

\* OK on an alert; Cancel, or a password reset that went through, on the
\* forgot-password screen.
OverlayDismissed ==
    /\ overlay # "none"
    /\ Drained
    /\ overlay' = "none"
    /\ UNCHANGED <<authVars, docVars, serviceVars, base, appearing, modal, history>>

CreateNewUserPressed ==
    /\ At("login")
    /\ modal' = "register"
    /\ UNCHANGED <<authVars, docVars, serviceVars, base, appearing, overlay, history>>

BackToLogin ==
    /\ At("register")
    /\ modal' = "login"
    /\ requests' = Orphaned({"register"})
    /\ UNCHANGED <<currentUser, accounts, callbacks, docVars, serviceVars>>
    /\ UNCHANGED <<base, appearing, overlay, history>>

ContinueGuestButtonPressed ==
    /\ At("login")
    /\ CloseFlow
    /\ requests' = Orphaned({"login"})
    /\ UNCHANGED <<currentUser, accounts, callbacks, docVars, serviceVars>>
    /\ UNCHANGED <<base, overlay, history>>
------------------------------------------------------------------------------
(* Completion blocks, in the order they were queued. *)

NextCallback(ops, stage) ==
    /\ callbacks # <<>>
    /\ requests[Head(callbacks)].op \in ops
    /\ requests[Head(callbacks)].stage = stage
    /\ callbacks' = Tail(callbacks)

Finished(rs) == [rs EXCEPT ![Head(callbacks)] = Idle]

\* self.dismiss in a successful sign-in or registration: it closes what is
\* presented on top, or else the flow; a closed screen has nothing to dismiss.
DismissedBy(r) ==
    \/ /\ r.ui = "none"
       /\ requests' = Finished(requests)
       /\ UNCHANGED <<modal, appearing, overlay>>
    \/ /\ r.ui # "none" /\ overlay # "none"
       /\ overlay' = "none"
       /\ requests' = Finished(requests)
       /\ UNCHANGED <<modal, appearing>>
    \/ /\ r.ui # "none" /\ overlay = "none"
       /\ CloseFlow
       /\ requests' = Finished(Orphaned({"login", "register"}))
       /\ UNCHANGED overlay

SignInCompleted ==
    /\ NextCallback({"signIn", "setDoc"}, "ok")
    /\ DismissedBy(requests[Head(callbacks)])
    /\ UNCHANGED <<currentUser, accounts, docVars, serviceVars, base, history>>

\* createUser succeeded: createFirestoreUser writes the user's document,
\* which the local cache holds at once.
CreateCompleted ==
    /\ NextCallback({"create"}, "ok")
    /\ LET s == Head(callbacks)
           uid == requests[s].uid
       IN  /\ requests' = [requests EXCEPT ![s].op = "setDoc", ![s].stage = "sent"]
           /\ userDocs' = userDocs \cup {uid}
           /\ userInbox' = Publish(userInbox, uid, {uid})
    /\ UNCHANGED <<currentUser, accounts, favDocs, user, favorites, userListener>>
    /\ UNCHANGED <<favoritesListener, favInbox, uiVars, history>>

\* Errors are shown on the screen that asked, if it is still there.  A
\* Firestore error code is no AuthErrorCode: setDoc shows nothing.
RequestFailed ==
    /\ NextCallback({"signIn", "create", "setDoc", "anonLaunch"}, "failed")
    /\ LET r == requests[Head(callbacks)]
       IN  IF r.op = "setDoc" \/ r.ui = "none" THEN UNCHANGED overlay ELSE Alert(r.ui)
    /\ requests' = Finished(requests)
    /\ UNCHANGED <<currentUser, accounts, docVars, serviceVars>>
    /\ UNCHANGED <<base, appearing, modal, history>>

AnonymousAtLaunch ==
    /\ NextCallback({"anonLaunch"}, "ok")
    /\ requests' = Finished(requests)
    /\ UNCHANGED <<currentUser, accounts, docVars, serviceVars, uiVars, history>>

\* Mutant: nothing is presented after a logout.
AnonymousAfterLogoutSilent ==
    /\ NextCallback({"anonLogout"}, "ok")
    /\ requests' = Finished(requests)
    /\ UNCHANGED <<currentUser, accounts, docVars, serviceVars, uiVars, history>>

\* After a logout: presentLoginViewController, which an alert that is up refuses.
AnonymousAfterLogout ==
    /\ NextCallback({"anonLogout"}, "ok")
    /\ requests' = Finished(requests)
    /\ PresentLogin
    /\ UNCHANGED <<currentUser, accounts, docVars, serviceVars, history>>

\* After a failure an alert comes first, and presentLoginViewController all the
\* same; the alert, if it is shown, refuses it.
AnonymousAfterLogoutFailed ==
    /\ NextCallback({"anonLogout"}, "failed")
    /\ requests' = Finished(requests)
    /\ Alert("home")
    /\ \/ overlay' # overlay /\ UNCHANGED <<base, appearing, modal>>
       \/ PresentLogin
    /\ UNCHANGED <<currentUser, accounts, docVars, serviceVars, history>>
------------------------------------------------------------------------------
(* Launch. *)

\* viewDidLoad of the home screen signs in anonymously when nobody is.
Launching == [op |-> "anonLaunch", uid |-> NoUid, ui |-> "home", stage |-> "sent"]

LaunchRequests(cu) ==
    {rs \in [Slots -> {Idle, Launching}] :
        Cardinality({s \in Slots : rs[s] # Idle}) = IF cu = NoUid THEN 1 ELSE 0}

Init ==
    /\ accounts \in SUBSET Uids
    /\ userDocs \in SUBSET accounts
    /\ favDocs \in {f \in [Uids -> SUBSET Products] :
                      \A u \in Uids : u \notin accounts => f[u] = {}}
    /\ currentUser \in accounts \cup {Anonymous, NoUid}
    /\ requests \in LaunchRequests(currentUser)
    /\ callbacks = <<>>
    /\ user = NoUid /\ favorites = {}
    /\ userListener = NoReg /\ favoritesListener = NoReg
    /\ userInbox = NoInbox /\ favInbox = NoInbox
    /\ base = "home" /\ appearing = TRUE
    /\ modal = "none" /\ overlay = "none"
    /\ late = FALSE /\ changes = 0

\* The process is killed, or starts again after an exception.  A createUser
\* in flight may have made the account nobody will write a document for, and
\* a queued document write is kept by Firestore's persistence, or refused.
Relaunch ==
    /\ \E made \in SUBSET {requests[s].uid : s \in {t \in Slots :
                              requests[t].op = "create" /\ requests[t].stage = "sent"}} :
           accounts' = accounts \cup made
    /\ \E lost \in SUBSET {requests[s].uid : s \in {t \in Slots :
                              requests[t].op = "setDoc" /\ requests[t].stage = "sent"}} :
           userDocs' = userDocs \ lost
    /\ requests' \in LaunchRequests(currentUser)
    /\ callbacks' = <<>>
    /\ user' = NoUid /\ favorites' = {}
    /\ userListener' = NoReg /\ favoritesListener' = NoReg
    /\ userInbox' = NoInbox /\ favInbox' = NoInbox
    /\ base' = "home" /\ appearing' = TRUE
    /\ modal' = "none" /\ overlay' = "none"
    /\ late' = FALSE
    /\ UNCHANGED <<currentUser, favDocs, changes>>
------------------------------------------------------------------------------
Listener ==
    \/ \E reg \in DOMAIN userInbox : UserSnapshot(reg) \/ UserListenerFails(reg)
    \/ \E reg \in DOMAIN favInbox : FavoritesSnapshot(reg) \/ FavoritesListenerFails(reg)

Server ==
    \/ \E s \in Slots : ServerAccepts(s) \/ ServerRefuses(s)
    \/ \E uid \in Uids, p \in Products : RemoteFavorites(uid, p)

Home ==
    \/ HomeDidAppear \/ PressLogin \/ PressLogout \/ SignOutThrows
    \/ OpenPushed \/ FavoritesButtonRefused \/ Back
    \/ \E p \in Products : ProductFavorited(p)

LoginFlow ==
    \/ \E uid \in Uids : LoginButtonPressed(uid) \/ RegisterClicked(uid)
    \/ FieldsMissing \/ ForgotPasswordPressed \/ OverlayDismissed
    \/ CreateNewUserPressed \/ BackToLogin \/ ContinueGuestButtonPressed

Callback ==
    \/ SignInCompleted \/ CreateCompleted \/ RequestFailed
    \/ AnonymousAtLaunch \/ AnonymousAfterLogout \/ AnonymousAfterLogoutFailed

Next == Listener \/ Server \/ Home \/ LoginFlow \/ Callback \/ Relaunch

\* The SDKs answer every request and deliver every snapshot, the main queue
\* is drained and UIKit ends every transition; users owe nothing.
Fairness ==
    /\ \A s \in Slots : WF_vars(ServerAccepts(s) \/ ServerRefuses(s))
    /\ WF_vars(\E reg \in DOMAIN userInbox : UserSnapshot(reg))
    /\ WF_vars(\E reg \in DOMAIN favInbox : FavoritesSnapshot(reg))
    /\ WF_vars(HomeDidAppear)
    /\ WF_vars(Callback)

Spec == Init /\ [][Next]_vars
FairSpec == Spec /\ Fairness
------------------------------------------------------------------------------
(* What the session promises. *)

\* The loaded user always belongs to the listener UserServices holds: once
\* logoutUser has run, no late snapshot brings a user back.
LoadedUserIsListenedTo ==
    /\ user # NoUid => userListener # NoReg /\ userListener.uid = user
    /\ favorites # {} => favoritesListener # NoReg

\* No listener outlives the handle that could remove it: every registration
\* Firestore still serves is the one UserServices holds.
NoLeakedListener ==
    /\ DOMAIN userInbox \subseteq {userListener}
    /\ DOMAIN favInbox \subseteq {favoritesListener}

\* The two listeners are of the same user, and are held or nil together.
ListenersPaired ==
    /\ (userListener = NoReg) = (favoritesListener = NoReg)
    /\ userListener # NoReg => userListener.uid = favoritesListener.uid

\* Once every snapshot of the favourites has been delivered, whatever order
\* taps and snapshots came in, no favourite of the user is missing locally.
FavoritesCoverServer ==
    \A reg \in DOMAIN favInbox :
        favInbox[reg] = <<>> => favDocs[reg.uid] \subseteq favorites

\* UserServices listens to the user Firebase Auth has signed in, through
\* logout, login, registration and launch, unless Firebase accepts a login or
\* registration whose screens the user had already left.
SessionIsCurrentUser ==
    ~late /\ userListener # NoReg => userListener.uid = currentUser

\* Logging in leads somewhere: while the user's document exists and its
\* listener lives, the user ends up loaded, or the session ends.
SessionGetsLoaded ==
    \A u \in Uids :
        (\E reg \in DOMAIN userInbox : reg.uid = u /\ u \in userDocs)
        ~> (user = u \/ ~\E reg \in DOMAIN userInbox : reg.uid = u)

\* After a logout the user, who stays on the home screen, is shown the login
\* flow, or an alert that says why not.
LogoutLeadsToLogin ==
    (\E s \in Slots : requests[s].op = "anonLogout")
    ~> (modal # "none" \/ overlay # "none" \/ base # "home" \/ appearing)

\* "We remove as favorites": with every snapshot delivered, what is not in
\* the user's collection is not a favourite any more.
RemovedFavoritesStayRemoved ==
    \A reg \in DOMAIN favInbox :
        favInbox[reg] = <<>> /\ user # NoUid => favorites \subseteq favDocs[reg.uid]
==============================================================================
