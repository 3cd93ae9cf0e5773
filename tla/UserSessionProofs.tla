-------------------------- MODULE UserSessionProofs --------------------------
(***************************************************************************)
(* The safety of the customer session, for any set of users, products and *)
(* outstanding requests: the listeners, the favourites, and whose session  *)
(* it is.                                                                  *)
(***************************************************************************)
EXTENDS UserSession, TLAPS, FiniteSetTheorems, SequenceTheorems

\* The inductive invariant: a loaded user can only come from a registration
\* that is still served, and such a registration is the one that is held.
SessionInv ==
    /\ TypeOK
    /\ LoadedUserIsListenedTo
    /\ NoLeakedListener
    /\ ListenersPaired
------------------------------------------------------------------------------
(* What the operators on inboxes return. *)

LEMMA RemoveLemma ==
    ASSUME NEW S, NEW inbox, NEW reg, inbox \in [DOMAIN inbox -> Seq(S)]
    PROVE  /\ DOMAIN Remove(inbox, reg) = DOMAIN inbox \ {reg}
           /\ Remove(inbox, reg) \in [DOMAIN Remove(inbox, reg) -> Seq(S)]
  BY DEF Remove, Restrict

LEMMA ListenLemma ==
    ASSUME NEW S, NEW inbox, NEW reg, NEW content \in S,
           inbox \in [DOMAIN inbox -> Seq(S)]
    PROVE  /\ DOMAIN Listen(inbox, reg, content) = DOMAIN inbox \cup {reg}
           /\ Listen(inbox, reg, content)
                \in [DOMAIN Listen(inbox, reg, content) -> Seq(S)]
  BY DEF Listen

LEMMA PublishLemma ==
    ASSUME NEW S, NEW inbox, NEW uid, NEW content \in S,
           inbox \in [DOMAIN inbox -> Seq(S)]
    PROVE  /\ DOMAIN Publish(inbox, uid, content) = DOMAIN inbox
           /\ Publish(inbox, uid, content)
                \in [DOMAIN Publish(inbox, uid, content) -> Seq(S)]
  BY AppendProperties DEF Publish

LEMMA TailLemma ==
    ASSUME NEW S, NEW inbox, NEW reg \in DOMAIN inbox,
           inbox \in [DOMAIN inbox -> Seq(S)], inbox[reg] # <<>>
    PROVE  /\ Head(inbox[reg]) \in S
           /\ DOMAIN [inbox EXCEPT ![reg] = Tail(@)] = DOMAIN inbox
           /\ [inbox EXCEPT ![reg] = Tail(@)]
                \in [DOMAIN [inbox EXCEPT ![reg] = Tail(@)] -> Seq(S)]
  BY HeadTailProperties

\* A sequence loses its head, or gets an element more.
LEMMA SeqLemma ==
    ASSUME NEW S, NEW q \in Seq(S)
    PROVE  /\ q # <<>> => Head(q) \in S /\ Tail(q) \in Seq(S)
           /\ \A e \in S : Append(q, e) \in Seq(S)
<1>1. q # <<>> => Head(q) \in S /\ Tail(q) \in Seq(S)
  BY HeadTailProperties
<1>2. \A e \in S : Append(q, e) \in Seq(S)
  BY AppendProperties
<1> QED BY <1>1, <1>2
------------------------------------------------------------------------------
(* The request table. *)

LEMMA IdleIsRequest == Idle \in Request
  BY DEF Idle, Request, Screens, Stages

LEMMA LaunchLemma ==
    ASSUME NEW cu, NEW rs \in LaunchRequests(cu)
    PROVE  rs \in [Slots -> Request]
<1>1. {Idle, Launching} \subseteq Request
  BY DEF Idle, Launching, Request, Screens, Stages
<1>2. rs \in [Slots -> {Idle, Launching}]
  BY DEF LaunchRequests
<1> QED BY <1>1, <1>2

LEMMA OrphanedLemma ==
    ASSUME TypeOK, NEW gone
    PROVE  Orphaned(gone) \in [Slots -> Request]
<1>1. ASSUME NEW r \in Request
      PROVE  [r EXCEPT !.ui = "none"] \in Request
  BY DEF Request, Screens
<1>2. requests \in [Slots -> Request]
  BY DEF TypeOK
<1> QED BY <1>1, <1>2 DEF Orphaned

LEMMA FinishedLemma ==
    ASSUME NEW rs \in [Slots -> Request]
    PROVE  Finished(rs) \in [Slots -> Request]
  BY IdleIsRequest DEF Finished

LEMMA SendLemma ==
    ASSUME TypeOK, NEW op, NEW uid, NEW ui \in {"home", "login", "register"},
           \/ op = "anonLogout" /\ uid = NoUid
           \/ op \in {"signIn", "create"} /\ uid \in Uids,
           Send(op, uid, ui)
    PROVE  requests' \in [Slots -> Request]
<1>1. [op |-> op, uid |-> uid, ui |-> ui, stage |-> "sent"] \in Request
  BY DEF Request, Screens, Stages
<1> QED BY <1>1 DEF Send, TypeOK

LEMMA AnswerLemma ==
    ASSUME TypeOK, NEW s \in Slots, NEW stage \in {"ok", "failed"}, Answer(s, stage)
    PROVE  requests' \in [Slots -> Request] /\ callbacks' \in Seq(Slots)
<1>1. [requests[s] EXCEPT !.stage = stage] \in Request
  BY DEF TypeOK, Request, Screens, Stages
<1>2. requests' = [requests EXCEPT ![s] = [requests[s] EXCEPT !.stage = stage]]
  BY DEF Answer, TypeOK
<1> QED BY <1>1, <1>2, SeqLemma DEF Answer, TypeOK

LEMMA CallbackLemma ==
    ASSUME TypeOK, NEW ops, NEW stage, NextCallback(ops, stage)
    PROVE  Head(callbacks) \in Slots /\ callbacks' \in Seq(Slots)
  BY SeqLemma DEF NextCallback, TypeOK
------------------------------------------------------------------------------
(* What the steps of UserServices do to the invariant. *)

\* The types that the steps of the listeners rest on.
LEMMA ServiceTypes ==
    ASSUME SessionInv
    PROVE  /\ userInbox \in [DOMAIN userInbox -> Seq(SUBSET Uids)]
           /\ favInbox \in [DOMAIN favInbox -> Seq(SUBSET Products)]
           /\ DOMAIN userInbox \subseteq Registrations
           /\ DOMAIN favInbox \subseteq Registrations
           /\ user \in Uids \cup {NoUid} /\ favorites \subseteq Products
           /\ userListener \in Registrations \cup {NoReg}
           /\ favoritesListener \in Registrations \cup {NoReg}
  BY DEF SessionInv, TypeOK

LEMMA GetCurrentUserLemma ==
    ASSUME SessionInv, userListener = NoReg, ~isGuest, GetCurrentUser
    PROVE  /\ user' \in Uids \cup {NoUid} /\ favorites' \subseteq Products
           /\ userListener' \in Registrations /\ favoritesListener' \in Registrations
           /\ userListener'.uid = favoritesListener'.uid
           /\ DOMAIN userInbox' = {userListener'}
           /\ DOMAIN favInbox' = {favoritesListener'}
           /\ userInbox' \in [DOMAIN userInbox' -> Seq(SUBSET Uids)]
           /\ favInbox' \in [DOMAIN favInbox' -> Seq(SUBSET Products)]
           /\ user' = NoUid /\ favorites' = {}
<1> DEFINE userReg == NewRegistration(userInbox, currentUser)
           favReg  == NewRegistration(favInbox, currentUser)
<1>1. currentUser \in Uids
  BY DEF SessionInv, TypeOK, isGuest
<1>2. NoReg \notin Registrations
  BY SessionAssumption DEF Registrations
<1>3. DOMAIN userInbox = {} /\ DOMAIN favInbox = {}
  <2>1. DOMAIN userInbox \subseteq Registrations /\ DOMAIN favInbox \subseteq Registrations
    BY ServiceTypes
  <2>2. favoritesListener = NoReg
    BY DEF SessionInv, ListenersPaired
  <2>3. DOMAIN userInbox \subseteq {NoReg} /\ DOMAIN favInbox \subseteq {NoReg}
    BY <2>2 DEF SessionInv, NoLeakedListener
  <2> QED BY <1>2, <2>1, <2>3
<1>4. /\ userReg = [uid |-> currentUser, n |-> 0]
      /\ favReg = [uid |-> currentUser, n |-> 0]
  BY <1>3, FS_EmptySet DEF NewRegistration
<1>5. userReg \in Registrations /\ favReg \in Registrations
  BY <1>1, <1>4 DEF Registrations
<1>6. /\ userListener' = userReg /\ favoritesListener' = favReg
      /\ userInbox' = Listen(userInbox, userReg, {currentUser} \cap userDocs)
      /\ favInbox' = Listen(favInbox, favReg, favDocs[currentUser])
      /\ UNCHANGED <<user, favorites>>
  BY <1>1, SessionAssumption DEF GetCurrentUser
<1>7. /\ DOMAIN userInbox' = {userReg}
      /\ userInbox' \in [DOMAIN userInbox' -> Seq(SUBSET Uids)]
  <2>1. /\ userInbox \in [DOMAIN userInbox -> Seq(SUBSET Uids)]
        /\ {currentUser} \cap userDocs \in SUBSET Uids
    BY <1>1 DEF SessionInv, TypeOK
  <2> DEFINE listen == Listen(userInbox, userReg, {currentUser} \cap userDocs)
  <2>2. /\ DOMAIN listen = DOMAIN userInbox \cup {userReg}
        /\ listen \in [DOMAIN listen -> Seq(SUBSET Uids)]
    BY <2>1, ListenLemma
  <2> QED BY <1>3, <1>6, <2>2
<1>8. favDocs[currentUser] \in SUBSET Products
  BY <1>1 DEF SessionInv, TypeOK
<1>9. /\ DOMAIN favInbox' = {favReg}
      /\ favInbox' \in [DOMAIN favInbox' -> Seq(SUBSET Products)]
  <2>1. favInbox \in [DOMAIN favInbox -> Seq(SUBSET Products)]
    BY DEF SessionInv, TypeOK
  <2> DEFINE listen == Listen(favInbox, favReg, favDocs[currentUser])
  <2>2. /\ DOMAIN listen = DOMAIN favInbox \cup {favReg}
        /\ listen \in [DOMAIN listen -> Seq(SUBSET Products)]
    BY <1>8, <2>1, ListenLemma
  <2> QED BY <1>3, <1>6, <2>2
<1> QED
  BY <1>4, <1>5, <1>6, <1>7, <1>9
     DEF SessionInv, TypeOK, LoadedUserIsListenedTo, ListenersPaired

LEMMA LogoutLemma ==
    ASSUME SessionInv, LogoutUser
    PROVE  /\ user' = NoUid /\ favorites' = {}
           /\ userListener' = NoReg /\ favoritesListener' = NoReg
           /\ DOMAIN userInbox' = {} /\ DOMAIN favInbox' = {}
           /\ userInbox' \in [DOMAIN userInbox' -> Seq(SUBSET Uids)]
           /\ favInbox' \in [DOMAIN favInbox' -> Seq(SUBSET Products)]
<1>1. /\ userInbox \in [DOMAIN userInbox -> Seq(SUBSET Uids)]
      /\ favInbox \in [DOMAIN favInbox -> Seq(SUBSET Products)]
  BY DEF SessionInv, TypeOK
<1>2. /\ DOMAIN userInbox' = DOMAIN userInbox \ {userListener}
      /\ userInbox' \in [DOMAIN userInbox' -> Seq(SUBSET Uids)]
  BY <1>1, RemoveLemma DEF LogoutUser
<1>3. /\ DOMAIN favInbox' = DOMAIN favInbox \ {favoritesListener}
      /\ favInbox' \in [DOMAIN favInbox' -> Seq(SUBSET Products)]
  BY <1>1, RemoveLemma DEF LogoutUser
<1> QED BY <1>2, <1>3 DEF SessionInv, NoLeakedListener, LogoutUser

\* The rest of the type invariant is kept by a step of the listeners.
LEMMA UnchangedSession ==
    ASSUME SessionInv, UNCHANGED <<authVars, docVars, uiVars, history>>,
           user' \in Uids \cup {NoUid}, favorites' \subseteq Products,
           userListener' \in Registrations \cup {NoReg},
           favoritesListener' \in Registrations \cup {NoReg},
           DOMAIN userInbox' \subseteq Registrations,
           userInbox' \in [DOMAIN userInbox' -> Seq(SUBSET Uids)],
           DOMAIN favInbox' \subseteq Registrations,
           favInbox' \in [DOMAIN favInbox' -> Seq(SUBSET Products)]
    PROVE  TypeOK'
  BY DEF SessionInv, TypeOK, authVars, docVars, uiVars, history

\* The service variables are what the invariant relates: a step that leaves
\* them alone only has its types to keep.
LEMMA UnchangedServices ==
    ASSUME SessionInv, UNCHANGED serviceVars
    PROVE  /\ LoadedUserIsListenedTo' /\ NoLeakedListener' /\ ListenersPaired'
           /\ user' \in Uids \cup {NoUid} /\ favorites' \subseteq Products
           /\ userListener' \in Registrations \cup {NoReg}
           /\ favoritesListener' \in Registrations \cup {NoReg}
           /\ DOMAIN userInbox' \subseteq Registrations
           /\ userInbox' \in [DOMAIN userInbox' -> Seq(SUBSET Uids)]
           /\ DOMAIN favInbox' \subseteq Registrations
           /\ favInbox' \in [DOMAIN favInbox' -> Seq(SUBSET Products)]
  BY DEF SessionInv, TypeOK, serviceVars, LoadedUserIsListenedTo,
         NoLeakedListener, ListenersPaired
------------------------------------------------------------------------------
LEMMA InitInv == Init => SessionInv
<1> SUFFICES ASSUME Init PROVE SessionInv
  OBVIOUS
<1>1. requests \in [Slots -> Request]
  BY LaunchLemma DEF Init
<1>2. /\ DOMAIN userInbox = {} /\ DOMAIN favInbox = {}
      /\ userInbox \in [DOMAIN userInbox -> Seq(SUBSET Uids)]
      /\ favInbox \in [DOMAIN favInbox -> Seq(SUBSET Products)]
  BY DEF Init, NoInbox
<1>3. callbacks \in Seq(Slots)
  BY DEF Init
<1>4. /\ currentUser \in Uids \cup {Anonymous, NoUid} /\ accounts \subseteq Uids
      /\ userDocs \subseteq Uids /\ favDocs \in [Uids -> SUBSET Products]
  BY DEF Init
<1> QED
  BY <1>1, <1>2, <1>3, <1>4
     DEF Init, SessionInv, TypeOK, LoadedUserIsListenedTo, NoLeakedListener, ListenersPaired

\* The four callbacks of the listeners.
LEMMA ListenerStep == SessionInv /\ Listener => SessionInv'
<1> SUFFICES ASSUME SessionInv, Listener PROVE SessionInv'
  OBVIOUS
<1>0. NoReg \notin Registrations
  BY SessionAssumption DEF Registrations
<1>1. ASSUME NEW reg \in DOMAIN userInbox, UserSnapshot(reg) PROVE SessionInv'
  <2>1. /\ DOMAIN userInbox' = DOMAIN userInbox
        /\ userInbox' \in [DOMAIN userInbox' -> Seq(SUBSET Uids)]
    BY <1>1, TailLemma DEF UserSnapshot, SessionInv, TypeOK
  <2>2. reg = userListener /\ reg \in Registrations /\ userListener # NoReg
    BY <1>0, <1>1 DEF SessionInv, TypeOK, NoLeakedListener
  <2>3. user' \in {user, reg.uid} /\ reg.uid \in Uids
    BY <1>1, <2>2 DEF UserSnapshot, Registrations
  <2>4. TypeOK'
    BY <1>1, <2>1, <2>3
       DEF UserSnapshot, SessionInv, TypeOK, authVars, docVars, uiVars, history
  <2>5. LoadedUserIsListenedTo'
    BY <1>1, <2>2, <2>3 DEF UserSnapshot, SessionInv, LoadedUserIsListenedTo
  <2> QED
    BY <1>1, <2>1, <2>4, <2>5
       DEF UserSnapshot, SessionInv, NoLeakedListener, ListenersPaired
<1>2. ASSUME NEW reg \in DOMAIN favInbox, FavoritesSnapshot(reg) PROVE SessionInv'
  <2>1. /\ DOMAIN favInbox' = DOMAIN favInbox
        /\ favInbox' \in [DOMAIN favInbox' -> Seq(SUBSET Products)]
        /\ Head(favInbox[reg]) \in SUBSET Products
    BY <1>2, TailLemma DEF FavoritesSnapshot, SessionInv, TypeOK
  <2>2. favoritesListener # NoReg
    BY <1>0, <1>2 DEF SessionInv, TypeOK, NoLeakedListener
  <2>3. TypeOK'
    BY <1>2, <2>1
       DEF FavoritesSnapshot, SessionInv, TypeOK, authVars, docVars, uiVars, history
  <2> QED
    BY <1>2, <2>1, <2>2, <2>3
       DEF FavoritesSnapshot, SessionInv, LoadedUserIsListenedTo, NoLeakedListener,
           ListenersPaired
<1>3. ASSUME NEW reg \in DOMAIN userInbox, UserListenerFails(reg) PROVE SessionInv'
  <2>1. /\ DOMAIN userInbox' = DOMAIN userInbox \ {reg}
        /\ userInbox' \in [DOMAIN userInbox' -> Seq(SUBSET Uids)]
    <3>1. userInbox \in [DOMAIN userInbox -> Seq(SUBSET Uids)]
      BY ServiceTypes
    <3>2. userInbox' = Remove(userInbox, reg)
      BY <1>3 DEF UserListenerFails
    <3> QED BY <3>1, <3>2, RemoveLemma
  <2>2. UNCHANGED <<authVars, docVars, user, favorites, userListener, favoritesListener,
                    favInbox, uiVars, history>>
    BY <1>3 DEF UserListenerFails
  <2>3. TypeOK'
    BY <2>1, <2>2, ServiceTypes, UnchangedSession
  <2> QED
    BY <2>1, <2>2, <2>3
       DEF SessionInv, LoadedUserIsListenedTo, NoLeakedListener, ListenersPaired
<1>4. ASSUME NEW reg \in DOMAIN favInbox, FavoritesListenerFails(reg) PROVE SessionInv'
  <2>1. /\ DOMAIN favInbox' = DOMAIN favInbox \ {reg}
        /\ favInbox' \in [DOMAIN favInbox' -> Seq(SUBSET Products)]
    <3>1. favInbox \in [DOMAIN favInbox -> Seq(SUBSET Products)]
      BY ServiceTypes
    <3>2. favInbox' = Remove(favInbox, reg)
      BY <1>4 DEF FavoritesListenerFails
    <3> QED BY <3>1, <3>2, RemoveLemma
  <2>2. UNCHANGED <<authVars, docVars, user, favorites, userListener, favoritesListener,
                    userInbox, uiVars, history>>
    BY <1>4 DEF FavoritesListenerFails
  <2>3. TypeOK'
    BY <2>1, <2>2, ServiceTypes, UnchangedSession
  <2> QED
    BY <2>1, <2>2, <2>3
       DEF SessionInv, LoadedUserIsListenedTo, NoLeakedListener, ListenersPaired
<1> QED BY <1>1, <1>2, <1>3, <1>4 DEF Listener

\* A change of a favourites collection, with the local set it leaves behind.
LEMMA SetFavoritesLemma ==
    ASSUME SessionInv, NEW uid \in Uids, NEW content \in SUBSET Products,
           SetFavorites(uid, content)
    PROVE  /\ favDocs' \in [Uids -> SUBSET Products]
           /\ DOMAIN favInbox' = DOMAIN favInbox
           /\ favInbox' \in [DOMAIN favInbox' -> Seq(SUBSET Products)]
           /\ changes' \in Nat
<1>1. favInbox' = Publish(favInbox, uid, content)
  BY DEF SetFavorites
<1>2. favInbox \in [DOMAIN favInbox -> Seq(SUBSET Products)]
  BY DEF SessionInv, TypeOK
<1> DEFINE published == Publish(favInbox, uid, content)
<1>3. /\ DOMAIN published = DOMAIN favInbox
      /\ published \in [DOMAIN published -> Seq(SUBSET Products)]
  BY <1>2, PublishLemma
<1> QED BY <1>1, <1>3 DEF SetFavorites, SessionInv, TypeOK

LEMMA ServerStep == SessionInv /\ Server => SessionInv'
<1> SUFFICES ASSUME SessionInv, Server PROVE SessionInv'
  OBVIOUS
<1>1. ASSUME NEW s \in Slots, ServerAccepts(s) PROVE SessionInv'
  <2>1. requests' \in [Slots -> Request] /\ callbacks' \in Seq(Slots)
    BY <1>1, AnswerLemma DEF ServerAccepts, SessionInv
  <2>2. UNCHANGED serviceVars
    BY <1>1 DEF ServerAccepts
  <2>3. requests[s] \in Request
    BY DEF SessionInv, TypeOK
  <2>4. /\ currentUser' \in Uids \cup {Anonymous, NoUid}
        /\ accounts' \subseteq Uids
    <3> DEFINE r == requests[s]
    <3>1. r.op \in {"signIn", "create"} => r.uid \in Uids
      BY <2>3 DEF Request
    <3>2. CASE r.op \in {"anonLaunch", "anonLogout"}
      BY <1>1, <3>2 DEF ServerAccepts, SessionInv, TypeOK
    <3>3. CASE r.op = "signIn"
      BY <1>1, <3>1, <3>3 DEF ServerAccepts, SessionInv, TypeOK
    <3>4. CASE r.op = "create"
      BY <1>1, <3>1, <3>4 DEF ServerAccepts, SessionInv, TypeOK
    <3>5. CASE r.op = "setDoc"
      BY <1>1, <3>5 DEF ServerAccepts, SessionInv, TypeOK
    <3> QED BY <1>1, <3>2, <3>3, <3>4, <3>5 DEF ServerAccepts
  <2>5. late' \in BOOLEAN
    BY <1>1 DEF ServerAccepts, SessionInv, TypeOK
  <2> QED
    BY <1>1, <2>1, <2>2, <2>4, <2>5, UnchangedServices
       DEF ServerAccepts, SessionInv, TypeOK, docVars, uiVars
<1>2. ASSUME NEW s \in Slots, ServerRefuses(s) PROVE SessionInv'
  <2>1. requests' \in [Slots -> Request] /\ callbacks' \in Seq(Slots)
    BY <1>2, AnswerLemma DEF ServerRefuses, SessionInv
  <2>2. /\ DOMAIN userInbox' = DOMAIN userInbox
        /\ userInbox' \in [DOMAIN userInbox' -> Seq(SUBSET Uids)]
        /\ userDocs' \subseteq Uids
    <3>1. CASE requests[s].op = "setDoc"
      <4>1. userInbox' = Publish(userInbox, requests[s].uid, {})
        BY <1>2, <3>1 DEF ServerRefuses
      <4>2. userInbox \in [DOMAIN userInbox -> Seq(SUBSET Uids)]
        BY DEF SessionInv, TypeOK
      <4> DEFINE rolledBack == Publish(userInbox, requests[s].uid, {})
      <4>3. /\ DOMAIN rolledBack = DOMAIN userInbox
            /\ rolledBack \in [DOMAIN rolledBack -> Seq(SUBSET Uids)]
        <5>1. {} \in SUBSET Uids
          OBVIOUS
        <5> QED BY <4>2, <5>1, PublishLemma
      <4> QED BY <1>2, <3>1, <4>1, <4>3 DEF ServerRefuses, SessionInv, TypeOK
    <3>2. CASE requests[s].op # "setDoc"
      BY <1>2, <3>2 DEF ServerRefuses, SessionInv, TypeOK
    <3> QED BY <3>1, <3>2
  <2> QED
    BY <1>2, <2>1, <2>2
       DEF ServerRefuses, SessionInv, TypeOK, LoadedUserIsListenedTo,
           NoLeakedListener, ListenersPaired, uiVars, history
<1>3. ASSUME NEW uid \in Uids, NEW p \in Products, RemoteFavorites(uid, p)
      PROVE  SessionInv'
  <2>1. favDocs[uid] \in SUBSET Products
    BY DEF SessionInv, TypeOK
  <2>2. /\ favDocs' \in [Uids -> SUBSET Products]
        /\ DOMAIN favInbox' = DOMAIN favInbox
        /\ favInbox' \in [DOMAIN favInbox' -> Seq(SUBSET Products)]
        /\ changes' \in Nat
    BY <1>3, <2>1, SetFavoritesLemma DEF RemoteFavorites
  <2> QED
    BY <1>3, <2>2
       DEF RemoteFavorites, SessionInv, TypeOK, LoadedUserIsListenedTo,
           NoLeakedListener, ListenersPaired, authVars, uiVars
<1> QED BY <1>1, <1>2, <1>3 DEF Server

\* The process ends, or a new one starts: UserServices is as initialised.
LEMMA FreshServices ==
    ASSUME user' = NoUid, favorites' = {}, userListener' = NoReg,
           favoritesListener' = NoReg, userInbox' = NoInbox, favInbox' = NoInbox
    PROVE  /\ LoadedUserIsListenedTo' /\ NoLeakedListener' /\ ListenersPaired'
           /\ user' \in Uids \cup {NoUid} /\ favorites' \subseteq Products
           /\ userListener' \in Registrations \cup {NoReg}
           /\ favoritesListener' \in Registrations \cup {NoReg}
           /\ DOMAIN userInbox' \subseteq Registrations
           /\ userInbox' \in [DOMAIN userInbox' -> Seq(SUBSET Uids)]
           /\ DOMAIN favInbox' \subseteq Registrations
           /\ favInbox' \in [DOMAIN favInbox' -> Seq(SUBSET Products)]
<1>1. DOMAIN NoInbox = {} /\ NoInbox \in [{} -> Seq(SUBSET Uids)]
      /\ NoInbox \in [{} -> Seq(SUBSET Products)]
  BY DEF NoInbox
<1> QED
  BY <1>1 DEF LoadedUserIsListenedTo, NoLeakedListener, ListenersPaired

LEMMA FavoriteStep ==
    ASSUME SessionInv, NEW p \in Products, ProductFavorited(p)
    PROVE  SessionInv'
<1>1. CASE ~isGuest /\ user # NoUid /\ FavoritesSelected(p)
  <2>1. user \in Uids /\ favDocs[user] \in SUBSET Products
    BY <1>1 DEF SessionInv, TypeOK
  <2>2. /\ favDocs' \in [Uids -> SUBSET Products]
        /\ DOMAIN favInbox' = DOMAIN favInbox
        /\ favInbox' \in [DOMAIN favInbox' -> Seq(SUBSET Products)]
        /\ changes' \in Nat
    <3>1. favDocs[user] \ {p} \in SUBSET Products /\ favDocs[user] \cup {p} \in SUBSET Products
      BY <2>1
    <3>2. CASE SetFavorites(user, favDocs[user] \ {p})
      BY <2>1, <3>1, <3>2, SetFavoritesLemma
    <3>3. CASE SetFavorites(user, favDocs[user] \cup {p})
      BY <2>1, <3>1, <3>3, SetFavoritesLemma
    <3> QED BY <1>1, <3>2, <3>3 DEF FavoritesSelected
  <2>3. favorites' \subseteq Products
    BY <1>1 DEF FavoritesSelected, SessionInv, TypeOK
  <2>4. favoritesListener # NoReg
    BY <1>1 DEF SessionInv, LoadedUserIsListenedTo, ListenersPaired
  <2> QED
    BY <1>1, <2>2, <2>3, <2>4
       DEF FavoritesSelected, SessionInv, TypeOK, LoadedUserIsListenedTo,
           NoLeakedListener, ListenersPaired, authVars, uiVars
<1>2. CASE Die
  <2>1. /\ user' = NoUid /\ favorites' = {} /\ userListener' = NoReg
        /\ favoritesListener' = NoReg /\ userInbox' = NoInbox /\ favInbox' = NoInbox
    BY <1>2 DEF Die
  <2>2. callbacks' \in Seq(Slots)
    BY <1>2 DEF Die
  <2>3. /\ UNCHANGED <<currentUser, accounts, requests, userDocs, favDocs, late, changes>>
        /\ base' = "dead" /\ appearing' = FALSE /\ modal' = "none" /\ overlay' = "none"
    BY <1>2 DEF Die, docVars, history
  <2> QED BY <2>1, <2>2, <2>3, FreshServices DEF SessionInv, TypeOK
<1>3. CASE UNCHANGED serviceVars /\ overlay' = "alert"
           /\ UNCHANGED <<authVars, docVars, base, appearing, modal, history>>
  BY <1>3, UnchangedServices DEF SessionInv, TypeOK, authVars, docVars, history
<1> QED BY <1>1, <1>2, <1>3 DEF ProductFavorited

LEMMA HomeStep == SessionInv /\ Home => SessionInv'
<1> SUFFICES ASSUME SessionInv, Home PROVE SessionInv'
  OBVIOUS
<1>1. CASE HomeDidAppear
  <2>1. CASE ~isGuest /\ userListener = NoReg
    <3>1. GetCurrentUser
      BY <1>1, <2>1 DEF HomeDidAppear
    <3>2. NoReg \notin Registrations
      BY SessionAssumption DEF Registrations
    <3>3. TypeOK'
      BY <1>1, <2>1, <3>1, GetCurrentUserLemma
         DEF HomeDidAppear, SessionInv, TypeOK, authVars, docVars, history
    <3>4. LoadedUserIsListenedTo' /\ NoLeakedListener' /\ ListenersPaired'
      BY <2>1, <3>1, <3>2, GetCurrentUserLemma
         DEF LoadedUserIsListenedTo, NoLeakedListener, ListenersPaired
    <3> QED BY <3>3, <3>4 DEF SessionInv
  <2>2. CASE UNCHANGED serviceVars
    BY <1>1, <2>2, UnchangedServices
       DEF HomeDidAppear, SessionInv, TypeOK, authVars, docVars, history
  <2> QED BY <1>1, <2>1, <2>2 DEF HomeDidAppear
<1>2. CASE PressLogout
  <2>1. requests' \in [Slots -> Request]
    BY <1>2, SendLemma DEF PressLogout, SessionInv
  <2>2. LogoutUser
    BY <1>2 DEF PressLogout
  <2> QED
    BY <1>2, <2>1, <2>2, LogoutLemma
       DEF PressLogout, SessionInv, TypeOK, LoadedUserIsListenedTo, NoLeakedListener,
           ListenersPaired, docVars, uiVars, history
<1>3. ASSUME NEW p \in Products, ProductFavorited(p) PROVE SessionInv'
  BY <1>3, FavoriteStep
<1>4. CASE PressLogin \/ SignOutThrows \/ OpenPushed \/ FavoritesButtonRefused \/ Back
  <2>1. /\ UNCHANGED serviceVars /\ UNCHANGED <<authVars, docVars, history>>
        /\ base' \in {"home", "pushed", "dead"} /\ appearing' \in BOOLEAN
        /\ modal' \in {"none", "login", "register"} /\ overlay' \in {"none", "alert", "forgot"}
    BY <1>4 DEF PressLogin, SignOutThrows, OpenPushed, FavoritesButtonRefused, Back,
                SessionInv, TypeOK, history
  <2> QED
    BY <2>1, UnchangedServices DEF SessionInv, TypeOK, authVars, docVars, history
<1> QED BY <1>1, <1>2, <1>3, <1>4 DEF Home

LEMMA LoginFlowStep == SessionInv /\ LoginFlow => SessionInv'
<1> SUFFICES ASSUME SessionInv, LoginFlow PROVE SessionInv'
  OBVIOUS
<1>1. /\ UNCHANGED serviceVars
      /\ UNCHANGED <<currentUser, accounts, callbacks, docVars, base, history>>
      /\ appearing' \in BOOLEAN /\ modal' \in {"none", "login", "register"}
      /\ overlay' \in {"none", "alert", "forgot"}
  BY DEF LoginFlow, LoginButtonPressed, RegisterClicked, FieldsMissing,
         ForgotPasswordPressed, OverlayDismissed, CreateNewUserPressed, BackToLogin,
         ContinueGuestButtonPressed, CloseFlow, SessionInv, TypeOK, authVars, uiVars
<1>2. requests' \in [Slots -> Request]
  <2>1. ASSUME NEW uid \in Uids, LoginButtonPressed(uid) \/ RegisterClicked(uid)
        PROVE  requests' \in [Slots -> Request]
    BY <2>1, SendLemma DEF LoginButtonPressed, RegisterClicked, SessionInv
  <2>2. CASE BackToLogin \/ ContinueGuestButtonPressed
    BY <2>2, OrphanedLemma DEF BackToLogin, ContinueGuestButtonPressed, SessionInv
  <2>3. CASE UNCHANGED requests
    BY <2>3 DEF SessionInv, TypeOK
  <2> QED
    BY <2>1, <2>2, <2>3
       DEF LoginFlow, FieldsMissing, ForgotPasswordPressed, OverlayDismissed,
           CreateNewUserPressed, authVars
<1> QED
  BY <1>1, <1>2, UnchangedServices DEF SessionInv, TypeOK, docVars, history

LEMMA CallbackStep == SessionInv /\ Callback => SessionInv'
<1> SUFFICES ASSUME SessionInv, Callback PROVE SessionInv'
  OBVIOUS
<1>0. Head(callbacks) \in Slots /\ callbacks' \in Seq(Slots)
  BY CallbackLemma
     DEF Callback, SignInCompleted, CreateCompleted, RequestFailed, AnonymousAtLaunch,
         AnonymousAfterLogout, AnonymousAfterLogoutFailed, SessionInv
<1>1. CASE CreateCompleted
  <2> DEFINE s == Head(callbacks)
             uid == requests[s].uid
             written == Publish(userInbox, uid, {uid})
  <2>1. requests[s] \in Request /\ requests[s].op = "create"
    BY <1>0, <1>1 DEF CreateCompleted, NextCallback, SessionInv, TypeOK
  <2>2. /\ uid \in Uids
        /\ [requests[s] EXCEPT !.op = "setDoc", !.stage = "sent"] \in Request
    BY <2>1 DEF Request, Screens, Stages
  <2>3. requests' = [requests EXCEPT ![s] =
                       [requests[s] EXCEPT !.op = "setDoc", !.stage = "sent"]]
    BY <1>0, <1>1 DEF CreateCompleted, SessionInv, TypeOK
  <2>4. requests' \in [Slots -> Request]
    BY <2>2, <2>3 DEF SessionInv, TypeOK
  <2>5. /\ DOMAIN written = DOMAIN userInbox
        /\ written \in [DOMAIN written -> Seq(SUBSET Uids)]
    <3>1. {uid} \in SUBSET Uids /\ userInbox \in [DOMAIN userInbox -> Seq(SUBSET Uids)]
      BY <2>2 DEF SessionInv, TypeOK
    <3> QED BY <3>1, PublishLemma
  <2>6. userInbox' = written /\ userDocs' \subseteq Uids
    BY <1>1, <2>2 DEF CreateCompleted, SessionInv, TypeOK
  <2>7. UNCHANGED <<currentUser, accounts, favDocs, user, favorites, userListener,
                    favoritesListener, favInbox, base, appearing, modal, overlay, late,
                    changes>>
    BY <1>1 DEF CreateCompleted, uiVars, history
  <2>8. /\ DOMAIN userInbox' = DOMAIN userInbox
        /\ userInbox' \in [DOMAIN userInbox' -> Seq(SUBSET Uids)]
    BY <2>5, <2>6
  <2>9. TypeOK'
    <3>1. callbacks' \in Seq(Slots) /\ userDocs' \subseteq Uids
      BY <1>0, <2>6
    <3>2. DOMAIN userInbox' \subseteq Registrations
      BY <2>8, ServiceTypes
    <3>3. /\ currentUser' \in Uids \cup {Anonymous, NoUid} /\ accounts' \subseteq Uids
          /\ favDocs' \in [Uids -> SUBSET Products]
          /\ user' \in Uids \cup {NoUid} /\ favorites' \subseteq Products
          /\ userListener' \in Registrations \cup {NoReg}
          /\ favoritesListener' \in Registrations \cup {NoReg}
      BY <2>7 DEF SessionInv, TypeOK
    <3>4. /\ DOMAIN favInbox' \subseteq Registrations
          /\ favInbox' \in [DOMAIN favInbox' -> Seq(SUBSET Products)]
      BY <2>7 DEF SessionInv, TypeOK
    <3>5. /\ base' \in {"home", "pushed", "dead"} /\ appearing' \in BOOLEAN
          /\ modal' \in {"none", "login", "register"}
          /\ overlay' \in {"none", "alert", "forgot"}
          /\ late' \in BOOLEAN /\ changes' \in Nat
      BY <2>7 DEF SessionInv, TypeOK
    <3> QED BY <2>4, <2>8, <3>1, <3>2, <3>3, <3>4, <3>5 DEF TypeOK
  <2> QED
    BY <2>7, <2>8, <2>9
       DEF SessionInv, LoadedUserIsListenedTo, NoLeakedListener, ListenersPaired
<1>2. ASSUME ~CreateCompleted PROVE SessionInv'
  <2>1. /\ UNCHANGED serviceVars
        /\ UNCHANGED <<currentUser, accounts, docVars, base, history>>
    BY <1>2 DEF Callback, SignInCompleted, RequestFailed, AnonymousAtLaunch,
                AnonymousAfterLogout, AnonymousAfterLogoutFailed, PresentLogin, uiVars
  <2>2. /\ appearing' \in BOOLEAN /\ modal' \in {"none", "login", "register"}
        /\ overlay' \in {"none", "alert", "forgot"}
    BY <1>2 DEF Callback, SignInCompleted, DismissedBy, CloseFlow, RequestFailed, Alert,
                AnonymousAtLaunch, AnonymousAfterLogout, AnonymousAfterLogoutFailed,
                PresentLogin, uiVars, SessionInv, TypeOK
  <2>3. requests' \in [Slots -> Request]
    <3>1. requests \in [Slots -> Request]
      BY DEF SessionInv, TypeOK
    <3>2. Orphaned({"login", "register"}) \in [Slots -> Request]
      BY OrphanedLemma DEF SessionInv
    <3>3. requests' \in {Finished(requests), Finished(Orphaned({"login", "register"}))}
      BY <1>2 DEF Callback, SignInCompleted, DismissedBy, RequestFailed, AnonymousAtLaunch,
                  AnonymousAfterLogout, AnonymousAfterLogoutFailed
    <3> QED BY <3>1, <3>2, <3>3, FinishedLemma
  <2> QED
    BY <1>0, <2>1, <2>2, <2>3, UnchangedServices DEF SessionInv, TypeOK, docVars, history
<1> QED BY <1>1, <1>2

LEMMA RelaunchStep == SessionInv /\ Relaunch => SessionInv'
<1> SUFFICES ASSUME SessionInv, Relaunch PROVE SessionInv'
  OBVIOUS
<1>1. /\ user' = NoUid /\ favorites' = {} /\ userListener' = NoReg
      /\ favoritesListener' = NoReg /\ userInbox' = NoInbox /\ favInbox' = NoInbox
  BY DEF Relaunch
<1>2. requests' \in [Slots -> Request] /\ callbacks' \in Seq(Slots)
  BY LaunchLemma DEF Relaunch
<1>3. accounts' \subseteq Uids
  <2>1. \A t \in Slots : requests[t].op = "create" => requests[t].uid \in Uids
    BY DEF SessionInv, TypeOK, Request
  <2> QED BY <2>1 DEF Relaunch, SessionInv, TypeOK
<1>4. userDocs' \subseteq Uids
  BY DEF Relaunch, SessionInv, TypeOK
<1>5. /\ UNCHANGED <<currentUser, favDocs, changes>> /\ late' = FALSE
      /\ base' = "home" /\ appearing' = TRUE /\ modal' = "none" /\ overlay' = "none"
  BY DEF Relaunch
<1> QED
  BY <1>1, <1>2, <1>3, <1>4, <1>5, FreshServices DEF SessionInv, TypeOK

\* The invariant is inductive.
LEMMA StepInv == SessionInv /\ [Next]_vars => SessionInv'
<1> SUFFICES ASSUME SessionInv, [Next]_vars PROVE SessionInv'
  OBVIOUS
<1>1. CASE UNCHANGED vars
  BY <1>1, UnchangedServices
     DEF vars, authVars, docVars, uiVars, history, SessionInv, TypeOK
<1> QED
  BY <1>1, ListenerStep, ServerStep, HomeStep, LoginFlowStep, CallbackStep, RelaunchStep
     DEF Next

\* UserServices, its listeners and the request table keep their types, for
\* any number of users, products and outstanding requests.
THEOREM TypeCorrect == Spec => []TypeOK
<1>1. SessionInv => TypeOK
  BY DEF SessionInv
<1> QED BY <1>1, InitInv, StepInv, PTL DEF Spec

\* After logoutUser no snapshot brings a user or favourites back: what is
\* loaded belongs to the registration that UserServices holds.
THEOREM LoadedUserCorrect == Spec => []LoadedUserIsListenedTo
<1>1. SessionInv => LoadedUserIsListenedTo
  BY DEF SessionInv
<1> QED BY <1>1, InitInv, StepInv, PTL DEF Spec

\* No registration is served that UserServices has lost the handle of.
THEOREM NoLeak == Spec => []NoLeakedListener
<1>1. SessionInv => NoLeakedListener
  BY DEF SessionInv
<1> QED BY <1>1, InitInv, StepInv, PTL DEF Spec

\* The two listeners are started, held and removed together, for one user.
THEOREM Paired == Spec => []ListenersPaired
<1>1. SessionInv => ListenersPaired
  BY DEF SessionInv
<1> QED BY <1>1, InitInv, StepInv, PTL DEF Spec
------------------------------------------------------------------------------
(* The favourites. *)

\* The last snapshot on its way to the favourites listener is what the server has.
InboxInv ==
    \A reg \in DOMAIN favInbox :
        favInbox[reg] # <<>> => favInbox[reg][Len(favInbox[reg])] = favDocs[reg.uid]

FavInv == InboxInv /\ FavoritesCoverServer

\* The last element of a sequence that loses its head, or gets an element more.
LEMMA LastLemma ==
    ASSUME NEW S, NEW q \in Seq(S)
    PROVE  /\ q # <<>> /\ Tail(q) # <<>> => Tail(q)[Len(Tail(q))] = q[Len(q)]
           /\ q # <<>> /\ Tail(q) = <<>> => Head(q) = q[Len(q)]
           /\ \A e \in S : /\ Append(q, e) # <<>>
                           /\ Append(q, e)[Len(Append(q, e))] = e
<1>1. ASSUME q # <<>>
      PROVE  /\ Len(q) \in Nat \ {0} /\ Len(Tail(q)) = Len(q) - 1
             /\ \A i \in 1..(Len(q) - 1) : Tail(q)[i] = q[i + 1]
             /\ Head(q) = q[1]
  BY <1>1, HeadTailProperties, EmptySeq, LenProperties
<1>2. ASSUME q # <<>>, Tail(q) # <<>> PROVE Tail(q)[Len(Tail(q))] = q[Len(q)]
  <2>1. Tail(q) \in Seq(S)
    BY <1>2, HeadTailProperties
  <2>2. Len(Tail(q)) # 0
    BY <1>2, <2>1, EmptySeq
  <2> QED BY <1>1, <1>2, <2>2
<1>3. ASSUME q # <<>>, Tail(q) = <<>> PROVE Head(q) = q[Len(q)]
  <2>1. Len(Tail(q)) = 0
    <3>1. \A r \in Seq(S) : r = <<>> => Len(r) = 0
      BY EmptySeq
    <3>2. Tail(q) \in Seq(S)
      BY <1>3, HeadTailProperties
    <3> QED BY <1>3, <3>1, <3>2
  <2> QED BY <1>1, <1>3, <2>1
<1>4. ASSUME NEW e \in S
      PROVE  Append(q, e) # <<>> /\ Append(q, e)[Len(Append(q, e))] = e
  <2>1. Len(Append(q, e)) = Len(q) + 1 /\ Append(q, e)[Len(q) + 1] = e /\ Len(q) \in Nat
    BY AppendProperties, LenProperties
  <2> QED BY <2>1
<1> QED BY <1>2, <1>3, <1>4

LEMMA FavoritesSame ==
    ASSUME FavInv, UNCHANGED <<favInbox, favDocs, favorites>>
    PROVE  FavInv'
  BY DEF FavInv, InboxInv, FavoritesCoverServer

LEMMA NobodyListens ==
    ASSUME DOMAIN favInbox' = {}
    PROVE  FavInv'
  BY DEF FavInv, InboxInv, FavoritesCoverServer

\* Who listens to the changed collection is sent it; the others are not concerned.
LEMMA PublishedIsLast ==
    ASSUME SessionInv, FavInv, NEW uid \in Uids, NEW content \in SUBSET Products,
           SetFavorites(uid, content),
           UNCHANGED favorites \/ \A reg \in DOMAIN favInbox : reg.uid = uid
    PROVE  FavInv'
<1>1. /\ DOMAIN favInbox' = DOMAIN favInbox
      /\ \A reg \in DOMAIN favInbox :
            favInbox'[reg] = IF reg.uid = uid THEN Append(favInbox[reg], content)
                                              ELSE favInbox[reg]
  BY DEF SetFavorites, Publish
<1>2. /\ favDocs \in [Uids -> SUBSET Products]
      /\ \A reg \in DOMAIN favInbox : favInbox[reg] \in Seq(SUBSET Products) /\ reg.uid \in Uids
  BY DEF SessionInv, TypeOK, Registrations
<1>3. \A reg \in DOMAIN favInbox :
         favDocs'[reg.uid] = IF reg.uid = uid THEN content ELSE favDocs[reg.uid]
  BY <1>2 DEF SetFavorites
<1>4. ASSUME NEW reg \in DOMAIN favInbox'
      PROVE  /\ favInbox'[reg] # <<>> => favInbox'[reg][Len(favInbox'[reg])] = favDocs'[reg.uid]
             /\ favInbox'[reg] = <<>> => favDocs'[reg.uid] \subseteq favorites'
  <2>1. CASE reg.uid = uid
    <3> DEFINE q == favInbox[reg]
    <3>0. q \in Seq(SUBSET Products)
      BY <1>1, <1>2, <1>4
    <3> HIDE DEF q
    <3>1. Append(q, content) # <<>> /\ Append(q, content)[Len(Append(q, content))] = content
      BY <3>0, LastLemma
    <3> USE DEF q
    <3> QED BY <1>1, <1>3, <1>4, <2>1, <3>1
  <2>2. CASE reg.uid # uid
    BY <1>1, <1>3, <1>4, <2>2 DEF FavInv, InboxInv, FavoritesCoverServer
  <2> QED BY <2>1, <2>2
<1> QED BY <1>4 DEF FavInv, InboxInv, FavoritesCoverServer

LEMMA FavListenerStep == ASSUME SessionInv, FavInv, Listener PROVE FavInv'
<1>1. ASSUME NEW reg \in DOMAIN userInbox, UserSnapshot(reg) \/ UserListenerFails(reg)
      PROVE  FavInv'
  BY <1>1, FavoritesSame DEF UserSnapshot, UserListenerFails, docVars
<1>2. ASSUME NEW reg \in DOMAIN favInbox, FavoritesSnapshot(reg) PROVE FavInv'
  <2>1. favInbox[reg] \in Seq(SUBSET Products) /\ favInbox[reg] # <<>>
    BY <1>2 DEF SessionInv, TypeOK, FavoritesSnapshot
  <2>2. /\ favorites' = favorites \cup Head(favInbox[reg]) /\ UNCHANGED favDocs
        /\ favInbox' = [favInbox EXCEPT ![reg] = Tail(@)]
    BY <1>2 DEF FavoritesSnapshot, docVars
  <2>3. /\ Tail(favInbox[reg]) # <<>> =>
              Tail(favInbox[reg])[Len(Tail(favInbox[reg]))] = favDocs[reg.uid]
        /\ Tail(favInbox[reg]) = <<>> => Head(favInbox[reg]) = favDocs[reg.uid]
    BY <1>2, <2>1, LastLemma DEF FavInv, InboxInv
  <2>4. ASSUME NEW other \in DOMAIN favInbox'
        PROVE  /\ favInbox'[other] # <<>> =>
                     favInbox'[other][Len(favInbox'[other])] = favDocs'[other.uid]
               /\ favInbox'[other] = <<>> => favDocs'[other.uid] \subseteq favorites'
    <3>1. CASE other = reg
      BY <1>2, <2>2, <2>3, <3>1
    <3>2. CASE other # reg
      BY <2>2, <2>4, <3>2 DEF FavInv, InboxInv, FavoritesCoverServer
    <3> QED BY <3>1, <3>2
  <2> QED BY <2>4 DEF FavInv, InboxInv, FavoritesCoverServer
<1>3. ASSUME NEW reg \in DOMAIN favInbox, FavoritesListenerFails(reg) PROVE FavInv'
  <2>1. /\ DOMAIN favInbox' \subseteq DOMAIN favInbox
        /\ \A other \in DOMAIN favInbox' : favInbox'[other] = favInbox[other]
        /\ UNCHANGED <<favDocs, favorites>>
    BY <1>3 DEF FavoritesListenerFails, Remove, Restrict, docVars
  <2> QED BY <2>1 DEF FavInv, InboxInv, FavoritesCoverServer
<1> QED BY <1>1, <1>2, <1>3 DEF Listener

LEMMA FavServerStep == ASSUME SessionInv, FavInv, Server PROVE FavInv'
<1>1. ASSUME NEW s \in Slots, ServerAccepts(s) \/ ServerRefuses(s) PROVE FavInv'
  BY <1>1, FavoritesSame DEF ServerAccepts, ServerRefuses, docVars, serviceVars
<1>2. ASSUME NEW uid \in Uids, NEW p \in Products, RemoteFavorites(uid, p) PROVE FavInv'
  <2>1. favDocs[uid] \in SUBSET Products
    BY DEF SessionInv, TypeOK
  <2>2. PICK content \in SUBSET Products : SetFavorites(uid, content)
    BY <1>2, <2>1 DEF RemoteFavorites
  <2>3. UNCHANGED favorites
    BY <1>2 DEF RemoteFavorites
  <2> QED BY <2>2, <2>3, PublishedIsLast
<1> QED BY <1>1, <1>2 DEF Server

LEMMA FavHomeStep == ASSUME SessionInv, FavInv, Home PROVE FavInv'
<1>1. CASE HomeDidAppear
  <2>1. CASE ~isGuest /\ userListener = NoReg
    <3> DEFINE reg == NewRegistration(favInbox, currentUser)
    <3>1. /\ GetCurrentUser /\ UNCHANGED favDocs
          /\ currentUser # NoUid
      BY <1>1, <2>1 DEF HomeDidAppear, docVars, isGuest
    <3>2. /\ favoritesListener' = reg
          /\ favInbox' = Listen(favInbox, reg, favDocs[currentUser])
      BY <3>1 DEF GetCurrentUser
    <3>3. DOMAIN favInbox' = {favoritesListener'}
      BY <2>1, <3>1, GetCurrentUserLemma
    <3>4. reg.uid = currentUser
      BY DEF NewRegistration
    <3>5. favInbox'[reg] = <<favDocs[currentUser]>>
      BY <3>2 DEF Listen
    <3> HIDE DEF reg
    <3> QED BY <3>1, <3>2, <3>3, <3>4, <3>5 DEF FavInv, InboxInv, FavoritesCoverServer
  <2>2. CASE UNCHANGED serviceVars
    BY <1>1, <2>2, FavoritesSame DEF HomeDidAppear, docVars, serviceVars
  <2> QED BY <1>1, <2>1, <2>2 DEF HomeDidAppear
<1>2. CASE PressLogout
  BY <1>2, LogoutLemma, NobodyListens DEF PressLogout
<1>3. ASSUME NEW p \in Products, ProductFavorited(p) PROVE FavInv'
  <2>1. CASE user # NoUid /\ FavoritesSelected(p)
    <3>1. user \in Uids /\ favDocs[user] \in SUBSET Products
      BY <2>1 DEF SessionInv, TypeOK
    <3>2. PICK content \in SUBSET Products : SetFavorites(user, content)
      BY <2>1, <3>1 DEF FavoritesSelected
    <3>3. \A reg \in DOMAIN favInbox : reg.uid = user
      BY <2>1 DEF SessionInv, LoadedUserIsListenedTo, NoLeakedListener, ListenersPaired
    <3> QED BY <3>1, <3>2, <3>3, PublishedIsLast
  <2>2. CASE Die
    BY <2>2, NobodyListens DEF Die, NoInbox
  <2>3. CASE UNCHANGED <<docVars, serviceVars>>
    BY <2>3, FavoritesSame DEF docVars, serviceVars
  <2> QED BY <1>3, <2>1, <2>2, <2>3 DEF ProductFavorited
<1>4. CASE PressLogin \/ SignOutThrows \/ OpenPushed \/ FavoritesButtonRefused \/ Back
  BY <1>4, FavoritesSame
     DEF PressLogin, SignOutThrows, OpenPushed, FavoritesButtonRefused, Back, docVars, serviceVars
<1> QED BY <1>1, <1>2, <1>3, <1>4 DEF Home

LEMMA FavStep == ASSUME SessionInv, FavInv, [Next]_vars PROVE FavInv'
<1>1. CASE UNCHANGED vars
  BY <1>1, FavoritesSame DEF vars, docVars, serviceVars
<1>2. CASE LoginFlow
  BY <1>2, FavoritesSame
     DEF LoginFlow, LoginButtonPressed, RegisterClicked, FieldsMissing, ForgotPasswordPressed,
         OverlayDismissed, CreateNewUserPressed, BackToLogin, ContinueGuestButtonPressed,
         docVars, serviceVars
<1>3. CASE Callback
  BY <1>3, FavoritesSame
     DEF Callback, SignInCompleted, CreateCompleted, RequestFailed, AnonymousAtLaunch,
         AnonymousAfterLogout, AnonymousAfterLogoutFailed, docVars, serviceVars
<1>4. CASE Relaunch
  BY <1>4, NobodyListens DEF Relaunch, NoInbox
<1> QED BY <1>1, <1>2, <1>3, <1>4, FavListenerStep, FavServerStep, FavHomeStep DEF Next

LEMMA FavInitially == Init => FavInv
  BY DEF Init, NoInbox, FavInv, InboxInv, FavoritesCoverServer

\* Once every snapshot of the favourites has been delivered, no favourite of the
\* user is missing in UserServices, whatever order taps, changes from elsewhere,
\* logouts and snapshots came in.
THEOREM FavoritesCovered == Spec => []FavoritesCoverServer
<1>1. FavInv => FavoritesCoverServer
  BY DEF FavInv
<1> QED BY <1>1, InitInv, StepInv, FavInitially, FavStep, PTL DEF Spec
------------------------------------------------------------------------------
(* Whose session it is. *)

IsWaiting(r) == r.op \in {"anonLaunch", "anonLogout"} /\ r.stage # "ok"
IsAnswered(r) == r.op \in {"anonLaunch", "anonLogout"} /\ r.stage = "ok"
IsLogin(r) == r.op \in {"signIn", "create"} /\ r.stage = "sent" /\ r.ui # "none"

\* Nothing is presented while home appears, and the login flow is for guests.
FlowForGuests ==
    /\ appearing => modal = "none"
    /\ modal # "none" => userListener = NoReg

\* An anonymous sign-in is asked for once, when nobody is signed in and nothing is
\* presented, and that stays so until it is accepted or its failure is handled; when
\* it has been accepted nobody else has been, and no login was sent.
AnonymousWaits ==
    /\ \A s \in Slots : IsWaiting(requests[s]) => currentUser = NoUid /\ modal = "none"
    /\ \A s, t \in Slots : IsWaiting(requests[s]) /\ IsWaiting(requests[t]) => s = t
AnonymousAnswered ==
    /\ \A s \in Slots : IsAnswered(requests[s]) => currentUser = Anonymous
    /\ \A s, t \in Slots : IsLogin(requests[s]) => ~IsAnswered(requests[t])

\* The requests of a login screen are of one that is open.
FromOpenScreens ==
    \A s \in Slots : requests[s].op \in {"signIn", "create", "setDoc"} =>
        /\ requests[s].ui \in {"none", "login", "register"}
        /\ requests[s].ui = "login" => modal # "none"
        /\ requests[s].ui = "register" => modal = "register"

\* An answer that is not handled yet waits on the main queue.
AnswersQueued ==
    \A s \in Slots : requests[s].stage # "sent" =>
        \E i \in 1..Len(callbacks) : callbacks[i] = s

FlowInv ==
    ~late /\ base # "dead" =>
        FlowForGuests /\ AnonymousWaits /\ AnonymousAnswered /\ FromOpenScreens /\ AnswersQueued

WhoseInv == SessionInv /\ FlowInv /\ SessionIsCurrentUser

\* Neither of the two that are no registered users has a listener.
LEMMA ListenerIsOfUser ==
    ASSUME WhoseInv, ~late, currentUser \in {Anonymous, NoUid}
    PROVE  userListener = NoReg
<1>1. userListener # NoReg => userListener.uid \in Uids
  BY DEF WhoseInv, SessionInv, TypeOK, Registrations
<1> QED BY <1>1, SessionAssumption DEF WhoseInv, SessionIsCurrentUser

LEMMA FlowSame ==
    ASSUME WhoseInv, UNCHANGED <<requests, callbacks, currentUser, userListener, modal, late>>,
           base' # "dead" => base # "dead",
           appearing' => appearing \/ modal = "none"
    PROVE  FlowInv' /\ SessionIsCurrentUser'
<1>1. SessionIsCurrentUser'
  BY DEF WhoseInv, SessionIsCurrentUser
<1>2. ASSUME ~late', base' # "dead" PROVE FlowForGuests'
  BY <1>2 DEF WhoseInv, FlowInv, FlowForGuests
<1>3. ASSUME ~late', base' # "dead"
      PROVE  AnonymousWaits' /\ AnonymousAnswered' /\ FromOpenScreens' /\ AnswersQueued'
  BY <1>3 DEF WhoseInv, FlowInv, AnonymousWaits, AnonymousAnswered, FromOpenScreens,
              AnswersQueued, IsWaiting, IsAnswered, IsLogin
<1> QED BY <1>1, <1>2, <1>3 DEF FlowInv

\* A request in a free slot.
LEMMA SendFacts ==
    ASSUME WhoseInv, NEW op, NEW uid, NEW ui, Send(op, uid, ui)
    PROVE  \E s \in Slots :
               /\ requests'[s] = [op |-> op, uid |-> uid, ui |-> ui, stage |-> "sent"]
               /\ \A t \in Slots \ {s} : requests'[t] = requests[t]
  BY DEF Send, WhoseInv, SessionInv, TypeOK

LEMMA OrphanedFacts ==
    ASSUME WhoseInv, NEW gone, NEW s \in Slots
    PROVE  /\ Orphaned(gone)[s].op = requests[s].op
           /\ Orphaned(gone)[s].stage = requests[s].stage
           /\ Orphaned(gone)[s].ui = IF requests[s].ui \in gone THEN "none" ELSE requests[s].ui
<1>1. requests[s] \in Request
  BY DEF WhoseInv, SessionInv, TypeOK
<1>2. /\ [requests[s] EXCEPT !.ui = "none"].op = requests[s].op
      /\ [requests[s] EXCEPT !.ui = "none"].stage = requests[s].stage
      /\ [requests[s] EXCEPT !.ui = "none"].ui = "none"
  BY <1>1 DEF Request
<1> QED BY <1>2 DEF Orphaned

LEMMA FinishedFacts ==
    ASSUME NEW rs \in [Slots -> Request], NEW s \in Slots
    PROVE  /\ s # Head(callbacks) => Finished(rs)[s] = rs[s]
           /\ s = Head(callbacks) => Finished(rs)[s] = Idle
  BY DEF Finished

\* The block that ran had no request left to answer.
LEMMA CallbackQueued ==
    ASSUME WhoseInv, NEW ops, NEW stage, NextCallback(ops, stage), AnswersQueued,
           requests'[Head(callbacks)].stage = "sent",
           \A s \in Slots \ {Head(callbacks)} : requests'[s].stage = requests[s].stage
    PROVE  AnswersQueued'
<1>1. /\ callbacks \in Seq(Slots) /\ callbacks # <<>> /\ callbacks' = Tail(callbacks)
  BY DEF WhoseInv, SessionInv, TypeOK, NextCallback
<1>2. /\ Len(callbacks) \in Nat \ {0} /\ Len(Tail(callbacks)) = Len(callbacks) - 1
      /\ \A i \in 1..(Len(callbacks) - 1) : Tail(callbacks)[i] = callbacks[i + 1]
      /\ Head(callbacks) = callbacks[1]
  BY <1>1, HeadTailProperties, EmptySeq, LenProperties
<1>3. ASSUME NEW s \in Slots, requests'[s].stage # "sent"
      PROVE  \E i \in 1..Len(callbacks') : callbacks'[i] = s
  <2>1. s # Head(callbacks) /\ requests[s].stage # "sent"
    BY <1>3
  <2>2. PICK i \in 1..Len(callbacks) : callbacks[i] = s
    BY <2>1 DEF AnswersQueued
  <2>3. i - 1 \in 1..(Len(callbacks) - 1) /\ i - 1 + 1 = i
    BY <1>2, <2>1, <2>2
  <2>4. Tail(callbacks)[i - 1] = s
    BY <1>2, <2>2, <2>3
  <2> QED BY <1>1, <1>2, <2>3, <2>4
<1> QED BY <1>3 DEF AnswersQueued

\* A request that is answered joins the queue.
LEMMA AnswerQueued ==
    ASSUME WhoseInv, NEW s \in Slots, NEW stage, Answer(s, stage), AnswersQueued
    PROVE  /\ AnswersQueued'
           /\ \A t \in Slots : /\ requests'[t].op = requests[t].op
                               /\ requests'[t].ui = requests[t].ui
                               /\ requests'[t].stage = IF t = s THEN stage ELSE requests[t].stage
<1>1. callbacks \in Seq(Slots) /\ callbacks' = Append(callbacks, s)
  BY DEF WhoseInv, SessionInv, TypeOK, Answer
<1>2. /\ Len(callbacks') = Len(callbacks) + 1 /\ Len(callbacks) \in Nat
      /\ callbacks'[Len(callbacks) + 1] = s
      /\ \A i \in 1..Len(callbacks) : callbacks'[i] = callbacks[i]
  BY <1>1, AppendProperties, LenProperties
<1>3. requests[s] \in Request /\ requests \in [Slots -> Request]
  BY DEF WhoseInv, SessionInv, TypeOK
<1>4. requests' = [requests EXCEPT ![s] = [requests[s] EXCEPT !.stage = stage]]
  BY <1>3 DEF Answer
<1>5. /\ [requests[s] EXCEPT !.stage = stage].op = requests[s].op
      /\ [requests[s] EXCEPT !.stage = stage].ui = requests[s].ui
      /\ [requests[s] EXCEPT !.stage = stage].stage = stage
  BY <1>3 DEF Request
<1>6. \A t \in Slots : /\ requests'[t].op = requests[t].op
                       /\ requests'[t].ui = requests[t].ui
                       /\ requests'[t].stage = IF t = s THEN stage ELSE requests[t].stage
  BY <1>3, <1>4, <1>5
<1>7. ASSUME NEW t \in Slots, requests'[t].stage # "sent"
      PROVE  \E i \in 1..Len(callbacks') : callbacks'[i] = t
  <2>1. CASE t = s
    BY <1>2, <2>1
  <2>2. CASE t # s
    <3>1. PICK i \in 1..Len(callbacks) : callbacks[i] = t
      BY <1>6, <1>7, <2>2 DEF AnswersQueued
    <3> QED BY <1>2, <3>1
  <2> QED BY <2>1, <2>2
<1> QED BY <1>6, <1>7 DEF AnswersQueued
------------------------------------------------------------------------------
\* The premises of FlowInv hold before every step but a relaunch they hold after.
LEMMA FlowBefore ==
    ASSUME WhoseInv, ~late', base' # "dead", late => late', base' # "dead" => base # "dead"
    PROVE  /\ ~late /\ base # "dead"
           /\ FlowForGuests /\ AnonymousWaits /\ AnonymousAnswered /\ FromOpenScreens /\ AnswersQueued
  BY DEF WhoseInv, FlowInv

LEMMA FlowListenerStep == ASSUME WhoseInv, Listener PROVE FlowInv' /\ SessionIsCurrentUser'
<1>1. UNCHANGED <<requests, callbacks, currentUser, userListener, modal, late, base, appearing>>
  BY DEF Listener, UserSnapshot, UserListenerFails, FavoritesSnapshot, FavoritesListenerFails,
         authVars, uiVars, history
<1> QED BY <1>1, FlowSame

\* Auth switches its user to the one whose request it accepts.
LEMMA AcceptsStep ==
    ASSUME WhoseInv, NEW s \in Slots, ServerAccepts(s)
    PROVE  FlowInv' /\ SessionIsCurrentUser'
<1> DEFINE r == requests[s]
<1>1. /\ base # "dead" /\ r.stage = "sent" /\ Answer(s, "ok")
      /\ UNCHANGED <<userListener, base, appearing, modal>>
      /\ late' = (late \/ (r.op \in {"signIn", "create"} /\ r.ui = "none"))
  BY DEF ServerAccepts, serviceVars, uiVars
<1>2. late => late'
  BY <1>1
<1>3. SUFFICES ASSUME ~late'
               PROVE  /\ FlowForGuests' /\ AnonymousWaits' /\ AnonymousAnswered'
                      /\ FromOpenScreens' /\ AnswersQueued' /\ SessionIsCurrentUser'
  BY DEF FlowInv, SessionIsCurrentUser
<1>4. /\ ~late /\ base # "dead" /\ base' # "dead"
      /\ FlowForGuests /\ AnonymousWaits /\ AnonymousAnswered /\ FromOpenScreens /\ AnswersQueued
  BY <1>1, <1>2, <1>3, FlowBefore
<1>5. /\ AnswersQueued'
      /\ \A t \in Slots : /\ requests'[t].op = requests[t].op
                          /\ requests'[t].ui = requests[t].ui
                          /\ requests'[t].stage = IF t = s THEN "ok" ELSE requests[t].stage
  BY <1>1, <1>4, AnswerQueued
<1>6. FlowForGuests'
  BY <1>1, <1>4 DEF FlowForGuests
<1>7. FromOpenScreens'
  BY <1>1, <1>4, <1>5 DEF FromOpenScreens
<1>8. \A t \in Slots : /\ IsWaiting(requests'[t]) => IsWaiting(requests[t]) /\ t # s
                       /\ IsLogin(requests'[t]) => IsLogin(requests[t])
                       /\ IsAnswered(requests'[t]) => IsAnswered(requests[t]) \/ t = s
  BY <1>5 DEF IsWaiting, IsLogin, IsAnswered
<1>9. CASE r.op \in {"anonLaunch", "anonLogout"}
  <2>1. currentUser = NoUid /\ modal = "none" /\ IsWaiting(r)
    BY <1>1, <1>4, <1>9 DEF AnonymousWaits, IsWaiting
  <2>2. userListener = NoReg
    BY <1>4, <2>1, ListenerIsOfUser
  <2>3. \A t \in Slots : ~IsWaiting(requests'[t])
    BY <1>4, <1>8, <2>1 DEF AnonymousWaits
  <2>4. \A t \in Slots : ~IsLogin(requests'[t])
    BY <1>4, <1>8, <2>1 DEF IsLogin, FromOpenScreens
  <2>5. currentUser' = Anonymous
    BY <1>9 DEF ServerAccepts
  <2> QED
    BY <1>1, <1>5, <1>6, <1>7, <2>2, <2>3, <2>4, <2>5
       DEF AnonymousWaits, AnonymousAnswered, SessionIsCurrentUser
<1>10. CASE r.op \in {"signIn", "create"}
  <2>1. r.ui # "none" /\ IsLogin(r)
    BY <1>1, <1>3, <1>10 DEF IsLogin
  <2>2. modal # "none" /\ userListener = NoReg
    BY <1>4, <1>10, <2>1 DEF FromOpenScreens, FlowForGuests
  <2>3. \A t \in Slots : ~IsWaiting(requests'[t])
    BY <1>4, <1>8, <2>2 DEF AnonymousWaits
  <2>4. \A t \in Slots : ~IsAnswered(requests'[t])
    BY <1>4, <1>5, <1>8, <1>10, <2>1 DEF AnonymousAnswered, IsAnswered
  <2> QED
    BY <1>1, <1>5, <1>6, <1>7, <2>2, <2>3, <2>4
       DEF AnonymousWaits, AnonymousAnswered, SessionIsCurrentUser
<1>11. CASE r.op = "setDoc"
  <2>1. UNCHANGED currentUser
    BY <1>11 DEF ServerAccepts
  <2>2. \A t \in Slots : IsAnswered(requests'[t]) => IsAnswered(requests[t])
    BY <1>5, <1>8, <1>11 DEF IsAnswered
  <2> QED
    BY <1>1, <1>4, <1>5, <1>6, <1>7, <1>8, <2>1, <2>2
       DEF AnonymousWaits, AnonymousAnswered, SessionIsCurrentUser, WhoseInv
<1> QED BY <1>9, <1>10, <1>11 DEF ServerAccepts

LEMMA RefusesStep ==
    ASSUME WhoseInv, NEW s \in Slots, ServerRefuses(s)
    PROVE  FlowInv' /\ SessionIsCurrentUser'
<1>1. /\ base # "dead" /\ requests[s].stage = "sent" /\ Answer(s, "failed")
      /\ UNCHANGED <<currentUser, userListener, base, appearing, modal, late>>
  BY DEF ServerRefuses, uiVars, history
<1>2. SessionIsCurrentUser'
  BY <1>1 DEF WhoseInv, SessionIsCurrentUser
<1>3. SUFFICES ASSUME ~late'
               PROVE  /\ FlowForGuests' /\ AnonymousWaits' /\ AnonymousAnswered'
                      /\ FromOpenScreens' /\ AnswersQueued'
  BY <1>2 DEF FlowInv
<1>4. /\ FlowForGuests /\ AnonymousWaits /\ AnonymousAnswered /\ FromOpenScreens /\ AnswersQueued
  BY <1>1, <1>3, FlowBefore
<1>5. /\ AnswersQueued'
      /\ \A t \in Slots : /\ requests'[t].op = requests[t].op
                          /\ requests'[t].ui = requests[t].ui
                          /\ requests'[t].stage = IF t = s THEN "failed" ELSE requests[t].stage
  BY <1>1, <1>4, AnswerQueued
<1>6. \A t \in Slots : /\ IsWaiting(requests'[t]) => IsWaiting(requests[t])
                       /\ IsLogin(requests'[t]) => IsLogin(requests[t])
                       /\ IsAnswered(requests'[t]) => IsAnswered(requests[t])
  BY <1>1, <1>5 DEF IsWaiting, IsLogin, IsAnswered
<1>7. FlowForGuests' /\ FromOpenScreens'
  BY <1>1, <1>4, <1>5 DEF FlowForGuests, FromOpenScreens
<1>8. AnonymousWaits' /\ AnonymousAnswered'
  BY <1>1, <1>4, <1>6 DEF AnonymousWaits, AnonymousAnswered
<1> QED BY <1>5, <1>7, <1>8

LEMMA FlowServerStep == ASSUME WhoseInv, Server PROVE FlowInv' /\ SessionIsCurrentUser'
<1>1. ASSUME NEW uid \in Uids, NEW p \in Products, RemoteFavorites(uid, p)
      PROVE  FlowInv' /\ SessionIsCurrentUser'
  BY <1>1, FlowSame DEF RemoteFavorites, authVars, uiVars
<1> QED BY <1>1, AcceptsStep, RefusesStep DEF Server

\* Signing out ends with one anonymous request, as nobody was waiting for another.
LEMMA PressLogoutStep == ASSUME WhoseInv, PressLogout PROVE FlowInv' /\ SessionIsCurrentUser'
<1>1. /\ base = "home" /\ modal = "none" /\ ~appearing
      /\ currentUser \notin {NoUid, Anonymous} /\ currentUser' = NoUid
      /\ UNCHANGED <<callbacks, base, appearing, modal, late>>
  BY DEF PressLogout, AtHome, Touchable, isGuest, uiVars, history
<1>2. userListener' = NoReg
  BY DEF PressLogout, LogoutUser
<1>3. PICK s \in Slots :
         /\ requests'[s] = [op |-> "anonLogout", uid |-> NoUid, ui |-> "home", stage |-> "sent"]
         /\ \A t \in Slots \ {s} : requests'[t] = requests[t]
  BY SendFacts DEF PressLogout
<1>4. SUFFICES ASSUME ~late'
               PROVE  /\ FlowForGuests' /\ AnonymousWaits' /\ AnonymousAnswered'
                      /\ FromOpenScreens' /\ AnswersQueued'
  BY <1>2 DEF FlowInv, SessionIsCurrentUser
<1>5. /\ AnonymousWaits /\ AnonymousAnswered /\ FromOpenScreens /\ AnswersQueued
  BY <1>1, <1>4, FlowBefore
<1>6. \A t \in Slots : ~IsWaiting(requests[t]) /\ ~IsAnswered(requests[t])
  BY <1>1, <1>5 DEF AnonymousWaits, AnonymousAnswered
<1>7. \A t \in Slots : ~IsAnswered(requests'[t]) /\ (IsWaiting(requests'[t]) => t = s)
  BY <1>3, <1>6 DEF IsAnswered, IsWaiting
<1>8. FlowForGuests' /\ AnonymousWaits' /\ AnonymousAnswered'
  BY <1>1, <1>7 DEF FlowForGuests, AnonymousWaits, AnonymousAnswered
<1>9. FromOpenScreens' /\ AnswersQueued'
  BY <1>1, <1>3, <1>5 DEF FromOpenScreens, AnswersQueued
<1> QED BY <1>8, <1>9

LEMMA FlowHomeStep == ASSUME WhoseInv, Home PROVE FlowInv' /\ SessionIsCurrentUser'
<1>1. CASE HomeDidAppear
  <2>1. /\ base = "home" /\ appearing /\ ~appearing'
        /\ UNCHANGED <<requests, callbacks, currentUser, base, modal, late>>
    BY <1>1 DEF HomeDidAppear, authVars, history
  <2>2. CASE UNCHANGED userListener
    BY <2>1, <2>2, FlowSame
  <2>3. CASE GetCurrentUser /\ ~isGuest
    <3>1. userListener'.uid = currentUser
      BY <2>3 DEF GetCurrentUser, isGuest, NewRegistration
    <3>2. ~late' => modal = "none" /\ AnonymousWaits /\ AnonymousAnswered /\ FromOpenScreens
                    /\ AnswersQueued
      BY <2>1, FlowBefore DEF FlowForGuests
    <3>3. ~late' => AnonymousWaits' /\ AnonymousAnswered' /\ FromOpenScreens' /\ AnswersQueued'
      BY <2>1, <3>2 DEF AnonymousWaits, AnonymousAnswered, FromOpenScreens, AnswersQueued
    <3>4. ~late' => FlowForGuests'
      BY <2>1, <3>2 DEF FlowForGuests
    <3> QED BY <2>1, <3>1, <3>3, <3>4 DEF FlowInv, SessionIsCurrentUser
  <2> QED BY <1>1, <2>2, <2>3 DEF HomeDidAppear, serviceVars
<1>2. CASE PressLogout
  BY <1>2, PressLogoutStep
<1>3. CASE PressLogin
  <2>1. /\ base = "home" /\ modal = "none" /\ ~appearing /\ modal' = "login"
        /\ currentUser = Anonymous
        /\ UNCHANGED <<requests, callbacks, currentUser, userListener, base, appearing, late>>
    BY <1>3 DEF PressLogin, AtHome, Touchable, authVars, serviceVars, history
  <2>2. ASSUME ~late'
        PROVE  /\ FlowForGuests' /\ AnonymousWaits' /\ AnonymousAnswered'
               /\ FromOpenScreens' /\ AnswersQueued'
    <3>1. AnonymousWaits /\ AnonymousAnswered /\ FromOpenScreens /\ AnswersQueued
      BY <2>1, <2>2, FlowBefore
    <3>2. FlowForGuests'
      BY <2>1, <2>2, ListenerIsOfUser DEF FlowForGuests
    <3>3. AnonymousWaits'
      BY <2>1, <3>1, SessionAssumption DEF AnonymousWaits
    <3>4. AnonymousAnswered' /\ FromOpenScreens' /\ AnswersQueued'
      BY <2>1, <3>1 DEF AnonymousAnswered, FromOpenScreens, AnswersQueued
    <3> QED BY <3>2, <3>3, <3>4
  <2>3. SessionIsCurrentUser'
    BY <2>1 DEF WhoseInv, SessionIsCurrentUser
  <2> QED BY <2>2, <2>3 DEF FlowInv
<1>4. ASSUME NEW p \in Products, ProductFavorited(p) PROVE FlowInv' /\ SessionIsCurrentUser'
  <2>1. CASE Die
    BY <2>1 DEF Die, FlowInv, SessionIsCurrentUser
  <2>2. CASE UNCHANGED <<requests, callbacks, currentUser, userListener, base, appearing, modal, late>>
    BY <2>2, FlowSame
  <2> QED
    BY <1>4, <2>1, <2>2
       DEF ProductFavorited, FavoritesSelected, authVars, serviceVars, uiVars, history
<1>5. CASE SignOutThrows \/ OpenPushed \/ FavoritesButtonRefused \/ Back
  <2>1. /\ base # "dead" /\ (appearing' => modal = "none")
        /\ UNCHANGED <<requests, callbacks, currentUser, userListener, modal, late>>
    BY <1>5 DEF SignOutThrows, OpenPushed, FavoritesButtonRefused, Back, AtHome, AtPushed,
                Touchable, authVars, serviceVars, history
  <2> QED BY <2>1, FlowSame
<1> QED BY <1>1, <1>2, <1>3, <1>4, <1>5 DEF Home

\* A login is sent when the main queue has been drained: no answer of an anonymous
\* sign-in is left that could still open a login flow over what comes of it.
LEMMA SendLoginStep ==
    ASSUME WhoseInv, NEW op \in {"signIn", "create"}, NEW uid, NEW ui \in {"login", "register"},
           At(ui), Send(op, uid, ui),
           UNCHANGED <<currentUser, callbacks, serviceVars, uiVars, history>>
    PROVE  FlowInv' /\ SessionIsCurrentUser'
<1>1. /\ modal = ui /\ callbacks = <<>>
      /\ UNCHANGED <<currentUser, callbacks, userListener, base, appearing, modal, late>>
  BY DEF At, Drained, serviceVars, uiVars, history
<1>2. PICK s \in Slots :
         /\ requests'[s] = [op |-> op, uid |-> uid, ui |-> ui, stage |-> "sent"]
         /\ \A t \in Slots \ {s} : requests'[t] = requests[t]
  BY SendFacts
<1>3. SessionIsCurrentUser'
  BY <1>1 DEF WhoseInv, SessionIsCurrentUser
<1>4. SUFFICES ASSUME ~late', base' # "dead"
               PROVE  /\ FlowForGuests' /\ AnonymousWaits' /\ AnonymousAnswered'
                      /\ FromOpenScreens' /\ AnswersQueued'
  BY <1>3 DEF FlowInv
<1>5. /\ FlowForGuests /\ AnonymousWaits /\ FromOpenScreens /\ AnswersQueued
  BY <1>1, <1>4, FlowBefore
<1>6. \A t \in Slots : requests[t].stage = "sent"
  <2>1. 1..Len(callbacks) = {}
    BY <1>1, EmptySeq
  <2> QED BY <1>5, <2>1 DEF AnswersQueued
<1>7. \A t \in Slots : ~IsAnswered(requests'[t])
  BY <1>2, <1>6 DEF IsAnswered
<1>8. \A t \in Slots : IsWaiting(requests'[t]) => IsWaiting(requests[t]) /\ t # s
  BY <1>2 DEF IsWaiting
<1>9. FlowForGuests' /\ AnonymousWaits' /\ AnonymousAnswered'
  BY <1>1, <1>5, <1>7, <1>8 DEF FlowForGuests, AnonymousWaits, AnonymousAnswered
<1>10. FromOpenScreens' /\ AnswersQueued'
  BY <1>1, <1>2, <1>5, <1>6 DEF FromOpenScreens, AnswersQueued
<1> QED BY <1>9, <1>10

\* A screen of the login flow closes, and leaves its requests without a screen.
LEMMA CloseScreenStep ==
    ASSUME WhoseInv, NEW gone, requests' = Orphaned(gone), modal # "none",
           \/ gone = {"register"} /\ modal' = "login" /\ UNCHANGED appearing
           \/ gone = {"login"} /\ modal = "login" /\ modal' = "none",
           UNCHANGED <<currentUser, callbacks, userListener, base, late>>
    PROVE  FlowInv' /\ SessionIsCurrentUser'
<1>1. SessionIsCurrentUser'
  BY DEF WhoseInv, SessionIsCurrentUser
<1>2. SUFFICES ASSUME ~late', base' # "dead"
               PROVE  /\ FlowForGuests' /\ AnonymousWaits' /\ AnonymousAnswered'
                      /\ FromOpenScreens' /\ AnswersQueued'
  BY <1>1 DEF FlowInv
<1>3. /\ FlowForGuests /\ AnonymousWaits /\ AnonymousAnswered /\ FromOpenScreens /\ AnswersQueued
  BY <1>2, FlowBefore
<1>4. \A t \in Slots :
         /\ requests'[t].op = requests[t].op /\ requests'[t].stage = requests[t].stage
         /\ requests'[t].ui = IF requests[t].ui \in gone THEN "none" ELSE requests[t].ui
  BY OrphanedFacts
<1>5. \A t \in Slots : /\ IsWaiting(requests'[t]) => IsWaiting(requests[t])
                       /\ IsAnswered(requests'[t]) => IsAnswered(requests[t])
                       /\ IsLogin(requests'[t]) => IsLogin(requests[t])
  BY <1>4 DEF IsWaiting, IsAnswered, IsLogin
<1>6. FlowForGuests' /\ AnonymousWaits' /\ AnonymousAnswered'
  BY <1>3, <1>5 DEF FlowForGuests, AnonymousWaits, AnonymousAnswered
<1>7. FromOpenScreens'
  BY <1>3, <1>4 DEF FromOpenScreens
<1>8. AnswersQueued'
  BY <1>3, <1>4 DEF AnswersQueued
<1> QED BY <1>6, <1>7, <1>8

LEMMA FlowLoginFlowStep == ASSUME WhoseInv, LoginFlow PROVE FlowInv' /\ SessionIsCurrentUser'
<1>1. ASSUME NEW uid \in Uids, LoginButtonPressed(uid) PROVE FlowInv' /\ SessionIsCurrentUser'
  BY <1>1, SendLoginStep DEF LoginButtonPressed
<1>2. ASSUME NEW uid \in Uids, RegisterClicked(uid) PROVE FlowInv' /\ SessionIsCurrentUser'
  BY <1>2, SendLoginStep DEF RegisterClicked
<1>3. CASE FieldsMissing \/ ForgotPasswordPressed \/ OverlayDismissed
  BY <1>3, FlowSame
     DEF FieldsMissing, ForgotPasswordPressed, OverlayDismissed, authVars, serviceVars, history
<1>4. CASE CreateNewUserPressed
  <2>1. /\ modal = "login" /\ modal' = "register"
        /\ UNCHANGED <<requests, callbacks, currentUser, userListener, base, appearing, late>>
    BY <1>4 DEF CreateNewUserPressed, At, authVars, serviceVars, history
  <2>2. ASSUME ~late', base' # "dead"
        PROVE  /\ FlowForGuests' /\ AnonymousWaits' /\ AnonymousAnswered'
               /\ FromOpenScreens' /\ AnswersQueued'
    <3>1. /\ FlowForGuests /\ AnonymousWaits /\ AnonymousAnswered /\ FromOpenScreens
          /\ AnswersQueued
      BY <2>1, <2>2, FlowBefore
    <3>2. FlowForGuests' /\ AnonymousWaits'
      BY <2>1, <3>1 DEF FlowForGuests, AnonymousWaits
    <3>3. AnonymousAnswered' /\ FromOpenScreens' /\ AnswersQueued'
      BY <2>1, <3>1 DEF AnonymousAnswered, FromOpenScreens, AnswersQueued
    <3> QED BY <3>2, <3>3
  <2>3. SessionIsCurrentUser'
    BY <2>1 DEF WhoseInv, SessionIsCurrentUser
  <2> QED BY <2>2, <2>3 DEF FlowInv
<1>5. CASE BackToLogin
  BY <1>5, CloseScreenStep DEF BackToLogin, At, serviceVars, history
<1>6. CASE ContinueGuestButtonPressed
  BY <1>6, CloseScreenStep DEF ContinueGuestButtonPressed, At, CloseFlow, serviceVars, history
<1> QED BY <1>1, <1>2, <1>3, <1>4, <1>5, <1>6 DEF LoginFlow

\* A completion block has run: its request is gone, or now writes a document, and
\* the login flow may have closed, its requests being left without a screen.
LEMMA BlockStep ==
    ASSUME WhoseInv, NEW ops, NEW stage, NextCallback(ops, stage),
           UNCHANGED <<currentUser, userListener, base, late>>,
           \/ UNCHANGED <<modal, appearing>>
           \/ modal' = "none" /\ \A t \in Slots : requests'[t].ui \notin {"login", "register"}
           \/ /\ currentUser = Anonymous \/ IsWaiting(requests[Head(callbacks)])
              /\ modal = "none" /\ modal' = "login" /\ ~appearing',
           \A t \in Slots \ {Head(callbacks)} :
               /\ requests'[t].op = requests[t].op /\ requests'[t].stage = requests[t].stage
               /\ requests'[t].ui \in {"none", requests[t].ui},
           requests'[Head(callbacks)].stage = "sent",
           \/ requests'[Head(callbacks)].op = "none"
           \/ /\ requests'[Head(callbacks)].op = "setDoc"
              /\ requests[Head(callbacks)].op = "create"
              /\ requests'[Head(callbacks)].ui = requests[Head(callbacks)].ui
    PROVE  FlowInv' /\ SessionIsCurrentUser'
<1>1. SessionIsCurrentUser'
  BY DEF WhoseInv, SessionIsCurrentUser
<1>2. SUFFICES ASSUME ~late', base' # "dead"
               PROVE  /\ FlowForGuests' /\ AnonymousWaits' /\ AnonymousAnswered'
                      /\ FromOpenScreens' /\ AnswersQueued'
  BY <1>1 DEF FlowInv
<1>3. /\ FlowForGuests /\ AnonymousWaits /\ AnonymousAnswered /\ FromOpenScreens /\ AnswersQueued
  BY <1>2, FlowBefore
<1>4. Head(callbacks) \in Slots
  BY CallbackLemma DEF WhoseInv, SessionInv
<1>5. AnswersQueued'
  BY <1>3, CallbackQueued
<1>6. \A t \in Slots : /\ IsWaiting(requests'[t]) => IsWaiting(requests[t])
                       /\ IsAnswered(requests'[t]) => IsAnswered(requests[t])
                       /\ IsLogin(requests'[t]) => IsLogin(requests[t])
  BY DEF IsWaiting, IsAnswered, IsLogin
<1>7. currentUser = Anonymous \/ IsWaiting(requests[Head(callbacks)]) => userListener = NoReg
  BY <1>2, <1>3, <1>4, ListenerIsOfUser DEF AnonymousWaits
<1>8. FlowForGuests'
  BY <1>3, <1>7 DEF FlowForGuests
<1>9. AnonymousWaits'
  <2>1. ~IsWaiting(requests'[Head(callbacks)])
    BY DEF IsWaiting
  <2>2. /\ \A t \in Slots : IsWaiting(requests'[t]) => currentUser = NoUid /\ modal = "none"
        /\ \A s, t \in Slots : IsWaiting(requests'[s]) /\ IsWaiting(requests'[t]) => s = t
    BY <1>3, <1>6 DEF AnonymousWaits
  <2>3. ASSUME NEW t \in Slots, IsWaiting(requests'[t]) PROVE modal' = "none"
    <3>1. t # Head(callbacks) /\ currentUser # Anonymous
      BY <2>1, <2>2, <2>3, SessionAssumption
    <3>2. ~IsWaiting(requests[Head(callbacks)])
      BY <1>3, <1>4, <1>6, <2>3, <3>1 DEF AnonymousWaits
    <3> QED BY <2>2, <2>3, <3>1, <3>2
  <2> QED BY <2>2, <2>3 DEF AnonymousWaits
<1>10. AnonymousAnswered'
  BY <1>3, <1>6 DEF AnonymousAnswered
<1>11. FromOpenScreens'
  <2>1. ASSUME NEW t \in Slots, requests'[t].op \in {"signIn", "create", "setDoc"}
        PROVE  /\ requests'[t].ui \in {"none", "login", "register"}
               /\ requests'[t].ui = "login" => modal' # "none"
               /\ requests'[t].ui = "register" => modal' = "register"
    <3>1. /\ requests[t].op \in {"signIn", "create", "setDoc"}
          /\ requests'[t].ui \in {"none", requests[t].ui}
      BY <1>4, <2>1
    <3>2. /\ requests[t].ui \in {"none", "login", "register"}
          /\ requests[t].ui = "login" => modal # "none"
          /\ requests[t].ui = "register" => modal = "register"
      BY <1>3, <3>1 DEF FromOpenScreens
    <3> QED BY <3>1, <3>2
  <2> QED BY <2>1 DEF FromOpenScreens
<1> QED BY <1>5, <1>8, <1>9, <1>10, <1>11

LEMMA FlowCallbackStep == ASSUME WhoseInv, Callback PROVE FlowInv' /\ SessionIsCurrentUser'
<1> DEFINE h == Head(callbacks)
<1>1. h \in Slots
  BY CallbackLemma
     DEF Callback, SignInCompleted, CreateCompleted, RequestFailed, AnonymousAtLaunch,
         AnonymousAfterLogout, AnonymousAfterLogoutFailed, WhoseInv, SessionInv
<1>2. requests \in [Slots -> Request]
  BY DEF WhoseInv, SessionInv, TypeOK
<1>3. ASSUME requests' = Finished(requests)
      PROVE  /\ \A t \in Slots \ {h} : requests'[t] = requests[t]
             /\ requests'[h].op = "none" /\ requests'[h].stage = "sent"
  BY <1>1, <1>2, <1>3, FinishedFacts DEF Idle
<1>4. ASSUME SignInCompleted PROVE FlowInv' /\ SessionIsCurrentUser'
  <2>1. /\ NextCallback({"signIn", "setDoc"}, "ok")
        /\ UNCHANGED <<currentUser, userListener, base, late>>
    BY <1>4 DEF SignInCompleted, serviceVars, history
  <2>2. CASE requests' = Finished(requests) /\ UNCHANGED <<modal, appearing>>
    BY <1>3, <2>1, <2>2, BlockStep
  <2>3. CASE requests' = Finished(Orphaned({"login", "register"})) /\ CloseFlow
    <3> DEFINE rs == Orphaned({"login", "register"})
    <3>1. rs \in [Slots -> Request]
      BY OrphanedLemma DEF WhoseInv, SessionInv
    <3>2. /\ \A t \in Slots \ {h} : requests'[t] = rs[t]
          /\ requests'[h].op = "none" /\ requests'[h].stage = "sent" /\ requests'[h].ui = "none"
      BY <1>1, <2>3, <3>1, FinishedFacts DEF Idle
    <3>3. \A t \in Slots : /\ rs[t].op = requests[t].op /\ rs[t].stage = requests[t].stage
                           /\ rs[t].ui \in {"none", requests[t].ui} \ {"login", "register"}
      BY OrphanedFacts
    <3>4. modal' = "none"
      BY <2>3 DEF CloseFlow
    <3> HIDE DEF rs
    <3>5. \A t \in Slots : requests'[t].ui \notin {"login", "register"}
      BY <3>2, <3>3
    <3>6. \A t \in Slots \ {h} :
             /\ requests'[t].op = requests[t].op /\ requests'[t].stage = requests[t].stage
             /\ requests'[t].ui \in {"none", requests[t].ui}
      BY <3>2, <3>3
    <3> QED BY <2>1, <3>2, <3>4, <3>5, <3>6, BlockStep
  <2> QED BY <1>4, <2>2, <2>3 DEF SignInCompleted, DismissedBy
<1>5. ASSUME CreateCompleted PROVE FlowInv' /\ SessionIsCurrentUser'
  <2>1. /\ NextCallback({"create"}, "ok") /\ requests[h].op = "create"
        /\ UNCHANGED <<currentUser, userListener, base, late, modal, appearing>>
    BY <1>5 DEF CreateCompleted, NextCallback, uiVars, history
  <2>2. requests' = [requests EXCEPT ![h] = [requests[h] EXCEPT !.op = "setDoc", !.stage = "sent"]]
    BY <1>1, <1>2, <1>5 DEF CreateCompleted
  <2>3. /\ \A t \in Slots \ {h} : requests'[t] = requests[t]
        /\ requests'[h].op = "setDoc" /\ requests'[h].stage = "sent"
        /\ requests'[h].ui = requests[h].ui
    <3>1. requests[h] \in Request
      BY <1>1, <1>2
    <3>2. /\ [requests[h] EXCEPT !.op = "setDoc", !.stage = "sent"].op = "setDoc"
          /\ [requests[h] EXCEPT !.op = "setDoc", !.stage = "sent"].stage = "sent"
          /\ [requests[h] EXCEPT !.op = "setDoc", !.stage = "sent"].ui = requests[h].ui
      BY <3>1 DEF Request
    <3> QED BY <1>1, <1>2, <2>2, <3>2
  <2> QED BY <2>1, <2>3, BlockStep
<1>6. ASSUME RequestFailed \/ AnonymousAtLaunch
      PROVE  FlowInv' /\ SessionIsCurrentUser'
  <2>1. PICK ops, stage : NextCallback(ops, stage)
    BY <1>6 DEF RequestFailed, AnonymousAtLaunch
  <2>2. /\ UNCHANGED <<currentUser, userListener, base, late, modal, appearing>>
        /\ requests' = Finished(requests)
    BY <1>6 DEF RequestFailed, AnonymousAtLaunch, serviceVars, uiVars, history
  <2> QED BY <1>3, <2>1, <2>2, BlockStep
<1>7. ASSUME AnonymousAfterLogout \/ AnonymousAfterLogoutFailed
      PROVE  FlowInv' /\ SessionIsCurrentUser'
  <2>1. /\ \/ NextCallback({"anonLogout"}, "ok") /\ IsAnswered(requests[h])
           \/ NextCallback({"anonLogout"}, "failed") /\ IsWaiting(requests[h])
        /\ UNCHANGED <<currentUser, userListener, base, late>>
        /\ requests' = Finished(requests)
        /\ \/ UNCHANGED <<modal, appearing>>
           \/ modal = "none" /\ modal' = "login" /\ appearing' = FALSE
    BY <1>7 DEF AnonymousAfterLogout, AnonymousAfterLogoutFailed, PresentLogin, NextCallback,
                IsAnswered, IsWaiting, serviceVars, history
  <2>2. CASE UNCHANGED <<modal, appearing>>
    BY <1>3, <2>1, <2>2, BlockStep
  <2>3. CASE late' \/ base' = "dead"
    BY <2>1, <2>3 DEF FlowInv, WhoseInv, SessionIsCurrentUser
  <2>4. CASE ~late' /\ base' # "dead" /\ modal = "none" /\ modal' = "login" /\ appearing' = FALSE
    <3>1. AnonymousAnswered
      BY <2>1, <2>4, FlowBefore
    <3>2. currentUser = Anonymous \/ IsWaiting(requests[h])
      BY <1>1, <2>1, <3>1 DEF AnonymousAnswered
    <3> QED BY <1>3, <2>1, <2>4, <3>2, BlockStep
  <2> QED BY <2>1, <2>2, <2>3, <2>4
<1> QED BY <1>4, <1>5, <1>6, <1>7 DEF Callback

\* At launch there is one anonymous sign-in in flight, or none.
LEMMA LaunchFacts ==
    ASSUME NEW cu, NEW rs \in LaunchRequests(cu)
    PROVE  /\ \A s \in Slots : rs[s] \in {Idle, Launching}
           /\ \A s \in Slots : IsWaiting(rs[s]) => cu = NoUid
           /\ \A s, t \in Slots : IsWaiting(rs[s]) /\ IsWaiting(rs[t]) => s = t
<1> DEFINE busy == {s \in Slots : rs[s] # Idle}
<1>1. /\ rs \in [Slots -> {Idle, Launching}]
      /\ Cardinality(busy) = IF cu = NoUid THEN 1 ELSE 0
  BY DEF LaunchRequests
<1>2. IsFiniteSet(busy)
  BY SessionAssumption, FS_Subset
<1>3. \A s \in Slots : IsWaiting(rs[s]) => s \in busy
  BY DEF IsWaiting, Idle
<1> HIDE DEF busy
<1>4. cu # NoUid => busy = {}
  BY <1>1, <1>2, FS_EmptySet
<1>5. cu = NoUid => \E e : busy = {e}
  BY <1>1, <1>2, FS_Singleton
<1> QED BY <1>1, <1>3, <1>4, <1>5

LEMMA Launched ==
    ASSUME requests \in LaunchRequests(currentUser), userListener = NoReg, modal = "none"
    PROVE  FlowInv /\ SessionIsCurrentUser
<1>1. /\ \A s \in Slots : requests[s] \in {Idle, Launching}
      /\ \A s \in Slots : IsWaiting(requests[s]) => currentUser = NoUid
      /\ \A s, t \in Slots : IsWaiting(requests[s]) /\ IsWaiting(requests[t]) => s = t
  BY LaunchFacts
<1>2. \A s \in Slots : requests[s].stage = "sent" /\ requests[s].op \in {"none", "anonLaunch"}
  BY <1>1 DEF Idle, Launching
<1>3. FlowForGuests /\ AnonymousWaits
  BY <1>1 DEF FlowForGuests, AnonymousWaits
<1>4. AnonymousAnswered /\ FromOpenScreens /\ AnswersQueued
  BY <1>2 DEF AnonymousAnswered, FromOpenScreens, AnswersQueued, IsAnswered
<1> QED BY <1>3, <1>4 DEF FlowInv, SessionIsCurrentUser

LEMMA RelaunchedStep == ASSUME Relaunch PROVE FlowInv' /\ SessionIsCurrentUser'
<1>1. /\ requests' \in LaunchRequests(currentUser') /\ userListener' = NoReg /\ modal' = "none"
  BY DEF Relaunch
<1>2. /\ \A s \in Slots : requests'[s] \in {Idle, Launching}
      /\ \A s \in Slots : IsWaiting(requests'[s]) => currentUser' = NoUid
      /\ \A s, t \in Slots : IsWaiting(requests'[s]) /\ IsWaiting(requests'[t]) => s = t
  BY <1>1, LaunchFacts
<1>3. \A s \in Slots : requests'[s].stage = "sent" /\ requests'[s].op \in {"none", "anonLaunch"}
  BY <1>2 DEF Idle, Launching
<1>4. FlowForGuests' /\ AnonymousWaits'
  BY <1>1, <1>2 DEF FlowForGuests, AnonymousWaits
<1>5. AnonymousAnswered' /\ FromOpenScreens' /\ AnswersQueued'
  BY <1>3 DEF AnonymousAnswered, FromOpenScreens, AnswersQueued, IsAnswered
<1> QED BY <1>1, <1>4, <1>5 DEF FlowInv, SessionIsCurrentUser

LEMMA WhoseInitially == Init => WhoseInv
  BY InitInv, Launched DEF Init, WhoseInv

LEMMA WhoseStep == ASSUME WhoseInv, [Next]_vars PROVE WhoseInv'
<1>1. SessionInv'
  BY StepInv DEF WhoseInv
<1>2. CASE UNCHANGED vars
  BY <1>1, <1>2, FlowSame DEF vars, authVars, serviceVars, uiVars, history, WhoseInv
<1> QED
  BY <1>1, <1>2, FlowListenerStep, FlowServerStep, FlowHomeStep, FlowLoginFlowStep,
     FlowCallbackStep, RelaunchedStep DEF Next, WhoseInv

\* UserServices listens to nobody but Auth's current user, through logout, login,
\* registration, guests and launches, failures and late answers, unless a login was
\* accepted after its screens had gone.
THEOREM SessionIsCurrent == Spec => []SessionIsCurrentUser
<1>1. WhoseInv => SessionIsCurrentUser
  BY DEF WhoseInv
<1> QED BY <1>1, WhoseInitially, WhoseStep, PTL DEF Spec
==============================================================================
