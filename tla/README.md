# A verification of the Portofolio apps

This directory holds TLA+ models of the iOS programs under `src/`, the TLC
configurations that check them on small instances, and TLAPS proofs of what
matters most for every instance. It is written for somebody who has the
repository open: paths below are relative to `src/`.

1. [The system](#1-the-system)
2. [The modules and the code](#2-the-modules-and-the-code)
3. [The runs](#3-the-runs)
4. [Disagreements with the code's own words](#4-disagreements-with-the-codes-own-words)
5. [The proofs](#5-the-proofs)
6. [What is not modelled](#6-what-is-not-modelled)
7. [Plan](#7-plan)

## 1. The system

The repository is a portfolio of Swift apps. The largest, **Artable**, is a shop
with a customer app, an admin app and shared models, on Firebase (Auth,
Firestore, Storage, Functions) and Stripe. **Star Trivia**, **Quiz** and
**iFood** are smaller apps in several versions; **CalculatorTips** and **Simple
bot** are layout exercises. More than nine tenths of the files are vendored Pods;
of these, Firestore's client is part of how Artable behaves, and is modelled.

### Artable, the customer app (`Artable/Artable`)

| Part | State it keeps | Operations |
|---|---|---|
| `Services/Firestore/UserServices.swift` | the loaded user, the favourites, two listener registrations, `isGuest` from Auth | `getCurrentUser`, `getFavoritesSubcolectionOf`, `favoritesSelected`, `logoutUser` |
| `UI/Controller/UserHomeViewController.swift` | categories shown, their listener, the category tapped | appearing and disappearing, login or logout, segues to a category, favourites, cart |
| `LoginViewController`, `RegisterViewController`, `ForgotPaswordViewController` | text fields, a spinner | sign in, create the account and then its document, continue as guest, reset |
| `ProductViewController.swift` | products shown, a listener | favourite, add to cart, details |
| `ProductDetailViewController.swift` | the product | add to cart |
| `Services/Stripe/StripeCart.swift`, `StripeApi.swift` | the entries, the shipping fee | add, remove, clear, totals, ephemeral key |
| `ShoppingViewController.swift` | rows, labels, spinner, a payment context | place order, payment and shipping methods, charge |

### Artable, the admin app (`Artable/ArtableAdmin`)

`AdminHomeViewController` and `AdminProductViewController` reuse the two list screens;
`AddEdditCategoryViewController` and `AddEdditProductsViewController` are forms that store an image, ask
for its address and write a document.

### How they interact

Singletons (`UserService`, `stripeCart`) are shared by all screens, everything
runs on the main queue, and everything slow answers in a block on that queue:
Auth's completions, Firestore's snapshots and acknowledgements, Storage, the
cloud functions, and Stripe's context through its delegate. There are no data
races between threads. The hard behaviours come from the order of blocks:

* an answer that arrives after its screen was left, or after another answer;
* `Auth` switching its current user *before* the completion block runs;
* snapshots queued behind taps that already changed the same array;
* UIKit's appearance callbacks, which come in pairs that a swipe can undo;
* a chain of calls of which a later one fails;
* the process killed between any two of these.

### Firestore's client (`Artable/Pods/FirebaseFirestore`)

Every document Artable shows or writes goes through this C++ library. `core` is
short for its directory `Firestore/core/src`.

| Part | State it keeps | Operations |
|---|---|---|
| `core/core/sync_engine.cc` | the current user, callbacks waiting for an answer | write, acknowledge, reject, change of user, emit snapshots |
| `core/local/local_store.cc`, `leveldb_mutation_queue.cc`, `local_documents_view.cc` | a queue of batches per user and the cache of remote documents, on disk | add, acknowledge and reject a batch, apply a remote event, overlay pending writes |
| `core/remote/remote_store.cc`, `stream.cc`, `write_stream.cc` | the pipeline of batches in flight, two streams with their timers | fill the pipeline, resend after the handshake, take an answer, close, back off, idle |
| `core/remote/online_state_tracker.cc` | online, offline or unknown; a timer | start, failure, timeout |
| `core/core/view.cc`, `query_listener.cc` | a view's documents and what is pending in them; whether its listener has been told anything | compute and apply changes, raise the first event |

All of it runs on one worker queue, a handler at a time. Two streams connect it to
the server, and each breaks on its own. The hard behaviours: answers carry no
identifier and are matched by position; what was sent on a broken stream is sent
again; a refused write ends the stream with others in flight; the queue changes
hands with the customer; a write is shown before the server has it and then
confirmed twice, by its acknowledgement and by Watch, in either order.

What makes each part correct:

* **Session**: the listeners in force are those of the user Auth has signed in,
  exactly one pair, and nothing of a former user comes back.
* **Favourites**: after all snapshots, the local list is the server's.
* **Writes**: they reach the server in the order they were made, and are answered
  in that order, once and truthfully.
* **Listening**: a block has been told exactly what its view shows, own writes
  are in it, nothing goes back in time, and in the end it is what the server has.
* **Lists**: the rows are the query's result, in order; each change of a snapshot
  is applied to the row it is about; no listener outlives its screen's use.
* **Checkout**: nothing is charged twice, nothing unpaid is thrown away, the
  customer sees what is charged and learns how it ended.
* **Catalogue editor**: an edit lands in the document it is of, an addition in a
  new one, with a name and an image that exists.

### Star Trivia (`Star Trivia/Star Trivia v0.3`)

A home screen draws one of 87 people and hands it to four detail screens. Three
of them page through a list of addresses with two buttons, and every press is a
request of its own. Correct: no address outside the list is asked for, and what
is shown is what the buttons stand at. v0.1 and v0.2 are copies with other
network layers.

### Quiz (`Quiz/App`)

A router pushes a screen for each question the engine asks for and a results
screen at the end. The engine (`QuizEngine`) is not in the repository. The player
may go back and answer again. Correct: the screens are the questions in order,
nothing is answered with nothing, the results are of what is selected.

### iFood (`iFood/iFood v0.1` to `v0.4`), CalculatorTips, Simple bot (`Autolayout`)

iFood v0.4 navigates with coordinators, a parent and children that each become
the navigation controller's delegate. The other two recompute labels on events.

## 2. The modules and the code

| Module | Models | Composes |
|---|---|---|
| `UserSession` | `UserServices`, home's session part, the login flow, Auth, Firestore's documents of a user | |
| `DocumentChanges` | `documentChanges` between two results, and the three handlers of the list screens, as operators | |
| `QueryListeners` | registrations on a query and their queues | `DocumentChanges` |
| `ListMirror` | abstract: what a list screen promises | |
| `CategoryScreen` | the home screen's list | `QueryListeners`; implements `ListMirror` |
| `ProductScreen` | product screens opened in turn | `QueryListeners` |
| `Checkout` | the cart, the cart screen, Stripe's context, `createCharge` | |
| `CatalogEditor` | both admin forms, the screens before them, Storage, Firestore | |
| `StarTrivia` | Star Trivia v0.3 | |
| `Quiz` | the Quiz app | |
| `OrderedWrites` | abstract: what the apps may expect of their writes | |
| `WritePipeline` | Firestore's queue of batches, pipeline, write stream and callbacks | implements `OrderedWrites` |
| `LocalView` | the overlay of pending writes, the view and its listener, as operators | |
| `FirestoreClient` | cache, watch stream, online state, a snapshot listener | `WritePipeline`, `LocalView` |
| `UserSessionProofs`, `CheckoutProofs`, `CatalogEditorProofs`, `StarTriviaProofs`, `QuizProofs`, `CategoryScreenProofs`, `ProductScreenProofs` | theorems and their proofs | the module proved about |
| `FirestoreClientProofs` | theorems and their proofs | `FirestoreClient`, and so `WritePipeline` |
| `MC...` | instances for TLC | one module each |

An action is a whole handler, or a whole completion block, since the main queue
runs each of these to its end. A call to a service is at least two steps: the
handler that sends it and the block that runs on its answer; three where the
moment at which the server acts can be observed (`ServerAccepts`,
`ServerCharges`, `ImageStored`). Definitions that start with "Mutant:" are slips
the properties are meant to notice. They are not part of any specification.

### UserSession

`currentUser` and `accounts` are Auth's, `userDocs` and `favDocs` Firestore's,
`user`, `favorites`, `userListener` and `favoritesListener` the fields of
`UserServices`. A live registration has an inbox: the snapshots on the main
queue. `remove()` drops the inbox, because the vendored `AsyncEventListener` mutes
a removed listener before it looks at the queue. `requests` are calls in flight;
each remembers the screen (`ui`) whose block will run, and is orphaned when that
screen closes: the block still runs, but dismisses or presents nothing.
`callbacks` is the main queue of answered requests. `base`, `modal`, `overlay` and
`appearing` are what is on the screen. The login flow is presented full screen
(the project is built with an SDK older than iOS 13), so home gets
`viewDidAppear` when it closes. `Die` and `Relaunch` are an exception or a kill,
and a launch; what is in memory goes, what Auth and Firestore persist stays.

A touch may come between Auth's switch and the block that tells of it.
`Drained` guards only those touches that commute with the pending block.

`late` (history) becomes true when Firebase accepts a sign-in or a registration
whose screens the customer had left by then.

### DocumentChanges, QueryListeners, CategoryScreen, ProductScreen

A result of a query is a set of documents with an id, a time stamp and a
revision; `Ordered` puts it in the query's order. `Changes` computes what
Firestore reports between two results, removals first, then additions, then
modifications, each index being that after the change before (from the vendored
`QuerySnapshot`). `onAddDocument`, `onModifiedDocument` and `onRemoveDocument` are
the code's handlers on an array, and give `Trap` where Swift would stop with an
index out of range. Any number of documents may change at once: `Write` takes the
collection to any other result.

A category's screen removes its listener and clears its rows whenever it
disappears. A product's screen does so only with rows; without any it asks its
navigation controller to pop, in the middle of a transition, and UIKit leaves
open which screen goes: both are outcomes. `emptyExits` (history) counts these.

### Checkout

`cart` and `shippingFee` are `stripeCart`'s. An entry of the cart carries a number
of its own, so that a payment can be followed to it; amounts are left out, since
the total is a function of entries and fee. `ctx`, `loading`, `waiting`,
`hasOption` and `method` are the state of `STPPaymentContext`, taken from its
vendored source: in which states it ignores a request, what it shows first, what
it does with requests made while it loads. Each cart screen has its own context.
A charge keeps the screen it was made from; `Current` says whether that screen is
the one the customer sees. History: `paid`, `cleared`, `abandoned` (a cart screen
was left during a charge), `lost` (a charge was made, its answer an error).

### CatalogEditor

One run is about one of the two forms, `kind`. A press captures what its blocks
capture; the category's form reads its text field again in the last block
(`AddEdditCategoryViewController.swift:85`), the product's keeps the name of the last press.
`writes` are documents the device shows already and the server has not
acknowledged (latency compensation). `text` stands for all required fields.

### StarTrivia

`screen` is the detail screen on the stack, `requests` its requests, oldest first,
answered in any order. `index` is the pager's own position, `shown` the one whose
data are on the labels. A swipe back is `StartBack` followed by `FinishBack` or
`TakeBack`; the second calls `viewWillAppear` again. `orderly` (history of the
screen) says that its answers neither failed nor overtook one another,
`reappeared` that a swipe was taken back. Four storyboard actions point at
controllers of other scenes; they are taken to have no effect.

### Quiz

`stack` is the navigation stack of question screens with, for each, what is
selected and what its Submit button was told last (`model`). The engine is
external: its `AnswerCallback` overwrites the question's answer and asks the router
for the next question (`RouteToQuestion`), or for the results after the last
(`RouteToResult`). `tableView.indexPathsForSelectedRows`
promises no order, hence `SelectedOptions`. `crashed` is the presenter's
`fatalError`. Two taps during one push are not modelled.

### WritePipeline

A handler on the worker queue is one action, with everything it calls:
`HandleSuccessfulWrite` tells the callback, removes the batch and fills the
pipeline again, all in `OnWriteStreamMutationResult`. `queues` and the server's log
outlive a `Relaunch`; `pipeline`, `callbacks` and the stream do not, and
`nextBatchId` is read from what is left on disk, so that an identifier is used
again. `stream` has one state more than the code's enumeration: "ready" is an open
stream whose handshake is done (`handshake_complete_`). `requests` is what was
sent and the server has not handled, `answers` the commit versions on their way
back, `committed` the server's log; a version is an index of it.

The server is external and does what the client relies on: it handles the
requests of a stream in order, stops at the one it refuses, and handles nothing
of a stream that has ended. Write error, handshake error and lost token are told
apart by what the client does: `HandleWriteError` is a permanent error on a ready
stream, `OnWriteStreamClose` every other. A batch is one `set` of one document.

`OrderedWrites` has no stream, pipeline, queue position or retry. Its `Reach` is what
makes it weak enough to be true: after a break the server starts over with the
first unanswered write. Its `Succeed` and `Fail` say that answers are true.

### LocalView, FirestoreClient

The contents of a document are the number of the write that made it. A document
in the cache is "synced" or "committed" (acknowledged, but not yet sent by Watch);
under a pending write it is "local". `view` is the code's `View` with its listener;
`shown` is what the listener's block has been told in all, put together from the
changes alone, as the apps do. The pipeline's actions are taken as they are, and
each handler that also touches documents says what becomes of them
(`Write`, `HandleSuccessfulWrite`, `HandleRejectedWrite`, `CredentialChange`, `Restart`).

Watch is external: it acknowledges a listen, sends what changed since the
resume token and marks the listen current, then sends whatever changes. The online
state's timer is started when the stream is, by `HandleWatchStreamStart`, unless
the stream has failed before. A listen that ends stops that timer and a new one
does not start it while the stream is still connecting, as in the code.

`UserSession`, `QueryListeners` and `CatalogEditor` take for granted what is shown
here: a snapshot adds up to a result of the query, own writes are in it at once
(latency compensation), writes are answered in order.

## 3. The runs

Liveness is checked under the fairness stated with each specification and no
other: services answer and the main queue runs its blocks, since the SDKs promise
that each block is called. Nothing is ever asked of a person.

| Run | Question | Size |
|---|---|---|
| `session_login` | two accounts, two requests in flight, any interleaving of login, registration, logout, late answers, failing listeners, kills | 2.2 million states |
| `session_favorites` | one account, two products, two changes here or on another device; logins and logouts that come to their end | 70 thousand |
| `session_resurrected` | violation, see section 4 | |
| `category_screen` | three documents, two time stamps, two changes of any size; refinement of `ListMirror` | 125 thousand |
| `product_screen` | two screens in turn, one exit without rows each | 89 thousand |
| `checkout` | two products, two entries, two visits to the cart | 200 thousand |
| `editor` | two documents, one name, two forms, two presses | 178 thousand |
| `editor_overwritten` | violation | |
| `star_trivia` | a person with lists of 3, 2 and 3 addresses and one with a single film; two requests in flight | 26 thousand |
| `quiz` | three questions: several answers, one answer, several answers | 4 thousand |
| `write_pipeline` | two customers, one document, a pipeline of two, three writes, three breaks, kills or changes of customer; refinement of `OrderedWrites` | 159 thousand |
| `firestore_client` | the same customers, two writes here or elsewhere, one break, kill or change of customer, two listens | 339 thousand |

**session_login.** `LoadedUserIsListenedTo`: a user, or favourites, in memory
belong to a registration held. `NoLeakedListener`: Firestore serves none but those
held. `SessionIsCurrentUser`: they
are of Auth's user; excluded is a login accepted after its screens were left,
which does switch accounts behind the customer's back (`late`).
Two users are what it takes to confuse them, two slots what it takes for answers
to overtake one another. Users and slots are interchangeable in every action, so
they are symmetric; the run has no liveness.

**session_favorites.** `FavoritesCoverServer`: with all snapshots delivered
nothing on the server is missing locally. `SessionGetsLoaded`: a served listener
on an existing document loads the user, or the session ends. `LogoutLeadsToLogin`:
after a logout at home the customer meets the login flow or an alert.
Fairness: requests are answered, snapshots delivered, transitions end, callbacks
run. Two changes are enough for an addition and its removal to cross.

**category_screen.** `MirrorSpec` is refinement: the handlers applied one change
at a time always leave a result of the query in its order, results come in turn,
and nothing arrives on a hidden screen. `ChangesFitRows`: each change names a row
that exists and is of its document. `EventuallyCurrent`: with the queue drained, the rows
are the collection.
Three documents and two stamps give every relative order, ties included, and
batches that remove, add and move at once.

**product_screen.** `LeaksAreEmptyExits` bounds the listeners by the exits
without rows. `ChangesFitRows` and `EventuallyCurrent` say that a screen without
such an exit is not disturbed by the leaks of others.

**checkout.** `PaidOnce`: no entry is in two successful charges, however often
the order is placed, unless a screen was left during a charge or an answer was
lost: every charge has a new idempotency key, so both do charge twice.
`ChargeHoldsScreen` has no such exception: each screen, left or not, has one charge on
its way at most, and while the one on the stack has one, its context is busy with it,
no other screen of Stripe's is open and the spinner turns.
`ClearedIsPaid`: what is cleared was paid. `ScreenShowsCart`: rows, total and fee
are those of the cart at all times, so what is charged was shown. (The amount given to
the context is for Apple Pay only and left out.)
`ChargeIsReported`: every charge ends with an alert and a free context, or without
the screen. Two entries suffice for one to be added between charge and answer;
two visits for an answer that finds another screen.

**editor.** `ImagesExist`: no document names an image that was not stored.
`EditsStayInPlace`: an edit is written to its document, though the form was left
and another opened. `NewCategoryIsNew`: the add form writes new documents.
`ImageMatchesName`: typing during an upload does no harm to
products. (It does to categories, whose name is read late.) `UploadsEnd`.

**star_trivia.** `CrashNeedsSwipe`: an address outside the list is asked for on
the starships' screen after a swipe taken back, and never otherwise.
`ShowsCurrent`: orderly answers leave the labels at the pager's position.
`SpinnerMeansLoading`, `SpinnerEnds`: a spinner stands for a request that will end it,
or for an answer that failed: such an answer is printed and the spinner goes on
(`HomeController.swift:68`), so neither property asks anything after it.
`OpenedHasDetails`: the buttons enabled at home are those of the person handed
over. A list of three has a first, a middle and a last entry.

**quiz.** `ScreensInOrder`, `AnswersComplete` and
`ResultsMatchScreens`, through going back and answering again from any screen.
The middle question, with a single answer, has neighbours of the other sort.

**write_pipeline.** `PipelineIsQueueFront`: what is in flight is the front of the
customer's queue on disk, so that the batch an answer is taken for is the first
one there. `AnswersMatchPipeline`: on a ready stream the answers on their way are of
the first batches of the pipeline, and the others are being asked.
`IdleStreamIsNotNeeded`: the assertion in `OnWriteStreamClose`. `ImplementsOrderedWrites` is
refinement. `WritesAreAnswered`: a customer who stays gets an answer. Fairness is
weak and on `StreamStep` only: backoff elapses, a stream starts, the server
handles a request, an answer is processed; faults are bounded and nobody has to
write. A pipeline of two with three writes has one batch waiting for room (the
code's bound is 10); two customers are the least that can take over a queue; one
document is enough, since the pipeline does not look at documents. Three faults
allow a break, a change to the other customer and back, or a kill in between.

**firestore_client.** `ShownIsView`, `OwnWritesAreShown`, `NeverBackInTime` (an action
property: what is shown is replaced by a later commit or by an own write only)
and `EventuallySynced`. Fairness: the write stream and the watch stream proceed,
and the online state's timer fires. Two writes, one of them perhaps on another
device, give every order of acknowledgement, refusal and Watch for a document;
the second listen starts from what the first left in the cache. One change of
customer leads away from pending writes and not back to them: that case of
`OwnWritesAreShown` is left to the theorem `OwnWritesStay`. Steps that restart the app or
change the customer are outside `NeverBackInTime`. `EventuallySynced` rests on every
connection opening or failing, not on the timer.

`CHECK_DEADLOCK FALSE` stands where the bounds on entries, visits, screens, forms,
presses, writes or listens let a run come to rest; the session, the home list, Star Trivia and
the quiz never stop.

Every property of a passing run has a mutant in `PROJECT.json`: a plausible slip
in one definition under which TLC finds that property violated.

## 4. Disagreements with the code's own words

* `session_resurrected`. The favourites listener appends each whole snapshot and
  clears nothing (`UserServices.swift:64`). Add a favourite, remove it before the
  first snapshot is delivered: that snapshot brings it back, the next one does not
  take it out, and the list differs from the server until the session ends.
* `editor_overwritten`. "+ Product" after a product was tapped hands that product
  to the form (`AdminProductViewController.swift:39`), and the new one overwrites it.

Met while modelling, and outside any run:

* A product screen that disappears without rows keeps its listener, appears again
  and adds one (`ProductViewController.swift:34-38`); both apply each change to one
  array. `ProductScreen` has it, and its properties exclude such screens.
* After a charge that went well the code tells Stripe's context `.error`
  (`ShoppingViewController.swift:162`), so that "Thank you for purchase" is
  unreachable and the customer reads an error over an empty cart.
* Stripe's context ignores a request made while it takes itself to be showing
  something, and the cart's spinner then goes on (`ShoppingViewController.swift:85`).
* A logout leaves the cart of the customer before (`UserServices.swift:86`); guests are
  told to log in and get the product into the cart anyway
  (`ProductViewController.swift:138`); the screen of favourites never gets a category
  and so never listens (`ProductViewController.swift:64`).
* A favourite tapped before the user's document arrived builds `users//favorites`,
  which the SDK answers with an exception (`UserSession` has it as `Die`).
* The fee of FedEx is never set, for `ShoppingViewController.swift:208` sets the UPS
  amount twice; `Int(price * 100)` drops a cent of 4586 of the prices from 0.00 to
  999.99 (`StripeCart.swift:23`).
* A category's time stamp is read as `timestamp` and written as `timeStamp`
  (`Category.swift:33`); an edited product loses stock, `isActive` and `favorite`
  (`AddEdditProductsViewController.swift:107`); two presses on Add make two
  documents (`AddEdditCategoryViewController.swift:91`).
* A listen added while the stream is still connecting, after another one ended,
  waits without a timer, although `online_state_tracker.cc:46` says "rather than
  waiting indefinitely": `FirestoreClient` has it, and `EventuallySynced` takes the
  connection to end one way or the other.
* A film's director is its producer (`FilmViewController.swift:60`) and a starship's
  crew its speed (`StarshipViewController.swift:74`). In iFood v0.4 each child
  coordinator takes the navigation controller's delegate from its parent, so that
  the parent's removal of children never runs (`SubmenuCoordinator.swift:23`).

## 5. The proofs

The assumptions are those named in the modules: `SessionAssumption`,
`NAssumption` and `QuestionAssumption`, `CountAssumption` and those next to it.
TLC evaluates them in the runs.

**The session** (`UserSessionProofs`), for any users, products and number of
requests in flight. `SessionInv` is `TypeOK` with the three listener properties
together: each needs the others, for example a late snapshot of a former user is
harmless only because no registration but the one held has an inbox.
`TypeCorrect`, `LoadedUserCorrect`, `NoLeak` and `Paired` (the two registrations are of
the same user) follow. There is one
step per action; `Remove`, `Listen` and `Publish` have lemmas of their own.
`FavoritesCovered` adds that the last snapshot on its way is what the server has
(`InboxInv`). `SessionIsCurrent` is not inductive by far: a stale answer of Auth could
switch the user under a listener. `FlowInv` says why it does not: an anonymous
sign-in is in flight once and only when nobody is signed in and nothing is presented
(`AnonymousWaits`), the login flow is on screen only without listeners
(`FlowForGuests`), a login belongs to an open screen (`FromOpenScreens`) and is sent
only when no answered anonymous sign-in is left (`AnonymousAnswered`), which rests on
answers being on the main queue that a touch finds drained (`AnswersQueued`).
`SessionAssumption` has the request table finite, since a launch counts in it.

**The rows of a list** (`CategoryScreenProofs`, first sections), from
`DocumentAssumption`: for any two results of a query the changes Firestore reports
lead from the rows of the one to the rows of the other, each naming the row of
its document on the way (`ChangesFacts`). The argument:

* `IndexIn` tells a result's documents apart and stays below their number, so it
  leaves no gap (`IndexBijection`) and `Ordered` is the result in query order;
* a row put in at a new document's index, or taken out at an old one's, leaves
  the rows of the new result (`InsertOrdered`, `RemoveOrdered`);
* hence each handler leads from the rows before its change to those after it, a
  replaced row included (`ApplyOrdered`, `ReplaceIs`);
* after the removals, additions and modifications of `Kinds` the result is the new
  one (`OnTheWay`, `WayEnds`), and each change is fit for the result it meets.

The intermediate results and rows are recursive functions on the number of
changes. That these functions exist, and what holds of them, is an induction the
library's theorems cannot give here, since they take an operator as a parameter;
`HasGreatest` (a bounded set of numbers has a greatest one) and `Climb` (a set that
has 0, and the next of each of its numbers, has them all) say it of sets.

**The home screen's list** (`CategoryScreenProofs`), for any documents and number of changes and
listeners. At most the registration the screen holds is served, and only while it
is visible (`OwnListener`), and the rows are those of the result it was told of last
(`RowsAreSeen`): so the next snapshot, which is reckoned from that result, fits. Every step
is then one of `ListMirror`'s or changes nothing that shows. Theorems `TypeCorrect`,
`NeverTraps`, `RowsFitChanges`, `ImplementsMirror`.

**Product screens** (`ProductScreenProofs`), for any documents, screens, exits and listeners. The
facts about rows are taken from `CategoryScreenProofs` by an instance of it, since the two
screens have the same handlers (`SameResults`, `SameRows`). `LeaksAreEmptyExits` needs to
know of whom a leak is: every registration but the visible screen's belongs to a screen
with an exit without rows (`LeakedByExit`), and there are no more of them than such
exits (`FewLeaks`). A screen without one then shows what its only registration was told
(`CleanRows`), and nothing while it is away (`CleanAway`). Theorems `TypeCorrect`,
`OnlyEmptyExitsLeak`, `RowsFitChanges`.

**The checkout** (`CheckoutProofs`), from `CheckoutAssumption`, for any products and
number of entries, visits and waiting requests. `PaidOnce` rests on one charge being on
its way at a time, of the screen on the stack, whose context waits for it
(`OneCharge`); on a payment being requested only of a context that has loaded
(`ContextInv`); and on a ledger of what was added, charged and paid: the cart is part
of what a charge on its way is for (entries may be removed meanwhile, none added), and
nothing of it is paid before (`Added`, `Charged`, `Unpaid`). A second invariant says it
without exceptions, of each screen by itself (`ChargeHoldsScreen`): a screen opened next
has no charge yet (`VisitInv`), and the spinner turns from the button on, while requests
wait for the context to load too (`SpinnerInv`). Theorems `CheckoutTypeCorrect`,
`PaidOnceAlways`, `ClearedIsPaidAlways`, `ScreenShowsCartAlways`, `ChargeHoldsScreenAlways`.

**The editor** (`CatalogEditorProofs`), from `EditorAssumption`, for any documents, names,
forms and presses. An image that a document on its way names is stored, and the calls
under way are of forms that were opened (`CallsInv`); a form to edit something knows
what, and a new category's form does not (`FormsInv`); the name a product's form holds is
the one its image travels under, unless it was pressed again (`HeldInv`). The count of
uploads and writes in `TypeOK` needs them finite. Theorems `EditorTypeCorrect`,
`ImagesExistAlways`, `EditsStayInPlaceAlways`, `ImageMatchesNameAlways` and, of the
steps, `NewCategoryIsNewAlways`.

**Star Trivia** (`StarTriviaProofs`), for any people, lists and requests in
flight. `CrashNeedsSwipe` is not inductive: what keeps an index inside its list is
that an enabled button has an address in its direction (`ButtonsLead`), and that a
screen was opened with an address to start from (`HasDetails`), which in turn
needs the home screen's buttons to be those of its person. Theorems
`SubscriptSafe` and `SomethingToShow`. That the exception is needed is what TLC
shows: without it the run has a counterexample. `ShownInv` says why presses and
answers may interleave: as long as no answer overtook another, the youngest request is
for the address the buttons stand at, and when there is none left its answer is shown
(`LastIsCurrent`); a spinner that turns has its reason, also on a screen being left
(`SpinsForAReason`). Theorems `PagerShowsCurrent` and `SpinnersHaveReasons`.

**Quiz** (`QuizProofs`), for any number of questions, options and right answers.
To go from the screens to the results one needs that the engine's answers agree
with every screen but the top one (`Recorded`) and that each Submit button would
send what is selected on its screen (`Faithful`); the top screen may have been
changed after it was answered. Theorems `InOrder`, `Complete`, `NotEmpty` (no
question is answered with nothing), `MatchScreens`.

**The write pipeline** (`FirestoreClientProofs`), from `PipelineAssumption`, for any users,
documents, pipeline size, and number of writes and faults. `IInv` adds to the
properties what they rest on: in every queue identifiers and writes rise, start
at 1 and stay below `nextBatchId` and the writes made (`QueuesInv`), which makes
"the first batch after this identifier" the next position and lets a relaunch use
identifiers again; only a ready stream with an empty pipeline is idle (`IdleInv`);
answers and requests have their positions in the pipeline (`AnswersInv`). Fronts of
sequences have lemmas of their own; `FillFacts` says what `FillWritePipeline`
does from any state, and each handler that calls it is a use of it. Theorems
`PipelineTypeCorrect`, `FrontOfQueue`, `AnswersMatch`, `IdleIsNotNeeded`.

**Ordered writes** (`FirestoreClientProofs`): the refinement of `OrderedWrites` that the run
checks with three writes, for all. To `IInv` come that the server has only valid
writes (`LogInv`); that a batch has a callback exactly if its write waits for an
answer, although identifiers are used again after a kill (`CallbacksInv`); and that
after the last answer on its way nothing more of the customer's is in the log
(`LastAnswerInv`), which is what lets the pipeline be sent from its start again
without a write overtaking another. Each action then is one of the abstract
ones (a commit is `Reach` at the position after the answers on their way) or
changes nothing the apps can see: `OrderKept`. Theorem `WritesAreOrdered`.

**The client** (`FirestoreClientProofs`), from `PipelineAssumption` and
`ClientAssumption`. The pipeline's invariant is used as it stands, since every step
of the client is one of the pipeline's or leaves it alone. To it come: a snapshot
on its way is of no more than was committed; a view without a listener is empty;
the block knows every document of the view, or none before its first event
(`ToldAll`); the view has the last pending write of each document (`HasPending`).
The last two are facts of the operators in `LocalView`, for every view and every
set of documents looked at (`ApplyFacts`, `EmitKeeps`): the change kinds that are not
told are those that leave the contents alone, and a document under a pending
write is never held back. Theorems `ClientTypeCorrect`, `PipelineInClient`,
`ToldIsShown`, `OwnWritesStay`. The steps of the client are also steps of the
ordered writes (`OrderedInClient`), so what was proved of the log there holds
here, and the next theorem rests on it.

`NeverFlickers` proves `NeverBackInTime`, the action property that concerns both
streams. Its invariant `TimeInv`, which TLC checked first, says of what may still
arrive and of what is there already:

* an answer on its way is the last the server said of its write
  (`AnswersAreLast`), and another device's write is committed once (`OthersOnce`): a
  write of this device may be committed again after a broken stream, until it is
  answered;
* a cached document is what was committed at its version, under its key
  (`CacheInv`);
* no snapshot on its way is older than a write of this device that is not pending
  any more, unless the cache has a later version (`SettledHeard`): the snapshot
  that a write was answered before cannot put an older one in its place, because
  `ApplyRemoteEvent` compares versions;
* the documents of a view are of their keys, and another device's write came
  there by the cache (`DocsRight`).

The steps that change what a raised listener shows are four (`Emits`, `QuietFor`),
and each has a lemma on what gives way to what (`MadeGivesWay`,
`AcknowledgedGivesWay`, `RefusedGivesWay`, `RenewedGivesWay`): to a pending write, or to
one committed after every commit of the old one, or because the old one was never
committed.

Only liveness under fairness stays with TLC: `EventuallyCurrent` and the other
properties that say something happens in the end. The safety properties and the
refinements the passing runs check have theorems.

## 6. What is not modelled

* Apple Pay, and amounts of money, which are functions of the entries.
* Cells, layout, animation, images being displayed, SDK set-up in the app delegates.
* Conversions of documents to and from dictionaries.
* Firebase's Auth, Storage and Functions clients, Stripe's servers and the cloud
  functions, which are only modelled by what the apps can see of them.
* Of Firestore's client: limbo resolution, existence filters, target errors,
  `WatchChangeAggregator` (whole consistent snapshots stand for what it puts
  together), several targets at once, queries with a limit, transactions, deletes
  (favourites, the only documents the apps delete, are followed in `UserSession`),
  garbage collection, LevelDB below the mutation queue, and `enableNetwork`,
  `disableNetwork` and `waitForPendingWrites`, which no app calls.
* gRPC, BoringSSL, LevelDB, Kingfisher, IQKeyboardManager and the other Pods, which
  make up nearly all of the repository's lines: libraries whose contracts the
  apps' behaviour does not depend on beyond what is modelled.
* The forgotten password's mail, which changes no state of the app.
* Star Trivia v0.1 and v0.2 and iFood v0.1 to v0.3, superseded copies of what
  v0.3 and v0.4 do; CalculatorTips and Simple bot, a screen each without anything
  asynchronous.
* iFood v0.4: who is the navigation controller's delegate and which coordinators
  live. Its `removeDidFinish` is dead code on every path (section 4), which leaves
  a stack of screens and nothing that interleaves.

## 7. Plan

Done, in the order in which a mistake would hurt most: session, lists, checkout,
editor, Star Trivia, Quiz, Firestore's writes and listening; proofs of the
session, the lists, the checkout, the editor, Star Trivia, Quiz, the write pipeline, its
refinement of ordered writes and the client.

Next, models: documents that are deleted, with limbo resolution, in `LocalView`;
two listeners on one query, as the customer's and the admin's lists are on two
devices, sharing one target.
