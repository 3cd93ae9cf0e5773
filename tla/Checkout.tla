------------------------------- MODULE Checkout -------------------------------
(***************************************************************************)
(* From the cart to a charge: the StripeCart singleton, the cart screen    *)
(* (ShoppingViewController), the STPPaymentContext each cart screen makes  *)
(* for itself, and the createCharge function in the cloud.                 *)
(*                                                                         *)
(* A charge is sent, made and answered in separate steps; its answer runs  *)
(* a block that keeps its own screen alive, even if that has been left.    *)
(* Prices are left out: the total is a function of the products and the    *)
(* shipping fee, so a charge records those.                                *)
(***************************************************************************)
EXTENDS Naturals, Sequences, FiniteSets, SequencesExt

CONSTANTS
    Products,
    MaxEntries,  \* bound on products put into the cart in a run
    MaxVisits,   \* bound on cart screens opened in a run
    MaxWaiting   \* bound on payments asked for while Stripe is loading

ASSUME CheckoutAssumption ==
    MaxEntries \in Nat /\ MaxVisits \in Nat /\ MaxWaiting \in Nat

VARIABLES
    guest,        \* UserServices.isGuest
    cart,         \* StripeCart.cartItemsArray
    shippingFee,  \* StripeCart.shippingFee, named by the method it is of
    place,        \* the cart screen is on the stack, or the user is shopping
    visit,        \* number of the cart screen opened last
    shown,        \* what its table and labels were last computed from
    spinner,      \* its activityIndicator
    alert,        \* an alert presented over it
    ctx,          \* state of its payment context
    sdk,          \* the Stripe screen shown over it
    loading,      \* the context's loading promise
    waiting,      \* requestPayment calls that wait for the promise
    hasOption,    \* a payment option is selected
    method,       \* the shipping method selected
    charges,      \* createCharge calls not answered yet
    paid,         \* history: successful charges an entry was in, 2 for more
    cleared,      \* history: entries clearCart threw away
    added,        \* history: entries made so far
    abandoned,    \* history: a cart screen was left during a charge
    lost          \* history: a charge was made, and its answer an error

cartVars   == <<cart, shippingFee>>
screenVars == <<place, visit, shown, spinner, alert>>
ctxVars    == <<ctx, sdk, loading, waiting, hasOption, method>>
history    == <<paid, cleared, added, abandoned, lost>>
vars == <<guest, cartVars, screenVars, ctxVars, charges, history>>

Methods == {"ups", "fedex"}
Entries == [product : Products, n : 1..MaxEntries]

Charge == [visit : 1..MaxVisits, items : Seq(Entries), fee : {"none"} \cup Methods,
           stage : {"sent", "made"}]

TypeOK ==
    /\ guest \in BOOLEAN
    /\ cart \in Seq(Entries)
    /\ shippingFee \in {"none"} \cup Methods
    /\ place \in {"shop", "cart"}
    /\ visit \in 0..MaxVisits
    /\ shown \in [rows : Seq(Entries), priced : Seq(Entries), fee : {"none"} \cup Methods]
    /\ spinner \in BOOLEAN
    /\ alert \in {"none", "loadError", "chargeFailed", "error", "success"}
    /\ ctx \in {"none", "requesting", "showing"}
    /\ sdk \in {"none", "options", "shipping"}
    /\ loading \in {"pending", "done", "failed"}
    /\ waiting \in 0..MaxWaiting
    /\ hasOption \in BOOLEAN
    /\ method \in {"none"} \cup Methods
    /\ charges \subseteq Charge
    /\ paid \in [1..MaxEntries -> 0..2]
    /\ cleared \subseteq 1..MaxEntries
    /\ added \in 0..MaxEntries
    /\ abandoned \in BOOLEAN /\ lost \in BOOLEAN

Numbers(items) == {items[i].n : i \in 1..Len(items)}

\* What a screen shows that has just read the cart.
Showing(items, fee) == [rows |-> items, priced |-> items, fee |-> fee]

\* The customer can touch the cart screen, or only an alert over it.
AtCart == place = "cart" /\ sdk = "none" /\ alert = "none"

Init ==
    /\ guest \in BOOLEAN
    /\ cart = <<>> /\ shippingFee = "none"
    /\ place = "shop" /\ visit = 0 /\ shown = Showing(<<>>, "none")
    /\ spinner = FALSE /\ alert = "none"
    /\ ctx = "none" /\ sdk = "none" /\ loading = "pending" /\ waiting = 0
    /\ hasOption = FALSE /\ method = "none"
    /\ charges = {}
    /\ paid = [n \in 1..MaxEntries |-> 0]
    /\ cleared = {} /\ added = 0 /\ abandoned = FALSE /\ lost = FALSE
------------------------------------------------------------------------------
(* Shopping. *)

addItemToCart(p) ==
    /\ added < MaxEntries
    /\ added' = added + 1
    /\ cart' = Append(cart, [product |-> p, n |-> added + 1])

\* addToCart of a product row: guests get an alert, and the product too.
AddToCart(p) ==
    /\ place = "shop"
    /\ addItemToCart(p)
    /\ UNCHANGED <<guest, shippingFee, screenVars, ctxVars, charges>>
    /\ UNCHANGED <<paid, cleared, abandoned, lost>>

\* addToChartButtonPressed of the product's details: guests get the alert only.
AddToChartButtonPressed(p) ==
    /\ place = "shop"
    /\ ~guest
    /\ addItemToCart(p)
    /\ UNCHANGED <<guest, shippingFee, screenVars, ctxVars, charges>>
    /\ UNCHANGED <<paid, cleared, abandoned, lost>>

\* Logging in or out at the home screen: the cart stays.
SessionChanges ==
    /\ place = "shop"
    /\ guest' = ~guest
    /\ UNCHANGED <<cartVars, screenVars, ctxVars, charges, history>>

\* The cart segue, which prepare(for:sender:) does not stop: a new screen
\* with a new payment context, which starts to load.
OpenCart ==
    /\ place = "shop"
    /\ visit < MaxVisits
    /\ place' = "cart" /\ visit' = visit + 1
    /\ shown' = Showing(cart, shippingFee)
    /\ spinner' = FALSE /\ alert' = "none"
    /\ ctx' = "none" /\ sdk' = "none" /\ loading' = "pending" /\ waiting' = 0
    /\ hasOption' = FALSE /\ method' = "none"
    /\ UNCHANGED <<guest, cartVars, charges, history>>

\* The screen is popped; its context goes with it, unless a charge is on its
\* way, whose block keeps both.
Leave ==
    /\ place' = "shop"
    /\ shown' = Showing(<<>>, "none")
    /\ spinner' = FALSE /\ alert' = "none"
    /\ ctx' = "none" /\ sdk' = "none" /\ loading' = "pending" /\ waiting' = 0
    /\ hasOption' = FALSE /\ method' = "none"
    /\ abandoned' = (abandoned \/ \E c \in charges : c.visit = visit)
    /\ UNCHANGED <<guest, cartVars, visit, charges, paid, cleared, added, lost>>

Back == AtCart /\ Leave

\* Mutant: the labels are not computed again.
RemoveItemOnly ==
    /\ AtCart
    /\ \E row \in 1..Len(shown.rows) :
          LET same == {i \in 1..Len(cart) : cart[i].product = shown.rows[row].product}
          IN  cart' = IF same = {} THEN cart ELSE RemoveAt(cart, CHOOSE i \in same : \A j \in same : i <= j)
    /\ shown' = [shown EXCEPT !.rows = cart']
    /\ UNCHANGED <<guest, shippingFee, place, visit, spinner, alert, ctxVars, charges, history>>

\* removeItem(product:) of a row: removeItemFromCart takes the first product
\* with that id, and does nothing if there is none.
RemoveItem ==
    /\ AtCart
    /\ \E row \in 1..Len(shown.rows) :
          LET same == {i \in 1..Len(cart) : cart[i].product = shown.rows[row].product}
          IN  cart' = IF same = {} THEN cart ELSE RemoveAt(cart, CHOOSE i \in same : \A j \in same : i <= j)
    /\ shown' = Showing(cart', shippingFee)
    /\ UNCHANGED <<guest, shippingFee, place, visit, spinner, alert, ctxVars, charges, history>>
------------------------------------------------------------------------------
(* STPPaymentContext, and the delegate's answers. *)

\* didCreatePaymentResult: the cart as it is goes to createCharge.
DidCreatePaymentResult(fee) ==
    charges' = charges \cup
        {[visit |-> visit, items |-> cart, fee |-> fee, stage |-> "sent"]}

\* Mutant: a payment is requested whatever the context is doing.
RequestPaymentAgain(state, option, selected, fee) ==
    \/ /\ ~option
       /\ ctx' = "requesting" /\ sdk' = "options"
       /\ UNCHANGED charges
    \/ /\ option /\ selected = "none"
       /\ ctx' = "requesting" /\ sdk' = "shipping"
       /\ UNCHANGED charges
    \/ /\ option /\ selected # "none"
       /\ ctx' = "requesting" /\ sdk' = "none"
       /\ DidCreatePaymentResult(fee)

\* requestPayment of a context that has loaded, in the given state: it shows
\* what is still to be entered, or else makes the delegate charge.
RequestPayment(state, option, selected, fee) ==
    \/ /\ state # "none"
       /\ ctx' = state
       /\ UNCHANGED <<sdk, charges>>
    \/ /\ state = "none" /\ ~option
       /\ ctx' = "requesting" /\ sdk' = "options"
       /\ UNCHANGED charges
    \/ /\ state = "none" /\ option /\ selected = "none"
       /\ ctx' = "requesting" /\ sdk' = "shipping"
       /\ UNCHANGED charges
    \/ /\ state = "none" /\ option /\ selected # "none"
       /\ ctx' = "requesting" /\ sdk' = "none"
       /\ DidCreatePaymentResult(fee)

\* placeOrderClicked: requestPayment, which waits for the context to load,
\* and then the spinner; one that failed to load answers at once.
PlaceOrderClicked ==
    /\ AtCart
    /\ \/ /\ loading = "pending"
          /\ waiting < MaxWaiting
          /\ waiting' = waiting + 1
          /\ UNCHANGED <<ctx, sdk, charges, alert>>
       \/ /\ loading = "failed"
          /\ ctx' = "none"
          /\ alert' = "error"
          /\ UNCHANGED <<sdk, waiting, charges>>
       \/ /\ loading = "done"
          /\ RequestPayment(ctx, hasOption, method, shippingFee)
          /\ UNCHANGED <<waiting, alert>>
    /\ spinner' = TRUE
    /\ UNCHANGED <<guest, cartVars, place, visit, shown, loading, hasOption, method, history>>

\* paymentMethodClicked and shippingMethodClicked: ignored unless the context
\* is in state None.
OpenSdkScreen ==
    /\ AtCart
    /\ ctx = "none"
    /\ ctx' = "showing"
    /\ sdk' \in {"options", "shipping"}
    /\ UNCHANGED <<guest, cartVars, screenVars, loading, waiting, hasOption, method>>
    /\ UNCHANGED <<charges, history>>

\* The customer's key and cards arrive: one of the cards may be selected, and
\* the first of the waiting requests is served.  A guest has no customer.
LoadSucceeds ==
    /\ place = "cart" /\ loading = "pending" /\ ~guest
    /\ loading' = "done" /\ waiting' = 0
    /\ hasOption' \in BOOLEAN
    /\ IF waiting > 0
       THEN RequestPayment(ctx, hasOption', method, shippingFee)
       ELSE UNCHANGED <<ctx, sdk, charges>>
    /\ UNCHANGED <<guest, cartVars, screenVars, method, history>>

\* They do not: Stripe takes its options screen away, without a change of
\* state; didFailToLoad shows an alert, unless the address screen covers the
\* cart; and every waiting request ends with an error.
LoadFails ==
    /\ place = "cart" /\ loading = "pending"
    /\ loading' = "failed" /\ waiting' = 0
    /\ spinner' = FALSE
    /\ sdk' = IF sdk = "options" THEN "none" ELSE sdk
    /\ alert' = IF sdk = "shipping" THEN alert ELSE "loadError"
    /\ ctx' = IF waiting > 0 THEN "none" ELSE ctx
    /\ UNCHANGED <<guest, cartVars, place, visit, shown, hasOption, method, charges, history>>

\* A Stripe screen is done: a payment that had been requested goes on.
Finished(option, selected, fee) ==
    IF ctx = "requesting"
    THEN RequestPayment("none", option, selected, fee)
    ELSE ctx' = "none" /\ sdk' = "none" /\ UNCHANGED charges

OptionSelected ==
    /\ sdk = "options" /\ loading = "done"
    /\ hasOption' = TRUE
    /\ Finished(TRUE, method, shippingFee)
    /\ UNCHANGED <<guest, cartVars, screenVars, loading, waiting, method, history>>

\* The selected card is deleted: another one is selected, or none.
OptionDeleted ==
    /\ sdk = "options" /\ loading = "done" /\ hasOption
    /\ hasOption' = FALSE
    /\ UNCHANGED <<guest, cartVars, screenVars, ctx, sdk, loading, waiting, method>>
    /\ UNCHANGED <<charges, history>>

\* An address and one of the methods that didUpdateShippingAddress offers.
\* paymentContextDidChange takes over the fee and computes the labels.
ShippingSelected ==
    /\ sdk = "shipping"
    /\ method' \in Methods
    /\ shippingFee' = method'
    /\ shown' = [shown EXCEPT !.priced = cart, !.fee = method']
    /\ Finished(hasOption, method', method')
    /\ UNCHANGED <<guest, cart, place, visit, spinner, alert, loading, waiting, hasOption, history>>

\* Cancel: a payment that had been requested ends with userCancellation.
SdkScreenCancelled ==
    /\ sdk # "none"
    /\ ctx' = "none" /\ sdk' = "none"
    /\ spinner' = IF ctx = "requesting" THEN FALSE ELSE spinner
    /\ UNCHANGED <<guest, cartVars, place, visit, shown, alert, loading, waiting>>
    /\ UNCHANGED <<hasOption, method, charges, history>>

\* The buttons of the alerts.
Retry ==
    /\ alert = "loadError"
    /\ alert' = "none" /\ loading' = "pending"
    /\ UNCHANGED <<guest, cartVars, place, visit, shown, spinner, ctx, sdk, waiting>>
    /\ UNCHANGED <<hasOption, method, charges, history>>

PopAfterAlert == alert \in {"loadError", "error", "success"} /\ Leave

ChargeFailedOk ==
    /\ alert = "chargeFailed"
    /\ alert' = "none"
    /\ UNCHANGED <<guest, cartVars, place, visit, shown, spinner, ctxVars, charges, history>>
------------------------------------------------------------------------------
(* createCharge. *)

\* Stripe makes the charge: a new idempotency key every time.
ServerCharges(c) ==
    /\ c.stage = "sent"
    /\ charges' = (charges \ {c}) \cup {[c EXCEPT !.stage = "made"]}
    /\ paid' = [n \in 1..MaxEntries |->
                   IF n \in Numbers(c.items) THEN Min({2, paid[n] + 1}) ELSE paid[n]]
    /\ UNCHANGED <<guest, cartVars, screenVars, ctxVars, cleared, added, abandoned, lost>>

\* Whether a charge is of the cart screen that is on the stack.
Current(c) == place = "cart" /\ c.visit = visit

\* didFinishWith, on the screen of the charge: only the one on the stack has
\* a visible spinner and can present an alert.
DidFinishWith(c, status) ==
    IF Current(c)
    THEN /\ ctx' = "none"
         /\ spinner' = FALSE
         /\ alert' = IF alert = "none" THEN status ELSE alert
    ELSE UNCHANGED <<ctx, spinner, alert>>

\* Mutant: the cart keeps what was paid.
ChargeSucceededKeepsCart(c) ==
    /\ c.stage = "made"
    /\ charges' = charges \ {c}
    /\ DidFinishWith(c, "error")
    /\ UNCHANGED <<guest, cartVars, place, visit, shown, sdk, loading, waiting>>
    /\ UNCHANGED <<hasOption, method, history>>

\* Mutant: the context's completion block is not called.
ChargeSucceededSilently(c) ==
    /\ c.stage = "made"
    /\ charges' = charges \ {c}
    /\ cart' = <<>>
    /\ cleared' = cleared \cup Numbers(cart)
    /\ shown' = IF Current(c) THEN Showing(<<>>, shippingFee) ELSE shown
    /\ UNCHANGED <<guest, shippingFee, place, visit, spinner, alert, ctxVars>>
    /\ UNCHANGED <<paid, added, abandoned, lost>>

\* The answer without an error: the cart is cleared, and the context told
\* completion(.error, nil).
ChargeSucceeded(c) ==
    /\ c.stage = "made"
    /\ charges' = charges \ {c}
    /\ cart' = <<>>
    /\ cleared' = cleared \cup Numbers(cart)
    /\ shown' = IF Current(c) THEN Showing(<<>>, shippingFee) ELSE shown
    /\ DidFinishWith(c, "error")
    /\ UNCHANGED <<guest, shippingFee, place, visit, sdk, loading, waiting>>
    /\ UNCHANGED <<hasOption, method, paid, added, abandoned, lost>>

\* Mutant: the cart is cleared before the error is looked at.
ChargeFailedClearsCart(c) ==
    /\ charges' = charges \ {c}
    /\ cart' = <<>>
    /\ cleared' = cleared \cup Numbers(cart)
    /\ shown' = IF Current(c) THEN Showing(<<>>, shippingFee) ELSE shown
    /\ DidFinishWith(c, "chargeFailed")
    /\ lost' = (lost \/ c.stage = "made")
    /\ UNCHANGED <<guest, shippingFee, place, visit, sdk, loading, waiting>>
    /\ UNCHANGED <<hasOption, method, paid, added, abandoned>>

\* An error, be it before or after the charge was made: an alert, over which
\* that of didFinishWith is not presented.
ChargeFailed(c) ==
    /\ charges' = charges \ {c}
    /\ DidFinishWith(c, "chargeFailed")
    /\ lost' = (lost \/ c.stage = "made")
    /\ UNCHANGED <<guest, cartVars, place, visit, shown, sdk, loading, waiting>>
    /\ UNCHANGED <<hasOption, method, paid, cleared, added, abandoned>>
------------------------------------------------------------------------------
Shopping ==
    \/ \E p \in Products : AddToCart(p) \/ AddToChartButtonPressed(p)
    \/ SessionChanges \/ OpenCart \/ Back \/ RemoveItem

Stripe ==
    \/ PlaceOrderClicked \/ OpenSdkScreen \/ LoadSucceeds \/ LoadFails
    \/ OptionSelected \/ OptionDeleted \/ ShippingSelected \/ SdkScreenCancelled
    \/ Retry \/ PopAfterAlert \/ ChargeFailedOk

Answers == \E c \in charges : ChargeSucceeded(c) \/ ChargeFailed(c)

Next == Shopping \/ Stripe \/ Answers \/ \E c \in charges : ServerCharges(c)

Spec == Init /\ [][Next]_vars

\* Functions and Stripe answer; customers owe nothing.
FairSpec ==
    /\ Spec
    /\ WF_vars(Answers)
    /\ WF_vars(LoadSucceeds \/ LoadFails)
------------------------------------------------------------------------------
\* No product is paid for twice, unless the cart was left while a charge was
\* on its way, or an answer got lost: however often the order is placed, the
\* context lets one charge through at a time and its success empties the cart.
PaidOnce ==
    ~abandoned /\ ~lost => \A n \in 1..MaxEntries : paid[n] <= 1

\* Every cart screen, be it left or not, has one charge on its way at most.
\* While the screen on the stack has one, its context waits for it, so that
\* nothing else of Stripe's opens, and its spinner turns.
ChargeHoldsScreen ==
    \A c \in charges :
        /\ \A d \in charges : d.visit = c.visit => d = c
        /\ Current(c) => ctx = "requesting" /\ sdk = "none" /\ spinner

\* What clearCart throws away has been paid for, unless the cart was left
\* (and filled) while a charge was on its way.
ClearedIsPaid ==
    ~abandoned => \A n \in cleared : paid[n] >= 1

\* The table, the labels and the fee agree with the cart through removals,
\* shipping methods, failures and successes; so what is charged is what was
\* shown.  Unless a charge of another cart screen may come in.
ScreenShowsCart ==
    place = "cart" /\ ~abandoned => shown = Showing(cart, shippingFee)

\* Every charge is answered to the customer: the context is free again, with
\* an alert, or the screen is gone.
ChargeIsReported ==
    \A v \in 1..MaxVisits :
        (\E c \in charges : c.visit = v)
        ~> (place = "shop" \/ visit # v \/ (ctx = "none" /\ alert # "none"))

==============================================================================
