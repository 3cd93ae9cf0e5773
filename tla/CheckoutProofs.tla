---------------------------- MODULE CheckoutProofs ----------------------------
(***************************************************************************)
(* What holds of the cart, the charges and the cart screen for any         *)
(* products, entries, visits to the cart and requests that wait.           *)
(***************************************************************************)
EXTENDS Checkout, TLAPS, SequenceTheorems, WellFoundedInduction

------------------------------------------------------------------------------
(* The invariant. *)

\* A payment is requested only on a screen whose context has loaded.
ContextInv ==
    /\ place = "cart" => visit # 0
    /\ ctx = "requesting" => place = "cart" /\ loading = "done"
    /\ alert = "loadError" => loading = "failed"

\* One charge at a time, of the screen on the stack, whose context waits for it.
OneCharge ==
    ~abandoned =>
        /\ \A c, d \in charges : c = d
        /\ \A c \in charges : /\ place = "cart" /\ c.visit = visit
                              /\ ctx = "requesting" /\ sdk = "none"

\* What was added, and what of it is in the cart, charged, paid and cleared.
Added ==
    /\ \A n \in Numbers(cart) : n \in 1..added
    /\ \A c \in charges : \A n \in Numbers(c.items) : n \in 1..added
    /\ \A n \in 1..MaxEntries : n > added => paid[n] = 0
Charged ==
    ~abandoned =>
        \A c \in charges : /\ Numbers(cart) \subseteq Numbers(c.items)
                           /\ c.stage = "made" => \A n \in Numbers(c.items) : paid[n] >= 1
Unpaid ==
    ~abandoned /\ ~lost =>
        /\ (\A c \in charges : c.stage = "sent") => \A n \in Numbers(cart) : paid[n] = 0
        /\ \A c \in charges : c.stage = "sent" => \A n \in Numbers(c.items) : paid[n] = 0

Ledger == Added /\ Charged /\ Unpaid /\ PaidOnce /\ ClearedIsPaid

IInv == TypeOK /\ ContextInv /\ OneCharge /\ Ledger /\ ScreenShowsCart
------------------------------------------------------------------------------
(* Entries of the cart. *)

LEMMA NumbersOfAppend ==
    ASSUME NEW q \in Seq(Entries), NEW e \in Entries
    PROVE  /\ Append(q, e) \in Seq(Entries)
           /\ Numbers(Append(q, e)) = Numbers(q) \cup {e.n}
<1>1. /\ Append(q, e) \in Seq(Entries) /\ Len(Append(q, e)) = Len(q) + 1
      /\ \A i \in 1..Len(q) : Append(q, e)[i] = q[i]
      /\ Append(q, e)[Len(q) + 1] = e /\ Len(q) \in Nat
    BY AppendProperties
<1> DEFINE a == Append(q, e)
<1>2. Numbers(a) = {a[i].n : i \in 1..Len(q) + 1}
    BY <1>1 DEF Numbers
<1> HIDE DEF a
<1>3. \A i \in 1..Len(q) : a[i].n = q[i].n
    BY <1>1 DEF a
<1>4. a[Len(q) + 1].n = e.n
    BY <1>1 DEF a
<1>5. 1..Len(q) + 1 = 1..Len(q) \cup {Len(q) + 1}
    BY <1>1
<1>6. Numbers(a) = Numbers(q) \cup {e.n}
    <2>1. ASSUME NEW x \in Numbers(a) PROVE x \in Numbers(q) \cup {e.n}
        <3>1. PICK i \in 1..Len(q) + 1 : x = a[i].n
            BY <1>2
        <3>2. CASE i \in 1..Len(q)
            BY <3>1, <3>2, <1>3 DEF Numbers
        <3>3. CASE i = Len(q) + 1
            BY <3>1, <3>3, <1>4
        <3> QED
            BY <3>2, <3>3, <1>5
    <2>2. ASSUME NEW x \in Numbers(q) PROVE x \in Numbers(a)
        <3>1. PICK i \in 1..Len(q) : x = q[i].n
            BY DEF Numbers
        <3> QED
            BY <3>1, <1>2, <1>3, <1>5
    <2>3. e.n \in Numbers(a)
        BY <1>2, <1>4, <1>5
    <2> QED
        BY <2>1, <2>2, <2>3
<1> QED
    BY <1>1, <1>6 DEF a

LEMMA NumbersOfRest ==
    ASSUME NEW q \in Seq(Entries), NEW i \in 1..Len(q)
    PROVE  /\ RemoveAt(q, i) \in Seq(Entries)
           /\ Numbers(RemoveAt(q, i)) \subseteq Numbers(q)
<1> DEFINE b == SubSeq(q, 1, i - 1)
           a == SubSeq(q, i + 1, Len(q))
           r == b \o a
<1>1. Len(q) \in Nat /\ i \in Nat /\ \A j \in 1..Len(q) : q[j] \in Entries
    BY ElementOfSeq
<1>2. b \in Seq(Entries) /\ Len(b) = i - 1 /\ \A j \in 1..i - 1 : b[j] = q[j]
    <2>1. \A j \in 1..i - 1 : q[j] \in Entries
        BY <1>1
    <2>2. /\ SubSeq(q, 1, i - 1) \in Seq(Entries)
          /\ Len(SubSeq(q, 1, i - 1)) = IF 1 <= i - 1 THEN i - 1 - 1 + 1 ELSE 0
          /\ \A j \in 1..i - 1 - 1 + 1 : SubSeq(q, 1, i - 1)[j] = q[1 + j - 1]
        BY <1>1, <2>1, SubSeqProperties
    <2> QED
        BY <2>2, <1>1
<1>3. a \in Seq(Entries) /\ Len(a) = Len(q) - i /\ \A j \in 1..Len(q) - i : a[j] = q[i + j]
    <2>1. \A j \in i + 1..Len(q) : q[j] \in Entries
        BY <1>1
    <2>2. /\ SubSeq(q, i + 1, Len(q)) \in Seq(Entries)
          /\ Len(SubSeq(q, i + 1, Len(q))) = IF i + 1 <= Len(q) THEN Len(q) - (i + 1) + 1 ELSE 0
          /\ \A j \in 1..Len(q) - (i + 1) + 1 : SubSeq(q, i + 1, Len(q))[j] = q[i + 1 + j - 1]
        BY <1>1, <2>1, SubSeqProperties
    <2> QED
        BY <2>2, <1>1
<1> HIDE DEF a, b
<1>4. /\ r \in Seq(Entries) /\ Len(r) = Len(b) + Len(a)
      /\ \A j \in 1..Len(b) + Len(a) : r[j] = IF j <= Len(b) THEN b[j] ELSE a[j - Len(b)]
    BY <1>2, <1>3, ConcatProperties
<1> HIDE DEF r
<1>5. ASSUME NEW j \in 1..Len(r) PROVE \E k \in 1..Len(q) : r[j] = q[k]
    <2>1. j \in 1..Len(q) - 1 /\ Len(b) = i - 1
        BY <1>1, <1>2, <1>3, <1>4
    <2>2. CASE j <= i - 1
        <3>1. r[j] = q[j] /\ j \in 1..Len(q)
            BY <2>1, <2>2, <1>1, <1>2, <1>3, <1>4
        <3> QED
            BY <3>1
    <2>3. CASE j > i - 1
        <3>1. r[j] = a[j - (i - 1)] /\ j - (i - 1) \in 1..Len(q) - i
            BY <2>1, <2>3, <1>1, <1>2, <1>3, <1>4
        <3>2. r[j] = q[i + (j - (i - 1))] /\ i + (j - (i - 1)) \in 1..Len(q)
            BY <3>1, <2>1, <1>1, <1>3
        <3> QED
            BY <3>2
    <2> QED
        BY <2>1, <2>2, <2>3, <1>1
<1>6. Numbers(r) \subseteq Numbers(q)
    BY <1>5 DEF Numbers
<1>7. RemoveAt(q, i) = r
    BY DEF RemoveAt, r, a, b
<1> QED
    BY <1>4, <1>6, <1>7

LEMMA HasLeast ==
    ASSUME NEW S, S \subseteq Nat, S # {}
    PROVE  \E n \in S : \A m \in S : n <= m
<1> DEFINE R == {ss \in Nat \X Nat : ss[1] < ss[2]}
<1>1. IsWellFoundedOn(R, Nat)
    BY NatLessThanWellFounded DEF OpToRel
<1>2. PICK n \in S : \A m \in S : ~(<<m, n>> \in R)
    <2> HIDE DEF R
    <2> QED
        BY <1>1, WFMin
<1>3. \A m \in S : ~(m < n)
    BY <1>2
<1> QED
    BY <1>3

\* removeItemFromCart takes an entry out, or none.
LEMMA RemoveItemFacts ==
    ASSUME TypeOK, RemoveItem
    PROVE  cart' \in Seq(Entries) /\ Numbers(cart') \subseteq Numbers(cart)
<1>1. PICK row \in 1..Len(shown.rows) :
         LET same == {i \in 1..Len(cart) : cart[i].product = shown.rows[row].product}
         IN  cart' = IF same = {} THEN cart ELSE RemoveAt(cart, CHOOSE i \in same : \A j \in same : i <= j)
    BY DEF RemoveItem
<1> DEFINE same == {i \in 1..Len(cart) : cart[i].product = shown.rows[row].product}
           first == CHOOSE i \in same : \A j \in same : i <= j
<1>2. cart' = IF same = {} THEN cart ELSE RemoveAt(cart, first)
    BY <1>1
<1>3. cart \in Seq(Entries)
    BY DEF TypeOK
<1>4. CASE same = {}
    BY <1>2, <1>3, <1>4
<1>5. CASE same # {}
    <2>1. same \subseteq Nat /\ same \subseteq 1..Len(cart)
        OBVIOUS
    <2> HIDE DEF same
    <2>2. \E i \in same : \A j \in same : i <= j
        BY <1>5, <2>1, HasLeast
    <2>3. first \in same
        BY <2>2, Zenon
    <2>4. first \in 1..Len(cart)
        BY <2>1, <2>3
    <2> HIDE DEF first
    <2>5. RemoveAt(cart, first) \in Seq(Entries) /\ Numbers(RemoveAt(cart, first)) \subseteq Numbers(cart)
        BY <1>3, <2>4, NumbersOfRest
    <2> QED
        BY <1>2, <1>5, <2>5
<1> QED
    BY <1>4, <1>5

\* An entry is counted as paid once, or more than once.
LEMMA PaidMore ==
    ASSUME NEW k \in 0..2
    PROVE  /\ Min({2, k + 1}) \in 1..2
           /\ k = 0 => Min({2, k + 1}) = 1
<1> DEFINE S == {2, k + 1}
           Least(x) == \A y \in S : x =< y
<1>1. \E x \in S : Least(x)
    <2>1. CASE k + 1 <= 2
        BY <2>1
    <2>2. CASE k + 1 > 2
        BY <2>2
    <2> QED
        BY <2>1, <2>2
<1>2. \A x \in S : Least(x) => x \in 1..2 /\ (k = 0 => x = 1)
    OBVIOUS
<1>3. Min(S) = CHOOSE x \in S : Least(x)
    BY DEF Min
<1> HIDE DEF S, Least
<1>4. Min(S) \in S /\ Least(Min(S))
    BY <1>1, <1>3, Zenon
<1> QED
    BY <1>2, <1>4 DEF S
------------------------------------------------------------------------------
(* What steps have in common. *)

LEMMA CheckoutInitially == Init => IInv
<1> SUFFICES ASSUME Init PROVE IInv
    OBVIOUS
<1>1. TypeOK
    <2> DEFINE none == <<>>
    <2>1. none \in Seq(Entries)
        OBVIOUS
    <2>2. cart = none /\ shown = Showing(none, "none")
        BY DEF Init
    <2> HIDE DEF none
    <2>3. shown \in [rows : Seq(Entries), priced : Seq(Entries), fee : {"none"} \cup Methods]
        BY <2>1, <2>2 DEF Showing
    <2> QED
        <3>1. guest \in BOOLEAN /\ spinner \in BOOLEAN /\ hasOption \in BOOLEAN
            BY Zenon DEF Init
        <3>2. abandoned \in BOOLEAN /\ lost \in BOOLEAN
            BY Zenon DEF Init
        <3>3. paid \in [1..MaxEntries -> 0..2] /\ charges \subseteq Charge /\ cleared \subseteq 1..MaxEntries
            BY DEF Init
        <3>4. /\ shippingFee \in {"none"} \cup Methods /\ place \in {"shop", "cart"}
              /\ alert \in {"none", "loadError", "chargeFailed", "error", "success"}
              /\ ctx \in {"none", "requesting", "showing"} /\ sdk \in {"none", "options", "shipping"}
              /\ loading \in {"pending", "done", "failed"} /\ method \in {"none"} \cup Methods
            BY DEF Init
        <3>5. visit \in 0..MaxVisits /\ waiting \in 0..MaxWaiting /\ added \in 0..MaxEntries
            BY CheckoutAssumption DEF Init
        <3> QED
            BY <2>1, <2>2, <2>3, <3>1, <3>2, <3>3, <3>4, <3>5 DEF TypeOK
<1>2. ContextInv /\ OneCharge /\ ScreenShowsCart
    BY DEF Init, ContextInv, OneCharge, ScreenShowsCart
<1>3. Numbers(cart) = {}
    BY DEF Init, Numbers
<1>4. Ledger
    BY <1>3, CheckoutAssumption DEF Init, Ledger, Added, Charged, Unpaid, PaidOnce, ClearedIsPaid
<1> QED
    BY <1>1, <1>2, <1>4 DEF IInv

\* Steps that leave the cart and what was charged alone.
LEMMA LedgerSame ==
    ASSUME Ledger, UNCHANGED <<cart, charges, paid, cleared, added, abandoned, lost>>
    PROVE  Ledger'
    BY DEF Ledger, Added, Charged, Unpaid, PaidOnce, ClearedIsPaid, Numbers

\* The cart, on the screen, is charged; no charge is on its way.
LEMMA NewCharge ==
    ASSUME IInv, NEW fee \in {"none"} \cup Methods, DidCreatePaymentResult(fee),
           place = "cart", ~abandoned => charges = {},
           UNCHANGED <<cart, paid, cleared, added, abandoned, lost>>
    PROVE  /\ charges' \subseteq Charge /\ Ledger'
           /\ ~abandoned => \A c, d \in charges' : c = d /\ c.visit = visit
<1> DEFINE new == [visit |-> visit, items |-> cart, fee |-> fee, stage |-> "sent"]
<1>1. /\ charges' = charges \cup {new}
      /\ new.visit = visit /\ new.items = cart /\ new.stage = "sent"
    BY DEF DidCreatePaymentResult
<1>2. new \in Charge
    BY CheckoutAssumption DEF IInv, TypeOK, ContextInv, Charge
<1> HIDE DEF new
<1>3. charges' \subseteq Charge
    BY <1>1, <1>2 DEF IInv, TypeOK
<1>4. ~abandoned => charges' = {new}
    BY <1>1
<1>5. /\ Numbers(cart)' = Numbers(cart)
      /\ \A c \in charges : Numbers(c.items)' = Numbers(c.items)
      /\ \A c \in charges' : c \in charges \/ c = new
    BY <1>1 DEF Numbers
<1>6. Added'
    BY <1>1, <1>5 DEF IInv, Ledger, Added, Numbers
<1>7. Charged'
    BY <1>1, <1>4, <1>5 DEF Charged, Numbers
<1>8. Unpaid'
    <2> SUFFICES ASSUME ~abandoned, ~lost
                 PROVE  \A n \in Numbers(cart) : paid[n] = 0
        BY <1>1, <1>4, <1>5 DEF Unpaid, Numbers
    <2> QED
        BY DEF IInv, Ledger, Unpaid
<1>9. PaidOnce' /\ ClearedIsPaid'
    BY DEF IInv, Ledger, PaidOnce, ClearedIsPaid
<1> QED
    BY <1>1, <1>3, <1>4, <1>6, <1>7, <1>8, <1>9 DEF Ledger

\* requestPayment, of a context that is free only if no charge is on its way.
LEMMA RequestStep ==
    ASSUME IInv, NEW state \in {"none", "requesting", "showing"}, NEW option, NEW selected,
           NEW fee \in {"none"} \cup Methods, RequestPayment(state, option, selected, fee),
           place = "cart",
           IF state = "none" THEN ~abandoned => charges = {} ELSE state = ctx,
           UNCHANGED <<cart, place, visit, paid, cleared, added, abandoned, lost>>
    PROVE  /\ charges' \subseteq Charge /\ Ledger' /\ OneCharge'
           /\ ctx' \in {"none", "requesting", "showing"} /\ sdk' \in {"none", "options", "shipping"}
           /\ state = "showing" => ctx' # "requesting"
<1>1. /\ charges \subseteq Charge /\ Ledger /\ OneCharge /\ sdk \in {"none", "options", "shipping"}
    BY DEF IInv, TypeOK
<1>2. CASE state # "none"
    <2>1. ctx' = ctx /\ ctx = state /\ sdk' = sdk /\ charges' = charges
        BY <1>2 DEF RequestPayment
    <2>2. Ledger'
        BY <2>1, <1>1, LedgerSame
    <2>3. OneCharge'
        BY <2>1, <1>1 DEF OneCharge
    <2> QED
        BY <2>1, <2>2, <2>3, <1>1, <1>2
<1>3. CASE /\ state = "none" /\ charges' = charges
           /\ ctx' = "requesting" /\ sdk' \in {"options", "shipping"}
    <2>1. Ledger'
        BY <1>3, <1>1, LedgerSame
    <2>2. OneCharge'
        BY <1>3 DEF OneCharge
    <2> QED
        BY <2>1, <2>2, <1>1, <1>3
<1>4. CASE /\ state = "none" /\ DidCreatePaymentResult(fee)
           /\ ctx' = "requesting" /\ sdk' = "none"
    <2>1. /\ charges' \subseteq Charge /\ Ledger'
          /\ ~abandoned => \A c, d \in charges' : c = d /\ c.visit = visit
        BY <1>4, NewCharge
    <2>2. OneCharge'
        BY <2>1, <1>4 DEF OneCharge
    <2> QED
        BY <2>1, <2>2, <1>4
<1> QED
    BY <1>2, <1>3, <1>4 DEF RequestPayment
------------------------------------------------------------------------------
(* The invariant is kept by what the customer does. *)

LEMMA AddStep ==
    ASSUME IInv, NEW p \in Products, place = "shop", addItemToCart(p),
           UNCHANGED <<guest, shippingFee, screenVars, ctxVars, charges>>,
           UNCHANGED <<paid, cleared, abandoned, lost>>
    PROVE  IInv'
<1> DEFINE e == [product |-> p, n |-> added + 1]
<1>1. added < MaxEntries /\ added' = added + 1 /\ cart' = Append(cart, e)
    BY DEF addItemToCart
<1>2. cart \in Seq(Entries) /\ added \in 0..MaxEntries /\ charges \subseteq Charge
    BY DEF IInv, TypeOK
<1>3. e \in Entries /\ e.n = added + 1 /\ added + 1 \in 1..MaxEntries
    BY <1>1, <1>2, CheckoutAssumption DEF Entries
<1> HIDE DEF e
<1>4. cart' \in Seq(Entries) /\ Numbers(cart)' = Numbers(cart) \cup {added + 1}
    <2>1. /\ Append(cart, e) \in Seq(Entries)
          /\ Numbers(Append(cart, e)) = Numbers(cart) \cup {added + 1}
        BY <1>2, <1>3, NumbersOfAppend
    <2>2. Numbers(cart)' = Numbers(cart')
        BY DEF Numbers
    <2> QED
        BY <1>1, <2>1, <2>2
<1>5. ~abandoned => charges = {}
    BY DEF IInv, OneCharge
<1>6. TypeOK'
    BY <1>1, <1>3, <1>4 DEF IInv, TypeOK, screenVars, ctxVars
<1>7. ContextInv' /\ OneCharge' /\ ScreenShowsCart'
    BY DEF IInv, ContextInv, OneCharge, ScreenShowsCart, screenVars, ctxVars
<1>8. Added'
    <2>1. \A n \in 1..added : n \in 1..added'
        BY <1>1, <1>2
    <2>2. \A n \in Numbers(cart) : n \in 1..added
        BY DEF IInv, Ledger, Added
    <2>3. \A c \in charges : \A n \in Numbers(c.items) : n \in 1..added
        BY DEF IInv, Ledger, Added
    <2>4. \A n \in 1..MaxEntries : n > added => paid[n] = 0
        BY DEF IInv, Ledger, Added
    <2>5. added + 1 \in 1..added'
        BY <1>1, <1>2
    <2>6. \A n \in Numbers(cart)' : n \in 1..added'
        BY <2>1, <2>2, <2>5, <1>4
    <2>7. \A n \in 1..MaxEntries : n > added' => paid[n] = 0
        BY <2>4, <1>1, <1>2
    <2>8. \A c \in charges : Numbers(c.items)' = Numbers(c.items)
        BY DEF Numbers
    <2> QED
        BY <2>1, <2>3, <2>6, <2>7, <2>8 DEF Added
<1>9. Charged'
    BY <1>5 DEF Charged
<1>10. Unpaid'
    <2> SUFFICES ASSUME ~abandoned, ~lost PROVE \A n \in Numbers(cart)' : paid[n] = 0
        BY <1>5 DEF Unpaid
    <2>1. \A n \in Numbers(cart) : paid[n] = 0
        BY <1>5 DEF IInv, Ledger, Unpaid
    <2>2. paid[added + 1] = 0
        BY <1>2, <1>3 DEF IInv, Ledger, Added
    <2> QED
        BY <2>1, <2>2, <1>4
<1>11. PaidOnce' /\ ClearedIsPaid'
    BY DEF IInv, Ledger, PaidOnce, ClearedIsPaid
<1> QED
    BY <1>6, <1>7, <1>8, <1>9, <1>10, <1>11 DEF IInv, Ledger

LEMMA SessionStep == ASSUME IInv, SessionChanges PROVE IInv'
<1>1. UNCHANGED <<cartVars, screenVars, ctxVars, charges, history>> /\ guest' \in BOOLEAN
    BY DEF SessionChanges, IInv, TypeOK
<1>2. TypeOK'
    BY <1>1 DEF IInv, TypeOK, cartVars, screenVars, ctxVars, history
<1>3. ContextInv' /\ OneCharge' /\ ScreenShowsCart'
    BY <1>1 DEF IInv, ContextInv, OneCharge, ScreenShowsCart, cartVars, screenVars, ctxVars, history
<1>4. Ledger'
    BY <1>1, LedgerSame DEF IInv, cartVars, history
<1> QED
    BY <1>2, <1>3, <1>4 DEF IInv

LEMMA OpenStep == ASSUME IInv, OpenCart PROVE IInv'
<1>1. /\ place = "shop" /\ visit < MaxVisits
      /\ place' = "cart" /\ visit' = visit + 1
      /\ shown' = Showing(cart, shippingFee)
      /\ spinner' = FALSE /\ alert' = "none"
      /\ ctx' = "none" /\ sdk' = "none" /\ loading' = "pending" /\ waiting' = 0
      /\ hasOption' = FALSE /\ method' = "none"
      /\ UNCHANGED <<guest, cartVars, charges, history>>
    BY DEF OpenCart
<1>2. shown' \in [rows : Seq(Entries), priced : Seq(Entries), fee : {"none"} \cup Methods]
    BY <1>1 DEF IInv, TypeOK, Showing
<1>3. visit' \in 0..MaxVisits /\ visit' # 0
    BY <1>1, CheckoutAssumption DEF IInv, TypeOK
<1>4. TypeOK'
    <2>1. spinner' \in BOOLEAN /\ hasOption' \in BOOLEAN
        BY <1>1, Zenon
    <2>2. /\ ctx' \in {"none", "requesting", "showing"} /\ sdk' \in {"none", "options", "shipping"}
          /\ loading' \in {"pending", "done", "failed"} /\ method' \in {"none"} \cup Methods
          /\ alert' \in {"none", "loadError", "chargeFailed", "error", "success"}
          /\ place' \in {"shop", "cart"} /\ waiting' \in 0..MaxWaiting
        BY <1>1, CheckoutAssumption
    <2>3. UNCHANGED <<guest, cart, shippingFee, charges, paid, cleared, added, abandoned, lost>>
        BY <1>1 DEF cartVars, history
    <2> QED
        BY <1>2, <1>3, <2>1, <2>2, <2>3 DEF IInv, TypeOK
<1>5. ContextInv'
    BY <1>1, <1>3 DEF ContextInv
<1>6. OneCharge'
    BY <1>1 DEF IInv, OneCharge, history
<1>7. Ledger'
    BY <1>1, LedgerSame DEF IInv, cartVars, history
<1>8. ScreenShowsCart'
    BY <1>1 DEF ScreenShowsCart, cartVars, Showing
<1> QED
    BY <1>4, <1>5, <1>6, <1>7, <1>8 DEF IInv

LEMMA LeaveStep == ASSUME IInv, Leave PROVE IInv'
<1>1. /\ place' = "shop" /\ shown' = Showing(<<>>, "none")
      /\ spinner' = FALSE /\ alert' = "none"
      /\ ctx' = "none" /\ sdk' = "none" /\ loading' = "pending" /\ waiting' = 0
      /\ hasOption' = FALSE /\ method' = "none"
      /\ abandoned' = (abandoned \/ \E c \in charges : c.visit = visit)
      /\ UNCHANGED <<guest, cartVars, visit, charges, paid, cleared, added, lost>>
    BY DEF Leave
<1>2. shown' \in [rows : Seq(Entries), priced : Seq(Entries), fee : {"none"} \cup Methods]
    <2> DEFINE none == <<>>
    <2>1. none \in Seq(Entries) /\ shown' = Showing(none, "none")
        BY <1>1
    <2> HIDE DEF none
    <2> QED
        BY <2>1 DEF Showing
<1>3. abandoned' \in BOOLEAN
    BY <1>1, Zenon
<1>4. TypeOK'
    <2>1. spinner' \in BOOLEAN /\ hasOption' \in BOOLEAN
        BY <1>1, Zenon
    <2>2. /\ ctx' \in {"none", "requesting", "showing"} /\ sdk' \in {"none", "options", "shipping"}
          /\ loading' \in {"pending", "done", "failed"} /\ method' \in {"none"} \cup Methods
          /\ alert' \in {"none", "loadError", "chargeFailed", "error", "success"}
          /\ place' \in {"shop", "cart"} /\ waiting' \in 0..MaxWaiting
        BY <1>1, CheckoutAssumption
    <2>3. UNCHANGED <<guest, cart, shippingFee, visit, charges, paid, cleared, added, lost>>
        BY <1>1 DEF cartVars
    <2> QED
        BY <1>2, <1>3, <2>1, <2>2, <2>3 DEF IInv, TypeOK
<1>5. ~abandoned' => ~abandoned /\ charges = {}
    BY <1>1 DEF IInv, OneCharge
<1>6. ContextInv' /\ OneCharge' /\ ScreenShowsCart'
    BY <1>1, <1>5 DEF ContextInv, OneCharge, ScreenShowsCart
<1>7. Ledger'
    BY <1>1, <1>5 DEF IInv, Ledger, Added, Charged, Unpaid, PaidOnce, ClearedIsPaid, Numbers, cartVars
<1> QED
    BY <1>4, <1>6, <1>7 DEF IInv

LEMMA RemoveStep == ASSUME IInv, RemoveItem PROVE IInv'
<1>1. /\ AtCart /\ shown' = Showing(cart', shippingFee)
      /\ UNCHANGED <<guest, shippingFee, place, visit, spinner, alert, ctxVars, charges, history>>
    BY DEF RemoveItem
<1>2. cart' \in Seq(Entries) /\ Numbers(cart') \subseteq Numbers(cart) /\ Numbers(cart)' = Numbers(cart')
    BY RemoveItemFacts DEF IInv, Numbers
<1>3. shown' \in [rows : Seq(Entries), priced : Seq(Entries), fee : {"none"} \cup Methods]
    BY <1>1, <1>2 DEF IInv, TypeOK, Showing
<1>4. TypeOK'
    BY <1>1, <1>2, <1>3 DEF IInv, TypeOK, ctxVars, history
<1>5. ContextInv' /\ OneCharge'
    BY <1>1 DEF IInv, ContextInv, OneCharge, ctxVars, history
<1>6. ScreenShowsCart'
    BY <1>1 DEF ScreenShowsCart, Showing
<1>7. \A c \in charges : Numbers(c.items)' = Numbers(c.items)
    BY DEF Numbers
<1>8. charges' = charges /\ paid' = paid /\ cleared' = cleared /\ added' = added
      /\ abandoned' = abandoned /\ lost' = lost
    BY <1>1 DEF history
<1>9. Added' /\ Charged'
    BY <1>2, <1>7, <1>8 DEF IInv, Ledger, Added, Charged
<1>10. Unpaid'
    BY <1>2, <1>7, <1>8 DEF IInv, Ledger, Unpaid
<1>11. PaidOnce' /\ ClearedIsPaid'
    BY <1>8 DEF IInv, Ledger, PaidOnce, ClearedIsPaid
<1> QED
    BY <1>4, <1>5, <1>6, <1>9, <1>10, <1>11 DEF IInv, Ledger
------------------------------------------------------------------------------
(* The invariant is kept by the payment context. *)

States == {"none", "requesting", "showing"}
SdkScreens == {"none", "options", "shipping"}

\* Steps on the cart screen that leave the cart alone.
LEMMA StripeStep ==
    ASSUME IInv, UNCHANGED <<guest, cart, place, visit, history>>,
           shippingFee' \in {"none"} \cup Methods,
           shown' \in [rows : Seq(Entries), priced : Seq(Entries), fee : {"none"} \cup Methods],
           spinner' \in BOOLEAN,
           alert' \in {"none", "loadError", "chargeFailed", "error", "success"},
           ctx' \in States, sdk' \in SdkScreens,
           loading' \in {"pending", "done", "failed"}, waiting' \in 0..MaxWaiting,
           hasOption' \in BOOLEAN, method' \in {"none"} \cup Methods,
           charges' \subseteq Charge,
           ContextInv', OneCharge', Ledger', ScreenShowsCart'
    PROVE  IInv'
<1>1. TypeOK'
    BY DEF IInv, TypeOK, history, States, SdkScreens
<1> QED
    BY <1>1 DEF IInv

\* Steps that send no charge either, while none is on its way or else on a
\* context that goes on waiting.
LEMMA ScreenStep ==
    ASSUME IInv, UNCHANGED <<guest, cartVars, place, visit, shown, charges, history>>,
           spinner' \in BOOLEAN,
           alert' \in {"none", "loadError", "chargeFailed", "error", "success"},
           ctx' \in States, sdk' \in SdkScreens,
           loading' \in {"pending", "done", "failed"}, waiting' \in 0..MaxWaiting,
           hasOption' \in BOOLEAN, method' \in {"none"} \cup Methods,
           ContextInv',
           (ctx' = ctx /\ sdk' = sdk) \/ (~abandoned => charges = {})
    PROVE  IInv'
<1>1. Ledger'
    BY LedgerSame DEF IInv, cartVars, history
<1>2. OneCharge' /\ ScreenShowsCart'
    BY DEF IInv, OneCharge, ScreenShowsCart, cartVars, history
<1>3. UNCHANGED <<guest, cart, place, visit, history>> /\ shippingFee' = shippingFee
    BY DEF cartVars
<1>4. /\ shippingFee' \in {"none"} \cup Methods /\ charges' \subseteq Charge
      /\ shown' \in [rows : Seq(Entries), priced : Seq(Entries), fee : {"none"} \cup Methods]
    BY <1>3 DEF IInv, TypeOK
<1> QED
    BY <1>1, <1>2, <1>3, <1>4, StripeStep

\* What is known of the screen and its context before a step.
LEMMA Before ==
    ASSUME IInv
    PROVE  /\ shippingFee \in {"none"} \cup Methods /\ charges \subseteq Charge
           /\ shown \in [rows : Seq(Entries), priced : Seq(Entries), fee : {"none"} \cup Methods]
           /\ spinner \in BOOLEAN /\ hasOption \in BOOLEAN
           /\ alert \in {"none", "loadError", "chargeFailed", "error", "success"}
           /\ ctx \in States /\ sdk \in SdkScreens
           /\ loading \in {"pending", "done", "failed"} /\ waiting \in 0..MaxWaiting
           /\ method \in {"none"} \cup Methods
           /\ 0 \in 0..MaxWaiting
           /\ ctx = "requesting" => place = "cart" /\ loading = "done"
           /\ ctx # "requesting" \/ sdk # "none" => (~abandoned => charges = {})
<1>1. 0 \in 0..MaxWaiting
    BY CheckoutAssumption
<1>2. ctx # "requesting" \/ sdk # "none" => (~abandoned => charges = {})
    BY DEF IInv, OneCharge
<1>3. TypeOK /\ ContextInv
    BY DEF IInv
<1> QED
    BY <1>1, <1>2, <1>3 DEF TypeOK, ContextInv, States, SdkScreens

LEMMA OpenSdkStep == ASSUME IInv, OpenSdkScreen PROVE IInv'
<1>1. /\ ctx = "none" /\ ctx' = "showing" /\ sdk' \in {"options", "shipping"}
      /\ UNCHANGED <<guest, cartVars, screenVars, loading, waiting, hasOption, method, charges, history>>
    BY DEF OpenSdkScreen
<1>2. UNCHANGED <<place, visit, shown, spinner, alert>>
    BY <1>1 DEF screenVars
<1>3. ContextInv'
    BY <1>1, <1>2 DEF IInv, ContextInv
<1> QED
    BY <1>1, <1>2, <1>3, Before, ScreenStep DEF States, SdkScreens

LEMMA LoadFailsStep == ASSUME IInv, LoadFails PROVE IInv'
<1>1. /\ place = "cart" /\ loading = "pending" /\ loading' = "failed" /\ waiting' = 0
      /\ spinner' = FALSE
      /\ sdk' \in {"none", sdk} /\ alert' \in {alert, "loadError"} /\ ctx' \in {"none", ctx}
      /\ UNCHANGED <<guest, cartVars, place, visit, shown, hasOption, method, charges, history>>
    BY DEF LoadFails
<1>2. spinner' \in BOOLEAN
    BY <1>1, Zenon
<1>3. ctx # "requesting" /\ ctx' # "requesting"
    BY <1>1, Before
<1>4. ContextInv'
    BY <1>1, <1>3 DEF IInv, ContextInv
<1>5. /\ ctx' \in States /\ sdk' \in SdkScreens
      /\ alert' \in {"none", "loadError", "chargeFailed", "error", "success"}
    BY <1>1, Before DEF States, SdkScreens
<1> QED
    BY <1>1, <1>2, <1>3, <1>4, <1>5, Before, ScreenStep

LEMMA OptionDeletedStep == ASSUME IInv, OptionDeleted PROVE IInv'
<1>1. /\ hasOption' = FALSE
      /\ UNCHANGED <<guest, cartVars, screenVars, ctx, sdk, loading, waiting, method, charges, history>>
    BY DEF OptionDeleted
<1>2. hasOption' \in BOOLEAN
    BY <1>1, Zenon
<1>3. UNCHANGED <<place, visit, shown, spinner, alert>>
    BY <1>1 DEF screenVars
<1>4. ContextInv'
    BY <1>1, <1>3 DEF IInv, ContextInv
<1> QED
    BY <1>1, <1>2, <1>3, <1>4, Before, ScreenStep

LEMMA CancelStep == ASSUME IInv, SdkScreenCancelled PROVE IInv'
<1>1. /\ sdk # "none" /\ ctx' = "none" /\ sdk' = "none"
      /\ UNCHANGED <<guest, cartVars, place, visit, shown, alert, loading, waiting,
                     hasOption, method, charges, history>>
    BY DEF SdkScreenCancelled
<1>2. spinner' \in BOOLEAN
    BY Before, Zenon DEF SdkScreenCancelled
<1>3. ContextInv'
    BY <1>1 DEF IInv, ContextInv
<1> QED
    BY <1>1, <1>2, <1>3, Before, ScreenStep DEF States, SdkScreens

LEMMA RetryStep == ASSUME IInv, Retry PROVE IInv'
<1>1. /\ alert = "loadError" /\ alert' = "none" /\ loading' = "pending"
      /\ UNCHANGED <<guest, cartVars, place, visit, shown, spinner, ctx, sdk, waiting,
                     hasOption, method, charges, history>>
    BY DEF Retry
<1>2. ContextInv'
    BY <1>1 DEF IInv, ContextInv
<1> QED
    BY <1>1, <1>2, Before, ScreenStep

LEMMA ChargeFailedOkStep == ASSUME IInv, ChargeFailedOk PROVE IInv'
<1>1. /\ alert' = "none"
      /\ UNCHANGED <<guest, cartVars, place, visit, shown, spinner, ctxVars, charges, history>>
    BY DEF ChargeFailedOk
<1>2. UNCHANGED <<ctx, sdk, loading, waiting, hasOption, method>>
    BY <1>1 DEF ctxVars
<1>3. ContextInv'
    BY <1>1, <1>2 DEF IInv, ContextInv
<1> QED
    BY <1>1, <1>2, <1>3, Before, ScreenStep

LEMMA PlaceOrderStep == ASSUME IInv, PlaceOrderClicked PROVE IInv'
<1>1. /\ place = "cart"
      /\ spinner' = TRUE
      /\ UNCHANGED <<guest, cartVars, place, visit, shown, loading, hasOption, method, history>>
    BY DEF PlaceOrderClicked, AtCart
<1>2. spinner' \in BOOLEAN
    BY <1>1, Zenon
<1>3. CASE /\ loading = "pending" /\ waiting < MaxWaiting /\ waiting' = waiting + 1
           /\ UNCHANGED <<ctx, sdk, charges, alert>>
    <2>1. ContextInv'
        BY <1>1, <1>3 DEF IInv, ContextInv
    <2>2. waiting' \in 0..MaxWaiting
        BY <1>3, Before, CheckoutAssumption
    <2> QED
        BY <1>1, <1>2, <1>3, <2>1, <2>2, Before, ScreenStep
<1>4. CASE /\ loading = "failed" /\ ctx' = "none" /\ alert' = "error"
           /\ UNCHANGED <<sdk, waiting, charges>>
    <2>1. ContextInv'
        BY <1>1, <1>4 DEF IInv, ContextInv
    <2>2. ctx # "requesting"
        BY <1>4, Before
    <2> QED
        BY <1>1, <1>2, <1>4, <2>1, <2>2, Before, ScreenStep DEF States
<1>5. CASE /\ loading = "done"
           /\ RequestPayment(ctx, hasOption, method, shippingFee)
           /\ UNCHANGED <<waiting, alert>>
    <2>1. UNCHANGED <<cart, shippingFee, paid, cleared, added, abandoned, lost>>
        BY <1>1 DEF cartVars, history
    <2>2. ctx = "none" => (~abandoned => charges = {})
        BY Before
    <2>3. ctx \in {"none", "requesting", "showing"}
        BY Before DEF States
    <2>4. /\ charges' \subseteq Charge /\ Ledger' /\ OneCharge'
          /\ ctx' \in States /\ sdk' \in SdkScreens
        BY <1>1, <1>5, <2>1, <2>2, <2>3, Before, RequestStep DEF States, SdkScreens
    <2>5. ContextInv' /\ ScreenShowsCart'
        BY <1>1, <1>5, <2>1 DEF IInv, ContextInv, ScreenShowsCart
    <2> QED
        BY <1>1, <1>2, <1>5, <2>1, <2>4, <2>5, Before, StripeStep
<1> QED
    BY <1>3, <1>4, <1>5 DEF PlaceOrderClicked

LEMMA LoadSucceedsStep == ASSUME IInv, LoadSucceeds PROVE IInv'
<1>1. /\ place = "cart" /\ loading = "pending" /\ loading' = "done" /\ waiting' = 0
      /\ hasOption' \in BOOLEAN
      /\ UNCHANGED <<guest, cartVars, screenVars, method, history>>
    BY DEF LoadSucceeds
<1>2. /\ UNCHANGED <<place, visit, shown, spinner, alert>>
      /\ UNCHANGED <<cart, shippingFee, paid, cleared, added, abandoned, lost>>
    BY <1>1 DEF cartVars, screenVars, history
<1>3. /\ ctx \in {"none", "showing"} /\ (~abandoned => charges = {})
    BY <1>1, Before DEF States
<1>4. ContextInv' /\ ScreenShowsCart'
    BY <1>1, <1>2 DEF IInv, ContextInv, ScreenShowsCart
<1>5. /\ charges' \subseteq Charge /\ Ledger' /\ OneCharge'
      /\ ctx' \in States /\ sdk' \in SdkScreens
    <2>1. CASE RequestPayment(ctx, hasOption', method, shippingFee)
        <3> DEFINE option == hasOption'
        <3>1. RequestPayment(ctx, option, method, shippingFee)
            BY <2>1
        <3> HIDE DEF option
        <3> QED
            BY <3>1, <1>1, <1>2, <1>3, Before, RequestStep DEF States, SdkScreens
    <2>2. CASE UNCHANGED <<ctx, sdk, charges>>
        <3>1. Ledger'
            BY <1>2, <2>2, LedgerSame DEF IInv
        <3>2. OneCharge'
            BY <1>2, <1>3, <2>2 DEF OneCharge
        <3> QED
            BY <2>2, <3>1, <3>2, Before
    <2> QED
        BY <2>1, <2>2 DEF LoadSucceeds
<1> QED
    BY <1>1, <1>2, <1>4, <1>5, Before, StripeStep

\* A Stripe screen that is done lets a payment that was requested go on.
LEMMA FinishedStep ==
    ASSUME IInv, sdk # "none", NEW option, NEW selected, NEW fee \in {"none"} \cup Methods,
           Finished(option, selected, fee),
           UNCHANGED <<cart, place, visit, paid, cleared, added, abandoned, lost>>
    PROVE  /\ charges' \subseteq Charge /\ Ledger' /\ OneCharge'
           /\ ctx' \in States /\ sdk' \in SdkScreens
           /\ ctx' = "requesting" => ctx = "requesting"
<1>1. ~abandoned => charges = {}
    BY Before
<1>2. CASE ctx = "requesting"
    <2>1. RequestPayment("none", option, selected, fee) /\ place = "cart"
        BY <1>2, Before DEF Finished
    <2>2. /\ charges' \subseteq Charge /\ Ledger' /\ OneCharge'
          /\ ctx' \in {"none", "requesting", "showing"} /\ sdk' \in {"none", "options", "shipping"}
        BY <1>1, <2>1, RequestStep
    <2> QED
        BY <1>2, <2>2 DEF States, SdkScreens
<1>3. CASE ctx # "requesting"
    <2>1. ctx' = "none" /\ sdk' = "none" /\ charges' = charges
        BY <1>3 DEF Finished
    <2>2. Ledger'
        BY <2>1, LedgerSame DEF IInv
    <2>3. OneCharge'
        BY <1>1, <2>1 DEF OneCharge
    <2> QED
        BY <2>1, <2>2, <2>3, Before DEF States, SdkScreens
<1> QED
    BY <1>2, <1>3

LEMMA OptionSelectedStep == ASSUME IInv, OptionSelected PROVE IInv'
<1> DEFINE option == TRUE
<1>1. /\ sdk = "options" /\ loading = "done" /\ hasOption' = TRUE
      /\ Finished(option, method, shippingFee)
      /\ UNCHANGED <<guest, cartVars, screenVars, loading, waiting, method, history>>
    BY DEF OptionSelected
<1> HIDE DEF option
<1>2. /\ UNCHANGED <<place, visit, shown, spinner, alert>>
      /\ UNCHANGED <<cart, shippingFee, paid, cleared, added, abandoned, lost>>
    BY <1>1 DEF cartVars, screenVars, history
<1>3. hasOption' \in BOOLEAN
    BY <1>1, Zenon
<1>4. /\ charges' \subseteq Charge /\ Ledger' /\ OneCharge'
      /\ ctx' \in States /\ sdk' \in SdkScreens
      /\ ctx' = "requesting" => ctx = "requesting"
    BY <1>1, <1>2, Before, FinishedStep
<1>5. ContextInv' /\ ScreenShowsCart'
    BY <1>1, <1>2, <1>4 DEF IInv, ContextInv, ScreenShowsCart
<1> QED
    BY <1>1, <1>2, <1>3, <1>4, <1>5, Before, StripeStep

LEMMA ShippingSelectedStep == ASSUME IInv, ShippingSelected PROVE IInv'
<1>1. /\ sdk = "shipping" /\ method' \in Methods /\ shippingFee' = method'
      /\ shown' = [shown EXCEPT !.priced = cart, !.fee = method']
      /\ Finished(hasOption, method', method')
      /\ UNCHANGED <<guest, cart, place, visit, spinner, alert, loading, waiting, hasOption, history>>
    BY DEF ShippingSelected
<1>2. UNCHANGED <<paid, cleared, added, abandoned, lost>>
    BY <1>1 DEF history
<1>3. /\ charges' \subseteq Charge /\ Ledger' /\ OneCharge'
      /\ ctx' \in States /\ sdk' \in SdkScreens
      /\ ctx' = "requesting" => ctx = "requesting"
    <2> DEFINE fee == method'
    <2>1. Finished(hasOption, fee, fee) /\ fee \in {"none"} \cup Methods
        BY <1>1
    <2> HIDE DEF fee
    <2> QED
        BY <1>1, <1>2, <2>1, FinishedStep
<1>4. shown' \in [rows : Seq(Entries), priced : Seq(Entries), fee : {"none"} \cup Methods]
    BY <1>1 DEF IInv, TypeOK
<1>5. ContextInv'
    BY <1>1, <1>3 DEF IInv, ContextInv
<1>6. ScreenShowsCart'
    <2> SUFFICES ASSUME place = "cart", ~abandoned
                 PROVE  shown' = [rows |-> cart, priced |-> cart, fee |-> method']
        BY <1>1, <1>2 DEF ScreenShowsCart, Showing
    <2>1. shown = [rows |-> cart, priced |-> cart, fee |-> shippingFee]
        BY DEF IInv, ScreenShowsCart, Showing
    <2> QED
        BY <1>1, <2>1
<1> QED
    BY <1>1, <1>3, <1>4, <1>5, <1>6, Before, StripeStep
------------------------------------------------------------------------------
(* The invariant is kept by createCharge. *)

LEMMA ServerStep == ASSUME IInv, NEW c \in charges, ServerCharges(c) PROVE IInv'
<1> DEFINE made == [c EXCEPT !.stage = "made"]
           N == Numbers(c.items)
<1>1. /\ c.stage = "sent"
      /\ charges' = (charges \ {c}) \cup {made}
      /\ paid' = [n \in 1..MaxEntries |-> IF n \in N THEN Min({2, paid[n] + 1}) ELSE paid[n]]
      /\ UNCHANGED <<guest, cartVars, screenVars, ctxVars, cleared, added, abandoned, lost>>
    BY DEF ServerCharges
<1>2. /\ c \in Charge /\ charges \subseteq Charge /\ paid \in [1..MaxEntries -> 0..2]
      /\ added \in 0..MaxEntries /\ cleared \subseteq 1..MaxEntries
    BY DEF IInv, TypeOK
<1>3. made \in Charge /\ made.visit = c.visit /\ made.items = c.items /\ made.stage = "made"
    BY <1>2 DEF Charge
<1> HIDE DEF made
<1>4. /\ \A n \in N : n \in 1..added /\ n \in 1..MaxEntries
      /\ \A n \in 1..MaxEntries : n > added => n \notin N /\ paid[n] = 0
    BY <1>2, CheckoutAssumption DEF IInv, Ledger, Added
<1> HIDE DEF N
<1>5. \A n \in 1..MaxEntries : /\ paid'[n] = IF n \in N THEN Min({2, paid[n] + 1}) ELSE paid[n]
                               /\ paid[n] \in 0..2
    BY <1>1, <1>2
<1>6. \A n \in 1..MaxEntries : /\ n \in N => paid'[n] \in 1..2 /\ (paid[n] = 0 => paid'[n] = 1)
                               /\ n \notin N => paid'[n] = paid[n]
    BY <1>5, PaidMore
<1>7. paid' \in [1..MaxEntries -> 0..2]
    BY <1>1, <1>5, <1>6
<1>8. TypeOK'
    BY <1>1, <1>2, <1>3, <1>7 DEF IInv, TypeOK, cartVars, screenVars, ctxVars
<1>9. ContextInv' /\ ScreenShowsCart'
    BY <1>1 DEF IInv, ContextInv, ScreenShowsCart, cartVars, screenVars, ctxVars
<1>10. UNCHANGED <<cart, place, visit, ctx, sdk, cleared, added, abandoned, lost>>
    BY <1>1 DEF cartVars, screenVars, ctxVars
<1>11. ~abandoned => charges = {c} /\ charges' = {made}
    BY <1>1 DEF IInv, OneCharge
<1>12. OneCharge'
    BY <1>3, <1>10, <1>11 DEF IInv, OneCharge
<1>13. Numbers(cart)' = Numbers(cart) /\ \A d \in charges' : Numbers(d.items)' = Numbers(d.items)
    BY <1>10 DEF Numbers
<1>14. \A d \in charges' : d \in charges \/ (d = made /\ Numbers(d.items) = N)
    BY <1>1, <1>3 DEF N
<1>15. Added'
    <2>1. \A n \in Numbers(cart) : n \in 1..added
        BY DEF IInv, Ledger, Added
    <2>2. \A d \in charges' : \A n \in Numbers(d.items) : n \in 1..added
        BY <1>4, <1>14 DEF IInv, Ledger, Added
    <2>3. \A n \in 1..MaxEntries : n > added => paid'[n] = 0
        BY <1>4, <1>6
    <2> QED
        BY <2>1, <2>2, <2>3, <1>10, <1>13 DEF Added
<1>16. Charged'
    <2> SUFFICES ASSUME ~abandoned
                 PROVE  Numbers(cart) \subseteq N /\ \A n \in N : paid'[n] >= 1
        BY <1>3, <1>10, <1>11, <1>13 DEF Charged, N
    <2>1. Numbers(cart) \subseteq N
        BY DEF IInv, Ledger, Charged, N
    <2>2. \A n \in N : paid'[n] >= 1
        BY <1>4, <1>6
    <2> QED
        BY <2>1, <2>2
<1>17. Unpaid'
    BY <1>3, <1>10, <1>11 DEF Unpaid
<1>18. PaidOnce'
    <2> SUFFICES ASSUME ~abandoned, ~lost, NEW n \in 1..MaxEntries PROVE paid'[n] <= 1
        BY <1>10 DEF PaidOnce
    <2>1. n \in N => paid[n] = 0
        BY <1>1 DEF IInv, Ledger, Unpaid, N
    <2>2. paid[n] <= 1
        BY DEF IInv, Ledger, PaidOnce
    <2> QED
        BY <2>1, <2>2, <1>6
<1>19. ClearedIsPaid'
    <2> SUFFICES ASSUME ~abandoned, NEW n \in cleared PROVE paid'[n] >= 1
        BY <1>10 DEF ClearedIsPaid
    <2>1. paid[n] >= 1 /\ n \in 1..MaxEntries
        BY <1>2 DEF IInv, Ledger, ClearedIsPaid
    <2> QED
        BY <2>1, <1>6
<1> QED
    BY <1>8, <1>9, <1>12, <1>15, <1>16, <1>17, <1>18, <1>19 DEF IInv, Ledger

\* An answer frees the context of its screen, if that is still there.
LEMMA DidFinishFacts ==
    ASSUME IInv, NEW c \in charges, NEW status \in {"error", "chargeFailed"},
           DidFinishWith(c, status), UNCHANGED <<place, visit, loading>>
    PROVE  /\ ctx' \in {"none", "requesting", "showing"} /\ spinner' \in BOOLEAN
           /\ alert' \in {"none", "loadError", "chargeFailed", "error", "success"}
           /\ ContextInv'
<1>1. CASE Current(c)
    <2>1. ctx' = "none" /\ spinner' = FALSE /\ alert' \in {alert, status}
        BY <1>1 DEF DidFinishWith
    <2>2. spinner' \in BOOLEAN
        BY <2>1, Zenon
    <2>3. ContextInv'
        BY <2>1 DEF IInv, ContextInv
    <2> QED
        BY <2>1, <2>2, <2>3 DEF IInv, TypeOK
<1>2. CASE ~Current(c)
    BY <1>2 DEF DidFinishWith, IInv, TypeOK, ContextInv
<1> QED
    BY <1>1, <1>2

LEMMA SucceededStep == ASSUME IInv, NEW c \in charges, ChargeSucceeded(c) PROVE IInv'
<1> DEFINE none == <<>>
<1>1. /\ c.stage = "made" /\ charges' = charges \ {c} /\ cart' = none
      /\ cleared' = cleared \cup Numbers(cart)
      /\ shown' = IF Current(c) THEN Showing(none, shippingFee) ELSE shown
      /\ DidFinishWith(c, "error")
      /\ UNCHANGED <<guest, shippingFee, place, visit, sdk, loading, waiting,
                     hasOption, method, paid, added, abandoned, lost>>
    BY DEF ChargeSucceeded
<1>2. none \in Seq(Entries) /\ Numbers(none) = {} /\ Numbers(cart)' = Numbers(cart')
    BY DEF Numbers
<1> HIDE DEF none
<1>3. /\ ctx' \in {"none", "requesting", "showing"} /\ spinner' \in BOOLEAN
      /\ alert' \in {"none", "loadError", "chargeFailed", "error", "success"}
      /\ ContextInv'
    BY <1>1, DidFinishFacts
<1>4. shown' \in [rows : Seq(Entries), priced : Seq(Entries), fee : {"none"} \cup Methods]
    BY <1>1, <1>2 DEF IInv, TypeOK, Showing
<1>5. cleared' \subseteq 1..MaxEntries
    <2>1. cleared \subseteq 1..MaxEntries /\ added \in 0..MaxEntries
        BY DEF IInv, TypeOK
    <2>2. \A n \in Numbers(cart) : n \in 1..added
        BY DEF IInv, Ledger, Added
    <2>3. \A n \in Numbers(cart) : n \in 1..MaxEntries
        BY <2>1, <2>2, CheckoutAssumption
    <2> QED
        BY <1>1, <2>1, <2>3
<1>6. TypeOK'
    BY <1>1, <1>2, <1>3, <1>4, <1>5 DEF IInv, TypeOK
<1>7. ~abandoned => charges = {c} /\ charges' = {} /\ Current(c)
    BY <1>1 DEF IInv, OneCharge, Current
<1>8. OneCharge'
    BY <1>1, <1>7 DEF OneCharge
<1>9. ScreenShowsCart'
    BY <1>1, <1>7 DEF ScreenShowsCart
<1>10. \A d \in charges' : d \in charges /\ Numbers(d.items)' = Numbers(d.items)
    BY <1>1 DEF Numbers
<1>11. Added'
    BY <1>1, <1>2, <1>10 DEF IInv, Ledger, Added
<1>12. Charged' /\ Unpaid'
    BY <1>1, <1>2, <1>7 DEF Charged, Unpaid
<1>13. PaidOnce'
    BY <1>1 DEF IInv, Ledger, PaidOnce
<1>14. ClearedIsPaid'
    <2> SUFFICES ASSUME ~abandoned, NEW n \in cleared \cup Numbers(cart) PROVE paid[n] >= 1
        BY <1>1 DEF ClearedIsPaid
    <2>1. CASE n \in cleared
        BY <2>1 DEF IInv, Ledger, ClearedIsPaid
    <2>2. CASE n \in Numbers(cart)
        BY <2>2, <1>1 DEF IInv, Ledger, Charged
    <2> QED
        BY <2>1, <2>2
<1> QED
    BY <1>3, <1>6, <1>8, <1>9, <1>11, <1>12, <1>13, <1>14 DEF IInv, Ledger

LEMMA FailedStep == ASSUME IInv, NEW c \in charges, ChargeFailed(c) PROVE IInv'
<1>1. /\ charges' = charges \ {c} /\ DidFinishWith(c, "chargeFailed")
      /\ lost' = (lost \/ c.stage = "made")
      /\ UNCHANGED <<guest, cartVars, place, visit, shown, sdk, loading, waiting,
                     hasOption, method, paid, cleared, added, abandoned>>
    BY DEF ChargeFailed
<1>2. UNCHANGED <<cart, shippingFee>>
    BY <1>1 DEF cartVars
<1>3. /\ ctx' \in {"none", "requesting", "showing"} /\ spinner' \in BOOLEAN
      /\ alert' \in {"none", "loadError", "chargeFailed", "error", "success"}
      /\ ContextInv'
    BY <1>1, DidFinishFacts
<1>4. lost' \in BOOLEAN
    BY <1>1, Zenon
<1>5. TypeOK'
    BY <1>1, <1>2, <1>3, <1>4 DEF IInv, TypeOK
<1>6. ~abandoned => charges = {c} /\ charges' = {}
    BY <1>1 DEF IInv, OneCharge
<1>7. OneCharge' /\ ScreenShowsCart'
    BY <1>1, <1>2, <1>6 DEF IInv, OneCharge, ScreenShowsCart
<1>8. \A d \in charges' : d \in charges /\ Numbers(d.items)' = Numbers(d.items)
    BY <1>1 DEF Numbers
<1>9. Numbers(cart)' = Numbers(cart)
    BY <1>2 DEF Numbers
<1>10. Added' /\ Charged'
    BY <1>1, <1>6, <1>8, <1>9 DEF IInv, Ledger, Added, Charged
<1>11. Unpaid'
    <2> SUFFICES ASSUME ~abandoned, ~lost, c.stage # "made"
                 PROVE  \A n \in Numbers(cart) : paid[n] = 0
        BY <1>1, <1>6, <1>9 DEF Unpaid
    <2>1. c.stage = "sent"
        BY DEF IInv, TypeOK, Charge
    <2> QED
        BY <1>6, <2>1 DEF IInv, Ledger, Unpaid
<1>12. PaidOnce' /\ ClearedIsPaid'
    BY <1>1 DEF IInv, Ledger, PaidOnce, ClearedIsPaid
<1> QED
    BY <1>3, <1>5, <1>7, <1>10, <1>11, <1>12 DEF IInv, Ledger

LEMMA CheckoutInvariant == IInv /\ [Next]_vars => IInv'
<1> SUFFICES ASSUME IInv, [Next]_vars PROVE IInv'
    OBVIOUS
<1>1. ASSUME NEW p \in Products, AddToCart(p) PROVE IInv'
    BY <1>1, AddStep DEF AddToCart
<1>2. ASSUME NEW p \in Products, AddToChartButtonPressed(p) PROVE IInv'
    BY <1>2, AddStep DEF AddToChartButtonPressed
<1>3. CASE SessionChanges \/ OpenCart \/ Back \/ RemoveItem \/ PopAfterAlert
    BY <1>3, SessionStep, OpenStep, LeaveStep, RemoveStep DEF Back, PopAfterAlert
<1>4. CASE PlaceOrderClicked \/ OpenSdkScreen \/ LoadSucceeds \/ LoadFails
    BY <1>4, PlaceOrderStep, OpenSdkStep, LoadSucceedsStep, LoadFailsStep
<1>5. CASE OptionSelected \/ OptionDeleted \/ ShippingSelected \/ SdkScreenCancelled
    BY <1>5, OptionSelectedStep, OptionDeletedStep, ShippingSelectedStep, CancelStep
<1>6. CASE Retry \/ ChargeFailedOk
    BY <1>6, RetryStep, ChargeFailedOkStep
<1>7. ASSUME NEW c \in charges, ChargeSucceeded(c) \/ ChargeFailed(c) \/ ServerCharges(c)
      PROVE  IInv'
    BY <1>7, SucceededStep, FailedStep, ServerStep
<1>8. CASE UNCHANGED vars
    <2>1. UNCHANGED <<guest, cartVars, screenVars, ctxVars, charges, history>>
        BY <1>8 DEF vars
    <2>2. TypeOK'
        BY <2>1 DEF IInv, TypeOK, cartVars, screenVars, ctxVars, history
    <2>3. ContextInv' /\ OneCharge' /\ ScreenShowsCart'
        BY <2>1 DEF IInv, ContextInv, OneCharge, ScreenShowsCart, cartVars, screenVars, ctxVars, history
    <2>4. Ledger'
        BY <2>1, LedgerSame DEF IInv, cartVars, history
    <2> QED
        BY <2>2, <2>3, <2>4 DEF IInv
<1> QED
    BY <1>1, <1>2, <1>3, <1>4, <1>5, <1>6, <1>7, <1>8 DEF Next, Shopping, Stripe, Answers

LEMMA CheckoutInductive == Spec => []IInv
    BY CheckoutInitially, CheckoutInvariant, PTL DEF Spec
------------------------------------------------------------------------------
(* Charges and the screens they are of, left or not. *)

\* A payment asked for keeps the spinner turning, from the button on.
SpinnerInv ==
    /\ ctx = "requesting" => spinner
    /\ waiting > 0 => spinner /\ loading = "pending"

\* The cart screen opened next has no charge yet.
VisitInv == \A c \in charges : c.visit <= visit

HeldInv == ChargeHoldsScreen /\ VisitInv /\ SpinnerInv

\* Steps that send no charge, while the context goes on waiting or has no charge.
LEMMA HeldStep ==
    ASSUME IInv, HeldInv, UNCHANGED charges, UNCHANGED <<place, visit>>,
           SpinnerInv',
           \/ ctx' = ctx /\ sdk' = sdk
           \/ \A c \in charges : ~Current(c)
    PROVE  HeldInv'
<1>1. VisitInv'
    BY DEF HeldInv, VisitInv
<1>2. \A c \in charges : Current(c)' = Current(c)
    BY DEF Current
<1>3. ChargeHoldsScreen'
    BY <1>2 DEF HeldInv, ChargeHoldsScreen, SpinnerInv
<1> QED
    BY <1>1, <1>3 DEF HeldInv

\* requestPayment: a charge is sent only if the screen has none.
LEMMA RequestHeld ==
    ASSUME IInv, HeldInv, NEW state, NEW option, NEW selected,
           NEW fee, RequestPayment(state, option, selected, fee),
           place = "cart",
           IF state = "none" THEN \A c \in charges : ~Current(c) ELSE state = ctx,
           UNCHANGED <<place, visit>>, spinner', SpinnerInv'
    PROVE  HeldInv'
<1>1. visit \in Nat
    BY CheckoutAssumption DEF IInv, TypeOK
<1>2. CASE state # "none"
    BY <1>2, HeldStep DEF RequestPayment
<1>3. CASE state = "none" /\ charges' = charges
    BY <1>3, HeldStep
<1>4. CASE /\ state = "none" /\ DidCreatePaymentResult(fee)
           /\ ctx' = "requesting" /\ sdk' = "none"
    <2> DEFINE new == [visit |-> visit, items |-> cart, fee |-> fee, stage |-> "sent"]
    <2>1. charges' = charges \cup {new} /\ new.visit = visit
        BY <1>4 DEF DidCreatePaymentResult
    <2> HIDE DEF new
    <2>2. \A c \in charges : c.visit # visit
        BY <1>4 DEF Current
    <2>3. VisitInv'
        BY <2>1, <1>1 DEF HeldInv, VisitInv
    <2>4. \A c, d \in charges' : d.visit = c.visit => d = c
        BY <2>1, <2>2 DEF HeldInv, ChargeHoldsScreen
    <2>5. ChargeHoldsScreen'
        BY <2>4, <1>4 DEF ChargeHoldsScreen
    <2> QED
        BY <2>3, <2>5 DEF HeldInv
<1> QED
    BY <1>2, <1>3, <1>4 DEF RequestPayment

LEMMA ShoppingHeld ==
    ASSUME IInv, HeldInv,
           UNCHANGED <<place, visit, charges, ctx, sdk, loading, waiting, spinner>>
    PROVE  HeldInv'
<1>1. SpinnerInv'
    BY DEF HeldInv, SpinnerInv
<1> QED
    BY <1>1, HeldStep

LEMMA OpenHeld == ASSUME IInv, HeldInv, OpenCart PROVE HeldInv'
<1>1. /\ place' = "cart" /\ visit' = visit + 1 /\ charges' = charges
      /\ ctx' = "none" /\ waiting' = 0
    BY DEF OpenCart
<1>2. visit \in Nat /\ \A c \in charges : c.visit \in Nat /\ c.visit <= visit
    BY CheckoutAssumption DEF IInv, TypeOK, Charge, HeldInv, VisitInv
<1>3. VisitInv' /\ \A c \in charges' : ~Current(c)'
    BY <1>1, <1>2 DEF VisitInv, Current
<1>4. ChargeHoldsScreen'
    BY <1>1, <1>3 DEF HeldInv, ChargeHoldsScreen
<1> QED
    BY <1>1, <1>3, <1>4 DEF HeldInv, SpinnerInv

LEMMA LeaveHeld == ASSUME IInv, HeldInv, Leave PROVE HeldInv'
<1>1. place' = "shop" /\ UNCHANGED <<visit, charges>> /\ ctx' = "none" /\ waiting' = 0
    BY DEF Leave
<1>2. VisitInv' /\ \A c \in charges' : ~Current(c)'
    BY <1>1 DEF HeldInv, VisitInv, Current
<1>3. ChargeHoldsScreen'
    BY <1>1, <1>2 DEF HeldInv, ChargeHoldsScreen
<1> QED
    BY <1>1, <1>2, <1>3 DEF HeldInv, SpinnerInv

LEMMA PlaceOrderHeld == ASSUME IInv, HeldInv, PlaceOrderClicked PROVE HeldInv'
<1>1. place = "cart" /\ spinner' /\ UNCHANGED <<place, visit, loading>>
    BY DEF PlaceOrderClicked, AtCart
<1>2. ctx = "none" => \A c \in charges : ~Current(c)
    BY DEF HeldInv, ChargeHoldsScreen
<1>3. loading # "done" => \A c \in charges : ~Current(c)
    BY DEF IInv, ContextInv, HeldInv, ChargeHoldsScreen
<1>4. CASE loading = "pending" /\ UNCHANGED <<ctx, sdk, charges>>
    BY <1>1, <1>4, HeldStep DEF SpinnerInv
<1>5. CASE loading = "failed" /\ ctx' = "none" /\ UNCHANGED <<sdk, waiting, charges>>
    <2>1. SpinnerInv'
        BY <1>1, <1>5 DEF HeldInv, SpinnerInv
    <2> QED
        BY <2>1, <1>1, <1>3, <1>5, HeldStep
<1>6. CASE /\ loading = "done" /\ RequestPayment(ctx, hasOption, method, shippingFee)
           /\ UNCHANGED waiting
    <2>1. SpinnerInv'
        BY <1>1, <1>6 DEF HeldInv, SpinnerInv
    <2> QED
        BY <2>1, <1>1, <1>2, <1>6, RequestHeld
<1> QED
    BY <1>4, <1>5, <1>6 DEF PlaceOrderClicked

LEMMA LoadHeld == ASSUME IInv, HeldInv, LoadSucceeds \/ LoadFails PROVE HeldInv'
<1>1. place = "cart" /\ loading = "pending" /\ waiting' = 0 /\ UNCHANGED <<place, visit>>
    BY DEF LoadSucceeds, LoadFails, screenVars
<1>2. (\A c \in charges : ~Current(c)) /\ ctx # "requesting" /\ waiting \in Nat
    BY <1>1, CheckoutAssumption DEF IInv, TypeOK, ContextInv, HeldInv, ChargeHoldsScreen
<1>3. CASE LoadFails
    <2>1. ctx' # "requesting" /\ charges' = charges
        BY <1>2, <1>3 DEF LoadFails
    <2>2. SpinnerInv'
        BY <1>1, <2>1 DEF SpinnerInv
    <2> QED
        BY <2>1, <2>2, <1>1, <1>2, HeldStep
<1>4. CASE LoadSucceeds /\ waiting > 0
    <2>1. spinner' /\ RequestPayment(ctx, hasOption', method, shippingFee)
        BY <1>4 DEF LoadSucceeds, screenVars, HeldInv, SpinnerInv
    <2>2. SpinnerInv'
        BY <1>1, <2>1 DEF SpinnerInv
    <2> QED
        BY <2>1, <2>2, <1>1, <1>2, RequestHeld
<1>5. CASE LoadSucceeds /\ ~(waiting > 0)
    <2>1. UNCHANGED <<ctx, sdk, charges>>
        BY <1>5 DEF LoadSucceeds
    <2>2. SpinnerInv'
        BY <1>1, <1>2, <2>1 DEF SpinnerInv
    <2> QED
        BY <2>1, <2>2, <1>1, <1>2, HeldStep
<1> QED
    BY <1>3, <1>4, <1>5

\* A Stripe screen is shown, so no charge of the cart screen is on its way.
LEMMA SdkScreenHeld ==
    ASSUME IInv, HeldInv,
           OptionSelected \/ OptionDeleted \/ ShippingSelected \/ SdkScreenCancelled
    PROVE  HeldInv'
<1>1. sdk # "none" /\ UNCHANGED <<place, visit, loading, waiting>>
    BY DEF OptionSelected, OptionDeleted, ShippingSelected, SdkScreenCancelled, screenVars
<1>2. \A c \in charges : ~Current(c)
    BY <1>1 DEF HeldInv, ChargeHoldsScreen
<1>3. /\ ctx = "requesting" => place = "cart" /\ loading = "done" /\ spinner
      /\ waiting > 0 => spinner /\ loading = "pending"
    BY DEF IInv, ContextInv, HeldInv, SpinnerInv
<1>4. ASSUME NEW option, NEW selected, NEW fee, Finished(option, selected, fee), UNCHANGED spinner
      PROVE  HeldInv'
    <2>1. CASE ctx = "requesting"
        <3>1. spinner' /\ SpinnerInv' /\ place = "cart"
            BY <1>1, <1>3, <1>4, <2>1 DEF SpinnerInv
        <3>2. RequestPayment("none", option, selected, fee)
            BY <1>4, <2>1 DEF Finished
        <3> QED
            BY <3>1, <3>2, <1>1, <1>2, RequestHeld
    <2>2. CASE ctx # "requesting"
        <3>1. ctx' = "none" /\ charges' = charges
            BY <1>4, <2>2 DEF Finished
        <3>2. SpinnerInv'
            BY <3>1, <1>1, <1>3, <1>4 DEF SpinnerInv
        <3> QED
            BY <3>1, <3>2, <1>1, <1>2, HeldStep
    <2> QED
        BY <2>1, <2>2
<1>5. CASE OptionSelected
    BY <1>5, <1>4 DEF OptionSelected, screenVars
<1>6. CASE ShippingSelected
    BY <1>6, <1>4 DEF ShippingSelected
<1>7. CASE OptionDeleted
    <2>1. UNCHANGED <<ctx, charges, spinner>>
        BY <1>7 DEF OptionDeleted, screenVars
    <2>2. SpinnerInv'
        BY <2>1, <1>1, <1>3 DEF SpinnerInv
    <2> QED
        BY <2>1, <2>2, <1>1, <1>2, HeldStep
<1>8. CASE SdkScreenCancelled
    <2>1. ctx' = "none" /\ charges' = charges /\ spinner' = IF ctx = "requesting" THEN FALSE ELSE spinner
        BY <1>8 DEF SdkScreenCancelled
    <2>2. SpinnerInv'
        BY <2>1, <1>1, <1>3 DEF SpinnerInv
    <2> QED
        BY <2>1, <2>2, <1>1, <1>2, HeldStep
<1> QED
    BY <1>5, <1>6, <1>7, <1>8

\* paymentMethodClicked, on a free context, and the buttons of the alerts.
LEMMA ButtonHeld ==
    ASSUME IInv, HeldInv, OpenSdkScreen \/ Retry \/ ChargeFailedOk
    PROVE  HeldInv'
<1>1. UNCHANGED <<place, visit, charges, spinner, waiting>>
    BY DEF OpenSdkScreen, Retry, ChargeFailedOk, screenVars, ctxVars
<1>2. CASE OpenSdkScreen
    <2>1. ctx = "none" /\ ctx' = "showing" /\ loading' = loading
        BY <1>2 DEF OpenSdkScreen
    <2>2. \A c \in charges : ~Current(c)
        BY <2>1 DEF HeldInv, ChargeHoldsScreen
    <2>3. SpinnerInv'
        BY <2>1, <1>1 DEF HeldInv, SpinnerInv
    <2> QED
        BY <2>2, <2>3, <1>1, HeldStep
<1>3. CASE Retry \/ ChargeFailedOk
    <2>1. UNCHANGED <<ctx, sdk>> /\ (loading' = "pending" \/ loading' = loading)
        BY <1>3 DEF Retry, ChargeFailedOk, ctxVars
    <2>2. SpinnerInv'
        BY <2>1, <1>1 DEF HeldInv, SpinnerInv
    <2> QED
        BY <2>1, <2>2, <1>1, HeldStep
<1> QED
    BY <1>2, <1>3

LEMMA ServerHeld == ASSUME IInv, HeldInv, NEW c \in charges, ServerCharges(c) PROVE HeldInv'
<1> DEFINE made == [c EXCEPT !.stage = "made"]
<1>1. /\ charges' = (charges \ {c}) \cup {made} /\ made.visit = c.visit
      /\ UNCHANGED <<place, visit, ctx, sdk, spinner, loading, waiting>>
    BY DEF ServerCharges, screenVars, ctxVars, IInv, TypeOK, Charge
<1> HIDE DEF made
<1>2. VisitInv' /\ SpinnerInv'
    BY <1>1 DEF HeldInv, VisitInv, SpinnerInv
<1>3. \A d, e \in charges' : e.visit = d.visit => e = d
    BY <1>1 DEF HeldInv, ChargeHoldsScreen
<1>4. \A d \in charges' : d.visit = visit /\ place = "cart" => ctx = "requesting" /\ sdk = "none" /\ spinner
    BY <1>1 DEF HeldInv, ChargeHoldsScreen, Current
<1>5. ChargeHoldsScreen'
    BY <1>1, <1>3, <1>4 DEF ChargeHoldsScreen, Current
<1> QED
    BY <1>2, <1>5 DEF HeldInv

\* The answer of a charge frees the context of its own screen only.
LEMMA AnswerHeld ==
    ASSUME IInv, HeldInv, NEW c \in charges, ChargeSucceeded(c) \/ ChargeFailed(c)
    PROVE  HeldInv'
<1>1. PICK status : DidFinishWith(c, status)
    BY DEF ChargeSucceeded, ChargeFailed
<1>2. charges' = charges \ {c} /\ UNCHANGED <<place, visit, sdk, loading, waiting>>
    BY DEF ChargeSucceeded, ChargeFailed
<1>3. VisitInv'
    BY <1>2 DEF HeldInv, VisitInv
<1>4. CASE Current(c)
    <2>1. ctx' = "none"
        BY <1>1, <1>4 DEF DidFinishWith
    <2>2. \A d \in charges' : d.visit # visit
        BY <1>2, <1>4 DEF HeldInv, ChargeHoldsScreen, Current
    <2>3. ChargeHoldsScreen'
        BY <2>2, <1>2 DEF HeldInv, ChargeHoldsScreen, Current
    <2>4. ~(waiting > 0)
        BY <1>4 DEF IInv, ContextInv, HeldInv, ChargeHoldsScreen, SpinnerInv
    <2>5. SpinnerInv'
        BY <2>1, <2>4, <1>2 DEF SpinnerInv
    <2> QED
        BY <2>3, <2>5, <1>3 DEF HeldInv
<1>5. CASE ~Current(c)
    <2>1. UNCHANGED <<ctx, spinner>>
        BY <1>1, <1>5 DEF DidFinishWith
    <2>2. SpinnerInv'
        BY <2>1, <1>2 DEF HeldInv, SpinnerInv
    <2>3. ChargeHoldsScreen'
        BY <2>1, <1>2 DEF HeldInv, ChargeHoldsScreen, Current
    <2> QED
        BY <2>2, <2>3, <1>3 DEF HeldInv
<1> QED
    BY <1>4, <1>5

LEMMA HeldInvariant == IInv /\ HeldInv /\ [Next]_vars => HeldInv'
<1> SUFFICES ASSUME IInv, HeldInv, [Next]_vars PROVE HeldInv'
    OBVIOUS
<1>1. ASSUME NEW p \in Products, AddToCart(p) \/ AddToChartButtonPressed(p) PROVE HeldInv'
    BY <1>1, ShoppingHeld DEF AddToCart, AddToChartButtonPressed, screenVars, ctxVars
<1>2. CASE SessionChanges \/ RemoveItem \/ UNCHANGED vars
    BY <1>2, ShoppingHeld DEF SessionChanges, RemoveItem, vars, screenVars, ctxVars
<1>3. CASE OpenCart \/ Back \/ PopAfterAlert
    BY <1>3, OpenHeld, LeaveHeld DEF Back, PopAfterAlert
<1>4. CASE PlaceOrderClicked \/ LoadSucceeds \/ LoadFails
    BY <1>4, PlaceOrderHeld, LoadHeld
<1>5. CASE OptionSelected \/ OptionDeleted \/ ShippingSelected \/ SdkScreenCancelled
    BY <1>5, SdkScreenHeld
<1>6. CASE OpenSdkScreen \/ Retry \/ ChargeFailedOk
    BY <1>6, ButtonHeld
<1>7. ASSUME NEW c \in charges, ChargeSucceeded(c) \/ ChargeFailed(c) \/ ServerCharges(c)
      PROVE  HeldInv'
    BY <1>7, AnswerHeld, ServerHeld
<1> QED
    BY <1>1, <1>2, <1>3, <1>4, <1>5, <1>6, <1>7 DEF Next, Shopping, Stripe, Answers

LEMMA HeldInitially == Init => HeldInv
    BY DEF Init, HeldInv, ChargeHoldsScreen, VisitInv, SpinnerInv
------------------------------------------------------------------------------
(* What follows. *)

\* The state of the checkout stays within its types.
THEOREM CheckoutTypeCorrect == Spec => []TypeOK
<1>1. IInv => TypeOK
    BY DEF IInv
<1> QED
    BY <1>1, CheckoutInductive, PTL

\* No entry of the cart is paid for twice, unless the cart was left while a
\* charge was on its way or an answer got lost: however often placeOrderClicked
\* is pressed, the context lets one charge through at a time, and its success
\* empties the cart (didCreatePaymentResult, clearCart).
THEOREM PaidOnceAlways == Spec => []PaidOnce
<1>1. IInv => PaidOnce
    BY DEF IInv, Ledger
<1> QED
    BY <1>1, CheckoutInductive, PTL

\* What clearCart throws away has been paid for, unless the cart was left while
\* a charge was on its way, although entries may be removed during a charge.
THEOREM ClearedIsPaidAlways == Spec => []ClearedIsPaid
<1>1. IInv => ClearedIsPaid
    BY DEF IInv, Ledger
<1> QED
    BY <1>1, CheckoutInductive, PTL

\* What the cart screen shows is the cart and its fee, through removals, shipping
\* methods, failures and successes (removeItem, paymentContextDidChange, didFinishWith).
THEOREM ScreenShowsCartAlways == Spec => []ScreenShowsCart
<1>1. IInv => ScreenShowsCart
    BY DEF IInv
<1> QED
    BY <1>1, CheckoutInductive, PTL
\* No cart screen, left or not, has two charges on their way, and while the one
\* on the stack has one its context waits for it, so that placeOrderClicked
\* sends no other, nothing else of Stripe's opens, and the spinner turns.
THEOREM ChargeHoldsScreenAlways == Spec => []ChargeHoldsScreen
<1>1. Spec => []HeldInv
    BY CheckoutInductive, HeldInitially, HeldInvariant, PTL DEF Spec
<1>2. HeldInv => ChargeHoldsScreen
    BY DEF HeldInv
<1> QED
    BY <1>1, <1>2, PTL
==============================================================================
