------------------------------- MODULE Wallet -------------------------------
(***************************************************************************)
(* The wallets: a customer pays from the wallet of a user or of a QQ       *)
(* number and, while the two are bound, from the other one as well, free   *)
(* balance before paid balance.  A charge remembers what it took from      *)
(* which wallet, and a refund puts exactly that back, whatever was bound,  *)
(* unbound, granted or reset in the meantime.                              *)
(*                                                                         *)
(* An order is a generation task or a reservation of the local platform.   *)
(* A transaction that locks the wallets before it reads them is one        *)
(* action; what is read without those locks is read by an action of its    *)
(* own: the binding a charge goes by, and the wallets the daily reset goes *)
(* by.  Amounts are cents.                                                 *)
(***************************************************************************)
EXTENDS Integers, FiniteSetsExt

CONSTANTS
  Users, Qqs,   \* owners of wallets; a wallet is named by its owner
  Orders,       \* generation tasks and reservations
  Payer,        \* Payer[o]: the wallet of whoever ordered o
  Price,        \* Price[o]: what o costs
  Daily,        \* free balance a wallet gets per day, half of free_balance_daily
  Legacy,       \* balances that rows of qq_quotas may have from earlier times
  Amounts,      \* amounts of recharge cards and adjustments
  MaxChanges,   \* bound: recharges, bindings and interventions of administrators
  MaxDays,      \* bound: days
  BadDays       \* bound: days that may see one failed reset or restart

Wallets == Users \cup Qqs

ASSUME WalletAssumption ==
  /\ Users \cap Qqs = {}
  /\ Payer \in [Orders -> Wallets] /\ Price \in [Orders -> Nat \ {0}]
  /\ Daily \in Nat
  /\ Legacy \subseteq Nat /\ Amounts \subseteq Nat \ {0}
  /\ MaxChanges \in Nat /\ MaxDays \in Nat /\ BadDays \subseteq 1..MaxDays

VARIABLES
  books,        \* the balances, see Books below
  partner,      \* wallet_links: the wallet bound to w, or w itself
  state,        \* state[o]: the life of the charge of o
  linked,       \* linked[o]: the second wallet the charge of o goes by
  taken,        \* taken[o]: allocations of the charge, free and paid by wallet
  day, marker,  \* today, and free_balance_last_daily_reset_date
  timer,        \* the day the timer of the daily reset is set for, 0 if none
  reset,        \* the daily reset under way, with the wallets it has listed
  changes,      \* recharges, bindings and interventions so far
  spoilt        \* days that saw a failed reset or a restart

orders == <<state, linked, taken>>
cron   == <<day, marker, timer, reset>>
vars   == <<books, partner, orders, cron, changes, spoilt>>

(***************************************************************************)
(* The tables with balances.  `opened' are the QQ numbers with a row in    *)
(* wallets (a user has one from registration: one that is still missing    *)
(* is created with nothing in it), `quota' the old table qq_quotas, which  *)
(* mirrors the wallets of QQ numbers, `granted' the wallets with a row for *)
(* today in daily_free_grants, and `deposited' a history of the paid       *)
(* balance that came in from outside.                                      *)
(***************************************************************************)
QuotaRow == [row : BOOLEAN, free : Int, paid : Nat]
Books ==
  [free : [Wallets -> Nat], paid : [Wallets -> Nat], opened : SUBSET Qqs,
   quota : [Qqs -> QuotaRow], granted : SUBSET Wallets,
   deposited : [Wallets -> Int]]

Least(a, b) == IF a < b THEN a ELSE b
NotBelow0(a) == IF a < 0 THEN 0 ELSE a
Nothing    == [w \in Wallets |-> 0]
Only(w, a) == [Nothing EXCEPT ![w] = a]
Minus(f)   == [w \in Wallets |-> -f[w]]

(* An upsert: the row, or one with nothing in it. *)
Created(r) == [row |-> TRUE, free |-> r.free, paid |-> r.paid]

(* mirrorQqWalletDelta: add to the row, or create it without negative parts. *)
Mirrored(r, f, p) ==
  IF r.row THEN [r EXCEPT !.free = @ + f, !.paid = @ + p]
  ELSE [row |-> TRUE, free |-> NotBelow0(f), paid |-> NotBelow0(p)]

(* Add f to the free and p to the paid balances. *)
Post(b, f, p) ==
  [b EXCEPT !.free  = [w \in Wallets |-> @[w] + f[w]],
            !.paid  = [w \in Wallets |-> @[w] + p[w]],
            !.quota = [q \in Qqs |-> IF f[q] = 0 /\ p[q] = 0 THEN @[q]
                                     ELSE Mirrored(@[q], f[q], p[q])]]

(* ensureQqWalletTx: a first wallet takes over the old balance, which then *)
(* stands for the free balance of that day, unless it is nothing.          *)
Open(b, w) ==
  IF w \in Users \cup b.opened THEN b
  ELSE [b EXCEPT !.opened = @ \cup {w},
                 !.free[w] = b.quota[w].free, !.paid[w] = b.quota[w].paid,
                 !.deposited[w] = b.quota[w].paid,
                 !.granted = IF b.quota[w].free > 0 \/ b.quota[w].paid > 0
                             THEN @ \cup {w} ELSE @]

(* ensureDailyFreeGrantTx: once per wallet and day. *)
Grant(b, w) ==
  IF Daily = 0 \/ w \in b.granted THEN b
  ELSE Post([b EXCEPT !.granted = @ \cup {w}], Only(w, Daily), Nothing)

(* What opening the accessible wallets `own' and `other' does to the books. *)
Access(b, own, other) == Grant(Open(Grant(Open(b, own), own), other), other)

NoQuota == [row |-> FALSE, free |-> 0, paid |-> 0]
NoReset == [phase |-> "idle", by |-> "cron", known |-> {}, listed |-> {}]

Init ==
  /\ \E quota \in [Qqs -> {NoQuota} \cup [row : {TRUE}, free : Legacy, paid : Legacy]] :
       books = [free |-> Nothing, paid |-> Nothing, opened |-> {}, quota |-> quota,
                granted |-> {}, deposited |-> Nothing]
  /\ partner = [w \in Wallets |-> w]
  /\ state = [o \in Orders |-> "none"]
  /\ linked = Payer
  /\ taken = [o \in Orders |-> [free |-> Nothing, paid |-> Nothing]]
  /\ day = 0 /\ marker = 0 /\ timer = 1 /\ reset = NoReset
  /\ changes = 0 /\ spoilt = {}

(***************************************************************************)
(* Charges, refunds, reservations.                                         *)
(***************************************************************************)

(* f over the two wallets of order o. *)
Both(f, o) == f[Payer[o]] + (IF linked[o] = Payer[o] THEN 0 ELSE f[linked[o]])

(* How `amount' is taken from balances f, the wallet of the payer first. *)
Part(f, o, amount) ==
  [w \in Wallets |->
     IF w = Payer[o] THEN Least(f[w], amount)
     ELSE IF w = linked[o] THEN Least(f[w], amount - Least(f[Payer[o]], amount))
     ELSE 0]

(* The balances order o finds once it has locked its wallets. *)
Accessed(o) == Access(books, Payer[o], linked[o])

Affordable(o) == Both(Accessed(o).free, o) + Both(Accessed(o).paid, o) >= Price[o]

FreeUse(o) == Part(Accessed(o).free, o, Price[o])

(* Mutant of PaidUse: the free balance of the second wallet is forgotten. *)
PaidUseOwnFree(o) == Part(Accessed(o).paid, o, Price[o] - FreeUse(o)[Payer[o]])

PaidUse(o) == Part(Accessed(o).paid, o, Price[o] - Both(FreeUse(o), o))

(* The transaction of the order reads which wallet is bound to its own. *)
ChargeBegin(o) ==
  /\ state[o] = "none"
  /\ state'  = [state EXCEPT ![o] = "begun"]
  /\ linked' = [linked EXCEPT ![o] = partner[Payer[o]]]
  /\ UNCHANGED <<books, partner, taken, cron, changes, spoilt>>

(* It locks both, takes the free balances, then the paid ones. *)
Charge(o) ==
  /\ state[o] = "begun" /\ Affordable(o)
  /\ state' = [state EXCEPT ![o] = "charged"]
  /\ taken' = [taken EXCEPT ![o] = [free |-> FreeUse(o), paid |-> PaidUse(o)]]
  /\ books' = Post(Accessed(o), Minus(FreeUse(o)), Minus(PaidUse(o)))
  /\ UNCHANGED <<partner, linked, cron, changes, spoilt>>

(* The balances do not suffice: all of it is rolled back, grants included. *)
Refuse(o) ==
  /\ state[o] = "begun" /\ ~Affordable(o)
  /\ state'  = [state EXCEPT ![o] = "none"]
  /\ linked' = [linked EXCEPT ![o] = Payer[o]]
  /\ UNCHANGED <<books, partner, taken, cron, changes, spoilt>>

(* The task succeeds, or its reservation is committed. *)
Keep(o) ==
  /\ state[o] = "charged"
  /\ state' = [state EXCEPT ![o] = "kept"]
  /\ UNCHANGED <<books, partner, linked, taken, cron, changes, spoilt>>

(* Mutant of Refunded: the paid part goes to whoever ordered. *)
RefundedToPayer(o) == Post(books, taken[o].free, Only(Payer[o], Both(taken[o].paid, o)))

Refunded(o) == Post(books, taken[o].free, taken[o].paid)

(* The task fails, or its reservation is released: by the allocations. *)
Return(o) ==
  /\ state[o] = "charged"
  /\ state' = [state EXCEPT ![o] = "returned"]
  /\ books' = Refunded(o)
  /\ UNCHANGED <<partner, linked, taken, cron, changes, spoilt>>

(***************************************************************************)
(* Other changes of the books.                                             *)
(***************************************************************************)

(* A query of the balance grants what is due. *)
Visit(w) ==
  /\ books' = Access(books, w, partner[w])
  /\ UNCHANGED <<partner, orders, cron, changes, spoilt>>

Change ==
  /\ changes < MaxChanges
  /\ changes' = changes + 1
  /\ UNCHANGED <<orders, day, marker, timer, spoilt>>

(* Mutant of Recharged: the row of a QQ number is not changed with it. *)
RechargedUnmirrored(w, a) ==
  [Open(books, w) EXCEPT !.paid[w] = @ + a, !.deposited[w] = @ + a]

Recharged(w, a) ==
  Post([Open(books, w) EXCEPT !.deposited[w] = @ + a], Nothing, Only(w, a))

(* A recharge card, a reward, or an adjustment upwards. *)
Redeem(w, a) ==
  /\ Change
  /\ books' = Recharged(w, a)
  /\ UNCHANGED <<partner, reset>>

(* Mutant of Deductible: the balance is not checked. *)
DeductibleAlways(w, a) == TRUE

Deductible(w, a) == Open(books, w).paid[w] >= a

(* An adjustment downwards, if the balance suffices. *)
Deduct(w, a) ==
  /\ Change
  /\ Deductible(w, a)
  /\ books' = Post([Open(books, w) EXCEPT !.deposited[w] = @ - a],
                   Nothing, Minus(Only(w, a)))
  /\ UNCHANGED <<partner, reset>>

(* An upsert with the free balance of a day. *)
Topped(r) == [row |-> TRUE, free |-> Daily, paid |-> r.paid]

(* The free balance of w is set to Daily, also in the mirror. *)
Refill(b, w) ==
  [b EXCEPT !.free[w] = Daily,
            !.quota = [q \in Qqs |-> IF q = w THEN Topped(@[q]) ELSE @[q]]]

(* An administrator resets a wallet by its id, with a grant for today ... *)
AdminReset(w) ==
  /\ Change
  /\ w \in Users \cup books.opened
  /\ books' = [Refill(books, w) EXCEPT !.granted = @ \cup {w}]
  /\ UNCHANGED <<partner, reset>>

(* ... or a QQ number by its number, without one. *)
AdminResetQq(q) ==
  /\ Change
  /\ books' = Refill(Open(books, q), q)
  /\ UNCHANGED <<partner, reset>>

(* An administrator looks at a QQ number nobody knows: the old service     *)
(* gives it a row with the free balance of both ends.                      *)
Preview(q) ==
  /\ Change
  /\ ~books.quota[q].row
  /\ books' = [books EXCEPT !.quota[q] = [row |-> TRUE, free |-> 2 * Daily, paid |-> 0]]
  /\ UNCHANGED <<partner, reset>>

(* Both ends must be free; the QQ number gets a row and a wallet. *)
Bind(u, q) ==
  /\ Change
  /\ partner[u] = u /\ partner[q] = q
  /\ partner' = [partner EXCEPT ![u] = q, ![q] = u]
  /\ books' = Open([books EXCEPT !.quota[q] = Created(@)], q)
  /\ UNCHANGED reset

Unbind(u) ==
  /\ Change
  /\ partner[u] # u
  /\ partner' = [partner EXCEPT ![u] = u, ![partner[u]] = partner[u]]
  /\ UNCHANGED <<books, reset>>

(***************************************************************************)
(* The daily reset: resetAllKnownFreeBalances and its schedule.            *)
(*                                                                         *)
(* One runs at a time here.  The wallets it opens are locked until it      *)
(* commits, so they count as opened at its write; `known' are the numbers  *)
(* with a row in qq_quotas and those that other tables mention.            *)
(***************************************************************************)
ResetBegin(by) ==
  \E mentioned \in SUBSET Qqs :
    reset' = [phase |-> "snapshot", by |-> by, listed |-> {},
              known |-> {q \in Qqs : books.quota[q].row} \cup mentioned]

(* The timer of midnight: runDailyFreeResetOnce looks at the marker first. *)
CronFires ==
  /\ reset.phase = "idle" /\ timer # 0 /\ timer <= day
  /\ IF marker = day
     THEN timer' = day + 1 /\ UNCHANGED reset
     ELSE timer' = 0 /\ ResetBegin("cron")
  /\ UNCHANGED <<books, partner, orders, day, marker, changes, spoilt>>

(* An administrator resets all wallets. *)
AdminResetAll ==
  /\ Change
  /\ reset.phase = "idle" /\ ResetBegin("admin")
  /\ UNCHANGED <<books, partner>>

(* It reads the wallets there are, without locks, for grants and ledger ... *)
ResetSnapshot ==
  /\ reset.phase = "snapshot"
  /\ reset' = [reset EXCEPT !.phase = "write",
                            !.listed = Users \cup books.opened \cup reset.known]
  /\ UNCHANGED <<books, partner, orders, day, marker, timer, changes, spoilt>>

(* ... and opens and sets all wallets there are by now. *)
ResetWrite ==
  LET new    == reset.known \ books.opened
      exists == Users \cup books.opened \cup reset.known
      Moved(f) == [w \in Wallets |-> IF w \in new THEN books.quota[w].paid ELSE f[w]]
  IN  /\ reset.phase = "write"
      /\ books' = [books EXCEPT
                     !.opened = @ \cup reset.known,
                     !.free = [w \in Wallets |-> IF w \in exists THEN Daily ELSE @[w]],
                     !.paid = Moved(@), !.deposited = Moved(@),
                     !.quota = [q \in Qqs |-> IF q \in reset.known /\ @[q].row
                                              THEN Topped(@[q]) ELSE @[q]],
                     !.granted = @ \cup reset.listed]
      /\ reset' = IF reset.by = "admin" THEN NoReset ELSE [reset EXCEPT !.phase = "mark"]
      /\ UNCHANGED <<partner, orders, day, marker, timer, changes, spoilt>>

(* Mutant of ResetMark: the timer is not set again. *)
ResetMarkUnarmed ==
  /\ reset.phase = "mark"
  /\ marker' = day
  /\ reset' = NoReset
  /\ UNCHANGED <<books, partner, orders, day, timer, changes, spoilt>>

(* A transaction of its own leaves the marker; the timer is set again. *)
ResetMark ==
  /\ reset.phase = "mark"
  /\ marker' = day
  /\ timer' = IF reset.by = "cron" THEN day + 1 ELSE timer
  /\ reset' = NoReset
  /\ UNCHANGED <<books, partner, orders, day, changes, spoilt>>

(* Something can go wrong today, and now does. *)
Spoil == day \in BadDays \ spoilt /\ spoilt' = spoilt \cup {day}

(* A transaction of the reset fails, and so does the callback of the timer *)
(* that awaits it: nobody sets the timer again.                            *)
ResetFail ==
  /\ Spoil
  /\ reset.phase # "idle"
  /\ reset' = NoReset
  /\ UNCHANGED <<books, partner, orders, day, marker, timer, changes>>

(* A restart: open transactions are rolled back, the timer is set for the  *)
(* next midnight, and in the first minutes of a day the reset runs at once.*)
BackendRestart ==
  /\ Spoil
  /\ state'  = [o \in Orders |-> IF state[o] = "begun" THEN "none" ELSE state[o]]
  /\ linked' = [o \in Orders |-> IF state[o] = "begun" THEN Payer[o] ELSE linked[o]]
  /\ timer'  = day + 1
  /\ \/ reset' = NoReset
     \/ marker # day /\ ResetBegin("startup")
  /\ UNCHANGED <<books, partner, taken, day, marker, changes>>

(* Midnight; a reset that is due or under way is shorter than a day. *)
NewDay ==
  /\ day < MaxDays
  /\ reset.phase = "idle" /\ (timer = 0 \/ timer > day)
  /\ day' = day + 1
  /\ books' = [books EXCEPT !.granted = {}]
  /\ UNCHANGED <<partner, orders, marker, timer, reset, changes, spoilt>>

Next ==
  \/ \E o \in Orders : ChargeBegin(o) \/ Charge(o) \/ Refuse(o) \/ Keep(o) \/ Return(o)
  \/ \E w \in Wallets : Visit(w) \/ AdminReset(w)
  \/ \E w \in Wallets, a \in Amounts : Redeem(w, a) \/ Deduct(w, a)
  \/ \E q \in Qqs : AdminResetQq(q) \/ Preview(q)
  \/ \E u \in Users, q \in Qqs : Bind(u, q)
  \/ \E u \in Users : Unbind(u)
  \/ CronFires \/ AdminResetAll \/ ResetSnapshot \/ ResetWrite \/ ResetMark
  \/ ResetFail \/ BackendRestart \/ NewDay

Spec == Init /\ [][Next]_vars

(* The timer fires, and a transaction of the reset ends.                   *)
FairSpec == Spec /\ WF_vars(CronFires) /\ WF_vars(ResetSnapshot)
                 /\ WF_vars(ResetWrite) /\ WF_vars(ResetMark)

-----------------------------------------------------------------------------
(***************************************************************************)
(* Properties.                                                             *)
(***************************************************************************)

Allocation == [free : [Wallets -> Nat], paid : [Wallets -> Nat]]

(* Types.  That balances and allocations are natural numbers says that     *)
(* nobody overdraws a wallet: charges decide under the locks, by balances  *)
(* that the grants of the same transaction have already changed, and a     *)
(* deduction checks before it takes.                                       *)
TypeOK ==
  /\ books \in Books
  /\ partner \in [Wallets -> Wallets]
  /\ state \in [Orders -> {"none", "begun", "charged", "kept", "returned"}]
  /\ linked \in [Orders -> Wallets]
  /\ taken \in [Orders -> Allocation]
  /\ day \in 0..MaxDays /\ marker \in 0..MaxDays /\ timer \in 0..MaxDays + 1
  /\ reset \in [phase : {"idle", "snapshot", "write", "mark"},
                by : {"cron", "startup", "admin"},
                known : SUBSET Qqs, listed : SUBSET Wallets]
  /\ changes \in 0..MaxChanges
  /\ spoilt \subseteq BadDays

(* Paid money neither appears nor vanishes, wallet by wallet: what came in *)
(* is the balance and what orders have taken and not given back, also when *)
(* the wallets are bound, unbound, opened and reset in between.            *)
PaidConserved ==
  \A w \in Wallets :
    books.deposited[w] =
      books.paid[w] + MapThenSumSet(LAMBDA o : taken[o].paid[w],
                                    {o \in Orders : state[o] \in {"charged", "kept"}})

(* An order that was charged has paid its price, no more and no less, from *)
(* its own wallet and from the one its transaction found bound.            *)
ChargeExact ==
  \A o \in Orders : state[o] \in {"charged", "kept", "returned"} =>
    /\ Both(taken[o].free, o) + Both(taken[o].paid, o) = Price[o]
    /\ \A w \in Wallets \ {Payer[o], linked[o]} :
         taken[o].free[w] = 0 /\ taken[o].paid[w] = 0

(* The old table shows the paid balance of every QQ number with a wallet,  *)
(* although its row may come into being before the wallet, with it, or     *)
(* with the first change of the balance.                                   *)
PaidMirrored == \A q \in books.opened : books.quota[q].paid = books.paid[q]

(* Every day sees its reset (main.ts:71: every day at 0:00), before it is  *)
(* over, and the last one in the end: the timer is set again after each    *)
(* reset, through resets of administrators, whatever orders do, and        *)
(* restarts.  The exceptions are a day on which a reset has failed or the  *)
(* backend was restarted, and every day after the reset of the timer has   *)
(* failed, when nobody has set the timer again.                            *)
Disarmed == spoilt # {} /\ timer = 0 /\ reset.phase = "idle"

DayServed == marker = day \/ day \in spoilt \/ Disarmed

ResetEachDay ==
  /\ [][day' # day => DayServed]_vars
  /\ []<>DayServed
=============================================================================
