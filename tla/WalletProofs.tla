---------------------------- MODULE WalletProofs ----------------------------
(***************************************************************************)
(* Theorems about Wallet: no wallet is overdrawn, every charge is exact,   *)
(* the old table mirrors the paid balances, and paid money is conserved,   *)
(* for any number of wallets, orders, amounts and days.                    *)
(***************************************************************************)
EXTENDS Wallet, FiniteSetTheorems, TLAPS

(* The inductive invariant of the books: types, rows of numbers without    *)
(* wallet are not negative, missing rows count as nothing, and the rows of *)
(* wallets show their paid balance.                                        *)
BooksInv(b) ==
  /\ b \in Books
  /\ \A q \in Qqs \ b.opened : b.quota[q].free \in Nat
  /\ \A q \in Qqs : ~b.quota[q].row => b.quota[q].paid = 0
  /\ \A q \in b.opened : b.quota[q].paid = b.paid[q]

(* A first wallet takes over the row of its number and keeps the books. *)
LEMMA OpenKeeps ==
  ASSUME NEW b, BooksInv(b), NEW w \in Wallets
  PROVE  /\ BooksInv(Open(b, w))
         /\ w \in Users \cup Open(b, w).opened
         /\ b.opened \subseteq Open(b, w).opened
<1>1. CASE w \in Users \cup b.opened
  BY <1>1 DEF Open
<1>2. CASE w \notin Users \cup b.opened
  <2> DEFINE c == Open(b, w)
  <2>1. w \in Qqs \ b.opened /\ w \notin Users
    BY <1>2 DEF Wallets
  <2>2. b.quota[w] \in QuotaRow /\ b.quota[w].free \in Nat /\ b.quota[w].paid \in Nat
    BY <2>1 DEF BooksInv, Books, QuotaRow
  <2>3. /\ c.opened = b.opened \cup {w}
        /\ c.quota = b.quota
        /\ c.free = [b.free EXCEPT ![w] = b.quota[w].free]
        /\ c.paid = [b.paid EXCEPT ![w] = b.quota[w].paid]
        /\ c.deposited = [b.deposited EXCEPT ![w] = b.quota[w].paid]
        /\ c.granted \in SUBSET Wallets
        /\ c = [free |-> c.free, paid |-> c.paid, opened |-> c.opened, quota |-> c.quota,
                granted |-> c.granted, deposited |-> c.deposited]
    BY <1>2 DEF Open, BooksInv, Books
  <2>4. c \in Books
    BY <2>1, <2>2, <2>3 DEF BooksInv, Books
  <2>5. \A q \in c.opened : c.quota[q].paid = c.paid[q]
    BY <2>1, <2>3 DEF BooksInv, Books, Wallets
  <2> QED
    BY <2>1, <2>3, <2>4, <2>5 DEF BooksInv
<1> QED
  BY <1>1, <1>2

(* The balances after a posting. *)
LEMMA PostBooks ==
  ASSUME NEW b, b \in Books, NEW f \in [Wallets -> Int], NEW p \in [Wallets -> Int]
  PROVE  /\ Post(b, f, p).free = [w \in Wallets |-> b.free[w] + f[w]]
         /\ Post(b, f, p).paid = [w \in Wallets |-> b.paid[w] + p[w]]
         /\ Post(b, f, p).quota = [q \in Qqs |-> IF f[q] = 0 /\ p[q] = 0 THEN b.quota[q]
                                                 ELSE Mirrored(b.quota[q], f[q], p[q])]
         /\ Post(b, f, p).opened = b.opened
         /\ Post(b, f, p).granted = b.granted
         /\ Post(b, f, p).deposited = b.deposited
         /\ Post(b, f, p) =
              [free |-> Post(b, f, p).free, paid |-> Post(b, f, p).paid,
               opened |-> b.opened, quota |-> Post(b, f, p).quota,
               granted |-> b.granted, deposited |-> b.deposited]
<1> DEFINE F == [w \in Wallets |-> b.free[w] + f[w]]
           P == [w \in Wallets |-> b.paid[w] + p[w]]
           Q == [q \in Qqs |-> IF f[q] = 0 /\ p[q] = 0 THEN b.quota[q]
                               ELSE Mirrored(b.quota[q], f[q], p[q])]
<1>1. Post(b, f, p) = [b EXCEPT !.free = F, !.paid = P, !.quota = Q]
  BY Zenon DEF Post
<1> HIDE DEF F, P, Q
<1>2. Post(b, f, p) = [free |-> F, paid |-> P, opened |-> b.opened, quota |-> Q,
                       granted |-> b.granted, deposited |-> b.deposited]
  BY <1>1 DEF Books
<1> QED
  BY <1>2 DEF F, P, Q

(* A posting that overdraws nothing, and takes nothing from a number       *)
(* without wallet, keeps the books; the mirror follows, because a missing  *)
(* row stands for a paid balance of nothing.                               *)
LEMMA PostKeeps ==
  ASSUME NEW b, BooksInv(b), NEW f \in [Wallets -> Int], NEW p \in [Wallets -> Int],
         \A w \in Wallets : b.free[w] + f[w] >= 0 /\ b.paid[w] + p[w] >= 0,
         \A q \in Qqs \ b.opened : f[q] >= 0 /\ p[q] >= 0
  PROVE  BooksInv(Post(b, f, p))
<1> DEFINE c == Post(b, f, p)
<1>1. /\ c.free = [w \in Wallets |-> b.free[w] + f[w]]
      /\ c.paid = [w \in Wallets |-> b.paid[w] + p[w]]
      /\ c.quota = [q \in Qqs |-> IF f[q] = 0 /\ p[q] = 0 THEN b.quota[q]
                                  ELSE Mirrored(b.quota[q], f[q], p[q])]
      /\ c.opened = b.opened
      /\ c = [free |-> c.free, paid |-> c.paid, opened |-> b.opened, quota |-> c.quota,
              granted |-> b.granted, deposited |-> b.deposited]
  BY PostBooks DEF BooksInv
<1>2. c.free \in [Wallets -> Nat] /\ c.paid \in [Wallets -> Nat]
  BY <1>1 DEF BooksInv, Books
<1>3. ASSUME NEW q \in Qqs
      PROVE  /\ c.quota[q] \in QuotaRow
             /\ q \notin b.opened => c.quota[q].free \in Nat
             /\ ~c.quota[q].row => c.quota[q].paid = 0
             /\ q \in b.opened => c.quota[q].paid = c.paid[q]
  <2> DEFINE r == b.quota[q]
  <2>1. /\ r \in QuotaRow /\ f[q] \in Int /\ p[q] \in Int
        /\ b.paid[q] \in Nat /\ b.paid[q] + p[q] >= 0
        /\ c.paid[q] = b.paid[q] + p[q]
        /\ ~r.row => r.paid = 0
        /\ q \in b.opened => r.paid = b.paid[q]
        /\ q \notin b.opened => r.free \in Nat /\ f[q] >= 0 /\ p[q] >= 0
    BY <1>1 DEF BooksInv, Books, Wallets
  <2>2. CASE f[q] = 0 /\ p[q] = 0
    BY <1>1, <2>1, <2>2
  <2>3. CASE ~(f[q] = 0 /\ p[q] = 0) /\ r.row
    <3>1. c.quota[q] = [r EXCEPT !.free = r.free + f[q], !.paid = r.paid + p[q]]
      BY <1>1, <2>3 DEF Mirrored
    <3>2. c.quota[q] = [row |-> TRUE, free |-> r.free + f[q], paid |-> r.paid + p[q]]
      BY <3>1, <2>1, <2>3 DEF QuotaRow
    <3> QED
      BY <3>2, <2>1 DEF QuotaRow
  <2>4. CASE ~(f[q] = 0 /\ p[q] = 0) /\ ~r.row
    <3>1. c.quota[q] = [row |-> TRUE, free |-> NotBelow0(f[q]), paid |-> NotBelow0(p[q])]
      BY <1>1, <2>4 DEF Mirrored
    <3> QED
      BY <3>1, <2>1, <2>4 DEF QuotaRow, NotBelow0
  <2> QED
    BY <2>2, <2>3, <2>4
<1>4. c.quota \in [Qqs -> QuotaRow]
  BY <1>1, <1>3
<1>5. c \in Books
  BY <1>1, <1>2, <1>4 DEF BooksInv, Books
<1> HIDE DEF c
<1>6. c.opened = b.opened /\ b.opened \subseteq Qqs
  BY <1>1 DEF BooksInv, Books
<1>7. BooksInv(c)
  BY <1>3, <1>5, <1>6 DEF BooksInv
<1> QED
  BY <1>7 DEF c

LEMMA OnlyType ==
  ASSUME NEW w \in Wallets, NEW a \in Nat
  PROVE  /\ Only(w, a) \in [Wallets -> Nat]
         /\ Only(w, a) \in [Wallets -> Int]
         /\ Nothing \in [Wallets -> Int]
         /\ \A v \in Wallets : Nothing[v] = 0 /\ Only(w, a)[v] = IF v = w THEN a ELSE 0
BY DEF Only, Nothing

(* A grant keeps the books and opens nothing. *)
LEMMA GrantKeeps ==
  ASSUME NEW b, BooksInv(b), NEW w \in Wallets, Daily \in Nat
  PROVE  /\ BooksInv(Grant(b, w))
         /\ Grant(b, w).opened = b.opened
<1>1. CASE Daily = 0 \/ w \in b.granted
  BY <1>1 DEF Grant
<1>2. CASE ~(Daily = 0 \/ w \in b.granted)
  <2> DEFINE c == [b EXCEPT !.granted = b.granted \cup {w}]
  <2>1. /\ c.free = b.free /\ c.paid = b.paid /\ c.opened = b.opened
        /\ c.quota = b.quota /\ c \in Books
    BY DEF BooksInv, Books
  <2>2. BooksInv(c)
    BY <2>1 DEF BooksInv
  <2>3. Grant(b, w) = Post(c, Only(w, Daily), Nothing)
    BY <1>2 DEF Grant
  <2>4. /\ Only(w, Daily) \in [Wallets -> Int] /\ Nothing \in [Wallets -> Int]
        /\ \A v \in Wallets : /\ Only(w, Daily)[v] \in Nat
                              /\ Nothing[v] = 0
    BY OnlyType
  <2>5. \A v \in Wallets : c.free[v] + Only(w, Daily)[v] >= 0 /\ c.paid[v] + Nothing[v] >= 0
    BY <2>1, <2>4 DEF Books
  <2>6. \A q \in Qqs \ c.opened : Only(w, Daily)[q] >= 0 /\ Nothing[q] >= 0
    BY <2>4 DEF Wallets
  <2>7. c \in Books
    BY <2>1
  <2> HIDE DEF c
  <2>8. BooksInv(Post(c, Only(w, Daily), Nothing))
    BY <2>2, <2>4, <2>5, <2>6, PostKeeps
  <2>9. Post(c, Only(w, Daily), Nothing).opened = c.opened
    BY <2>4, <2>7, PostBooks
  <2> QED
    BY <2>1, <2>3, <2>8, <2>9
<1> QED
  BY <1>1, <1>2

(* Whoever accesses two wallets finds both open. *)
LEMMA AccessKeeps ==
  ASSUME NEW b, BooksInv(b), NEW v \in Wallets, NEW w \in Wallets, Daily \in Nat
  PROVE  /\ BooksInv(Access(b, v, w))
         /\ {v, w} \subseteq Users \cup Access(b, v, w).opened
<1> DEFINE b1 == Open(b, v)
           b2 == Grant(b1, v)
           b3 == Open(b2, w)
<1>1. BooksInv(b1) /\ v \in Users \cup b1.opened
  BY OpenKeeps
<1>2. BooksInv(b2) /\ b2.opened = b1.opened
  BY <1>1, GrantKeeps
<1>3. BooksInv(b3) /\ w \in Users \cup b3.opened /\ b2.opened \subseteq b3.opened
  BY <1>2, OpenKeeps
<1>4. BooksInv(Grant(b3, w)) /\ Grant(b3, w).opened = b3.opened
  BY <1>3, GrantKeeps
<1> QED
  BY <1>1, <1>2, <1>3, <1>4 DEF Access

(***************************************************************************)
(* How an amount is taken.                                                 *)
(***************************************************************************)

LEMMA PartType ==
  ASSUME NEW o \in Orders, NEW f \in [Wallets -> Nat], NEW a \in Nat,
         linked \in [Orders -> Wallets]
  PROVE  /\ Part(f, o, a) \in [Wallets -> Nat]
         /\ \A w \in Wallets : Part(f, o, a)[w] <= f[w]
         /\ \A w \in Wallets \ {Payer[o], linked[o]} : Part(f, o, a)[w] = 0
         /\ Both(f, o) \in Nat
         /\ Both(Part(f, o, a), o) = Least(Both(f, o), a)
<1> DEFINE v == Payer[o]
           w == linked[o]
           first == Least(f[v], a)
           second == Least(f[w], a - first)
<1>1. v \in Wallets /\ w \in Wallets /\ f[v] \in Nat /\ f[w] \in Nat
  BY WalletAssumption
<1>2. /\ first \in Nat /\ first <= f[v] /\ first <= a
      /\ second \in Nat /\ second <= f[w]
  BY <1>1 DEF Least
<1>3. \A x \in Wallets : Part(f, o, a)[x] = IF x = v THEN first ELSE IF x = w THEN second ELSE 0
  BY DEF Part
<1>4. Part(f, o, a) \in [Wallets -> Nat]
  <2>1. Part(f, o, a) = [x \in Wallets |-> IF x = v THEN first ELSE IF x = w THEN second ELSE 0]
    BY DEF Part
  <2> HIDE DEF v, w, first, second
  <2> QED
    BY <1>2, <2>1
<1>5. Both(f, o) = f[v] + (IF w = v THEN 0 ELSE f[w])
  BY DEF Both
<1>6. Both(Part(f, o, a), o) = first + (IF w = v THEN 0 ELSE second)
  BY <1>1, <1>3 DEF Both
<1>7. Both(Part(f, o, a), o) = Least(Both(f, o), a)
  BY <1>1, <1>5, <1>6 DEF Least
<1> HIDE DEF v, w, first, second
<1>8. \A x \in Wallets : Part(f, o, a)[x] <= f[x]
  BY <1>2, <1>3
<1>9. \A x \in Wallets \ {v, w} : Part(f, o, a)[x] = 0
  BY <1>3
<1> QED
  BY <1>1, <1>4, <1>5, <1>7, <1>8, <1>9 DEF v, w

(* A charge that can be afforded takes exactly the price, from the wallets *)
(* of the order only, and overdraws nothing.                               *)
LEMMA ChargeSound ==
  ASSUME NEW o \in Orders, linked \in [Orders -> Wallets],
         BooksInv(books), Affordable(o)
  PROVE  /\ FreeUse(o) \in [Wallets -> Nat] /\ PaidUse(o) \in [Wallets -> Nat]
         /\ Both(FreeUse(o), o) + Both(PaidUse(o), o) = Price[o]
         /\ \A w \in Wallets \ {Payer[o], linked[o]} :
              FreeUse(o)[w] = 0 /\ PaidUse(o)[w] = 0
         /\ BooksInv(Post(Accessed(o), Minus(FreeUse(o)), Minus(PaidUse(o))))
<1> DEFINE b == Accessed(o)
           f == FreeUse(o)
           p == PaidUse(o)
<1>1. /\ BooksInv(b) /\ {Payer[o], linked[o]} \subseteq Users \cup b.opened
      /\ Payer[o] \in Wallets /\ linked[o] \in Wallets /\ Price[o] \in Nat
  <2>1. Payer[o] \in Wallets /\ linked[o] \in Wallets /\ Price[o] \in Nat /\ Daily \in Nat
    BY WalletAssumption
  <2> QED
    BY <2>1, AccessKeeps DEF Accessed
<1>2. b.free \in [Wallets -> Nat] /\ b.paid \in [Wallets -> Nat] /\ b \in Books
  BY <1>1 DEF BooksInv, Books
<1>f. f = Part(b.free, o, Price[o])
  BY DEF FreeUse
<1>p. p = Part(b.paid, o, Price[o] - Both(f, o))
  BY DEF PaidUse
<1>b. Both(b.free, o) + Both(b.paid, o) >= Price[o]
  BY DEF Affordable
<1> HIDE DEF b, f, p
<1>3. /\ f \in [Wallets -> Nat] /\ \A w \in Wallets : f[w] <= b.free[w]
      /\ \A w \in Wallets \ {Payer[o], linked[o]} : f[w] = 0
      /\ Both(b.free, o) \in Nat /\ Both(f, o) = Least(Both(b.free, o), Price[o])
  BY <1>1, <1>2, <1>f, PartType
<1> DEFINE rest == Price[o] - Both(f, o)
<1>4. rest \in Nat
  BY <1>1, <1>3 DEF Least
<1>5. p = Part(b.paid, o, rest)
  BY <1>p
<1> HIDE DEF rest
<1> DEFINE g == b.paid
<1>7. g \in [Wallets -> Nat] /\ p = Part(g, o, rest)
  BY <1>2, <1>5
<1> HIDE DEF g
<1>a. /\ Part(g, o, rest) \in [Wallets -> Nat]
      /\ \A w \in Wallets : Part(g, o, rest)[w] <= g[w]
      /\ \A w \in Wallets \ {Payer[o], linked[o]} : Part(g, o, rest)[w] = 0
      /\ Both(g, o) \in Nat
      /\ Both(Part(g, o, rest), o) = Least(Both(g, o), rest)
  BY <1>4, <1>7, PartType, Zenon
<1>6. /\ p \in [Wallets -> Nat] /\ \A w \in Wallets : p[w] <= b.paid[w]
      /\ \A w \in Wallets \ {Payer[o], linked[o]} : p[w] = 0
      /\ Both(b.paid, o) \in Nat /\ Both(p, o) = Least(Both(b.paid, o), rest)
  BY <1>7, <1>a DEF g
<1>8. Both(f, o) + Both(p, o) = Price[o]
  BY <1>1, <1>3, <1>4, <1>6, <1>b DEF Least, rest
<1>9. /\ Minus(f) \in [Wallets -> Int] /\ Minus(p) \in [Wallets -> Int]
      /\ \A w \in Wallets : Minus(f)[w] = -f[w] /\ Minus(p)[w] = -p[w]
  BY <1>3, <1>6 DEF Minus
<1>10. \A w \in Wallets : b.free[w] + Minus(f)[w] >= 0 /\ b.paid[w] + Minus(p)[w] >= 0
  BY <1>2, <1>3, <1>6, <1>9
<1>11. \A q \in Qqs \ b.opened : Minus(f)[q] >= 0 /\ Minus(p)[q] >= 0
  <2> SUFFICES ASSUME NEW q \in Qqs \ b.opened
               PROVE  Minus(f)[q] >= 0 /\ Minus(p)[q] >= 0
    OBVIOUS
  <2>1. q \in Wallets /\ q \notin Users
    BY WalletAssumption DEF Wallets
  <2>2. q \notin {Payer[o], linked[o]}
    BY <1>1, <2>1
  <2> QED
    BY <1>3, <1>6, <1>9, <2>1, <2>2
<1>12. BooksInv(Post(b, Minus(f), Minus(p)))
  BY <1>1, <1>9, <1>10, <1>11, PostKeeps
<1> QED
  BY <1>3, <1>6, <1>8, <1>12 DEF b, f, p

(***************************************************************************)
(* The books, action by action.                                            *)
(***************************************************************************)

LEMMA RefillKeeps ==
  ASSUME NEW b, BooksInv(b), NEW w \in Wallets, Daily \in Nat, w \in Users \cup b.opened
  PROVE  /\ BooksInv(Refill(b, w))
         /\ Refill(b, w).granted = b.granted
<1> DEFINE c == Refill(b, w)
           F == [b.free EXCEPT ![w] = Daily]
           Q == [q \in Qqs |-> IF q = w THEN Topped(b.quota[q])
                               ELSE b.quota[q]]
<1>c. c = [b EXCEPT !.free = F, !.quota = Q]
  BY Zenon DEF Refill
<1>q. \A q \in Qqs : Q[q] = IF q = w THEN Topped(b.quota[q])
                            ELSE b.quota[q]
  OBVIOUS
<1>f. F \in [Wallets -> Nat]
  BY DEF BooksInv, Books
<1> HIDE DEF c, F, Q
<1>1. /\ c.free = F /\ c.quota = Q
      /\ c.paid = b.paid /\ c.opened = b.opened /\ c.granted = b.granted
      /\ c.deposited = b.deposited
      /\ c = [free |-> c.free, paid |-> c.paid, opened |-> c.opened, quota |-> c.quota,
              granted |-> c.granted, deposited |-> c.deposited]
  BY <1>c DEF BooksInv, Books
<1>d. DOMAIN Q = Qqs /\ Q = [q \in Qqs |-> Q[q]]
  BY DEF Q
<1>2. ASSUME NEW q \in Qqs
      PROVE  /\ c.quota[q] \in QuotaRow
             /\ c.quota[q].paid = b.quota[q].paid
             /\ ~c.quota[q].row => ~b.quota[q].row
             /\ q # w => c.quota[q] = b.quota[q]
             /\ q = w => c.quota[q].free \in Nat
  <2> DEFINE r == b.quota[q]
  <2>1. r \in QuotaRow
    BY DEF BooksInv, Books
  <2>2. c.quota[q] = IF q = w THEN Topped(r) ELSE r
    BY <1>1, <1>q
  <2> HIDE DEF r
  <2>3. Topped(r) = [row |-> TRUE, free |-> Daily, paid |-> r.paid]
    BY DEF Topped
  <2>4. CASE q = w
    BY <2>1, <2>2, <2>3, <2>4 DEF r, QuotaRow
  <2>5. CASE q # w
    BY <2>1, <2>2, <2>5 DEF r
  <2> QED
    BY <2>4, <2>5
<1>3. c.quota \in [Qqs -> QuotaRow]
  BY <1>1, <1>2, <1>d
<1>4. c.free \in [Wallets -> Nat]
  BY <1>1, <1>f
<1>5. c \in Books
  BY <1>1, <1>3, <1>4 DEF BooksInv, Books
<1>6. c.opened \subseteq Qqs
  BY <1>5 DEF Books
<1>7. BooksInv(c)
  BY <1>1, <1>2, <1>5, <1>6 DEF BooksInv
<1> QED
  BY <1>1, <1>7 DEF c

(* What does not touch balances, rows and openings keeps the books. *)
LEMMA SameKeeps ==
  ASSUME NEW b, BooksInv(b), NEW c, c \in Books, c.free = b.free, c.paid = b.paid,
         c.opened = b.opened, c.quota = b.quota
  PROVE  BooksInv(c)
BY DEF BooksInv

(* A row with the paid balance it had, and a free one that is natural      *)
(* unless the number has a wallet.                                         *)
LEMMA RowKeeps ==
  ASSUME NEW b, BooksInv(b), NEW q \in Qqs, NEW r \in QuotaRow,
         q \notin b.opened => r.free \in Nat, r.row, r.paid = b.quota[q].paid
  PROVE  BooksInv([b EXCEPT !.quota[q] = r])
<1> DEFINE c == [b EXCEPT !.quota[q] = r]
           Q == [b.quota EXCEPT ![q] = r]
<1>1. c = [b EXCEPT !.quota = Q]
  BY DEF BooksInv, Books
<1>2. Q \in [Qqs -> QuotaRow] /\ \A x \in Qqs : Q[x] = IF x = q THEN r ELSE b.quota[x]
  BY DEF BooksInv, Books
<1> HIDE DEF c, Q
<1>3. /\ c.free = b.free /\ c.paid = b.paid /\ c.opened = b.opened /\ c.quota = Q
      /\ c \in Books
  BY <1>1, <1>2 DEF BooksInv, Books
<1>4. BooksInv(c)
  BY <1>2, <1>3 DEF BooksInv, Books
<1> QED
  BY <1>4 DEF c

LEMMA RedeemKeeps ==
  ASSUME NEW w \in Wallets, NEW a \in Nat, BooksInv(books)
  PROVE  BooksInv(Recharged(w, a))
<1> DEFINE b == Open(books, w)
           c == [b EXCEPT !.deposited[w] = @ + a]
<1>1. BooksInv(b)
  BY OpenKeeps
<1> HIDE DEF b
<1>2. c \in Books /\ c.free = b.free /\ c.paid = b.paid /\ c.opened = b.opened /\ c.quota = b.quota
  BY <1>1 DEF BooksInv, Books
<1> HIDE DEF c
<1>3. BooksInv(c)
  BY <1>1, <1>2, SameKeeps
<1>4. /\ Only(w, a) \in [Wallets -> Int] /\ Nothing \in [Wallets -> Int]
      /\ \A v \in Wallets : Nothing[v] = 0 /\ Only(w, a)[v] >= 0
  BY OnlyType
<1>5. \A v \in Wallets : c.free[v] + Nothing[v] >= 0 /\ c.paid[v] + Only(w, a)[v] >= 0
  BY <1>2, <1>4 DEF Books
<1>6. \A q \in Qqs \ c.opened : Nothing[q] >= 0 /\ Only(w, a)[q] >= 0
  BY <1>4 DEF Wallets
<1>7. BooksInv(Post(c, Nothing, Only(w, a)))
  BY <1>3, <1>4, <1>5, <1>6, PostKeeps
<1> QED
  BY <1>7 DEF Recharged, b, c

LEMMA DeductKeeps ==
  ASSUME NEW w \in Wallets, NEW a \in Nat, BooksInv(books), Deductible(w, a)
  PROVE  BooksInv(Post([Open(books, w) EXCEPT !.deposited[w] = @ - a],
                       Nothing, Minus(Only(w, a))))
<1> DEFINE b == Open(books, w)
           c == [b EXCEPT !.deposited[w] = @ - a]
<1>1. BooksInv(b) /\ w \in Users \cup b.opened /\ b.paid[w] >= a
  BY OpenKeeps DEF Deductible
<1> HIDE DEF b
<1>2. c \in Books /\ c.free = b.free /\ c.paid = b.paid /\ c.opened = b.opened /\ c.quota = b.quota
  BY <1>1 DEF BooksInv, Books
<1> HIDE DEF c
<1>3. BooksInv(c)
  BY <1>1, <1>2, SameKeeps
<1>4. /\ Minus(Only(w, a)) \in [Wallets -> Int] /\ Nothing \in [Wallets -> Int]
      /\ \A v \in Wallets : Nothing[v] = 0 /\ Minus(Only(w, a))[v] = IF v = w THEN -a ELSE 0
  BY OnlyType DEF Minus
<1>5. \A v \in Wallets :
        c.free[v] + Nothing[v] >= 0 /\ c.paid[v] + Minus(Only(w, a))[v] >= 0
  BY <1>1, <1>2, <1>4 DEF Books
<1>6. \A q \in Qqs \ c.opened : Nothing[q] >= 0 /\ Minus(Only(w, a))[q] >= 0
  BY <1>1, <1>2, <1>4, WalletAssumption DEF Wallets
<1>7. BooksInv(Post(c, Nothing, Minus(Only(w, a))))
  BY <1>3, <1>4, <1>5, <1>6, PostKeeps
<1> QED
  BY <1>7 DEF b, c

(* The daily reset opens wallets with the paid balance of their rows. *)
LEMMA ResetKeeps ==
  ASSUME BooksInv(books), reset.known \subseteq Qqs, reset.listed \subseteq Wallets, ResetWrite
  PROVE  BooksInv(books')
<1> DEFINE new == reset.known \ books.opened
           exists == Users \cup books.opened \cup reset.known
           F == [w \in Wallets |-> IF w \in exists THEN Daily ELSE books.free[w]]
           P == [w \in Wallets |-> IF w \in new THEN books.quota[w].paid ELSE books.paid[w]]
           D == [w \in Wallets |-> IF w \in new THEN books.quota[w].paid ELSE books.deposited[w]]
           Q == [q \in Qqs |-> IF q \in reset.known /\ books.quota[q].row
                               THEN Topped(books.quota[q]) ELSE books.quota[q]]
<1>1. books' = [books EXCEPT !.opened = @ \cup reset.known, !.free = F, !.paid = P,
                             !.deposited = D, !.quota = Q, !.granted = @ \cup reset.listed]
  BY Zenon DEF ResetWrite
<1>2. /\ books \in Books
      /\ \A q \in Qqs : /\ books.quota[q] \in QuotaRow /\ books.quota[q].paid \in Nat
                        /\ books.quota[q].free \in Int /\ books.quota[q].row \in BOOLEAN
  BY DEF BooksInv, Books, QuotaRow
<1>3. F \in [Wallets -> Nat]
  BY <1>2, WalletAssumption DEF Books
<1>4. P \in [Wallets -> Nat] /\ D \in [Wallets -> Int]
  BY <1>2 DEF Books
<1>5. ASSUME NEW q \in Qqs
      PROVE  /\ Q[q] \in QuotaRow /\ Q[q].paid = books.quota[q].paid
             /\ ~Q[q].row => ~books.quota[q].row
             /\ q \notin reset.known => Q[q] = books.quota[q]
  <2> DEFINE r == books.quota[q]
  <2>1. Q[q] = IF q \in reset.known /\ r.row THEN Topped(r) ELSE r
    OBVIOUS
  <2>2. Topped(r) = [row |-> TRUE, free |-> Daily, paid |-> r.paid] /\ Daily \in Int
    BY WalletAssumption DEF Topped
  <2>3. r \in QuotaRow
    BY <1>2
  <2> HIDE DEF r, Q
  <2>4. CASE q \in reset.known /\ r.row
    BY <2>1, <2>2, <2>3, <2>4 DEF QuotaRow, r
  <2>5. CASE ~(q \in reset.known /\ r.row)
    BY <2>1, <2>3, <2>5 DEF r
  <2> QED
    BY <2>4, <2>5
<1>6. Q \in [Qqs -> QuotaRow]
  BY <1>5
<1>7. \A q \in Qqs : P[q] = IF q \in new THEN books.quota[q].paid ELSE books.paid[q]
  BY DEF Wallets
<1> HIDE DEF F, P, D, Q
<1>8. /\ books'.free = F /\ books'.paid = P /\ books'.quota = Q
      /\ books'.opened = books.opened \cup reset.known
      /\ books' \in Books
  BY <1>1, <1>2, <1>3, <1>4, <1>6 DEF Books
<1>9. books.opened \subseteq Qqs
  BY <1>2 DEF Books
<1>10. \A q \in Qqs \ books'.opened : books'.quota[q].free \in Nat
  BY <1>5, <1>8 DEF BooksInv
<1>11. \A q \in books'.opened : books'.quota[q].paid = books'.paid[q]
  BY <1>5, <1>7, <1>8, <1>9 DEF BooksInv
<1> QED
  BY <1>5, <1>8, <1>10, <1>11 DEF BooksInv

(***************************************************************************)
(* The invariant.                                                          *)
(***************************************************************************)

Inv == TypeOK /\ BooksInv(books) /\ ChargeExact

LEMMA InitInv == Init => Inv
<1> SUFFICES ASSUME Init PROVE Inv
  OBVIOUS
<1>0. PICK quota \in [Qqs -> {NoQuota} \cup [row : {TRUE}, free : Legacy, paid : Legacy]] :
        books = [free |-> Nothing, paid |-> Nothing, opened |-> {}, quota |-> quota,
                 granted |-> {}, deposited |-> Nothing]
  BY DEF Init
<1>1. /\ books.free = Nothing /\ books.paid = Nothing /\ books.deposited = Nothing
      /\ books.opened = {} /\ books.granted = {} /\ books.quota = quota
      /\ books = [free |-> books.free, paid |-> books.paid, opened |-> books.opened,
                  quota |-> books.quota, granted |-> books.granted,
                  deposited |-> books.deposited]
  BY <1>0
<1>2. Nothing \in [Wallets -> Nat] /\ Nothing \in [Wallets -> Int]
  BY DEF Nothing
<1>3. ASSUME NEW q \in Qqs
      PROVE  /\ books.quota[q] \in QuotaRow /\ books.quota[q].free \in Nat
             /\ ~books.quota[q].row => books.quota[q].paid = 0
  <2>1. CASE books.quota[q] = NoQuota
    BY <2>1 DEF NoQuota, QuotaRow
  <2>2. CASE books.quota[q] \in [row : {TRUE}, free : Legacy, paid : Legacy]
    <3>1. PICK f \in Legacy, p \in Legacy :
            books.quota[q] = [row |-> TRUE, free |-> f, paid |-> p]
      BY <2>2
    <3> QED
      BY <3>1, WalletAssumption DEF QuotaRow
  <2> QED
    BY <1>1, <2>1, <2>2
<1>4. books.quota \in [Qqs -> QuotaRow]
  BY <1>1, <1>3
<1>5. books \in Books
  BY <1>1, <1>2, <1>4 DEF Books
<1>6. BooksInv(books)
  BY <1>1, <1>3, <1>5 DEF BooksInv
<1>7. TypeOK
  <2>1. linked \in [Orders -> Wallets] /\ taken \in [Orders -> Allocation]
    BY <1>2, WalletAssumption DEF Init, Allocation
  <2>2. /\ partner \in [Wallets -> Wallets]
        /\ state \in [Orders -> {"none", "begun", "charged", "kept", "returned"}]
        /\ day \in 0..MaxDays /\ marker \in 0..MaxDays /\ timer \in 0..MaxDays + 1
        /\ changes \in 0..MaxChanges /\ spoilt \subseteq BadDays
    BY WalletAssumption DEF Init
  <2>3. reset \in [phase : {"idle", "snapshot", "write", "mark"},
                   by : {"cron", "startup", "admin"},
                   known : SUBSET Qqs, listed : SUBSET Wallets]
    BY DEF Init, NoReset
  <2> QED
    BY <1>5, <2>1, <2>2, <2>3 DEF TypeOK
<1>8. ChargeExact
  BY DEF Init, ChargeExact
<1> QED
  BY <1>6, <1>7, <1>8 DEF Inv

(* Every action keeps the books. *)
LEMMA BooksNext ==
  ASSUME TypeOK, BooksInv(books), Next
  PROVE  BooksInv(books')
<1> USE WalletAssumption
<1>1. ASSUME NEW o \in Orders, Charge(o) PROVE BooksInv(books')
  BY <1>1, ChargeSound DEF Charge, TypeOK
<1>2. ASSUME NEW o \in Orders, Return(o) PROVE BooksInv(books')
  <2> DEFINE f == taken[o].free
             p == taken[o].paid
  <2>1. /\ books' = Post(books, f, p) /\ f \in [Wallets -> Nat] /\ p \in [Wallets -> Nat]
        /\ books.free \in [Wallets -> Nat] /\ books.paid \in [Wallets -> Nat]
    BY <1>2 DEF Return, Refunded, TypeOK, Allocation, Books
  <2> HIDE DEF f, p
  <2>2. /\ f \in [Wallets -> Int] /\ p \in [Wallets -> Int]
        /\ \A w \in Wallets : books.free[w] + f[w] >= 0 /\ books.paid[w] + p[w] >= 0
        /\ \A q \in Qqs \ books.opened : f[q] >= 0 /\ p[q] >= 0
    BY <2>1 DEF Wallets
  <2> QED
    BY <2>1, <2>2, PostKeeps
<1>3. ASSUME NEW w \in Wallets, Visit(w) PROVE BooksInv(books')
  BY <1>3, AccessKeeps DEF Visit, TypeOK
<1>4. ASSUME NEW w \in Wallets, AdminReset(w) PROVE BooksInv(books')
  <2> DEFINE b == Refill(books, w)
             c == [b EXCEPT !.granted = b.granted \cup {w}]
  <2>1. BooksInv(b) /\ books' = c
    BY <1>4, RefillKeeps DEF AdminReset
  <2> HIDE DEF b
  <2>2. c \in Books /\ c.free = b.free /\ c.paid = b.paid /\ c.opened = b.opened /\ c.quota = b.quota
    BY <2>1 DEF BooksInv, Books
  <2> QED
    BY <2>1, <2>2, SameKeeps
<1>5. ASSUME NEW w \in Wallets, NEW a \in Amounts, Redeem(w, a) PROVE BooksInv(books')
  BY <1>5, RedeemKeeps DEF Redeem
<1>6. ASSUME NEW w \in Wallets, NEW a \in Amounts, Deduct(w, a) PROVE BooksInv(books')
  BY <1>6, DeductKeeps DEF Deduct
<1>7. ASSUME NEW q \in Qqs, AdminResetQq(q) PROVE BooksInv(books')
  <2>1. BooksInv(Open(books, q)) /\ q \in Users \cup Open(books, q).opened /\ q \in Wallets
    BY OpenKeeps DEF Wallets
  <2> QED
    BY <1>7, <2>1, RefillKeeps DEF AdminResetQq
<1>8. ASSUME NEW q \in Qqs, Preview(q) PROVE BooksInv(books')
  <2> DEFINE r == [row |-> TRUE, free |-> 2 * Daily, paid |-> 0]
  <2>1. r \in QuotaRow /\ r.free \in Nat /\ r.row /\ r.paid = books.quota[q].paid
    BY <1>8 DEF QuotaRow, Preview, BooksInv
  <2>2. books' = [books EXCEPT !.quota[q] = r]
    BY <1>8 DEF Preview
  <2> HIDE DEF r
  <2> QED
    BY <2>1, <2>2, RowKeeps
<1>9. ASSUME NEW u \in Users, NEW q \in Qqs, Bind(u, q) PROVE BooksInv(books')
  <2> DEFINE r == Created(books.quota[q])
             b == [books EXCEPT !.quota[q] = r]
  <2>1. books.quota[q] \in QuotaRow /\ (q \notin books.opened => books.quota[q].free \in Nat)
    BY DEF BooksInv, Books
  <2>2. r = [row |-> TRUE, free |-> books.quota[q].free, paid |-> books.quota[q].paid]
    BY DEF Created
  <2>3. r \in QuotaRow /\ (q \notin books.opened => r.free \in Nat) /\ r.row
        /\ r.paid = books.quota[q].paid
    BY <2>1, <2>2 DEF QuotaRow
  <2>4. books' = Open(b, q)
    BY <1>9 DEF Bind
  <2> HIDE DEF r
  <2>5. BooksInv(b)
    BY <2>3, RowKeeps
  <2> HIDE DEF b
  <2> QED
    BY <2>4, <2>5, OpenKeeps DEF Wallets
<1>10. ASSUME ResetWrite PROVE BooksInv(books')
  BY <1>10, ResetKeeps DEF TypeOK
<1>11. ASSUME NewDay PROVE BooksInv(books')
  <2>1. /\ books' \in Books /\ books'.free = books.free /\ books'.paid = books.paid
        /\ books'.opened = books.opened /\ books'.quota = books.quota
    BY <1>11 DEF NewDay, BooksInv, Books
  <2> QED
    BY <2>1, SameKeeps
<1>12. CASE UNCHANGED books
  BY <1>12
<1> QED
  BY <1>1, <1>2, <1>3, <1>4, <1>5, <1>6, <1>7, <1>8, <1>9, <1>10, <1>11, <1>12
  DEF Next, ChargeBegin, Refuse, Keep, Unbind, CronFires, AdminResetAll, ResetSnapshot,
      ResetMark, ResetFail, BackendRestart

(* The types of all else; books' is typed by BooksNext. *)
LEMMA TypeNext ==
  ASSUME TypeOK, BooksInv(books), Next
  PROVE  TypeOK'
<1> USE WalletAssumption
<1>b. books' \in Books
  BY BooksNext DEF BooksInv
<1>1. partner' \in [Wallets -> Wallets]
  <2>1. ASSUME NEW u \in Users, NEW q \in Qqs, Bind(u, q) PROVE partner' \in [Wallets -> Wallets]
    BY <2>1 DEF Bind, TypeOK, Wallets
  <2>2. ASSUME NEW u \in Users, Unbind(u) PROVE partner' \in [Wallets -> Wallets]
    BY <2>2 DEF Unbind, TypeOK, Wallets
  <2>3. CASE UNCHANGED partner
    BY <2>3 DEF TypeOK
  <2> QED
    BY <2>1, <2>2, <2>3
    DEF Next, ChargeBegin, Charge, Refuse, Keep, Return, Visit, AdminReset, Redeem, Deduct,
        AdminResetQq, Preview, CronFires, AdminResetAll, ResetSnapshot, ResetWrite,
        ResetMark, ResetFail, BackendRestart, NewDay
<1>2. /\ state' \in [Orders -> {"none", "begun", "charged", "kept", "returned"}]
      /\ linked' \in [Orders -> Wallets]
      /\ taken' \in [Orders -> Allocation]
  <2> DEFINE Goal == /\ state' \in [Orders -> {"none", "begun", "charged", "kept", "returned"}]
                     /\ linked' \in [Orders -> Wallets]
                     /\ taken' \in [Orders -> Allocation]
  <2>1. ASSUME NEW o \in Orders, ChargeBegin(o) \/ Refuse(o) \/ Keep(o) \/ Return(o)
        PROVE  Goal
    BY <2>1 DEF ChargeBegin, Refuse, Keep, Return, TypeOK
  <2>2. ASSUME NEW o \in Orders, Charge(o) PROVE Goal
    <3>1. [free |-> FreeUse(o), paid |-> PaidUse(o)] \in Allocation
      BY <2>2, ChargeSound DEF Charge, TypeOK, Allocation
    <3> QED
      BY <2>2, <3>1 DEF Charge, TypeOK
  <2>3. ASSUME BackendRestart PROVE Goal
    BY <2>3 DEF BackendRestart, TypeOK
  <2>4. CASE UNCHANGED orders
    BY <2>4 DEF orders, TypeOK
  <2> QED
    BY <2>1, <2>2, <2>3, <2>4
    DEF Next, Change, Visit, AdminReset, Redeem, Deduct, AdminResetQq, Preview, Bind, Unbind,
        CronFires, AdminResetAll, ResetSnapshot, ResetWrite, ResetMark, ResetFail, NewDay
<1>3. /\ day' \in 0..MaxDays /\ marker' \in 0..MaxDays /\ timer' \in 0..MaxDays + 1
  <2> DEFINE Goal == /\ day' \in 0..MaxDays /\ marker' \in 0..MaxDays
                     /\ timer' \in 0..MaxDays + 1
  <2>1. ASSUME CronFires \/ ResetMark \/ BackendRestart \/ NewDay PROVE Goal
    BY <2>1 DEF CronFires, ResetMark, BackendRestart, NewDay, TypeOK
  <2>2. ASSUME ResetWrite PROVE Goal
    BY <2>2 DEF ResetWrite, TypeOK, Books, Wallets
  <2>3. CASE UNCHANGED <<day, marker, timer>>
    BY <2>3 DEF TypeOK
  <2> QED
    BY <2>1, <2>2, <2>3
    DEF Next, cron, Change, ChargeBegin, Charge, Refuse, Keep, Return, Visit, AdminReset,
        Redeem, Deduct, AdminResetQq, Preview, Bind, Unbind, AdminResetAll, ResetSnapshot,
        ResetFail
<1>4. reset' \in [phase : {"idle", "snapshot", "write", "mark"},
                  by : {"cron", "startup", "admin"},
                  known : SUBSET Qqs, listed : SUBSET Wallets]
  <2> DEFINE Resets == [phase : {"idle", "snapshot", "write", "mark"},
                        by : {"cron", "startup", "admin"},
                        known : SUBSET Qqs, listed : SUBSET Wallets]
  <2>0. NoReset \in Resets
    BY DEF NoReset
  <2>1. ASSUME NEW by \in {"cron", "startup", "admin"}, ResetBegin(by) PROVE reset' \in Resets
    BY <2>1 DEF ResetBegin
  <2>2. ASSUME ResetSnapshot PROVE reset' \in Resets
    BY <2>2 DEF ResetSnapshot, TypeOK, Books, Wallets
  <2>3. ASSUME ResetWrite PROVE reset' \in Resets
    BY <2>0, <2>3 DEF ResetWrite, TypeOK
  <2>4. ASSUME reset' = NoReset PROVE reset' \in Resets
    BY <2>0, <2>4
  <2>5. ASSUME UNCHANGED reset PROVE reset' \in Resets
    BY <2>5 DEF TypeOK
  <2> HIDE DEF Resets
  <2>6. ASSUME CronFires \/ AdminResetAll \/ BackendRestart PROVE reset' \in Resets
    BY <2>1, <2>4, <2>5, <2>6 DEF CronFires, AdminResetAll, BackendRestart
  <2>7. ASSUME ResetMark \/ ResetFail PROVE reset' \in Resets
    BY <2>4, <2>7 DEF ResetMark, ResetFail
  <2>8. reset' \in Resets
    BY <2>2, <2>3, <2>5, <2>6, <2>7
    DEF Next, cron, ChargeBegin, Charge, Refuse, Keep, Return, Visit, AdminReset,
        Redeem, Deduct, AdminResetQq, Preview, Bind, Unbind, NewDay
  <2> QED
    BY <2>8 DEF Resets
<1>5. changes' \in 0..MaxChanges /\ spoilt' \subseteq BadDays
  <2> DEFINE Goal == changes' \in 0..MaxChanges /\ spoilt' \subseteq BadDays
  <2>1. ASSUME Change PROVE Goal
    BY <2>1 DEF Change, TypeOK
  <2>2. ASSUME Spoil, UNCHANGED changes PROVE Goal
    BY <2>2 DEF Spoil, TypeOK
  <2>3. ASSUME ResetFail \/ BackendRestart PROVE Goal
    BY <2>2, <2>3 DEF ResetFail, BackendRestart
  <2>4. ASSUME UNCHANGED <<changes, spoilt>> PROVE Goal
    BY <2>4 DEF TypeOK
  <2> HIDE DEF Goal
  <2>5. Goal
    BY <2>1, <2>3, <2>4
    DEF Next, ChargeBegin, Charge, Refuse, Keep, Return, Visit, AdminReset, Redeem, Deduct,
        AdminResetQq, Preview, Bind, Unbind, CronFires, AdminResetAll, ResetSnapshot,
        ResetWrite, ResetMark, NewDay
  <2> QED
    BY <2>5 DEF Goal
<1> QED
  BY <1>b, <1>1, <1>2, <1>3, <1>4, <1>5 DEF TypeOK

(* A charge is exact when it is made; after that nothing changes what it   *)
(* took or the wallets it went by.                                         *)
LEMMA ExactNext ==
  ASSUME TypeOK, BooksInv(books), ChargeExact, Next
  PROVE  ChargeExact'
<1>1. ASSUME NEW o \in Orders, Charge(o) PROVE ChargeExact'
  <2>1. /\ Both(FreeUse(o), o) + Both(PaidUse(o), o) = Price[o]
        /\ \A w \in Wallets \ {Payer[o], linked[o]} :
             FreeUse(o)[w] = 0 /\ PaidUse(o)[w] = 0
    BY <1>1, ChargeSound DEF Charge, TypeOK
  <2>2. /\ taken'[o].free = FreeUse(o) /\ taken'[o].paid = PaidUse(o)
        /\ linked' = linked
        /\ \A x \in Orders \ {o} : taken'[x] = taken[x] /\ state'[x] = state[x]
    BY <1>1 DEF Charge, TypeOK
  <2> QED
    BY <2>1, <2>2 DEF ChargeExact, Both
<1>2. CASE /\ taken' = taken
           /\ \A x \in Orders : state'[x] \in {"charged", "kept", "returned"} =>
                state[x] \in {"charged", "kept", "returned"} /\ linked'[x] = linked[x]
  BY <1>2 DEF ChargeExact, Both
<1>3. ASSUME NEW o \in Orders, ChargeBegin(o) \/ Refuse(o) \/ Keep(o) \/ Return(o)
      PROVE  ChargeExact'
  BY <1>2, <1>3 DEF ChargeBegin, Refuse, Keep, Return, TypeOK
<1>4. ASSUME BackendRestart PROVE ChargeExact'
  BY <1>2, <1>4 DEF BackendRestart, TypeOK
<1>5. CASE UNCHANGED orders
  BY <1>2, <1>5 DEF orders
<1> QED
  BY <1>1, <1>3, <1>4, <1>5
  DEF Next, Change, Visit, AdminReset, Redeem, Deduct, AdminResetQq, Preview, Bind, Unbind,
      CronFires, AdminResetAll, ResetSnapshot, ResetWrite, ResetMark, ResetFail, NewDay

LEMMA Invariant == Spec => []Inv
<1>1. Inv /\ [Next]_vars => Inv'
  <2> SUFFICES ASSUME Inv, [Next]_vars PROVE Inv'
    OBVIOUS
  <2>1. CASE Next
    BY <2>1, BooksNext, TypeNext, ExactNext DEF Inv
  <2>2. CASE UNCHANGED vars
    BY <2>2 DEF Inv, TypeOK, ChargeExact, Both, vars, orders, cron
  <2> QED
    BY <2>1, <2>2
<1> QED
  BY InitInv, <1>1, PTL DEF Spec

(* All values keep their types; in particular no wallet is ever overdrawn, *)
(* whatever orders, bindings, grants, resets and restarts interleave.      *)
THEOREM TypeCorrect == Spec => []TypeOK
BY Invariant, PTL DEF Inv

(* Every charged order has paid exactly its price, from its own wallet and *)
(* the one its transaction found bound (chargeForGenerationTx).            *)
THEOREM ChargeCorrect == Spec => []ChargeExact
BY Invariant, PTL DEF Inv

(* qq_quotas shows the paid balance of every QQ number with a wallet.      *)
THEOREM MirrorCorrect == Spec => []PaidMirrored
<1>1. Inv => PaidMirrored
  BY DEF Inv, BooksInv, PaidMirrored
<1> QED
  BY Invariant, <1>1, PTL

-----------------------------------------------------------------------------
(***************************************************************************)
(* Sums over orders.                                                       *)
(*                                                                         *)
(* The sum of PaidConserved picks one order after the other.  No theorem   *)
(* of the libraries about such sums can be cited, so these facts are       *)
(* proved by looking at a smallest set for which they fail.                *)
(***************************************************************************)

PaidSum(t, w, S) == MapThenSumSet(LAMBDA o : t[o].paid[w], S)
(* The order that is picked first, whichever that is. *)
First(S) == CHOOSE x \in S : TRUE

(* g adds up the subsets of S. *)
Adds(g, t, w, S) ==
  g = [s \in SUBSET S |-> IF s = {} THEN 0
                          ELSE t[First(s)].paid[w] + g[s \ {First(s)}]]

LEMMA PaidSumDef ==
  ASSUME NEW t, NEW w, NEW S
  PROVE  PaidSum(t, w, S) = (CHOOSE g : Adds(g, t, w, S))[S]
BY DEF PaidSum, MapThenSumSet, MapThenFoldSet, Adds, First

(* Among subsets of a finite set there is a smallest one. *)
LEMMA MinimalSubset ==
  ASSUME NEW S, IsFiniteSet(S), NEW B, B \subseteq SUBSET S, B # {}
  PROVE  \E s \in B : \A v \in B : v \subseteq s => v = s
<1>1. IsWellFoundedOn(StrictSubsetOrdering(S), SUBSET S)
  BY FS_StrictSubsetOrderingWellFounded, FS_FiniteSubsetsOfFinite
<1>2. PICK s \in B : \A v \in B : <<v, s>> \notin StrictSubsetOrdering(S)
  BY <1>1, WFMin
<1> QED
  BY <1>2 DEF StrictSubsetOrdering

(* The sum by its equation, which the recursive definition promises only   *)
(* if there is a function that satisfies it.                               *)
LEMMA PaidSumStep ==
  ASSUME NEW t, NEW w, NEW S, IsFiniteSet(S)
  PROVE  PaidSum(t, w, S) = IF S = {} THEN 0
                            ELSE t[First(S)].paid[w] + PaidSum(t, w, S \ {First(S)})
<1> DEFINE V(s) == PaidSum(t, w, s)
           Step(s) == V(s) = IF s = {} THEN 0
                             ELSE t[First(s)].paid[w] + V(s \ {First(s)})
           B == {s \in SUBSET S : ~Step(s)}
<1> HIDE DEF V
<1>1. ASSUME B # {} PROVE FALSE
  <2>1. PICK u \in B : \A v \in B : v \subseteq u => v = u
    <3> HIDE DEF B
    <3>1. B \subseteq SUBSET S
      BY DEF B
    <3> QED
      BY <1>1, <3>1, MinimalSubset
  <2>2. u \subseteq S /\ IsFiniteSet(u)
    BY <2>1, FS_Subset
  <2>3. \A v \in SUBSET u : v # u => Step(v)
    BY <2>1, <2>2
  <2>4. \A v \in SUBSET u : v # {} => First(v) \in v
    BY DEF First
  <2> DEFINE top == IF u = {} THEN 0 ELSE t[First(u)].paid[w] + V(u \ {First(u)})
             h == [v \in SUBSET u |-> IF v = u THEN top ELSE V(v)]
  <2>5. Adds(h, t, w, u)
    <3>1. ASSUME NEW v \in SUBSET u
          PROVE  h[v] = IF v = {} THEN 0 ELSE t[First(v)].paid[w] + h[v \ {First(v)}]
      <4>1. v # {} => /\ v \ {First(v)} \in SUBSET u /\ v \ {First(v)} # u
                      /\ h[v \ {First(v)}] = V(v \ {First(v)})
        BY <2>4
      <4>2. CASE v = u
        BY <4>1, <4>2
      <4>3. CASE v # u
        BY <2>3, <4>1, <4>3
      <4> QED
        BY <4>2, <4>3
    <3>2. h = [v \in SUBSET u |-> h[v]]
      OBVIOUS
    <3> HIDE DEF h
    <3>3. h = [v \in SUBSET u |-> IF v = {} THEN 0
                                  ELSE t[First(v)].paid[w] + h[v \ {First(v)}]]
      BY <3>1, <3>2
    <3> QED
      BY <3>3 DEF Adds
  <2> DEFINE g == CHOOSE f : Adds(f, t, w, u)
  <2>6. Adds(g, t, w, u)
    BY <2>5
  <2>7. V(u) = g[u]
    BY PaidSumDef DEF V
  <2>8. h[u] = top
    OBVIOUS
  <2> HIDE DEF g, h, top
  <2> DEFINE C == {v \in SUBSET u : g[v] # h[v]}
  <2>9. C = {}
    <3> SUFFICES ASSUME C # {} PROVE FALSE
      OBVIOUS
    <3>1. PICK c \in C : \A v \in C : v \subseteq c => v = c
      <4>1. C \subseteq SUBSET u
        OBVIOUS
      <4> HIDE DEF C
      <4> QED
        BY <2>2, <4>1, MinimalSubset
    <3>2. c # {} => /\ c \ {First(c)} \in SUBSET u /\ c \ {First(c)} # c
                    /\ g[c \ {First(c)}] = h[c \ {First(c)}]
      BY <2>4, <3>1
    <3>3. /\ g[c] = IF c = {} THEN 0 ELSE t[First(c)].paid[w] + g[c \ {First(c)}]
          /\ h[c] = IF c = {} THEN 0 ELSE t[First(c)].paid[w] + h[c \ {First(c)}]
      BY <2>5, <2>6, <3>1 DEF Adds
    <3> QED
      BY <3>1, <3>2, <3>3
  <2>10. V(u) = top
    BY <2>7, <2>8, <2>9
  <2> QED
    BY <2>1, <2>10 DEF top
<1>2. S \notin B
  BY <1>1
<1> QED
  BY <1>2 DEF V

(* It is an integer, and any order may be taken out first.                 *)
LEMMA PaidSumRemove ==
  ASSUME NEW t, NEW w, NEW S, IsFiniteSet(S), \A o \in S : t[o].paid[w] \in Int
  PROVE  /\ PaidSum(t, w, S) \in Int
         /\ \A o \in S : PaidSum(t, w, S) = t[o].paid[w] + PaidSum(t, w, S \ {o})
<1> DEFINE V(s) == PaidSum(t, w, s)
           a(o) == t[o].paid[w]
           Good(s) == V(s) \in Int /\ \A o \in s : V(s) = a(o) + V(s \ {o})
           B == {s \in SUBSET S : ~Good(s)}
<1>0. \A s \in SUBSET S : V(s) = IF s = {} THEN 0 ELSE a(First(s)) + V(s \ {First(s)})
  BY PaidSumStep, FS_Subset
<1>a. \A o \in S : a(o) \in Int
  OBVIOUS
<1> HIDE DEF V, a
<1>1. ASSUME B # {} PROVE FALSE
  <2>1. PICK u \in B : \A v \in B : v \subseteq u => v = u
    <3>1. B \subseteq SUBSET S
      OBVIOUS
    <3> HIDE DEF B
    <3> QED
      BY <1>1, <3>1, MinimalSubset
  <2>2. \A v \in SUBSET u : v # u => Good(v)
    BY <2>1
  <2>3. CASE u = {}
    BY <1>0, <2>1, <2>3
  <2>4. CASE u # {}
    <3> DEFINE y == First(u)
    <3>1. y \in u /\ y \in S /\ u \in SUBSET S
      BY <2>1, <2>4 DEF First
    <3>2. V(u) = a(y) + V(u \ {y})
      BY <1>0, <2>1, <2>4
    <3> HIDE DEF y
    <3>3. Good(u \ {y})
      BY <2>2, <3>1
    <3>4. V(u) \in Int
      BY <1>a, <3>1, <3>2, <3>3
    <3>5. ASSUME NEW o \in u, o # y
          PROVE  V(u) = a(o) + V(u \ {o})
      <4>1. Good(u \ {o}) /\ o \in S
        BY <2>2, <3>1
      <4>2. V(u \ {y}) = a(o) + V((u \ {y}) \ {o}) /\ V(u \ {o}) = a(y) + V((u \ {o}) \ {y})
        BY <3>1, <3>3, <3>5, <4>1
      <4>3. (u \ {y}) \ {o} = (u \ {o}) \ {y}
        OBVIOUS
      <4> DEFINE rest == V((u \ {o}) \ {y})
      <4>4. rest \in Int /\ a(o) \in Int /\ a(y) \in Int
        BY <1>a, <2>2, <3>1, <4>1
      <4>5. V(u) = a(y) + (a(o) + rest) /\ V(u \ {o}) = a(y) + rest
        BY <3>2, <4>2, <4>3
      <4> HIDE DEF rest
      <4> QED
        BY <4>4, <4>5
    <3>6. Good(u)
      BY <3>2, <3>4, <3>5
    <3> QED
      BY <2>1, <3>6
  <2> QED
    BY <2>3, <2>4
<1>2. Good(S)
  BY <1>1
<1> QED
  BY <1>2 DEF V, a

(* It depends on nothing but what is added up. *)
LEMMA PaidSumSame ==
  ASSUME NEW t, NEW t2, NEW w, NEW S, IsFiniteSet(S),
         \A o \in S : t2[o].paid[w] = t[o].paid[w]
  PROVE  PaidSum(t2, w, S) = PaidSum(t, w, S)
<1> DEFINE V(s) == PaidSum(t, w, s)
           V2(s) == PaidSum(t2, w, s)
           a(o) == t[o].paid[w]
           B == {s \in SUBSET S : V2(s) # V(s)}
<1>0. \A s \in SUBSET S : /\ V(s) = IF s = {} THEN 0 ELSE a(First(s)) + V(s \ {First(s)})
                          /\ s # {} => First(s) \in s
  <2>1. \A s \in SUBSET S : V(s) = IF s = {} THEN 0 ELSE a(First(s)) + V(s \ {First(s)})
    BY PaidSumStep, FS_Subset
  <2>2. \A s \in SUBSET S : s # {} => First(s) \in s
    BY DEF First
  <2> QED
    BY <2>1, <2>2
<1>1. \A s \in SUBSET S : V2(s) = IF s = {} THEN 0 ELSE a(First(s)) + V2(s \ {First(s)})
  <2> TAKE s \in SUBSET S
  <2>1. V2(s) = IF s = {} THEN 0 ELSE t2[First(s)].paid[w] + V2(s \ {First(s)})
    BY PaidSumStep, FS_Subset
  <2> QED
    BY <1>0, <2>1
<1> HIDE DEF V, V2, a
<1>2. ASSUME B # {} PROVE FALSE
  <2>1. PICK u \in B : \A v \in B : v \subseteq u => v = u
    <3>1. B \subseteq SUBSET S
      OBVIOUS
    <3> HIDE DEF B
    <3> QED
      BY <1>2, <3>1, MinimalSubset
  <2>2. u # {} => V2(u \ {First(u)}) = V(u \ {First(u)})
    BY <1>0, <2>1
  <2> QED
    BY <1>0, <1>1, <2>1, <2>2
<1>3. V2(S) = V(S)
  BY <1>2
<1> QED
  BY <1>3 DEF V, V2

(* A sum of nothing. *)
LEMMA PaidSumZero ==
  ASSUME NEW t, NEW w, NEW S, IsFiniteSet(S), \A o \in S : t[o].paid[w] = 0
  PROVE  PaidSum(t, w, S) = 0
<1> DEFINE B == {s \in SUBSET S : PaidSum(t, w, s) # 0}
<1>1. ASSUME B # {} PROVE FALSE
  <2>1. PICK u \in B : \A v \in B : v \subseteq u => v = u
    <3>1. B \subseteq SUBSET S
      OBVIOUS
    <3> HIDE DEF B
    <3> QED
      BY <1>1, <3>1, MinimalSubset
  <2>2. PaidSum(t, w, u) = IF u = {} THEN 0
                           ELSE t[First(u)].paid[w] + PaidSum(t, w, u \ {First(u)})
    BY <2>1, PaidSumStep, FS_Subset
  <2>3. u # {} => First(u) \in u
    BY DEF First
  <2> QED
    BY <2>1, <2>2, <2>3
<1> QED
  BY <1>1

(***************************************************************************)
(* Paid money.                                                             *)
(***************************************************************************)

(* Paid money that came in and is not in the wallet. *)
Spent(b, w) == b.deposited[w] - b.paid[w]

Holding == {o \in Orders : state[o] \in {"charged", "kept"}}

(* No order has taken anything from a QQ number without a wallet. *)
Untouched == \A q \in Qqs \ books.opened : \A o \in Orders : taken[o].paid[q] = 0

(* The books change, but wallets are opened with nothing spent, and no     *)
(* paid money is spent from the others.                                    *)
Settled(b, c) ==
  /\ b.opened \subseteq c.opened /\ c.opened \subseteq Qqs
  /\ \A w \in Wallets :
       Spent(c, w) = IF w \in c.opened \ b.opened THEN 0 ELSE Spent(b, w)

LEMMA SettledSame ==
  ASSUME NEW b, b \in Books, NEW c, c.paid = b.paid, c.deposited = b.deposited, c.opened = b.opened
  PROVE  Settled(b, c)
BY DEF Settled, Spent, Books

LEMMA SettledTwice ==
  ASSUME NEW b, NEW c, NEW d, Settled(b, c), Settled(c, d)
  PROVE  Settled(b, d)
BY DEF Settled

(* What a posting does to paid balances, openings and deposits. *)
LEMMA PostPaid ==
  ASSUME NEW b, b \in Books, NEW f \in [Wallets -> Int], NEW p \in [Wallets -> Int]
  PROVE  /\ \A w \in Wallets : Post(b, f, p).paid[w] = b.paid[w] + p[w]
         /\ Post(b, f, p).paid = [w \in Wallets |-> b.paid[w] + p[w]]
         /\ Post(b, f, p).deposited = b.deposited
         /\ Post(b, f, p).opened = b.opened
<1> DEFINE P == [w \in Wallets |-> b.paid[w] + p[w]]
           F == [w \in Wallets |-> b.free[w] + f[w]]
           Q == [q \in Qqs |-> IF f[q] = 0 /\ p[q] = 0 THEN b.quota[q]
                               ELSE Mirrored(b.quota[q], f[q], p[q])]
<1>1. Post(b, f, p) = [b EXCEPT !.free = F, !.paid = P, !.quota = Q]
  BY Zenon DEF Post
<1>2. \A w \in Wallets : P[w] = b.paid[w] + p[w]
  OBVIOUS
<1> HIDE DEF F, P, Q
<1>3. /\ Post(b, f, p).paid = P /\ Post(b, f, p).deposited = b.deposited
      /\ Post(b, f, p).opened = b.opened
  BY <1>1 DEF Books
<1>4. Post(b, f, p).paid = [w \in Wallets |-> b.paid[w] + p[w]]
  BY <1>3 DEF P
<1> QED
  BY <1>2, <1>3, <1>4

LEMMA OpenSettled ==
  ASSUME NEW b, BooksInv(b), NEW w \in Wallets
  PROVE  Settled(b, Open(b, w))
<1>1. CASE w \in Users \cup b.opened
  BY <1>1, SettledSame DEF Open, BooksInv
<1>2. CASE w \notin Users \cup b.opened
  <2> DEFINE c == Open(b, w)
  <2>1. w \in Qqs \ b.opened /\ w \notin Users
    BY <1>2 DEF Wallets
  <2>2. b.quota[w].paid \in Nat
    BY <2>1 DEF BooksInv, Books, QuotaRow
  <2>3. /\ c.opened = b.opened \cup {w}
        /\ c.paid = [b.paid EXCEPT ![w] = b.quota[w].paid]
        /\ c.deposited = [b.deposited EXCEPT ![w] = b.quota[w].paid]
    BY <1>2 DEF Open, BooksInv, Books
  <2> HIDE DEF c
  <2>4. \A v \in Wallets \ {w} : c.paid[v] = b.paid[v] /\ c.deposited[v] = b.deposited[v]
    BY <2>3 DEF BooksInv, Books
  <2>5. Spent(c, w) = 0
    BY <2>2, <2>3 DEF BooksInv, Books, Spent
  <2>6. b.opened \subseteq Qqs
    BY DEF BooksInv, Books
  <2>7. Settled(b, c)
    BY <2>1, <2>3, <2>4, <2>5, <2>6 DEF Settled, Spent
  <2> QED
    BY <2>7 DEF c
<1> QED
  BY <1>1, <1>2

LEMMA GrantSettled ==
  ASSUME NEW b, BooksInv(b), NEW w \in Wallets, Daily \in Nat
  PROVE  Settled(b, Grant(b, w))
<1>1. CASE Daily = 0 \/ w \in b.granted
  BY <1>1, SettledSame DEF Grant, BooksInv
<1>2. CASE ~(Daily = 0 \/ w \in b.granted)
  <2> DEFINE c == [b EXCEPT !.granted = b.granted \cup {w}]
             d == Post(c, Only(w, Daily), Nothing)
  <2>1. /\ c.paid = b.paid /\ c.deposited = b.deposited /\ c.opened = b.opened
        /\ c \in Books /\ Grant(b, w) = d
    BY <1>2 DEF Grant, BooksInv, Books
  <2> HIDE DEF c
  <2>2. /\ Only(w, Daily) \in [Wallets -> Int] /\ Nothing \in [Wallets -> Int]
        /\ \A v \in Wallets : Nothing[v] = 0
    BY OnlyType
  <2>3. /\ d.paid = [v \in Wallets |-> c.paid[v] + Nothing[v]]
        /\ d.deposited = c.deposited /\ d.opened = c.opened
    BY <2>1, <2>2, PostPaid
  <2> HIDE DEF d
  <2>4. c.paid \in [Wallets -> Nat]
    BY <2>1 DEF Books
  <2>5. d.paid = c.paid
    BY <2>2, <2>3, <2>4
  <2>6. Settled(b, d)
    BY <2>1, <2>3, <2>5, SettledSame DEF BooksInv
  <2> QED
    BY <2>1, <2>6
<1> QED
  BY <1>1, <1>2

LEMMA AccessSettled ==
  ASSUME NEW b, BooksInv(b), NEW v \in Wallets, NEW w \in Wallets, Daily \in Nat
  PROVE  Settled(b, Access(b, v, w))
<1> DEFINE b1 == Open(b, v)
           b2 == Grant(b1, v)
           b3 == Open(b2, w)
           b4 == Grant(b3, w)
<1>1. BooksInv(b1) /\ Settled(b, b1)
  BY OpenKeeps, OpenSettled
<1>2. BooksInv(b2) /\ Settled(b1, b2)
  BY <1>1, GrantKeeps, GrantSettled
<1>3. BooksInv(b3) /\ Settled(b2, b3)
  BY <1>2, OpenKeeps, OpenSettled
<1>4. Settled(b3, b4)
  BY <1>3, GrantSettled
<1>5. Access(b, v, w) = b4
  BY DEF Access
<1> HIDE DEF b1, b2, b3, b4
<1> QED
  BY <1>1, <1>2, <1>3, <1>4, <1>5, SettledTwice

(* What comes in from outside, or goes out, is both deposited and paid. *)
LEMMA DepositSettled ==
  ASSUME NEW b, b \in Books, NEW w \in Wallets, NEW a \in Int,
         NEW p \in [Wallets -> Int], \A v \in Wallets : p[v] = IF v = w THEN a ELSE 0
  PROVE  Settled(b, Post([b EXCEPT !.deposited[w] = @ + a], Nothing, p))
<1> DEFINE c == [b EXCEPT !.deposited[w] = @ + a]
           d == Post(c, Nothing, p)
<1>1. /\ c \in Books /\ c.paid = b.paid /\ c.opened = b.opened
      /\ \A v \in Wallets : c.deposited[v] = IF v = w THEN b.deposited[v] + a ELSE b.deposited[v]
  BY DEF Books
<1> HIDE DEF c
<1>2. Nothing \in [Wallets -> Int]
  BY DEF Nothing
<1>3. /\ \A v \in Wallets : d.paid[v] = c.paid[v] + p[v]
      /\ d.deposited = c.deposited /\ d.opened = c.opened
  BY <1>1, <1>2, PostPaid
<1> HIDE DEF d
<1>4. \A v \in Wallets : b.paid[v] \in Int /\ b.deposited[v] \in Int
  BY DEF Books
<1>5. Settled(b, d)
  BY <1>1, <1>3, <1>4 DEF Settled, Spent, Books
<1> QED
  BY <1>5 DEF c, d

(* A reset opens wallets with nothing spent. *)
LEMMA ResetSettled ==
  ASSUME BooksInv(books), reset.known \subseteq Qqs, ResetWrite
  PROVE  Settled(books, books')
<1> DEFINE new == reset.known \ books.opened
           P == [w \in Wallets |-> IF w \in new THEN books.quota[w].paid ELSE books.paid[w]]
           D == [w \in Wallets |-> IF w \in new THEN books.quota[w].paid ELSE books.deposited[w]]
<1>1. books'.paid = P /\ books'.deposited = D /\ books'.opened = books.opened \cup reset.known
  BY DEF ResetWrite, BooksInv, Books
<1>2. \A w \in new : w \in Wallets /\ books.quota[w].paid \in Nat
  BY DEF Wallets, BooksInv, Books, QuotaRow
<1>3. books.opened \subseteq Qqs
  BY DEF BooksInv, Books
<1> QED
  BY <1>1, <1>2, <1>3 DEF Settled, Spent

(* Every action but a charge and a refund. *)
LEMMA NextSettled ==
  ASSUME TypeOK, BooksInv(books), Next, \A o \in Orders : ~Charge(o) /\ ~Return(o)
  PROVE  Settled(books, books')
<1> USE WalletAssumption
<1>0. books \in Books
  BY DEF TypeOK
<1>1. ASSUME NEW w \in Wallets, Visit(w) PROVE Settled(books, books')
  BY <1>1, AccessSettled DEF Visit, TypeOK
<1>2. ASSUME NEW w \in Wallets, AdminReset(w) PROVE Settled(books, books')
  <2>1. /\ books'.paid = books.paid /\ books'.deposited = books.deposited
        /\ books'.opened = books.opened
    BY <1>0, <1>2 DEF AdminReset, Refill, Books
  <2> QED
    BY <1>0, <2>1, SettledSame
<1>3. ASSUME NEW w \in Wallets, NEW a \in Amounts, Redeem(w, a) PROVE Settled(books, books')
  <2> DEFINE b == Open(books, w)
  <2>1. BooksInv(b) /\ Settled(books, b)
    BY OpenKeeps, OpenSettled
  <2>2. books' = Post([b EXCEPT !.deposited[w] = @ + a], Nothing, Only(w, a))
    BY <1>3 DEF Redeem, Recharged
  <2> HIDE DEF b
  <2>5. b \in Books /\ a \in Int /\ a \in Nat
    BY <2>1 DEF BooksInv
  <2>3. /\ Only(w, a) \in [Wallets -> Int]
        /\ \A v \in Wallets : Only(w, a)[v] = IF v = w THEN a ELSE 0
    BY <2>5, OnlyType
  <2>4. Settled(b, books')
    BY <2>2, <2>3, <2>5, DepositSettled
  <2> QED
    BY <2>1, <2>4, SettledTwice
<1>4. ASSUME NEW w \in Wallets, NEW a \in Amounts, Deduct(w, a) PROVE Settled(books, books')
  <2> DEFINE b == Open(books, w)
             c == [b EXCEPT !.deposited[w] = @ + (-a)]
  <2>1. BooksInv(b) /\ Settled(books, b) /\ b \in Books /\ a \in Int /\ -a \in Int
    BY OpenKeeps, OpenSettled DEF BooksInv
  <2>2. books' = Post([b EXCEPT !.deposited[w] = @ - a], Nothing, Minus(Only(w, a)))
    BY <1>4 DEF Deduct
  <2> HIDE DEF b
  <2>3. [b EXCEPT !.deposited[w] = @ - a] = c
    <3>1. b.deposited[w] \in Int /\ b.deposited[w] - a = b.deposited[w] + (-a)
      BY <2>1 DEF Books
    <3> QED
      BY <3>1
  <2> HIDE DEF c
  <2>4. /\ Minus(Only(w, a)) \in [Wallets -> Int]
        /\ \A v \in Wallets : Minus(Only(w, a))[v] = IF v = w THEN -a ELSE 0
    BY OnlyType DEF Minus
  <2>5. Settled(b, Post(c, Nothing, Minus(Only(w, a))))
    BY <2>1, <2>4, DepositSettled DEF c
  <2> QED
    BY <2>1, <2>2, <2>3, <2>5, SettledTwice
<1>5. ASSUME NEW q \in Qqs, AdminResetQq(q) PROVE Settled(books, books')
  <2> DEFINE b == Open(books, q)
  <2>1. BooksInv(b) /\ Settled(books, b) /\ b \in Books
    BY OpenKeeps, OpenSettled DEF BooksInv, Wallets
  <2>2. books' = Refill(b, q)
    BY <1>5 DEF AdminResetQq
  <2> HIDE DEF b
  <2>3. /\ books'.paid = b.paid /\ books'.deposited = b.deposited /\ books'.opened = b.opened
    BY <2>1, <2>2 DEF Refill, Books
  <2> QED
    BY <2>1, <2>3, SettledSame, SettledTwice
<1>6. ASSUME NEW q \in Qqs, Preview(q) PROVE Settled(books, books')
  <2>1. /\ books'.paid = books.paid /\ books'.deposited = books.deposited
        /\ books'.opened = books.opened
    BY <1>0, <1>6 DEF Preview, Books
  <2> QED
    BY <1>0, <2>1, SettledSame
<1>7. ASSUME NEW u \in Users, NEW q \in Qqs, Bind(u, q) PROVE Settled(books, books')
  <2> DEFINE r == Created(books.quota[q])
             b == [books EXCEPT !.quota[q] = r]
  <2>1. books.quota[q] \in QuotaRow /\ (q \notin books.opened => books.quota[q].free \in Nat)
    BY DEF BooksInv, Books
  <2>2. r = [row |-> TRUE, free |-> books.quota[q].free, paid |-> books.quota[q].paid]
    BY DEF Created
  <2>3. r \in QuotaRow /\ (q \notin books.opened => r.free \in Nat) /\ r.row
        /\ r.paid = books.quota[q].paid
    BY <2>1, <2>2 DEF QuotaRow
  <2>4. books' = Open(b, q)
    BY <1>7 DEF Bind
  <2> HIDE DEF r
  <2>5. BooksInv(b)
    BY <2>3, RowKeeps
  <2>6. b.paid = books.paid /\ b.deposited = books.deposited /\ b.opened = books.opened
    BY <1>0 DEF Books
  <2> HIDE DEF b
  <2>7. Settled(books, b) /\ Settled(b, books')
    BY <1>0, <2>4, <2>5, <2>6, SettledSame, OpenSettled DEF Wallets
  <2> QED
    BY <2>7, SettledTwice
<1>8. ASSUME ResetWrite PROVE Settled(books, books')
  BY <1>8, ResetSettled DEF TypeOK
<1>9. ASSUME NewDay PROVE Settled(books, books')
  <2>1. /\ books'.paid = books.paid /\ books'.deposited = books.deposited
        /\ books'.opened = books.opened
    BY <1>0, <1>9 DEF NewDay, Books
  <2> QED
    BY <1>0, <2>1, SettledSame
<1>10. CASE UNCHANGED books
  BY <1>0, <1>10, SettledSame
<1> QED
  BY <1>1, <1>2, <1>3, <1>4, <1>5, <1>6, <1>7, <1>8, <1>9, <1>10
  DEF Next, ChargeBegin, Refuse, Keep, Unbind, CronFires, AdminResetAll, ResetSnapshot,
      ResetMark, ResetFail, BackendRestart

(* Such an action leaves what orders hold as it is. *)
LEMMA NextHolding ==
  ASSUME TypeOK, Next, \A o \in Orders : ~Charge(o) /\ ~Return(o)
  PROVE  Holding' = Holding /\ taken' = taken
<1>1. ASSUME NEW o \in Orders, ChargeBegin(o) \/ Refuse(o) \/ Keep(o)
      PROVE  Holding' = Holding /\ taken' = taken
  <2>1. /\ taken' = taken
        /\ \A x \in Orders : state'[x] \in {"charged", "kept"} <=> state[x] \in {"charged", "kept"}
    BY <1>1 DEF ChargeBegin, Refuse, Keep, TypeOK
  <2> QED
    BY <2>1 DEF Holding
<1>2. ASSUME BackendRestart PROVE Holding' = Holding /\ taken' = taken
  <2>1. /\ taken' = taken
        /\ \A x \in Orders : state'[x] \in {"charged", "kept"} <=> state[x] \in {"charged", "kept"}
    BY <1>2 DEF BackendRestart, TypeOK
  <2> QED
    BY <2>1 DEF Holding
<1>3. CASE UNCHANGED orders
  BY <1>3 DEF orders, Holding
<1> QED
  BY <1>1, <1>2, <1>3
  DEF Next, Change, Visit, AdminReset, Redeem, Deduct, AdminResetQq, Preview, Bind, Unbind,
      CronFires, AdminResetAll, ResetSnapshot, ResetWrite, ResetMark, ResetFail, NewDay

(* What is spent from a wallet is what orders hold. *)
Balanced == \A w \in Wallets : Spent(books, w) = PaidSum(taken, w, Holding)

PaidInv == Inv /\ IsFiniteSet(Holding) /\ Untouched /\ Balanced

LEMMA BalancedPaid ==
  ASSUME PaidInv
  PROVE  PaidConserved
<1>1. ASSUME NEW w \in Wallets
      PROVE  books.deposited[w] = books.paid[w] + PaidSum(taken, w, Holding)
  <2>1. /\ books.deposited[w] \in Int /\ books.paid[w] \in Int
        /\ \A o \in Holding : taken[o].paid[w] \in Int
    BY DEF PaidInv, Inv, TypeOK, Books, Allocation, Holding
  <2>2. PaidSum(taken, w, Holding) \in Int
    BY <2>1, PaidSumRemove DEF PaidInv
  <2> QED
    BY <2>1, <2>2 DEF PaidInv, Balanced, Spent
<1> QED
  BY <1>1, Zenon DEF PaidConserved, PaidSum, Holding

LEMMA PaidInit ==
  ASSUME Init
  PROVE  PaidInv
<1>1. Holding = {}
  BY DEF Init, Holding
<1>2. Untouched
  BY WalletAssumption DEF Init, Untouched, Nothing, Wallets
<1>3. IsFiniteSet(Holding)
  BY <1>1, FS_EmptySet
<1>4. Balanced
  <2> SUFFICES ASSUME NEW w \in Wallets PROVE Spent(books, w) = PaidSum(taken, w, Holding)
    BY DEF Balanced
  <2>1. Spent(books, w) = 0
    BY DEF Init, Nothing, Spent
  <2>2. PaidSum(taken, w, Holding) = 0
    BY <1>1, <1>3, PaidSumZero
  <2> QED
    BY <2>1, <2>2
<1> QED
  BY <1>2, <1>3, <1>4, InitInv DEF PaidInv

(* A wallet that is opened has nothing spent and nothing held; the others  *)
(* keep both.                                                              *)
LEMMA PaidSettled ==
  ASSUME PaidInv, NEW c, Settled(books, c)
  PROVE  /\ \A w \in Wallets : Spent(c, w) = PaidSum(taken, w, Holding)
         /\ \A q \in Qqs \ c.opened : \A o \in Orders : taken[o].paid[q] = 0
<1>1. ASSUME NEW w \in Wallets
      PROVE  Spent(c, w) = PaidSum(taken, w, Holding)
  <2>1. CASE w \in c.opened \ books.opened
    <3>1. \A o \in Holding : taken[o].paid[w] = 0
      BY <2>1 DEF Settled, PaidInv, Untouched, Holding
    <3> QED
      BY <2>1, <3>1, PaidSumZero DEF Settled, PaidInv
  <2>2. CASE w \notin c.opened \ books.opened
    BY <2>2 DEF Settled, PaidInv, Balanced
  <2> QED
    BY <2>1, <2>2
<1> QED
  BY <1>1 DEF Settled, PaidInv, Untouched

(* A posting spends what it takes from the paid balance. *)
LEMMA PostSpent ==
  ASSUME NEW b, b \in Books, NEW f \in [Wallets -> Int], NEW p \in [Wallets -> Int],
         NEW w \in Wallets
  PROVE  Spent(Post(b, f, p), w) = Spent(b, w) - p[w]
<1>1. Post(b, f, p).paid[w] = b.paid[w] + p[w] /\ Post(b, f, p).deposited = b.deposited
  BY PostPaid
<1>2. b.paid[w] \in Int /\ b.deposited[w] \in Int /\ p[w] \in Int
  BY DEF Books
<1> QED
  BY <1>1, <1>2 DEF Spent

LEMMA PaidCharge ==
  ASSUME PaidInv, NEW o \in Orders, Charge(o)
  PROVE  IsFiniteSet(Holding') /\ Untouched' /\ Balanced'
<1> DEFINE b == Accessed(o)
           f == FreeUse(o)
           p == PaidUse(o)
<1>1. /\ Payer[o] \in Wallets /\ linked[o] \in Wallets /\ Daily \in Nat /\ BooksInv(books)
      /\ taken \in [Orders -> Allocation]
  BY WalletAssumption DEF PaidInv, Inv, TypeOK
<1>2. /\ Settled(books, b) /\ b \in Books
      /\ {Payer[o], linked[o]} \subseteq Users \cup b.opened
  BY <1>1, AccessKeeps, AccessSettled DEF Accessed, BooksInv
<1>3. /\ f \in [Wallets -> Nat] /\ p \in [Wallets -> Nat]
      /\ \A w \in Wallets \ {Payer[o], linked[o]} : p[w] = 0
  BY <1>1, ChargeSound DEF Charge, PaidInv, Inv, TypeOK
<1>4. /\ books' = Post(b, Minus(f), Minus(p))
      /\ taken' = [taken EXCEPT ![o] = [free |-> f, paid |-> p]]
      /\ state' = [state EXCEPT ![o] = "charged"] /\ state[o] = "begun"
  BY DEF Charge
<1> HIDE DEF b, f, p
<1>5. Holding' = Holding \cup {o} /\ o \notin Holding
  BY <1>4 DEF Holding, PaidInv, Inv, TypeOK
<1>6. /\ taken'[o].paid = p
      /\ \A x \in Orders \ {o} : taken'[x] = taken[x]
  BY <1>1, <1>4
<1>7. IsFiniteSet(Holding) /\ IsFiniteSet(Holding')
  BY <1>5, FS_AddElement DEF PaidInv
<1>8. /\ Minus(f) \in [Wallets -> Int] /\ Minus(p) \in [Wallets -> Int]
      /\ \A w \in Wallets : Minus(p)[w] = -p[w]
  BY <1>3 DEF Minus
<1>9. books'.opened = b.opened
  BY <1>2, <1>4, <1>8, PostPaid
<1>10. ASSUME NEW q \in Qqs \ books'.opened, NEW x \in Orders
       PROVE  taken'[x].paid[q] = 0
  <2>1. taken[x].paid[q] = 0
    BY <1>2, <1>9, PaidSettled
  <2>2. p[q] = 0
    <3>1. q \in Wallets /\ q \notin Users
      BY WalletAssumption DEF Wallets
    <3> QED
      BY <1>2, <1>3, <1>9, <3>1
  <2> QED
    BY <1>6, <2>1, <2>2
<1>11. ASSUME NEW w \in Wallets
       PROVE  Spent(books', w) = PaidSum(taken', w, Holding')
  <2>1. Spent(b, w) = PaidSum(taken, w, Holding)
    BY <1>2, PaidSettled
  <2>2. Spent(books', w) = Spent(b, w) - Minus(p)[w]
    BY <1>2, <1>4, <1>8, PostSpent
  <2>3. /\ \A x \in Holding : taken'[x].paid[w] = taken[x].paid[w]
        /\ \A x \in Holding : taken[x].paid[w] \in Int
        /\ p[w] \in Int
    BY <1>1, <1>3, <1>5, <1>6 DEF Holding, Allocation
  <2>4. \A x \in Holding' : taken'[x].paid[w] \in Int
    BY <1>5, <1>6, <2>3
  <2>5. PaidSum(taken', w, Holding') = taken'[o].paid[w] + PaidSum(taken', w, Holding' \ {o})
    <3> DEFINE H == Holding'
               t == taken'
    <3>1. IsFiniteSet(H) /\ o \in H /\ \A x \in H : t[x].paid[w] \in Int
      BY <1>5, <1>7, <2>4
    <3> HIDE DEF H, t
    <3>2. PaidSum(t, w, H) = t[o].paid[w] + PaidSum(t, w, H \ {o})
      BY <3>1, PaidSumRemove
    <3> QED
      BY <3>2 DEF H, t
  <2>6. Holding' \ {o} = Holding
    BY <1>5
  <2>7. PaidSum(taken', w, Holding) = PaidSum(taken, w, Holding)
    <3> DEFINE t == taken'
    <3>1. \A x \in Holding : t[x].paid[w] = taken[x].paid[w]
      BY <2>3
    <3> HIDE DEF t
    <3>2. PaidSum(t, w, Holding) = PaidSum(taken, w, Holding)
      BY <1>7, <3>1, PaidSumSame
    <3> QED
      BY <3>2 DEF t
  <2>8. PaidSum(taken, w, Holding) \in Int
    BY <1>7, <2>3, PaidSumRemove
  <2>9. PaidSum(taken', w, Holding') = p[w] + PaidSum(taken, w, Holding)
    BY <1>6, <2>5, <2>6, <2>7
  <2> QED
    BY <1>8, <2>1, <2>2, <2>3, <2>8, <2>9
<1> QED
  BY <1>7, <1>10, <1>11 DEF Untouched, Balanced

LEMMA PaidReturn ==
  ASSUME PaidInv, NEW o \in Orders, Return(o)
  PROVE  IsFiniteSet(Holding') /\ Untouched' /\ Balanced'
<1> DEFINE f == taken[o].free
           p == taken[o].paid
<1>1. /\ books \in Books /\ taken \in [Orders -> Allocation] /\ IsFiniteSet(Holding)
      /\ books' = Post(books, f, p) /\ taken' = taken
      /\ state' = [state EXCEPT ![o] = "returned"] /\ state[o] = "charged"
      /\ f \in [Wallets -> Int] /\ p \in [Wallets -> Int]
  BY DEF Return, Refunded, PaidInv, Inv, TypeOK, Allocation
<1>2. Holding' = Holding \ {o} /\ o \in Holding
  BY <1>1 DEF Holding, PaidInv, Inv, TypeOK
<1>3. IsFiniteSet(Holding')
  BY <1>1, <1>2, FS_RemoveElement
<1>4. Untouched'
  <2>1. Post(books, f, p).opened = books.opened
    BY <1>1, PostPaid
  <2> QED
    BY <1>1, <2>1 DEF PaidInv, Untouched
<1>5. ASSUME NEW w \in Wallets
      PROVE  Spent(books', w) = PaidSum(taken', w, Holding')
  <2>1. \A x \in Holding : taken[x].paid[w] \in Int
    BY <1>1 DEF Holding, Allocation
  <2>2. /\ PaidSum(taken, w, Holding) = taken[o].paid[w] + PaidSum(taken, w, Holding \ {o})
        /\ PaidSum(taken, w, Holding \ {o}) \in Int
    <3>1. IsFiniteSet(Holding \ {o})
      BY <1>1, FS_RemoveElement
    <3>2. PaidSum(taken, w, Holding) = taken[o].paid[w] + PaidSum(taken, w, Holding \ {o})
      BY <1>1, <1>2, <2>1, PaidSumRemove
    <3>3. PaidSum(taken, w, Holding \ {o}) \in Int
      BY <2>1, <3>1, PaidSumRemove
    <3> QED
      BY <3>2, <3>3
  <2>3. Spent(books', w) = Spent(books, w) - p[w] /\ p[w] \in Int
    BY <1>1, PostSpent
  <2>4. Spent(books, w) = PaidSum(taken, w, Holding)
    BY DEF PaidInv, Balanced
  <2>5. Spent(books', w) = PaidSum(taken, w, Holding \ {o})
    BY <2>2, <2>3, <2>4
  <2> QED
    BY <1>1, <1>2, <2>5
<1> QED
  BY <1>3, <1>4, <1>5 DEF Balanced

LEMMA PaidNext ==
  ASSUME PaidInv, [Next]_vars, Inv'
  PROVE  PaidInv'
<1>1. ASSUME Holding' = Holding, taken' = taken, Settled(books, books')
      PROVE  IsFiniteSet(Holding') /\ Untouched' /\ Balanced'
  <2>1. IsFiniteSet(Holding')
    BY <1>1 DEF PaidInv
  <2>2. Untouched' /\ Balanced'
    BY <1>1, PaidSettled DEF Untouched, Balanced
  <2> QED
    BY <2>1, <2>2
<1>2. CASE UNCHANGED vars
  <2>1. Holding' = Holding /\ taken' = taken /\ books' = books
    BY <1>2 DEF vars, orders, Holding
  <2>2. Settled(books, books')
    BY <2>1, SettledSame DEF PaidInv, Inv, TypeOK
  <2> QED
    BY <1>1, <2>1, <2>2 DEF PaidInv
<1>3. CASE Next /\ \A o \in Orders : ~Charge(o) /\ ~Return(o)
  BY <1>1, <1>3, NextSettled, NextHolding DEF PaidInv, Inv
<1>4. CASE \E o \in Orders : Charge(o) \/ Return(o)
  BY <1>4, PaidCharge, PaidReturn DEF PaidInv
<1> QED
  BY <1>2, <1>3, <1>4

(* Paid money neither appears nor vanishes, whatever is charged, refunded, *)
(* bound, opened, granted, deposited and reset in between.                 *)
THEOREM PaidCorrect == Spec => []PaidConserved
<1>1. Init => PaidInv
  BY PaidInit
<1>2. PaidInv /\ [Next]_vars /\ Inv' => PaidInv'
  BY PaidNext
<1>3. PaidInv => PaidConserved
  BY BalancedPaid
<1> QED
  BY Invariant, <1>1, <1>2, <1>3, PTL DEF Spec
=============================================================================
