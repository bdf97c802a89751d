--------------------------- MODULE PositionsProofs ---------------------------
(***************************************************************************)
(* Proofs about the two watchers of the open positions: a reduction of the *)
(* executor's reconciliation takes no local position below what the        *)
(* exchange holds, an alert of the monitor is about the drift there is,    *)
(* and none comes twice within the cooldown.                               *)
(***************************************************************************)
EXTENDS Reconciliation, Monitor, DataLemmas, FiniteSetTheorems, SequenceTheorems, TLAPS

(***************************************************************************)
(* Sums.                                                                   *)
(***************************************************************************)
Sums(f, w, n) == f = [i \in 0 .. n |-> IF i = 0 THEN 0 ELSE f[i - 1] + w[i]]

LEMMA SumsExist ==
  ASSUME NEW N \in Nat, NEW w \in [1 .. N -> Nat]
  PROVE  \E f \in [0 .. N -> Nat] : Sums(f, w, N)
<1> DEFINE S == {n \in Nat : n <= N => \E f \in [0 .. n -> Nat] : Sums(f, w, n)}
<1>1. 0 \in S
  <2>1. [i \in 0 .. 0 |-> 0] \in [0 .. 0 -> Nat] OBVIOUS
  <2>2. PICK f \in [0 .. 0 -> Nat] : f = [i \in 0 .. 0 |-> 0] BY <2>1
  <2>3. \A i \in 0 .. 0 : i = 0 /\ f[i] = 0 BY <2>2
  <2>4. Sums(f, w, 0) BY <2>2, <2>3 DEF Sums
  <2> QED BY <2>4
<1>2. ASSUME NEW n \in Nat, n \in S PROVE n + 1 \in S
  <2> SUFFICES ASSUME n + 1 <= N PROVE \E f \in [0 .. n + 1 -> Nat] : Sums(f, w, n + 1)
    OBVIOUS
  <2>1. PICK g \in [0 .. n -> Nat] : Sums(g, w, n) BY <1>2
  <2>2. PICK x \in Nat : x = w[n + 1] OBVIOUS
  <2>3. PICK f : f = [i \in 0 .. n + 1 |-> IF i = n + 1 THEN g[n] + x ELSE g[i]] OBVIOUS
  <2>4. /\ f \in [0 .. n + 1 -> Nat] /\ f[n + 1] = g[n] + x
        /\ \A i \in 0 .. n : f[i] = g[i]
    BY <2>3
  <2>5. \A i \in 0 .. n : g[i] = IF i = 0 THEN 0 ELSE g[i - 1] + w[i] BY <2>1 DEF Sums
  <2>6. \A i \in 0 .. n + 1 : f[i] = IF i = 0 THEN 0 ELSE f[i - 1] + w[i]
    <3> SUFFICES ASSUME NEW i \in 0 .. n + 1
                 PROVE  f[i] = IF i = 0 THEN 0 ELSE f[i - 1] + w[i]
      OBVIOUS
    <3>1. CASE i = n + 1
      <4>1. i # 0 /\ i - 1 = n /\ f[n] = g[n] /\ w[i] = x BY <2>2, <2>4, <3>1
      <4> QED BY <2>4, <3>1, <4>1
    <3>2. CASE i # n + 1
      <4>1. i \in 0 .. n /\ (i # 0 => i - 1 \in 0 .. n) BY <3>2
      <4> QED BY <2>4, <2>5, <4>1
    <3> QED BY <3>1, <3>2
  <2>7. f = [i \in 0 .. n + 1 |-> IF i = 0 THEN 0 ELSE f[i - 1] + w[i]]
    BY <2>4, <2>6
  <2> QED BY <2>4, <2>7 DEF Sums
<1>3. N \in S
  <2> HIDE DEF S
  <2> QED BY <1>1, <1>2, SetInduction
<1> QED BY <1>3

LEMMA TotalFacts ==
  ASSUME NEW N \in Nat, NEW w \in [1 .. N -> Nat]
  PROVE  \E f : /\ \A i \in 0 .. N : f[i] \in Nat
                /\ f[0] = 0 /\ \A i \in 1 .. N : f[i] = f[i - 1] + w[i]
                /\ Total(w, N) = f[N]
<1>1. PICK g \in [0 .. N -> Nat] : Sums(g, w, N) BY SumsExist
<1>2. PICK f : f = CHOOSE h : Sums(h, w, N) OBVIOUS
<1>3. Sums(f, w, N) BY <1>1, <1>2
<1>4. Total(w, N) = f[N] BY <1>2 DEF Total, Sums
<1>5. \A i \in 0 .. N : f[i] = IF i = 0 THEN 0 ELSE f[i - 1] + w[i] BY <1>3 DEF Sums
<1>6. f[0] = 0 /\ \A i \in 1 .. N : f[i] = f[i - 1] + w[i] BY <1>5
<1>7. \A i \in 0 .. N : f[i] \in Nat
  <2> DEFINE S == {n \in Nat : n <= N => f[n] \in Nat}
  <2>1. 0 \in S BY <1>6
  <2>2. ASSUME NEW n \in Nat, n \in S PROVE n + 1 \in S
    <3> SUFFICES ASSUME n + 1 <= N PROVE f[n + 1] \in Nat OBVIOUS
    <3>1. n + 1 \in 1 .. N /\ w[n + 1] \in Nat /\ f[n] \in Nat BY <2>2
    <3>2. f[n + 1] = f[n] + w[n + 1] BY <1>6, <3>1
    <3> QED BY <3>1, <3>2
  <2>3. Nat \subseteq S
    <3> HIDE DEF S
    <3> QED BY <2>1, <2>2, SetInduction
  <2> QED BY <2>3
<1> QED BY <1>4, <1>6, <1>7

LEMMA TotalChange ==
  ASSUME NEW N \in Nat, NEW w \in [1 .. N -> Nat], NEW v \in [1 .. N -> Nat], NEW i \in 1 .. N,
         \A k \in 1 .. N : k # i => v[k] = w[k]
  PROVE  Total(v, N) + w[i] = Total(w, N) + v[i]
<1>1. PICK f : /\ \A k \in 0 .. N : f[k] \in Nat
               /\ f[0] = 0 /\ \A k \in 1 .. N : f[k] = f[k - 1] + w[k]
               /\ Total(w, N) = f[N]
  BY TotalFacts
<1>2. PICK g : /\ \A k \in 0 .. N : g[k] \in Nat
               /\ g[0] = 0 /\ \A k \in 1 .. N : g[k] = g[k - 1] + v[k]
               /\ Total(v, N) = g[N]
  BY TotalFacts
<1>3. PICK x \in Nat, y \in Nat : x = w[i] /\ y = v[i] OBVIOUS
<1> DEFINE S == {n \in Nat : n <= N => IF n < i THEN g[n] = f[n] ELSE g[n] + x = f[n] + y}
<1>4. 0 \in S BY <1>1, <1>2
<1>5. ASSUME NEW n \in Nat, n \in S PROVE n + 1 \in S
  <2> SUFFICES ASSUME n + 1 <= N
               PROVE  IF n + 1 < i THEN g[n + 1] = f[n + 1] ELSE g[n + 1] + x = f[n + 1] + y
    OBVIOUS
  <2>1. n + 1 \in 1 .. N /\ n \in 0 .. N /\ n + 1 - 1 = n OBVIOUS
  <2>2. PICK a \in Nat, b \in Nat, c \in Nat, d \in Nat :
           a = f[n] /\ b = g[n] /\ c = w[n + 1] /\ d = v[n + 1]
    BY <1>1, <1>2, <2>1
  <2>3. f[n + 1] = a + c /\ g[n + 1] = b + d
    <3>1. f[n + 1] = f[n + 1 - 1] + w[n + 1] BY <1>1, <2>1
    <3>2. g[n + 1] = g[n + 1 - 1] + v[n + 1] BY <1>2, <2>1
    <3>3. f[n + 1] = a + c BY <2>1, <2>2, <3>1
    <3>4. g[n + 1] = b + d BY <2>1, <2>2, <3>2
    <3> QED BY <3>3, <3>4
  <2>4. IF n < i THEN b = a ELSE b + x = a + y BY <1>5, <2>1, <2>2
  <2>5. CASE n + 1 = i
    <3>1. c = x /\ d = y /\ b = a BY <1>3, <2>2, <2>4, <2>5
    <3>2. b + d + x = a + c + y BY <2>2, <1>3, <3>1
    <3> QED BY <2>3, <2>5, <3>2
  <2>6. CASE n + 1 # i
    <3>1. c = d BY <2>1, <2>2, <2>6
    <3>2. CASE n < i
      <4>1. n + 1 < i /\ b + d = a + c BY <2>4, <2>6, <3>1, <3>2
      <4> QED BY <2>3, <4>1
    <3>3. CASE ~(n < i)
      <4>1. b + x = a + y BY <2>4, <3>3
      <4>2. b + d + x = a + c + y BY <3>1, <4>1
      <4>3. ~(n + 1 < i) BY <3>3
      <4> QED BY <2>3, <4>2, <4>3
    <3> QED BY <3>2, <3>3
  <2> QED BY <2>5, <2>6
<1>6. N \in S
  <2>1. Nat \subseteq S
    <3> HIDE DEF S
    <3> QED BY <1>4, <1>5, SetInduction
  <2> QED BY <2>1
<1> QED BY <1>1, <1>2, <1>3, <1>6

(***************************************************************************)
(* The rows of table trades.                                               *)
(***************************************************************************)
Row == [book : Books, qty : Nat, open : BOOLEAN, why : {"none", "exit", "error"}]
Orders == [pc : {"insert", "close"}, book : Books, qty : Nat]

PositionTypes == /\ trades \in Seq(Row) /\ net \in [Symbols -> Int]
                 /\ handler \in {Idle} \union Orders

LEMMA SumType ==
  ASSUME PositionTypes, NEW ids
  PROVE  Sum(ids) \in Nat
<1>1. PICK N \in Nat : N = Len(trades) /\ DOMAIN trades = 1 .. N BY DEF PositionTypes
<1>2. \A i \in 1 .. N : trades[i].qty \in Nat
  <2>1. \A i \in 1 .. N : trades[i] \in Row BY <1>1 DEF PositionTypes
  <2> QED BY <2>1 DEF Row
<1>3. PICK w : w = [i \in DOMAIN trades |-> IF i \in ids THEN trades[i].qty ELSE 0] OBVIOUS
<1>4. w \in [1 .. N -> Nat] BY <1>1, <1>2, <1>3
<1>5. Total(w, N) \in Nat BY <1>4, TotalFacts
<1> QED BY <1>1, <1>3, <1>5 DEF Sum

LEMMA HeldType ==
  ASSUME PositionTypes, NEW b \in Books
  PROVE  Held(b) \in Nat
BY DEF PositionTypes, Books, Held, Positive, Sign

\* What one row more, less or other does to a local quantity.
Counted(rows, b, i) == IF rows[i].open /\ rows[i].book = b THEN rows[i].qty ELSE 0

LEMMA OneRowChanges ==
  ASSUME PositionTypes, trades' \in Seq(Row), Len(trades') = Len(trades),
         NEW i \in DOMAIN trades, NEW b,
         \A k \in DOMAIN trades : k # i => trades'[k] = trades[k]
  PROVE  /\ LocalQty(b)' \in Nat
         /\ LocalQty(b)' + Counted(trades, b, i) = LocalQty(b) + Counted(trades', b, i)
<1>1. PICK N \in Nat : N = Len(trades) /\ DOMAIN trades = 1 .. N BY DEF PositionTypes
<1>2. N = Len(trades') /\ DOMAIN trades' = 1 .. N BY <1>1
<1>3. \A k \in 1 .. N : trades[k].qty \in Nat /\ trades'[k].qty \in Nat
  <2>1. \A k \in 1 .. N : trades[k] \in Row /\ trades'[k] \in Row
    BY <1>1, <1>2 DEF PositionTypes
  <2> QED BY <2>1 DEF Row
<1>4. PICK w : w = [k \in 1 .. N |-> Counted(trades, b, k)] OBVIOUS
<1>5. PICK v : v = [k \in 1 .. N |-> Counted(trades', b, k)] OBVIOUS
<1>6. w \in [1 .. N -> Nat] /\ v \in [1 .. N -> Nat] BY <1>3, <1>4, <1>5 DEF Counted
<1>7. w = [k \in DOMAIN trades |-> IF k \in OpenRows(b) THEN trades[k].qty ELSE 0]
  BY <1>1, <1>4 DEF Counted, OpenRows
<1>8. v = [k \in DOMAIN trades' |-> IF k \in OpenRows(b)' THEN trades'[k].qty ELSE 0]
  BY <1>2, <1>5 DEF Counted, OpenRows
<1>9. LocalQty(b) = Total(w, N) BY <1>1, <1>7 DEF LocalQty, Sum
<1>10. LocalQty(b)' = Total(v, N) BY <1>2, <1>8 DEF LocalQty, Sum
<1>11. \A k \in 1 .. N : k # i => v[k] = w[k] BY <1>1, <1>4, <1>5 DEF Counted
<1>12. Total(v, N) + w[i] = Total(w, N) + v[i]
  <2>1. i \in 1 .. N BY <1>1
  <2> QED BY <1>6, <1>11, <2>1, TotalChange
<1>13. w[i] = Counted(trades, b, i) /\ v[i] = Counted(trades', b, i) BY <1>1, <1>4, <1>5
<1>14. Total(v, N) \in Nat
  <2>1. N \in 0 .. N OBVIOUS
  <2> QED BY <1>6, <2>1, TotalFacts
<1> QED BY <1>9, <1>10, <1>12, <1>13, <1>14

LEMMA RowWhy ==
  ASSUME NEW r \in Row, NEW reason \in {"none", "exit", "error"}
  PROVE  [r EXCEPT !.why = reason] \in Row
BY DEF Row

\* The two ways in which a row changes.
LEMMA RowCloses ==
  ASSUME NEW s \in Seq(Row), NEW i, NEW why \in {"exit", "error"},
         NEW t, t = [s EXCEPT ![i].open = FALSE, ![i].why = why]
  PROVE  /\ t \in Seq(Row) /\ Len(t) = Len(s)
         /\ \A k \in DOMAIN s : k # i => t[k] = s[k]
         /\ i \in DOMAIN s => ~t[i].open
<1>1. PICK N \in Nat : N = Len(s) /\ DOMAIN s = 1 .. N OBVIOUS
<1>2. DOMAIN t = 1 .. N /\ \A k \in 1 .. N : k # i => t[k] = s[k] BY <1>1
<1>3. i \in 1 .. N => t[i] = [s[i] EXCEPT !.open = FALSE, !.why = why] BY <1>1
<1>4. \A k \in 1 .. N : s[k] \in Row BY <1>1
<1>5. i \in 1 .. N => t[i] \in Row /\ ~t[i].open
  <2> SUFFICES ASSUME i \in 1 .. N PROVE t[i] \in Row /\ ~t[i].open OBVIOUS
  <2>1. PICK r \in Row : r = s[i] BY <1>4
  <2>2. t[i] = [[r EXCEPT !.open = FALSE] EXCEPT !.why = why] BY <1>3, <2>1
  <2>3. PICK u : u = [r EXCEPT !.open = FALSE] OBVIOUS
  <2>4. u \in Row /\ ~u.open BY <2>3 DEF Row
  <2>5. t[i] = [u EXCEPT !.why = why] /\ why \in {"none", "exit", "error"} BY <2>2, <2>3
  <2>6. t[i] \in Row BY <2>4, <2>5, RowWhy
  <2>7. t[i].open = u.open BY <2>4, <2>5 DEF Row
  <2> QED BY <2>4, <2>6, <2>7
<1>6. \A k \in 1 .. N : t[k] \in Row BY <1>2, <1>4, <1>5
<1>7. t \in [1 .. N -> Row] BY <1>1, <1>2, <1>6
<1>8. t \in Seq(Row) /\ Len(t) = N BY <1>7, FunctionIsSequence
<1> QED BY <1>1, <1>2, <1>5, <1>8

LEMMA RowShrinks ==
  ASSUME NEW s \in Seq(Row), NEW i, NEW q, i \in DOMAIN s => q \in Nat,
         NEW t, t = [s EXCEPT ![i].qty = q]
  PROVE  /\ t \in Seq(Row) /\ Len(t) = Len(s)
         /\ \A k \in DOMAIN s : k # i => t[k] = s[k]
         /\ i \in DOMAIN s => /\ t[i].qty = q /\ t[i].open = s[i].open
                              /\ t[i].book = s[i].book
<1>1. PICK N \in Nat : N = Len(s) /\ DOMAIN s = 1 .. N OBVIOUS
<1>2. DOMAIN t = 1 .. N /\ \A k \in 1 .. N : k # i => t[k] = s[k] BY <1>1
<1>3. i \in 1 .. N => t[i] = [s[i] EXCEPT !.qty = q] BY <1>1
<1>4. \A k \in 1 .. N : s[k] \in Row BY <1>1
<1>5. i \in 1 .. N => /\ t[i] \in Row /\ t[i].qty = q /\ t[i].open = s[i].open
                      /\ t[i].book = s[i].book
  BY <1>1, <1>3, <1>4 DEF Row
<1>6. \A k \in 1 .. N : t[k] \in Row BY <1>2, <1>4, <1>5
<1>7. t \in [1 .. N -> Row] BY <1>1, <1>2, <1>6
<1>8. t \in Seq(Row) /\ Len(t) = N BY <1>7, FunctionIsSequence
<1> QED BY <1>1, <1>2, <1>5, <1>8

LEMMA HandlerKeepsTypes ==
  ASSUME PositionTypes, Handler
  PROVE  PositionTypes'
<1>1. Sizes \subseteq Nat BY PositionsAssumption DEF PositionsAssumption
<1>2. CASE FillEntry
  <2>1. PICK b \in Books, q \in Sizes :
          /\ net' = [net EXCEPT ![b[1]] = @ + Sign(b[2]) * q]
          /\ handler' = [pc |-> "insert", book |-> b, qty |-> q]
    BY <1>2 DEF FillEntry
  <2>2. q \in Nat /\ Sign(b[2]) * q \in Int BY <1>1, <2>1 DEF Sign
  <2>3. net' \in [Symbols -> Int]
    <3>1. PICK x \in Int : x = Sign(b[2]) * q BY <2>2
    <3>2. PICK s : s = b[1] OBVIOUS
    <3>3. s \in Symbols /\ net[s] \in Int BY <3>2 DEF Books, PositionTypes
    <3>4. net' = [net EXCEPT ![s] = net[s] + x] BY <2>1, <3>1, <3>2
    <3> QED BY <3>3, <3>4 DEF PositionTypes
  <2>4. handler' \in Orders BY <2>1, <2>2 DEF Orders
  <2> QED BY <1>2, <2>3, <2>4 DEF FillEntry, PositionTypes
<1>3. CASE InsertTrade
  <2>1. handler.pc = "insert" /\ handler' = Idle /\ net' = net BY <1>3 DEF InsertTrade
  <2>2. handler \in Orders BY <2>1 DEF PositionTypes, Idle
  <2>3. PICK r : r = [book |-> handler.book, qty |-> handler.qty, open |-> TRUE, why |-> "none"]
    OBVIOUS
  <2>4. r \in Row BY <2>2, <2>3 DEF Row, Orders
  <2>5. trades' = Append(trades, r) \/ trades' = trades BY <1>3, <2>3 DEF InsertTrade
  <2>6. trades' \in Seq(Row) BY <2>4, <2>5 DEF PositionTypes
  <2> QED BY <2>1, <2>6 DEF PositionTypes
<1>4. CASE FillClose
  <2>1. PICK b \in Books : \E i \in OpenRows(b) :
          LET q == LowerOf(trades[i].qty, Held(b))
          IN /\ net' = [net EXCEPT ![b[1]] = @ - Sign(b[2]) * q]
             /\ handler' = [pc |-> "close", book |-> b, qty |-> q]
    BY <1>4 DEF FillClose
  <2>0. PICK i \in OpenRows(b) :
          LET q == LowerOf(trades[i].qty, Held(b))
          IN /\ net' = [net EXCEPT ![b[1]] = @ - Sign(b[2]) * q]
             /\ handler' = [pc |-> "close", book |-> b, qty |-> q]
    BY <2>1
  <2>2. trades[i] \in Row BY <2>0 DEF PositionTypes, OpenRows
  <2>3. trades[i].qty \in Nat /\ Held(b) \in Nat BY <2>2, HeldType DEF Row
  <2>4. PICK q \in Nat : q = LowerOf(trades[i].qty, Held(b)) BY <2>3 DEF LowerOf
  <2>5. net' = [net EXCEPT ![b[1]] = @ - Sign(b[2]) * q]
        /\ handler' = [pc |-> "close", book |-> b, qty |-> q]
    BY <2>0, <2>4
  <2>6. Sign(b[2]) * q \in Int BY DEF Sign
  <2>7. net' \in [Symbols -> Int]
    <3>1. PICK x \in Int : x = Sign(b[2]) * q BY <2>6
    <3>2. PICK s : s = b[1] OBVIOUS
    <3>3. s \in Symbols /\ net[s] \in Int BY <3>2 DEF Books, PositionTypes
    <3>4. net' = [net EXCEPT ![s] = net[s] - x] BY <2>5, <3>1, <3>2
    <3> QED BY <3>3, <3>4 DEF PositionTypes
  <2>8. handler' \in Orders BY <2>5 DEF Orders
  <2> QED BY <1>4, <2>7, <2>8 DEF FillClose, PositionTypes
<1>5. CASE CloseOpenTrade
  <2>1. handler.pc = "close" /\ handler' = Idle /\ net' = net BY <1>5 DEF CloseOpenTrade
  <2>2. handler \in Orders BY <2>1 DEF PositionTypes, Idle
  <2>3. handler.qty \in Nat BY <2>2 DEF Orders
  <2>4. PICK i : trades' \in {trades,
                   [trades EXCEPT ![i].open = FALSE, ![i].why = "exit"]}
                 \/ /\ handler.qty < trades[i].qty
                    /\ trades' = [trades EXCEPT ![i].qty = @ - handler.qty]
    BY <1>5 DEF CloseOpenTrade
  <2>5. trades \in Seq(Row) BY DEF PositionTypes
  <2>6. CASE trades' = [trades EXCEPT ![i].open = FALSE, ![i].why = "exit"]
    <3>1. trades' \in Seq(Row) BY <2>5, <2>6, RowCloses
    <3> QED BY <2>1, <3>1 DEF PositionTypes
  <2>7. CASE handler.qty < trades[i].qty /\ trades' = [trades EXCEPT ![i].qty = @ - handler.qty]
    <3>1. PICK q : q = trades[i].qty - handler.qty OBVIOUS
    <3>2. i \in DOMAIN trades => trades[i] \in Row BY <2>5
    <3>3. i \in DOMAIN trades => q \in Nat BY <2>3, <2>7, <3>1, <3>2 DEF Row
    <3>4. trades' = [trades EXCEPT ![i].qty = q] BY <2>5, <2>7, <3>1
    <3>5. trades' \in Seq(Row) BY <2>5, <3>3, <3>4, RowShrinks
    <3> QED BY <2>1, <3>5 DEF PositionTypes
  <2>8. CASE trades' = trades BY <2>1, <2>8 DEF PositionTypes
  <2> QED BY <2>4, <2>6, <2>7, <2>8
<1> QED BY <1>2, <1>3, <1>4, <1>5 DEF Handler

LEMMA ExchangeShrinks ==
  ASSUME PositionTypes, ExchangeCloses
  PROVE  /\ PositionTypes' /\ trades' = trades
         /\ \A b \in Books : Held(b)' <= Held(b)
<1>1. Sizes \subseteq Nat BY PositionsAssumption DEF PositionsAssumption
<1>2. PICK s \in Symbols, left \in {0} \union Sizes :
        /\ left < Distance(net[s], 0)
        /\ net' = [net EXCEPT ![s] = IF @ > 0 THEN left ELSE -left]
  BY DEF ExchangeCloses
<1>3. left \in Nat /\ net[s] \in Int BY <1>1, <1>2 DEF PositionTypes
<1>4. net' \in [Symbols -> Int] BY <1>2, <1>3 DEF PositionTypes
<1>5. trades' = trades /\ handler' = handler BY DEF ExchangeCloses
<1>6. ASSUME NEW b \in Books PROVE Held(b)' <= Held(b)
  <2>1. b[1] \in Symbols /\ net[b[1]] \in Int BY DEF Books, PositionTypes
  <2>2. CASE b[1] = s
    <3>1. net'[b[1]] = IF net[s] > 0 THEN left ELSE -left
      BY <1>2, <2>1, <2>2 DEF PositionTypes
    <3>2. PICK n \in Int, m \in Int, sign \in {1, -1} :
             n = net[s] /\ m = net'[b[1]] /\ sign = Sign(b[2])
      BY <1>3, <1>4, <2>1 DEF Sign
    <3>3. m = (IF n > 0 THEN left ELSE -left) /\ left < Distance(n, 0)
      BY <1>2, <3>1, <3>2
    <3>4. Positive(sign * m) <= Positive(sign * n)
      <4>1. CASE sign = 1 BY <1>3, <3>2, <3>3, <4>1 DEF Positive, Distance
      <4>2. CASE sign = -1 BY <1>3, <3>2, <3>3, <4>2 DEF Positive, Distance
      <4> QED BY <3>2, <4>1, <4>2
    <3> QED BY <2>2, <3>2, <3>4 DEF Held
  <2>3. CASE b[1] # s
    <3>1. net'[b[1]] = net[b[1]] BY <1>2, <2>1, <2>3 DEF PositionTypes
    <3>2. Held(b)' = Held(b) BY <3>1 DEF Held
    <3> QED BY <3>2, HeldType
  <2> QED BY <2>2, <2>3
<1> QED BY <1>4, <1>5, <1>6 DEF PositionTypes

(***************************************************************************)
(* The reconciliation.  While nothing has moved since the exchange was     *)
(* asked, the exchange holds at most what it said; the rows planned for a  *)
(* reduction are then open rows as they are; and what is open is at least  *)
(* what the exchange said and what is left to reduce.                      *)
(***************************************************************************)
Working == [pc : {"local", "exchange", "plan", "reduce", "record"}, todo : Seq(Books) \ {<<>>},
            local : Nat, bybit : Nat, plan : SUBSET [id : Nat, qty : Nat], reduce : Nat,
            fixed : BOOLEAN, moved : BOOLEAN]

ReconTypes == /\ recon \in {Resting, Dead, Hung} \union Working
              /\ recon \in Working => \A row \in recon.plan : row.id \in DOMAIN trades

Undisturbed == recon \in Working /\ ~recon.moved

HeldAsSaid == Undisturbed /\ recon.pc \in {"plan", "reduce"} => Held(Book) <= recon.bybit
PlanIsCurrent ==
  Undisturbed /\ recon.pc = "reduce" =>
    \A row \in recon.plan : row.id \in OpenRows(Book) /\ trades[row.id].qty = row.qty
EnoughOpen ==
  Undisturbed /\ recon.pc = "reduce" /\ recon.reduce > 0 /\ recon.plan # {} =>
    LocalQty(Book) >= recon.bybit + recon.reduce

ReconInv == PositionTypes /\ ReconTypes /\ HeldAsSaid /\ PlanIsCurrent /\ EnoughOpen

LEMMA SetToSeqFacts ==
  ASSUME NEW S, IsFiniteSet(S), S # {}
  PROVE  SetToSeq(S) \in Seq(S) \ {<<>>}
<1>1. PICK n \in Nat : n = Cardinality(S) /\ ExistsBijection(1 .. n, S) BY FS_CardinalityType
<1>2. n # 0 BY <1>1, FS_EmptySet
<1>3. \E f \in [1 .. n -> S] : IsInjective(f)
  BY <1>1 DEF ExistsBijection, Bijection, Injection
<1>4. PICK f : f = CHOOSE g \in [1 .. n -> S] : IsInjective(g) OBVIOUS
<1>5. f \in [1 .. n -> S] BY <1>3, <1>4
<1>6. f \in Seq(S) /\ Len(f) = n BY <1>5, FunctionIsSequence
<1>7. f # <<>> BY <1>2, <1>6
<1>8. SetToSeq(S) = f BY <1>1, <1>4 DEF SetToSeq
<1> QED BY <1>6, <1>7, <1>8

LEMMA BookType ==
  ASSUME recon \in Working
  PROVE  Book \in Books
<1>1. recon.todo \in Seq(Books) /\ recon.todo # <<>> BY DEF Working
<1> QED BY <1>1, HeadTailProperties DEF Book

LEMMA NextBookType ==
  ASSUME recon \in Working
  PROVE  NextBook = Resting \/ (NextBook \in Working /\ NextBook.pc = "local" /\ NextBook.plan = {})
<1>1. PICK q : q = recon.todo OBVIOUS
<1>2. q \in Seq(Books) /\ q # <<>> BY <1>1 DEF Working
<1>3. CASE Len(q) = 1 BY <1>1, <1>3 DEF NextBook
<1>4. CASE Len(q) # 1
  <2>1. Len(q) \in Nat /\ Len(q) # 0 /\ Tail(q) \in Seq(Books) /\ Len(Tail(q)) = Len(q) - 1
    BY <1>2, HeadTailProperties
  <2>2. Len(Tail(q)) # 0 BY <1>4, <2>1
  <2>3. Tail(q) \in Seq(Books) \ {<<>>}
    <3>1. PICK r : r = Tail(q) OBVIOUS
    <3>2. r \in Seq(Books) /\ Len(r) # 0 BY <2>1, <2>2, <3>1
    <3>3. r # <<>> BY <3>2, EmptySeq
    <3> QED BY <3>1, <3>2, <3>3
  <2>4. At("local", Tail(q)) \in Working BY <2>3 DEF At, Working
  <2> QED BY <1>1, <1>4, <2>4 DEF NextBook, At
<1> QED BY <1>3, <1>4

\* A task that is not in the middle of a reduction, or that was disturbed.
LEMMA NothingPromised ==
  ASSUME PositionTypes',
         \/ recon' \in {Resting, Dead, Hung}
         \/ /\ recon' \in Working /\ \A row \in recon'.plan : row.id \in DOMAIN trades'
            /\ recon'.moved \/ recon'.pc \notin {"plan", "reduce"}
  PROVE  ReconInv'
<1>1. {Resting, Dead, Hung} \cap Working = {} BY DEF Resting, Dead, Hung, Working
<1> QED BY <1>1 DEF ReconInv, ReconTypes, Undisturbed, HeldAsSaid, PlanIsCurrent, EnoughOpen

LEMMA ReconStarts ==
  PositionsInit /\ ReconInit => ReconInv
<1> SUFFICES ASSUME PositionsInit, ReconInit PROVE ReconInv OBVIOUS
<1>1. PositionTypes BY DEF PositionsInit, PositionTypes
<1>2. Resting \notin Working BY DEF Resting, Working
<1> QED BY <1>1, <1>2 DEF ReconInit, ReconInv, ReconTypes, Undisturbed, HeldAsSaid,
                          PlanIsCurrent, EnoughOpen

LEMMA WorkingWhen ==
  ASSUME ReconTypes, recon.pc \notin {"rest", "dead", "hung"}
  PROVE  recon \in Working
BY DEF ReconTypes, Resting, Dead, Hung

LEMMA StartTickStep ==
  ASSUME ReconInv, StartTick
  PROVE  ReconInv'
<1>1. PositionTypes' BY DEF StartTick, ReconInv, PositionTypes, positionVars
<1>2. PICK B : B = {b \in Books : Watched(b)} OBVIOUS
<1>3. IsFiniteSet(B)
  <2>1. IsFiniteSet(Symbols) BY PositionsAssumption DEF PositionsAssumption
  <2>2. IsFiniteSet(Sides)
    <3>1. IsFiniteSet({"Long"}) BY FS_EmptySet, FS_AddElement
    <3> QED BY <3>1, FS_AddElement DEF Sides
  <2>3. IsFiniteSet(Books) BY <2>1, <2>2, FS_Product DEF Books
  <2> QED BY <1>2, <2>3, FS_Subset
<1>4. B # {}
  <2>1. PICK s \in SymbolsToCheck : s \in Symbols BY DEF StartTick, SymbolsToCheck
  <2>2. <<s, "Long">> \in Books /\ <<s, "Long">>[1] = s BY <2>1 DEF Books, Sides
  <2>3. <<s, "Long">> \in B BY <1>2, <2>1, <2>2 DEF Watched
  <2> QED BY <2>3
<1>5. PICK q : q = SetToSeq(B) OBVIOUS
<1>6. q \in Seq(Books) \ {<<>>}
  <2>1. q \in Seq(B) \ {<<>>} BY <1>3, <1>4, <1>5, SetToSeqFacts
  <2> QED BY <1>2, <2>1
<1>7. recon' = At("local", q) BY <1>2, <1>5 DEF StartTick
<1>8. recon' \in Working /\ recon'.pc = "local" /\ recon'.plan = {} BY <1>6, <1>7 DEF At, Working
<1> QED BY <1>1, <1>8, NothingPromised

LEMMA ReadLocalStep ==
  ASSUME ReconInv, ReadLocal
  PROVE  ReconInv'
<1>1. PositionTypes' /\ trades' = trades BY DEF ReadLocal, ReconInv, PositionTypes
<1>2. recon \in Working /\ recon.pc = "local" BY WorkingWhen DEF ReadLocal, ReconInv
<1>3. LocalQty(Book) \in Nat BY SumType DEF LocalQty, ReconInv
<1>4. CASE recon' = [recon EXCEPT !.pc = "exchange", !.local = LocalQty(Book)]
  <2>1. recon' \in Working /\ recon'.pc = "exchange" /\ recon'.plan = recon.plan
    BY <1>2, <1>3, <1>4 DEF Working
  <2> QED BY <1>1, <1>2, <2>1, NothingPromised DEF ReconInv, ReconTypes
<1>5. CASE recon' = Resting BY <1>1, <1>5, NothingPromised
<1> QED BY <1>4, <1>5 DEF ReadLocal

LEMMA ReadExchangeStep ==
  ASSUME ReconInv, ReadExchange
  PROVE  ReconInv'
<1>1. PositionTypes' /\ trades' = trades /\ net' = net
  BY DEF ReadExchange, ReconInv, PositionTypes
<1>2. recon \in Working /\ recon.pc = "exchange" BY WorkingWhen DEF ReadExchange, ReconInv
<1>3. Book \in Books BY <1>2, BookType
<1>4. PICK h : h = Held(Book) OBVIOUS
<1>5. h \in Nat BY <1>3, <1>4, HeldType DEF ReconInv
<1>6. CASE recon' = NextBook BY <1>1, <1>2, <1>6, NextBookType, NothingPromised
<1>7. CASE recon' = Dead BY <1>1, <1>7, NothingPromised
<1>8. ASSUME NEW pc \in {"plan", "record"},
             recon' = [recon EXCEPT !.bybit = h, !.moved = FALSE, !.pc = pc]
      PROVE  ReconInv'
  <2>1. /\ recon' \in Working /\ recon'.pc = pc /\ recon'.plan = recon.plan
        /\ recon'.bybit = h /\ recon'.todo = recon.todo
    BY <1>2, <1>5, <1>8 DEF Working
  <2>2. ReconTypes' BY <1>1, <1>2, <2>1 DEF ReconInv, ReconTypes
  <2>3. Book' = Book BY <2>1 DEF Book
  <2>4. Held(Book)' = Held(Book) BY <1>1, <2>3 DEF Held
  <2>5. Held(Book)' <= recon'.bybit BY <1>4, <1>5, <2>1, <2>4
  <2> QED BY <1>1, <1>8, <2>1, <2>2, <2>5 DEF ReconInv, HeldAsSaid, PlanIsCurrent, EnoughOpen
<1>9. recon' \in {NextBook, Dead} \/
      \E pc \in {"plan", "record"} : recon' = [recon EXCEPT !.bybit = h, !.moved = FALSE, !.pc = pc]
  BY <1>4 DEF ReadExchange, Verdict
<1> QED BY <1>6, <1>7, <1>8, <1>9

LEMMA PlanReductionStep ==
  ASSUME ReconInv, PlanReduction
  PROVE  ReconInv'
<1>1. PositionTypes' /\ trades' = trades /\ net' = net
  BY DEF PlanReduction, ReconInv, PositionTypes
<1>2. recon \in Working /\ recon.pc = "plan" BY WorkingWhen DEF PlanReduction, ReconInv
<1>3. Book \in Books BY <1>2, BookType
<1>4. CASE recon' = NextBook BY <1>1, <1>2, <1>4, NextBookType, NothingPromised
<1>5. CASE recon' # NextBook
  <2>1. PICK plan, n : /\ plan = {[id |-> i, qty |-> trades[i].qty] : i \in OpenRows(Book)}
                       /\ n = LocalQty(Book)
    OBVIOUS
  <2>2. PICK said \in Nat : said = recon.bybit BY <1>2 DEF Working
  <2>3. n \in Nat BY <2>1, SumType DEF LocalQty, ReconInv
  <2>4. PICK reduce : reduce = Positive(n - said) OBVIOUS
  <2>5. reduce \in Nat /\ (reduce > 0 => n >= said + reduce) BY <2>2, <2>3, <2>4 DEF Positive
  <2>6. recon' = [recon EXCEPT !.pc = "reduce", !.plan = plan, !.reduce = reduce]
    BY <1>5, <2>1, <2>2, <2>4 DEF PlanReduction
  <2>7. \A row \in plan : /\ row.id \in DOMAIN trades /\ row.id \in OpenRows(Book)
                          /\ trades[row.id].qty = row.qty /\ row \in [id : Nat, qty : Nat]
    <3> SUFFICES ASSUME NEW i \in OpenRows(Book), NEW row,
                        row = [id |-> i, qty |-> trades[i].qty]
                 PROVE  /\ row.id \in DOMAIN trades /\ row.id \in OpenRows(Book)
                        /\ trades[row.id].qty = row.qty /\ row \in [id : Nat, qty : Nat]
      BY <2>1
    <3>1. i \in DOMAIN trades BY DEF OpenRows
    <3>2. i \in Nat /\ trades[i] \in Row BY <3>1 DEF ReconInv, PositionTypes
    <3>3. trades[i].qty \in Nat BY <3>2 DEF Row
    <3> QED BY <3>1, <3>2, <3>3
  <2>8. plan \in SUBSET [id : Nat, qty : Nat] BY <2>7
  <2>9. /\ recon' \in Working /\ recon'.pc = "reduce" /\ recon'.plan = plan
        /\ recon'.reduce = reduce /\ recon'.bybit = said /\ recon'.todo = recon.todo
        /\ recon'.moved = recon.moved
    BY <1>2, <2>2, <2>5, <2>6, <2>8 DEF Working
  <2>10. Book' = Book BY <2>9 DEF Book
  <2>11. OpenRows(Book)' = OpenRows(Book) BY <1>1, <2>10 DEF OpenRows
  <2>12. LocalQty(Book)' = n BY <1>1, <2>1, <2>11 DEF LocalQty, Sum
  <2>13. Held(Book)' = Held(Book) BY <1>1, <2>10 DEF Held
  <2>14. ReconTypes' BY <1>1, <2>7, <2>9 DEF ReconTypes
  <2>15. HeldAsSaid' BY <1>2, <2>2, <2>9, <2>13 DEF ReconInv, HeldAsSaid, Undisturbed
  <2>16. PlanIsCurrent' BY <1>1, <2>7, <2>9, <2>11 DEF PlanIsCurrent
  <2>17. EnoughOpen' BY <2>5, <2>9, <2>12 DEF EnoughOpen
  <2> QED BY <1>1, <2>14, <2>15, <2>16, <2>17 DEF ReconInv
<1> QED BY <1>4, <1>5

LEMMA NewestFacts ==
  ASSUME ReconInv, recon \in Working, recon.plan # {}, NEW row, row = Newest(recon.plan)
  PROVE  row \in recon.plan /\ row.id \in DOMAIN trades /\ row.qty \in Nat /\ row.id \in Nat
<1>1. PICK N \in Nat : DOMAIN trades = 1 .. N BY DEF ReconInv, PositionTypes
<1>2. \A r \in recon.plan : r.id \in 1 .. N BY <1>1 DEF ReconInv, ReconTypes
<1>3. PICK Ids : Ids = {r.id : r \in recon.plan} OBVIOUS
<1>4. Ids \subseteq 0 .. N /\ Ids # {} BY <1>2, <1>3
<1>5. PICK top \in Ids : \A i \in Ids : i <= top BY <1>4, GreatestElement
<1>6. \E r \in recon.plan : \A other \in recon.plan : other.id <= r.id BY <1>3, <1>5
<1>7. row \in recon.plan BY <1>6 DEF Newest
<1>8. recon.plan \subseteq [id : Nat, qty : Nat] BY DEF Working
<1> QED BY <1>1, <1>2, <1>7, <1>8

LEMMA ReduceRowStep ==
  ASSUME ReconInv, ReduceRow, NEW b, b = Book
  PROVE  /\ ReconInv'
         /\ Undisturbed /\ trades' # trades => LocalQty(b)' >= Held(b)
<1>1. recon \in Working /\ recon.pc = "reduce" BY WorkingWhen DEF ReduceRow, ReconInv
<1>2. PICK row : row = Newest(recon.plan) OBVIOUS
<1>3. row \in recon.plan /\ row.id \in DOMAIN trades /\ row.qty \in Nat /\ row.id \in Nat
  BY <1>1, <1>2, NewestFacts DEF ReduceRow
<1>4. b \in Books BY <1>1, BookType
<1>5. net' = net /\ handler' = handler BY DEF ReduceRow
<1>6. Held(b)' = Held(b) BY <1>5 DEF Held
<1>7. PICK reduce \in Nat, said \in Nat, held \in Nat, n \in Nat :
         reduce = recon.reduce /\ said = recon.bybit /\ held = Held(b) /\ n = LocalQty(b)
  BY <1>1, <1>4, HeldType, SumType DEF Working, LocalQty, ReconInv
<1>8. reduce > 0 BY <1>7 DEF ReduceRow
<1>9. Undisturbed =>
        /\ held <= said /\ n >= said + reduce
        /\ \A r \in recon.plan : r.id \in OpenRows(b) /\ trades[r.id].qty = r.qty
        /\ Counted(trades, b, row.id) = row.qty
  <2> SUFFICES ASSUME Undisturbed
               PROVE  /\ held <= said /\ n >= said + reduce
                      /\ \A r \in recon.plan : r.id \in OpenRows(b) /\ trades[r.id].qty = r.qty
                      /\ Counted(trades, b, row.id) = row.qty
    OBVIOUS
  <2>1. \A r \in recon.plan : r.id \in OpenRows(b) /\ trades[r.id].qty = r.qty
    BY <1>1 DEF ReconInv, PlanIsCurrent
  <2>2. held <= said BY <1>1, <1>7 DEF ReconInv, HeldAsSaid
  <2>3. n >= said + reduce BY <1>1, <1>3, <1>7, <1>8 DEF ReconInv, EnoughOpen
  <2>4. row.id \in OpenRows(b) /\ trades[row.id].qty = row.qty BY <1>3, <2>1
  <2> QED BY <2>1, <2>2, <2>3, <2>4 DEF Counted, OpenRows
<1>10. trades \in Seq(Row) BY DEF ReconInv, PositionTypes
<1>11. CASE /\ reduce >= row.qty
            /\ trades' = [trades EXCEPT ![row.id].open = FALSE, ![row.id].why = "error"]
            /\ recon' = [recon EXCEPT !.plan = @ \ {row}, !.reduce = LeftToReduce(row)]
  <2>1. /\ trades' \in Seq(Row) /\ Len(trades') = Len(trades)
        /\ \A k \in DOMAIN trades : k # row.id => trades'[k] = trades[k]
        /\ ~trades'[row.id].open
    <3>1. PICK s, t, i, why : s = trades /\ t = trades' /\ i = row.id /\ why = "error" OBVIOUS
    <3>2. s \in Seq(Row) /\ why \in {"exit", "error"} BY <1>10, <3>1
    <3>3. t = [s EXCEPT ![i].open = FALSE, ![i].why = why] BY <1>11, <3>1
    <3>4. t \in Seq(Row) BY <3>2, <3>3, RowCloses
    <3>5. Len(t) = Len(s) BY <3>2, <3>3, RowCloses
    <3>6. \A k \in DOMAIN s : k # i => t[k] = s[k] BY <3>2, <3>3, RowCloses
    <3>7. i \in DOMAIN s => ~t[i].open BY <3>2, <3>3, RowCloses
    <3> QED BY <1>3, <3>1, <3>4, <3>5, <3>6, <3>7
  <2>2. PositionTypes' BY <1>5, <2>1 DEF ReconInv, PositionTypes
  <2>3. DOMAIN trades' = DOMAIN trades BY <1>10, <1>11
  <2>4. PICK left \in Nat : left = reduce - row.qty BY <1>3, <1>11
  <2>5. recon' = [recon EXCEPT !.plan = recon.plan \ {row}, !.reduce = left]
    BY <1>7, <1>11, <2>4, <1>1 DEF LeftToReduce, Working
  <2>6. /\ recon' \in Working /\ recon'.pc = "reduce" /\ recon'.plan = recon.plan \ {row}
        /\ recon'.reduce = left /\ recon'.bybit = said /\ recon'.todo = recon.todo
        /\ recon'.moved = recon.moved
    BY <1>1, <1>7, <2>5 DEF Working
  <2>7. Book' = b BY <2>6 DEF Book
  <2>8. ReconTypes'
    <3>1. \A r \in recon.plan : r.id \in DOMAIN trades BY <1>1 DEF ReconInv, ReconTypes
    <3> QED BY <2>3, <2>6, <3>1 DEF ReconTypes
  <2>9. CASE recon.moved BY <1>1, <2>2, <2>6, <2>8, <2>9, NothingPromised DEF ReconTypes, Undisturbed
  <2>10. CASE ~recon.moved
    <3>1. Undisturbed BY <1>1, <2>10 DEF Undisturbed
    <3>2. Counted(trades', b, row.id) = 0 BY <2>1 DEF Counted
    <3>3. PICK m : m = LocalQty(b)' OBVIOUS
    <3>5. /\ LocalQty(b)' \in Nat
          /\ LocalQty(b)' + Counted(trades, b, row.id) = LocalQty(b) + Counted(trades', b, row.id)
      BY <1>3, <2>1, OneRowChanges DEF ReconInv
    <3>4. m \in Nat BY <3>3, <3>5
    <3>6. m + row.qty = n + 0 BY <1>7, <1>9, <3>1, <3>2, <3>3, <3>5
    <3>7. m >= said + left
      <4>1. m = n - row.qty BY <1>3, <3>4, <3>6
      <4>2. n >= said + reduce BY <1>9, <3>1
      <4> QED BY <1>3, <2>4, <4>1, <4>2
    <3>8. m >= held
      <4>1. held <= said BY <1>9, <3>1
      <4> QED BY <3>4, <3>7, <4>1
    <3>9. HeldAsSaid'
      <4>1. Held(Book)' = held BY <1>6, <1>7, <2>7 DEF Held
      <4>2. held <= said BY <1>9, <3>1
      <4> QED BY <2>6, <4>1, <4>2 DEF HeldAsSaid
    <3>10. PlanIsCurrent'
      <4> SUFFICES ASSUME NEW r \in recon.plan \ {row}
                   PROVE  r.id \in OpenRows(b)' /\ trades'[r.id].qty = r.qty
        BY <2>6, <2>7 DEF PlanIsCurrent, OpenRows
      <4>1. r.id \in OpenRows(b) /\ trades[r.id].qty = r.qty /\ trades[row.id].qty = row.qty
        BY <1>3, <1>9, <3>1
      <4>2. r \in [id : Nat, qty : Nat] /\ row \in [id : Nat, qty : Nat] BY <1>1, <1>3 DEF Working
      <4>3. r.id # row.id BY <4>1, <4>2
      <4>4. trades'[r.id] = trades[r.id] BY <2>1, <4>1, <4>3 DEF OpenRows
      <4> QED BY <2>3, <4>1, <4>4 DEF OpenRows
    <3>11. EnoughOpen'
      <4>1. LocalQty(Book)' = m BY <2>7, <3>3 DEF LocalQty, OpenRows
      <4> QED BY <2>6, <3>7, <4>1 DEF EnoughOpen
    <3> QED BY <1>7, <2>2, <2>8, <3>3, <3>8, <3>9, <3>10, <3>11 DEF ReconInv
  <2> QED BY <2>9, <2>10
<1>12. CASE /\ reduce < row.qty
            /\ trades' = [trades EXCEPT ![row.id].qty = row.qty - reduce]
            /\ recon' = [recon EXCEPT !.plan = {}]
  <2>1. PICK q \in Nat : q = row.qty - reduce BY <1>3, <1>12
  <2>2. /\ trades' \in Seq(Row) /\ Len(trades') = Len(trades)
        /\ \A k \in DOMAIN trades : k # row.id => trades'[k] = trades[k]
        /\ trades'[row.id].qty = q /\ trades'[row.id].open = trades[row.id].open
        /\ trades'[row.id].book = trades[row.id].book
    <3>1. trades' = [trades EXCEPT ![row.id].qty = q] BY <1>12, <2>1
    <3> QED BY <1>3, <1>10, <3>1, RowShrinks
  <2>3. PositionTypes' BY <1>5, <2>2 DEF ReconInv, PositionTypes
  <2>4. /\ recon' \in Working /\ recon'.pc = "reduce" /\ recon'.plan = {}
        /\ recon'.bybit = said /\ recon'.todo = recon.todo /\ recon'.moved = recon.moved
    BY <1>1, <1>7, <1>12 DEF Working
  <2>5. Book' = b BY <2>4 DEF Book
  <2>6. ReconTypes' BY <2>4 DEF ReconTypes
  <2>7. HeldAsSaid'
    <3>1. Held(Book)' = held BY <1>6, <1>7, <2>5 DEF Held
    <3> QED BY <1>9, <1>1, <2>4, <3>1 DEF HeldAsSaid, Undisturbed
  <2>8. PlanIsCurrent' /\ EnoughOpen' BY <2>4 DEF PlanIsCurrent, EnoughOpen
  <2>9. ASSUME Undisturbed PROVE LocalQty(b)' >= Held(b)
    <3>1. Counted(trades, b, row.id) = row.qty /\ n >= said + reduce /\ held <= said
      BY <1>9, <2>9
    <3>2. row.id \in OpenRows(b) BY <1>3, <1>9, <2>9
    <3>3. Counted(trades', b, row.id) = q BY <2>2, <3>2 DEF Counted, OpenRows
    <3>4. PICK m : m = LocalQty(b)' OBVIOUS
    <3>6. /\ LocalQty(b)' \in Nat
          /\ LocalQty(b)' + Counted(trades, b, row.id) = LocalQty(b) + Counted(trades', b, row.id)
      BY <1>3, <2>2, OneRowChanges DEF ReconInv
    <3>5. m \in Nat BY <3>4, <3>6
    <3>7. m + row.qty = n + q BY <1>7, <3>1, <3>3, <3>4, <3>6
    <3>8. m = n - reduce BY <1>3, <2>1, <3>5, <3>7
    <3>9. m >= held BY <3>1, <3>8
    <3> QED BY <1>7, <3>4, <3>9
  <2> QED BY <2>3, <2>6, <2>7, <2>8, <2>9 DEF ReconInv
<1>13. CASE recon' = NextBook /\ trades' = trades
  <2>1. PositionTypes' BY <1>5, <1>13 DEF ReconInv, PositionTypes
  <2> QED BY <1>1, <1>13, <2>1, NextBookType, NothingPromised
<1> QED
  <2>1. \/ /\ reduce >= row.qty
           /\ trades' = [trades EXCEPT ![row.id].open = FALSE, ![row.id].why = "error"]
           /\ recon' = [recon EXCEPT !.plan = @ \ {row}, !.reduce = LeftToReduce(row)]
        \/ /\ reduce < row.qty
           /\ trades' = [trades EXCEPT ![row.id].qty = row.qty - reduce]
           /\ recon' = [recon EXCEPT !.plan = {}]
        \/ recon' = NextBook /\ trades' = trades
    BY <1>2, <1>7 DEF ReduceRow
  <2> QED BY <2>1, <1>11, <1>12, <1>13

LEMMA HandlerKeepsRows ==
  ASSUME PositionTypes, Handler
  PROVE  DOMAIN trades \subseteq DOMAIN trades'
<1>1. PICK N \in Nat : DOMAIN trades = 1 .. N BY DEF PositionTypes
<1>2. CASE FillEntry \/ FillClose BY <1>2 DEF FillEntry, FillClose
<1>3. CASE InsertTrade
  <2>1. handler \in Orders BY <1>3 DEF InsertTrade, PositionTypes, Idle
  <2>2. PICK r : r = [book |-> handler.book, qty |-> handler.qty, open |-> TRUE, why |-> "none"]
    OBVIOUS
  <2>3. r \in Row BY <2>1, <2>2 DEF Row, Orders
  <2>4. trades' = Append(trades, r) \/ trades' = trades BY <1>3, <2>2 DEF InsertTrade
  <2> QED BY <2>3, <2>4, AppendFacts DEF PositionTypes
<1>4. CASE CloseOpenTrade
  <2>1. PICK i : trades' \in {trades,
                   [trades EXCEPT ![i].open = FALSE, ![i].why = "exit"],
                   [trades EXCEPT ![i].qty = @ - handler.qty]}
    BY <1>4 DEF CloseOpenTrade
  <2> QED BY <1>1, <2>1 DEF PositionTypes
<1> QED BY <1>2, <1>3, <1>4 DEF Handler

LEMMA HandlerMovesStep ==
  ASSUME ReconInv, HandlerMoves
  PROVE  ReconInv'
<1>1. PositionTypes' BY HandlerKeepsTypes DEF HandlerMoves, ReconInv
<1>2. CASE recon \in {Resting, Dead, Hung}
  BY <1>1, <1>2, NothingPromised DEF HandlerMoves
<1>3. CASE recon \notin {Resting, Dead, Hung}
  <2>1. recon \in Working BY <1>3 DEF ReconInv, ReconTypes
  <2>2. recon' = [recon EXCEPT !.moved = TRUE] BY <1>3 DEF HandlerMoves
  <2>3. recon' \in Working /\ recon'.plan = recon.plan /\ recon'.moved
    BY <2>1, <2>2 DEF Working
  <2>4. DOMAIN trades \subseteq DOMAIN trades' BY HandlerKeepsRows DEF HandlerMoves, ReconInv
  <2>5. \A row \in recon'.plan : row.id \in DOMAIN trades'
    BY <2>1, <2>3, <2>4 DEF ReconInv, ReconTypes
  <2> QED BY <1>1, <2>3, <2>5, NothingPromised
<1> QED BY <1>2, <1>3

LEMMA ExchangeMovesStep ==
  ASSUME ReconInv, ExchangeMoves
  PROVE  ReconInv'
<1>1. PositionTypes' /\ trades' = trades /\ \A b \in Books : Held(b)' <= Held(b)
  BY ExchangeShrinks DEF ExchangeMoves, ReconInv
<1>2. recon' = recon BY DEF ExchangeMoves
<1>3. ReconTypes' BY <1>1, <1>2 DEF ReconInv, ReconTypes
<1>4. HeldAsSaid'
  <2> SUFFICES ASSUME Undisturbed, recon.pc \in {"plan", "reduce"}
               PROVE  Held(Book)' <= recon.bybit
    BY <1>2 DEF HeldAsSaid, Undisturbed
  <2>1. PICK b : b = Book OBVIOUS
  <2>2. b \in Books BY <2>1, BookType DEF Undisturbed
  <2>3. Held(Book)' = Held(b)' BY <1>2, <2>1 DEF Book, Held
  <2>9. PICK m : m = Held(b)' OBVIOUS
  <2>4. PICK said \in Nat, n \in Nat : said = recon.bybit /\ n = Held(b)
    BY <2>2, HeldType DEF Undisturbed, Working, ReconInv
  <2>5. m <= n BY <1>1, <2>2, <2>4, <2>9
  <2>6. n <= said BY <2>1, <2>4 DEF ReconInv, HeldAsSaid
  <2>7. m \in Int
    <3>1. net' \in [Symbols -> Int] /\ b[1] \in Symbols BY <1>1, <2>2 DEF PositionTypes, Books
    <3>2. Held(b)' \in Int BY <3>1 DEF Held, Positive, Sign
    <3> QED BY <2>9, <3>2
  <2>8. m <= said BY <2>4, <2>5, <2>6, <2>7
  <2> QED BY <2>3, <2>4, <2>8, <2>9
<1>5. OpenRows(Book)' = OpenRows(Book) BY <1>1, <1>2 DEF OpenRows, Book
<1>6. LocalQty(Book)' = LocalQty(Book) BY <1>1, <1>5 DEF LocalQty, Sum
<1>7. PlanIsCurrent' BY <1>1, <1>2, <1>5 DEF ReconInv, PlanIsCurrent, Undisturbed
<1>8. EnoughOpen' BY <1>2, <1>6 DEF ReconInv, EnoughOpen, Undisturbed
<1> QED BY <1>1, <1>3, <1>4, <1>7, <1>8 DEF ReconInv

LEMMA ReconStepKeepsInv ==
  ASSUME ReconInv, [ReconNext]_<<reconVars, positionVars>>
  PROVE  ReconInv'
<1>1. CASE Reduced
  <2>1. PositionTypes' /\ trades' = trades
    BY <1>1 DEF Reduced, ReconInv, PositionTypes, positionVars
  <2>2. recon \in Working BY <1>1, WorkingWhen DEF Reduced, ReconInv
  <2>3. recon' \in Working /\ recon'.pc = "record" /\ recon'.plan = recon.plan
    BY <1>1, <2>2 DEF Reduced, Working
  <2> QED BY <2>1, <2>2, <2>3, NothingPromised DEF ReconInv, ReconTypes
<1>2. CASE RecordEvent
  <2>1. PositionTypes' BY <1>2 DEF RecordEvent, ReconInv, PositionTypes
  <2>2. recon \in Working /\ recon' = NextBook
    BY <1>2, WorkingWhen DEF RecordEvent, ReconInv
  <2> QED BY <2>1, <2>2, NextBookType, NothingPromised
<1>3. CASE CrashExecutor
  <2>1. PositionTypes' BY <1>3 DEF CrashExecutor, ReconInv, PositionTypes
  <2> QED BY <1>3, <2>1, NothingPromised DEF CrashExecutor
<1>4. CASE UNCHANGED <<reconVars, positionVars>>
  BY <1>4 DEF reconVars, positionVars, ReconInv, PositionTypes, ReconTypes, Undisturbed, Book,
              HeldAsSaid, PlanIsCurrent, EnoughOpen, Held, LocalQty, OpenRows, Sum
<1>5. CASE ReduceRow BY <1>5, ReduceRowStep
<1>6. CASE TickHangs
  <2>1. PositionTypes' BY <1>6 DEF TickHangs, ReconInv, PositionTypes, positionVars
  <2> QED BY <1>6, <2>1, NothingPromised DEF TickHangs
<1> QED
  BY <1>1, <1>2, <1>3, <1>4, <1>5, <1>6, StartTickStep, ReadLocalStep, ReadExchangeStep,
     PlanReductionStep, HandlerMovesStep, ExchangeMovesStep DEF ReconNext, ReconStep

\* ReductionIsConservative: with any symbols and sizes, any number of orders and
\* of closes by the exchange, no row that a reduction of the executor closes or
\* cuts (apply_reconciliation_reduce_local) leaves less open locally than the
\* exchange holds, unless the handler has moved since the exchange was asked.
THEOREM ReductionsAreConservative == ReconSpec => ReductionIsConservative
<1> DEFINE Change == \A b \in Books :
              /\ recon.pc = "reduce" /\ b = Book
              /\ trades' # trades /\ ~recon'.moved
              => LocalQty(b)' >= Held(b)
<1>1. PositionsInit /\ ReconInit => ReconInv BY ReconStarts
<1>2. ReconInv /\ [ReconNext]_<<reconVars, positionVars>> => ReconInv' BY ReconStepKeepsInv
<1>3. ReconInv /\ [ReconNext]_<<reconVars, positionVars>> => [Change]_<<reconVars, positionVars>>
  <2> SUFFICES ASSUME ReconInv, ReconNext, NEW b \in Books,
                      recon.pc = "reduce", b = Book, trades' # trades, ~recon'.moved
               PROVE  LocalQty(b)' >= Held(b)
    OBVIOUS
  <2>1. recon \in Working BY WorkingWhen DEF ReconInv
  <2>2. CASE ReduceRow
    <3>1. ~recon.moved
      <4>1. PICK row : row = Newest(recon.plan) OBVIOUS
      <4>2. \/ recon' = [recon EXCEPT !.plan = @ \ {row}, !.reduce = LeftToReduce(row)]
            \/ recon' = [recon EXCEPT !.plan = {}]
        BY <2>2, <4>1 DEF ReduceRow
      <4>3. recon'.moved = recon.moved BY <2>1, <4>2 DEF Working
      <4> QED BY <4>3
    <3>2. Undisturbed BY <2>1, <3>1 DEF Undisturbed
    <3> QED BY <2>2, <3>2, ReduceRowStep
  <2>3. CASE HandlerMoves
    <3>1. recon \notin {Resting, Dead, Hung} BY <2>1 DEF Working, Resting, Dead, Hung
    <3>2. recon' = [recon EXCEPT !.moved = TRUE] BY <2>3, <3>1 DEF HandlerMoves
    <3> QED BY <2>1, <3>2 DEF Working
  <2>4. CASE ~ReduceRow /\ ~HandlerMoves
    BY <2>4, ExchangeShrinks DEF ReconNext, ReconStep, StartTick, ReadLocal, ReadExchange,
       PlanReduction, Reduced, RecordEvent, TickHangs, CrashExecutor, ExchangeMoves, ReconInv,
       positionVars
  <2> QED BY <2>2, <2>3, <2>4
<1> QED BY <1>1, <1>2, <1>3, PTL DEF ReconSpec, ReductionIsConservative

(***************************************************************************)
(* The monitor.  What a cycle has read is what is there as long as nothing *)
(* moves; an alert of the last Cooldown is at least as old as the time     *)
(* since one of its symbol and severity was sent.                          *)
(***************************************************************************)
Cycling == [pc : {"local", "exchange", "snapshot", "event", "alert"}, todo : Seq(Symbols) \ {<<>>},
            local : Nat, bybit : Nat, live : BOOLEAN, moved : BOOLEAN]

MonitorTypes == /\ PositionTypes /\ mon \in {Waiting, Hung} \union Cycling
                /\ snapshot \in [Symbols -> Nat]
                /\ since \in [Symbols -> [Severities -> 0 .. Cooldown]]

LocalAsRead == mon \in Cycling /\ ~mon.moved /\ mon.pc # "local" =>
                 mon.local = LocalNotional(Symbol)
ExchangeAsRead == /\ mon \in Cycling /\ ~mon.moved /\ mon.live
                  /\ mon.pc \in {"snapshot", "event", "alert"}
                  => mon.bybit = ExchangeNotional(Symbol)

AlertsAreRecent ==
  \A a \in alerts :
    /\ a = [symbol |-> a.symbol, severity |-> a.severity, age |-> a.age, n |-> a.n]
    /\ a.symbol \in Symbols /\ a.severity \in Severities /\ a.age \in 0 .. Cooldown - 1
    /\ since[a.symbol][a.severity] <= a.age

MonitorInv == /\ MonitorTypes /\ LocalAsRead /\ ExchangeAsRead
              /\ AlertsAreRecent /\ OneAlertPerCooldown

LEMMA NotionalType ==
  ASSUME PositionTypes, NEW s \in Symbols
  PROVE  LocalNotional(s) \in Nat /\ ExchangeNotional(s) \in Nat
<1>1. LocalNotional(s) \in Nat BY SumType DEF LocalNotional
<1>2. net[s] \in Int BY DEF PositionTypes
<1>3. Distance(net[s], 0) \in Nat BY <1>2 DEF Distance
<1> QED BY <1>1, <1>3 DEF ExchangeNotional

LEMMA SymbolType ==
  ASSUME mon \in Cycling
  PROVE  Symbol \in Symbols
<1>1. mon.todo \in Seq(Symbols) /\ mon.todo # <<>> BY DEF Cycling
<1> QED BY <1>1, HeadTailProperties DEF Symbol

LEMMA SeverityType ==
  ASSUME mon \in Cycling
  PROVE  Severity \in Severities
<1>1. PICK d \in Nat : d = Distance(mon.local, mon.bybit)
  <2>1. mon.local \in Nat /\ mon.bybit \in Nat BY DEF Cycling
  <2> QED BY <2>1 DEF Distance
<1>2. Threshold \in Nat BY MonitorAssumption DEF MonitorAssumption
<1>3. ClassifySeverity(d) \in Severities BY <1>1, <1>2 DEF ClassifySeverity, Severities
<1> QED BY <1>1, <1>3 DEF Severity

LEMMA NextSymbolType ==
  ASSUME mon \in Cycling
  PROVE  NextSymbol = Waiting \/ (NextSymbol \in Cycling /\ NextSymbol.pc = "local")
<1>1. PICK q : q = mon.todo OBVIOUS
<1>2. q \in Seq(Symbols) /\ q # <<>> BY <1>1 DEF Cycling
<1>3. CASE Len(q) = 1 BY <1>1, <1>3 DEF NextSymbol
<1>4. CASE Len(q) # 1
  <2>1. PICK r : r = Tail(q) OBVIOUS
  <2>2. r \in Seq(Symbols) /\ Len(r) # 0
    <3>1. Len(q) \in Nat /\ Len(q) # 0 /\ Tail(q) \in Seq(Symbols) /\ Len(Tail(q)) = Len(q) - 1
      BY <1>2, HeadTailProperties
    <3> QED BY <1>4, <2>1, <3>1
  <2>3. r # <<>> BY <2>2, EmptySeq
  <2>4. Cycle("local", r) \in Cycling BY <2>2, <2>3 DEF Cycle, Cycling
  <2> QED BY <1>1, <1>4, <2>1, <2>4 DEF NextSymbol, Cycle
<1> QED BY <1>3, <1>4

Remembered == snapshot \in [Symbols -> Nat] /\ since \in [Symbols -> [Severities -> 0 .. Cooldown]]
Told == AlertsAreRecent /\ OneAlertPerCooldown

\* A monitor that has read nothing of a symbol, or was disturbed.
LEMMA NothingRead ==
  ASSUME PositionTypes', Remembered', Told',
         \/ mon' \in {Waiting, Hung}
         \/ mon' \in Cycling /\ (mon'.moved \/ mon'.pc = "local")
  PROVE  MonitorInv'
<1>1. {Waiting, Hung} \cap Cycling = {} BY DEF Waiting, Hung, Cycling
<1> QED BY <1>1 DEF MonitorInv, MonitorTypes, LocalAsRead, ExchangeAsRead, Remembered, Told

LEMMA CyclingWhen ==
  ASSUME MonitorTypes, mon.pc \notin {"wait", "hung"}
  PROVE  mon \in Cycling
BY DEF MonitorTypes, Waiting, Hung

LEMMA MonitorStarts ==
  PositionsInit /\ MonitorInit => MonitorInv
<1> SUFFICES ASSUME PositionsInit, MonitorInit PROVE MonitorInv OBVIOUS
<1>1. PositionTypes BY DEF PositionsInit, PositionTypes
<1>2. Waiting \notin Cycling BY DEF Waiting, Cycling
<1>3. Cooldown \in 0 .. Cooldown BY MonitorAssumption DEF MonitorAssumption
<1> QED BY <1>1, <1>2, <1>3 DEF MonitorInit, MonitorInv, MonitorTypes, LocalAsRead,
                               ExchangeAsRead, AlertsAreRecent, OneAlertPerCooldown

LEMMA StartCycleStep ==
  ASSUME MonitorInv, StartCycle
  PROVE  MonitorInv'
<1>1. PositionTypes' /\ Remembered' /\ Told'
  BY DEF StartCycle, MonitorInv, MonitorTypes, PositionTypes, positionVars, Remembered, Told,
         AlertsAreRecent, OneAlertPerCooldown
<1>2. IsFiniteSet(Symbols) BY PositionsAssumption DEF PositionsAssumption
<1>3. PICK q : q = SetToSeq(Symbols) OBVIOUS
<1>4. q \in Seq(Symbols) \ {<<>>} BY <1>2, <1>3, SetToSeqFacts DEF StartCycle
<1>5. mon' \in Cycling /\ mon'.pc = "local"
  BY <1>3, <1>4 DEF StartCycle, Cycle, Cycling
<1> QED BY <1>1, <1>5, NothingRead

LEMMA FetchLocalStep ==
  ASSUME MonitorInv, FetchLocalNotional
  PROVE  MonitorInv'
<1>1. PositionTypes' /\ Remembered' /\ Told'
  BY DEF FetchLocalNotional, MonitorInv, MonitorTypes, PositionTypes, Remembered, Told,
         AlertsAreRecent, OneAlertPerCooldown
<1>2. mon \in Cycling BY CyclingWhen DEF FetchLocalNotional, MonitorInv
<1>3. PICK n \in Nat : n = LocalNotional(Symbol)
  BY <1>2, SymbolType, NotionalType DEF MonitorInv, MonitorTypes
<1>4. CASE mon' = NextSymbol BY <1>1, <1>2, <1>4, NextSymbolType, NothingRead
<1>5. CASE mon' = [mon EXCEPT !.pc = "exchange", !.local = n]
  <2>1. mon' \in Cycling /\ mon'.pc = "exchange" /\ mon'.local = n /\ mon'.todo = mon.todo
    BY <1>2, <1>5 DEF Cycling
  <2>2. Symbol' = Symbol BY <2>1 DEF Symbol
  <2>3. LocalNotional(Symbol)' = n
    BY <1>3, <2>2 DEF FetchLocalNotional, LocalNotional, OpenRows, Sum
  <2> QED BY <1>1, <2>1, <2>3 DEF MonitorInv, MonitorTypes, LocalAsRead, ExchangeAsRead,
                                 Remembered, Told
<1> QED BY <1>3, <1>4, <1>5 DEF FetchLocalNotional

\* The symbol's notional when nothing of the positions changes.
LEMMA NotionalsStay ==
  ASSUME UNCHANGED <<simulated, trades, net>>, mon'.todo = mon.todo
  PROVE  /\ LocalNotional(Symbol)' = LocalNotional(Symbol)
         /\ ExchangeNotional(Symbol)' = ExchangeNotional(Symbol)
BY DEF Symbol, LocalNotional, ExchangeNotional, OpenRows, Sum

LEMMA ResolveBybitStep ==
  ASSUME MonitorInv, ResolveBybitNotional
  PROVE  MonitorInv'
<1>1. PositionTypes' /\ Remembered' /\ Told'
  BY DEF ResolveBybitNotional, MonitorInv, MonitorTypes, PositionTypes, Remembered, Told,
         AlertsAreRecent, OneAlertPerCooldown
<1>2. mon \in Cycling BY CyclingWhen DEF ResolveBybitNotional, MonitorInv
<1>3. Symbol \in Symbols BY <1>2, SymbolType
<1>4. PICK n \in Nat : n = ExchangeNotional(Symbol)
  BY <1>3, NotionalType DEF MonitorInv, MonitorTypes
<1>5. PICK old \in Nat : old = snapshot[Symbol] BY <1>3 DEF MonitorInv, MonitorTypes
<1>6. CASE mon' = NextSymbol BY <1>1, <1>2, <1>6, NextSymbolType, NothingRead
<1>7. ASSUME NEW m \in Nat, NEW live \in BOOLEAN, live => m = n,
             mon' = [mon EXCEPT !.pc = "snapshot", !.bybit = m, !.live = live]
      PROVE  MonitorInv'
  <2>1. /\ mon' \in Cycling /\ mon'.pc = "snapshot" /\ mon'.bybit = m /\ mon'.live = live
        /\ mon'.todo = mon.todo /\ mon'.moved = mon.moved /\ mon'.local = mon.local
    BY <1>2, <1>7 DEF Cycling
  <2>2. /\ LocalNotional(Symbol)' = LocalNotional(Symbol)
        /\ ExchangeNotional(Symbol)' = ExchangeNotional(Symbol)
    BY <2>1, NotionalsStay DEF ResolveBybitNotional, config
  <2>3. mon.pc = "exchange" BY DEF ResolveBybitNotional
  <2>4. LocalAsRead' BY <1>2, <2>1, <2>2, <2>3 DEF LocalAsRead, MonitorInv
  <2>5. ExchangeAsRead' BY <1>4, <1>7, <2>1, <2>2 DEF ExchangeAsRead
  <2> QED BY <1>1, <2>1, <2>4, <2>5 DEF MonitorInv, MonitorTypes, Remembered, Told
<1>8. CASE mon' = [mon EXCEPT !.pc = "snapshot", !.bybit = n]
  <2>1. mon' = [mon EXCEPT !.pc = "snapshot", !.bybit = n, !.live = mon.live]
    BY <1>2, <1>8 DEF Cycling
  <2>2. mon.live \in BOOLEAN BY <1>2 DEF Cycling
  <2> QED BY <1>7, <2>1, <2>2
<1>9. CASE mon' = [mon EXCEPT !.pc = "snapshot", !.bybit = old, !.live = FALSE]
  BY <1>7, <1>9
<1> QED BY <1>4, <1>5, <1>6, <1>8, <1>9 DEF ResolveBybitNotional

\* The two INSERTs change what the cycle has read neither way.
LEMMA CycleGoesOn ==
  ASSUME MonitorInv, UNCHANGED <<simulated, trades, net>>, mon \in Cycling,
         mon.pc \in {"snapshot", "event"}, NEW pc \in {"event", "alert"},
         mon' = [mon EXCEPT !.pc = pc], PositionTypes', Remembered', Told'
  PROVE  MonitorInv'
<1>1. /\ mon' \in Cycling /\ mon'.pc = pc /\ mon'.bybit = mon.bybit /\ mon'.live = mon.live
      /\ mon'.todo = mon.todo /\ mon'.moved = mon.moved /\ mon'.local = mon.local
  BY DEF Cycling
<1>2. /\ LocalNotional(Symbol)' = LocalNotional(Symbol)
      /\ ExchangeNotional(Symbol)' = ExchangeNotional(Symbol)
  BY <1>1, NotionalsStay
<1>3. LocalAsRead' BY <1>1, <1>2 DEF LocalAsRead, MonitorInv
<1>4. ExchangeAsRead' BY <1>1, <1>2 DEF ExchangeAsRead, MonitorInv
<1> QED BY <1>1, <1>3, <1>4 DEF MonitorInv, MonitorTypes, Remembered, Told

LEMMA PersistSnapshotStep ==
  ASSUME MonitorInv, PersistSnapshot
  PROVE  MonitorInv'
<1>1. PositionTypes' /\ Told'
  BY DEF PersistSnapshot, MonitorInv, MonitorTypes, PositionTypes, Told,
         AlertsAreRecent, OneAlertPerCooldown
<1>2. mon \in Cycling BY CyclingWhen DEF PersistSnapshot, MonitorInv
<1>3. Remembered'
  <2>1. PICK s, n : s = Symbol /\ n = mon.bybit OBVIOUS
  <2>2. s \in Symbols /\ n \in Nat BY <1>2, <2>1, SymbolType DEF Cycling
  <2>3. snapshot' = [snapshot EXCEPT ![s] = n] \/ snapshot' = snapshot
    BY <2>1 DEF PersistSnapshot
  <2> QED BY <2>2, <2>3 DEF PersistSnapshot, MonitorInv, MonitorTypes, Remembered
<1>4. CASE mon' = NextSymbol BY <1>1, <1>2, <1>3, <1>4, NextSymbolType, NothingRead
<1>5. CASE mon' = [mon EXCEPT !.pc = "event"]
  BY <1>1, <1>2, <1>3, <1>5, CycleGoesOn DEF PersistSnapshot, config
<1> QED BY <1>4, <1>5 DEF PersistSnapshot

LEMMA PersistEventStep ==
  ASSUME MonitorInv, PersistEvent
  PROVE  MonitorInv'
<1>1. PositionTypes' /\ Remembered' /\ Told'
  BY DEF PersistEvent, MonitorInv, MonitorTypes, PositionTypes, Remembered, Told,
         AlertsAreRecent, OneAlertPerCooldown
<1>2. mon \in Cycling BY CyclingWhen DEF PersistEvent, MonitorInv
<1>3. CASE mon' = NextSymbol BY <1>1, <1>2, <1>3, NextSymbolType, NothingRead
<1>4. CASE mon' = [mon EXCEPT !.pc = "alert"]
  BY <1>1, <1>2, <1>4, CycleGoesOn DEF PersistEvent, config
<1> QED BY <1>3, <1>4 DEF PersistEvent

LEMMA PublishAlertStep ==
  ASSUME MonitorInv, MaybePublishDiscordAlert
  PROVE  MonitorInv'
<1>1. PositionTypes' /\ snapshot' \in [Symbols -> Nat]
  BY DEF MaybePublishDiscordAlert, MonitorInv, MonitorTypes, PositionTypes
<1>2. mon \in Cycling /\ mon' = NextSymbol
  BY CyclingWhen DEF MaybePublishDiscordAlert, MonitorInv
<1>3. PICK s \in Symbols, v \in Severities : s = Symbol /\ v = Severity
  BY <1>2, SymbolType, SeverityType
<1>4. Cooldown \in Nat \ {0} BY MonitorAssumption DEF MonitorAssumption
<1>5. since \in [Symbols -> [Severities -> 0 .. Cooldown]] BY DEF MonitorInv, MonitorTypes
<1>6. CASE UNCHANGED <<since, alerts>>
  <2>1. Remembered' /\ Told'
    BY <1>1, <1>5, <1>6 DEF MonitorInv, Remembered, Told, AlertsAreRecent, OneAlertPerCooldown
  <2> QED BY <1>1, <1>2, <2>1, NextSymbolType, NothingRead
<1>7. ASSUME NEW n, NEW new, new = [symbol |-> s, severity |-> v, age |-> 0, n |-> n],
             since[s][v] >= Cooldown, since' = [since EXCEPT ![s][v] = 0],
             alerts' = alerts \union {new}
      PROVE  MonitorInv'
  <2>1. since' \in [Symbols -> [Severities -> 0 .. Cooldown]] BY <1>4, <1>5, <1>7
  <2>2. \A t \in Symbols, u \in Severities :
          since'[t][u] = IF t = s /\ u = v THEN 0 ELSE since[t][u]
    BY <1>5, <1>7
  <2>3. \A t \in Symbols, u \in Severities : since[t][u] \in Nat BY <1>5
  <2>4. /\ new.symbol = s /\ new.severity = v /\ new.age = 0 /\ new.n = n
        /\ new = [symbol |-> new.symbol, severity |-> new.severity, age |-> new.age, n |-> new.n]
    BY <1>7
  <2>5. \A a \in alerts : ~(a.symbol = s /\ a.severity = v)
    <3> SUFFICES ASSUME NEW a \in alerts, a.symbol = s, a.severity = v PROVE FALSE OBVIOUS
    <3>1. since[a.symbol][a.severity] <= a.age /\ a.age \in 0 .. Cooldown - 1
      BY DEF MonitorInv, AlertsAreRecent
    <3>2. PICK k \in Nat : k = since[s][v] BY <2>3
    <3>3. k <= a.age /\ k >= Cooldown BY <1>7, <3>1, <3>2
    <3> QED BY <1>4, <3>1, <3>3
  <2>6. AlertsAreRecent'
    <3> SUFFICES ASSUME NEW a \in alerts \union {new}
                 PROVE  /\ a = [symbol |-> a.symbol, severity |-> a.severity, age |-> a.age,
                                n |-> a.n]
                        /\ a.symbol \in Symbols /\ a.severity \in Severities
                        /\ a.age \in 0 .. Cooldown - 1
                        /\ since'[a.symbol][a.severity] <= a.age
      BY <1>7 DEF AlertsAreRecent
    <3>1. CASE a = new
      <4>1. since'[s][v] = 0 BY <2>2
      <4> QED BY <1>4, <2>4, <3>1, <4>1
    <3>2. CASE a \in alerts
      <4>1. /\ a = [symbol |-> a.symbol, severity |-> a.severity, age |-> a.age, n |-> a.n]
            /\ a.symbol \in Symbols /\ a.severity \in Severities /\ a.age \in 0 .. Cooldown - 1
            /\ since[a.symbol][a.severity] <= a.age
        BY <3>2 DEF MonitorInv, AlertsAreRecent
      <4>2. since'[a.symbol][a.severity] = since[a.symbol][a.severity] BY <2>2, <2>5, <3>2, <4>1
      <4> QED BY <4>1, <4>2
    <3> QED BY <3>1, <3>2
  <2>7. OneAlertPerCooldown' BY <1>7, <2>4, <2>5 DEF MonitorInv, OneAlertPerCooldown
  <2>8. Remembered' /\ Told' BY <1>1, <2>1, <2>6, <2>7 DEF Remembered, Told
  <2> QED BY <1>1, <1>2, <2>8, NextSymbolType, NothingRead
<1>8. \/ UNCHANGED <<since, alerts>>
      \/ /\ since[s][v] >= Cooldown /\ since' = [since EXCEPT ![s][v] = 0]
         /\ alerts' = alerts \union
              {[symbol |-> s, severity |-> v, age |-> 0, n |-> Cardinality(alerts)]}
  BY <1>3 DEF MaybePublishDiscordAlert, ShouldEmitAlert
<1> QED BY <1>6, <1>7, <1>8

LEMMA TickStep ==
  ASSUME MonitorInv, Tick
  PROVE  MonitorInv'
<1>1. Cooldown \in Nat \ {0} BY MonitorAssumption DEF MonitorAssumption
<1>2. since \in [Symbols -> [Severities -> 0 .. Cooldown]] BY DEF MonitorInv, MonitorTypes
<1>3. \A s \in Symbols, v \in Severities :
        since'[s][v] = LowerOf(since[s][v] + 1, Cooldown) /\ since[s][v] \in 0 .. Cooldown
  BY <1>2 DEF Tick
<1>4. \A s \in Symbols, v \in Severities :
        since'[s][v] \in 0 .. Cooldown /\ since'[s][v] <= since[s][v] + 1
  BY <1>1, <1>3 DEF LowerOf
<1>5. since' \in [Symbols -> [Severities -> 0 .. Cooldown]]
  <2>1. since' = [s \in Symbols |-> [v \in Severities |-> since'[s][v]]] BY <1>3 DEF Tick
  <2> QED BY <1>4, <2>1
<1>6. ASSUME NEW b \in alerts'
      PROVE  \E a \in alerts : /\ a.age + 1 < Cooldown /\ b = [a EXCEPT !.age = a.age + 1]
                               /\ b.symbol = a.symbol /\ b.severity = a.severity
                               /\ b.age = a.age + 1 /\ b.n = a.n
                               /\ b = [symbol |-> b.symbol, severity |-> b.severity,
                                       age |-> b.age, n |-> b.n]
  <2>1. PICK a \in alerts : a.age + 1 < Cooldown /\ b = [a EXCEPT !.age = a.age + 1]
    BY <1>6 DEF Tick
  <2>2. a = [symbol |-> a.symbol, severity |-> a.severity, age |-> a.age, n |-> a.n]
    BY DEF MonitorInv, AlertsAreRecent
  <2>3. b = [symbol |-> a.symbol, severity |-> a.severity, age |-> a.age + 1, n |-> a.n]
    BY <2>1, <2>2
  <2> QED BY <2>1, <2>3
<1>7. AlertsAreRecent'
  <2> SUFFICES ASSUME NEW b \in alerts'
               PROVE  /\ b = [symbol |-> b.symbol, severity |-> b.severity, age |-> b.age,
                              n |-> b.n]
                      /\ b.symbol \in Symbols /\ b.severity \in Severities
                      /\ b.age \in 0 .. Cooldown - 1
                      /\ since'[b.symbol][b.severity] <= b.age
    BY DEF AlertsAreRecent
  <2>1. PICK a \in alerts : /\ a.age + 1 < Cooldown
                            /\ b.symbol = a.symbol /\ b.severity = a.severity
                            /\ b.age = a.age + 1
                            /\ b = [symbol |-> b.symbol, severity |-> b.severity,
                                    age |-> b.age, n |-> b.n]
    BY <1>6
  <2>2. /\ a.symbol \in Symbols /\ a.severity \in Severities /\ a.age \in 0 .. Cooldown - 1
        /\ since[a.symbol][a.severity] <= a.age
    BY DEF MonitorInv, AlertsAreRecent
  <2>3. PICK k, l : k = since[a.symbol][a.severity] /\ l = since'[a.symbol][a.severity] OBVIOUS
  <2>4. k \in Nat /\ l \in Nat /\ l <= k + 1 BY <1>3, <1>4, <2>2, <2>3
  <2>5. l <= a.age + 1 BY <2>2, <2>3, <2>4
  <2> QED BY <1>1, <2>1, <2>2, <2>3, <2>5
<1>8. OneAlertPerCooldown'
  <2> SUFFICES ASSUME NEW b \in alerts', NEW c \in alerts',
                      b.symbol = c.symbol, b.severity = c.severity
               PROVE  b = c
    BY DEF OneAlertPerCooldown
  <2>1. PICK a \in alerts : /\ b = [a EXCEPT !.age = a.age + 1]
                            /\ b.symbol = a.symbol /\ b.severity = a.severity
    BY <1>6
  <2>2. PICK d \in alerts : /\ c = [d EXCEPT !.age = d.age + 1]
                            /\ c.symbol = d.symbol /\ c.severity = d.severity
    BY <1>6
  <2>3. a = d BY <2>1, <2>2 DEF MonitorInv, OneAlertPerCooldown
  <2> QED BY <2>1, <2>2, <2>3
<1>9. /\ PositionTypes' /\ snapshot' \in [Symbols -> Nat] /\ mon' = mon
      /\ UNCHANGED <<simulated, trades, net>>
  BY DEF Tick, MonitorInv, MonitorTypes, PositionTypes, positionVars, config
<1>10. /\ LocalNotional(Symbol)' = LocalNotional(Symbol)
       /\ ExchangeNotional(Symbol)' = ExchangeNotional(Symbol)
  BY <1>9, NotionalsStay
<1>11. LocalAsRead' /\ ExchangeAsRead'
  BY <1>9, <1>10 DEF MonitorInv, LocalAsRead, ExchangeAsRead
<1>12. mon' \in {Waiting, Hung} \union Cycling BY <1>9 DEF MonitorInv, MonitorTypes
<1> QED BY <1>5, <1>7, <1>8, <1>9, <1>11, <1>12 DEF MonitorInv, MonitorTypes

LEMMA RestartStep ==
  ASSUME MonitorInv, RestartMonitor
  PROVE  MonitorInv'
<1>1. PositionTypes' /\ snapshot' \in [Symbols -> Nat] /\ mon' = Waiting /\ alerts' = {}
  BY DEF RestartMonitor, MonitorInv, MonitorTypes, PositionTypes
<1>2. since' \in [Symbols -> [Severities -> 0 .. Cooldown]]
  BY MonitorAssumption DEF RestartMonitor, MonitorAssumption
<1>3. Remembered' /\ Told'
  BY <1>1, <1>2 DEF Remembered, Told, AlertsAreRecent, OneAlertPerCooldown
<1> QED BY <1>1, <1>3, NothingRead

LEMMA PositionsMoveStep ==
  ASSUME MonitorInv, PositionsMove
  PROVE  MonitorInv'
<1>1. PositionTypes'
  BY HandlerKeepsTypes, ExchangeShrinks DEF PositionsMove, MonitorInv, MonitorTypes
<1>2. Remembered' /\ Told'
  BY DEF PositionsMove, MonitorInv, MonitorTypes, Remembered, Told, AlertsAreRecent,
         OneAlertPerCooldown
<1>3. CASE mon \in {Waiting, Hung} BY <1>1, <1>2, <1>3, NothingRead DEF PositionsMove
<1>4. CASE mon \notin {Waiting, Hung}
  <2>1. mon \in Cycling BY <1>4 DEF MonitorInv, MonitorTypes
  <2>2. mon' = [mon EXCEPT !.moved = TRUE] BY <1>4 DEF PositionsMove
  <2>3. mon' \in Cycling /\ mon'.moved BY <2>1, <2>2 DEF Cycling
  <2> QED BY <1>1, <1>2, <2>3, NothingRead
<1> QED BY <1>3, <1>4

LEMMA CycleHangsStep ==
  ASSUME MonitorInv, CycleHangs
  PROVE  MonitorInv'
<1>1. PositionTypes' /\ Remembered' /\ Told'
  BY DEF CycleHangs, MonitorInv, MonitorTypes, PositionTypes, positionVars, Remembered, Told,
         AlertsAreRecent, OneAlertPerCooldown
<1> QED BY <1>1, NothingRead DEF CycleHangs

LEMMA MonitorStepKeepsInv ==
  ASSUME MonitorInv, [MonitorNext]_<<monitorVars, positionVars>>
  PROVE  MonitorInv'
<1>1. CASE UNCHANGED <<monitorVars, positionVars>>
  BY <1>1 DEF monitorVars, config, positionVars, MonitorInv, MonitorTypes, PositionTypes, LocalAsRead,
              ExchangeAsRead, AlertsAreRecent, OneAlertPerCooldown, Symbol, LocalNotional,
              ExchangeNotional, OpenRows, Sum
<1> QED
  BY <1>1, StartCycleStep, FetchLocalStep, ResolveBybitStep, PersistSnapshotStep,
     PersistEventStep, PublishAlertStep, TickStep, CycleHangsStep, RestartStep,
     PositionsMoveStep
     DEF MonitorNext, MonitorStep

\* The drift counted row by row is the one between the two notionals.
LEMMA ActualSeverity ==
  ASSUME PositionTypes, NEW s \in Symbols
  PROVE  Actual(s) = ClassifySeverity(Distance(LocalNotional(s), ExchangeNotional(s)))
<1>1. PICK rows : rows = {i \in DOMAIN trades : trades[i].open /\ trades[i].book[1] = s} OBVIOUS
<1>2. rows = OpenRows(<<s, "Long">>) \union OpenRows(<<s, "Short">>)
  <2>1. ASSUME NEW i \in DOMAIN trades
        PROVE  trades[i].book[1] = s <=> trades[i].book \in {<<s, "Long">>, <<s, "Short">>}
    <3>1. trades[i] \in Row BY DEF PositionTypes
    <3>2. trades[i].book \in Symbols \X {"Long", "Short"} BY <3>1 DEF Row, Books, Sides
    <3> QED BY <3>2
  <2> QED BY <1>1, <2>1 DEF OpenRows
<1>3. PICK n \in Nat : n = LocalNotional(s) BY NotionalType
<1>4. Sum(rows) = n BY <1>2, <1>3 DEF LocalNotional
<1>5. CASE simulated
  <2>1. Distance(n, ExchangeNotional(s)) = 0 BY <1>3, <1>5 DEF ExchangeNotional, Distance
  <2> QED BY <1>3, <1>5, <2>1 DEF Actual
<1>6. CASE ~simulated BY <1>1, <1>3, <1>4, <1>6 DEF Actual, ExchangeNotional
<1> QED BY <1>5, <1>6

LEMMA MonitorInvHolds == MonitorSpec => []MonitorInv
BY MonitorStarts, MonitorStepKeepsInv, PTL DEF MonitorSpec

\* OneAlertPerCooldown: for any symbols and any cooldown, whichever requests fail
\* and however often the drift comes and goes, no symbol is alerted about twice
\* with the same severity within the cooldown (should_emit_alert).
THEOREM AlertsAreNotRepeated == MonitorSpec => []OneAlertPerCooldown
<1>1. MonitorInv => OneAlertPerCooldown BY DEF MonitorInv
<1> QED BY <1>1, MonitorInvHolds, PTL

\* AlertIsTrue: the severity about to be alerted is that of the drift there is
\* (run_reconciliation_cycle), wherever in the cycle the executor, the exchange
\* or a restart came in between, unless the positions have moved meanwhile or
\* the exchange did not answer.
THEOREM AlertsAreTrue == MonitorSpec => []AlertIsTrue
<1>1. MonitorInv => AlertIsTrue
  <2> SUFFICES ASSUME MonitorInv, mon.pc = "alert", ~mon.moved, mon.live
               PROVE  Severity = Actual(Symbol)
    BY DEF AlertIsTrue
  <2>1. mon \in Cycling BY CyclingWhen DEF MonitorInv
  <2>2. mon.local = LocalNotional(Symbol) /\ mon.bybit = ExchangeNotional(Symbol)
    BY <2>1 DEF MonitorInv, LocalAsRead, ExchangeAsRead
  <2>3. Symbol \in Symbols BY <2>1, SymbolType
  <2>4. Actual(Symbol) = ClassifySeverity(Distance(LocalNotional(Symbol), ExchangeNotional(Symbol)))
    BY <2>3, ActualSeverity DEF MonitorInv, MonitorTypes
  <2> QED BY <2>2, <2>4 DEF Severity
<1> QED BY <1>1, MonitorInvHolds, PTL
==============================================================================
