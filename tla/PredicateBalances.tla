-------------------------- MODULE PredicateBalances --------------------------
(***************************************************************************)
(* What the worker makes of the answers of the indexer, for one vault:     *)
(* groupByTransaction, makeDeposits and syncBalance                        *)
(* (packages/worker/src/queues/predicateBalance/utils).                    *)
(*                                                                         *)
(* An answer is a sequence of pages.  A page has inputs and outputs of     *)
(* transactions, mine if they are of the vault, and the ids of the         *)
(* transactions it finished, with those that failed.                       *)
(***************************************************************************)
EXTENDS Integers, Sequences, SequencesExt

CONSTANTS ETH,        \* the base asset, which messages bring
          OtherAsset

Assets == {ETH, OtherAsset}

\* f[1] + ... + f[n].
SumTo(f, n) ==
    LET sum[i \in 0..n] == IF i = 0 THEN 0 ELSE sum[i - 1] + f[i]
    IN  sum[n]

Amount(rows) == SumTo([i \in DOMAIN rows |-> rows[i].amount], Len(rows))

\* The rows of a sequence that are in S, in their order.
Kept(rows, S) ==
    LET kept[i \in 0..Len(rows)] ==
          IF i = 0 THEN <<>>
          ELSE IF rows[i] \in S THEN Append(kept[i - 1], rows[i]) ELSE kept[i - 1]
    IN  kept[Len(rows)]

Of(rows, tx) == Kept(rows, {row \in Range(rows) : row.tx = tx})

(***************************************************************************)
(* groupByTransaction: the rows of a transaction, from all pages, without  *)
(* those of a page that says that it failed, and of the pages before it.   *)
(***************************************************************************)
GroupByTransaction(pages, tx) ==
    LET grouped[k \in 0..Len(pages)] ==
          IF k = 0 \/ tx \in pages[k].failed THEN [inputs |-> <<>>, outputs |-> <<>>]
          ELSE [inputs |-> grouped[k - 1].inputs \o Of(pages[k].inputs, tx),
                outputs |-> grouped[k - 1].outputs \o Of(pages[k].outputs, tx)]
    IN  grouped[Len(pages)]

IsMessage(input) == input.kind = "message" /\ input.mine /\ input.asset = ETH
\* Mutant: a message is counted as received, and not as spent with the coins.
IsSpentCoin(input) == input.kind = "coin" /\ input.mine

IsSpent(input) == (input.kind = "coin" /\ input.mine) \/ IsMessage(input)
IsChange(output) == output.kind = "change" /\ output.mine
IsReceived(output) == output.kind \in {"coin", "variable"} /\ output.mine

SpentRows(inputs, asset) == Kept(inputs, {i \in Range(inputs) : IsSpent(i) /\ i.asset = asset})
ChangeRows(outputs, asset) == Kept(outputs, {o \in Range(outputs) : IsChange(o) /\ o.asset = asset})

\* What the vault spent of an asset; change of an asset it did not spend counts as nothing.
Spent(inputs, outputs, asset) ==
    LET change == ChangeRows(outputs, asset)
        left[i \in 0..Len(change)] ==
          IF i = 0 THEN Amount(SpentRows(inputs, asset))
          ELSE IF left[i - 1] = 0 THEN 0 ELSE left[i - 1] - change[i].amount
    IN  left[Len(change)]

Deposit(asset, amount, isDeposit) == [asset |-> asset, amount |-> amount, isDeposit |-> isDeposit]

Deposits(rows) == [i \in DOMAIN rows |-> Deposit(rows[i].asset, rows[i].amount, TRUE)]

Touched(inputs, outputs) ==
    {i.asset : i \in {i \in Range(inputs) : IsSpent(i)}}
      \cup {o.asset : o \in {o \in Range(outputs) : IsChange(o)}}

SpentDeposits(inputs, outputs) ==
    SetToSeq({Deposit(a, Spent(inputs, outputs, a), FALSE) : a \in Touched(inputs, outputs)})

MakeDeposits(inputs, outputs) ==
    Deposits(Kept(inputs, {i \in Range(inputs) : IsMessage(i)}))
      \o SpentDeposits(inputs, outputs)
      \o Deposits(Kept(outputs, {o \in Range(outputs) : IsReceived(o)}))

\* syncBalance: the signed amount of a row; "-" before a negative number makes no number.
FormatedAmount(deposit) == IF deposit.isDeposit THEN deposit.amount ELSE -deposit.amount

\* What the rows that are inserted say the vault has gained of an asset.
Gained(deposits, asset) ==
    SumTo([i \in DOMAIN deposits |-> IF deposits[i].asset = asset
                                       THEN FormatedAmount(deposits[i]) ELSE 0], Len(deposits))

Balance(pages, tx, asset) ==
    LET rows == GroupByTransaction(pages, tx)
    IN  Gained(MakeDeposits(rows.inputs, rows.outputs), asset)

-----------------------------------------------------------------------------
(***************************************************************************)
(* The transactions of the property: up to two inputs and two outputs.     *)
(***************************************************************************)
Inputs == [tx : {"t"}, kind : {"coin"}, mine : BOOLEAN, asset : Assets, amount : 1..2]
     \cup [tx : {"t"}, kind : {"message"}, mine : BOOLEAN, asset : {ETH}, amount : 1..2]

Outputs == [tx : {"t"}, kind : {"coin", "variable"}, mine : BOOLEAN, asset : Assets, amount : {1}]
      \cup [tx : {"t"}, kind : {"change"}, mine : BOOLEAN, asset : Assets, amount : 1..2]

Failed == [tx |-> "f", kind |-> "coin", mine |-> TRUE, asset |-> ETH, amount |-> 1]

AmountOf(rows, kinds, asset) ==
    Amount(Kept(rows, {r \in Range(rows) : r.mine /\ r.kind \in kinds /\ r.asset = asset}))

\* The vault gets no more change than it spent.
Ordinary(inputs, outputs) ==
    \A a \in Assets :
        AmountOf(outputs, {"change"}, a) <= AmountOf(inputs, {"coin", "message"}, a)

Page(inputs, outputs, failed) == [inputs |-> inputs, outputs |-> outputs, failed |-> failed]

\* The rows on one page, or the inputs of t and a failed transaction before its outputs.
Pagings(inputs, outputs) ==
    {<<Page(inputs, outputs, {})>>,
     <<Page(<<Failed>> \o inputs, <<>>, {"f"}), Page(<<>>, outputs, {})>>,
     <<Page(<<Failed>>, outputs, {}), Page(inputs, <<>>, {"f"})>>}

AddsUp(inputs, outputs) ==
    \A pages \in Pagings(inputs, outputs), a \in Assets :
      /\ Balance(pages, "t", a) = AmountOf(outputs, {"coin", "variable", "change"}, a)
                                    - AmountOf(inputs, {"coin"}, a)
      /\ Balance(pages, "f", a) = 0

\* The transactions whose amounts do not add up.
Miscounted ==
    {rows \in BoundedSeq(Inputs, 2) \X BoundedSeq(Outputs, 2) :
       Ordinary(rows[1], rows[2]) /\ ~AddsUp(rows[1], rows[2])}
=============================================================================
