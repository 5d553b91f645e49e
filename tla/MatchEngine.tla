----------------------------- MODULE MatchEngine -----------------------------
(***************************************************************************)
(* What a comparison says (comparison.service.ts): the SQL that matches    *)
(* the lines of an order, an invoice and the receipts of the order, item   *)
(* by item, and the flag each disagreement becomes.                        *)
(*                                                                         *)
(* A document is the sequence of its lines.  A SKU, a description or a     *)
(* unit stands for all spellings the code folds into one (trim, lower      *)
(* case); None is what a line leaves unstated.  Quantities and prices are  *)
(* integers here: sums and differences of the decimals stated are exact.   *)
(***************************************************************************)
EXTENDS Integers, Sequences, FiniteSets, FiniteSetsExt

CONSTANTS
  None,          \* what is not stated (an empty cell, NULL)
  Names,         \* [sku, description] of a line, either of which may be None
  Quantities,    \* quantities and accepted quantities that are stated
  Prices,        \* unit prices that are stated
  Units,         \* units of measure
  MaxLines       \* bound on the lines of the documents of a comparison together

ConstantsTyped ==
  /\ Quantities \cup Prices \subseteq Int /\ MaxLines \in Nat
  /\ None \notin Int \cup Units

VARIABLES
  po, inv,       \* lines of the order and of the invoice, as compare() has read them
  grn,           \* lines of all receipts that are done
  flags,         \* what it inserts
  pc

vars == <<po, inv, grn, flags, pc>>

Line == [name : Names, qty : Quantities \cup {None}, price : Prices \cup {None},
         uom : Units \cup {None}]

\* A receipt line has no price; its qty is the accepted quantity.
ReceiptLine == {l \in Line : l.price = None}

Init == po = <<>> /\ inv = <<>> /\ grn = <<>> /\ flags = {} /\ pc = "order"

ReadOrder ==
  /\ pc = "order" /\ pc' = "invoice"
  /\ \E n \in 1..MaxLines - 1 : po' \in [1..n -> Line]
  /\ UNCHANGED <<inv, grn, flags>>

\* Order and invoice must have lines.
ReadInvoice ==
  /\ pc = "invoice" /\ pc' = "receipts"
  /\ \E n \in 1..MaxLines - Len(po) : inv' \in [1..n -> Line]
  /\ UNCHANGED <<po, grn, flags>>

ReadReceipts ==
  /\ pc = "receipts" /\ pc' = "engine"
  /\ \E n \in 0..MaxLines - Len(po) - Len(inv) : grn' \in [1..n -> ReceiptLine]
  /\ UNCHANGED <<po, inv, flags>>

-----------------------------------------------------------------------------
(* Grouping: the CTEs po, inv and grn *)

\* SKU first, description otherwise; a line with neither is matched to nothing.
MatchKey(side, n, line) ==
  IF line.name.sku # None THEN <<"sku", line.name.sku>>
  ELSE IF line.name.description # None THEN <<"desc", line.name.description>>
  ELSE <<"unkeyed", side, n>>

Keys(side, doc) == {MatchKey(side, n, doc[n]) : n \in DOMAIN doc}
Group(side, doc, k) == {n \in DOMAIN doc : MatchKey(side, n, doc[n]) = k}

\* SUM() of quantities that are stated.
Sum(doc, group) == SumFunction([n \in group |-> doc[n].qty])

\* Mutant of Total: SUM() alone, which skips what is unstated.
TotalOfStated(doc, group) ==
  IF group = {} THEN None ELSE Sum(doc, {n \in group : doc[n].qty # None})

\* A sum to which one line contributes nothing stated is not stated.
Total(doc, group) ==
  IF group = {} \/ \E n \in group : doc[n].qty = None THEN None ELSE Sum(doc, group)

\* The least and the greatest price, or None when one is unstated.
Least(doc, group) ==
  IF group = {} \/ \E n \in group : doc[n].price = None THEN None
  ELSE Min({doc[n].price : n \in group})
Greatest(doc, group) ==
  IF group = {} \/ \E n \in group : doc[n].price = None THEN None
  ELSE Max({doc[n].price : n \in group})

UnitsOf(doc, group) == {doc[n].uom : n \in group} \ {None}

\* The row of one item on one side.
Side(side, doc, k) ==
  LET group == Group(side, doc, k)
  IN  [lines |-> group, qty |-> Total(doc, group),
       min |-> Least(doc, group), max |-> Greatest(doc, group),
       units |-> UnitsOf(doc, group)]

-----------------------------------------------------------------------------
(* The classification *)

\* SQL's a > b, which is not true when either is NULL.
Exceeds(a, b) == a # None /\ b # None /\ a > b

\* Mutant of UnitsClash: a side is not checked against itself.
UnitsClashAcross(p, i, g) ==
  \E s, t \in {p, i, g} :
    Cardinality(s.units) = 1 /\ Cardinality(t.units) = 1 /\ s.units # t.units

\* One side states two units, or two sides state one each and they differ.
UnitsClash(p, i, g) ==
  \/ \E s \in {p, i, g} : Cardinality(s.units) > 1
  \/ \E s, t \in {p, i, g} :
       Cardinality(s.units) = 1 /\ Cardinality(t.units) = 1 /\ s.units # t.units

\* Mutant of PricesDiffer: the least prices alone.
LeastDiffer(p, i) == p.min # i.min

\* A side's own lines disagree, or the two sides do.
PricesDiffer(p, i) == p.min # p.max \/ i.min # i.max \/ p.min # i.min

\* Mutant of FlagType: a receipt that agrees with the order settles the item.
FlagTypeReceived(p, i, g) ==
  IF p.lines = {} THEN "missing_on_po"
  ELSE IF i.lines = {} THEN "missing_on_invoice"
  ELSE IF UnitsClash(p, i, g) THEN "uom_mismatch"
  ELSE IF Exceeds(i.qty, g.qty) THEN "invoice_exceeds_received"
  ELSE IF Exceeds(p.qty, g.qty) THEN "short_receipt"
  ELSE IF g.qty = None /\ p.qty # i.qty THEN "quantity_mismatch"
  ELSE IF PricesDiffer(p, i) THEN "price_mismatch"
  ELSE "match"

\* The first branch that holds names the item's one flag.
FlagType(p, i, g) ==
  IF p.lines = {} THEN "missing_on_po"
  ELSE IF i.lines = {} THEN "missing_on_invoice"
  ELSE IF UnitsClash(p, i, g) THEN "uom_mismatch"
  ELSE IF Exceeds(i.qty, g.qty) THEN "invoice_exceeds_received"
  ELSE IF Exceeds(p.qty, g.qty) THEN "short_receipt"
  ELSE IF p.qty # i.qty THEN "quantity_mismatch"
  ELSE IF PricesDiffer(p, i) THEN "price_mismatch"
  ELSE "match"

-----------------------------------------------------------------------------
(* The flag (toFlagValues) *)

\* diff(): unknown when either side is.
Difference(a, b) == IF a = None \/ b = None THEN None ELSE a - b

\* singlePrice(): unknown when a side's own lines disagree.
SinglePrice(s) == IF s.min = s.max THEN s.min ELSE None

\* A line of the side cites its unit: arg_min(id, line_number).
CitedUnit(doc, s) == IF s.lines = {} THEN None ELSE doc[Min(s.lines)].uom

Delta(type, p, i, g) ==
  CASE type = "quantity_mismatch" -> Difference(i.qty, p.qty)
    [] type = "price_mismatch" -> Difference(SinglePrice(i), SinglePrice(p))
    [] type = "missing_on_invoice" -> Difference(0, p.qty)
    [] type = "missing_on_po" -> Difference(i.qty, 0)
    [] type = "short_receipt" -> Difference(g.qty, p.qty)
    [] type = "invoice_exceeds_received" -> Difference(i.qty, g.qty)
    [] type = "uom_mismatch" -> None

ToFlagValues(k, type, p, i, g) ==
  LET counted == type \in {"quantity_mismatch", "short_receipt", "invoice_exceeds_received"}
      received == type \in {"short_receipt", "invoice_exceeds_received"}
  IN  [type |-> type, item |-> k,
       poValue |->
         IF counted \/ type = "missing_on_invoice" THEN p.qty
         ELSE IF type = "price_mismatch" THEN SinglePrice(p)
         ELSE IF type = "uom_mismatch" THEN CitedUnit(po, p)
         ELSE None,
       receivedValue |->
         IF received THEN g.qty ELSE IF type = "uom_mismatch" THEN CitedUnit(grn, g) ELSE None,
       invoiceValue |->
         IF counted \/ type = "missing_on_po" THEN i.qty
         ELSE IF type = "price_mismatch" THEN SinglePrice(i)
         ELSE IF type = "uom_mismatch" THEN CitedUnit(inv, i)
         ELSE None,
       poUnitPrice |-> SinglePrice(p), invoiceUnitPrice |-> SinglePrice(i),
       delta |-> Delta(type, p, i, g)]

\* COMPARISON_SQL: the items of the three sides, joined, without those that match.
Joined(receipts) ==
  {[item |-> k, po |-> Side("po", po, k), inv |-> Side("inv", inv, k), grn |-> Side("grn", receipts, k)] :
     k \in Keys("po", po) \cup Keys("inv", inv) \cup Keys("grn", receipts)}

Disputed(receipts) == {r \in Joined(receipts) : FlagType(r.po, r.inv, r.grn) # "match"}

ItemFlags(receipts) ==
  {ToFlagValues(r.item, FlagType(r.po, r.inv, r.grn), r.po, r.inv, r.grn) : r \in Disputed(receipts)}

\* One row per item that does not match.
Compare ==
  /\ pc = "engine" /\ pc' = "done"
  /\ flags' = ItemFlags(grn)
  /\ UNCHANGED <<po, inv, grn>>

Next == ReadOrder \/ ReadInvoice \/ ReadReceipts \/ Compare

Spec == Init /\ [][Next]_vars

-----------------------------------------------------------------------------
(* Properties *)

Done == pc = "done"

\* The flag of an item, if it has one.
FlagsOf(k) == {f \in flags : f.item = k}

AllState(doc, group) == \A n \in group : doc[n].qty # None

\* A supplier is accused of a short delivery, or of billing what was not accepted,
\* only over quantities that every line of the item states and that really differ
\* that way: a receipt that leaves one unstated accuses nobody.
NoFalseAccusation == Done =>
  \A f \in flags : f.type \in {"short_receipt", "invoice_exceeds_received"} =>
    LET received == Group("grn", grn, f.item)
        claimed == IF f.type = "short_receipt" THEN po ELSE inv
        lines == Group(IF f.type = "short_receipt" THEN "po" ELSE "inv", claimed, f.item)
    IN  /\ received # {} /\ AllState(grn, received) /\ AllState(claimed, lines)
        /\ Sum(grn, received) < Sum(claimed, lines)

\* Receiving evidence only adds questions: an item that order and invoice alone
\* leave in question is still in question when the receipts are read.
ReceiptNeverClears == Done =>
  \A r \in Disputed(<<>>) : FlagsOf(r.item) # {}

\* No difference is computed between quantities or prices in different units, for
\* an item that is on both documents.
NoArithmeticAcrossUnits == Done =>
  \A f \in flags : f.delta # None /\ f.type \notin {"missing_on_po", "missing_on_invoice"} =>
    Cardinality(UNION {UnitsOf(po, Group("po", po, f.item)), UnitsOf(inv, Group("inv", inv, f.item)),
                       UnitsOf(grn, Group("grn", grn, f.item))}) <= 1

Stated(doc, group) == AllState(doc, group) /\ \A n \in group : doc[n].price # None
Cost(doc, group) == SumFunction([n \in group |-> doc[n].qty * doc[n].price])

\* Silence is agreement on money: an item without a flag, whose lines state their
\* quantities and prices, costs as much on the invoice as on the order, however
\* either splits it into lines, and no more is billed than was accepted.
SilenceAgrees == Done =>
  \A k \in Keys("po", po) \cup Keys("inv", inv) : FlagsOf(k) = {} =>
    LET p == Group("po", po, k)  i == Group("inv", inv, k)  g == Group("grn", grn, k)
    IN  /\ Stated(po, p) /\ Stated(inv, i) => Cost(po, p) = Cost(inv, i)
        /\ g # {} /\ AllState(grn, g) /\ AllState(inv, i) => Sum(inv, i) <= Sum(grn, g)

\* The comment on a flag's values: on a missing-side flag "the present side's value
\* is kept, so the row renders as evidence instead of three blank columns".  A side
\* that is present and states its quantities is one whose value can be kept.
MissingIsEvidence == Done =>
  \A f \in flags : f.type \in {"missing_on_po", "missing_on_invoice"} =>
    \/ f.poValue # None \/ f.invoiceValue # None
    \/ \E n \in Group("po", po, f.item) : po[n].qty = None
    \/ \E n \in Group("inv", inv, f.item) : inv[n].qty = None
=============================================================================
