----------------------------- MODULE PriceTerms ------------------------------
(***************************************************************************)
(* What a vendor agreed for one SKU: the terms that create() records       *)
(* (vendor-price-terms.service.ts) and the check of an order's price       *)
(* against them (comparison.service.ts, contractPriceFlags).               *)
(*                                                                         *)
(* Nothing locks the terms: two create() calls of one agreement (the same  *)
(* currency and unit) may both read it before either writes.               *)
(***************************************************************************)
EXTENDS Integers, Sequences, FiniteSets

CONSTANTS
  None,          \* what is not stated; of a term's end, that it is open
  Handlers,      \* create() calls that may overlap
  Prices, Units, Currencies,
  LastDay,       \* days are 0..LastDay
  MaxTerms,      \* bound on the terms recorded
  MaxFaults      \* bound on transactions that fail

ConstantsTyped ==
  /\ {LastDay, MaxTerms, MaxFaults} \subseteq Nat
  /\ None \notin Prices \cup Units \cup Currencies \cup Int

Days == 0..LastDay

VARIABLES
  terms,         \* vendor_price_terms, in the order of insertion
  pc,            \* what each call has reached
  input,         \* the term it is to record
  open,          \* the open term it read, 0 for none
  faults,
  crossed        \* history: the agreements two calls were recording at once

call == <<pc, input, open>>
vars == <<terms, call, faults, crossed>>

Agreement == [currency : Currencies, uom : Units \cup {None}]
Of(t) == [currency |-> t.currency, uom |-> t.uom]

Term == [currency : Currencies, uom : Units \cup {None}, price : Prices,
         from : Days, to : Days \cup {None}]

NoTerm == [currency |-> None, uom |-> None, price |-> None, from |-> 0, to |-> None]

Init ==
  /\ terms = <<>>
  /\ pc = [h \in Handlers |-> "idle"]
  /\ input = [h \in Handlers |-> NoTerm]
  /\ open = [h \in Handlers |-> 0]
  /\ faults = 0 /\ crossed = {}

Answer(h) ==
  /\ pc' = [pc EXCEPT ![h] = "idle"]
  /\ input' = [input EXCEPT ![h] = NoTerm]
  /\ open' = [open EXCEPT ![h] = 0]

-----------------------------------------------------------------------------
(* create() *)

OpenTerms(a) == {n \in DOMAIN terms : Of(terms[n]) = a /\ terms[n].to = None}

\* Behind a price that is live from that day or later.
Backdated(n, from) == terms[n].from >= from

Recording(a) == \E g \in Handlers : pc[g] = "write" /\ Of(input[g]) = a

\* The open term of the agreement, if any; of several, any one.  A term that would
\* be backdated behind it is refused.
ReadOpen(h) == \E t \in Term :
  /\ pc[h] = "idle"
  /\ Len(terms) + Cardinality({g \in Handlers : pc[g] = "write"}) < MaxTerms
  /\ t.to = None
  /\ \/ OpenTerms(Of(t)) = {} /\ open' = [open EXCEPT ![h] = 0]
     \/ \E n \in OpenTerms(Of(t)) : ~Backdated(n, t.from) /\ open' = [open EXCEPT ![h] = n]
  /\ pc' = [pc EXCEPT ![h] = "write"]
  /\ input' = [input EXCEPT ![h] = t]
  /\ crossed' = IF Recording(Of(t)) THEN crossed \cup {Of(t)} ELSE crossed
  /\ UNCHANGED <<terms, faults>>

\* Mutant of Closed: the superseded term is withdrawn from its first day on.
ClosedAtStart(n, from) == IF n = 0 THEN terms ELSE [terms EXCEPT ![n].to = terms[n].from]

\* The term's window ends where the new one begins.
Closed(n, from) == IF n = 0 THEN terms ELSE [terms EXCEPT ![n].to = from]

\* The open term is closed, whatever became of it, and the new one inserted.
Write(h) ==
  /\ pc[h] = "write"
  /\ terms' = Append(Closed(open[h], input[h].from), input[h])
  /\ Answer(h)
  /\ UNCHANGED <<faults, crossed>>

\* The transaction fails, and leaves nothing.
Abort(h) ==
  /\ pc[h] = "write"
  /\ faults < MaxFaults /\ faults' = faults + 1
  /\ Answer(h)
  /\ UNCHANGED <<terms, crossed>>

Next == \E h \in Handlers : ReadOpen(h) \/ Write(h) \/ Abort(h)

Spec == Init /\ [][Next]_vars

-----------------------------------------------------------------------------
(* contractPriceFlags(): the lines of the order that carry the SKU state these *)
(* prices and units; the order is of that day and currency. *)

\* Mutant of Live: both ends of the window included.
LiveToTheEnd(t, day) == t.from <= day /\ (t.to = None \/ t.to >= day)

\* Half-open: [from, to).
Live(t, day) == t.from <= day /\ (t.to = None \/ t.to > day)

LiveTerms(day) == {n \in DOMAIN terms : Live(terms[n], day)}

The(S) == CHOOSE x \in S : TRUE

\* Mutant of Judge: of several terms that are live, the newest.
JudgeNewest(prices, uoms, currency, day) ==
  {n \in LiveTerms(day) :
     /\ \A m \in LiveTerms(day) : terms[m].from <= terms[n].from
     /\ terms[n].currency = currency
     /\ Cardinality(uoms) <= 1
     /\ terms[n].uom = None \/ uoms = {} \/ uoms = {terms[n].uom}
     /\ \E price \in Prices : prices = {price}}

\* The term an order can be judged by.
Judge(prices, uoms, currency, day) ==
  {n \in DOMAIN terms :
     /\ LiveTerms(day) = {n}
     /\ terms[n].currency = currency
     /\ Cardinality(uoms) <= 1
     /\ terms[n].uom = None \/ uoms = {} \/ uoms = {terms[n].uom}
     /\ \E price \in Prices : prices = {price}}

\* Terms of the SKU exist, but none can be judged by; one can, and it differs; or
\* there is nothing to say.
Finding(prices, uoms, currency, day) ==
  LET judge == Judge(prices, uoms, currency, day)
  IN  IF terms = <<>> THEN "none"
      ELSE IF judge = {} THEN "contract_price_unavailable"
      ELSE IF {terms[The(judge)].price} = prices THEN "none"
      ELSE "contract_price_variance"

-----------------------------------------------------------------------------
(* Properties *)

TypeOK ==
  /\ terms \in Seq(Term) /\ Len(terms) <= MaxTerms
  /\ \A n \in DOMAIN terms : terms[n].to # None => terms[n].from < terms[n].to
  /\ pc \in [Handlers -> {"idle", "write"}]
  /\ \A h \in Handlers : pc[h] = "write" => input[h] \in Term /\ open[h] \in 0..Len(terms)
  /\ faults \in 0..MaxFaults
  /\ crossed \subseteq Agreement

LiveOf(a, day) == {n \in LiveTerms(day) : Of(terms[n]) = a}

\* "No instant is covered twice and none is left uncovered": from the first day of an
\* agreement on, exactly one of its terms is live, unless two calls recorded it at once.
CoveredOnce == \A a \in Agreement \ crossed : \A day \in Days :
  Cardinality(LiveOf(a, day)) =
    (IF \E n \in DOMAIN terms : Of(terms[n]) = a /\ terms[n].from <= day THEN 1 ELSE 0)

\* What an order was judged by stays as it was: a term changes what is live only
\* from its first day on, unless two calls recorded its agreement at once.
PastKept == [][
  \A a \in Agreement \ crossed' : \A day \in Days :
    LiveOf(a, day) # LiveOf(a, day)' => day >= terms'[Len(terms')].from]_terms

\* An order is held against an agreed price only if it is the one term that can
\* apply: no other term, of whatever agreement, is live on its day, and it would
\* be found again however the order's lines repeat their prices and units.
AccusesByOneTerm == terms # <<>> =>
  \A prices \in SUBSET Prices, uoms \in SUBSET Units, currency \in Currencies, day \in Days :
    Finding(prices, uoms, currency, day) = "contract_price_variance" =>
      \E n \in DOMAIN terms :
        /\ terms[n].currency = currency /\ prices \cap {terms[n].price} = {}
        /\ \A m \in DOMAIN terms \ {n} : terms[m].from > day \/ (terms[m].to # None /\ terms[m].to <= day)
=============================================================================
