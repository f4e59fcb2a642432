--------------------------- MODULE MarketplaceProofs ---------------------------
(***************************************************************************)
(* The totals of the marketplace squid are those of its rows, a request    *)
(* whose fee is settled keeps its sender, its priority mech and its fee,   *)
(* the logs of a transaction compose in any order, requests are attributed *)
(* to the services and agents of their multisigs, and every delivery is    *)
(* counted once, for every set of mechs, accounts, requests, rates and     *)
(* prices.                                                                 *)
(***************************************************************************)
EXTENDS Marketplace, SumsProofs, SequenceTheorems

\* The parts of the state that the totals depend on have their types.
Typed ==
  /\ logs \in Seq(Log)
  /\ advertised \in [Mechs -> Rates]
  /\ tx.from \in Accounts
  /\ createMechs \subseteq Mechs \ Strangers
  /\ \A a \in DOMAIN multisigs : multisigs[a] \in Services
  /\ requests \in [Ids -> {NoRow} \cup RequestRow]
  /\ markers \in [Ids -> {NoRow} \cup MarkerRow]
  /\ senders \in [Accounts -> {NoRow} \cup SenderRow]
  /\ totals \in TotalsRow

\* The marketplace logs a request once: what a log still to come asks for is not yet
\* marked, and its log is the transaction's last.
LogsFresh ==
  \A k \in DOMAIN logs :
    /\ logs[k].op = "createMech" => logs[k].mech \notin Strangers
    /\ logs[k].op = "mechRequest" /\ logs[k].mech \notin Strangers =>
         logs[k].id \notin Marked(markers)
    /\ logs[k].op = "request" =>
         /\ k = Len(logs)
         /\ \A r \in logs[k].ids : r \notin Marked(markers) /\ status[r] # "none"

\* Only what was asked for is marked, only marked requests have a fee, and every
\* request has a sender.
RowsConsistent ==
  /\ \A r \in Marked(markers) : status[r] # "none"
  /\ \A r \in Ids : requests[r] # NoRow =>
       /\ requests[r].fee # NoFee => r \in Marked(markers)
       /\ senders[requests[r].sender] # NoRow

IInv == Typed /\ LogsFresh /\ RowsConsistent /\ TotalsAddUp

-----------------------------------------------------------------------------
(* Logs. *)

\* The fields of a log, by its kind.
LEMMA LogFields ==
  ASSUME NEW log \in Log
  PROVE  /\ log.op = "createMech" => log.mech \in Mechs
         /\ log.op = "multisig" => log.service \in Services /\ log.account \in Accounts
         /\ log.op = "mechRequest" => log.mech \in Mechs /\ log.id \in Ids
         /\ log.op \in {"request", "batch"} =>
              log.mech \in Mechs /\ log.requester \in Accounts /\ log.ids \in SUBSET Ids
         /\ log.op = "delivery" => log.ids \in SUBSET Ids
         /\ log.op \in {"mechDeliver", "signed"} => log.id \in Ids /\ log.rate \in Rates
BY DEF Log

LEMMA NextLog ==
  ASSUME logs \in Seq(Log), logs # <<>>, logs' = Tail(logs)
  PROVE  /\ logs' \in Seq(Log) /\ Len(logs') = Len(logs) - 1 /\ Len(logs) \in Nat
         /\ 1 \in DOMAIN logs /\ Head(logs) = logs[1] /\ Head(logs) \in Log
         /\ \A k \in DOMAIN logs' : k + 1 \in DOMAIN logs /\ logs'[k] = logs[k + 1]
OBVIOUS

\* The logs of several requests.
LEMMA OneEach ==
  ASSUME NEW ids, IsFiniteSet(ids)
  PROVE  SetToSeq(ids) \in Seq(ids)
<1>1. PICK f \in [1 .. Cardinality(ids) -> ids] : IsInjective(f)
  <2>1. PICK f : f \in Bijection(1 .. Cardinality(ids), ids)
    <3>1. ExistsBijection(1 .. Cardinality(ids), ids)
      BY FS_CardinalityType
    <3> QED BY <3>1 DEF ExistsBijection
  <2>2. f \in [1 .. Cardinality(ids) -> ids] /\ IsInjective(f)
    BY <2>1 DEF Bijection, Injection, IsInjective
  <2> QED BY <2>2
<1>2. SetToSeq(ids) \in [1 .. Cardinality(ids) -> ids]
  BY <1>1, Zenon DEF SetToSeq
<1>3. Cardinality(ids) \in Nat
  BY FS_CardinalityType
<1> QED BY <1>2, <1>3

-----------------------------------------------------------------------------
(* Sums over the tables. *)

LEMMA SendersChange ==
  ASSUME NEW t \in [Accounts -> {NoRow} \cup SenderRow], NEW a \in Accounts,
         NEW row \in SenderRow
  PROVE  LET u == [t EXCEPT ![a] = row] IN
         /\ u \in [Accounts -> {NoRow} \cup SenderRow]
         /\ Total(FeesPaid(u), Accounts) = Total(FeesPaid(t), Accounts) + (row.fees - FeesPaid(t)[a])
         /\ Total(RequestsMade(u), Accounts)
              = Total(RequestsMade(t), Accounts) + (row.requests - RequestsMade(t)[a])
<1> DEFINE u == [t EXCEPT ![a] = row]
<1>1. u \in [Accounts -> {NoRow} \cup SenderRow] /\ u[a] = row /\ IsFiniteSet(Accounts)
      /\ row # NoRow /\ \A b \in Accounts \ {a} : u[b] = t[b]
  BY MarketplaceAssumption
<1> HIDE DEF u
<1>2. /\ \A b \in Accounts : FeesPaid(t)[b] \in Int /\ FeesPaid(u)[b] \in Int
      /\ \A b \in Accounts \ {a} : FeesPaid(t)[b] = FeesPaid(u)[b]
      /\ FeesPaid(u)[a] = row.fees
  BY <1>1 DEF FeesPaid, SenderRow
<1>3. /\ \A b \in Accounts : RequestsMade(t)[b] \in Int /\ RequestsMade(u)[b] \in Int
      /\ \A b \in Accounts \ {a} : RequestsMade(t)[b] = RequestsMade(u)[b]
      /\ RequestsMade(u)[a] = row.requests
  BY <1>1 DEF RequestsMade, SenderRow
<1>4. Total(FeesPaid(u), Accounts) = Total(FeesPaid(t), Accounts) + (row.fees - FeesPaid(t)[a])
  BY <1>1, <1>2, SumChange
<1>5. Total(RequestsMade(u), Accounts)
        = Total(RequestsMade(t), Accounts) + (row.requests - RequestsMade(t)[a])
  BY <1>1, <1>3, SumChange
<1> QED BY <1>1, <1>4, <1>5 DEF u

LEMMA SenderPays ==
  ASSUME NEW t \in [Accounts -> {NoRow} \cup SenderRow],
         NEW u \in [Accounts -> {NoRow} \cup SenderRow], NEW a \in Accounts, NEW usd \in Nat,
         \A b \in Accounts \ {a} : u[b] = t[b],
         t[a] # NoRow, u[a] # NoRow, u[a].fees = t[a].fees + usd, u[a].requests = t[a].requests
  PROVE  /\ Total(FeesPaid(u), Accounts) = Total(FeesPaid(t), Accounts) + usd
         /\ Total(RequestsMade(u), Accounts) = Total(RequestsMade(t), Accounts)
<1>1. /\ \A b \in Accounts : FeesPaid(t)[b] \in Int /\ FeesPaid(u)[b] \in Int
      /\ \A b \in Accounts \ {a} : FeesPaid(t)[b] = FeesPaid(u)[b]
      /\ FeesPaid(u)[a] - FeesPaid(t)[a] = usd
  BY DEF FeesPaid, SenderRow
<1>2. \A b \in Accounts : RequestsMade(u)[b] = RequestsMade(t)[b]
  BY DEF RequestsMade
<1>3. Total(FeesPaid(u), Accounts) = Total(FeesPaid(t), Accounts) + (FeesPaid(u)[a] - FeesPaid(t)[a])
  BY <1>1, MarketplaceAssumption, SumChange
<1>4. Total(RequestsMade(u), Accounts) = Total(RequestsMade(t), Accounts)
  BY <1>2, MarketplaceAssumption, SumSame
<1> QED BY <1>1, <1>3, <1>4

LEMMA RequestChanges ==
  ASSUME NEW t \in [Ids -> {NoRow} \cup RequestRow], NEW r \in Ids, NEW row \in RequestRow,
         row.fee # NoFee, t[r] = NoRow \/ t[r].fee = NoFee
  PROVE  Total(FeesCost([t EXCEPT ![r] = row]), Ids) = Total(FeesCost(t), Ids) + row.fee
<1> DEFINE u == [t EXCEPT ![r] = row]
<1>1. u \in [Ids -> {NoRow} \cup RequestRow] /\ u[r] = row /\ IsFiniteSet(Ids)
      /\ row # NoRow /\ \A q \in Ids \ {r} : u[q] = t[q]
  BY MarketplaceAssumption
<1> HIDE DEF u
<1>2. /\ \A q \in Ids : FeesCost(t)[q] \in Int /\ FeesCost(u)[q] \in Int
      /\ \A q \in Ids \ {r} : FeesCost(t)[q] = FeesCost(u)[q]
      /\ FeesCost(u)[r] = row.fee /\ FeesCost(t)[r] = 0
  BY <1>1 DEF FeesCost, RequestRow
<1>3. Total(FeesCost(u), Ids) = Total(FeesCost(t), Ids) + (FeesCost(u)[r] - FeesCost(t)[r])
  BY <1>1, <1>2, SumChange
<1> QED BY <1>2, <1>3, row.fee - 0 = row.fee DEF u, RequestRow

LEMMA CostsKept ==
  ASSUME NEW t \in [Ids -> {NoRow} \cup RequestRow], NEW u \in [Ids -> {NoRow} \cup RequestRow],
         \A r \in Ids : FeesCost(u)[r] = FeesCost(t)[r]
  PROVE  Total(FeesCost(u), Ids) = Total(FeesCost(t), Ids)
BY MarketplaceAssumption, SumSame

LEMMA SumsTyped ==
  ASSUME Typed
  PROVE  /\ Total(FeesPaid(senders), Accounts) \in Int
         /\ Total(RequestsMade(senders), Accounts) \in Int
         /\ Total(FeesCost(requests), Ids) \in Int
         /\ Cardinality(Marked(markers)) \in Nat /\ IsFiniteSet(Marked(markers))
         /\ DOMAIN senders = Accounts /\ DOMAIN requests = Ids /\ DOMAIN markers = Ids
         /\ totals.fees \in Nat /\ totals.requests \in Nat /\ totals.offChain \in Nat
<1>1. DOMAIN senders = Accounts /\ DOMAIN requests = Ids /\ DOMAIN markers = Ids
      /\ IsFiniteSet(Accounts) /\ IsFiniteSet(Ids)
  BY MarketplaceAssumption DEF Typed
<1>2. /\ \A a \in Accounts : FeesPaid(senders)[a] \in Int /\ RequestsMade(senders)[a] \in Int
      /\ \A r \in Ids : FeesCost(requests)[r] \in Int
  BY <1>1 DEF Typed, FeesPaid, RequestsMade, FeesCost, SenderRow, RequestRow
<1>3. /\ Total(FeesPaid(senders), Accounts) \in Int
      /\ Total(RequestsMade(senders), Accounts) \in Int
      /\ Total(FeesCost(requests), Ids) \in Int
  BY <1>1, <1>2, SumTyped
<1>4. Marked(markers) \in SUBSET Ids
  BY <1>1 DEF Marked
<1>5. Cardinality(Marked(markers)) \in Nat /\ IsFiniteSet(Marked(markers))
  BY <1>1, <1>4, FS_Subset, FS_CardinalityType
<1>6. totals.fees \in Nat /\ totals.requests \in Nat /\ totals.offChain \in Nat
  BY DEF Typed, TotalsRow
<1> QED BY <1>1, <1>3, <1>5, <1>6

-----------------------------------------------------------------------------
(* What a handler does to the tables. *)

\* The tables keep their invariant, and only these requests are newly marked.
TablesKept(ids) ==
  /\ requests' \in [Ids -> {NoRow} \cup RequestRow]
  /\ markers' \in [Ids -> {NoRow} \cup MarkerRow]
  /\ senders' \in [Accounts -> {NoRow} \cup SenderRow]
  /\ totals' \in TotalsRow
  /\ Marked(markers') = Marked(markers) \cup ids
  /\ RowsConsistent' /\ TotalsAddUp'

\* The totals and the rows move together: by what is paid, by the requests made and by
\* those of them that were made off chain.
LEMMA TotalsMove ==
  ASSUME Typed, TotalsAddUp, NEW usd \in Nat, NEW n \in Nat, NEW off \in Nat,
         DOMAIN senders' = Accounts, DOMAIN requests' = Ids, totals' \in TotalsRow,
         Total(FeesPaid(senders'), Accounts) = Total(FeesPaid(senders), Accounts) + usd,
         Total(FeesCost(requests'), Ids) = Total(FeesCost(requests), Ids) + usd,
         Total(RequestsMade(senders'), Accounts) = Total(RequestsMade(senders), Accounts) + n,
         Cardinality(Marked(markers')) = Cardinality(Marked(markers)) + (n - off),
         totals'.fees = totals.fees + usd,
         totals'.requests = totals.requests + n,
         totals'.offChain = totals.offChain + off
  PROVE  TotalsAddUp'
<1>1. /\ totals.fees = Total(FeesPaid(senders), Accounts)
      /\ totals.fees = Total(FeesCost(requests), Ids)
      /\ totals.requests = Total(RequestsMade(senders), Accounts)
      /\ totals.requests = totals.offChain + Cardinality(Marked(markers))
  BY SumsTyped DEF TotalsAddUp, FeesConserved, SendersAddUp
<1>2. /\ totals.fees \in Nat /\ totals.requests \in Nat /\ totals.offChain \in Nat
      /\ Cardinality(Marked(markers)) \in Nat
  BY SumsTyped DEF Typed, TotalsRow
<1>3. /\ totals'.fees = Total(FeesPaid(senders'), Accounts)
      /\ totals'.fees = Total(FeesCost(requests'), Ids)
      /\ totals'.requests = Total(RequestsMade(senders'), Accounts)
  BY <1>1
<1>4. totals'.requests = totals'.offChain + Cardinality(Marked(markers'))
  BY <1>1, <1>2
<1> QED BY <1>3, <1>4 DEF TotalsAddUp, FeesConserved, SendersAddUp

LEMMA CountAtaIs ==
  ASSUME NEW t \in TotalsRow, NEW by \in Nat
  PROVE  /\ CountAta(t, by) \in TotalsRow /\ CountAta(t, by).fees = t.fees
         /\ CountAta(t, by).requests = t.requests /\ CountAta(t, by).offChain = t.offChain
BY DEF CountAta, TotalsRow

\* A sender and the totals after n requests, one field at a time.
LEMMA SenderAsksIs ==
  ASSUME NEW s \in SenderRow, NEW n \in Nat, NEW ata
  PROVE  LET new == SenderAsks(s, n, ata) IN
         /\ new \in SenderRow /\ new.fees = s.fees /\ new.requests = s.requests + n
         /\ new.offChain = s.offChain
<1>1. PICK a : a = [s EXCEPT !.transactions = s.transactions + 1]
  OBVIOUS
<1>2. /\ a \in SenderRow /\ a.fees = s.fees /\ a.requests = s.requests
      /\ a.marketplace = s.marketplace /\ a.ata = s.ata
      /\ a.offChain = s.offChain
  BY <1>1 DEF SenderRow
<1>3. PICK b : b = [a EXCEPT !.marketplace = s.marketplace + 1]
  OBVIOUS
<1>4. /\ b \in SenderRow /\ b.fees = s.fees /\ b.requests = s.requests
      /\ b.ata = s.ata /\ b.offChain = s.offChain
  BY <1>2, <1>3 DEF SenderRow
<1>5. PICK c : c = [b EXCEPT !.requests = s.requests + n]
  OBVIOUS
<1>6. /\ c \in SenderRow /\ c.fees = s.fees /\ c.requests = s.requests + n
      /\ c.ata = s.ata /\ c.offChain = s.offChain
  BY <1>4, <1>5 DEF SenderRow
<1>7. PICK d : d = [c EXCEPT !.ata = IF ata THEN s.ata + 1 ELSE s.ata]
  OBVIOUS
<1>8. /\ d \in SenderRow /\ d.fees = s.fees /\ d.requests = s.requests + n
      /\ d.offChain = s.offChain
  BY <1>6, <1>7 DEF SenderRow
<1> QED BY <1>1, <1>3, <1>5, <1>7, <1>8, Zenon DEF SenderAsks

LEMMA SenderSignedIs ==
  ASSUME NEW s \in SenderRow, NEW n \in Nat, NEW ata
  PROVE  LET new == SenderSigned(s, n, ata) IN
         /\ new \in SenderRow /\ new.fees = s.fees /\ new.requests = s.requests + n
         /\ new.offChain = s.offChain + n
<1>1. PICK a : a = [s EXCEPT !.offChain = s.offChain + n]
  OBVIOUS
<1>2. /\ a \in SenderRow /\ a.fees = s.fees /\ a.requests = s.requests
      /\ a.transactions = s.transactions /\ a.ata = s.ata
      /\ a.offChain = s.offChain + n
  BY <1>1 DEF SenderRow
<1>3. PICK b : b = [a EXCEPT !.requests = s.requests + n]
  OBVIOUS
<1>4. /\ b \in SenderRow /\ b.fees = s.fees /\ b.requests = s.requests + n
      /\ b.transactions = s.transactions /\ b.ata = s.ata
      /\ b.offChain = s.offChain + n
  BY <1>2, <1>3 DEF SenderRow
<1>5. PICK c : c = [b EXCEPT !.transactions = s.transactions + 1]
  OBVIOUS
<1>6. /\ c \in SenderRow /\ c.fees = s.fees /\ c.requests = s.requests + n
      /\ c.ata = s.ata /\ c.offChain = s.offChain + n
  BY <1>4, <1>5 DEF SenderRow
<1>7. PICK d : d = [c EXCEPT !.ata = IF ata THEN s.ata + 1 ELSE s.ata]
  OBVIOUS
<1>8. /\ d \in SenderRow /\ d.fees = s.fees /\ d.requests = s.requests + n
      /\ d.offChain = s.offChain + n
  BY <1>6, <1>7 DEF SenderRow
<1> QED BY <1>1, <1>3, <1>5, <1>7, <1>8, Zenon DEF SenderSigned

LEMMA TotalsAskedIs ==
  ASSUME NEW t \in TotalsRow, NEW n \in Nat
  PROVE  LET new == TotalsAsked(t, n) IN
         /\ new \in TotalsRow /\ new.fees = t.fees /\ new.requests = t.requests + n
         /\ new.offChain = t.offChain
<1>1. PICK a : a = [t EXCEPT !.marketplace = t.marketplace + 1]
  OBVIOUS
<1>2. /\ a \in TotalsRow /\ a.fees = t.fees /\ a.requests = t.requests /\ a.offChain = t.offChain
      /\ a.transactions = t.transactions
  BY <1>1 DEF TotalsRow
<1>3. PICK b : b = [a EXCEPT !.requests = t.requests + n]
  OBVIOUS
<1>4. /\ b \in TotalsRow /\ b.fees = t.fees /\ b.requests = t.requests + n /\ b.offChain = t.offChain
      /\ b.transactions = t.transactions
  BY <1>2, <1>3 DEF TotalsRow
<1>5. PICK c : c = [b EXCEPT !.transactions = t.transactions + 1]
  OBVIOUS
<1>6. /\ c \in TotalsRow /\ c.fees = t.fees /\ c.requests = t.requests + n /\ c.offChain = t.offChain
  BY <1>4, <1>5 DEF TotalsRow
<1> QED BY <1>1, <1>3, <1>5, <1>6, Zenon DEF TotalsAsked

LEMMA TotalsSignedIs ==
  ASSUME NEW t \in TotalsRow, NEW n \in Nat
  PROVE  LET new == TotalsSigned(t, n) IN
         /\ new \in TotalsRow /\ new.fees = t.fees /\ new.requests = t.requests + n
         /\ new.offChain = t.offChain + n
<1>1. PICK a : a = [t EXCEPT !.requests = t.requests + n]
  OBVIOUS
<1>2. /\ a \in TotalsRow /\ a.fees = t.fees /\ a.requests = t.requests + n /\ a.offChain = t.offChain
      /\ a.deliveries = t.deliveries /\ a.transactions = t.transactions
  BY <1>1 DEF TotalsRow
<1>3. PICK b : b = [a EXCEPT !.offChain = t.offChain + n]
  OBVIOUS
<1>4. /\ b \in TotalsRow /\ b.fees = t.fees /\ b.requests = t.requests + n /\ b.offChain = t.offChain + n
      /\ b.deliveries = t.deliveries /\ b.transactions = t.transactions
  BY <1>2, <1>3 DEF TotalsRow
<1>5. PICK c : c = [b EXCEPT !.deliveries = t.deliveries + n]
  OBVIOUS
<1>6. /\ c \in TotalsRow /\ c.fees = t.fees /\ c.requests = t.requests + n /\ c.offChain = t.offChain + n
      /\ c.transactions = t.transactions
  BY <1>4, <1>5 DEF TotalsRow
<1>7. PICK d : d = [c EXCEPT !.transactions = t.transactions + 2]
  OBVIOUS
<1>8. /\ d \in TotalsRow /\ d.fees = t.fees /\ d.requests = t.requests + n /\ d.offChain = t.offChain + n
  BY <1>6, <1>7 DEF TotalsRow
<1> QED BY <1>1, <1>3, <1>5, <1>7, <1>8, Zenon DEF TotalsSigned

LEMMA OrNewIs ==
  ASSUME Typed, NEW a \in Accounts
  PROVE  /\ OrNew(a) \in SenderRow
         /\ OrNew(a).fees = FeesPaid(senders)[a]
         /\ OrNew(a).requests = RequestsMade(senders)[a]
BY DEF Typed, OrNew, NewSender, SenderRow, FeesPaid, RequestsMade

LEMMA AskedIs ==
  ASSUME Typed, NEW r \in Ids, NEW a \in Accounts, NEW m \in Mechs,
         NEW s \in Services \cup {NoService}, NEW priced \in BOOLEAN
  PROVE  /\ Asked(r, a, m, s, priced) \in RequestRow
         /\ Asked(r, a, m, s, priced) # NoRow
         /\ Asked(r, a, m, s, priced).sender = a
         /\ Asked(r, a, m, s, priced).fee = IF requests[r] = NoRow THEN NoFee ELSE requests[r].fee
<1>1. Asked(r, a, m, s, priced) \in RequestRow
  <2>1. requests[r] = NoRow \/ requests[r] \in RequestRow
    BY DEF Typed
  <2>2. CASE requests[r] = NoRow
    BY <2>2 DEF Asked, RequestRow
  <2>3. CASE requests[r] \in RequestRow
    BY <2>3, MarketplaceAssumption DEF Asked, RequestRow
  <2> QED BY <2>1, <2>2, <2>3
<1> QED BY <1>1, MarketplaceAssumption DEF Asked

LEMMA ServiceOfMultisigTyped ==
  ASSUME Typed, NEW a PROVE ServiceOfMultisig(a) \in Services \cup {NoService}
BY DEF Typed, ServiceOfMultisig

LEMMA RequestKept ==
  ASSUME Typed, RowsConsistent, TotalsAddUp, status' = status,
         NEW mech \in Mechs, NEW requester \in Accounts, NEW ids \in SUBSET Ids,
         \A r \in ids : r \notin Marked(markers) /\ status[r] # "none",
         MarketplaceRequest(mech, requester, ids)
  PROVE  TablesKept(ids)
<1> DEFINE n == Cardinality(ids)
           service == ServiceOfMultisig(requester)
           row == senders'[requester]
<1>0. /\ Total(FeesPaid(senders), Accounts) \in Int
      /\ Total(RequestsMade(senders), Accounts) \in Int
      /\ Total(FeesCost(requests), Ids) \in Int
      /\ Cardinality(Marked(markers)) \in Nat /\ IsFiniteSet(Marked(markers))
      /\ totals.fees \in Nat /\ totals.requests \in Nat /\ totals.offChain \in Nat
  BY SumsTyped
<1>1. n \in Nat /\ IsFiniteSet(ids) /\ service \in Services \cup {NoService}
  BY MarketplaceAssumption, FS_Subset, FS_CardinalityType, ServiceOfMultisigTyped
<1>2. /\ senders' = [senders EXCEPT ![requester] = row] /\ row \in SenderRow
      /\ row.fees = FeesPaid(senders)[requester]
      /\ row.requests = RequestsMade(senders)[requester] + n
  <2> DEFINE new == SenderAsks(OrNew(requester), n, service # NoService /\ tx.id \notin ataTxs)
  <2>1. senders' = [senders EXCEPT ![requester] = new]
    BY DEF MarketplaceRequest
  <2>2. /\ new \in SenderRow /\ new.fees = OrNew(requester).fees
        /\ new.requests = OrNew(requester).requests + n
    <3> HIDE DEF n
    <3> QED BY <1>1, OrNewIs, SenderAsksIs
  <2>3. row = new
    <3> HIDE DEF new
    <3> QED BY <2>1 DEF Typed
  <2> HIDE DEF new
  <2> QED BY <2>1, <2>2, <2>3, OrNewIs
<1>3. \A r \in ids : /\ requests'[r] \in RequestRow /\ requests'[r] # NoRow
                     /\ requests'[r].sender = requester
                     /\ requests'[r].fee = IF requests[r] = NoRow THEN NoFee ELSE requests[r].fee
  <2>1. Priced(mech) \in BOOLEAN
    BY DEF Priced
  <2>2. \A r \in ids : requests'[r] = Asked(r, requester, mech, service, Priced(mech))
    BY DEF MarketplaceRequest
  <2> HIDE DEF service
  <2> QED BY <1>1, <2>1, <2>2, AskedIs
<1>4. /\ requests' \in [Ids -> {NoRow} \cup RequestRow]
      /\ \A r \in Ids \ ids : requests'[r] = requests[r]
  <2>1. /\ requests' = [r \in Ids |-> requests'[r]]
        /\ \A r \in Ids \ ids : requests'[r] = requests[r]
    BY DEF MarketplaceRequest
  <2> QED BY <1>3, <2>1 DEF Typed
<1>5. /\ markers' \in [Ids -> {NoRow} \cup MarkerRow]
      /\ Marked(markers') = Marked(markers) \cup ids
  <2>1. /\ markers' = [r \in Ids |-> IF r \in ids THEN [marketplace |-> TRUE, payload |-> WithPayload(r)]
                                                  ELSE markers[r]]
        /\ \A r \in ids : WithPayload(r) \in BOOLEAN
    BY DEF MarketplaceRequest, WithPayload, Typed, MarkerRow
  <2>2. \A r \in ids : [marketplace |-> TRUE, payload |-> WithPayload(r)] \in MarkerRow
    BY <2>1 DEF MarkerRow
  <2>3. markers' \in [Ids -> {NoRow} \cup MarkerRow]
    BY <2>1, <2>2 DEF Typed
  <2>4. \A r \in ids : markers'[r] # NoRow /\ markers'[r].marketplace
    BY <2>1, <2>2, MarketplaceAssumption
  <2>5. \A r \in Ids \ ids : markers'[r] = markers[r]
    BY <2>1
  <2> QED BY <2>3, <2>4, <2>5 DEF Marked, Typed
<1>6. /\ totals' \in TotalsRow /\ totals'.fees = totals.fees
      /\ totals'.requests = totals.requests + n /\ totals'.offChain = totals.offChain
  <2> DEFINE base == IF service # NoService /\ tx.id \notin ataTxs THEN CountAta(totals, 1) ELSE totals
  <2>1. totals' = TotalsAsked(base, n)
    BY DEF MarketplaceRequest
  <2>2. /\ base \in TotalsRow /\ base.fees = totals.fees
        /\ base.requests = totals.requests /\ base.offChain = totals.offChain
    BY CountAtaIs DEF Typed
  <2> HIDE DEF base, n
  <2> QED BY <1>1, <2>1, <2>2, TotalsAskedIs
<1>7. RowsConsistent'
  <2>1. \A r \in Marked(markers') : status[r] # "none"
    BY <1>5 DEF RowsConsistent
  <2>2. senders'[requester] # NoRow /\ \A a : senders[a] # NoRow => senders'[a] # NoRow
    <3>1. row # NoRow
      BY <1>2, MarketplaceAssumption
    <3> HIDE DEF row
    <3> QED BY <1>2, <3>1 DEF Typed
  <2>3. ASSUME NEW r \in Ids, requests'[r] # NoRow
        PROVE  /\ requests'[r].fee # NoFee => r \in Marked(markers')
               /\ senders'[requests'[r].sender] # NoRow
    BY <1>3, <1>4, <1>5, <2>2, <2>3 DEF RowsConsistent
  <2> QED BY <2>1, <2>3 DEF RowsConsistent
<1>8. TotalsAddUp'
  <2>1. /\ Total(FeesPaid(senders'), Accounts) = Total(FeesPaid(senders), Accounts)
        /\ Total(RequestsMade(senders'), Accounts) = Total(RequestsMade(senders), Accounts) + n
    <3>1. FeesPaid(senders)[requester] \in Int /\ RequestsMade(senders)[requester] \in Int
      BY DEF FeesPaid, RequestsMade, Typed, SenderRow
    <3> HIDE DEF row, n
    <3>2. /\ Total(FeesPaid(senders'), Accounts)
               = Total(FeesPaid(senders), Accounts) + (row.fees - FeesPaid(senders)[requester])
          /\ Total(RequestsMade(senders'), Accounts)
               = Total(RequestsMade(senders), Accounts)
                   + (row.requests - RequestsMade(senders)[requester])
      BY <1>2, SendersChange DEF Typed
    <3> QED BY <1>0, <1>1, <1>2, <3>1, <3>2
  <2>2. Total(FeesCost(requests'), Ids) = Total(FeesCost(requests), Ids)
    <3>1. \A r \in Ids : FeesCost(requests')[r] = FeesCost(requests)[r]
      BY <1>3, <1>4 DEF FeesCost, Typed
    <3> QED BY <1>4, <3>1, CostsKept DEF Typed
  <2>3. Cardinality(Marked(markers')) = Cardinality(Marked(markers)) + n
    <3>1. Marked(markers) \cap ids = {}
      OBVIOUS
    <3>2. Cardinality(Marked(markers) \cup ids)
            = Cardinality(Marked(markers)) + n - Cardinality(Marked(markers) \cap ids)
      BY <1>0, <1>1, FS_Union
    <3> HIDE DEF n
    <3>3. Cardinality(Marked(markers) \cup ids) = Cardinality(Marked(markers)) + n - 0
      BY <3>1, <3>2, FS_EmptySet
    <3> QED BY <1>0, <1>1, <1>5, <3>3
  <2>4. DOMAIN senders' = Accounts /\ DOMAIN requests' = Ids
    BY <1>2, <1>4 DEF Typed
  <2> HIDE DEF n
  <2>5. /\ totals'.fees = totals.fees + 0 /\ totals'.offChain = totals.offChain + 0
        /\ Total(FeesPaid(senders'), Accounts) = Total(FeesPaid(senders), Accounts) + 0
        /\ Total(FeesCost(requests'), Ids) = Total(FeesCost(requests), Ids) + 0
        /\ Cardinality(Marked(markers')) = Cardinality(Marked(markers)) + (n - 0)
    BY <1>0, <1>1, <1>6, <2>1, <2>2, <2>3
  <2> QED BY <1>1, <1>6, <2>1, <2>4, <2>5, TotalsMove
<1> QED BY <1>2, <1>4, <1>5, <1>6, <1>7, <1>8 DEF TablesKept, Typed
\* Nothing that the totals count changes.
LEMMA NothingCounted ==
  ASSUME Typed, TotalsAddUp, totals' \in TotalsRow,
         requests' \in [Ids -> {NoRow} \cup RequestRow],
         senders' \in [Accounts -> {NoRow} \cup SenderRow],
         \A r \in Ids : FeesCost(requests')[r] = FeesCost(requests)[r],
         \A a \in Accounts : /\ FeesPaid(senders')[a] = FeesPaid(senders)[a]
                            /\ RequestsMade(senders')[a] = RequestsMade(senders)[a],
         Marked(markers') = Marked(markers),
         totals'.fees = totals.fees, totals'.requests = totals.requests,
         totals'.offChain = totals.offChain
  PROVE  TotalsAddUp'
<1>1. /\ Total(FeesPaid(senders'), Accounts) = Total(FeesPaid(senders), Accounts)
      /\ Total(RequestsMade(senders'), Accounts) = Total(RequestsMade(senders), Accounts)
  BY MarketplaceAssumption, SumSame
<1>2. Total(FeesCost(requests'), Ids) = Total(FeesCost(requests), Ids)
  BY CostsKept DEF Typed
<1>3. DOMAIN senders' = Accounts /\ DOMAIN requests' = Ids
  OBVIOUS
<1> QED BY <1>1, <1>2, <1>3, SumsTyped DEF TotalsAddUp, FeesConserved, SendersAddUp

LEMMA MechRequestKept ==
  ASSUME Typed, RowsConsistent, TotalsAddUp, status' = status,
         NEW mech \in Mechs, NEW id \in Ids, NEW ipfs,
         mech \notin Strangers => id \notin Marked(markers),
         MechRequest(mech, id, ipfs)
  PROVE  TablesKept({})
<1> DEFINE direct == Known(mech) /\ ~ IsMarketplaceTransaction
           asked  == Asked(id, tx.from, mech, ServiceOf[mech], FALSE)
<1>1. /\ direct => requests' = [requests EXCEPT ![id] = asked]
      /\ direct => senders' = [senders EXCEPT ![tx.from] = OrNew(tx.from)]
      /\ ~ direct => requests' = requests /\ senders' = senders
      /\ totals' = totals
  BY DEF MechRequest, ataVars
<1>2. direct => id \notin Marked(markers)
  BY DEF Known, Typed
<1>3. /\ asked \in RequestRow /\ asked # NoRow /\ asked.sender = tx.from
      /\ asked.fee = IF requests[id] = NoRow THEN NoFee ELSE requests[id].fee
      /\ tx.from \in Accounts
  <2>1. tx.from \in Accounts /\ ServiceOf[mech] \in Services \cup {NoService}
    BY MarketplaceAssumption DEF Typed
  <2>2. \A b \in BOOLEAN :
          LET new == Asked(id, tx.from, mech, ServiceOf[mech], b) IN
          /\ new \in RequestRow /\ new # NoRow /\ new.sender = tx.from
          /\ new.fee = IF requests[id] = NoRow THEN NoFee ELSE requests[id].fee
    BY <2>1, AskedIs
  <2> QED BY <2>1, <2>2, Zenon
<1>4. /\ OrNew(tx.from) \in SenderRow /\ OrNew(tx.from) # NoRow
      /\ OrNew(tx.from).fees = FeesPaid(senders)[tx.from]
      /\ OrNew(tx.from).requests = RequestsMade(senders)[tx.from]
  BY <1>3, OrNewIs, MarketplaceAssumption
<1>5. /\ markers' \in [Ids -> {NoRow} \cup MarkerRow]
      /\ Marked(markers') = Marked(markers)
  <2>1. CASE markers' = markers
    BY <2>1 DEF Typed
  <2>2. ASSUME NEW row \in MarkerRow, markers' = [markers EXCEPT ![id] = row],
               row.marketplace = (markers[id] # NoRow /\ markers[id].marketplace)
        PROVE  <1>5
    <3>1. row # NoRow /\ DOMAIN markers' = Ids /\ DOMAIN markers = Ids /\ markers'[id] = row
          /\ \A r \in Ids \ {id} : markers'[r] = markers[r]
      BY <2>2, MarketplaceAssumption DEF Typed
    <3>2. markers' \in [Ids -> {NoRow} \cup MarkerRow]
      BY <2>2 DEF Typed
    <3>3. \A r \in Ids : (markers'[r] # NoRow /\ markers'[r].marketplace)
                          <=> (markers[r] # NoRow /\ markers[r].marketplace)
      BY <2>2, <3>1
    <3> QED BY <3>1, <3>2, <3>3 DEF Marked
  <2>3. CASE markers' = [markers EXCEPT ![id] = [markers[id] EXCEPT !.payload = TRUE]]
             /\ markers[id] # NoRow
    <3>1. markers[id] \in MarkerRow
      BY <2>3 DEF Typed
    <3>2. /\ [markers[id] EXCEPT !.payload = TRUE] \in MarkerRow
          /\ [markers[id] EXCEPT !.payload = TRUE].marketplace = markers[id].marketplace
      BY <3>1 DEF MarkerRow
    <3>3. [markers[id] EXCEPT !.payload = TRUE].marketplace
            = (markers[id] # NoRow /\ markers[id].marketplace)
      BY <2>3, <3>1, <3>2 DEF MarkerRow
    <3> QED BY <2>2, <2>3, <3>2, <3>3
  <2>4. CASE markers' = [markers EXCEPT ![id] = [marketplace |-> FALSE, payload |-> TRUE]]
             /\ markers[id] = NoRow
    <3>1. /\ [marketplace |-> FALSE, payload |-> TRUE] \in MarkerRow
          /\ [marketplace |-> FALSE, payload |-> TRUE].marketplace
               = (markers[id] # NoRow /\ markers[id].marketplace)
      BY <2>4 DEF MarkerRow
    <3> QED BY <2>2, <2>4, <3>1
  <2> QED BY <2>1, <2>3, <2>4 DEF MechRequest
<1> HIDE DEF asked, direct
<1>6. /\ requests' \in [Ids -> {NoRow} \cup RequestRow]
      /\ \A r \in Ids : FeesCost(requests')[r] = FeesCost(requests)[r]
  BY <1>1, <1>3 DEF Typed, FeesCost
<1>7. /\ senders' \in [Accounts -> {NoRow} \cup SenderRow]
      /\ \A a \in Accounts : /\ FeesPaid(senders')[a] = FeesPaid(senders)[a]
                            /\ RequestsMade(senders')[a] = RequestsMade(senders)[a]
      /\ \A a \in Accounts : senders[a] # NoRow => senders'[a] # NoRow
      /\ direct => senders'[tx.from] # NoRow
  BY <1>1, <1>3, <1>4 DEF Typed, FeesPaid, RequestsMade
<1>8. totals' \in TotalsRow
  BY <1>1 DEF Typed
<1>9. TotalsAddUp'
  BY <1>1, <1>5, <1>6, <1>7, <1>8, NothingCounted
<1>10. RowsConsistent'
  <2>1. ASSUME NEW r \in Ids, requests'[r] # NoRow
        PROVE  /\ requests'[r].fee # NoFee => r \in Marked(markers')
               /\ senders'[requests'[r].sender] # NoRow
    <3>1. CASE direct /\ r = id
      <4>1. requests'[r] = asked
        BY <1>1, <3>1 DEF Typed
      <4> QED BY <1>2, <1>3, <1>5, <1>7, <3>1, <4>1 DEF RowsConsistent
    <3>2. CASE ~ (direct /\ r = id)
      <4>1. requests'[r] = requests[r] /\ requests[r].sender \in Accounts
        BY <1>1, <2>1, <3>2 DEF Typed, RequestRow
      <4> QED BY <1>5, <1>7, <2>1, <4>1 DEF RowsConsistent
    <3> QED BY <3>1, <3>2
  <2> QED BY <1>5, <2>1 DEF RowsConsistent
<1> QED BY <1>5, <1>6, <1>7, <1>8, <1>9, <1>10 DEF TablesKept

\* Requests change, but neither their fees nor their senders.
LEMMA FeesKept ==
  ASSUME Typed, RowsConsistent, TotalsAddUp, status' = status,
         requests' \in [Ids -> {NoRow} \cup RequestRow],
         \A r \in Ids : \/ requests'[r] = requests[r]
                       \/ /\ requests[r] # NoRow /\ requests'[r] # NoRow
                          /\ requests'[r].fee = requests[r].fee
                          /\ requests'[r].sender = requests[r].sender,
         senders' = senders, markers' = markers, totals' \in TotalsRow,
         totals'.fees = totals.fees, totals'.requests = totals.requests,
         totals'.offChain = totals.offChain
  PROVE  TablesKept({})
<1>1. \A r \in Ids : FeesCost(requests')[r] = FeesCost(requests)[r]
  BY DEF FeesCost, Typed
<1>2. TotalsAddUp'
  BY <1>1, NothingCounted DEF Typed
<1>3. RowsConsistent'
  BY DEF RowsConsistent
<1> QED BY <1>2, <1>3 DEF TablesKept, Typed

\* A delivery settles the fee of a request.
LEMMA ChargeKept ==
  ASSUME Typed, RowsConsistent, TotalsAddUp, status' = status,
         NEW r \in Ids, NEW usd \in Nat, NEW t \in TotalsRow, NEW row \in RequestRow,
         Charged(r), row.fee = usd, row.sender = requests[r].sender,
         t.fees = totals.fees, t.requests = totals.requests, t.offChain = totals.offChain,
         requests' = [requests EXCEPT ![r] = row], senders' = PaidBy(senders, r, usd),
         totals' = Paid(t, usd), markers' = markers
  PROVE  TablesKept({})
<1> DEFINE a == requests[r].sender
           payer == senders'[a]
<1>1. /\ requests[r] # NoRow /\ requests[r] \in RequestRow /\ requests[r].fee = NoFee
      /\ a \in Accounts /\ senders[a] # NoRow /\ senders[a] \in SenderRow
      /\ r \in Marked(markers)
  BY DEF Charged, Typed, RowsConsistent, RequestRow, Marked
<1>2. /\ senders' = [senders EXCEPT ![a] = payer] /\ payer \in SenderRow /\ payer # NoRow
      /\ payer.fees = senders[a].fees + usd /\ payer.requests = senders[a].requests
  <2>1. /\ senders' = [senders EXCEPT ![a] = [senders[a] EXCEPT !.fees = senders[a].fees + usd]]
        /\ payer = [senders[a] EXCEPT !.fees = senders[a].fees + usd]
    BY <1>1 DEF PaidBy, Typed
  <2> HIDE DEF payer, a
  <2>2. /\ payer \in SenderRow /\ payer.fees = senders[a].fees + usd
        /\ payer.requests = senders[a].requests
    BY <1>1, <2>1 DEF SenderRow
  <2>3. payer # NoRow
    BY <2>2, MarketplaceAssumption
  <2> QED BY <2>1, <2>2, <2>3
<1>3. /\ requests' \in [Ids -> {NoRow} \cup RequestRow] /\ row.fee # NoFee /\ row # NoRow
      /\ requests'[r] = row /\ \A q \in Ids \ {r} : requests'[q] = requests[q]
  BY MarketplaceAssumption DEF Typed
<1>4. /\ totals' \in TotalsRow /\ totals'.fees = t.fees + usd
      /\ totals'.requests = t.requests /\ totals'.offChain = t.offChain
  BY DEF Paid, TotalsRow
<1>5. /\ Total(FeesPaid(senders), Accounts) \in Int
      /\ Total(RequestsMade(senders), Accounts) \in Int
      /\ Total(FeesCost(requests), Ids) \in Int
      /\ Cardinality(Marked(markers)) \in Nat
      /\ totals.fees \in Nat /\ totals.requests \in Nat /\ totals.offChain \in Nat
  BY SumsTyped
<1> HIDE DEF payer
<1>6. /\ Total(FeesPaid(senders'), Accounts) = Total(FeesPaid(senders), Accounts) + usd
      /\ Total(RequestsMade(senders'), Accounts) = Total(RequestsMade(senders), Accounts)
  <2>1. /\ senders \in [Accounts -> {NoRow} \cup SenderRow]
        /\ senders' \in [Accounts -> {NoRow} \cup SenderRow]
        /\ \A b \in Accounts \ {a} : senders'[b] = senders[b]
    BY <1>1, <1>2 DEF Typed
  <2>2. /\ senders[a] # NoRow /\ senders'[a] # NoRow /\ senders'[a].fees = senders[a].fees + usd
        /\ senders'[a].requests = senders[a].requests
    BY <1>1, <1>2 DEF payer
  <2> HIDE DEF a
  <2> QED BY <1>1, <2>1, <2>2, SenderPays
<1>7. Total(FeesCost(requests'), Ids) = Total(FeesCost(requests), Ids) + usd
  <2>1. requests \in [Ids -> {NoRow} \cup RequestRow] /\ row.fee # NoFee /\ row.fee = usd
    BY <1>1, <1>3 DEF Typed
  <2>2. Total(FeesCost([requests EXCEPT ![r] = row]), Ids) = Total(FeesCost(requests), Ids) + row.fee
    BY <1>1, <2>1, RequestChanges, Zenon
  <2>3. requests' = [requests EXCEPT ![r] = row]
    OBVIOUS
  <2> QED BY <2>1, <2>2, <2>3, Zenon
<1>8. TotalsAddUp'
  <2>1. DOMAIN senders' = Accounts /\ DOMAIN requests' = Ids
    BY <1>2, <1>3 DEF Typed
  <2>2. /\ Total(RequestsMade(senders'), Accounts) = Total(RequestsMade(senders), Accounts) + 0
        /\ Cardinality(Marked(markers')) = Cardinality(Marked(markers)) + (0 - 0)
        /\ totals'.fees = totals.fees + usd
        /\ totals'.requests = totals.requests + 0 /\ totals'.offChain = totals.offChain + 0
    BY <1>4, <1>5, <1>6
  <2> QED BY <1>4, <1>6, <1>7, <2>1, <2>2, TotalsMove
<1>9. RowsConsistent'
  <2>1. \A b \in Accounts : senders[b] # NoRow => senders'[b] # NoRow
    <3> HIDE DEF a
    <3> QED BY <1>2 DEF Typed
  <2>2. ASSUME NEW q \in Ids, requests'[q] # NoRow
        PROVE  /\ requests'[q].fee # NoFee => q \in Marked(markers')
               /\ senders'[requests'[q].sender] # NoRow
    <3>1. CASE q = r
      BY <1>1, <1>3, <2>1, <3>1
    <3>2. CASE q # r
      <4>1. requests'[q] = requests[q] /\ requests[q].sender \in Accounts
        BY <1>3, <2>2, <3>2 DEF Typed, RequestRow
      <4> QED BY <2>1, <2>2, <4>1 DEF RowsConsistent
    <3> QED BY <3>1, <3>2
  <2> QED BY <2>2 DEF RowsConsistent
<1> QED BY <1>2, <1>3, <1>4, <1>8, <1>9 DEF TablesKept, Typed

LEMMA DeliveredIs ==
  ASSUME Typed, NEW r \in Ids, requests[r] # NoRow
  PROVE  /\ Delivered(r) \in RequestRow /\ Delivered(r) # NoRow
         /\ Delivered(r).fee = requests[r].fee /\ Delivered(r).sender = requests[r].sender
         /\ Delivered(r).priority = requests[r].priority
<1>1. requests[r] \in RequestRow
  BY DEF Typed
<1>2. Delivered(r) \in RequestRow
  BY <1>1 DEF Delivered, RequestRow
<1> QED BY <1>1, <1>2, MarketplaceAssumption DEF Delivered, RequestRow

LEMMA DeliveryKept ==
  ASSUME Typed, RowsConsistent, TotalsAddUp, status' = status,
         NEW mech, NEW ids \in SUBSET Ids, NEW won, MarketplaceDelivery(mech, ids, won)
  PROVE  TablesKept({})
<1> DEFINE done == Undelivered(ids, won)
           n == Cardinality(done)
<1>1. done \in SUBSET Ids /\ \A r \in done : requests[r] # NoRow
  BY DEF Undelivered
<1>2. n \in Nat
  BY <1>1, MarketplaceAssumption, FS_Subset, FS_CardinalityType
<1>3. /\ requests' = [r \in Ids |-> IF r \in done THEN Delivered(r) ELSE requests[r]]
      /\ totals' = [CountAta(totals, 1) EXCEPT !.deliveries = @ + n, !.transactions = @ + 1]
      /\ senders' = senders /\ markers' = markers
  BY DEF MarketplaceDelivery
<1> HIDE DEF done, n
<1>4. /\ requests' \in [Ids -> {NoRow} \cup RequestRow]
      /\ \A r \in Ids : \/ requests'[r] = requests[r]
                        \/ /\ requests[r] # NoRow /\ requests'[r] # NoRow
                           /\ requests'[r].fee = requests[r].fee
                           /\ requests'[r].sender = requests[r].sender
  <2>1. \A r \in done : /\ Delivered(r) \in RequestRow /\ Delivered(r) # NoRow
                        /\ Delivered(r).fee = requests[r].fee
                        /\ Delivered(r).sender = requests[r].sender
    BY <1>1, DeliveredIs
  <2> QED BY <1>1, <1>3, <2>1 DEF Typed
<1>5. /\ totals' \in TotalsRow /\ totals'.fees = totals.fees
      /\ totals'.requests = totals.requests /\ totals'.offChain = totals.offChain
  <2>1. PICK t \in TotalsRow : /\ t = CountAta(totals, 1) /\ t.fees = totals.fees
                              /\ t.requests = totals.requests /\ t.offChain = totals.offChain
    BY CountAtaIs DEF Typed
  <2>2. PICK u : u = [t EXCEPT !.deliveries = t.deliveries + n]
    OBVIOUS
  <2>3. /\ u \in TotalsRow /\ u.fees = totals.fees
        /\ u.requests = totals.requests /\ u.offChain = totals.offChain
    BY <1>2, <2>1, <2>2 DEF TotalsRow
  <2>4. totals' = [u EXCEPT !.transactions = u.transactions + 1]
    BY <1>3, <2>1, <2>2 DEF TotalsRow
  <2> QED BY <2>3, <2>4 DEF TotalsRow
<1> QED BY <1>3, <1>4, <1>5, FeesKept

LEMMA UsdTyped ==
  ASSUME NEW rate \in Rates, NEW price \in Nat PROVE FeeToUsd(rate, price) \in Nat
BY MarketplaceAssumption DEF FeeToUsd

LEMMA MechDeliverKept ==
  ASSUME Typed, RowsConsistent, TotalsAddUp, status' = status,
         NEW mech, NEW id \in Ids, NEW rate \in Rates, NEW price \in Nat,
         MechDeliver(mech, id, rate, price)
  PROVE  TablesKept({})
<1>1. CASE ~ Known(mech)
  <2>1. requests' = requests /\ markers' = markers /\ senders' = senders /\ totals' = totals
    BY <1>1 DEF MechDeliver, askVars, ataVars
  <2> QED BY <2>1, FeesKept DEF Typed
<1>2. CASE Known(mech)
  <2> DEFINE usd     == FeeToUsd(rate, price)
             t       == IF ~ IsMarketplaceTransaction THEN CountAta(totals, 1) ELSE totals
             updated == IF IsNewDelivery(id) THEN Delivered(id) ELSE requests[id]
             paid    == [updated EXCEPT !.fee = usd]
  <2>1. /\ requests' = [requests EXCEPT ![id] = IF Charged(id) THEN paid ELSE updated]
        /\ IF Charged(id) THEN senders' = PaidBy(senders, id, usd) /\ totals' = Paid(t, usd)
           ELSE totals' = t /\ senders' = senders
        /\ markers' = markers
    BY <1>2 DEF MechDeliver
  <2>2. /\ t \in TotalsRow /\ t.fees = totals.fees /\ t.requests = totals.requests
        /\ t.offChain = totals.offChain
    BY CountAtaIs DEF Typed
  <2>3. usd \in Nat
    BY UsdTyped
  <2>4. \/ updated = requests[id]
        \/ /\ requests[id] # NoRow /\ updated \in RequestRow /\ updated # NoRow
           /\ updated.fee = requests[id].fee /\ updated.sender = requests[id].sender
    BY DeliveredIs DEF IsNewDelivery
  <2> HIDE DEF t, usd, updated
  <2>5. CASE Charged(id)
    <3>1. requests[id] # NoRow /\ requests[id] \in RequestRow
      BY <2>5 DEF Charged, Typed
    <3>2. updated \in RequestRow /\ updated.sender = requests[id].sender
      BY <2>4, <3>1
    <3>3. paid \in RequestRow /\ paid.fee = usd /\ paid.sender = requests[id].sender
      BY <2>3, <3>2 DEF RequestRow
    <3> HIDE DEF paid
    <3>4. /\ requests' = [requests EXCEPT ![id] = paid] /\ senders' = PaidBy(senders, id, usd)
          /\ totals' = Paid(t, usd) /\ markers' = markers
      BY <2>1, <2>5
    <3> QED BY <2>2, <2>3, <2>5, <3>3, <3>4, ChargeKept
  <2>6. CASE ~ Charged(id)
    <3>1. requests' = [requests EXCEPT ![id] = updated] /\ senders' = senders /\ totals' = t
          /\ markers' = markers
      BY <2>1, <2>6
    <3>2. requests' \in [Ids -> {NoRow} \cup RequestRow]
      BY <2>4, <3>1 DEF Typed
    <3>3. \A r \in Ids : \/ requests'[r] = requests[r]
                        \/ /\ requests[r] # NoRow /\ requests'[r] # NoRow
                           /\ requests'[r].fee = requests[r].fee
                           /\ requests'[r].sender = requests[r].sender
      BY <2>4, <3>1 DEF Typed
    <3> QED BY <2>2, <3>1, <3>2, <3>3, FeesKept
  <2> QED BY <2>5, <2>6
<1> QED BY <1>1, <1>2

LEMMA SignedKept ==
  ASSUME Typed, RowsConsistent, TotalsAddUp, status' = status,
         NEW id \in Ids, NEW rate \in Rates, NEW price \in Nat,
         SignedDeliver(id, rate, price)
  PROVE  TablesKept({})
<1> DEFINE usd  == FeeToUsd(rate, price)
           paid == [requests[id] EXCEPT !.fee = usd]
<1>1. markers' = markers /\ usd \in Nat /\ totals \in TotalsRow
  BY UsdTyped DEF SignedDeliver, Typed
<1>2. CASE Charged(id)
  <2>1. /\ requests' = [requests EXCEPT ![id] = paid] /\ senders' = PaidBy(senders, id, usd)
        /\ totals' = Paid(totals, usd)
    BY <1>2 DEF SignedDeliver
  <2> HIDE DEF usd
  <2>2. requests[id] # NoRow /\ requests[id] \in RequestRow
    BY <1>2 DEF Charged, Typed
  <2>3. paid \in RequestRow /\ paid.fee = usd /\ paid.sender = requests[id].sender
    BY <1>1, <2>2 DEF RequestRow
  <2> HIDE DEF paid
  <2> QED BY <1>1, <1>2, <2>1, <2>3, ChargeKept
<1>3. CASE ~ Charged(id)
  <2>1. requests' = requests /\ senders' = senders /\ totals' = totals
    BY <1>3 DEF SignedDeliver
  <2> QED BY <1>1, <2>1, FeesKept DEF Typed
<1> QED BY <1>2, <1>3

LEMMA BatchKept ==
  ASSUME Typed, RowsConsistent, TotalsAddUp, status' = status,
         NEW mech, NEW requester \in Accounts, NEW ids \in SUBSET Ids,
         DeliveryWithSignatures(mech, requester, ids)
  PROVE  TablesKept({})
<1> DEFINE n == Cardinality(ids)
           service == ServiceOfMultisig(requester)
           ata == service # NoService /\ tx.id \notin ataTxs
           row == SenderSigned(OrNew(requester), n, ata)
           t   == CountAta(totals, IF ata THEN 2 ELSE 1)
<1>1. n \in Nat
  BY MarketplaceAssumption, FS_Subset, FS_CardinalityType
<1>2. /\ senders' = [senders EXCEPT ![requester] = row] /\ totals' = TotalsSigned(t, n)
      /\ requests' = requests /\ markers' = markers
  BY DEF DeliveryWithSignatures, askVars
<1>3. /\ row \in SenderRow /\ row # NoRow /\ row.fees = FeesPaid(senders)[requester]
      /\ row.requests = RequestsMade(senders)[requester] + n
  <2> HIDE DEF n, ata
  <2>1. row \in SenderRow /\ row.fees = OrNew(requester).fees
        /\ row.requests = OrNew(requester).requests + n
    BY <1>1, OrNewIs, SenderSignedIs
  <2> HIDE DEF row
  <2> QED BY <2>1, OrNewIs, MarketplaceAssumption
<1>4. /\ totals' \in TotalsRow /\ totals'.fees = totals.fees
      /\ totals'.requests = totals.requests + n /\ totals'.offChain = totals.offChain + n
  <2>1. /\ t \in TotalsRow /\ t.fees = totals.fees /\ t.requests = totals.requests
        /\ t.offChain = totals.offChain
    <3>1. PICK by \in Nat : by = IF ata THEN 2 ELSE 1
      OBVIOUS
    <3>2. t = CountAta(totals, by)
      BY <3>1
    <3> HIDE DEF t, ata
    <3> QED BY <3>2, CountAtaIs DEF Typed
  <2> HIDE DEF t, n
  <2> QED BY <1>1, <1>2, <2>1, TotalsSignedIs
<1>5. /\ Total(FeesPaid(senders), Accounts) \in Int
      /\ Total(RequestsMade(senders), Accounts) \in Int
      /\ Total(FeesCost(requests), Ids) \in Int
      /\ Cardinality(Marked(markers)) \in Nat
      /\ totals.fees \in Nat /\ totals.requests \in Nat /\ totals.offChain \in Nat
  BY SumsTyped
<1> HIDE DEF row, n
<1>6. /\ Total(FeesPaid(senders'), Accounts) = Total(FeesPaid(senders), Accounts)
      /\ Total(RequestsMade(senders'), Accounts) = Total(RequestsMade(senders), Accounts) + n
  <2>1. FeesPaid(senders)[requester] \in Int /\ RequestsMade(senders)[requester] \in Int
    BY DEF FeesPaid, RequestsMade, Typed, SenderRow
  <2>2. /\ Total(FeesPaid(senders'), Accounts)
             = Total(FeesPaid(senders), Accounts) + (row.fees - FeesPaid(senders)[requester])
        /\ Total(RequestsMade(senders'), Accounts)
             = Total(RequestsMade(senders), Accounts)
                 + (row.requests - RequestsMade(senders)[requester])
    <3>1. /\ senders \in [Accounts -> {NoRow} \cup SenderRow] /\ row \in SenderRow
          /\ senders' = [senders EXCEPT ![requester] = row]
      BY <1>2, <1>3 DEF Typed
    <3> QED BY <3>1, SendersChange
  <2> QED BY <1>1, <1>3, <1>5, <2>1, <2>2
<1>7. TotalsAddUp'
  <2>1. DOMAIN senders' = Accounts /\ DOMAIN requests' = Ids
    BY <1>2 DEF Typed
  <2>2. /\ Total(FeesPaid(senders'), Accounts) = Total(FeesPaid(senders), Accounts) + 0
        /\ Total(FeesCost(requests'), Ids) = Total(FeesCost(requests), Ids) + 0
        /\ Cardinality(Marked(markers')) = Cardinality(Marked(markers)) + (n - n)
        /\ totals'.fees = totals.fees + 0
    BY <1>1, <1>2, <1>4, <1>5, <1>6
  <2> QED BY <1>1, <1>4, <1>6, <2>1, <2>2, TotalsMove
<1>8. RowsConsistent'
  <2>1. \A b \in Accounts : senders[b] # NoRow => senders'[b] # NoRow
    BY <1>2, <1>3 DEF Typed
  <2>2. \A r \in Ids : requests[r] # NoRow => requests[r].sender \in Accounts
    BY DEF Typed, RequestRow
  <2> QED BY <1>2, <2>1, <2>2 DEF RowsConsistent
<1> QED BY <1>2, <1>3, <1>4, <1>7, <1>8 DEF TablesKept, Typed

-----------------------------------------------------------------------------
(* The steps. *)

\* The next log is handled.
LEMMA HandleKeeps ==
  ASSUME IInv, NEW price \in Nat, HandleAt(price)
  PROVE  IInv'
<1> DEFINE log == Head(logs)
<1> USE DEF IInv
<1>1. /\ logs # <<>> /\ logs' = Tail(logs) /\ Dispatch(log, price) /\ logs \in Seq(Log)
      /\ status' = status /\ advertised' = advertised /\ tx' = tx
  BY DEF HandleAt, chainVars, Typed
<1>2. /\ logs' \in Seq(Log) /\ Len(logs') = Len(logs) - 1 /\ Len(logs) \in Nat
      /\ 1 \in DOMAIN logs /\ log = logs[1] /\ log \in Log
      /\ \A k \in DOMAIN logs' : k + 1 \in DOMAIN logs /\ logs'[k] = logs[k + 1]
  BY <1>1, NextLog
<1>3. /\ log.op = "createMech" => log.mech \in Mechs \ Strangers
      /\ log.op = "multisig" => log.service \in Services
      /\ log.op = "mechRequest" =>
           /\ log.mech \in Mechs /\ log.id \in Ids
           /\ log.mech \notin Strangers => log.id \notin Marked(markers)
      /\ log.op \in {"request", "batch"} =>
           log.mech \in Mechs /\ log.requester \in Accounts /\ log.ids \in SUBSET Ids
      /\ log.op = "request" => /\ Len(logs) = 1
                              /\ \A r \in log.ids : r \notin Marked(markers) /\ status[r] # "none"
      /\ log.op = "delivery" => log.ids \in SUBSET Ids
      /\ log.op \in {"mechDeliver", "signed"} => log.id \in Ids /\ log.rate \in Rates
  <2> HIDE DEF log
  <2> QED BY <1>2, LogFields DEF LogsFresh
\* All that a handler has to show.
<1>4. ASSUME NEW new, TablesKept(new), new # {} => Len(logs) = 1,
             createMechs' \subseteq Mechs \ Strangers,
             \A a \in DOMAIN multisigs' : multisigs'[a] \in Services
      PROVE  IInv'
  <2>1. Typed'
    BY <1>1, <1>2, <1>4 DEF Typed, TablesKept
  <2>2. LogsFresh'
    <3> SUFFICES ASSUME NEW k \in DOMAIN logs'
        PROVE  /\ logs'[k].op = "createMech" => logs'[k].mech \notin Strangers
               /\ logs'[k].op = "mechRequest" /\ logs'[k].mech \notin Strangers =>
                    logs'[k].id \notin Marked(markers')
               /\ logs'[k].op = "request" =>
                    /\ k = Len(logs')
                    /\ \A r \in logs'[k].ids : r \notin Marked(markers') /\ status'[r] # "none"
      BY DEF LogsFresh
    <3>1. k + 1 \in DOMAIN logs /\ logs'[k] = logs[k + 1] /\ k \in 1 .. Len(logs) - 1
      BY <1>2
    <3>2. new = {}
      BY <1>2, <1>4, <3>1
    <3>3. Marked(markers') \subseteq Marked(markers)
      BY <1>4, <3>2 DEF TablesKept
    <3> QED BY <1>1, <1>2, <3>1, <3>3 DEF LogsFresh
  <2> QED BY <1>4, <2>1, <2>2 DEF TablesKept
<1>5. ASSUME requests' = requests, markers' = markers, senders' = senders, totals' = totals,
             createMechs' \subseteq Mechs \ Strangers,
             \A a \in DOMAIN multisigs' : multisigs'[a] \in Services
      PROVE  IInv'
  <2>1. TablesKept({})
    BY <1>1, <1>5, FeesKept DEF Typed
  <2> QED BY <1>4, <1>5, <2>1
<1>6. createMechs \subseteq Mechs \ Strangers /\ \A a \in DOMAIN multisigs : multisigs[a] \in Services
  BY DEF Typed
<1> HIDE DEF log, IInv
<1> USE DEF askVars, ataVars, mechVars, registryVars
<1>7. CASE log.op = "factory" /\ FactoryCreate(log.mech, log.rate)
  BY <1>5, <1>6, <1>7 DEF FactoryCreate
<1>8. CASE log.op = "createMech" /\ CreateMech(log.mech)
  BY <1>3, <1>5, <1>6, <1>8 DEF CreateMech
<1>9. CASE log.op = "rate" /\ MaxDeliveryRateUpdated(log.mech, log.rate)
  BY <1>5, <1>6, <1>9 DEF MaxDeliveryRateUpdated
<1>10. CASE log.op = "createService" /\ CreateService(log.service, log.config)
  BY <1>5, <1>6, <1>10 DEF CreateService
<1>11. CASE log.op = "multisig" /\ CreateMultisig(log.service, log.account)
  <2>1. \A a \in DOMAIN multisigs' : multisigs'[a] \in Services
    BY <1>3, <1>6, <1>11 DEF CreateMultisig
  <2> QED BY <1>5, <1>6, <1>11, <2>1 DEF CreateMultisig
<1>12. CASE log.op = "register" /\ RegisterInstance(log.service, log.agent)
  BY <1>5, <1>6, <1>12 DEF RegisterInstance
<1>13. CASE log.op = "terminate" /\ TerminateService(log.service)
  BY <1>5, <1>6, <1>13 DEF TerminateService
<1>14. CASE log.op = "transfer" /\ ServiceTransfer(log.service, log.account)
  BY <1>5, <1>6, <1>14 DEF ServiceTransfer
<1>15. CASE log.op = "update" /\ UpdateService(log.service, log.config)
  BY <1>5, <1>6, <1>15 DEF UpdateService
<1>16. CASE log.op = "metadata" /\ ComplementaryMetadataUpdated(log.service, log.hash)
  BY <1>5, <1>6, <1>16 DEF ComplementaryMetadataUpdated
<1>17. CASE log.op = "karma" /\ MechKarmaChanged(log.mech, log.change)
  BY <1>5, <1>6, <1>17 DEF MechKarmaChanged
<1>18. CASE log.op = "mechRequest" /\ MechRequest(log.mech, log.id, log.ipfs)
  <2>1. createMechs' = createMechs /\ multisigs' = multisigs
    BY <1>18 DEF MechRequest
  <2>2. TablesKept({})
    BY <1>1, <1>3, <1>18, MechRequestKept DEF IInv
  <2> QED BY <1>4, <1>6, <2>1, <2>2
<1>19. CASE log.op = "request" /\ MarketplaceRequest(log.mech, log.requester, log.ids)
  <2>1. createMechs' = createMechs /\ multisigs' = multisigs
    BY <1>19 DEF MarketplaceRequest
  <2>2. TablesKept(log.ids)
    BY <1>1, <1>3, <1>19, RequestKept DEF IInv
  <2> QED BY <1>3, <1>4, <1>6, <1>19, <2>1, <2>2
<1>20. CASE log.op = "delivery" /\ MarketplaceDelivery(log.mech, log.ids, log.won)
  <2>1. createMechs' = createMechs /\ multisigs' = multisigs
    BY <1>20 DEF MarketplaceDelivery
  <2>2. TablesKept({})
    BY <1>1, <1>3, <1>20, DeliveryKept DEF IInv
  <2> QED BY <1>4, <1>6, <2>1, <2>2
<1>21. CASE log.op = "mechDeliver" /\ MechDeliver(log.mech, log.id, log.rate, price)
  <2>1. createMechs' = createMechs /\ multisigs' = multisigs
    BY <1>21 DEF MechDeliver
  <2>2. TablesKept({})
    BY <1>1, <1>3, <1>21, MechDeliverKept DEF IInv
  <2> QED BY <1>4, <1>6, <2>1, <2>2
<1>22. CASE log.op = "signed" /\ SignedDeliver(log.id, log.rate, price)
  <2>1. createMechs' = createMechs /\ multisigs' = multisigs
    BY <1>22 DEF SignedDeliver
  <2>2. TablesKept({})
    BY <1>1, <1>3, <1>22, SignedKept DEF IInv
  <2> QED BY <1>4, <1>6, <2>1, <2>2
<1>23. CASE log.op = "batch" /\ DeliveryWithSignatures(log.mech, log.requester, log.ids)
  <2>1. createMechs' = createMechs /\ multisigs' = multisigs
    BY <1>23 DEF DeliveryWithSignatures
  <2>2. TablesKept({})
    BY <1>1, <1>3, <1>23, BatchKept DEF IInv
  <2> QED BY <1>4, <1>6, <2>1, <2>2
<1> QED BY <1>1, <1>7, <1>8, <1>9, <1>10, <1>11, <1>12, <1>13, <1>14, <1>15, <1>16, <1>17,
           <1>18, <1>19, <1>20, <1>21, <1>22, <1>23 DEF Dispatch

\* Logs that ask for what is not yet marked.
MayEmit(emitted) ==
  /\ emitted \in Seq(Log)
  /\ \A k \in DOMAIN emitted :
       /\ emitted[k].op = "createMech" => emitted[k].mech \notin Strangers
       /\ emitted[k].op = "mechRequest" /\ emitted[k].mech \notin Strangers =>
            emitted[k].id \notin Marked(markers)
       /\ emitted[k].op = "request" =>
            /\ k = Len(emitted)
            /\ \A r \in emitted[k].ids : r \notin Marked(markers) /\ status'[r] # "none"

\* What the contracts do for signed deliveries: a log for each and one for the batch, in
\* either order.
SignedCall(m, a, rate, batchFirst, ids) ==
  LET each == [k \in DOMAIN SetToSeq(ids) |->
                 [op |-> "signed", mech |-> m, id |-> SetToSeq(ids)[k], rate |-> rate]]
      batch == <<[op |-> "batch", mech |-> m, requester |-> a, ids |-> ids]>> IN
  /\ Emit("signed", IF batchFirst THEN batch \o each ELSE each \o batch)
  /\ NewStatus(ids \cap New, "signed")
  /\ answered' = answered + Cardinality(ids)
  /\ UNCHANGED <<minted, advertised, announced, payloads>>

LEMMA SignedCalls ==
  ASSUME EmitSigned
  PROVE  \E m \in createMechs, a \in Accounts, rate \in Rates, batchFirst \in BOOLEAN :
         \E ids \in SUBSET Ids : SignedCall(m, a, rate, batchFirst, ids)
<1>1. PICK m \in createMechs, a \in Accounts, rate \in Rates, batchFirst \in BOOLEAN :
        \E ids \in ((SUBSET New) \ {{}}) \cup {{r} : r \in {i \in Ids : status[i] = "asked"}} :
          SignedCall(m, a, rate, batchFirst, ids)
  BY Zenon DEF EmitSigned, Each, SignedCall
<1>2. \A ids \in ((SUBSET New) \ {{}}) \cup {{r} : r \in {i \in Ids : status[i] = "asked"}} :
        ids \in SUBSET Ids
  BY DEF New
<1> QED BY <1>1, <1>2, Zenon

\* The contracts log what the tables do not know yet.
LEMMA EmitKeeps ==
  ASSUME IInv, NEW kind, NEW emitted, Emit(kind, emitted),
         advertised' \in [Mechs -> Rates],
         \A r \in Marked(markers) : status'[r] # "none",
         MayEmit(emitted)
  PROVE  IInv'
<1>1. /\ logs' = emitted /\ requests' = requests /\ markers' = markers /\ senders' = senders
      /\ totals' = totals /\ createMechs' = createMechs /\ multisigs' = multisigs
  BY DEF Emit, mechVars, registryVars, askVars, ataVars
<1>2. tx'.from \in Accounts
  BY DEF Emit, IInv, Typed
<1>3. Typed'
  BY <1>1, <1>2 DEF Typed, IInv, MayEmit
<1>4. LogsFresh'
  BY <1>1 DEF LogsFresh, MayEmit
<1>5. RowsConsistent' /\ TotalsAddUp'
  BY <1>1 DEF IInv, RowsConsistent, TotalsAddUp, FeesConserved, SendersAddUp
<1> QED BY <1>3, <1>4, <1>5 DEF IInv

LEMMA ContractsKeep ==
  ASSUME IInv, Contracts
  PROVE  IInv'
<1>1. /\ advertised \in [Mechs -> Rates] /\ createMechs \subseteq Mechs \ Strangers
      /\ \A r \in Marked(markers) : r \in Ids /\ status[r] # "none"
  BY DEF IInv, Typed, RowsConsistent, Marked
<1>2. \A ids \in SUBSET Ids : IsFiniteSet(ids) /\ SetToSeq(ids) \in Seq(ids)
  BY MarketplaceAssumption, FS_Subset, OneEach
<1>3. \A ids, s : \A r \in Ids : NewStatus(ids, s) =>
        status'[r] = IF r \in ids THEN s ELSE status[r]
  BY DEF NewStatus
<1>4. CASE EmitCreateMech
  <2>1. PICK m \in Mechs \ (createMechs \cup Strangers), logged \in BOOLEAN :
          /\ Emit("createMech",
                  IF logged THEN <<[op |-> "factory", mech |-> m, rate |-> advertised[m]],
                                   [op |-> "createMech", mech |-> m]>>
                  ELSE <<[op |-> "createMech", mech |-> m]>>)
          /\ advertised' = advertised /\ status' = status
    BY <1>4 DEF EmitCreateMech
  <2>2. [op |-> "createMech", mech |-> m] \in Log
        /\ [op |-> "factory", mech |-> m, rate |-> advertised[m]] \in Log
    BY <1>1 DEF Log
  <2>3. CASE logged
    <3>1. Emit("createMech", <<[op |-> "factory", mech |-> m, rate |-> advertised[m]],
                               [op |-> "createMech", mech |-> m]>>)
      BY <2>1, <2>3
    <3>2. MayEmit(<<[op |-> "factory", mech |-> m, rate |-> advertised[m]],
                    [op |-> "createMech", mech |-> m]>>)
      BY <2>2 DEF MayEmit
    <3> QED BY <1>1, <2>1, <3>1, <3>2, EmitKeeps
  <2>4. CASE ~ logged
    <3>1. Emit("createMech", <<[op |-> "createMech", mech |-> m]>>)
      BY <2>1, <2>4
    <3>2. MayEmit(<<[op |-> "createMech", mech |-> m]>>)
      BY <2>2 DEF MayEmit
    <3> QED BY <1>1, <2>1, <3>1, <3>2, EmitKeeps
  <2> QED BY <2>3, <2>4
<1>5. CASE EmitRate
  <2>1. PICK m \in createMechs, rate \in Rates :
          /\ Emit("rate", <<[op |-> "rate", mech |-> m, rate |-> rate]>>)
          /\ advertised' = [advertised EXCEPT ![m] = rate] /\ status' = status
    BY <1>5 DEF EmitRate
  <2>2. [op |-> "rate", mech |-> m, rate |-> rate] \in Log
    BY <1>1 DEF Log
  <2>3. advertised' \in [Mechs -> Rates]
    BY <1>1, <2>1
  <2>4. MayEmit(<<[op |-> "rate", mech |-> m, rate |-> rate]>>)
    BY <2>2 DEF MayEmit
  <2> QED BY <1>1, <2>1, <2>3, <2>4, EmitKeeps
<1>6. CASE EmitRegistry
  <2>1. advertised' = advertised /\ status' = status
    BY <1>6 DEF EmitRegistry
  <2>2. \E log \in Log : /\ log.op \notin {"createMech", "mechRequest", "request"}
                         /\ Emit("registry", <<log>>)
    <3>1. FirstHash \in Hashes
      BY MarketplaceAssumption DEF FirstHash
    <3>2. PICK s \in Services :
            \/ Emit("registry", <<[op |-> "createService", service |-> s, config |-> FirstHash]>>)
            \/ \E a \in Accounts :
                 \/ Emit("registry", <<[op |-> "multisig", service |-> s, account |-> a]>>)
                 \/ Emit("registry", <<[op |-> "transfer", service |-> s, account |-> a]>>)
            \/ \E a \in Agents : Emit("registry", <<[op |-> "register", service |-> s, agent |-> a]>>)
            \/ Emit("registry", <<[op |-> "terminate", service |-> s]>>)
            \/ \E h \in Hashes :
                 \/ Emit("registry", <<[op |-> "update", service |-> s, config |-> h]>>)
                 \/ Emit("registry", <<[op |-> "metadata", service |-> s, hash |-> h]>>)
            \/ \E m \in Mechs, k \in Karma :
                 Emit("registry", <<[op |-> "karma", service |-> s, mech |-> m, change |-> k]>>)
      BY <1>6 DEF EmitRegistry
    <3> QED BY <3>1, <3>2 DEF Log
  <2>3. PICK log \in Log : /\ log.op \notin {"createMech", "mechRequest", "request"}
                          /\ Emit("registry", <<log>>)
    BY <2>2
  <2>4. MayEmit(<<log>>)
    BY <2>3 DEF MayEmit
  <2> QED BY <1>1, <2>1, <2>3, <2>4, EmitKeeps
<1>7. CASE EmitRequest
  <2>1. PICK m \in createMechs, a \in Accounts, ids \in (SUBSET New) \ {{}}, ipfs \in BOOLEAN :
          /\ Emit("request",
                  [k \in DOMAIN SetToSeq(ids) |->
                     [op |-> "mechRequest", mech |-> m, id |-> SetToSeq(ids)[k], ipfs |-> ipfs]]
                    \o <<[op |-> "request", mech |-> m, requester |-> a, ids |-> ids]>>)
          /\ NewStatus(ids, "asked") /\ advertised' = advertised
    BY <1>7 DEF EmitRequest, Each
  <2> DEFINE q == SetToSeq(ids)
             each == [k \in DOMAIN q |->
                        [op |-> "mechRequest", mech |-> m, id |-> q[k], ipfs |-> ipfs]]
             last == [op |-> "request", mech |-> m, requester |-> a, ids |-> ids]
  <2>2. /\ ids \in SUBSET Ids /\ \A r \in ids : status[r] = "none"
        /\ q \in Seq(ids) /\ last \in Log /\ m \in Mechs
    BY <1>1, <1>2 DEF New, Log
  <2>3. /\ each \in Seq(Log) /\ Len(each) = Len(q) /\ DOMAIN each = 1 .. Len(q)
        /\ \A k \in 1 .. Len(q) : each[k].op = "mechRequest" /\ each[k].id \in ids
    <3>1. \A k \in DOMAIN q : [op |-> "mechRequest", mech |-> m, id |-> q[k], ipfs |-> ipfs] \in Log
      BY <2>2 DEF Log
    <3> HIDE DEF q
    <3> QED BY <2>2, <3>1
  <2> HIDE DEF q, each, last
  <2>4. \A r \in ids : r \notin Marked(markers) /\ status'[r] # "none"
    BY <1>1, <1>3, <2>1, <2>2
  <2>5. \A r \in Marked(markers) : status'[r] # "none"
    BY <1>1, <1>3, <2>1, <2>2
  <2>6. /\ each \o <<last>> \in Seq(Log) /\ Len(each \o <<last>>) = Len(q) + 1
        /\ \A k \in DOMAIN (each \o <<last>>) :
             (each \o <<last>>)[k] = IF k <= Len(q) THEN each[k] ELSE last
        /\ DOMAIN (each \o <<last>>) = 1 .. Len(q) + 1 /\ Len(q) \in Nat
    BY <2>2, <2>3
  <2>7. last.op = "request" /\ last.ids = ids
    BY DEF last
  <2>8. Emit("request", each \o <<last>>)
    BY <2>1 DEF each, last, q
  <2> DEFINE emitted == each \o <<last>>
  <2>9. MayEmit(emitted)
    BY <2>3, <2>4, <2>6, <2>7 DEF MayEmit
  <2> HIDE DEF emitted
  <2>10. Emit("request", emitted)
    BY <2>8 DEF emitted
  <2> QED BY <1>1, <2>1, <2>5, <2>9, <2>10, EmitKeeps
<1>8. CASE EmitDelivery
  <2> DEFINE Logged(m, ids, won, rate) ==
               <<[op |-> "delivery", mech |-> m, ids |-> ids, won |-> won]>>
                 \o [k \in DOMAIN SetToSeq(won) |->
                       [op |-> "mechDeliver", mech |-> m, id |-> SetToSeq(won)[k], rate |-> rate]]
  <2>0. PICK m \in createMechs, ids \in (SUBSET {r \in Ids : status[r] \in {"asked", "done"}}) \ {{}},
             rate \in Rates :
          \E won \in SUBSET {r \in ids : status[r] = "asked"} :
            /\ Emit("delivery", Logged(m, ids, won, rate))
            /\ NewStatus(won, "done") /\ advertised' = advertised
    BY <1>8, Zenon DEF EmitDelivery, Each
  <2>1. PICK won \in SUBSET Ids :
          /\ Emit("delivery", Logged(m, ids, won, rate))
          /\ NewStatus(won, "done") /\ advertised' = advertised /\ ids \in SUBSET Ids
    <3> HIDE DEF Logged
    <3> QED BY <2>0
  <2> DEFINE q == SetToSeq(won)
             each == [k \in DOMAIN q |->
                        [op |-> "mechDeliver", mech |-> m, id |-> q[k], rate |-> rate]]
             first == [op |-> "delivery", mech |-> m, ids |-> ids, won |-> won]
             emitted == <<first>> \o each
  <2>2. m \in Mechs /\ q \in Seq(won) /\ first \in Log
    BY <1>1, <1>2 DEF Log
  <2>3. /\ each \in Seq(Log) /\ Len(each) = Len(q) /\ DOMAIN each = 1 .. Len(q)
        /\ \A k \in 1 .. Len(q) : each[k].op = "mechDeliver"
    <3>1. \A k \in DOMAIN q :
            [op |-> "mechDeliver", mech |-> m, id |-> q[k], rate |-> rate] \in Log
      BY <2>2 DEF Log
    <3> HIDE DEF q
    <3> QED BY <2>2, <3>1
  <2> HIDE DEF q, each
  <2>4. first.op = "delivery"
    OBVIOUS
  <2> HIDE DEF first
  <2>5. MayEmit(emitted)
    BY <2>2, <2>3, <2>4 DEF MayEmit
  <2>6. Emit("delivery", emitted)
    BY <2>1 DEF each, first, q
  <2>7. \A r \in Marked(markers) : status'[r] # "none"
    BY <1>1, <1>3, <2>1
  <2> HIDE DEF emitted
  <2> QED BY <1>1, <2>1, <2>5, <2>6, <2>7, EmitKeeps
<1>9. CASE EmitSigned
  <2>0. PICK m \in createMechs, a \in Accounts, rate \in Rates, batchFirst \in BOOLEAN,
             ids \in SUBSET Ids :
          SignedCall(m, a, rate, batchFirst, ids)
    BY <1>9, SignedCalls, Zenon
  <2>1. /\ NewStatus(ids \cap New, "signed") /\ advertised' = advertised
    BY <2>0, Zenon DEF SignedCall
  <2> DEFINE q == SetToSeq(ids)
             each == [k \in DOMAIN q |->
                        [op |-> "signed", mech |-> m, id |-> q[k], rate |-> rate]]
             one == [op |-> "batch", mech |-> m, requester |-> a, ids |-> ids]
             emitted == IF batchFirst THEN <<one>> \o each ELSE each \o <<one>>
  <2>2. m \in Mechs /\ q \in Seq(ids) /\ one \in Log
    BY <1>1, <1>2 DEF Log
  <2>3. /\ each \in Seq(Log) /\ Len(each) = Len(q) /\ DOMAIN each = 1 .. Len(q)
        /\ \A k \in 1 .. Len(q) : each[k].op = "signed"
    <3>1. \A k \in DOMAIN q : [op |-> "signed", mech |-> m, id |-> q[k], rate |-> rate] \in Log
      BY <2>2 DEF Log
    <3> HIDE DEF q
    <3> QED BY <2>2, <3>1
  <2> HIDE DEF q, each
  <2>4. one.op = "batch"
    OBVIOUS
  <2> HIDE DEF one
  <2>5. MayEmit(emitted)
    <3>1. MayEmit(<<one>> \o each) /\ MayEmit(each \o <<one>>)
      BY <2>2, <2>3, <2>4 DEF MayEmit
    <3> QED BY <3>1
  <2>6. Emit("signed", emitted)
    BY <2>0, Zenon DEF SignedCall, each, one, q
  <2>7. \A r \in Marked(markers) : status'[r] # "none"
    <3>1. \A r \in Ids : status'[r] = IF r \in ids \cap New THEN "signed" ELSE status[r]
      BY <2>1 DEF NewStatus
    <3> QED BY <1>1, <3>1
  <2> HIDE DEF emitted
  <2> QED BY <1>1, <2>1, <2>5, <2>6, <2>7, EmitKeeps
<1>10. CASE EmitDirect
  <2>1. PICK m \in createMechs, r \in Ids :
          /\ \/ /\ status[r] = "none" /\ NewStatus({r}, m)
                /\ Emit("direct", <<[op |-> "mechRequest", mech |-> m, id |-> r, ipfs |-> TRUE]>>)
             \/ /\ status' = status
                /\ \E rate \in Rates :
                     Emit("direct", <<[op |-> "mechDeliver", mech |-> m, id |-> r, rate |-> rate]>>)
          /\ advertised' = advertised
    BY <1>10 DEF EmitDirect
  <2>2. m \in Mechs
    BY <1>1
  <2>3. CASE /\ status[r] = "none" /\ NewStatus({r}, m)
             /\ Emit("direct", <<[op |-> "mechRequest", mech |-> m, id |-> r, ipfs |-> TRUE]>>)
    <3>1. r \notin Marked(markers) /\ \A q \in Marked(markers) : status'[q] # "none"
      BY <1>1, <1>3, <2>3
    <3>2. [op |-> "mechRequest", mech |-> m, id |-> r, ipfs |-> TRUE] \in Log
      BY <2>2 DEF Log
    <3>3. MayEmit(<<[op |-> "mechRequest", mech |-> m, id |-> r, ipfs |-> TRUE]>>)
      BY <3>1, <3>2 DEF MayEmit
    <3> QED BY <1>1, <2>1, <2>3, <3>1, <3>3, EmitKeeps
  <2>4. ASSUME NEW rate \in Rates, status' = status,
               Emit("direct", <<[op |-> "mechDeliver", mech |-> m, id |-> r, rate |-> rate]>>)
        PROVE  IInv'
    <3>1. [op |-> "mechDeliver", mech |-> m, id |-> r, rate |-> rate] \in Log
      BY <2>2 DEF Log
    <3>2. MayEmit(<<[op |-> "mechDeliver", mech |-> m, id |-> r, rate |-> rate]>>)
      BY <3>1 DEF MayEmit
    <3> QED BY <1>1, <2>1, <2>4, <3>2, EmitKeeps
  <2> QED BY <2>1, <2>3, <2>4
<1>11. CASE EmitForeign
  <2>1. advertised' = advertised /\ status' = status
    BY <1>11 DEF EmitForeign
  <2>2. \E log \in Log : /\ log.op \in {"mechRequest", "mechDeliver", "rate"}
                         /\ log.mech \in Strangers /\ Emit("foreign", <<log>>)
    <3>1. PICK m \in Strangers, r \in Ids, rate \in Rates :
            \/ Emit("foreign", <<[op |-> "mechRequest", mech |-> m, id |-> r, ipfs |-> TRUE]>>)
            \/ Emit("foreign", <<[op |-> "mechDeliver", mech |-> m, id |-> r, rate |-> rate]>>)
            \/ Emit("foreign", <<[op |-> "rate", mech |-> m, rate |-> rate]>>)
      BY <1>11 DEF EmitForeign
    <3>2. m \in Mechs
      BY MarketplaceAssumption
    <3>3. /\ [op |-> "mechRequest", mech |-> m, id |-> r, ipfs |-> TRUE] \in Log
          /\ [op |-> "mechDeliver", mech |-> m, id |-> r, rate |-> rate] \in Log
          /\ [op |-> "rate", mech |-> m, rate |-> rate] \in Log
      BY <3>2 DEF Log
    <3> QED BY <3>1, <3>3
  <2>3. PICK log \in Log : /\ log.op \in {"mechRequest", "mechDeliver", "rate"}
                          /\ log.mech \in Strangers /\ Emit("foreign", <<log>>)
    BY <2>2
  <2>4. MayEmit(<<log>>)
    BY <2>3 DEF MayEmit
  <2> QED BY <1>1, <2>1, <2>3, <2>4, EmitKeeps
<1> QED BY <1>4, <1>5, <1>6, <1>7, <1>8, <1>9, <1>10, <1>11 DEF Contracts

LEMMA Initially ==
  ASSUME Init
  PROVE  IInv
<1>1. Typed
  <2>1. tx.from \in Accounts
    BY MarketplaceAssumption DEF Init
  <2>2. totals \in TotalsRow
    BY DEF Init, TotalsRow
  <2>3. createMechs \subseteq Mechs \ Strangers /\ advertised \in [Mechs -> Rates] /\ logs \in Seq(Log)
    BY MarketplaceAssumption DEF Init
  <2>4. \A a \in DOMAIN multisigs : multisigs[a] \in Services
    BY MarketplaceAssumption DEF Init
  <2>5. /\ requests \in [Ids -> {NoRow} \cup RequestRow] /\ markers \in [Ids -> {NoRow} \cup MarkerRow]
        /\ senders \in [Accounts -> {NoRow} \cup SenderRow]
    BY DEF Init
  <2> QED BY <2>1, <2>2, <2>3, <2>4, <2>5 DEF Typed
<1>2. LogsFresh
  BY DEF Init, LogsFresh
<1>3. /\ DOMAIN requests = Ids /\ DOMAIN markers = Ids /\ DOMAIN senders = Accounts
      /\ \A r \in Ids : requests[r] = NoRow /\ markers[r] = NoRow
      /\ \A a \in Accounts : senders[a] = NoRow
      /\ totals.fees = 0 /\ totals.requests = 0 /\ totals.offChain = 0
  BY DEF Init
<1>4. Marked(markers) = {}
  BY <1>3 DEF Marked
<1>5. RowsConsistent
  BY <1>3, <1>4 DEF RowsConsistent
<1>6. TotalsAddUp
  <2>1. /\ \A a \in Accounts : FeesPaid(senders)[a] = 0 /\ RequestsMade(senders)[a] = 0
        /\ \A r \in Ids : FeesCost(requests)[r] = 0
    BY <1>3 DEF FeesPaid, RequestsMade, FeesCost
  <2>2. /\ Total(FeesPaid(senders), Accounts) = 0 /\ Total(RequestsMade(senders), Accounts) = 0
        /\ Total(FeesCost(requests), Ids) = 0
    BY <2>1, MarketplaceAssumption, SumZero
  <2>3. Cardinality(Marked(markers)) = 0
    BY <1>4, FS_EmptySet
  <2> QED BY <1>3, <2>2, <2>3 DEF TotalsAddUp, FeesConserved, SendersAddUp
<1> QED BY <1>1, <1>2, <1>5, <1>6 DEF IInv

LEMMA Stuttering ==
  ASSUME IInv, UNCHANGED vars
  PROVE  IInv'
<1>1. /\ logs' = logs /\ advertised' = advertised /\ tx' = tx /\ createMechs' = createMechs
      /\ multisigs' = multisigs /\ requests' = requests /\ markers' = markers
      /\ senders' = senders /\ totals' = totals /\ status' = status
  BY DEF vars, chainVars, mechVars, registryVars, askVars, ataVars
<1> QED BY <1>1 DEF IInv, Typed, LogsFresh, RowsConsistent, TotalsAddUp, FeesConserved, SendersAddUp

LEMMA PricesTyped == PossiblePrices \subseteq Nat
BY MarketplaceAssumption DEF PossiblePrices

LEMMA Step ==
  ASSUME IInv, [Next]_vars
  PROVE  IInv'
<1>1. CASE Contracts
  BY <1>1, ContractsKeep
<1>2. CASE Handle
  <2>1. PICK price \in PossiblePrices : HandleAt(price)
    BY <1>2 DEF Handle
  <2> QED BY <2>1, PricesTyped, HandleKeeps
<1>3. CASE UNCHANGED vars
  BY <1>3, Stuttering
<1> QED BY <1>1, <1>2, <1>3 DEF Next

LEMMA Invariance == Spec => []IInv
<1>1. Init => IInv
  BY Initially
<1>2. IInv /\ [Next]_vars => IInv'
  BY Step
<1> QED BY <1>1, <1>2, PTL DEF Spec

\* The totals of the squid are those of its rows: what all senders paid is what all
\* requests finally cost, though the mech and the marketplace both log a delivery and
\* both of their handlers may settle its fee; and each request counted is some sender's.
THEOREM TotalsAlwaysAddUp == Spec => []TotalsAddUp
<1>1. IInv => TotalsAddUp
  BY DEF IInv
<1> QED BY <1>1, Invariance, PTL

-----------------------------------------------------------------------------
(* A settled request. *)

Settled(r) ==
  /\ requests'[r].fee = requests[r].fee
  /\ requests'[r].sender = requests[r].sender
  /\ requests'[r].priority = requests[r].priority

LEMMA HandleSettles ==
  ASSUME IInv, NEW price, HandleAt(price), NEW r \in Ids, requests[r] # NoRow,
         requests[r].fee # NoFee
  PROVE  Settled(r)
<1> DEFINE log == Head(logs)
<1>1. /\ Dispatch(log, price) /\ log = logs[1] /\ 1 \in DOMAIN logs /\ log \in Log
  BY NextLog DEF HandleAt, IInv, Typed
<1>2. r \in Marked(markers) /\ requests \in [Ids -> {NoRow} \cup RequestRow]
      /\ requests[r] \in RequestRow /\ ~ Charged(r)
  BY DEF IInv, RowsConsistent, Typed, Charged
<1>3. /\ log.op = "mechRequest" => log.id \in Ids
      /\ (log.op = "mechRequest" /\ log.mech \notin Strangers) => log.id \notin Marked(markers)
      /\ log.op = "request" => log.ids \in SUBSET Ids /\ r \notin log.ids
      /\ log.op \in {"mechDeliver", "signed"} => log.id \in Ids
  <2> HIDE DEF log
  <2> QED BY <1>1, <1>2, LogFields DEF IInv, LogsFresh
<1> HIDE DEF log
<1>4. requests' = requests => Settled(r)
  BY DEF Settled
<1> USE DEF askVars, ataVars, mechVars, registryVars
<1>5. CASE \/ log.op = "factory" /\ FactoryCreate(log.mech, log.rate)
           \/ log.op = "createMech" /\ CreateMech(log.mech)
           \/ log.op = "rate" /\ MaxDeliveryRateUpdated(log.mech, log.rate)
           \/ log.op = "createService" /\ CreateService(log.service, log.config)
           \/ log.op = "multisig" /\ CreateMultisig(log.service, log.account)
           \/ log.op = "register" /\ RegisterInstance(log.service, log.agent)
  BY <1>4, <1>5 DEF FactoryCreate, CreateMech, MaxDeliveryRateUpdated, CreateService,
                    CreateMultisig, RegisterInstance
<1>6. CASE \/ log.op = "terminate" /\ TerminateService(log.service)
           \/ log.op = "transfer" /\ ServiceTransfer(log.service, log.account)
           \/ log.op = "update" /\ UpdateService(log.service, log.config)
           \/ log.op = "metadata" /\ ComplementaryMetadataUpdated(log.service, log.hash)
           \/ log.op = "karma" /\ MechKarmaChanged(log.mech, log.change)
           \/ log.op = "batch" /\ DeliveryWithSignatures(log.mech, log.requester, log.ids)
  BY <1>4, <1>6 DEF TerminateService, ServiceTransfer, UpdateService,
                    ComplementaryMetadataUpdated, MechKarmaChanged, DeliveryWithSignatures
<1>7. CASE log.op = "mechRequest" /\ MechRequest(log.mech, log.id, log.ipfs)
  <2>1. CASE Known(log.mech)
    <3>1. log.id # r
      BY <1>2, <1>3, <1>7, <2>1 DEF Known, IInv, Typed
    <3>2. requests'[r] = requests[r]
      BY <1>2, <1>3, <1>7, <3>1 DEF MechRequest
    <3> QED BY <3>2 DEF Settled
  <2>2. CASE ~ Known(log.mech)
    BY <1>4, <1>7, <2>2 DEF MechRequest
  <2> QED BY <2>1, <2>2
<1>8. CASE log.op = "request" /\ MarketplaceRequest(log.mech, log.requester, log.ids)
  <2>1. requests'[r] = requests[r]
    BY <1>3, <1>8 DEF MarketplaceRequest
  <2> QED BY <2>1 DEF Settled
<1>9. CASE log.op = "delivery" /\ MarketplaceDelivery(log.mech, log.ids, log.won)
  <2>1. requests'[r] = IF r \in Undelivered(log.ids, log.won) THEN Delivered(r) ELSE requests[r]
    BY <1>9 DEF MarketplaceDelivery
  <2> QED BY <2>1, DeliveredIs DEF Settled, IInv
<1>10. CASE log.op = "mechDeliver" /\ MechDeliver(log.mech, log.id, log.rate, price)
  <2>1. CASE Known(log.mech) /\ log.id = r
    <3>1. requests'[r] = IF IsNewDelivery(r) THEN Delivered(r) ELSE requests[r]
      BY <1>2, <1>10, <2>1 DEF MechDeliver
    <3> QED BY <3>1, DeliveredIs DEF Settled, IInv
  <2>2. CASE ~ (Known(log.mech) /\ log.id = r)
    <3>1. requests'[r] = requests[r]
      BY <1>2, <1>3, <1>10, <2>2 DEF MechDeliver
    <3> QED BY <3>1 DEF Settled
  <2> QED BY <2>1, <2>2
<1>11. CASE log.op = "signed" /\ SignedDeliver(log.id, log.rate, price)
  <2>1. requests'[r] = requests[r]
    BY <1>2, <1>3, <1>11 DEF SignedDeliver
  <2> QED BY <2>1 DEF Settled
<1> QED BY <1>1, <1>5, <1>6, <1>7, <1>8, <1>9, <1>10, <1>11 DEF Dispatch

\* A request whose fee was settled keeps its fee, its sender and its priority mech,
\* whichever of its logs come again.
THEOREM SettledRequestsStay == Spec => RequestSettledOnce
<1>1. ASSUME IInv, [Next]_vars
      PROVE  [\A r \in Rows(requests) : requests[r].fee # NoFee =>
                /\ requests'[r].fee = requests[r].fee
                /\ requests'[r].sender = requests[r].sender
                /\ requests'[r].priority = requests[r].priority]_vars
  <2> SUFFICES ASSUME NEW r \in Rows(requests), requests[r].fee # NoFee, Next
               PROVE  Settled(r)
    BY <1>1 DEF Settled
  <2>1. r \in Ids /\ requests[r] # NoRow
    BY <1>1 DEF Rows, IInv, Typed
  <2>2. CASE Contracts
    <3>1. \A kind, emitted : Emit(kind, emitted) => requests' = requests
      BY DEF Emit, askVars
    <3>2. CASE EmitCreateMech \/ EmitRate \/ EmitRegistry
      BY <3>1, <3>2 DEF EmitCreateMech, EmitRate, EmitRegistry, Settled
    <3>3. CASE EmitRequest
      BY <3>1, <3>3 DEF EmitRequest, Settled
    <3>4. CASE EmitDelivery
      BY <3>1, <3>4 DEF EmitDelivery, Settled
    <3>5. CASE EmitSigned
      BY <3>1, <3>5, SignedCalls DEF SignedCall, Settled
    <3>6. CASE EmitDirect \/ EmitForeign
      BY <3>1, <3>6 DEF EmitDirect, EmitForeign, Settled
    <3> QED BY <2>2, <3>2, <3>3, <3>4, <3>5, <3>6 DEF Contracts
  <2>3. CASE Handle
    <3>1. PICK price \in PossiblePrices : HandleAt(price)
      BY <2>3 DEF Handle
    <3> QED BY <1>1, <2>1, <3>1, HandleSettles
  <2> QED BY <2>2, <2>3 DEF Next
<1> QED BY <1>1, Invariance, PTL DEF Spec, RequestSettledOnce

-----------------------------------------------------------------------------
(* The logs of a transaction compose. *)

\* The parts of the state that the totals do not depend on have their types.
RowTypes ==
  /\ mechs \in [Services -> {NoRow} \cup MechRow]
  /\ services \in [Services -> {NoRow} \cup ServiceRow]
  /\ metadata \in [Services -> {NoRow} \cup [hash : Hashes, mech : Mechs \cup {NoRow}]]
  /\ agents \in [Services -> Seq(Agents)] /\ perAgent \in [Agents -> Nat]
  /\ delivers \in [Ids -> {NoRow} \cup DeliverRow]
  /\ ataTxs \subseteq Nat /\ tx.id \in Nat
  /\ DOMAIN multisigs \subseteq Accounts
  /\ pendingRates \in [Mechs -> Rates \cup {NoRate}] /\ pendingPayloads \subseteq Ids

\* A multisig has a service, and a mech its own, whose Mech row is of a mech of it.
Linked ==
  /\ \A a \in DOMAIN multisigs : services[multisigs[a]] # NoRow
  /\ \A m \in createMechs : mechs[ServiceOf[m]] # NoRow /\ services[ServiceOf[m]] # NoRow
  /\ \A s \in Services : mechs[s] # NoRow =>
       mechs[s].address \in createMechs /\ ServiceOf[mechs[s].address] = s

\* The marketplace's log of a request, and the mech's, with a payload.
AskedByLog(r) == \E k \in DOMAIN logs : logs[k].op = "request" /\ r \in logs[k].ids
PayloadLog(r) ==
  \E k \in DOMAIN logs : /\ logs[k].op = "mechRequest" /\ logs[k].id = r /\ logs[k].ipfs
                         /\ logs[k].mech \in createMechs
SignedLog(r)  == \E k \in DOMAIN logs : logs[k].op = "signed" /\ logs[k].id = r
RateLog(m)    == \E k \in DOMAIN logs : logs[k].op = "rate" /\ logs[k].mech = m
CreationLog(m) == \E k \in DOMAIN logs : logs[k].op = "createMech" /\ logs[k].mech = m

\* What logs say is so: the rates are those advertised, a service is there before its
\* mechs and multisigs, and what is delivered was not signed.  The creation of a mech is
\* logged last, after its rate if that is.
LogBacked(k) ==
  LET log == logs[k] IN
  /\ log.op = "factory" => /\ log.rate = advertised[log.mech]
                           /\ k = 1 /\ Len(logs) = 2
                           /\ logs[2].op = "createMech" /\ logs[2].mech = log.mech
  /\ log.op = "createMech" => /\ k = Len(logs) /\ services[ServiceOf[log.mech]] # NoRow
                              /\ k = 1 \/ (k = 2 /\ logs[1].op = "factory")
  /\ log.op = "rate" /\ log.mech \notin Strangers => log.rate = advertised[log.mech]
  /\ log.op = "multisig" => services[log.service] # NoRow /\ Len(logs) = 1
  /\ log.op = "mechRequest" /\ log.mech \notin Strangers /\ tx.toMarketplace => AskedByLog(log.id)
  /\ log.op = "mechDeliver" /\ log.mech \notin Strangers => status[log.id] # "signed"
  /\ log.op = "delivery" => \A r \in log.won : status[r] # "signed"

LogsBacked == \A k \in DOMAIN logs : LogBacked(k)

\* A payload has reached its marker or will: it is parked, or still to be logged, and the
\* log that makes the marker is to come.
HasPayload(r) == markers[r] # NoRow /\ markers[r].payload
PayloadsComing ==
  /\ \A r \in payloads :
       \/ HasPayload(r)
       \/ AskedByLog(r) /\ (r \in pendingPayloads \/ PayloadLog(r))
       \/ PayloadLog(r) /\ ~ tx.toMarketplace
  /\ \A r \in pendingPayloads : AskedByLog(r)

\* A signed delivery has its row or is to be logged.
SignedComing ==
  \A r \in DOMAIN status : status[r] = "signed" =>
    \/ delivers[r] # NoRow /\ delivers[r].offChain /\ delivers[r].rate # NoRate
    \/ SignedLog(r)

\* A mech advertises its rate, or is to: the rate is to be logged, or was by the factory
\* and waits for the log of the mech.
RatesComing ==
  /\ \A m \in announced : m \in createMechs \/ CreationLog(m)
  /\ \A s \in Services : mechs[s] # NoRow /\ mechs[s].address \in announced =>
       mechs[s].rate = advertised[mechs[s].address] \/ RateLog(mechs[s].address)
  /\ \A k \in DOMAIN logs : logs[k].op = "createMech" /\ logs[k].mech \in announced =>
       k = 2 \/ pendingRates[logs[k].mech] = advertised[logs[k].mech]
  /\ \A m \in Mechs : pendingRates[m] # NoRate => CreationLog(m)

Statuses == DOMAIN status = Ids /\ payloads \subseteq Ids /\ announced \subseteq Mechs

ComposeInv ==
  /\ RowTypes /\ Statuses /\ Linked /\ LogsBacked
  /\ PayloadsComing /\ SignedComing /\ RatesComing

-----------------------------------------------------------------------------
(* The Mech and the Service rows. *)

\* One table of mechs has the rows of another, with the same addresses, and the same
\* rates where the other has one.
SameMechs(t, u) ==
  /\ u \in [Services -> {NoRow} \cup MechRow]
  /\ \A s \in Services :
       /\ u[s] # NoRow <=> t[s] # NoRow
       /\ t[s] # NoRow => u[s].address = t[s].address

KeptMechs(t, u) ==
  /\ SameMechs(t, u)
  /\ \A s \in Services : t[s] # NoRow => u[s].rate = t[s].rate \/ t[s].rate = NoRate

KeptServices(t, u) ==
  /\ u \in [Services -> {NoRow} \cup ServiceRow]
  /\ \A s \in Services : t[s] # NoRow => u[s] # NoRow

LEMMA MechReplaced ==
  ASSUME NEW t \in [Services -> {NoRow} \cup MechRow], NEW s \in Services, t[s] # NoRow,
         NEW row \in MechRow, row.address = t[s].address,
         row.rate = t[s].rate \/ t[s].rate = NoRate
  PROVE  KeptMechs(t, [t EXCEPT ![s] = row])
<1>1. row # NoRow
  BY MarketplaceAssumption
<1> QED BY <1>1 DEF KeptMechs, SameMechs

LEMMA MechRerated ==
  ASSUME NEW t \in [Services -> {NoRow} \cup MechRow], NEW s \in Services, t[s] # NoRow,
         NEW row \in MechRow, row.address = t[s].address
  PROVE  SameMechs(t, [t EXCEPT ![s] = row])
<1>1. row # NoRow
  BY MarketplaceAssumption
<1> QED BY <1>1 DEF SameMechs

LEMMA MechsUnchanged ==
  ASSUME NEW t \in [Services -> {NoRow} \cup MechRow]
  PROVE  KeptMechs(t, t)
BY DEF KeptMechs, SameMechs

LEMMA MechsKeptTwice ==
  ASSUME NEW t, NEW u, NEW v, KeptMechs(t, u), KeptMechs(u, v)
  PROVE  KeptMechs(t, v)
BY DEF KeptMechs, SameMechs

LEMMA CountedKeeps ==
  ASSUME NEW t \in [Services -> {NoRow} \cup MechRow], NEW ids \in SUBSET Ids, NEW mech
  PROVE  KeptMechs(t, Counted(t, ids, mech))
<1> DEFINE of(s) == {r \in ids : Known(requests[r].priority) /\ ServiceOf[requests[r].priority] = s}
           own(s) == {r \in of(s) : requests[r].priority = mech}
           row(s) == [t[s] EXCEPT !.self = @ + Cardinality(own(s)),
                                  !.others = @ + Cardinality(of(s) \ own(s))]
           u == [s \in Services |-> IF t[s] = NoRow THEN NoRow ELSE row(s)]
<1>1. u = Counted(t, ids, mech)
  BY DEF Counted
<1>2. ASSUME NEW s \in Services, t[s] # NoRow
      PROVE  row(s) \in MechRow /\ row(s).address = t[s].address /\ row(s).rate = t[s].rate
  <2>1. IsFiniteSet(own(s)) /\ IsFiniteSet(of(s) \ own(s))
    BY MarketplaceAssumption, FS_Subset
  <2>2. Cardinality(own(s)) \in Nat /\ Cardinality(of(s) \ own(s)) \in Nat
    BY <2>1, FS_CardinalityType
  <2> HIDE DEF of, own
  <2>3. t[s] \in MechRow
    BY <1>2
  <2>4. PICK n \in Nat, m \in Nat : n = Cardinality(own(s)) /\ m = Cardinality(of(s) \ own(s))
    BY <2>2
  <2>5. PICK a : a = [t[s] EXCEPT !.self = t[s].self + n]
    OBVIOUS
  <2>6. a \in MechRow /\ a.address = t[s].address /\ a.rate = t[s].rate /\ a.others = t[s].others
    BY <2>3, <2>5 DEF MechRow
  <2>7. PICK b : b = [a EXCEPT !.others = t[s].others + m]
    OBVIOUS
  <2>8. b \in MechRow /\ b.address = t[s].address /\ b.rate = t[s].rate
    BY <2>3, <2>6, <2>7 DEF MechRow
  <2> QED BY <2>4, <2>5, <2>7, <2>8, Zenon
<1> HIDE DEF row
<1>3. KeptMechs(t, u)
  BY <1>2, MarketplaceAssumption DEF KeptMechs, SameMechs
<1> QED BY <1>1, <1>3

\* The rows that handlers leave.
LEMMA MechRowIs ==
  ASSUME NEW row \in MechRow, NEW n \in Nat
  PROVE  /\ \A rate \in Rates : [row EXCEPT !.rate = rate] \in MechRow
                                /\ [row EXCEPT !.rate = rate].address = row.address
                                /\ [row EXCEPT !.rate = rate].rate = rate
         /\ \A a \in Accounts : [row EXCEPT !.owner = a] \in MechRow
                                /\ [row EXCEPT !.owner = a].address = row.address
                                /\ [row EXCEPT !.owner = a].rate = row.rate
         /\ \A h \in Hashes : [row EXCEPT !.config = h] \in MechRow
                              /\ [row EXCEPT !.config = h].address = row.address
                              /\ [row EXCEPT !.config = h].rate = row.rate
         /\ \A k \in Int : [row EXCEPT !.karma = @ + k] \in MechRow
                           /\ [row EXCEPT !.karma = @ + k].address = row.address
                           /\ [row EXCEPT !.karma = @ + k].rate = row.rate
         /\ [row EXCEPT !.received = @ + n] \in MechRow
         /\ [row EXCEPT !.received = @ + n].address = row.address
         /\ [row EXCEPT !.received = @ + n].rate = row.rate
         /\ [row EXCEPT !.deliveries = @ + n] \in MechRow
         /\ [row EXCEPT !.deliveries = @ + n].address = row.address
         /\ [row EXCEPT !.deliveries = @ + n].rate = row.rate
BY DEF MechRow

LEMMA MechBatchIs ==
  ASSUME NEW row \in MechRow, NEW n \in Nat
  PROVE  LET new == [row EXCEPT !.deliveries = @ + n, !.received = @ + n, !.self = @ + n] IN
         new \in MechRow /\ new.address = row.address /\ new.rate = row.rate
<1>1. PICK a : a = [row EXCEPT !.deliveries = row.deliveries + n]
  OBVIOUS
<1>2. /\ a \in MechRow /\ a.address = row.address /\ a.rate = row.rate
      /\ a.received = row.received /\ a.self = row.self
  BY <1>1 DEF MechRow
<1>3. PICK b : b = [a EXCEPT !.received = row.received + n]
  OBVIOUS
<1>4. b \in MechRow /\ b.address = row.address /\ b.rate = row.rate /\ b.self = row.self
  BY <1>2, <1>3 DEF MechRow
<1>5. PICK c : c = [b EXCEPT !.self = row.self + n]
  OBVIOUS
<1>6. c \in MechRow /\ c.address = row.address /\ c.rate = row.rate
  BY <1>4, <1>5 DEF MechRow
<1> QED BY <1>1, <1>3, <1>5, <1>6, Zenon

LEMMA ServiceReplaced ==
  ASSUME NEW t \in [Services -> {NoRow} \cup ServiceRow], NEW s \in Services,
         NEW row \in ServiceRow
  PROVE  KeptServices(t, [t EXCEPT ![s] = row])
<1>1. row # NoRow
  BY MarketplaceAssumption
<1> QED BY <1>1 DEF KeptServices

LEMMA ServicesUnchanged ==
  ASSUME NEW t \in [Services -> {NoRow} \cup ServiceRow]
  PROVE  KeptServices(t, t)
BY DEF KeptServices

LEMMA ServiceRowIs ==
  ASSUME NEW row \in ServiceRow, NEW n \in Nat
  PROVE  /\ \A a \in Accounts :
              [row EXCEPT !.latest = a, !.historical = @ \cup {a}] \in ServiceRow
         /\ \A h \in Hashes : [row EXCEPT !.config = h] \in ServiceRow
         /\ [row EXCEPT !.requests = @ + n] \in ServiceRow
         /\ [row EXCEPT !.deliveries = @ + n] \in ServiceRow
         /\ row.config \in Hashes
<1>1. ASSUME NEW a \in Accounts
      PROVE  [row EXCEPT !.latest = a, !.historical = @ \cup {a}] \in ServiceRow
  <2>1. PICK x : x = [row EXCEPT !.latest = a]
    OBVIOUS
  <2>2. x \in ServiceRow /\ x.historical = row.historical
    BY <2>1 DEF ServiceRow
  <2>3. row.historical \cup {a} \in SUBSET Accounts
    BY DEF ServiceRow
  <2>4. PICK h \in SUBSET Accounts : h = row.historical \cup {a}
    BY <2>3
  <2>5. [x EXCEPT !.historical = h] \in ServiceRow
    BY <2>2 DEF ServiceRow
  <2> QED BY <2>1, <2>4, <2>5, Zenon
<1>2. /\ \A h \in Hashes : [row EXCEPT !.config = h] \in ServiceRow
      /\ [row EXCEPT !.requests = @ + n] \in ServiceRow
      /\ [row EXCEPT !.deliveries = @ + n] \in ServiceRow
      /\ row.config \in Hashes
  BY DEF ServiceRow
<1> QED BY <1>1, <1>2

LEMMA NewRowsTyped ==
  /\ \A h \in Hashes : NewService(h) \in ServiceRow
  /\ \A m \in Mechs, rate \in Rates \cup {NoRate}, h \in Hashes, a \in Accounts :
       NewMech(m, rate, h, a) \in MechRow
BY DEF NewService, NewMech, ServiceRow, MechRow

-----------------------------------------------------------------------------
(* The tables keep their types. *)

LEMMA StillLinked ==
  ASSUME Typed, Linked, SameMechs(mechs, mechs'), KeptServices(services, services'),
         createMechs' = createMechs, multisigs' = multisigs
  PROVE  Linked'
<1>1. \A m \in createMechs : ServiceOf[m] \in Services
  BY MarketplaceAssumption DEF Typed
<1>2. /\ \A a \in DOMAIN multisigs : services'[multisigs[a]] # NoRow
      /\ \A m \in createMechs : mechs'[ServiceOf[m]] # NoRow /\ services'[ServiceOf[m]] # NoRow
  BY <1>1 DEF Typed, Linked, SameMechs, KeptServices
<1>3. \A s \in Services : mechs'[s] # NoRow =>
        mechs'[s].address \in createMechs /\ ServiceOf[mechs'[s].address] = s
  BY DEF Linked, SameMechs
<1> QED BY <1>2, <1>3 DEF Linked

\* What each handler shows of the tables.
TablesTyped ==
  /\ RowTypes' /\ Linked'
  /\ KeptServices(services, services') /\ createMechs \subseteq createMechs'

\* The mechs' and the registry's logs.
LEMMA FactoryTyped ==
  ASSUME Typed, RowTypes, Linked, tx' = tx, NEW m \in Mechs, NEW rate \in Rates,
         FactoryCreate(m, rate)
  PROVE  TablesTyped /\ mechs' = mechs
<1> USE DEF registryVars, askVars, ataVars
<1>1. RowTypes'
  BY DEF FactoryCreate, RowTypes
<1>2. /\ mechs' = mechs /\ services' = services /\ createMechs' = createMechs
      /\ multisigs' = multisigs
  BY DEF FactoryCreate
<1>3. KeptMechs(mechs, mechs') /\ KeptServices(services, services')
  BY <1>2, MechsUnchanged, ServicesUnchanged DEF RowTypes
<1> QED BY <1>1, <1>2, <1>3, StillLinked DEF TablesTyped, KeptMechs

LEMMA CreateMechTyped ==
  ASSUME Typed, RowTypes, Linked, tx' = tx, NEW m \in Mechs, services[ServiceOf[m]] # NoRow,
         CreateMech(m)
  PROVE  /\ TablesTyped
         /\ \A s \in Services \ {ServiceOf[m]} : mechs'[s] = mechs[s]
         /\ mechs'[ServiceOf[m]].address = m
         /\ mechs'[ServiceOf[m]].rate = pendingRates[m]
<1> USE DEF registryVars, askVars, ataVars
<1> DEFINE s == ServiceOf[m]
           row == NewMech(m, pendingRates[m], services[s].config, tx.from)
<1>1. s \in Services /\ services[s] \in ServiceRow /\ pendingRates[m] \in Rates \cup {NoRate}
      /\ tx.from \in Accounts
  BY MarketplaceAssumption DEF RowTypes, Typed
<1>2. services[s].config \in Hashes
  BY <1>1, ServiceRowIs, 0 \in Nat
<1>3. row \in MechRow /\ row.address = m /\ row.rate = pendingRates[m] /\ row # NoRow
  <2>1. row \in MechRow
    BY <1>1, <1>2, NewRowsTyped
  <2> QED BY <2>1, MarketplaceAssumption DEF NewMech
<1>4. /\ mechs' = [mechs EXCEPT ![s] = row] /\ createMechs' = createMechs \cup {m}
      /\ services' = services /\ multisigs' = multisigs
  BY DEF CreateMech
<1> HIDE DEF row
<1>5. mechs' \in [Services -> {NoRow} \cup MechRow]
  BY <1>1, <1>3, <1>4 DEF RowTypes
<1>6. RowTypes'
  BY <1>5 DEF CreateMech, RowTypes
<1>7. mechs'[s] = row /\ \A q \in Services \ {s} : mechs'[q] = mechs[q]
  BY <1>1, <1>4 DEF RowTypes
<1>8. Linked'
  <2>1. \A n \in createMechs : n \in Mechs /\ ServiceOf[n] \in Services
    BY MarketplaceAssumption DEF Typed
  <2>2. \A n \in createMechs \cup {m} : mechs'[ServiceOf[n]] # NoRow /\ services[ServiceOf[n]] # NoRow
    BY <1>3, <1>7, <2>1 DEF Linked
  <2>3. \A q \in Services : mechs'[q] # NoRow =>
          mechs'[q].address \in createMechs \cup {m} /\ ServiceOf[mechs'[q].address] = q
    BY <1>3, <1>7 DEF Linked
  <2> QED BY <1>4, <2>2, <2>3 DEF Linked
<1> QED BY <1>3, <1>4, <1>6, <1>7, <1>8, ServicesUnchanged DEF TablesTyped, RowTypes

LEMMA RateTyped ==
  ASSUME Typed, RowTypes, Linked, tx' = tx, NEW m \in Mechs, NEW rate \in Rates,
         MaxDeliveryRateUpdated(m, rate)
  PROVE  /\ TablesTyped /\ SameMechs(mechs, mechs')
         /\ \A s \in Services : mechs[s] # NoRow =>
              mechs'[s].rate = IF mechs[s].address = m THEN rate ELSE mechs[s].rate
<1> USE DEF registryVars, askVars, ataVars
<1> DEFINE s == ServiceOf[m]
           row == [mechs[s] EXCEPT !.rate = rate]
<1>1. /\ services' = services /\ createMechs' = createMechs /\ multisigs' = multisigs
      /\ s \in Services
      /\ mechs' = IF Known(m) /\ mechs[s].address = m THEN [mechs EXCEPT ![s] = row] ELSE mechs
  BY MarketplaceAssumption DEF MaxDeliveryRateUpdated
<1>2. \A q \in Services : mechs[q] # NoRow /\ mechs[q].address = m => q = s /\ Known(m)
  BY DEF Linked, Known
<1>3. KeptServices(services, services')
  BY <1>1, ServicesUnchanged DEF RowTypes
<1>4. /\ SameMechs(mechs, mechs')
      /\ \A q \in Services : mechs[q] # NoRow =>
           mechs'[q].rate = IF mechs[q].address = m THEN rate ELSE mechs[q].rate
  <2>1. CASE Known(m) /\ mechs[s].address = m
    <3>1. mechs[s] # NoRow /\ mechs[s] \in MechRow
      BY <1>1, <2>1 DEF Known, Linked, RowTypes
    <3>2. row \in MechRow /\ row.address = mechs[s].address /\ row.rate = rate
      BY <3>1, MechRowIs, 0 \in Nat
    <3> HIDE DEF row
    <3>3. SameMechs(mechs, [mechs EXCEPT ![s] = row])
      BY <1>1, <3>1, <3>2, MechRerated DEF RowTypes
    <3>4. mechs' = [mechs EXCEPT ![s] = row]
      BY <1>1, <2>1
    <3>5. mechs'[s] = row /\ \A q \in Services \ {s} : mechs'[q] = mechs[q]
      BY <1>1, <3>4 DEF RowTypes
    <3> QED BY <1>2, <2>1, <3>2, <3>3, <3>4, <3>5
  <2>2. CASE ~ (Known(m) /\ mechs[s].address = m)
    <3>1. mechs' = mechs
      BY <1>1, <2>2
    <3>2. SameMechs(mechs, mechs')
      BY <3>1, MechsUnchanged DEF RowTypes, KeptMechs
    <3> QED BY <1>2, <2>2, <3>1, <3>2
  <2> QED BY <2>1, <2>2
<1> HIDE DEF row, s
<1>5. RowTypes'
  BY <1>4 DEF MaxDeliveryRateUpdated, RowTypes, SameMechs
<1> QED BY <1>1, <1>3, <1>4, <1>5, StillLinked DEF TablesTyped

LEMMA CreateServiceTyped ==
  ASSUME Typed, RowTypes, Linked, tx' = tx, NEW s \in Services, NEW config \in Hashes,
         CreateService(s, config)
  PROVE  TablesTyped /\ KeptMechs(mechs, mechs')
<1> USE DEF mechVars, askVars, ataVars
<1>1. NewService(config) \in ServiceRow
  BY NewRowsTyped
<1>2. /\ mechs' = mechs /\ createMechs' = createMechs /\ multisigs' = multisigs
      /\ services' = [services EXCEPT ![s] = NewService(config)]
  BY DEF CreateService
<1>3. KeptMechs(mechs, mechs') /\ KeptServices(services, services')
  BY <1>1, <1>2, MechsUnchanged, ServiceReplaced DEF RowTypes
<1>4. RowTypes'
  <2>1. agents' \in [Services -> Seq(Agents)]
    BY DEF CreateService, RowTypes
  <2> QED BY <1>2, <1>3, <2>1 DEF CreateService, RowTypes, KeptServices
<1> QED BY <1>2, <1>3, <1>4, StillLinked DEF TablesTyped, KeptMechs

LEMMA MultisigTyped ==
  ASSUME Typed, RowTypes, Linked, tx' = tx, NEW s \in Services, NEW a \in Accounts,
         services[s] # NoRow, CreateMultisig(s, a)
  PROVE  TablesTyped /\ KeptMechs(mechs, mechs')
<1> USE DEF mechVars, askVars, ataVars
<1> DEFINE row == [services[s] EXCEPT !.latest = a, !.historical = @ \cup {a}]
<1>1. row \in ServiceRow
  BY ServiceRowIs, 0 \in Nat DEF RowTypes
<1>2. /\ mechs' = mechs /\ createMechs' = createMechs
      /\ services' = [services EXCEPT ![s] = row]
      /\ multisigs' = [b \in DOMAIN multisigs \cup {a} |->
                         IF b \in DOMAIN multisigs THEN multisigs[b] ELSE s]
  BY DEF CreateMultisig, WithMultisig
<1> HIDE DEF row
<1>3. KeptMechs(mechs, mechs') /\ KeptServices(services, services')
  BY <1>1, <1>2, MechsUnchanged, ServiceReplaced DEF RowTypes
<1>4. RowTypes'
  BY <1>2, <1>3 DEF CreateMultisig, RowTypes, KeptServices
<1>5. Linked'
  <2>1. \A b \in DOMAIN multisigs' : services'[multisigs'[b]] # NoRow
    BY <1>2, <1>3 DEF Typed, Linked, KeptServices
  <2>2. /\ \A m \in createMechs : mechs[ServiceOf[m]] # NoRow /\ services'[ServiceOf[m]] # NoRow
        /\ \A q \in Services : mechs[q] # NoRow =>
             mechs[q].address \in createMechs /\ ServiceOf[mechs[q].address] = q
    BY <1>3, MarketplaceAssumption DEF Typed, Linked, KeptServices
  <2> QED BY <1>2, <2>1, <2>2 DEF Linked
<1> QED BY <1>2, <1>3, <1>4, <1>5 DEF TablesTyped

\* Those that leave the mechs and the services as they are.
LEMMA AgentsTyped ==
  ASSUME Typed, RowTypes, Linked, tx' = tx, NEW s \in Services,
         \/ \E a \in Agents : RegisterInstance(s, a)
         \/ TerminateService(s)
         \/ \E h \in Hashes : ComplementaryMetadataUpdated(s, h)
  PROVE  TablesTyped /\ KeptMechs(mechs, mechs')
<1> USE DEF mechVars, askVars, ataVars
<1>1. /\ mechs' = mechs /\ createMechs' = createMechs /\ multisigs' = multisigs
      /\ services' = services
  BY DEF RegisterInstance, TerminateService, ComplementaryMetadataUpdated
<1>2. KeptMechs(mechs, mechs') /\ KeptServices(services, services')
  BY <1>1, MechsUnchanged, ServicesUnchanged DEF RowTypes
<1>3. RowTypes'
  <2>1. CASE \E a \in Agents : RegisterInstance(s, a)
    <3>1. PICK a \in Agents : RegisterInstance(s, a)
      BY <2>1
    <3>2. agents[s] \in Seq(Agents) /\ Append(agents[s], a) \in Seq(Agents)
      BY DEF RowTypes
    <3>3. agents' \in [Services -> Seq(Agents)]
      BY <3>1, <3>2 DEF RegisterInstance, RowTypes
    <3> QED BY <3>1, <3>3 DEF RegisterInstance, RowTypes
  <2>2. CASE TerminateService(s)
    <3>1. agents' \in [Services -> Seq(Agents)]
      BY <2>2 DEF TerminateService, RowTypes
    <3> QED BY <2>2, <3>1 DEF TerminateService, RowTypes
  <2>3. CASE \E h \in Hashes : ComplementaryMetadataUpdated(s, h)
    <3>1. PICK h \in Hashes : ComplementaryMetadataUpdated(s, h)
      BY <2>3
    <3> DEFINE known == IF mechs[s] # NoRow THEN mechs[s].address
                        ELSE IF metadata[s] = NoRow THEN NoRow ELSE metadata[s].mech
    <3>2. known \in Mechs \cup {NoRow}
      BY DEF RowTypes, MechRow
    <3>3. metadata' = [metadata EXCEPT ![s] = [hash |-> h, mech |-> known]]
      BY <3>1 DEF ComplementaryMetadataUpdated, RowTypes
    <3> HIDE DEF known
    <3>4. metadata' \in [Services -> {NoRow} \cup [hash : Hashes, mech : Mechs \cup {NoRow}]]
      BY <3>2, <3>3 DEF RowTypes
    <3> QED BY <3>1, <3>4 DEF ComplementaryMetadataUpdated, RowTypes
  <2> QED BY <2>1, <2>2, <2>3
<1> QED BY <1>1, <1>2, <1>3, StillLinked DEF TablesTyped, KeptMechs

\* Those that change the Mech row of a service.
LEMMA OwnerTyped ==
  ASSUME Typed, RowTypes, Linked, tx' = tx, NEW s \in Services, NEW a \in Accounts,
         ServiceTransfer(s, a)
  PROVE  TablesTyped /\ KeptMechs(mechs, mechs')
<1> USE DEF registryVars, askVars, ataVars
<1> DEFINE row == [mechs[s] EXCEPT !.owner = a]
<1>1. /\ services' = services /\ createMechs' = createMechs /\ multisigs' = multisigs
      /\ mechs' = IF mechs[s] = NoRow THEN mechs ELSE [mechs EXCEPT ![s] = row]
  BY DEF ServiceTransfer
<1>2. KeptMechs(mechs, mechs')
  <2>1. CASE mechs[s] = NoRow
    BY <1>1, <2>1, MechsUnchanged DEF RowTypes
  <2>2. CASE mechs[s] # NoRow
    <3>1. row \in MechRow /\ row.address = mechs[s].address /\ row.rate = mechs[s].rate
      BY <2>2, MechRowIs, 0 \in Nat DEF RowTypes
    <3> HIDE DEF row
    <3> QED BY <1>1, <2>2, <3>1, MechReplaced DEF RowTypes
  <2> QED BY <2>1, <2>2
<1>3. KeptServices(services, services')
  BY <1>1, ServicesUnchanged DEF RowTypes
<1> HIDE DEF row
<1>4. RowTypes'
  BY <1>2 DEF ServiceTransfer, RowTypes, KeptMechs, SameMechs
<1> QED BY <1>1, <1>2, <1>3, <1>4, StillLinked DEF TablesTyped, KeptMechs

LEMMA ConfigTyped ==
  ASSUME Typed, RowTypes, Linked, tx' = tx, NEW s \in Services, NEW h \in Hashes,
         UpdateService(s, h)
  PROVE  TablesTyped /\ KeptMechs(mechs, mechs')
<1> USE DEF registryVars, askVars, ataVars
<1> DEFINE row == [mechs[s] EXCEPT !.config = h]
           service == [services[s] EXCEPT !.config = h]
<1>1. /\ createMechs' = createMechs /\ multisigs' = multisigs
      /\ mechs' = IF mechs[s] = NoRow THEN mechs ELSE [mechs EXCEPT ![s] = row]
      /\ services' = IF services[s] = NoRow THEN services ELSE [services EXCEPT ![s] = service]
  BY DEF UpdateService
<1>2. KeptMechs(mechs, mechs')
  <2>1. CASE mechs[s] = NoRow
    BY <1>1, <2>1, MechsUnchanged DEF RowTypes
  <2>2. CASE mechs[s] # NoRow
    <3>1. row \in MechRow /\ row.address = mechs[s].address /\ row.rate = mechs[s].rate
      BY <2>2, MechRowIs, 0 \in Nat DEF RowTypes
    <3> HIDE DEF row
    <3> QED BY <1>1, <2>2, <3>1, MechReplaced DEF RowTypes
  <2> QED BY <2>1, <2>2
<1>3. KeptServices(services, services')
  <2>1. CASE services[s] = NoRow
    BY <1>1, <2>1, ServicesUnchanged DEF RowTypes
  <2>2. CASE services[s] # NoRow
    <3>1. service \in ServiceRow
      BY <2>2, ServiceRowIs, 0 \in Nat DEF RowTypes
    <3> HIDE DEF service
    <3> QED BY <1>1, <2>2, <3>1, ServiceReplaced DEF RowTypes
  <2> QED BY <2>1, <2>2
<1> HIDE DEF row, service
<1>4. RowTypes'
  BY <1>2, <1>3 DEF UpdateService, RowTypes, KeptMechs, SameMechs, KeptServices
<1> QED BY <1>1, <1>2, <1>3, <1>4, StillLinked DEF TablesTyped, KeptMechs

LEMMA KarmaTyped ==
  ASSUME Typed, RowTypes, Linked, tx' = tx, NEW m \in Mechs, NEW change \in Karma,
         MechKarmaChanged(m, change)
  PROVE  TablesTyped /\ KeptMechs(mechs, mechs')
<1> USE DEF registryVars, askVars, ataVars
<1> DEFINE s == ServiceOf[m]
           row == [mechs[s] EXCEPT !.karma = @ + change]
<1>1. /\ services' = services /\ createMechs' = createMechs /\ multisigs' = multisigs
      /\ s \in Services /\ change \in Int
      /\ mechs' = IF ~ Known(m) \/ mechs[s] = NoRow THEN mechs ELSE [mechs EXCEPT ![s] = row]
  BY MarketplaceAssumption DEF MechKarmaChanged
<1>2. KeptMechs(mechs, mechs')
  <2>1. CASE ~ Known(m) \/ mechs[s] = NoRow
    BY <1>1, <2>1, MechsUnchanged DEF RowTypes
  <2>2. CASE ~ (~ Known(m) \/ mechs[s] = NoRow)
    <3>1. row \in MechRow /\ row.address = mechs[s].address /\ row.rate = mechs[s].rate
      BY <1>1, <2>2, MechRowIs, 0 \in Nat DEF RowTypes
    <3> HIDE DEF row
    <3> QED BY <1>1, <2>2, <3>1, MechReplaced DEF RowTypes
  <2> QED BY <2>1, <2>2
<1>3. KeptServices(services, services')
  BY <1>1, ServicesUnchanged DEF RowTypes
<1> HIDE DEF row, s
<1>4. RowTypes'
  BY <1>2 DEF MechKarmaChanged, RowTypes, KeptMechs, SameMechs
<1> QED BY <1>1, <1>2, <1>3, <1>4, StillLinked DEF TablesTyped, KeptMechs

\* The logs of requests and deliveries.
LEMMA PerAgentTyped ==
  ASSUME RowTypes, NEW service \in Services \cup {NoService}, NEW n \in Nat
  PROVE  PerAgent(service, n) \in [Agents -> Nat]
<1>1. CASE service = NoService
  BY <1>1 DEF PerAgent, RowTypes
<1>2. CASE service # NoService
  <2> DEFINE times(a) == {i \in DOMAIN agents[service] : agents[service][i] = a}
  <2>1. agents[service] \in Seq(Agents)
    BY <1>2 DEF RowTypes
  <2>2. IsFiniteSet(DOMAIN agents[service])
    <3>1. Len(agents[service]) \in Nat /\ DOMAIN agents[service] = 1 .. Len(agents[service])
      BY <2>1
    <3> QED BY <3>1, FS_Interval
  <2>3. \A a \in Agents : Cardinality(times(a)) \in Nat
    BY <2>2, FS_Subset, FS_CardinalityType
  <2> HIDE DEF times
  <2>4. \A c \in Nat : n * c \in Nat
    OBVIOUS
  <2>5. \A a \in Agents : perAgent[a] + n * Cardinality(times(a)) \in Nat
    <3> SUFFICES ASSUME NEW a \in Agents
        PROVE  perAgent[a] + n * Cardinality(times(a)) \in Nat
      OBVIOUS
    <3>1. PICK p \in Nat : p = n * Cardinality(times(a))
      BY <2>3, <2>4
    <3>2. perAgent[a] \in Nat
      BY DEF RowTypes
    <3>3. perAgent[a] + p \in Nat
      BY <3>1, <3>2
    <3> QED BY <3>1, <3>3
  <2>6. PerAgent(service, n) = [a \in Agents |-> perAgent[a] + n * Cardinality(times(a))]
    BY <1>2 DEF PerAgent, times
  <2> QED BY <2>5, <2>6
<1> QED BY <1>1, <1>2

LEMMA MechRequestTyped ==
  ASSUME Typed, RowTypes, Linked, tx' = tx, NEW m \in Mechs, NEW r \in Ids, NEW ipfs,
         MechRequest(m, r, ipfs)
  PROVE  TablesTyped /\ KeptMechs(mechs, mechs')
<1> USE DEF mechVars, registryVars, ataVars
<1>1. /\ mechs' = mechs /\ createMechs' = createMechs /\ multisigs' = multisigs
      /\ services' = services
  BY DEF MechRequest
<1>2. KeptMechs(mechs, mechs') /\ KeptServices(services, services')
  BY <1>1, MechsUnchanged, ServicesUnchanged DEF RowTypes
<1>3. pendingPayloads' \subseteq Ids
  BY DEF MechRequest, RowTypes
<1>4. RowTypes'
  BY <1>3 DEF MechRequest, RowTypes
<1> QED BY <1>1, <1>2, <1>4, StillLinked DEF TablesTyped, KeptMechs

LEMMA MarketplaceRequestTyped ==
  ASSUME Typed, RowTypes, Linked, tx' = tx, NEW m \in Mechs, NEW a \in Accounts,
         NEW ids \in SUBSET Ids, MarketplaceRequest(m, a, ids)
  PROVE  TablesTyped /\ KeptMechs(mechs, mechs')
<1> USE DEF registryVars
<1> DEFINE n == Cardinality(ids)
           service == ServiceOfMultisig(a)
<1>1. n \in Nat
  BY MarketplaceAssumption, FS_Subset, FS_CardinalityType
<1>2. /\ service \in Services \cup {NoService}
      /\ service # NoService => service \in Services /\ services[service] # NoRow
  BY MarketplaceAssumption DEF Typed, Linked, ServiceOfMultisig
<1>3. /\ services' = IF service = NoService THEN services
                     ELSE [services EXCEPT ![service] = [services[service] EXCEPT !.requests = @ + n]]
      /\ mechs' = IF Known(m) THEN [mechs EXCEPT ![ServiceOf[m]] = [mechs[ServiceOf[m]] EXCEPT !.received = @ + n]]
                  ELSE mechs
      /\ perAgent' = PerAgent(service, n) /\ ataTxs' \subseteq ataTxs \cup {tx.id}
      /\ pendingPayloads' \subseteq pendingPayloads
      /\ createMechs' = createMechs /\ multisigs' = multisigs
      /\ UNCHANGED <<metadata, agents, delivers, pendingRates>>
  BY DEF MarketplaceRequest, Received, Unparked
<1> HIDE DEF n, service
<1>4. KeptMechs(mechs, mechs')
  <2> DEFINE row == [mechs[ServiceOf[m]] EXCEPT !.received = @ + n]
  <2>1. CASE ~ Known(m)
    BY <1>3, <2>1, MechsUnchanged DEF RowTypes
  <2>2. CASE Known(m)
    <3>1. ServiceOf[m] \in Services /\ mechs[ServiceOf[m]] # NoRow
      BY <2>2, MarketplaceAssumption DEF Known, Linked
    <3>2. /\ row \in MechRow /\ row.address = mechs[ServiceOf[m]].address
          /\ row.rate = mechs[ServiceOf[m]].rate
      BY <1>1, <3>1, MechRowIs DEF RowTypes
    <3> HIDE DEF row
    <3>3. mechs' = [mechs EXCEPT ![ServiceOf[m]] = row]
      BY <1>3, <2>2 DEF row
    <3> QED BY <3>1, <3>2, <3>3, MechReplaced DEF RowTypes
  <2> QED BY <2>1, <2>2
<1>5. KeptServices(services, services')
  <2> DEFINE row == [services[service] EXCEPT !.requests = @ + n]
  <2>1. CASE service = NoService
    BY <1>3, <2>1, ServicesUnchanged DEF RowTypes
  <2>2. CASE service # NoService
    <3>1. row \in ServiceRow
      BY <1>1, <1>2, <2>2, ServiceRowIs DEF RowTypes
    <3> HIDE DEF row
    <3>2. services' = [services EXCEPT ![service] = row]
      BY <1>3, <2>2 DEF row
    <3> QED BY <1>2, <2>2, <3>1, <3>2, ServiceReplaced DEF RowTypes
  <2> QED BY <2>1, <2>2
<1>6. perAgent' \in [Agents -> Nat]
  BY <1>1, <1>2, <1>3, PerAgentTyped
<1>7. RowTypes'
  BY <1>3, <1>4, <1>5, <1>6 DEF RowTypes, KeptMechs, SameMechs, KeptServices
<1> QED BY <1>3, <1>4, <1>5, <1>7, StillLinked DEF TablesTyped, KeptMechs

\* A delivery is counted for the service of a known mech.
LEMMA DeliveredByKeeps ==
  ASSUME RowTypes, NEW s \in Services, services[s] # NoRow, NEW n \in Nat
  PROVE  KeptServices(services, DeliveredBy(s, n))
<1> DEFINE row == [services[s] EXCEPT !.deliveries = @ + n]
<1>1. row \in ServiceRow
  BY ServiceRowIs DEF RowTypes
<1>2. DeliveredBy(s, n) = [services EXCEPT ![s] = row]
  BY DEF DeliveredBy
<1> HIDE DEF row
<1>3. KeptServices(services, [services EXCEPT ![s] = row])
  BY <1>1, ServiceReplaced DEF RowTypes
<1> QED BY <1>2, <1>3

LEMMA DeliveryTyped ==
  ASSUME Typed, RowTypes, Linked, tx' = tx, NEW m \in Mechs, NEW ids \in SUBSET Ids, NEW won,
         MarketplaceDelivery(m, ids, won)
  PROVE  TablesTyped /\ KeptMechs(mechs, mechs')
<1> USE DEF registryVars
<1> DEFINE done == Undelivered(ids, won)
           n == Cardinality(done)
           s == ServiceOf[m]
           counted == Counted(mechs, done, m)
<1>1. done \in SUBSET Ids /\ n \in Nat /\ s \in Services
  <2>1. done \in SUBSET Ids
    BY DEF Undelivered
  <2> QED BY <2>1, MarketplaceAssumption, FS_Subset, FS_CardinalityType
<1>2. /\ mechs' = IF Known(m) THEN [counted EXCEPT ![s] = [counted[s] EXCEPT !.deliveries = @ + n]]
                  ELSE counted
      /\ services' = IF Known(m) THEN DeliveredBy(s, n) ELSE services
      /\ delivers' = [r \in Ids |->
           IF r \notin done THEN delivers[r]
           ELSE [offChain |-> FALSE,
                 rate |-> IF delivers[r] = NoRow THEN NoRate ELSE delivers[r].rate]]
      /\ ataTxs' = ataTxs \cup {tx.id}
      /\ createMechs' = createMechs /\ multisigs' = multisigs
      /\ UNCHANGED <<metadata, agents, perAgent, pendingRates, pendingPayloads>>
  BY DEF MarketplaceDelivery
<1> HIDE DEF done, n
<1>3. KeptMechs(mechs, counted) /\ counted \in [Services -> {NoRow} \cup MechRow]
  <2>1. KeptMechs(mechs, counted)
    BY <1>1, CountedKeeps DEF RowTypes
  <2> HIDE DEF counted
  <2> QED BY <2>1 DEF KeptMechs, SameMechs
<1> HIDE DEF counted
<1>4. KeptMechs(mechs, mechs')
  <2> DEFINE row == [counted[s] EXCEPT !.deliveries = @ + n]
  <2>1. CASE ~ Known(m)
    BY <1>2, <1>3, <2>1
  <2>2. CASE Known(m)
    <3>1. counted[s] # NoRow
      BY <1>1, <1>3, <2>2 DEF Known, Linked, KeptMechs, SameMechs
    <3>2. row \in MechRow /\ row.address = counted[s].address /\ row.rate = counted[s].rate
      BY <1>1, <1>3, <3>1, MechRowIs
    <3> HIDE DEF row
    <3>3. mechs' = [counted EXCEPT ![s] = row]
      BY <1>2, <2>2 DEF row
    <3>4. KeptMechs(counted, mechs')
      BY <1>1, <1>3, <3>1, <3>2, <3>3, MechReplaced
    <3> QED BY <1>3, <3>4, MechsKeptTwice
  <2> QED BY <2>1, <2>2
<1>5. KeptServices(services, services')
  <2>1. CASE ~ Known(m)
    BY <1>2, <2>1, ServicesUnchanged DEF RowTypes
  <2>2. CASE Known(m)
    BY <1>1, <1>2, <2>2, DeliveredByKeeps DEF Known, Linked
  <2> QED BY <2>1, <2>2
<1>6. delivers' \in [Ids -> {NoRow} \cup DeliverRow]
  BY <1>2 DEF RowTypes, DeliverRow
<1>7. RowTypes'
  BY <1>2, <1>4, <1>5, <1>6 DEF RowTypes, KeptMechs, SameMechs, KeptServices
<1> QED BY <1>2, <1>4, <1>5, <1>7, StillLinked DEF TablesTyped, KeptMechs

LEMMA ObservedKeeps ==
  ASSUME NEW t \in [Services -> {NoRow} \cup MechRow], NEW m \in Mechs, NEW rate \in Rates,
         t[ServiceOf[m]] # NoRow
  PROVE  KeptMechs(t, ObservedRate(t, m, rate))
<1> DEFINE s == ServiceOf[m]
           row == [t[s] EXCEPT !.rate = rate]
<1>1. s \in Services /\ t[s] \in MechRow
  BY MarketplaceAssumption
<1>2. CASE t[s].address = m /\ t[s].rate = NoRate
  <2>1. row \in MechRow /\ row.address = t[s].address
    BY <1>1, MechRowIs, 0 \in Nat
  <2>2. ObservedRate(t, m, rate) = [t EXCEPT ![s] = row]
    BY <1>2 DEF ObservedRate
  <2> HIDE DEF row
  <2>3. KeptMechs(t, [t EXCEPT ![s] = row])
    BY <1>1, <1>2, <2>1, MechReplaced
  <2> QED BY <2>2, <2>3
<1>3. CASE ~ (t[s].address = m /\ t[s].rate = NoRate)
  <2>1. ObservedRate(t, m, rate) = t
    BY <1>3 DEF ObservedRate
  <2> QED BY <2>1, MechsUnchanged
<1> QED BY <1>2, <1>3

LEMMA MechDeliverTyped ==
  ASSUME Typed, RowTypes, Linked, tx' = tx, NEW m \in Mechs, NEW r \in Ids, NEW rate \in Rates,
         NEW price, MechDeliver(m, r, rate, price)
  PROVE  TablesTyped /\ KeptMechs(mechs, mechs')
<1> USE DEF registryVars
<1>1. CASE ~ Known(m)
  <2>1. /\ mechs' = mechs /\ createMechs' = createMechs /\ multisigs' = multisigs
        /\ services' = services
    BY <1>1 DEF MechDeliver, mechVars
  <2>2. RowTypes'
    BY <1>1 DEF MechDeliver, mechVars, askVars, ataVars, RowTypes
  <2> QED BY <2>1, <2>2, StillLinked, MechsUnchanged, ServicesUnchanged
          DEF TablesTyped, KeptMechs, RowTypes
<1>2. CASE Known(m)
  <2> DEFINE s == ServiceOf[m]
             direct == ~ IsMarketplaceTransaction
             isNew == IsNewDelivery(r)
             counted == IF direct /\ isNew THEN Counted(mechs, {r}, m) ELSE mechs
  <2>1. /\ mechs' = ObservedRate(counted, m, rate)
        /\ services' = IF direct /\ isNew THEN DeliveredBy(s, 1) ELSE services
        /\ delivers' = [delivers EXCEPT ![r] = [offChain |-> FALSE, rate |-> rate]]
        /\ ataTxs' \subseteq ataTxs \cup {tx.id}
        /\ createMechs' = createMechs /\ multisigs' = multisigs
        /\ UNCHANGED <<metadata, agents, perAgent, pendingRates, pendingPayloads>>
    BY <1>2 DEF MechDeliver
  <2>2. s \in Services /\ mechs[s] # NoRow /\ services[s] # NoRow
    BY <1>2, MarketplaceAssumption DEF Known, Linked
  <2>3. KeptMechs(mechs, counted)
    <3>1. KeptMechs(mechs, Counted(mechs, {r}, m)) /\ KeptMechs(mechs, mechs)
      BY CountedKeeps, MechsUnchanged DEF RowTypes
    <3> QED BY <3>1
  <2> HIDE DEF counted, direct, isNew
  <2>4. KeptMechs(mechs, mechs')
    <3>1. counted \in [Services -> {NoRow} \cup MechRow] /\ counted[s] # NoRow
      BY <2>2, <2>3 DEF KeptMechs, SameMechs
    <3>2. KeptMechs(counted, mechs')
      BY <2>1, <3>1, ObservedKeeps
    <3> QED BY <2>3, <3>2, MechsKeptTwice
  <2>5. KeptServices(services, services')
    <3>1. KeptServices(services, DeliveredBy(s, 1)) /\ KeptServices(services, services)
      BY <2>2, DeliveredByKeeps, ServicesUnchanged DEF RowTypes
    <3> QED BY <2>1, <3>1
  <2>6. delivers' \in [Ids -> {NoRow} \cup DeliverRow]
    BY <2>1 DEF RowTypes, DeliverRow
  <2>7. RowTypes'
    BY <2>1, <2>4, <2>5, <2>6 DEF RowTypes, KeptMechs, SameMechs, KeptServices
  <2> QED BY <2>1, <2>4, <2>5, <2>7, StillLinked DEF TablesTyped, KeptMechs
<1> QED BY <1>1, <1>2

LEMMA SignedRowTyped ==
  ASSUME RowTypes, NEW r \in Ids, NEW rate \in Rates \cup {NoRate}
  PROVE  /\ SignedRow(r, rate) \in DeliverRow
         /\ SignedRow(r, rate).offChain
         /\ SignedRow(r, rate).rate = IF rate = NoRate /\ delivers[r] # NoRow THEN delivers[r].rate
                                      ELSE rate
BY DEF RowTypes, SignedRow, DeliverRow

LEMMA SignedTyped ==
  ASSUME Typed, RowTypes, Linked, tx' = tx, NEW r \in Ids, NEW rate \in Rates, NEW price,
         SignedDeliver(r, rate, price)
  PROVE  TablesTyped /\ KeptMechs(mechs, mechs')
<1> USE DEF mechVars, registryVars
<1>1. /\ mechs' = mechs /\ createMechs' = createMechs /\ multisigs' = multisigs
      /\ services' = services /\ delivers' = [delivers EXCEPT ![r] = SignedRow(r, rate)]
  BY DEF SignedDeliver
<1>2. KeptMechs(mechs, mechs') /\ KeptServices(services, services')
  BY <1>1, MechsUnchanged, ServicesUnchanged DEF RowTypes
<1>3. delivers' \in [Ids -> {NoRow} \cup DeliverRow]
  BY <1>1, SignedRowTyped DEF RowTypes
<1>4. RowTypes'
  BY <1>3 DEF SignedDeliver, RowTypes
<1> QED BY <1>1, <1>2, <1>4, StillLinked DEF TablesTyped, KeptMechs

LEMMA BatchTyped ==
  ASSUME Typed, RowTypes, Linked, tx' = tx, NEW m \in Mechs, NEW a \in Accounts,
         NEW ids \in SUBSET Ids, DeliveryWithSignatures(m, a, ids)
  PROVE  TablesTyped /\ KeptMechs(mechs, mechs')
<1> USE DEF registryVars, askVars
<1> DEFINE n == Cardinality(ids)
           s == ServiceOf[m]
           service == ServiceOfMultisig(a)
           row == [mechs[s] EXCEPT !.deliveries = @ + n, !.received = @ + n, !.self = @ + n]
<1>1. n \in Nat /\ s \in Services
  BY MarketplaceAssumption, FS_Subset, FS_CardinalityType
<1>2. service \in Services \cup {NoService}
  BY ServiceOfMultisigTyped
<1>3. /\ mechs' = IF Known(m) THEN [mechs EXCEPT ![s] = row] ELSE mechs
      /\ delivers' = [r \in Ids |-> IF r \in ids THEN SignedRow(r, NoRate) ELSE delivers[r]]
      /\ perAgent' = PerAgent(service, n) /\ ataTxs' = ataTxs \cup {tx.id}
      /\ services' = services /\ createMechs' = createMechs /\ multisigs' = multisigs
      /\ UNCHANGED <<metadata, agents, pendingRates, pendingPayloads>>
  BY DEF DeliveryWithSignatures
<1>4. Known(m) => mechs[s] # NoRow /\ row \in MechRow /\ row.address = mechs[s].address
                  /\ row.rate = mechs[s].rate
  BY <1>1, MechBatchIs DEF Known, Linked, RowTypes
<1> HIDE DEF n, service, row
<1>5. KeptMechs(mechs, mechs')
  <2>1. CASE Known(m)
    BY <1>1, <1>3, <1>4, <2>1, MechReplaced DEF RowTypes
  <2>2. CASE ~ Known(m)
    BY <1>3, <2>2, MechsUnchanged DEF RowTypes
  <2> QED BY <2>1, <2>2
<1>6. KeptServices(services, services')
  BY <1>3, ServicesUnchanged DEF RowTypes
<1>7. perAgent' \in [Agents -> Nat] /\ delivers' \in [Ids -> {NoRow} \cup DeliverRow]
  BY <1>1, <1>2, <1>3, PerAgentTyped, SignedRowTyped DEF RowTypes
<1>8. RowTypes'
  BY <1>3, <1>5, <1>7 DEF RowTypes, KeptMechs, SameMechs
<1> QED BY <1>3, <1>5, <1>6, <1>8, StillLinked DEF TablesTyped, KeptMechs

-----------------------------------------------------------------------------
(* What handling a log does. *)

LEMMA LogTyped ==
  ASSUME NEW log \in Log
  PROVE  /\ log.op \in {"factory", "rate", "mechDeliver", "signed"} => log.rate \in Rates
         /\ log.op \in {"factory", "rate", "createMech", "karma", "mechRequest", "request",
                        "batch", "delivery", "mechDeliver", "signed"} => log.mech \in Mechs
         /\ log.op \in {"createService", "update", "multisig", "transfer", "register",
                        "terminate", "metadata"} => log.service \in Services
         /\ log.op \in {"createService", "update"} => log.config \in Hashes
         /\ log.op \in {"multisig", "transfer"} => log.account \in Accounts
         /\ log.op = "register" => log.agent \in Agents
         /\ log.op = "metadata" => log.hash \in Hashes
         /\ log.op = "karma" => log.change \in Karma
         /\ log.op \in {"mechRequest", "mechDeliver", "signed"} => log.id \in Ids
         /\ log.op \in {"request", "batch"} => log.requester \in Accounts
         /\ log.op \in {"request", "batch", "delivery"} => log.ids \in SUBSET Ids
         /\ log.op = "delivery" => log.won \in SUBSET Ids
BY DEF Log

\* The mechs change as the log says, and their rates by the logs of rates only.
MechsHandled(log) ==
  /\ TablesTyped
  /\ log.op \notin {"createMech", "rate"} => KeptMechs(mechs, mechs')
  /\ log.op = "createMech" =>
       /\ log.mech \in Mechs
       /\ \A s \in Services \ {ServiceOf[log.mech]} : mechs'[s] = mechs[s]
       /\ mechs'[ServiceOf[log.mech]].address = log.mech
       /\ mechs'[ServiceOf[log.mech]].rate = pendingRates[log.mech]
  /\ log.op = "rate" =>
       /\ SameMechs(mechs, mechs')
       /\ \A s \in Services : mechs[s] # NoRow =>
            mechs'[s].rate = IF mechs[s].address = log.mech THEN log.rate ELSE mechs[s].rate

LEMMA TablesHandled ==
  ASSUME IInv, RowTypes, Linked, LogsBacked, NEW price, HandleAt(price)
  PROVE  MechsHandled(Head(logs))
<1> DEFINE log == Head(logs)
<1>1. /\ Dispatch(log, price) /\ log = logs[1] /\ 1 \in DOMAIN logs /\ log \in Log
      /\ tx' = tx /\ Typed
  BY NextLog DEF HandleAt, IInv, Typed, chainVars
<1>2. LogBacked(1)
  BY <1>1 DEF LogsBacked
<1>3. /\ log.op = "createMech" => services[ServiceOf[log.mech]] # NoRow
      /\ log.op = "multisig" => services[log.service] # NoRow
  BY <1>1, <1>2 DEF LogBacked
<1> SUFFICES MechsHandled(log)
  OBVIOUS
<1> HIDE DEF log
<1>4. CASE log.op = "factory" /\ FactoryCreate(log.mech, log.rate)
  <2>1. TablesTyped /\ mechs' = mechs
    BY <1>1, <1>4, LogTyped, FactoryTyped
  <2> QED BY <1>4, <2>1, MechsUnchanged DEF MechsHandled, RowTypes
<1>5. CASE log.op = "createMech" /\ CreateMech(log.mech)
  <2>1. log.mech \in Mechs
    BY <1>1, <1>5, LogTyped
  <2> QED BY <1>1, <1>3, <1>5, <2>1, CreateMechTyped DEF MechsHandled
<1>6. CASE log.op = "rate" /\ MaxDeliveryRateUpdated(log.mech, log.rate)
  <2>1. log.mech \in Mechs /\ log.rate \in Rates
    BY <1>1, <1>6, LogTyped
  <2> QED BY <1>1, <1>6, <2>1, RateTyped DEF MechsHandled
<1>7. ASSUME TablesTyped, KeptMechs(mechs, mechs'), log.op \notin {"createMech", "rate"}
      PROVE  MechsHandled(log)
  BY <1>7 DEF MechsHandled
<1>8. CASE log.op = "createService" /\ CreateService(log.service, log.config)
  BY <1>1, <1>7, <1>8, LogTyped, CreateServiceTyped
<1>9. CASE log.op = "multisig" /\ CreateMultisig(log.service, log.account)
  BY <1>1, <1>3, <1>7, <1>9, LogTyped, MultisigTyped
<1>10. CASE log.op = "register" /\ RegisterInstance(log.service, log.agent)
  BY <1>1, <1>7, <1>10, LogTyped, AgentsTyped
<1>11. CASE log.op = "terminate" /\ TerminateService(log.service)
  BY <1>1, <1>7, <1>11, LogTyped, AgentsTyped
<1>12. CASE log.op = "transfer" /\ ServiceTransfer(log.service, log.account)
  BY <1>1, <1>7, <1>12, LogTyped, OwnerTyped
<1>13. CASE log.op = "update" /\ UpdateService(log.service, log.config)
  BY <1>1, <1>7, <1>13, LogTyped, ConfigTyped
<1>14. CASE log.op = "metadata" /\ ComplementaryMetadataUpdated(log.service, log.hash)
  BY <1>1, <1>7, <1>14, LogTyped, AgentsTyped
<1>15. CASE log.op = "karma" /\ MechKarmaChanged(log.mech, log.change)
  BY <1>1, <1>7, <1>15, LogTyped, KarmaTyped
<1>16. CASE log.op = "mechRequest" /\ MechRequest(log.mech, log.id, log.ipfs)
  BY <1>1, <1>7, <1>16, LogTyped, MechRequestTyped
<1>17. CASE log.op = "request" /\ MarketplaceRequest(log.mech, log.requester, log.ids)
  BY <1>1, <1>7, <1>17, LogTyped, MarketplaceRequestTyped
<1>18. CASE log.op = "delivery" /\ MarketplaceDelivery(log.mech, log.ids, log.won)
  BY <1>1, <1>7, <1>18, LogTyped, DeliveryTyped
<1>19. CASE log.op = "mechDeliver" /\ MechDeliver(log.mech, log.id, log.rate, price)
  BY <1>1, <1>7, <1>19, LogTyped, MechDeliverTyped
<1>20. CASE log.op = "signed" /\ SignedDeliver(log.id, log.rate, price)
  BY <1>1, <1>7, <1>20, LogTyped, SignedTyped
<1>21. CASE log.op = "batch" /\ DeliveryWithSignatures(log.mech, log.requester, log.ids)
  BY <1>1, <1>7, <1>21, LogTyped, BatchTyped
<1> QED
  BY <1>1, <1>4, <1>5, <1>6, <1>8, <1>9, <1>10, <1>11, <1>12, <1>13, <1>14, <1>15, <1>16,
     <1>17, <1>18, <1>19, <1>20, <1>21 DEF Dispatch

\* What becomes of the rates that wait for the log of the mech.
RatesHandled(log) ==
  /\ createMechs' = IF log.op = "createMech" THEN createMechs \cup {log.mech} ELSE createMechs
  /\ pendingRates' = IF log.op = "factory" THEN [pendingRates EXCEPT ![log.mech] = log.rate]
                     ELSE IF log.op = "createMech" THEN [pendingRates EXCEPT ![log.mech] = NoRate]
                     ELSE pendingRates

\* What becomes of the payloads.
PayloadsHandled(log) ==
  /\ \A r \in Ids : HasPayload(r) => HasPayload(r)'
  /\ log.op = "request" =>
       /\ \A r \in log.ids \cap pendingPayloads : HasPayload(r)'
       /\ pendingPayloads' = pendingPayloads \ log.ids
  /\ log.op = "mechRequest" /\ Known(log.mech) /\ log.ipfs =>
       \A r \in {log.id} : HasPayload(r)' \/ (r \in pendingPayloads' /\ tx.toMarketplace)
  /\ log.op = "mechRequest" =>
       /\ pendingPayloads \subseteq pendingPayloads'
       /\ \A r \in pendingPayloads' \ pendingPayloads :
            r = log.id /\ Known(log.mech) /\ tx.toMarketplace
  /\ log.op \notin {"request", "mechRequest"} => pendingPayloads' = pendingPayloads

\* What becomes of the rows of signed deliveries.
HasSignedRow(r) == delivers[r] # NoRow /\ delivers[r].offChain /\ delivers[r].rate # NoRate
DeliversHandled(log) ==
  /\ log.op = "signed" => \A r \in {log.id} : HasSignedRow(r)'
  /\ \A r \in Ids : HasSignedRow(r) =>
       \/ HasSignedRow(r)'
       \/ log.op = "mechDeliver" /\ Known(log.mech) /\ r = log.id
       \/ log.op = "delivery" /\ r \in log.won

LEMMA MechRequestPayload ==
  ASSUME Typed, NEW m, NEW r \in Ids, NEW ipfs, MechRequest(m, r, ipfs)
  PROVE  /\ \A q \in Ids : HasPayload(q) => HasPayload(q)'
         /\ Known(m) /\ ipfs => HasPayload(r)' \/ (r \in pendingPayloads' /\ tx.toMarketplace)
         /\ pendingPayloads \subseteq pendingPayloads'
         /\ \A q \in pendingPayloads' \ pendingPayloads : q = r /\ Known(m) /\ tx.toMarketplace
<1>1. \A q \in Ids : markers[q] # NoRow => markers[q] \in MarkerRow
  BY DEF Typed
<1>2. /\ \A row \in MarkerRow : [row EXCEPT !.payload = TRUE] \in MarkerRow
                               /\ [row EXCEPT !.payload = TRUE].payload
      /\ [marketplace |-> FALSE, payload |-> TRUE] \in MarkerRow /\ NoRow \notin MarkerRow
  BY MarketplaceAssumption DEF MarkerRow
<1>3. CASE Known(m) /\ ipfs /\ markers[r] # NoRow
  <2>1. /\ markers' = [markers EXCEPT ![r] = [markers[r] EXCEPT !.payload = TRUE]]
        /\ pendingPayloads' = pendingPayloads
    BY <1>3 DEF MechRequest
  <2>2. PICK row \in MarkerRow : row = [markers[r] EXCEPT !.payload = TRUE] /\ row.payload
    BY <1>1, <1>2, <1>3
  <2>3. markers' = [markers EXCEPT ![r] = row] /\ row # NoRow
    BY <1>2, <2>1, <2>2
  <2>4. markers'[r] = row /\ \A q \in Ids \ {r} : markers'[q] = markers[q]
    BY <2>3 DEF Typed
  <2> QED BY <2>1, <2>2, <2>3, <2>4 DEF HasPayload
<1>4. CASE Known(m) /\ ipfs /\ markers[r] = NoRow /\ ~ IsMarketplaceTransaction
  <2>1. /\ markers' = [markers EXCEPT ![r] = [marketplace |-> FALSE, payload |-> TRUE]]
        /\ pendingPayloads' = pendingPayloads
    BY <1>4 DEF MechRequest
  <2>2. PICK row \in MarkerRow : row = [marketplace |-> FALSE, payload |-> TRUE] /\ row.payload
    BY <1>2
  <2>3. markers' = [markers EXCEPT ![r] = row] /\ row # NoRow
    BY <1>2, <2>1, <2>2
  <2>4. markers'[r] = row /\ \A q \in Ids \ {r} : markers'[q] = markers[q]
    BY <2>3 DEF Typed
  <2> QED BY <2>1, <2>2, <2>3, <2>4 DEF HasPayload
<1>5. CASE Known(m) /\ ipfs /\ markers[r] = NoRow /\ IsMarketplaceTransaction
  <2>1. markers' = markers /\ pendingPayloads' = pendingPayloads \cup {r} /\ tx.toMarketplace
    BY <1>5 DEF MechRequest, IsMarketplaceTransaction
  <2> QED BY <1>5, <2>1 DEF HasPayload
<1>6. CASE ~ (Known(m) /\ ipfs)
  <2>1. markers' = markers /\ pendingPayloads' = pendingPayloads
    BY <1>6 DEF MechRequest
  <2> QED BY <1>6, <2>1 DEF HasPayload
<1> QED BY <1>3, <1>4, <1>5, <1>6

LEMMA RequestPayload ==
  ASSUME Typed, NEW m, NEW a, NEW ids \in SUBSET Ids, MarketplaceRequest(m, a, ids)
  PROVE  /\ \A r \in Ids : HasPayload(r) => HasPayload(r)'
         /\ \A r \in ids \cap pendingPayloads : HasPayload(r)'
         /\ pendingPayloads' = pendingPayloads \ ids
<1>1. /\ markers' = [r \in Ids |-> IF r \in ids
                                   THEN [marketplace |-> TRUE, payload |-> WithPayload(r)]
                                   ELSE markers[r]]
      /\ pendingPayloads' = pendingPayloads \ ids
  BY DEF MarketplaceRequest, Unparked
<1>2. \A p \in BOOLEAN : [marketplace |-> TRUE, payload |-> p] # NoRow
  <2>1. \A p \in BOOLEAN : [marketplace |-> TRUE, payload |-> p] \in MarkerRow
    BY DEF MarkerRow
  <2> QED BY <2>1, MarketplaceAssumption
<1>3. \A r \in Ids : WithPayload(r) \in BOOLEAN
  BY DEF WithPayload, Typed, MarkerRow
<1>4. \A r \in ids : WithPayload(r) => HasPayload(r)'
  BY <1>1, <1>2, <1>3 DEF HasPayload
<1>5. \A r \in Ids \ ids : HasPayload(r) => HasPayload(r)'
  BY <1>1 DEF HasPayload
<1> QED BY <1>1, <1>4, <1>5 DEF WithPayload, HasPayload

LEMMA RatesAreHandled ==
  ASSUME IInv, NEW price, HandleAt(price)
  PROVE  RatesHandled(Head(logs))
<1> DEFINE log == Head(logs)
<1>1. Dispatch(log, price)
  BY DEF HandleAt
<1> SUFFICES RatesHandled(log)
  OBVIOUS
<1> HIDE DEF log
<1> USE DEF mechVars
<1>2. CASE log.op = "factory" /\ FactoryCreate(log.mech, log.rate)
  BY <1>2 DEF FactoryCreate, RatesHandled
<1>3. CASE log.op = "createMech" /\ CreateMech(log.mech)
  BY <1>3 DEF CreateMech, RatesHandled
<1>4. ASSUME log.op \notin {"factory", "createMech"}, createMechs' = createMechs,
             pendingRates' = pendingRates
      PROVE  RatesHandled(log)
  BY <1>4 DEF RatesHandled
<1>5. CASE \/ log.op = "rate" /\ MaxDeliveryRateUpdated(log.mech, log.rate)
           \/ log.op = "createService" /\ CreateService(log.service, log.config)
           \/ log.op = "multisig" /\ CreateMultisig(log.service, log.account)
           \/ log.op = "register" /\ RegisterInstance(log.service, log.agent)
           \/ log.op = "terminate" /\ TerminateService(log.service)
           \/ log.op = "transfer" /\ ServiceTransfer(log.service, log.account)
           \/ log.op = "update" /\ UpdateService(log.service, log.config)
           \/ log.op = "metadata" /\ ComplementaryMetadataUpdated(log.service, log.hash)
           \/ log.op = "karma" /\ MechKarmaChanged(log.mech, log.change)
  BY <1>4, <1>5 DEF MaxDeliveryRateUpdated, CreateService, CreateMultisig, RegisterInstance,
     TerminateService, ServiceTransfer, UpdateService, ComplementaryMetadataUpdated,
     MechKarmaChanged
<1>6. CASE \/ log.op = "mechRequest" /\ MechRequest(log.mech, log.id, log.ipfs)
           \/ log.op = "request" /\ MarketplaceRequest(log.mech, log.requester, log.ids)
           \/ log.op = "signed" /\ SignedDeliver(log.id, log.rate, price)
  BY <1>4, <1>6 DEF MechRequest, MarketplaceRequest, SignedDeliver
<1>7. CASE \/ log.op = "delivery" /\ MarketplaceDelivery(log.mech, log.ids, log.won)
           \/ log.op = "mechDeliver" /\ MechDeliver(log.mech, log.id, log.rate, price)
           \/ log.op = "batch" /\ DeliveryWithSignatures(log.mech, log.requester, log.ids)
  BY <1>4, <1>7 DEF MarketplaceDelivery, MechDeliver, DeliveryWithSignatures
<1> QED BY <1>1, <1>2, <1>3, <1>5, <1>6, <1>7 DEF Dispatch

LEMMA PayloadsAreHandled ==
  ASSUME IInv, NEW price, HandleAt(price)
  PROVE  PayloadsHandled(Head(logs))
<1> DEFINE log == Head(logs)
<1>1. Dispatch(log, price) /\ log \in Log /\ Typed
  BY NextLog DEF HandleAt, IInv, Typed
<1> SUFFICES PayloadsHandled(log)
  OBVIOUS
<1> HIDE DEF log
<1> USE DEF askVars
<1>2. CASE log.op = "mechRequest" /\ MechRequest(log.mech, log.id, log.ipfs)
  <2>1. log.id \in Ids
    BY <1>1, <1>2, LogTyped
  <2>2. PICK r \in Ids : r = log.id
    BY <2>1
  <2>3. MechRequest(log.mech, r, log.ipfs)
    BY <1>2, <2>2
  <2>4. /\ \A q \in Ids : HasPayload(q) => HasPayload(q)'
        /\ Known(log.mech) /\ log.ipfs =>
             HasPayload(r)' \/ (r \in pendingPayloads' /\ tx.toMarketplace)
        /\ pendingPayloads \subseteq pendingPayloads'
        /\ \A q \in pendingPayloads' \ pendingPayloads : q = r /\ Known(log.mech) /\ tx.toMarketplace
    BY <1>1, <2>3, MechRequestPayload
  <2> QED BY <1>2, <2>2, <2>4 DEF PayloadsHandled
<1>3. CASE log.op = "request" /\ MarketplaceRequest(log.mech, log.requester, log.ids)
  <2>1. log.ids \in SUBSET Ids
    BY <1>1, <1>3, LogTyped
  <2>2. /\ \A r \in Ids : HasPayload(r) => HasPayload(r)'
        /\ \A r \in log.ids \cap pendingPayloads : HasPayload(r)'
        /\ pendingPayloads' = pendingPayloads \ log.ids
    BY <1>1, <1>3, <2>1, RequestPayload
  <2> QED BY <1>3, <2>2 DEF PayloadsHandled
<1>4. ASSUME log.op \notin {"mechRequest", "request"}, markers' = markers,
             pendingPayloads' = pendingPayloads
      PROVE  PayloadsHandled(log)
  BY <1>4 DEF PayloadsHandled, HasPayload
<1>5. CASE \/ log.op = "factory" /\ FactoryCreate(log.mech, log.rate)
           \/ log.op = "createMech" /\ CreateMech(log.mech)
           \/ log.op = "rate" /\ MaxDeliveryRateUpdated(log.mech, log.rate)
           \/ log.op = "createService" /\ CreateService(log.service, log.config)
           \/ log.op = "multisig" /\ CreateMultisig(log.service, log.account)
           \/ log.op = "register" /\ RegisterInstance(log.service, log.agent)
           \/ log.op = "terminate" /\ TerminateService(log.service)
           \/ log.op = "transfer" /\ ServiceTransfer(log.service, log.account)
  BY <1>4, <1>5 DEF FactoryCreate, CreateMech, MaxDeliveryRateUpdated, CreateService,
     CreateMultisig, RegisterInstance, TerminateService, ServiceTransfer
<1>6. CASE \/ log.op = "update" /\ UpdateService(log.service, log.config)
           \/ log.op = "metadata" /\ ComplementaryMetadataUpdated(log.service, log.hash)
           \/ log.op = "karma" /\ MechKarmaChanged(log.mech, log.change)
           \/ log.op = "signed" /\ SignedDeliver(log.id, log.rate, price)
           \/ log.op = "batch" /\ DeliveryWithSignatures(log.mech, log.requester, log.ids)
  BY <1>4, <1>6 DEF UpdateService, ComplementaryMetadataUpdated, MechKarmaChanged,
     SignedDeliver, DeliveryWithSignatures
<1>7. CASE \/ log.op = "delivery" /\ MarketplaceDelivery(log.mech, log.ids, log.won)
           \/ log.op = "mechDeliver" /\ MechDeliver(log.mech, log.id, log.rate, price)
  BY <1>4, <1>7 DEF MarketplaceDelivery, MechDeliver
<1> QED BY <1>1, <1>2, <1>3, <1>5, <1>6, <1>7 DEF Dispatch

LEMMA DeliversAreHandled ==
  ASSUME IInv, RowTypes, NEW price, HandleAt(price)
  PROVE  DeliversHandled(Head(logs))
<1> DEFINE log == Head(logs)
<1>1. Dispatch(log, price) /\ log \in Log
  BY NextLog DEF HandleAt, IInv, Typed
<1> SUFFICES DeliversHandled(log)
  OBVIOUS
<1> HIDE DEF log
<1>2. ASSUME log.op # "signed", delivers' = delivers
      PROVE  DeliversHandled(log)
  BY <1>2 DEF DeliversHandled, HasSignedRow
<1>3. NoRow \notin DeliverRow /\ NoRate \notin Rates
  BY MarketplaceAssumption
<1>4. CASE \/ log.op = "factory" /\ FactoryCreate(log.mech, log.rate)
           \/ log.op = "createMech" /\ CreateMech(log.mech)
           \/ log.op = "rate" /\ MaxDeliveryRateUpdated(log.mech, log.rate)
           \/ log.op = "createService" /\ CreateService(log.service, log.config)
           \/ log.op = "multisig" /\ CreateMultisig(log.service, log.account)
           \/ log.op = "register" /\ RegisterInstance(log.service, log.agent)
           \/ log.op = "terminate" /\ TerminateService(log.service)
  BY <1>2, <1>4 DEF FactoryCreate, CreateMech, MaxDeliveryRateUpdated, CreateService,
     CreateMultisig, RegisterInstance, TerminateService
<1>5. CASE \/ log.op = "transfer" /\ ServiceTransfer(log.service, log.account)
           \/ log.op = "update" /\ UpdateService(log.service, log.config)
           \/ log.op = "metadata" /\ ComplementaryMetadataUpdated(log.service, log.hash)
           \/ log.op = "karma" /\ MechKarmaChanged(log.mech, log.change)
           \/ log.op = "mechRequest" /\ MechRequest(log.mech, log.id, log.ipfs)
           \/ log.op = "request" /\ MarketplaceRequest(log.mech, log.requester, log.ids)
  BY <1>2, <1>5 DEF ServiceTransfer, UpdateService, ComplementaryMetadataUpdated,
     MechKarmaChanged, MechRequest, MarketplaceRequest
<1>6. CASE log.op = "delivery" /\ MarketplaceDelivery(log.mech, log.ids, log.won)
  <2>1. \A r \in Ids : r \notin log.won => delivers'[r] = delivers[r]
    BY <1>6 DEF MarketplaceDelivery, Undelivered
  <2> QED BY <1>6, <2>1 DEF DeliversHandled, HasSignedRow
<1>7. CASE log.op = "mechDeliver" /\ MechDeliver(log.mech, log.id, log.rate, price)
  <2>1. CASE ~ Known(log.mech)
    <3>1. delivers' = delivers
      BY <1>7, <2>1 DEF MechDeliver
    <3> QED BY <1>2, <1>7, <3>1
  <2>2. CASE Known(log.mech)
    <3>1. delivers' = [delivers EXCEPT ![log.id] = [offChain |-> FALSE, rate |-> log.rate]]
      BY <1>7, <2>2 DEF MechDeliver
    <3>2. \A r \in Ids \ {log.id} : delivers'[r] = delivers[r]
      BY <3>1 DEF RowTypes
    <3> QED BY <1>7, <2>2, <3>2 DEF DeliversHandled, HasSignedRow
  <2> QED BY <2>1, <2>2
<1>8. CASE log.op = "signed" /\ SignedDeliver(log.id, log.rate, price)
  <2>1. log.id \in Ids /\ log.rate \in Rates /\ log.rate # NoRate
    BY <1>1, <1>3, <1>8, LogTyped
  <2>2. delivers' = [delivers EXCEPT ![log.id] = SignedRow(log.id, log.rate)]
    BY <1>8 DEF SignedDeliver
  <2>3. /\ SignedRow(log.id, log.rate) \in DeliverRow /\ SignedRow(log.id, log.rate).offChain
        /\ SignedRow(log.id, log.rate).rate = log.rate
    BY <2>1, SignedRowTyped
  <2>4. PICK row \in DeliverRow : row = SignedRow(log.id, log.rate) /\ row.offChain
                                  /\ row.rate # NoRate
    BY <2>1, <2>3
  <2>5. row # NoRow /\ delivers' = [delivers EXCEPT ![log.id] = row]
    BY <1>3, <2>2, <2>4
  <2>6. /\ delivers'[log.id] = row
        /\ \A r \in Ids \ {log.id} : delivers'[r] = delivers[r]
    BY <2>1, <2>5 DEF RowTypes
  <2>7. \A r \in {log.id} : HasSignedRow(r)'
    BY <2>4, <2>5, <2>6 DEF HasSignedRow
  <2>8. \A r \in Ids \ {log.id} : HasSignedRow(r) => HasSignedRow(r)'
    BY <2>6 DEF HasSignedRow
  <2> QED BY <1>8, <2>7, <2>8 DEF DeliversHandled
<1>9. CASE log.op = "batch" /\ DeliveryWithSignatures(log.mech, log.requester, log.ids)
  <2>1. delivers' = [r \in Ids |-> IF r \in log.ids THEN SignedRow(r, NoRate) ELSE delivers[r]]
    BY <1>9 DEF DeliveryWithSignatures
  <2>2. ASSUME NEW r \in Ids, HasSignedRow(r)
        PROVE  HasSignedRow(r)'
    <3>1. CASE r \in log.ids
      <4>1. /\ SignedRow(r, NoRate) \in DeliverRow /\ SignedRow(r, NoRate).offChain
            /\ SignedRow(r, NoRate).rate = delivers[r].rate
        BY <2>2, SignedRowTyped DEF HasSignedRow
      <4>2. delivers'[r] = SignedRow(r, NoRate)
        BY <2>1, <3>1
      <4> QED BY <1>3, <2>2, <4>1, <4>2 DEF HasSignedRow
    <3>2. CASE r \notin log.ids
      BY <2>1, <2>2, <3>2 DEF HasSignedRow
    <3> QED BY <3>1, <3>2
  <2> QED BY <1>9, <2>2 DEF DeliversHandled
<1> QED BY <1>1, <1>4, <1>5, <1>6, <1>7, <1>8, <1>9 DEF Dispatch

-----------------------------------------------------------------------------
(* Handling keeps what is to come. *)

LEMMA LogsLeft ==
  ASSUME logs \in Seq(Log), logs # <<>>, logs' = Tail(logs)
  PROVE  \A k \in DOMAIN logs : k # 1 => k - 1 \in DOMAIN logs' /\ logs'[k - 1] = logs[k]
OBVIOUS

LEMMA StillToCome ==
  ASSUME logs \in Seq(Log), logs # <<>>, logs' = Tail(logs), createMechs \subseteq createMechs'
  PROVE  \A x :
           /\ AskedByLog(x) => AskedByLog(x)' \/ (logs[1].op = "request" /\ x \in logs[1].ids)
           /\ PayloadLog(x) => \/ PayloadLog(x)'
                               \/ /\ logs[1].op = "mechRequest" /\ logs[1].id = x
                                  /\ logs[1].ipfs /\ logs[1].mech \in createMechs
           /\ SignedLog(x) => SignedLog(x)' \/ (logs[1].op = "signed" /\ logs[1].id = x)
           /\ RateLog(x) => RateLog(x)' \/ (logs[1].op = "rate" /\ logs[1].mech = x)
           /\ CreationLog(x) => CreationLog(x)' \/ (logs[1].op = "createMech" /\ logs[1].mech = x)
<1>1. \A k \in DOMAIN logs : k # 1 => k - 1 \in DOMAIN logs' /\ logs'[k - 1] = logs[k]
  BY LogsLeft
<1> TAKE x
<1>2. AskedByLog(x) => AskedByLog(x)' \/ (logs[1].op = "request" /\ x \in logs[1].ids)
  BY <1>1 DEF AskedByLog
<1>3. PayloadLog(x) => \/ PayloadLog(x)'
                       \/ /\ logs[1].op = "mechRequest" /\ logs[1].id = x
                          /\ logs[1].ipfs /\ logs[1].mech \in createMechs
  <2>1. ASSUME PayloadLog(x)
        PROVE  \/ PayloadLog(x)'
               \/ /\ logs[1].op = "mechRequest" /\ logs[1].id = x
                  /\ logs[1].ipfs /\ logs[1].mech \in createMechs
    <3>1. PICK k \in DOMAIN logs : /\ logs[k].op = "mechRequest" /\ logs[k].id = x
                                   /\ logs[k].ipfs /\ logs[k].mech \in createMechs
      BY <2>1 DEF PayloadLog
    <3>2. CASE k = 1
      BY <3>1, <3>2
    <3>3. CASE k # 1
      <4>1. k - 1 \in DOMAIN logs' /\ logs'[k - 1] = logs[k] /\ logs[k].mech \in createMechs'
        BY <1>1, <3>1, <3>3
      <4>2. /\ logs'[k - 1].op = "mechRequest" /\ logs'[k - 1].id = x
            /\ logs'[k - 1].ipfs /\ logs'[k - 1].mech \in createMechs'
        BY <3>1, <4>1
      <4> QED BY <4>1, <4>2, Zenon DEF PayloadLog
    <3> QED BY <3>2, <3>3
  <2> QED BY <2>1
<1>4. SignedLog(x) => SignedLog(x)' \/ (logs[1].op = "signed" /\ logs[1].id = x)
  BY <1>1 DEF SignedLog
<1>5. RateLog(x) => RateLog(x)' \/ (logs[1].op = "rate" /\ logs[1].mech = x)
  BY <1>1 DEF RateLog
<1>6. CreationLog(x) => CreationLog(x)' \/ (logs[1].op = "createMech" /\ logs[1].mech = x)
  BY <1>1 DEF CreationLog
<1> QED BY <1>2, <1>3, <1>4, <1>5, <1>6

\* What handling the first log starts from.
LEMMA Handling ==
  ASSUME IInv, ComposeInv, NEW price, HandleAt(price)
  PROVE  /\ logs \in Seq(Log) /\ logs # <<>> /\ logs' = Tail(logs)
         /\ Head(logs) = logs[1] /\ 1 \in DOMAIN logs /\ logs[1] \in Log
         /\ Len(logs') = Len(logs) - 1 /\ Len(logs) \in Nat
         /\ \A k \in DOMAIN logs' : k + 1 \in DOMAIN logs /\ logs'[k] = logs[k + 1]
         /\ status' = status /\ advertised' = advertised /\ tx' = tx /\ announced' = announced
         /\ payloads' = payloads
         /\ MechsHandled(logs[1]) /\ RatesHandled(logs[1]) /\ createMechs \subseteq createMechs'
         /\ PayloadsHandled(logs[1]) /\ DeliversHandled(logs[1])
<1>1. /\ logs \in Seq(Log) /\ logs # <<>> /\ logs' = Tail(logs)
      /\ status' = status /\ advertised' = advertised /\ tx' = tx /\ announced' = announced
      /\ payloads' = payloads
  BY DEF IInv, Typed, HandleAt, chainVars
<1>2. /\ Head(logs) = logs[1] /\ 1 \in DOMAIN logs /\ logs[1] \in Log
      /\ Len(logs') = Len(logs) - 1 /\ Len(logs) \in Nat
      /\ \A k \in DOMAIN logs' : k + 1 \in DOMAIN logs /\ logs'[k] = logs[k + 1]
  BY <1>1, NextLog
<1>3. /\ MechsHandled(Head(logs)) /\ RatesHandled(Head(logs))
      /\ PayloadsHandled(Head(logs)) /\ DeliversHandled(Head(logs))
  BY TablesHandled, RatesAreHandled, PayloadsAreHandled, DeliversAreHandled DEF ComposeInv
<1>4. createMechs \subseteq createMechs'
  BY <1>3 DEF MechsHandled, TablesTyped
<1>5. ASSUME NEW log, log = logs[1]
      PROVE  /\ MechsHandled(log) /\ RatesHandled(log)
             /\ PayloadsHandled(log) /\ DeliversHandled(log)
  BY <1>2, <1>3, <1>5
<1> QED BY <1>1, <1>2, <1>4, <1>5

LEMMA HandleKeepsLogsBacked ==
  ASSUME IInv, ComposeInv, NEW price, HandleAt(price)
  PROVE  LogsBacked'
<1>1. /\ logs \in Seq(Log) /\ logs # <<>> /\ logs' = Tail(logs) /\ createMechs \subseteq createMechs'
      /\ Len(logs') = Len(logs) - 1 /\ Len(logs) \in Nat
      /\ \A k \in DOMAIN logs' : k + 1 \in DOMAIN logs /\ logs'[k] = logs[k + 1]
      /\ status' = status /\ advertised' = advertised /\ tx' = tx
      /\ MechsHandled(logs[1])
  BY Handling
<1>2. KeptServices(services, services')
  BY <1>1 DEF MechsHandled, TablesTyped
<1> SUFFICES ASSUME NEW k \in DOMAIN logs'
             PROVE  LogBacked(k)'
  BY DEF LogsBacked
<1>3. k + 1 \in DOMAIN logs /\ logs'[k] = logs[k + 1] /\ k \in Nat /\ k > 0 /\ k + 1 <= Len(logs)
      /\ logs[k + 1] \in Log
  BY <1>1
<1>4. LogBacked(k + 1)
  BY <1>3 DEF ComposeInv, LogsBacked
<1> DEFINE log == logs[k + 1]
<1>5. log.op # "factory" /\ log.op # "multisig"
  BY <1>3, <1>4 DEF LogBacked
<1>6. log.op = "createMech" => k = Len(logs') /\ services'[ServiceOf[log.mech]] # NoRow /\ k = 1
  BY <1>1, <1>2, <1>3, <1>4, LogTyped, MarketplaceAssumption DEF LogBacked, KeptServices
<1>7. log.op = "mechRequest" /\ log.mech \notin Strangers /\ tx.toMarketplace =>
        \A r \in {log.id} : AskedByLog(r)'
  <2>1. ASSUME logs[1].op = "request"
        PROVE  FALSE
    BY <1>1, <1>3, <2>1 DEF IInv, LogsFresh
  <2> QED BY <1>1, <1>4, <2>1, StillToCome DEF LogBacked
<1>8. /\ log.op = "rate" /\ log.mech \notin Strangers => log.rate = advertised[log.mech]
      /\ log.op = "mechDeliver" /\ log.mech \notin Strangers => status[log.id] # "signed"
      /\ log.op = "delivery" => \A r \in log.won : status[r] # "signed"
  BY <1>4 DEF LogBacked
<1>9. PICK new : new = log
  OBVIOUS
<1> HIDE DEF log
<1>10. logs'[k] = log
  BY <1>3 DEF log
<1> QED BY <1>1, <1>5, <1>6, <1>7, <1>8, <1>10 DEF LogBacked, AskedByLog

LEMMA HandleKeepsPayloads ==
  ASSUME IInv, ComposeInv, NEW price, HandleAt(price)
  PROVE  PayloadsComing'
<1>1. /\ logs \in Seq(Log) /\ logs # <<>> /\ logs' = Tail(logs) /\ createMechs \subseteq createMechs'
      /\ 1 \in DOMAIN logs /\ logs[1] \in Log
      /\ Len(logs) \in Nat /\ tx' = tx /\ payloads' = payloads /\ PayloadsHandled(logs[1])
  BY Handling
<1> DEFINE log == logs[1]
<1>2. log.op = "request" => DOMAIN logs = {1}
  <2>1. log.op = "request" => Len(logs) = 1
    BY <1>1 DEF IInv, LogsFresh
  <2>2. DOMAIN logs = 1 .. Len(logs)
    BY <1>1
  <2> QED BY <2>1, <2>2
<1>3. /\ \A r : AskedByLog(r) => AskedByLog(r)' \/ (log.op = "request" /\ r \in log.ids)
      /\ \A r : PayloadLog(r) => \/ PayloadLog(r)'
                                 \/ /\ log.op = "mechRequest" /\ log.id = r
                                    /\ log.ipfs /\ Known(log.mech)
  BY <1>1, StillToCome DEF Known
<1>4. log.op = "request" => \A r : ~ PayloadLog(r)
  BY <1>2 DEF PayloadLog
<1>5. log.op = "mechRequest" /\ Known(log.mech) /\ tx.toMarketplace =>
        \A r \in {log.id} : AskedByLog(r)
  BY <1>1 DEF ComposeInv, LogsBacked, LogBacked, IInv, Typed, Known
<1>6. PayloadsHandled(log) /\ PayloadsComing /\ payloads \subseteq Ids /\ pendingPayloads \subseteq Ids
  BY <1>1 DEF ComposeInv, Statuses, RowTypes
<1> HIDE DEF log
<1>7. ASSUME NEW r \in payloads
      PROVE  \/ HasPayload(r)'
             \/ AskedByLog(r)' /\ (r \in pendingPayloads' \/ PayloadLog(r)')
             \/ PayloadLog(r)' /\ ~ tx.toMarketplace
  <2>0. r \in Ids
    BY <1>6
  <2>1. CASE HasPayload(r)
    BY <1>6, <2>0, <2>1 DEF PayloadsHandled
  <2>2. CASE log.op = "request" /\ ~ HasPayload(r)
    <3>1. AskedByLog(r) /\ r \in pendingPayloads
      BY <1>4, <1>6, <2>2 DEF PayloadsComing
    <3> QED BY <1>3, <1>6, <2>2, <3>1 DEF PayloadsHandled
  <2>3. CASE log.op # "request" /\ ~ HasPayload(r)
    <3>1. r \in pendingPayloads => r \in pendingPayloads'
      BY <1>6, <2>3 DEF PayloadsHandled
    <3>2. AskedByLog(r) => AskedByLog(r)'
      BY <1>3, <2>3
    <3>3. PayloadLog(r) => \/ PayloadLog(r)' \/ HasPayload(r)'
                           \/ r \in pendingPayloads' /\ tx.toMarketplace
      BY <1>3, <1>6 DEF PayloadsHandled
    <3> QED BY <1>6, <2>3, <3>1, <3>2, <3>3 DEF PayloadsComing
  <2> QED BY <2>1, <2>2, <2>3
<1>8. ASSUME NEW r \in pendingPayloads'
      PROVE  AskedByLog(r)'
  <2>1. CASE log.op = "request"
    BY <1>3, <1>6, <1>8, <2>1 DEF PayloadsHandled, PayloadsComing
  <2>2. CASE log.op # "request"
    <3>1. r \in pendingPayloads => AskedByLog(r)
      BY <1>6 DEF PayloadsComing
    <3>2. AskedByLog(r)
      BY <1>5, <1>6, <1>8, <2>2, <3>1 DEF PayloadsHandled
    <3> QED BY <1>3, <2>2, <3>2
  <2> QED BY <2>1, <2>2
<1> QED BY <1>1, <1>7, <1>8 DEF PayloadsComing

LEMMA HandleKeepsSigned ==
  ASSUME IInv, ComposeInv, NEW price, HandleAt(price)
  PROVE  SignedComing'
<1>1. /\ logs \in Seq(Log) /\ logs # <<>> /\ logs' = Tail(logs) /\ createMechs \subseteq createMechs'
      /\ 1 \in DOMAIN logs /\ status' = status /\ DeliversHandled(logs[1])
  BY Handling
<1> DEFINE log == logs[1]
<1>2. /\ log.op = "mechDeliver" /\ Known(log.mech) => status[log.id] # "signed"
      /\ log.op = "delivery" => \A r \in log.won : status[r] # "signed"
  BY <1>1 DEF ComposeInv, LogsBacked, LogBacked, IInv, Typed, Known
<1>3. \A r : SignedLog(r) => SignedLog(r)' \/ (log.op = "signed" /\ log.id = r)
  BY <1>1, StillToCome
<1>4. DeliversHandled(log) /\ SignedComing /\ DOMAIN status = Ids
  BY <1>1 DEF ComposeInv, Statuses
<1> HIDE DEF log
<1>5. ASSUME NEW r \in DOMAIN status, status[r] = "signed"
      PROVE  HasSignedRow(r)' \/ SignedLog(r)'
  <2>1. HasSignedRow(r) \/ SignedLog(r)
    BY <1>4, <1>5 DEF SignedComing, HasSignedRow
  <2>2. CASE HasSignedRow(r)
    BY <1>2, <1>4, <1>5, <2>2 DEF DeliversHandled
  <2>3. CASE SignedLog(r)
    BY <1>3, <1>4, <2>3 DEF DeliversHandled
  <2> QED BY <2>1, <2>2, <2>3
<1> QED BY <1>1, <1>5 DEF SignedComing, HasSignedRow

LEMMA HandleKeepsRates ==
  ASSUME IInv, ComposeInv, NEW price, HandleAt(price)
  PROVE  RatesComing'
<1>1. /\ logs \in Seq(Log) /\ logs # <<>> /\ logs' = Tail(logs) /\ createMechs \subseteq createMechs'
      /\ 1 \in DOMAIN logs /\ logs[1] \in Log /\ Len(logs) \in Nat
      /\ \A k \in DOMAIN logs' : k + 1 \in DOMAIN logs /\ logs'[k] = logs[k + 1]
      /\ advertised' = advertised /\ announced' = announced
      /\ MechsHandled(logs[1]) /\ RatesHandled(logs[1])
  BY Handling
<1> DEFINE log == logs[1]
<1>2. \A m : /\ RateLog(m) => RateLog(m)' \/ (log.op = "rate" /\ log.mech = m)
             /\ CreationLog(m) => CreationLog(m)' \/ (log.op = "createMech" /\ log.mech = m)
  BY <1>1, StillToCome
<1>3. LogBacked(1) /\ RatesComing
  BY <1>1 DEF ComposeInv, LogsBacked
<1>4. /\ log.op = "rate" /\ log.mech \notin Strangers => log.rate = advertised[log.mech]
      /\ log.op = "factory" => /\ log.rate = advertised[log.mech]
                              /\ 2 \in DOMAIN logs
                              /\ logs[2].op = "createMech" /\ logs[2].mech = log.mech
      /\ log.op = "createMech" /\ log.mech \in announced =>
           pendingRates[log.mech] = advertised[log.mech]
      /\ log.op = "factory" => log.mech \in Mechs
      /\ log.op = "createMech" => log.mech \in Mechs
  BY <1>1, <1>3, LogTyped DEF LogBacked, RatesComing
<1>5. /\ advertised \in [Mechs -> Rates] /\ createMechs \subseteq Mechs \ Strangers
      /\ pendingRates \in [Mechs -> Rates \cup {NoRate}] /\ NoRate \notin Rates
      /\ ServiceOf \in [Mechs -> Services] /\ Linked
  BY MarketplaceAssumption DEF IInv, Typed, ComposeInv, RowTypes
<1>6. MechsHandled(log) /\ RatesHandled(log)
  BY <1>1
<1>7. \A k \in DOMAIN logs' : logs'[k].op = "createMech" =>
        k = 1 /\ log.op = "factory" /\ logs'[k].mech = log.mech
  <2> SUFFICES ASSUME NEW k \in DOMAIN logs', logs'[k].op = "createMech"
               PROVE  k = 1 /\ log.op = "factory" /\ logs'[k].mech = log.mech
    OBVIOUS
  <2>1. k + 1 \in DOMAIN logs /\ logs'[k] = logs[k + 1] /\ k \in Nat /\ k > 0
    BY <1>1
  <2>2. LogBacked(k + 1)
    BY <2>1 DEF ComposeInv, LogsBacked
  <2>3. k + 1 = 2 /\ log.op = "factory"
    BY <2>1, <2>2 DEF LogBacked
  <2>4. k = 1 /\ logs'[k] = logs[2]
    BY <2>1, <2>3
  <2> QED BY <1>4, <2>3, <2>4
<1>8. log.op = "factory" => \A m \in {log.mech} : CreationLog(m)'
  <2>1. log.op = "factory" => 1 \in DOMAIN logs' /\ logs'[1] = logs[2]
    BY <1>1, <1>4, LogsLeft
  <2> QED BY <1>4, <2>1 DEF CreationLog
<1> HIDE DEF log
<1>9. \A m \in announced : m \in createMechs' \/ CreationLog(m)'
  BY <1>2, <1>3, <1>6 DEF RatesComing, RatesHandled
<1>10. ASSUME NEW s \in Services, mechs'[s] # NoRow, mechs'[s].address \in announced
       PROVE  mechs'[s].rate = advertised[mechs'[s].address]
              \/ \A m \in {mechs'[s].address} : RateLog(m)'
  <2>1. mechs[s] # NoRow /\ mechs[s].address \in announced =>
          mechs[s].rate = advertised[mechs[s].address] \/ RateLog(mechs[s].address)
    BY <1>3 DEF RatesComing
  <2>2. mechs[s] # NoRow => mechs[s].address \in Mechs \ Strangers
    BY <1>5 DEF Linked
  <2>3. CASE log.op \notin {"createMech", "rate"}
    <3>1. /\ mechs[s] # NoRow /\ mechs'[s].address = mechs[s].address
          /\ mechs'[s].rate = mechs[s].rate \/ mechs[s].rate = NoRate
      BY <1>6, <1>10, <2>3 DEF MechsHandled, KeptMechs, SameMechs
    <3>2. CASE mechs[s].rate = advertised[mechs[s].address]
      BY <1>5, <2>2, <3>1, <3>2
    <3>3. CASE RateLog(mechs[s].address)
      BY <1>2, <2>3, <3>1, <3>3
    <3> QED BY <1>10, <2>1, <3>1, <3>2, <3>3
  <2>4. CASE log.op = "rate"
    <3>1. /\ mechs[s] # NoRow /\ mechs'[s].address = mechs[s].address
          /\ mechs'[s].rate = IF mechs[s].address = log.mech THEN log.rate ELSE mechs[s].rate
      BY <1>6, <1>10, <2>4 DEF MechsHandled, SameMechs
    <3>2. CASE mechs[s].address = log.mech
      BY <1>4, <2>2, <2>4, <3>1, <3>2
    <3>3. CASE mechs[s].address # log.mech
      <4>1. CASE mechs[s].rate = advertised[mechs[s].address]
        BY <3>1, <3>3, <4>1
      <4>2. CASE RateLog(mechs[s].address)
        BY <1>2, <3>1, <3>3, <4>2
      <4> QED BY <1>10, <2>1, <3>1, <4>1, <4>2
    <3> QED BY <3>2, <3>3
  <2>5. CASE log.op = "createMech"
    <3>1. /\ \A q \in Services \ {ServiceOf[log.mech]} : mechs'[q] = mechs[q]
          /\ mechs'[ServiceOf[log.mech]].address = log.mech
          /\ mechs'[ServiceOf[log.mech]].rate = pendingRates[log.mech]
      BY <1>6, <2>5 DEF MechsHandled
    <3>2. CASE s = ServiceOf[log.mech]
      BY <1>4, <1>10, <2>5, <3>1, <3>2
    <3>3. CASE s # ServiceOf[log.mech]
      <4>1. mechs'[s] = mechs[s]
        BY <3>1, <3>3
      <4>2. CASE mechs[s].rate = advertised[mechs[s].address]
        BY <4>1, <4>2
      <4>3. CASE RateLog(mechs[s].address)
        BY <1>2, <2>5, <4>1, <4>3
      <4> QED BY <1>10, <2>1, <4>1, <4>2, <4>3
    <3> QED BY <3>2, <3>3
  <2> QED BY <2>3, <2>4, <2>5
<1>11. \A k \in DOMAIN logs' : logs'[k].op = "createMech" /\ logs'[k].mech \in announced =>
         k = 2 \/ pendingRates'[logs'[k].mech] = advertised[logs'[k].mech]
  BY <1>4, <1>5, <1>6, <1>7 DEF RatesHandled
<1>12. ASSUME NEW m \in Mechs, pendingRates'[m] # NoRate
       PROVE  CreationLog(m)'
  <2>1. pendingRates[m] # NoRate => CreationLog(m)
    BY <1>3 DEF RatesComing
  <2>2. CASE log.op = "factory"
    <3>1. m # log.mech => pendingRates'[m] = pendingRates[m]
      BY <1>5, <1>6, <2>2 DEF RatesHandled
    <3> QED BY <1>2, <1>8, <1>12, <2>1, <2>2, <3>1
  <2>3. CASE log.op = "createMech"
    <3>1. m # log.mech /\ pendingRates'[m] = pendingRates[m]
      BY <1>4, <1>5, <1>6, <1>12, <2>3 DEF RatesHandled
    <3> QED BY <1>2, <1>12, <2>1, <3>1
  <2>4. CASE log.op \notin {"factory", "createMech"}
    BY <1>2, <1>6, <1>12, <2>1, <2>4 DEF RatesHandled
  <2> QED BY <2>2, <2>3, <2>4
<1>13. \A s \in Services : mechs'[s] # NoRow /\ mechs'[s].address \in announced =>
         mechs'[s].rate = advertised[mechs'[s].address]
         \/ \E k \in DOMAIN logs' : logs'[k].op = "rate" /\ logs'[k].mech = mechs'[s].address
  BY <1>10 DEF RateLog
<1>14. (\A s \in Services : mechs[s] # NoRow /\ mechs[s].address \in announced =>
          mechs[s].rate = advertised[mechs[s].address] \/ RateLog(mechs[s].address))'
  BY <1>1, <1>13 DEF RateLog
<1> QED BY <1>1, <1>9, <1>11, <1>12, <1>14 DEF RatesComing

LEMMA HandleComposes ==
  ASSUME IInv, ComposeInv, NEW price, HandleAt(price)
  PROVE  ComposeInv'
<1>1. /\ status' = status /\ payloads' = payloads /\ announced' = announced
      /\ MechsHandled(logs[1])
  BY Handling
<1>2. RowTypes' /\ Linked' /\ Statuses'
  BY <1>1 DEF MechsHandled, TablesTyped, ComposeInv, Statuses
<1> QED BY <1>2, HandleKeepsLogsBacked, HandleKeepsPayloads, HandleKeepsSigned,
           HandleKeepsRates DEF ComposeInv

-----------------------------------------------------------------------------
(* The contracts' steps. *)

\* What a call logs is so, and what it asks for, signs, announces is logged with it.
Logged ==
  /\ LogsBacked'
  /\ DOMAIN status' = Ids /\ payloads' \subseteq Ids /\ announced' \subseteq Mechs
  /\ \A r \in payloads' \ payloads :
       \/ PayloadLog(r)' /\ AskedByLog(r)'
       \/ PayloadLog(r)' /\ ~ tx'.toMarketplace
  /\ \A r \in Ids : status'[r] = "signed" => status[r] = "signed" \/ SignedLog(r)'
  /\ payloads \subseteq payloads'
  /\ \A m \in announced' : m \in announced \/ m \in createMechs \/ CreationLog(m)'
  /\ \A m \in createMechs \cap announced' :
       \/ m \in announced /\ advertised'[m] = advertised[m]
       \/ RateLog(m)'
  /\ \A k \in DOMAIN logs' : logs'[k].op = "createMech" /\ logs'[k].mech \in announced' => k = 2

LEMMA EmitComposes ==
  ASSUME IInv, ComposeInv, NEW kind, NEW emitted, Emit(kind, emitted), Logged
  PROVE  ComposeInv'
<1>1. /\ logs = <<>> /\ createMechs' = createMechs /\ mechs' = mechs /\ services' = services
      /\ pendingRates' = pendingRates /\ multisigs' = multisigs /\ agents' = agents
      /\ metadata' = metadata /\ perAgent' = perAgent /\ markers' = markers
      /\ pendingPayloads' = pendingPayloads /\ delivers' = delivers /\ ataTxs' = ataTxs
      /\ tx' = tx \/ \E to \in BOOLEAN, from \in Accounts :
                       tx' = [id |-> tx.id + 1, toMarketplace |-> to, from |-> from]
  BY DEF Emit, mechVars, registryVars, askVars, ataVars
<1>2. RowTypes' /\ Linked'
  <2>1. tx'.id \in Nat
    BY <1>1 DEF ComposeInv, RowTypes
  <2> QED BY <1>1, <2>1 DEF ComposeInv, RowTypes, Linked
<1>3. \A r : ~ AskedByLog(r) /\ ~ PayloadLog(r) /\ ~ SignedLog(r) /\ ~ RateLog(r) /\ ~ CreationLog(r)
  BY <1>1 DEF AskedByLog, PayloadLog, SignedLog, RateLog, CreationLog
<1>4. PayloadsComing'
  <2>1. pendingPayloads = {} /\ \A r \in payloads : HasPayload(r)
    BY <1>3 DEF ComposeInv, PayloadsComing
  <2>2. \A r : HasPayload(r) => HasPayload(r)'
    BY <1>1 DEF HasPayload
  <2> QED BY <1>1, <2>1, <2>2 DEF Logged, PayloadsComing
<1>5. SignedComing'
  <2>1. \A r \in Ids : status[r] = "signed" =>
          delivers[r] # NoRow /\ delivers[r].offChain /\ delivers[r].rate # NoRate
    BY <1>3 DEF ComposeInv, SignedComing, Statuses
  <2> QED BY <1>1, <2>1 DEF Logged, SignedComing
<1>6. RatesComing'
  <2>1. /\ \A m \in announced : m \in createMechs
        /\ \A s \in Services : mechs[s] # NoRow /\ mechs[s].address \in announced =>
             mechs[s].rate = advertised[mechs[s].address]
        /\ \A m \in Mechs : pendingRates[m] = NoRate
    BY <1>3 DEF ComposeInv, RatesComing
  <2>2. \A s \in Services : mechs[s] # NoRow => mechs[s].address \in createMechs
    BY DEF ComposeInv, Linked
  <2>3. \A s \in Services : mechs[s] # NoRow /\ mechs[s].address \in announced' =>
          \/ mechs[s].rate = advertised'[mechs[s].address]
          \/ \E k \in DOMAIN logs' : logs'[k].op = "rate" /\ logs'[k].mech = mechs[s].address
    <3> SUFFICES ASSUME NEW s \in Services, mechs[s] # NoRow, mechs[s].address \in announced'
                 PROVE  \/ mechs[s].rate = advertised'[mechs[s].address]
                        \/ \E k \in DOMAIN logs' : logs'[k].op = "rate" /\ logs'[k].mech = mechs[s].address
      OBVIOUS
    <3>1. PICK m : m = mechs[s].address
      OBVIOUS
    <3>2. m \in createMechs \cap announced'
      BY <2>2, <3>1
    <3>3. (m \in announced /\ advertised'[m] = advertised[m]) \/ RateLog(m)'
      BY <3>2 DEF Logged
    <3> QED BY <2>1, <3>1, <3>3 DEF RateLog
  <2>4. (\A s \in Services : mechs[s] # NoRow /\ mechs[s].address \in announced =>
           mechs[s].rate = advertised[mechs[s].address] \/ RateLog(mechs[s].address))'
    BY <1>1, <2>3 DEF RateLog
  <2> QED BY <1>1, <2>1, <2>4 DEF Logged, RatesComing
<1> QED BY <1>2, <1>4, <1>5, <1>6 DEF ComposeInv, Statuses, Logged

\* The sequence of a set has each of its elements.
LEMMA AllListed ==
  ASSUME NEW ids, IsFiniteSet(ids)
  PROVE  /\ DOMAIN SetToSeq(ids) = 1 .. Cardinality(ids) /\ Cardinality(ids) \in Nat
         /\ \A r \in ids : \E k \in DOMAIN SetToSeq(ids) : SetToSeq(ids)[k] = r
<1>1. PICK g \in [1 .. Cardinality(ids) -> ids] : IsInjective(g)
  <2>1. PICK g : g \in Bijection(1 .. Cardinality(ids), ids)
    <3>1. ExistsBijection(1 .. Cardinality(ids), ids)
      BY FS_CardinalityType
    <3> QED BY <3>1 DEF ExistsBijection
  <2>2. g \in [1 .. Cardinality(ids) -> ids] /\ IsInjective(g)
    BY <2>1 DEF Bijection, Injection, IsInjective
  <2> QED BY <2>2
<1>2. SetToSeq(ids) \in [1 .. Cardinality(ids) -> ids] /\ IsInjective(SetToSeq(ids))
  BY <1>1, Zenon DEF SetToSeq
<1>3. Cardinality(ids) \in Nat
  BY FS_CardinalityType
<1> DEFINE f == SetToSeq(ids)
<1> HIDE DEF f
<1>4. f \in [1 .. Cardinality(ids) -> ids] /\ IsInjective(f)
  BY <1>2 DEF f
<1>5. f \in Injection(1 .. Cardinality(ids), ids)
  BY <1>4 DEF Injection, IsInjective
<1>6. Cardinality(1 .. Cardinality(ids)) = Cardinality(ids)
  BY <1>3, FS_Interval
<1>7. f \in Surjection(1 .. Cardinality(ids), ids)
  BY <1>5, <1>6, FS_Injection
<1>8. DOMAIN f = 1 .. Cardinality(ids) /\ \A r \in ids : \E k \in DOMAIN f : f[k] = r
  BY <1>4, <1>7 DEF Surjection
<1> QED BY <1>3, <1>8 DEF f

LEMMA NothingSigned ==
  ASSUME IInv, ComposeInv, NEW kind, NEW emitted, Emit(kind, emitted), LogsBacked',
         status' = status, payloads' = payloads, announced' = announced, advertised' = advertised,
         \A k \in DOMAIN logs' : logs'[k].op # "createMech"
  PROVE  ComposeInv'
<1>1. \A m \in announced : m \in createMechs
  <2>1. logs = <<>>
    BY DEF Emit
  <2> QED BY <2>1 DEF ComposeInv, RatesComing, CreationLog
<1>2. Logged
  BY DEF Logged, ComposeInv, Statuses
<1> QED BY <1>2, EmitComposes

LEMMA CreateMechLogged ==
  ASSUME IInv, ComposeInv, EmitCreateMech
  PROVE  ComposeInv'
<1>1. PICK m \in Mechs \ (createMechs \cup Strangers), logged \in BOOLEAN :
        /\ services[ServiceOf[m]] # NoRow
        /\ Emit("createMech",
                IF logged THEN <<[op |-> "factory", mech |-> m, rate |-> advertised[m]],
                                 [op |-> "createMech", mech |-> m]>>
                ELSE <<[op |-> "createMech", mech |-> m]>>)
        /\ announced' = IF logged THEN announced \cup {m} ELSE announced
        /\ advertised' = advertised /\ status' = status /\ payloads' = payloads
  BY DEF EmitCreateMech
<1>2. logs = <<>> /\ services' = services
      /\ logs' = IF logged THEN <<[op |-> "factory", mech |-> m, rate |-> advertised[m]],
                                  [op |-> "createMech", mech |-> m]>>
                 ELSE <<[op |-> "createMech", mech |-> m]>>
  BY <1>1 DEF Emit
<1>3. \A n \in announced : n \in createMechs
  BY <1>2 DEF ComposeInv, RatesComing, CreationLog
<1>4. LogsBacked'
  BY <1>1, <1>2 DEF LogsBacked, LogBacked
<1>5. CreationLog(m)'
  BY <1>2 DEF CreationLog
<1>6. \A k \in DOMAIN logs' : logs'[k].op = "createMech" /\ logs'[k].mech \in announced' => k = 2
  BY <1>1, <1>2, <1>3
<1>7. Logged
  BY <1>1, <1>3, <1>4, <1>5, <1>6 DEF Logged, ComposeInv, Statuses
<1> QED BY <1>1, <1>7, EmitComposes

LEMMA RateLogged ==
  ASSUME IInv, ComposeInv, EmitRate
  PROVE  ComposeInv'
<1>1. PICK m \in createMechs, rate \in Rates :
        /\ Emit("rate", <<[op |-> "rate", mech |-> m, rate |-> rate]>>)
        /\ advertised' = [advertised EXCEPT ![m] = rate]
        /\ announced' = announced \cup {m} /\ status' = status /\ payloads' = payloads
  BY DEF EmitRate
<1>2. logs = <<>> /\ logs' = <<[op |-> "rate", mech |-> m, rate |-> rate]>>
  BY <1>1 DEF Emit
<1>3. m \in Mechs /\ advertised \in [Mechs -> Rates] /\ createMechs \subseteq Mechs
  BY DEF IInv, Typed
<1>4. /\ advertised'[m] = rate
      /\ \A n \in createMechs \ {m} : advertised'[n] = advertised[n]
  BY <1>1, <1>3
<1>5. LogsBacked'
  BY <1>2, <1>4 DEF LogsBacked, LogBacked
<1>6. RateLog(m)'
  BY <1>2 DEF RateLog
<1>7. \A k \in DOMAIN logs' : logs'[k].op # "createMech"
  BY <1>2
<1>8. Logged
  BY <1>1, <1>3, <1>4, <1>5, <1>6, <1>7 DEF Logged, ComposeInv, Statuses
<1> QED BY <1>1, <1>8, EmitComposes

LEMMA RegistryLogged ==
  ASSUME IInv, ComposeInv, EmitRegistry
  PROVE  ComposeInv'
<1>1. /\ advertised' = advertised /\ status' = status /\ payloads' = payloads
      /\ announced' = announced
  BY DEF EmitRegistry
<1> DEFINE Registers ==
             \E log : /\ log.op \in {"createService", "multisig", "transfer", "register",
                                    "terminate", "update", "metadata", "karma"}
                      /\ log.op = "multisig" => services[log.service] # NoRow
                      /\ Emit("registry", <<log>>)
<1>2. Registers
  <2>1. PICK s \in Services :
          \/ Emit("registry", <<[op |-> "createService", service |-> s, config |-> FirstHash]>>)
          \/ /\ services[s] # NoRow
             /\ \/ \E a \in Accounts :
                     \/ Emit("registry", <<[op |-> "multisig", service |-> s, account |-> a]>>)
                     \/ Emit("registry", <<[op |-> "transfer", service |-> s, account |-> a]>>)
                \/ \E a \in Agents : Emit("registry", <<[op |-> "register", service |-> s, agent |-> a]>>)
                \/ Emit("registry", <<[op |-> "terminate", service |-> s]>>)
                \/ \E h \in Hashes :
                     \/ Emit("registry", <<[op |-> "update", service |-> s, config |-> h]>>)
                     \/ Emit("registry", <<[op |-> "metadata", service |-> s, hash |-> h]>>)
          \/ \E m \in Mechs, k \in Karma :
               Emit("registry", <<[op |-> "karma", service |-> s, mech |-> m, change |-> k]>>)
    BY DEF EmitRegistry
  <2>2. CASE Emit("registry", <<[op |-> "createService", service |-> s, config |-> FirstHash]>>)
    BY <2>2
  <2>3. ASSUME services[s] # NoRow, NEW a \in Accounts,
               \/ Emit("registry", <<[op |-> "multisig", service |-> s, account |-> a]>>)
               \/ Emit("registry", <<[op |-> "transfer", service |-> s, account |-> a]>>)
        PROVE  Registers
    BY <2>3
  <2>4. ASSUME NEW a \in Agents,
               Emit("registry", <<[op |-> "register", service |-> s, agent |-> a]>>)
        PROVE  Registers
    BY <2>4
  <2>5. CASE Emit("registry", <<[op |-> "terminate", service |-> s]>>)
    BY <2>5
  <2>6. ASSUME NEW h \in Hashes,
               \/ Emit("registry", <<[op |-> "update", service |-> s, config |-> h]>>)
               \/ Emit("registry", <<[op |-> "metadata", service |-> s, hash |-> h]>>)
        PROVE  Registers
    BY <2>6
  <2>7. ASSUME NEW m \in Mechs, NEW k \in Karma,
               Emit("registry", <<[op |-> "karma", service |-> s, mech |-> m, change |-> k]>>)
        PROVE  Registers
    BY <2>7
  <2> HIDE DEF Registers
  <2> QED BY <2>1, <2>2, <2>3, <2>4, <2>5, <2>6, <2>7
<1>3. PICK log : /\ log.op \in {"createService", "multisig", "transfer", "register", "terminate",
                                "update", "metadata", "karma"}
                 /\ log.op = "multisig" => services[log.service] # NoRow
                 /\ Emit("registry", <<log>>)
  BY <1>2
<1>4. services' = services /\ logs' = <<log>>
  BY <1>3 DEF Emit
<1>5. LogsBacked' /\ \A k \in DOMAIN logs' : logs'[k].op # "createMech"
  BY <1>3, <1>4 DEF LogsBacked, LogBacked
<1> QED BY <1>1, <1>3, <1>5, NothingSigned

LEMMA ForeignLogged ==
  ASSUME IInv, ComposeInv, EmitForeign
  PROVE  ComposeInv'
<1>1. /\ advertised' = advertised /\ status' = status /\ payloads' = payloads
      /\ announced' = announced
  BY DEF EmitForeign
<1>2. \E log : /\ log.op \in {"mechRequest", "mechDeliver", "rate"} /\ log.mech \in Strangers
               /\ Emit("foreign", <<log>>)
  <2>1. PICK m \in Strangers, r \in Ids, rate \in Rates :
          \/ Emit("foreign", <<[op |-> "mechRequest", mech |-> m, id |-> r, ipfs |-> TRUE]>>)
          \/ Emit("foreign", <<[op |-> "mechDeliver", mech |-> m, id |-> r, rate |-> rate]>>)
          \/ Emit("foreign", <<[op |-> "rate", mech |-> m, rate |-> rate]>>)
    BY DEF EmitForeign
  <2> QED BY <2>1
<1>3. PICK log : /\ log.op \in {"mechRequest", "mechDeliver", "rate"} /\ log.mech \in Strangers
                 /\ Emit("foreign", <<log>>)
  BY <1>2
<1>4. logs' = <<log>>
  BY <1>3 DEF Emit
<1>5. LogsBacked' /\ \A k \in DOMAIN logs' : logs'[k].op # "createMech"
  BY <1>3, <1>4 DEF LogsBacked, LogBacked
<1> QED BY <1>1, <1>3, <1>5, NothingSigned

LEMMA DirectLogged ==
  ASSUME IInv, ComposeInv, EmitDirect
  PROVE  ComposeInv'
<1>1. PICK m \in createMechs, r \in Ids :
        /\ \/ /\ status[r] = "none" /\ NewStatus({r}, m) /\ payloads' = payloads \cup {r}
              /\ Emit("direct", <<[op |-> "mechRequest", mech |-> m, id |-> r, ipfs |-> TRUE]>>)
           \/ /\ status[r] = m /\ status' = status /\ payloads' = payloads
              /\ \E rate \in Rates :
                   Emit("direct", <<[op |-> "mechDeliver", mech |-> m, id |-> r, rate |-> rate]>>)
        /\ advertised' = advertised /\ announced' = announced
  BY DEF EmitDirect
<1>2. m \in Mechs /\ m # "signed"
  BY MarketplaceAssumption DEF IInv, Typed
<1>3. CASE /\ status[r] = "none" /\ NewStatus({r}, m) /\ payloads' = payloads \cup {r}
           /\ Emit("direct", <<[op |-> "mechRequest", mech |-> m, id |-> r, ipfs |-> TRUE]>>)
  <2>1. /\ logs = <<>> /\ logs' = <<[op |-> "mechRequest", mech |-> m, id |-> r, ipfs |-> TRUE]>>
        /\ createMechs' = createMechs /\ ~ tx'.toMarketplace
    BY <1>3 DEF Emit, mechVars
  <2>2. LogsBacked' /\ \A k \in DOMAIN logs' : logs'[k].op # "createMech"
    BY <2>1 DEF LogsBacked, LogBacked
  <2>3. PayloadLog(r)'
    BY <2>1 DEF PayloadLog
  <2>4. /\ \A n \in announced : n \in createMechs
        /\ status' = [q \in Ids |-> IF q \in {r} THEN m ELSE status[q]]
    BY <1>3, <2>1 DEF ComposeInv, RatesComing, CreationLog, NewStatus
  <2>5. Logged
    BY <1>1, <1>2, <1>3, <2>1, <2>2, <2>3, <2>4 DEF Logged, ComposeInv, Statuses
  <2> QED BY <1>3, <2>5, EmitComposes
<1>4. ASSUME NEW rate \in Rates, status[r] = m, status' = status, payloads' = payloads,
             Emit("direct", <<[op |-> "mechDeliver", mech |-> m, id |-> r, rate |-> rate]>>)
      PROVE  ComposeInv'
  <2>1. logs' = <<[op |-> "mechDeliver", mech |-> m, id |-> r, rate |-> rate]>>
    BY <1>4 DEF Emit
  <2>2. LogsBacked' /\ \A k \in DOMAIN logs' : logs'[k].op # "createMech"
    BY <1>2, <1>4, <2>1 DEF LogsBacked, LogBacked
  <2> QED BY <1>1, <1>4, <2>2, NothingSigned
<1> QED BY <1>1, <1>3, <1>4

LEMMA RequestLogged ==
  ASSUME IInv, ComposeInv, EmitRequest
  PROVE  ComposeInv'
<1>1. PICK m \in createMechs, a \in Accounts, ids \in (SUBSET New) \ {{}}, ipfs \in BOOLEAN :
        /\ Emit("request",
                [k \in DOMAIN SetToSeq(ids) |->
                   [op |-> "mechRequest", mech |-> m, id |-> SetToSeq(ids)[k], ipfs |-> ipfs]]
                  \o <<[op |-> "request", mech |-> m, requester |-> a, ids |-> ids]>>)
        /\ NewStatus(ids, "asked") /\ advertised' = advertised /\ announced' = announced
        /\ payloads' = IF ipfs THEN payloads \cup ids ELSE payloads
  BY DEF EmitRequest, Each
<1> DEFINE q == SetToSeq(ids)
           each == [k \in DOMAIN q |->
                      [op |-> "mechRequest", mech |-> m, id |-> q[k], ipfs |-> ipfs]]
           last == [op |-> "request", mech |-> m, requester |-> a, ids |-> ids]
           n == Cardinality(ids)
<1>2. ids \in SUBSET Ids /\ IsFiniteSet(ids)
  BY MarketplaceAssumption, FS_Subset DEF New
<1>3. /\ q \in Seq(ids) /\ DOMAIN q = 1 .. n /\ n \in Nat
      /\ \A r \in ids : \E k \in DOMAIN q : q[k] = r
  BY <1>2, OneEach, AllListed
<1> HIDE DEF q, n
<1>4. /\ each \in Seq({each[k] : k \in DOMAIN q}) /\ Len(each) = n /\ DOMAIN each = 1 .. n
      /\ \A k \in 1 .. n : /\ each[k].op = "mechRequest" /\ each[k].id = q[k]
                           /\ each[k].ipfs = ipfs /\ each[k].mech = m
  BY <1>3
<1>5. last.op = "request" /\ last.ids = ids
  OBVIOUS
<1>6. Emit("request", each \o <<last>>)
  BY <1>1 DEF q
<1> HIDE DEF each, last
<1>7. /\ logs = <<>> /\ logs' = each \o <<last>> /\ createMechs' = createMechs
  BY <1>6 DEF Emit, mechVars
<1>8. /\ DOMAIN logs' = 1 .. n + 1 /\ logs'[n + 1] = last
      /\ \A k \in 1 .. n : logs'[k] = each[k]
  BY <1>3, <1>4, <1>7
<1>9. \A r \in ids : AskedByLog(r)'
  <2>1. n + 1 \in DOMAIN logs'
    BY <1>3, <1>8
  <2> QED BY <1>5, <1>8, <2>1 DEF AskedByLog
<1>10. ASSUME NEW r \in ids, ipfs
       PROVE  PayloadLog(r)'
  <2>1. PICK k \in 1 .. n : q[k] = r
    BY <1>3
  <2>2. k \in DOMAIN logs' /\ logs'[k] = each[k]
    BY <1>3, <1>8
  <2>3. m \in createMechs'
    BY <1>7
  <2> QED BY <1>4, <1>10, <2>1, <2>2, <2>3 DEF PayloadLog
<1>11. ASSUME NEW k \in DOMAIN logs'
       PROVE  LogBacked(k)' /\ logs'[k].op # "createMech"
  <2>1. CASE k = n + 1
    BY <1>5, <1>8, <2>1 DEF LogBacked
  <2>2. CASE k \in 1 .. n
    <3>1. logs'[k].op = "mechRequest" /\ logs'[k].id = q[k] /\ q[k] \in ids
      BY <1>3, <1>4, <1>8, <2>2
    <3>2. \A r \in {logs'[k].id} : AskedByLog(r)'
      BY <1>9, <3>1
    <3> QED BY <3>1, <3>2 DEF LogBacked, AskedByLog
  <2> QED BY <1>3, <1>8, <2>1, <2>2
<1>12. \A r \in announced : r \in createMechs
  BY <1>7 DEF ComposeInv, RatesComing, CreationLog
<1>13. Logged
  BY <1>1, <1>2, <1>9, <1>10, <1>11, <1>12 DEF Logged, LogsBacked, ComposeInv, Statuses, NewStatus
<1> QED BY <1>6, <1>13, EmitComposes

LEMMA DeliveryLogged ==
  ASSUME IInv, ComposeInv, EmitDelivery
  PROVE  ComposeInv'
<1> DEFINE Answer(m, ids, won, rate) ==
             <<[op |-> "delivery", mech |-> m, ids |-> ids, won |-> won]>>
               \o [k \in DOMAIN SetToSeq(won) |->
                     [op |-> "mechDeliver", mech |-> m, id |-> SetToSeq(won)[k], rate |-> rate]]
<1>0. PICK m \in createMechs, ids \in (SUBSET {r \in Ids : status[r] \in {"asked", "done"}}) \ {{}},
           rate \in Rates :
        \E won \in SUBSET {r \in ids : status[r] = "asked"} :
          /\ Emit("delivery", Answer(m, ids, won, rate))
          /\ NewStatus(won, "done") /\ advertised' = advertised /\ announced' = announced
          /\ payloads' = payloads
  BY Zenon DEF EmitDelivery, Each
<1>1. PICK won \in SUBSET Ids :
        /\ Emit("delivery", Answer(m, ids, won, rate))
        /\ NewStatus(won, "done") /\ advertised' = advertised /\ announced' = announced
        /\ payloads' = payloads
  <2> HIDE DEF Answer
  <2> QED BY <1>0
<1> DEFINE q == SetToSeq(won)
           each == [k \in DOMAIN q |->
                      [op |-> "mechDeliver", mech |-> m, id |-> q[k], rate |-> rate]]
           first == [op |-> "delivery", mech |-> m, ids |-> ids, won |-> won]
           n == Cardinality(won)
<1>2. IsFiniteSet(won)
  BY MarketplaceAssumption, FS_Subset
<1>3. q \in Seq(won) /\ DOMAIN q = 1 .. n /\ n \in Nat
  BY <1>2, OneEach, AllListed
<1> HIDE DEF q, n
<1>4. /\ each \in Seq({each[k] : k \in DOMAIN q}) /\ Len(each) = n /\ DOMAIN each = 1 .. n
      /\ \A k \in 1 .. n : each[k].op = "mechDeliver" /\ each[k].id \in won
  BY <1>3
<1>5. first.op = "delivery" /\ first.won = won
  OBVIOUS
<1>6. Emit("delivery", <<first>> \o each)
  BY <1>1 DEF q
<1> HIDE DEF each, first
<1>7. logs = <<>> /\ logs' = <<first>> \o each
  BY <1>6 DEF Emit
<1>8. \A k \in DOMAIN logs' : logs'[k] = first \/ (logs'[k].op = "mechDeliver" /\ logs'[k].id \in won)
  BY <1>3, <1>4, <1>7
<1>9. /\ \A r \in won : status'[r] = "done"
      /\ \A r \in Ids : status'[r] = "signed" => status[r] = "signed"
      /\ DOMAIN status' = Ids
  BY <1>1 DEF NewStatus
<1>10. \A k \in DOMAIN logs' : LogBacked(k)' /\ logs'[k].op # "createMech"
  BY <1>5, <1>8, <1>9 DEF LogBacked
<1>11. \A r \in announced : r \in createMechs
  BY <1>7 DEF ComposeInv, RatesComing, CreationLog
<1>12. Logged
  BY <1>1, <1>9, <1>10, <1>11 DEF Logged, LogsBacked, ComposeInv, Statuses
<1> HIDE DEF Answer
<1> QED BY <1>6, <1>12, EmitComposes

LEMMA SignedLogged ==
  ASSUME IInv, ComposeInv, EmitSigned
  PROVE  ComposeInv'
<1>0. PICK m \in createMechs, a \in Accounts, rate \in Rates, batchFirst \in BOOLEAN,
           ids \in SUBSET Ids :
        SignedCall(m, a, rate, batchFirst, ids)
  BY SignedCalls, Zenon
<1>1. /\ NewStatus(ids \cap New, "signed") /\ advertised' = advertised
      /\ announced' = announced /\ payloads' = payloads
  BY <1>0, Zenon DEF SignedCall
<1> DEFINE q == SetToSeq(ids)
           each == [k \in DOMAIN q |-> [op |-> "signed", mech |-> m, id |-> q[k], rate |-> rate]]
           one == [op |-> "batch", mech |-> m, requester |-> a, ids |-> ids]
           n == Cardinality(ids)
           emitted == IF batchFirst THEN <<one>> \o each ELSE each \o <<one>>
<1>2. IsFiniteSet(ids)
  BY MarketplaceAssumption, FS_Subset
<1>3. /\ q \in Seq(ids) /\ DOMAIN q = 1 .. n /\ n \in Nat
      /\ \A r \in ids : \E k \in DOMAIN q : q[k] = r
  BY <1>2, OneEach, AllListed
<1> HIDE DEF q, n
<1>4. /\ each \in Seq({each[k] : k \in DOMAIN q}) /\ Len(each) = n /\ DOMAIN each = 1 .. n
      /\ \A k \in 1 .. n : each[k].op = "signed" /\ each[k].id = q[k]
  BY <1>3
<1>5. one.op = "batch"
  OBVIOUS
<1>6. Emit("signed", emitted)
  BY <1>0, Zenon DEF SignedCall, q
<1> HIDE DEF each, one
<1>7. logs = <<>> /\ logs' = emitted
  <2> HIDE DEF emitted
  <2> QED BY <1>6 DEF Emit
<1>8. \A k \in 1 .. n : \E j \in DOMAIN logs' : logs'[j] = each[k]
  <2>1. CASE batchFirst
    <3>1. logs' = <<one>> \o each
      BY <1>7, <2>1
    <3>2. \A k \in 1 .. n : k + 1 \in DOMAIN logs' /\ logs'[k + 1] = each[k]
      BY <1>3, <1>4, <3>1
    <3> QED BY <3>2
  <2>2. CASE ~ batchFirst
    <3>1. logs' = each \o <<one>>
      BY <1>7, <2>2
    <3>2. \A k \in 1 .. n : k \in DOMAIN logs' /\ logs'[k] = each[k]
      BY <1>3, <1>4, <3>1
    <3> QED BY <3>2
  <2> QED BY <2>1, <2>2
<1>9. \A k \in DOMAIN logs' : logs'[k].op \in {"signed", "batch"}
  <2>1. CASE batchFirst
    <3>1. logs' = <<one>> \o each
      BY <1>7, <2>1
    <3>2. \A k \in DOMAIN logs' : logs'[k] = one \/ \E j \in 1 .. n : logs'[k] = each[j]
      BY <1>3, <1>4, <3>1
    <3> QED BY <1>4, <1>5, <3>2
  <2>2. CASE ~ batchFirst
    <3>1. logs' = each \o <<one>>
      BY <1>7, <2>2
    <3> QED BY <1>3, <1>4, <1>5, <3>1
  <2> QED BY <2>1, <2>2
<1> HIDE DEF emitted
<1>10. ASSUME NEW r \in ids
       PROVE  SignedLog(r)'
  <2>1. PICK k \in 1 .. n : q[k] = r
    BY <1>3
  <2>2. PICK j \in DOMAIN logs' : logs'[j] = each[k]
    BY <1>8, <2>1
  <2> QED BY <1>4, <2>1, <2>2 DEF SignedLog
<1>11. \A k \in DOMAIN logs' : LogBacked(k)' /\ logs'[k].op # "createMech"
  BY <1>9 DEF LogBacked
<1>12. \A r \in announced : r \in createMechs
  BY <1>7 DEF ComposeInv, RatesComing, CreationLog
<1>13. DOMAIN status' = Ids /\ \A r \in Ids : status'[r] = "signed" => status[r] = "signed" \/ r \in ids
  BY <1>1 DEF NewStatus
<1>14. Logged
  BY <1>1, <1>10, <1>11, <1>12, <1>13 DEF Logged, LogsBacked, ComposeInv, Statuses
<1> QED BY <1>6, <1>14, EmitComposes

LEMMA ContractsCompose ==
  ASSUME IInv, ComposeInv, Contracts
  PROVE  ComposeInv'
BY CreateMechLogged, RateLogged, RegistryLogged, RequestLogged, DeliveryLogged, SignedLogged,
   DirectLogged, ForeignLogged DEF Contracts

LEMMA InitiallyComposed ==
  ASSUME Init
  PROVE  ComposeInv
<1>1. /\ logs = <<>> /\ createMechs = Founded /\ announced = Founded /\ payloads = {}
      /\ pendingPayloads = {} /\ status = [r \in Ids |-> "none"] /\ multisigs = Multisigs
      /\ pendingRates = [m \in Mechs |-> NoRate] /\ advertised \in [Mechs -> Rates]
  BY DEF Init
<1> DEFINE row(s) == LET m == CHOOSE m \in Founded : ServiceOf[m] = s
                     IN NewMech(m, advertised[m], FirstHash, tx.from)
<1>2. mechs = [s \in Services |-> IF \E m \in Founded : ServiceOf[m] = s THEN row(s) ELSE NoRow]
  BY DEF Init
<1>3. services = [s \in Services |-> IF s \in Registered THEN NewService(FirstHash) ELSE NoRow]
  BY DEF Init
<1>4. /\ FirstHash \in Hashes /\ tx.from \in Accounts /\ tx.id = 0
      /\ Founded \subseteq Mechs \ Strangers
  BY MarketplaceAssumption DEF FirstHash, Init
<1>5. NewService(FirstHash) \in ServiceRow /\ NewService(FirstHash) # NoRow
  BY <1>4, NewRowsTyped, MarketplaceAssumption
<1>6. ASSUME NEW s \in Services, \E m \in Founded : ServiceOf[m] = s
      PROVE  /\ row(s) \in MechRow /\ row(s) # NoRow
             /\ \E m \in Founded : row(s).address = m /\ ServiceOf[m] = s /\ row(s).rate = advertised[m]
  <2> DEFINE m == CHOOSE m \in Founded : ServiceOf[m] = s
  <2>1. m \in Founded /\ ServiceOf[m] = s
    BY <1>6, Zenon
  <2> HIDE DEF m
  <2>2. advertised[m] \in Rates /\ m \in Mechs
    BY <1>1, <1>4, <2>1
  <2>3. PICK x \in MechRow : x = NewMech(m, advertised[m], FirstHash, tx.from)
    BY <1>4, <2>2, NewRowsTyped
  <2>4. x # NoRow /\ x.address = m /\ x.rate = advertised[m]
    BY <2>3, MarketplaceAssumption DEF NewMech
  <2>5. row(s) = x
    BY <2>3 DEF m
  <2> HIDE DEF row
  <2> QED BY <2>1, <2>4, <2>5
<1> HIDE DEF row
<1>7. /\ mechs \in [Services -> {NoRow} \cup MechRow]
      /\ services \in [Services -> {NoRow} \cup ServiceRow]
  BY <1>2, <1>3, <1>5, <1>6
<1>8. RowTypes
  <2>1. /\ metadata = [s \in Services |-> NoRow] /\ agents = [s \in Services |-> <<>>]
        /\ perAgent = [a \in Agents |-> 0] /\ delivers = [r \in Ids |-> NoRow] /\ ataTxs = {}
    BY DEF Init
  <2> QED BY <1>1, <1>4, <1>7, <2>1, MarketplaceAssumption DEF RowTypes
<1>9. Linked
  <2>1. \A s \in Services : s \in Registered => services[s] # NoRow
    BY <1>3, <1>5
  <2>2. \A m \in Founded : ServiceOf[m] \in Services /\ ServiceOf[m] \in Registered
    BY <1>4, MarketplaceAssumption
  <2>3. \A m \in Founded : mechs[ServiceOf[m]] # NoRow
    BY <1>2, <1>6, <2>2
  <2>4. \A a \in DOMAIN multisigs : services[multisigs[a]] # NoRow
    BY <1>1, <2>1, MarketplaceAssumption
  <2>5. \A s \in Services : mechs[s] # NoRow =>
          mechs[s].address \in createMechs /\ ServiceOf[mechs[s].address] = s
    BY <1>1, <1>2, <1>6
  <2> QED BY <1>1, <2>1, <2>2, <2>3, <2>4, <2>5 DEF Linked
<1>10. Statuses /\ LogsBacked /\ PayloadsComing /\ SignedComing
  BY <1>1, <1>4 DEF Statuses, LogsBacked, PayloadsComing, SignedComing
<1>11. RatesComing
  <2>1. \A s \in Services : mechs[s] # NoRow => mechs[s].rate = advertised[mechs[s].address]
    BY <1>2, <1>6
  <2> QED BY <1>1, <2>1 DEF RatesComing
<1> QED BY <1>8, <1>9, <1>10, <1>11 DEF ComposeInv

LEMMA StutteringComposes ==
  ASSUME ComposeInv, UNCHANGED vars
  PROVE  ComposeInv'
<1>1. /\ logs' = logs /\ advertised' = advertised /\ tx' = tx /\ createMechs' = createMechs
      /\ multisigs' = multisigs /\ status' = status /\ announced' = announced
      /\ payloads' = payloads /\ mechs' = mechs /\ services' = services /\ metadata' = metadata
  BY DEF vars, chainVars, mechVars, registryVars
<1>2. /\ agents' = agents /\ perAgent' = perAgent /\ delivers' = delivers /\ ataTxs' = ataTxs
      /\ pendingRates' = pendingRates /\ pendingPayloads' = pendingPayloads /\ markers' = markers
  BY DEF vars, mechVars, registryVars, askVars, ataVars
<1>3. RowTypes' /\ Linked' /\ Statuses'
  BY <1>1, <1>2 DEF ComposeInv, RowTypes, Linked, Statuses
<1>4. LogsBacked'
  BY <1>1 DEF ComposeInv, LogsBacked, LogBacked, AskedByLog
<1>5. PayloadsComing' /\ SignedComing' /\ RatesComing'
  BY <1>1, <1>2 DEF ComposeInv, PayloadsComing, SignedComing, RatesComing, HasPayload,
     AskedByLog, PayloadLog, SignedLog, RateLog, CreationLog
<1> QED BY <1>3, <1>4, <1>5 DEF ComposeInv

LEMMA StepComposes ==
  ASSUME IInv, ComposeInv, [Next]_vars
  PROVE  ComposeInv'
<1>1. CASE Contracts
  BY <1>1, ContractsCompose
<1>2. CASE Handle
  <2>1. PICK price \in PossiblePrices : HandleAt(price)
    BY <1>2 DEF Handle
  <2> QED BY <2>1, HandleComposes
<1>3. CASE UNCHANGED vars
  BY <1>3, StutteringComposes
<1> QED BY <1>1, <1>2, <1>3 DEF Next

LEMMA Composing == Spec => []ComposeInv
<1>1. Init => ComposeInv
  BY InitiallyComposed
<1>2. IInv /\ ComposeInv /\ [Next]_vars => ComposeInv'
  BY StepComposes
<1> QED BY <1>1, <1>2, Invariance, PTL DEF Spec

LEMMA NothingLeftComposed ==
  ASSUME ComposeInv
  PROVE  LogsCompose
<1>1. Handled => \A r : ~ AskedByLog(r) /\ ~ PayloadLog(r) /\ ~ SignedLog(r) /\ ~ RateLog(r)
  BY DEF Handled, AskedByLog, PayloadLog, SignedLog, RateLog
<1>2. PayloadsKept
  BY <1>1 DEF ComposeInv, PayloadsComing, HasPayload, PayloadsKept
<1>3. SignedWritesCompose
  BY <1>1 DEF ComposeInv, SignedComing, SignedWritesCompose
<1>4. AdvertisedRate
  <2>1. \A s \in Rows(mechs) : s \in Services /\ mechs[s] # NoRow
    BY DEF ComposeInv, RowTypes, Rows
  <2> QED BY <1>1, <2>1 DEF ComposeInv, RatesComing, AdvertisedRate
<1> QED BY <1>2, <1>3, <1>4 DEF LogsCompose

\* Once its logs are handled, a transaction left in the tables all that its logs said, in
\* whatever order they came: the payload of a request, which only the mech's log has, is in
\* the marker that the marketplace's log makes, or that the mech's own makes when nobody
\* else does (handlers.ts:1107-1121); a signed delivery has its row, off chain and with a
\* rate (handlers.ts:903-918); and a Mech whose rate was ever logged advertises what its
\* contract does, though deliveries at other rates came between (handlers.ts:348-349).
THEOREM LogsAlwaysCompose == Spec => []LogsCompose
<1>1. ComposeInv => LogsCompose
  BY NothingLeftComposed
<1> QED BY <1>1, Composing, PTL

\* Every table of the squid has the rows of its type, and the memory of a batch is empty
\* once the logs of its transaction are handled.
THEOREM TablesAlwaysTyped == Spec => []TypeOK
<1>1. IInv /\ ComposeInv => TypeOK
  <2> SUFFICES ASSUME IInv, ComposeInv
               PROVE  TypeOK
    OBVIOUS
  <2>1. logs = <<>> => \A r : ~ AskedByLog(r) /\ ~ CreationLog(r)
    BY DEF AskedByLog, CreationLog
  <2>2. logs = <<>> => pendingPayloads = {} /\ pendingRates = [m \in Mechs |-> NoRate]
    BY <2>1 DEF ComposeInv, PayloadsComing, RatesComing, RowTypes
  <2> QED BY <2>2 DEF TypeOK, IInv, Typed, ComposeInv, RowTypes
<1> QED BY <1>1, Invariance, Composing, PTL

-----------------------------------------------------------------------------
(* Requests are attributed to services and agents. *)

\* What was asked for off chain is part of what was asked for.
OffChainAmongAll ==
  \A a \in Accounts : senders[a] # NoRow => senders[a].offChain <= senders[a].requests

\* A mech has a service and its configuration, and a service each of its agents once.
Configured ==
  \A s \in Services : mechs[s] # NoRow =>
    services[s] # NoRow /\ mechs[s].config = services[s].config
AgentsOnce ==
  \A s \in Services : \A i, j \in DOMAIN agents[s] : agents[s][i] = agents[s][j] => i = j

\* The multisigs known from the start keep their services, and every multisig is in the
\* history of its own.
KnownFromStart ==
  /\ \A a \in DOMAIN Multisigs : a \in DOMAIN multisigs /\ multisigs[a] = Multisigs[a]
  /\ \A a \in DOMAIN multisigs : a \in DOMAIN Multisigs \/ a \in services[multisigs[a]].historical

\* A service is logged before it has a row.
NewServicesOnly ==
  \A k \in DOMAIN logs : logs[k].op = "createService" =>
    Len(logs) = 1 /\ services[logs[k].service] = NoRow

\* The requests of a service are between those of its multisigs from the start and those
\* of its multisigs now.
From(s) == {a \in DOMAIN Multisigs : Multisigs[a] = s}
Now(s) == {a \in DOMAIN multisigs : multisigs[a] = s}
Between(s) ==
  /\ Total(AskedOnChain(senders), From(s)) <= services[s].requests
  /\ services[s].requests <= Total(AskedOnChain(senders), Now(s))
ServicesBetween == \A s \in Services : services[s] # NoRow => Between(s)

TablesAttributed ==
  /\ OffChainAmongAll /\ Configured /\ AgentsOnce /\ KnownFromStart
  /\ ServicesBetween /\ RequestsPerAgentBounded
AttributedInv == TablesAttributed /\ NewServicesOnly

\* One account asks for more, on chain and in all, and no other does.
Natural(f) == \A a \in Accounts : f[a] \in Nat
GrowsAt(f, g, a, n) == \A b \in Accounts : g[b] = f[b] + (IF b = a THEN n ELSE 0)
AsksMore(a, on, all) ==
  /\ senders' \in [Accounts -> {NoRow} \cup SenderRow]
  /\ GrowsAt(AskedOnChain(senders), AskedOnChain(senders'), a, on)
  /\ GrowsAt(RequestsMade(senders), RequestsMade(senders'), a, all)

LEMMA AskedAre ==
  ASSUME Typed, OffChainAmongAll, NEW a \in Accounts
  PROVE  AskedOnChain(senders)[a] \in Nat /\ RequestsMade(senders)[a] \in Nat
BY DEF Typed, OffChainAmongAll, AskedOnChain, RequestsMade, SenderRow

\* A sum over a set of accounts grows by what the one of them asks for more.
SumGrows(f, g, S, a, n) ==
  Total(f, S) \in Nat /\ Total(g, S) = Total(f, S) + (IF a \in S THEN n ELSE 0)
LEMMA SumMoves ==
  ASSUME NEW f, NEW g, NEW S \in SUBSET Accounts, NEW a \in Accounts, NEW n \in Nat,
         Natural(f), GrowsAt(f, g, a, n)
  PROVE  SumGrows(f, g, S, a, n)
<1> USE DEF Natural, GrowsAt
<1>1. IsFiniteSet(S) /\ \A b \in S : f[b] \in Nat /\ g[b] \in Nat
  BY MarketplaceAssumption, FS_Subset
<1>2. Total(f, S) \in Nat /\ Total(g, S) \in Nat
  BY <1>1, SumNatural
<1>3. CASE a \in S
  <2>1. \A b \in S \ {a} : f[b] = g[b]
    BY <1>1
  <2>2. g[a] - f[a] = n
    BY <1>1, <1>3
  <2>3. Total(g, S) = Total(f, S) + (g[a] - f[a])
    BY <1>1, <1>3, <2>1, SumChange
  <2>4. Total(g, S) = Total(f, S) + n
    BY <2>2, <2>3
  <2> QED BY <1>2, <1>3, <2>4 DEF SumGrows
<1>4. CASE a \notin S
  <2>1. \A b \in S : f[b] = g[b]
    BY <1>1, <1>4
  <2>2. Total(f, S) = Total(g, S)
    BY <1>1, <2>1, SumSame
  <2>3. Total(g, S) = Total(f, S) + 0
    BY <1>2, <2>2
  <2> QED BY <1>2, <1>4, <2>3 DEF SumGrows
<1> QED BY <1>3, <1>4

LEMMA AskedMoves ==
  ASSUME Typed, OffChainAmongAll, NEW a \in Accounts, NEW on \in Nat, NEW all \in Nat,
         AsksMore(a, on, all), NEW S \in SUBSET Accounts
  PROVE  /\ SumGrows(AskedOnChain(senders), AskedOnChain(senders'), S, a, on)
         /\ SumGrows(RequestsMade(senders), RequestsMade(senders'), S, a, all)
<1>1. Natural(AskedOnChain(senders)) /\ Natural(RequestsMade(senders))
  BY AskedAre DEF Natural
<1> QED BY <1>1, SumMoves DEF AsksMore

\* Accounts that come to a set add what they asked for.
LEMMA SumsGrow ==
  ASSUME Typed, OffChainAmongAll, NEW S \in SUBSET Accounts, NEW a \in Accounts
  PROVE  /\ Total(AskedOnChain(senders), S) <= Total(AskedOnChain(senders), S \cup {a})
         /\ Total(RequestsMade(senders), S) <= Total(RequestsMade(senders), S \cup {a})
<1>1. CASE a \in S
  <2>1. S \cup {a} = S
    BY <1>1
  <2>2. \A b \in Accounts : AskedOnChain(senders)[b] \in Nat /\ RequestsMade(senders)[b] \in Nat
    BY AskedAre
  <2>3. IsFiniteSet(S)
    BY MarketplaceAssumption, FS_Subset
  <2>4. Total(AskedOnChain(senders), S) \in Nat /\ Total(RequestsMade(senders), S) \in Nat
    BY <2>2, <2>3, SumNatural
  <2> QED BY <2>1, <2>4
<1>2. CASE a \notin S
  <2> DEFINE T == S \cup {a}
  <2>1. \A b \in Accounts : AskedOnChain(senders)[b] \in Nat /\ RequestsMade(senders)[b] \in Nat
    BY AskedAre
  <2>2. T \in SUBSET Accounts /\ T \ {a} = S /\ a \in T /\ S \in SUBSET Accounts
    BY <1>2
  <2>3. IsFiniteSet(T) /\ IsFiniteSet(S)
    BY <2>2, MarketplaceAssumption, FS_Subset
  <2> HIDE DEF T
  <2>4. /\ \A b \in T : AskedOnChain(senders)[b] \in Int /\ RequestsMade(senders)[b] \in Int
        /\ \A b \in S : AskedOnChain(senders)[b] \in Nat /\ RequestsMade(senders)[b] \in Nat
    BY <2>1, <2>2
  <2>5. Total(AskedOnChain(senders), S) \in Nat /\ Total(RequestsMade(senders), S) \in Nat
    BY <2>3, <2>4, SumNatural
  <2>6. /\ Total(AskedOnChain(senders), T)
             = AskedOnChain(senders)[a] + Total(AskedOnChain(senders), T \ {a})
        /\ Total(RequestsMade(senders), T)
             = RequestsMade(senders)[a] + Total(RequestsMade(senders), T \ {a})
    BY <2>2, <2>3, <2>4, SumSplit
  <2>7. /\ Total(AskedOnChain(senders), S) <= Total(AskedOnChain(senders), T)
        /\ Total(RequestsMade(senders), S) <= Total(RequestsMade(senders), T)
    BY <2>1, <2>2, <2>5, <2>6
  <2> QED BY <2>7 DEF T
<1> QED BY <1>1, <1>2

\* A service's requests grow by those its multisig asks for on chain, and an agent's by
\* no more than those that a multisig asks for.
ServicesAsk(a, n) ==
  \A s \in Services :
    /\ services'[s] # NoRow <=> services[s] # NoRow
    /\ services[s] # NoRow =>
         /\ services'[s].historical = services[s].historical
         /\ services'[s].requests
              = services[s].requests + (IF ServiceOfMultisig(a) = s THEN n ELSE 0)
AgentsAsk(a, n) ==
  /\ perAgent' \in [Agents -> Nat]
  /\ \A x \in Agents : perAgent'[x] <= perAgent[x] + (IF a \in DOMAIN multisigs THEN n ELSE 0)

LEMMA AttributedKept ==
  ASSUME Typed, RowTypes, Linked, TablesAttributed,
         NEW a \in Accounts, NEW on \in Nat, NEW all \in Nat,
         AsksMore(a, on, all), ServicesAsk(a, on), AgentsAsk(a, all),
         OffChainAmongAll', Configured', AgentsOnce', multisigs' = multisigs
  PROVE  TablesAttributed'
<1>1. OffChainAmongAll /\ KnownFromStart /\ ServicesBetween /\ RequestsPerAgentBounded
  BY DEF TablesAttributed
<1>2. KnownFromStart'
  <2>1. \A b \in DOMAIN multisigs : services'[multisigs[b]].historical = services[multisigs[b]].historical
    BY DEF Typed, Linked, ServicesAsk
  <2> QED BY <1>1, <2>1 DEF KnownFromStart
<1>3. ServicesBetween'
  <2> SUFFICES ASSUME NEW s \in Services, services'[s] # NoRow
               PROVE  Between(s)'
    BY DEF ServicesBetween
  <2> DEFINE low == From(s)
             high == Now(s)
             asked == AskedOnChain(senders)
             asks == AskedOnChain(senders')
  <2>1. services[s] # NoRow
    BY DEF ServicesAsk
  <2>2. low \in SUBSET Accounts /\ high \in SUBSET Accounts
    BY MarketplaceAssumption DEF RowTypes, From, Now
  <2>3. /\ Total(asked, low) <= services[s].requests
        /\ services[s].requests <= Total(asked, high)
        /\ services[s].requests \in Nat
    BY <1>1, <2>1 DEF ServicesBetween, Between, RowTypes, ServiceRow
  <2>4. /\ a \in low => ServiceOfMultisig(a) = s
        /\ a \in high <=> ServiceOfMultisig(a) = s
    BY <1>1, MarketplaceAssumption DEF KnownFromStart, ServiceOfMultisig, From, Now
  <2> HIDE DEF low, high, asked, asks
  <2>5. SumGrows(asked, asks, low, a, on) /\ SumGrows(asked, asks, high, a, on)
    BY <1>1, <2>2, AskedMoves DEF asked, asks
  <2>6. services'[s].requests = services[s].requests + (IF ServiceOfMultisig(a) = s THEN on ELSE 0)
    BY <2>1 DEF ServicesAsk
  <2>7. Total(asks, low) <= services'[s].requests /\ services'[s].requests <= Total(asks, high)
    <3>1. CASE ServiceOfMultisig(a) = s
      <4>1. /\ services'[s].requests = services[s].requests + on
            /\ Total(asks, high) = Total(asked, high) + on /\ Total(asked, high) \in Nat
            /\ Total(asks, low) = Total(asked, low) + (IF a \in low THEN on ELSE 0)
            /\ Total(asked, low) \in Nat
        BY <2>4, <2>5, <2>6, <3>1 DEF SumGrows
      <4> QED BY <2>3, <4>1
    <3>2. CASE ServiceOfMultisig(a) # s
      <4>1. /\ services'[s].requests = services[s].requests + 0
            /\ Total(asks, high) = Total(asked, high) + 0 /\ Total(asked, high) \in Nat
            /\ Total(asks, low) = Total(asked, low) + 0 /\ Total(asked, low) \in Nat
        BY <2>4, <2>5, <2>6, <3>2 DEF SumGrows
      <4> QED BY <2>3, <4>1
    <3> QED BY <3>1, <3>2
  <2>8. Now(s)' = Now(s)
    BY DEF Now
  <2> QED BY <2>7, <2>8 DEF Between, low, high, asks
<1>4. RequestsPerAgentBounded'
  <2> DEFINE made == RequestsMade(senders)
             makes == RequestsMade(senders')
             known == DOMAIN multisigs
  <2>1. known \in SUBSET Accounts
    BY DEF RowTypes
  <2>2. SumGrows(made, makes, known, a, all)
    BY <1>1, <2>1, AskedMoves
  <2> HIDE DEF made, makes, known
  <2>3. \A x \in Agents : perAgent[x] \in Nat /\ perAgent[x] <= Total(made, known)
    BY <1>1 DEF RequestsPerAgentBounded, InAll, RowTypes, made, known
  <2>4. \A x \in Agents : perAgent'[x] \in Nat /\ perAgent'[x] <= Total(makes, known)
    <3>1. \A x \in Agents : /\ perAgent'[x] \in Nat
                            /\ perAgent'[x] <= perAgent[x] + (IF a \in known THEN all ELSE 0)
      BY DEF AgentsAsk, known
    <3> QED BY <2>2, <2>3, <3>1 DEF SumGrows
  <2>5. DOMAIN perAgent' = Agents
    BY DEF AgentsAsk
  <2> QED BY <2>4, <2>5 DEF RequestsPerAgentBounded, InAll, makes, known
<1> QED BY <1>2, <1>3, <1>4 DEF TablesAttributed

\* Nothing more is asked for, of services or by senders.
ServicesSame ==
  \A s \in Services :
    /\ services'[s] # NoRow <=> services[s] # NoRow
    /\ services[s] # NoRow => /\ services'[s].historical = services[s].historical
                              /\ services'[s].requests = services[s].requests
SendersSame ==
  /\ OffChainAmongAll'
  /\ \A a \in Accounts : /\ AskedOnChain(senders')[a] = AskedOnChain(senders)[a]
                         /\ RequestsMade(senders')[a] = RequestsMade(senders)[a]

LEMMA NothingAsked ==
  ASSUME Typed, Typed', RowTypes, Linked, TablesAttributed, multisigs' = multisigs,
         perAgent' = perAgent, ServicesSame, SendersSame, Configured', AgentsOnce'
  PROVE  TablesAttributed'
<1>1. PICK a \in Accounts : TRUE
  BY MarketplaceAssumption
<1>2. \A b \in Accounts : AskedOnChain(senders)[b] \in Nat /\ RequestsMade(senders)[b] \in Nat
  BY AskedAre DEF TablesAttributed
<1>3. AsksMore(a, 0, 0)
  BY <1>2 DEF AsksMore, GrowsAt, SendersSame, Typed
<1>4. AgentsAsk(a, 0)
  BY DEF AgentsAsk, RowTypes
<1>5. ServicesAsk(a, 0)
  BY DEF ServicesAsk, ServicesSame, RowTypes, ServiceRow
<1> QED BY <1>3, <1>4, <1>5, AttributedKept DEF SendersSame

\* The configurations of mechs stay, in one table and in the next.
ConfigKept(t, u) ==
  \A s \in Services : u[s] # NoRow => t[s] # NoRow /\ u[s].config = t[s].config

LEMMA ConfigTwice ==
  ASSUME NEW t, NEW u, NEW v, ConfigKept(t, u), ConfigKept(u, v)
  PROVE  ConfigKept(t, v)
BY DEF ConfigKept

LEMMA ConfigReplaced ==
  ASSUME NEW t \in [Services -> {NoRow} \cup MechRow], NEW s \in Services, t[s] # NoRow, NEW row,
         row.config = t[s].config
  PROVE  ConfigKept(t, [t EXCEPT ![s] = row])
BY DEF ConfigKept

LEMMA ConfigCounted ==
  ASSUME NEW t \in [Services -> {NoRow} \cup MechRow], NEW ids, NEW mech
  PROVE  ConfigKept(t, Counted(t, ids, mech))
<1> DEFINE of(s) == {r \in ids : Known(requests[r].priority) /\ ServiceOf[requests[r].priority] = s}
           own(s) == {r \in of(s) : requests[r].priority = mech}
           u == [s \in Services |-> IF t[s] = NoRow THEN NoRow
                 ELSE [t[s] EXCEPT !.self = @ + Cardinality(own(s)),
                                   !.others = @ + Cardinality(of(s) \ own(s))]]
<1>1. u = Counted(t, ids, mech)
  BY DEF Counted
<1> HIDE DEF of, own
<1>2. ConfigKept(t, u)
  BY DEF ConfigKept, MechRow
<1> QED BY <1>1, <1>2

LEMMA StillConfigured ==
  ASSUME Configured, ConfigKept(mechs, mechs'),
         \A s \in Services : services[s] # NoRow =>
           services'[s] # NoRow /\ services'[s].config = services[s].config
  PROVE  Configured'
BY DEF Configured, ConfigKept

\* Handlers that leave the services as they are.
LEMMA ServicesKept ==
  ASSUME Typed, Typed', RowTypes, Linked, TablesAttributed, multisigs' = multisigs,
         perAgent' = perAgent, services' = services, SendersSame, ConfigKept(mechs, mechs'),
         AgentsOnce'
  PROVE  TablesAttributed'
<1>1. ServicesSame
  BY DEF ServicesSame
<1>2. Configured'
  BY StillConfigured DEF TablesAttributed
<1> QED BY <1>1, <1>2, NothingAsked

LEMMA SendersStay ==
  ASSUME TablesAttributed, senders' = senders
  PROVE  SendersSame
BY DEF SendersSame, TablesAttributed, OffChainAmongAll

\* The logs of the registry and of mechs.
LEMMA MechChanged ==
  ASSUME Typed, Typed', RowTypes, Linked, TablesAttributed, NEW m \in Mechs,
         \/ \E rate \in Rates : FactoryCreate(m, rate) \/ MaxDeliveryRateUpdated(m, rate)
         \/ \E change \in Karma : MechKarmaChanged(m, change)
  PROVE  TablesAttributed'
<1> USE DEF registryVars, askVars, ataVars
<1> DEFINE s == ServiceOf[m]
<1>1. /\ services' = services /\ multisigs' = multisigs /\ agents' = agents
      /\ perAgent' = perAgent /\ senders' = senders /\ s \in Services
  BY MarketplaceAssumption DEF FactoryCreate, MaxDeliveryRateUpdated, MechKarmaChanged
<1>2. ConfigKept(mechs, mechs')
  <2>1. mechs \in [Services -> {NoRow} \cup MechRow] /\ ConfigKept(mechs, mechs)
    BY DEF RowTypes, ConfigKept
  <2>2. ASSUME NEW rate \in Rates, FactoryCreate(m, rate)
        PROVE  ConfigKept(mechs, mechs')
    BY <2>1, <2>2 DEF FactoryCreate
  <2>3. ASSUME NEW rate \in Rates, MaxDeliveryRateUpdated(m, rate)
        PROVE  ConfigKept(mechs, mechs')
    <3> DEFINE row == [mechs[s] EXCEPT !.rate = rate]
    <3>1. mechs' = IF Known(m) /\ mechs[s].address = m THEN [mechs EXCEPT ![s] = row] ELSE mechs
      BY <2>3 DEF MaxDeliveryRateUpdated
    <3>2. Known(m) => mechs[s] # NoRow /\ row.config = mechs[s].config
      BY <1>1, <2>1 DEF Known, Linked, MechRow
    <3> HIDE DEF row, s
    <3>3. Known(m) => ConfigKept(mechs, [mechs EXCEPT ![s] = row])
      BY <1>1, <2>1, <3>2, ConfigReplaced
    <3> QED BY <2>1, <3>1, <3>3
  <2>4. ASSUME NEW change \in Karma, MechKarmaChanged(m, change)
        PROVE  ConfigKept(mechs, mechs')
    <3> DEFINE row == [mechs[s] EXCEPT !.karma = @ + change]
    <3>1. mechs' = IF ~ Known(m) \/ mechs[s] = NoRow THEN mechs ELSE [mechs EXCEPT ![s] = row]
      BY <2>4 DEF MechKarmaChanged
    <3>2. mechs[s] # NoRow => row.config = mechs[s].config
      BY <1>1, <2>1 DEF MechRow
    <3> HIDE DEF row, s
    <3>3. mechs[s] # NoRow => ConfigKept(mechs, [mechs EXCEPT ![s] = row])
      BY <1>1, <2>1, <3>2, ConfigReplaced
    <3> QED BY <2>1, <3>1, <3>3
  <2> QED BY <2>2, <2>3, <2>4
<1>3. SendersSame /\ AgentsOnce'
  BY <1>1, SendersStay DEF TablesAttributed, AgentsOnce
<1> QED BY <1>1, <1>2, <1>3, ServicesKept

LEMMA OwnerChanged ==
  ASSUME Typed, Typed', RowTypes, Linked, TablesAttributed, NEW s \in Services, NEW a \in Accounts,
         ServiceTransfer(s, a)
  PROVE  TablesAttributed'
<1> USE DEF registryVars, askVars, ataVars
<1> DEFINE row == [mechs[s] EXCEPT !.owner = a]
<1>1. /\ services' = services /\ multisigs' = multisigs /\ agents' = agents
      /\ perAgent' = perAgent /\ senders' = senders
      /\ mechs' = IF mechs[s] = NoRow THEN mechs ELSE [mechs EXCEPT ![s] = row]
  BY DEF ServiceTransfer
<1>2. mechs \in [Services -> {NoRow} \cup MechRow] /\ ConfigKept(mechs, mechs)
  BY DEF RowTypes, ConfigKept
<1>3. mechs[s] # NoRow => row.config = mechs[s].config
  BY <1>2 DEF MechRow
<1> HIDE DEF row
<1>4. mechs[s] # NoRow => ConfigKept(mechs, [mechs EXCEPT ![s] = row])
  BY <1>2, <1>3, ConfigReplaced
<1>5. SendersSame /\ AgentsOnce' /\ ConfigKept(mechs, mechs')
  BY <1>1, <1>2, <1>4, SendersStay DEF TablesAttributed, AgentsOnce
<1> QED BY <1>1, <1>5, ServicesKept

\* An instance is registered, of an agent that the service may already have; or all are gone.
LEMMA AgentsChanged ==
  ASSUME Typed, Typed', RowTypes, Linked, TablesAttributed, NEW s \in Services,
         \/ \E a \in Agents : RegisterInstance(s, a)
         \/ TerminateService(s)
         \/ \E h \in Hashes : ComplementaryMetadataUpdated(s, h)
  PROVE  TablesAttributed'
<1> USE DEF mechVars, askVars, ataVars
<1>1. /\ services' = services /\ multisigs' = multisigs /\ mechs' = mechs
      /\ perAgent' = perAgent /\ senders' = senders
  BY DEF RegisterInstance, TerminateService, ComplementaryMetadataUpdated
<1>2. AgentsOnce'
  <2>1. AgentsOnce
    BY DEF TablesAttributed
  <2>2. ASSUME NEW a \in Agents, RegisterInstance(s, a)
        PROVE  AgentsOnce'
    <3>1. CASE agents' = agents
      BY <2>1, <3>1 DEF AgentsOnce
    <3>2. CASE agents' # agents
      <4>1. /\ agents' = [agents EXCEPT ![s] = Append(agents[s], a)]
            /\ \A i \in DOMAIN agents[s] : agents[s][i] # a
            /\ agents[s] \in Seq(Agents)
        BY <2>2, <3>2 DEF RegisterInstance, RowTypes
      <4> DEFINE new == Append(agents[s], a)
      <4>2. \A i, j \in DOMAIN new : new[i] = new[j] => i = j
        BY <2>1, <4>1 DEF AgentsOnce
      <4>3. agents'[s] = new /\ \A q \in Services \ {s} : agents'[q] = agents[q]
        BY <4>1 DEF RowTypes
      <4> HIDE DEF new
      <4> QED BY <2>1, <4>2, <4>3 DEF AgentsOnce
    <3> QED BY <3>1, <3>2
  <2>3. ASSUME TerminateService(s)
        PROVE  AgentsOnce'
    <3>1. agents'[s] = <<>> /\ \A q \in Services \ {s} : agents'[q] = agents[q]
      BY <2>3 DEF TerminateService, RowTypes
    <3> QED BY <2>1, <3>1 DEF AgentsOnce
  <2>4. ASSUME NEW h \in Hashes, ComplementaryMetadataUpdated(s, h)
        PROVE  AgentsOnce'
    BY <2>1, <2>4 DEF ComplementaryMetadataUpdated, AgentsOnce
  <2> QED BY <2>2, <2>3, <2>4
<1>3. SendersSame /\ ConfigKept(mechs, mechs')
  BY <1>1, SendersStay DEF ConfigKept
<1> QED BY <1>1, <1>2, <1>3, ServicesKept

\* A new mech takes the configuration of its service.
LEMMA MechCreated ==
  ASSUME Typed, Typed', RowTypes, Linked, TablesAttributed, NEW m \in Mechs,
         services[ServiceOf[m]] # NoRow, CreateMech(m)
  PROVE  TablesAttributed'
<1> USE DEF registryVars, askVars, ataVars
<1> DEFINE s == ServiceOf[m]
           row == NewMech(m, pendingRates[m], services[s].config, tx.from)
<1>1. /\ services' = services /\ multisigs' = multisigs /\ agents' = agents
      /\ perAgent' = perAgent /\ senders' = senders /\ s \in Services
      /\ mechs' = [mechs EXCEPT ![s] = row]
  BY MarketplaceAssumption DEF CreateMech
<1>2. row.config = services[s].config
  BY DEF NewMech
<1> HIDE DEF row
<1>3. mechs'[s] = row /\ \A q \in Services \ {s} : mechs'[q] = mechs[q]
  BY <1>1 DEF RowTypes
<1>4. Configured'
  BY <1>1, <1>2, <1>3 DEF TablesAttributed, Configured
<1>5. SendersSame /\ AgentsOnce' /\ ServicesSame
  BY <1>1, SendersStay DEF TablesAttributed, AgentsOnce, ServicesSame
<1> QED BY <1>1, <1>4, <1>5, NothingAsked

\* A service and its mech are given a configuration together.
LEMMA ServiceUpdated ==
  ASSUME Typed, Typed', RowTypes, Linked, TablesAttributed, NEW s \in Services, NEW h \in Hashes,
         UpdateService(s, h)
  PROVE  TablesAttributed'
<1> USE DEF registryVars, askVars, ataVars
<1> DEFINE row == [mechs[s] EXCEPT !.config = h]
           service == [services[s] EXCEPT !.config = h]
<1>1. /\ multisigs' = multisigs /\ agents' = agents /\ perAgent' = perAgent /\ senders' = senders
      /\ mechs' = IF mechs[s] = NoRow THEN mechs ELSE [mechs EXCEPT ![s] = row]
      /\ services' = IF services[s] = NoRow THEN services ELSE [services EXCEPT ![s] = service]
  BY DEF UpdateService
<1>2. /\ mechs[s] # NoRow => row.config = h
      /\ services[s] # NoRow =>
           /\ service.config = h /\ service # NoRow
           /\ service.historical = services[s].historical /\ service.requests = services[s].requests
  <2>1. mechs[s] # NoRow => row.config = h
    BY DEF RowTypes, MechRow
  <2>2. services[s] # NoRow =>
          /\ service \in ServiceRow /\ service.config = h
          /\ service.historical = services[s].historical /\ service.requests = services[s].requests
    BY DEF RowTypes, ServiceRow
  <2> HIDE DEF row, service
  <2> QED BY <2>1, <2>2, MarketplaceAssumption
<1> HIDE DEF row, service
<1>3. /\ \A q \in Services \ {s} : mechs'[q] = mechs[q] /\ services'[q] = services[q]
      /\ mechs'[s] = IF mechs[s] = NoRow THEN NoRow ELSE row
      /\ services'[s] = IF services[s] = NoRow THEN NoRow ELSE service
  BY <1>1 DEF RowTypes
<1>4. Configured'
  BY <1>2, <1>3 DEF TablesAttributed, Configured
<1>5. SendersSame /\ AgentsOnce'
  BY <1>1, SendersStay DEF TablesAttributed, AgentsOnce
<1>6. ServicesSame
  BY <1>2, <1>3 DEF ServicesSame
<1> QED BY <1>1, <1>4, <1>5, <1>6, NothingAsked

\* What a sender pays, or its first row, asks for nothing.
LEMMA SenderCharged ==
  ASSUME Typed, Typed', RowsConsistent, TablesAttributed, NEW r \in Ids, NEW usd \in Nat,
         Charged(r), senders' = PaidBy(senders, r, usd)
  PROVE  SendersSame
<1> DEFINE a == requests[r].sender
           row == [senders[a] EXCEPT !.fees = @ + usd]
<1>1. a \in Accounts /\ senders[a] # NoRow /\ senders[a] \in SenderRow
  BY DEF Charged, Typed, RowsConsistent, RequestRow
<1>2. /\ row \in SenderRow /\ row.requests = senders[a].requests
      /\ row.offChain = senders[a].offChain
  BY <1>1 DEF SenderRow
<1>3. senders' = [senders EXCEPT ![a] = row]
  BY DEF PaidBy
<1>4. row # NoRow
  BY <1>2, MarketplaceAssumption
<1> HIDE DEF row, a
<1>5. senders'[a] = row /\ \A b \in Accounts \ {a} : senders'[b] = senders[b]
  BY <1>1, <1>3 DEF Typed
<1> QED BY <1>1, <1>2, <1>4, <1>5 DEF SendersSame, TablesAttributed, OffChainAmongAll,
           AskedOnChain, RequestsMade, Typed

LEMMA SenderMet ==
  ASSUME Typed, Typed', TablesAttributed, NEW a \in Accounts,
         senders' = [senders EXCEPT ![a] = OrNew(a)]
  PROVE  SendersSame
<1>1. OrNew(a) \in SenderRow /\ OrNew(a) # NoRow
  BY OrNewIs, MarketplaceAssumption
<1>2. IF senders[a] = NoRow THEN OrNew(a).requests = 0 /\ OrNew(a).offChain = 0
      ELSE OrNew(a) = senders[a]
  BY DEF OrNew, NewSender
<1> DEFINE row == OrNew(a)
<1> HIDE DEF row
<1>3. senders' = [senders EXCEPT ![a] = row]
  BY DEF row
<1>4. senders'[a] = row /\ \A b \in Accounts \ {a} : senders'[b] = senders[b]
  BY <1>3 DEF Typed
<1> QED BY <1>1, <1>2, <1>4 DEF SendersSame, TablesAttributed, OffChainAmongAll,
           AskedOnChain, RequestsMade, Typed, row

LEMMA DirectAsked ==
  ASSUME Typed, Typed', RowTypes, Linked, TablesAttributed, NEW m \in Mechs, NEW r \in Ids,
         NEW ipfs, MechRequest(m, r, ipfs)
  PROVE  TablesAttributed'
<1>1. /\ services' = services /\ multisigs' = multisigs /\ agents' = agents /\ mechs' = mechs
      /\ perAgent' = perAgent
  BY DEF MechRequest, mechVars, registryVars
<1>2. senders' = senders \/ senders' = [senders EXCEPT ![tx.from] = OrNew(tx.from)]
  BY DEF MechRequest
<1>3. SendersSame
  BY <1>2, SendersStay, SenderMet DEF Typed
<1>4. AgentsOnce' /\ ConfigKept(mechs, mechs')
  BY <1>1 DEF TablesAttributed, AgentsOnce, ConfigKept
<1> QED BY <1>1, <1>3, <1>4, ServicesKept

LEMMA SignedCharged ==
  ASSUME Typed, Typed', RowTypes, Linked, RowsConsistent, TablesAttributed, NEW r \in Ids,
         NEW rate \in Rates, NEW price \in Nat, SignedDeliver(r, rate, price)
  PROVE  TablesAttributed'
<1>1. /\ services' = services /\ multisigs' = multisigs /\ agents' = agents /\ mechs' = mechs
      /\ perAgent' = perAgent
  BY DEF SignedDeliver, mechVars, registryVars
<1>2. SendersSame
  <2>1. CASE Charged(r)
    <3>1. senders' = PaidBy(senders, r, FeeToUsd(rate, price))
      BY <2>1 DEF SignedDeliver
    <3> QED BY <2>1, <3>1, UsdTyped, SenderCharged
  <2>2. CASE ~ Charged(r)
    BY <2>2, SendersStay DEF SignedDeliver
  <2> QED BY <2>1, <2>2
<1>3. AgentsOnce' /\ ConfigKept(mechs, mechs')
  BY <1>1 DEF TablesAttributed, AgentsOnce, ConfigKept
<1> QED BY <1>1, <1>2, <1>3, ServicesKept

\* A service's deliveries are no requests.
LEMMA DeliveriesCounted ==
  ASSUME RowTypes, NEW s \in Services, NEW n \in Nat, services[s] # NoRow,
         services' = DeliveredBy(s, n)
  PROVE  /\ ServicesSame
         /\ \A q \in Services : services[q] # NoRow =>
              services'[q] # NoRow /\ services'[q].config = services[q].config
<1> DEFINE row == [services[s] EXCEPT !.deliveries = @ + n]
<1>1. /\ row \in ServiceRow /\ row.requests = services[s].requests
      /\ row.historical = services[s].historical /\ row.config = services[s].config
  <2>1. services[s] \in ServiceRow
    BY DEF RowTypes
  <2> QED BY <2>1 DEF ServiceRow
<1>2. services' = [services EXCEPT ![s] = row]
  BY DEF DeliveredBy
<1> HIDE DEF row
<1>3. services'[s] = row /\ \A q \in Services \ {s} : services'[q] = services[q]
  BY <1>2 DEF RowTypes
<1>4. row # NoRow
  BY <1>1, MarketplaceAssumption
<1> QED BY <1>1, <1>3, <1>4 DEF ServicesSame

LEMMA ServicesUncounted ==
  ASSUME services' = services
  PROVE  /\ ServicesSame
         /\ \A q \in Services : services[q] # NoRow =>
              services'[q] # NoRow /\ services'[q].config = services[q].config
BY DEF ServicesSame

LEMMA DeliveryAttributed ==
  ASSUME Typed, Typed', RowTypes, Linked, TablesAttributed, NEW m \in Mechs,
         NEW ids \in SUBSET Ids, NEW won, MarketplaceDelivery(m, ids, won)
  PROVE  TablesAttributed'
<1> DEFINE done == Undelivered(ids, won)
           n == Cardinality(done)
           s == ServiceOf[m]
           counted == Counted(mechs, done, m)
           row == [counted[s] EXCEPT !.deliveries = @ + n]
<1>1. done \in SUBSET Ids /\ n \in Nat /\ s \in Services
  <2>1. done \in SUBSET Ids
    BY DEF Undelivered
  <2> QED BY <2>1, MarketplaceAssumption, FS_Subset, FS_CardinalityType
<1>2. /\ mechs' = IF Known(m) THEN [counted EXCEPT ![s] = row] ELSE counted
      /\ services' = IF Known(m) THEN DeliveredBy(s, n) ELSE services
      /\ multisigs' = multisigs /\ agents' = agents /\ perAgent' = perAgent /\ senders' = senders
  BY DEF MarketplaceDelivery, registryVars
<1> HIDE DEF done, n
<1>3. /\ KeptMechs(mechs, counted) /\ ConfigKept(mechs, counted)
      /\ counted \in [Services -> {NoRow} \cup MechRow]
  <2>1. KeptMechs(mechs, counted) /\ ConfigKept(mechs, counted)
    BY <1>1, CountedKeeps, ConfigCounted DEF RowTypes
  <2> HIDE DEF counted
  <2> QED BY <2>1 DEF KeptMechs, SameMechs
<1> HIDE DEF counted
<1>4. ConfigKept(mechs, mechs')
  <2>1. CASE ~ Known(m)
    BY <1>2, <1>3, <2>1
  <2>2. CASE Known(m)
    <3>1. counted[s] # NoRow
      BY <1>1, <1>3, <2>2 DEF Known, Linked, KeptMechs, SameMechs
    <3>2. row.config = counted[s].config
      BY <1>1, <1>3, <3>1 DEF MechRow
    <3> HIDE DEF row
    <3>3. ConfigKept(counted, mechs')
      BY <1>1, <1>2, <1>3, <2>2, <3>1, <3>2, ConfigReplaced
    <3> QED BY <1>3, <3>3, ConfigTwice
  <2> QED BY <2>1, <2>2
<1>5. Known(m) => services[s] # NoRow
  BY DEF Known, Linked
<1> HIDE DEF s, row
<1>6. /\ ServicesSame
      /\ \A q \in Services : services[q] # NoRow =>
           services'[q] # NoRow /\ services'[q].config = services[q].config
  <2>1. CASE Known(m)
    BY <1>1, <1>2, <1>5, <2>1, DeliveriesCounted
  <2>2. CASE ~ Known(m)
    BY <1>2, <2>2, ServicesUncounted
  <2> QED BY <2>1, <2>2
<1>7. Configured'
  BY <1>4, <1>6, StillConfigured DEF TablesAttributed
<1>8. SendersSame /\ AgentsOnce'
  BY <1>2, SendersStay DEF TablesAttributed, AgentsOnce
<1> QED BY <1>2, <1>6, <1>7, <1>8, NothingAsked

LEMMA ObservedConfig ==
  ASSUME NEW t \in [Services -> {NoRow} \cup MechRow], NEW m \in Mechs, NEW rate \in Rates,
         t[ServiceOf[m]] # NoRow
  PROVE  ConfigKept(t, ObservedRate(t, m, rate))
<1> DEFINE s == ServiceOf[m]
           row == [t[s] EXCEPT !.rate = rate]
<1>1. s \in Services /\ t[s] \in MechRow
  BY MarketplaceAssumption
<1>2. row.config = t[s].config
  BY <1>1 DEF MechRow
<1>3. ObservedRate(t, m, rate) = [t EXCEPT ![s] = row] \/ ObservedRate(t, m, rate) = t
  BY DEF ObservedRate
<1>4. ConfigKept(t, t)
  BY DEF ConfigKept
<1> HIDE DEF row
<1>5. ConfigKept(t, [t EXCEPT ![s] = row])
  BY <1>1, <1>2, ConfigReplaced
<1> QED BY <1>3, <1>4, <1>5

LEMMA MechDeliverAttributed ==
  ASSUME Typed, Typed', RowTypes, Linked, RowsConsistent, TablesAttributed, NEW m \in Mechs,
         NEW r \in Ids, NEW rate \in Rates, NEW price \in Nat, MechDeliver(m, r, rate, price)
  PROVE  TablesAttributed'
<1> USE DEF registryVars
<1>1. CASE ~ Known(m)
  <2>1. /\ services' = services /\ multisigs' = multisigs /\ agents' = agents /\ mechs' = mechs
        /\ perAgent' = perAgent /\ senders' = senders
    BY <1>1 DEF MechDeliver, mechVars
  <2>2. AgentsOnce' /\ ConfigKept(mechs, mechs') /\ SendersSame
    BY <2>1, SendersStay DEF TablesAttributed, AgentsOnce, ConfigKept
  <2> QED BY <2>1, <2>2, ServicesKept
<1>2. CASE Known(m)
  <2> DEFINE s == ServiceOf[m]
             first == ~ IsMarketplaceTransaction /\ IsNewDelivery(r)
             counted == IF first THEN Counted(mechs, {r}, m) ELSE mechs
  <2>1. /\ mechs' = ObservedRate(counted, m, rate)
        /\ services' = IF first THEN DeliveredBy(s, 1) ELSE services
        /\ multisigs' = multisigs /\ agents' = agents /\ perAgent' = perAgent
        /\ IF Charged(r) THEN senders' = PaidBy(senders, r, FeeToUsd(rate, price))
           ELSE senders' = senders
    BY <1>2 DEF MechDeliver
  <2>2. s \in Services /\ mechs[s] # NoRow /\ services[s] # NoRow
    BY <1>2, MarketplaceAssumption DEF Known, Linked
  <2>3. KeptMechs(mechs, counted) /\ ConfigKept(mechs, counted)
    <3>1. /\ KeptMechs(mechs, Counted(mechs, {r}, m)) /\ KeptMechs(mechs, mechs)
          /\ ConfigKept(mechs, Counted(mechs, {r}, m))
      BY CountedKeeps, ConfigCounted, MechsUnchanged DEF RowTypes
    <3>2. ConfigKept(mechs, mechs)
      BY DEF ConfigKept
    <3> QED BY <3>1, <3>2
  <2> HIDE DEF counted, first
  <2>4. ConfigKept(mechs, mechs')
    <3>1. counted \in [Services -> {NoRow} \cup MechRow] /\ counted[s] # NoRow
      BY <2>2, <2>3 DEF KeptMechs, SameMechs
    <3>2. ConfigKept(counted, mechs')
      BY <2>1, <3>1, ObservedConfig
    <3> QED BY <2>3, <3>2, ConfigTwice
  <2> HIDE DEF s
  <2>5. /\ ServicesSame
        /\ \A q \in Services : services[q] # NoRow =>
             services'[q] # NoRow /\ services'[q].config = services[q].config
    <3>1. CASE first
      BY <2>1, <2>2, <3>1, DeliveriesCounted
    <3>2. CASE ~ first
      BY <2>1, <3>2, ServicesUncounted
    <3> QED BY <3>1, <3>2
  <2>6. Configured'
    BY <2>4, <2>5, StillConfigured DEF TablesAttributed
  <2>7. SendersSame
    BY <2>1, UsdTyped, SenderCharged, SendersStay
  <2>8. AgentsOnce'
    BY <2>1 DEF TablesAttributed, AgentsOnce
  <2> QED BY <2>1, <2>5, <2>6, <2>7, <2>8, NothingAsked
<1> QED BY <1>1, <1>2

\* A sender asks for more, on chain and off.
LEMMA SenderAsked ==
  ASSUME Typed, Typed', TablesAttributed, NEW a \in Accounts, NEW on \in Nat, NEW off \in Nat,
         NEW row \in SenderRow, senders' = [senders EXCEPT ![a] = row],
         row.requests = OrNew(a).requests + (on + off), row.offChain = OrNew(a).offChain + off
  PROVE  AsksMore(a, on, on + off) /\ OffChainAmongAll'
<1>1. OrNew(a) \in SenderRow
  BY OrNewIs
<1>2. /\ RequestsMade(senders)[a] = OrNew(a).requests
      /\ AskedOnChain(senders)[a] = OrNew(a).requests - OrNew(a).offChain
      /\ OrNew(a).offChain <= OrNew(a).requests
  <2>1. CASE senders[a] = NoRow
    BY <2>1 DEF OrNew, NewSender, RequestsMade, AskedOnChain, Typed
  <2>2. CASE senders[a] # NoRow
    BY <2>2 DEF OrNew, RequestsMade, AskedOnChain, Typed, TablesAttributed, OffChainAmongAll
  <2> QED BY <2>1, <2>2
<1>3. OrNew(a).requests \in Nat /\ OrNew(a).offChain \in Nat
  BY <1>1 DEF SenderRow
<1>4. senders'[a] = row /\ row # NoRow /\ \A b \in Accounts \ {a} : senders'[b] = senders[b]
  BY MarketplaceAssumption DEF Typed
<1>5. /\ RequestsMade(senders')[a] = row.requests
      /\ AskedOnChain(senders')[a] = row.requests - row.offChain
      /\ row.offChain <= row.requests
  BY <1>2, <1>3, <1>4 DEF RequestsMade, AskedOnChain, Typed
<1>6. /\ RequestsMade(senders')[a] = RequestsMade(senders)[a] + (on + off)
      /\ AskedOnChain(senders')[a] = AskedOnChain(senders)[a] + on
  BY <1>2, <1>3, <1>5
<1>7. \A b \in Accounts \ {a} :
        /\ RequestsMade(senders')[b] = RequestsMade(senders)[b]
        /\ AskedOnChain(senders')[b] = AskedOnChain(senders)[b]
        /\ RequestsMade(senders)[b] \in Nat /\ AskedOnChain(senders)[b] \in Nat
  <2>1. \A b \in Accounts \ {a} :
          /\ RequestsMade(senders')[b] = RequestsMade(senders)[b]
          /\ AskedOnChain(senders')[b] = AskedOnChain(senders)[b]
    BY <1>4 DEF RequestsMade, AskedOnChain, Typed
  <2> QED BY <2>1, AskedAre DEF TablesAttributed
<1>8. \A b \in Accounts :
        /\ RequestsMade(senders')[b] = RequestsMade(senders)[b] + (IF b = a THEN on + off ELSE 0)
        /\ AskedOnChain(senders')[b] = AskedOnChain(senders)[b] + (IF b = a THEN on ELSE 0)
  <2>1. ASSUME NEW b \in Accounts
        PROVE  /\ RequestsMade(senders')[b] = RequestsMade(senders)[b] + (IF b = a THEN on + off ELSE 0)
               /\ AskedOnChain(senders')[b] = AskedOnChain(senders)[b] + (IF b = a THEN on ELSE 0)
    <3>1. CASE b = a
      BY <1>6, <3>1
    <3>2. CASE b # a
      <4>1. /\ RequestsMade(senders')[b] = RequestsMade(senders)[b]
            /\ AskedOnChain(senders')[b] = AskedOnChain(senders)[b]
            /\ RequestsMade(senders)[b] \in Nat /\ AskedOnChain(senders)[b] \in Nat
        BY <1>7, <3>2
      <4>2. /\ RequestsMade(senders')[b] = RequestsMade(senders)[b] + 0
            /\ AskedOnChain(senders')[b] = AskedOnChain(senders)[b] + 0
        BY <4>1
      <4> QED BY <3>2, <4>2
    <3> QED BY <3>1, <3>2
  <2> QED BY <2>1
<1>9. OffChainAmongAll'
  BY <1>4, <1>5 DEF TablesAttributed, OffChainAmongAll
<1> QED BY <1>8, <1>9 DEF AsksMore, GrowsAt, Typed

\* An agent is counted once for each request of the multisig, at most.
LEMMA AgentsAsked ==
  ASSUME RowTypes, RowTypes', AgentsOnce, Typed, NEW a \in Accounts, NEW n \in Nat,
         perAgent' = PerAgent(ServiceOfMultisig(a), n)
  PROVE  AgentsAsk(a, n)
<1> DEFINE s == ServiceOfMultisig(a)
<1>1. CASE a \notin DOMAIN multisigs
  <2>1. perAgent' = perAgent
    BY <1>1 DEF PerAgent, ServiceOfMultisig
  <2> QED BY <1>1, <2>1 DEF AgentsAsk, RowTypes
<1>2. CASE a \in DOMAIN multisigs
  <2>1. s \in Services /\ s # NoService
    BY <1>2, MarketplaceAssumption DEF Typed, ServiceOfMultisig
  <2> HIDE DEF s
  <2> DEFINE times(x) == {i \in DOMAIN agents[s] : agents[s][i] = x}
  <2>2. perAgent' = [x \in Agents |-> perAgent[x] + n * Cardinality(times(x))]
    BY <2>1 DEF PerAgent, s
  <2>3. ASSUME NEW x \in Agents
        PROVE  n * Cardinality(times(x)) = 0 \/ n * Cardinality(times(x)) = n
    <3>1. times(x) = {} \/ \E i : times(x) = {i}
      <4>1. CASE \E i \in DOMAIN agents[s] : agents[s][i] = x
        <5>1. PICK i \in DOMAIN agents[s] : agents[s][i] = x
          BY <4>1
        <5>2. \A j \in DOMAIN agents[s] : agents[s][j] = x => j = i
          BY <2>1, <5>1 DEF AgentsOnce
        <5>3. times(x) = {i}
          BY <5>1, <5>2
        <5> QED BY <5>3
      <4>2. CASE ~ \E i \in DOMAIN agents[s] : agents[s][i] = x
        BY <4>2
      <4> QED BY <4>1, <4>2
    <3>2. Cardinality(times(x)) = 0 \/ Cardinality(times(x)) = 1
      <4> HIDE DEF times
      <4> QED BY <3>1, FS_EmptySet, FS_Singleton
    <3> HIDE DEF times
    <3>3. n * 0 = 0 /\ n * 1 = n
      OBVIOUS
    <3> QED BY <3>2, <3>3
  <2> HIDE DEF times
  <2>4. ASSUME NEW x \in Agents
        PROVE  perAgent'[x] <= perAgent[x] + n
    <3>1. PICK more \in Nat : more = n * Cardinality(times(x)) /\ more <= n
      BY <2>3
    <3>2. perAgent'[x] = perAgent[x] + more /\ perAgent[x] \in Nat
      BY <2>2, <3>1 DEF RowTypes
    <3> QED BY <3>1, <3>2
  <2> QED BY <1>2, <2>4 DEF AgentsAsk, RowTypes
<1> QED BY <1>1, <1>2

LEMMA RequestAttributed ==
  ASSUME Typed, Typed', RowTypes, RowTypes', Linked, TablesAttributed, NEW m \in Mechs,
         NEW a \in Accounts, NEW ids \in SUBSET Ids, MarketplaceRequest(m, a, ids)
  PROVE  TablesAttributed'
<1> USE DEF registryVars
<1> DEFINE n == Cardinality(ids)
           service == ServiceOfMultisig(a)
           ata == service # NoService /\ tx.id \notin ataTxs
           row == SenderAsks(OrNew(a), n, ata)
           counted == [services[service] EXCEPT !.requests = @ + n]
           received == [mechs[ServiceOf[m]] EXCEPT !.received = @ + n]
<1>1. n \in Nat
  BY MarketplaceAssumption, FS_Subset, FS_CardinalityType
<1>2. /\ service \in Services \cup {NoService}
      /\ service # NoService => service \in Services /\ services[service] # NoRow
  BY MarketplaceAssumption DEF Typed, Linked, ServiceOfMultisig
<1>3. /\ services' = IF service = NoService THEN services ELSE [services EXCEPT ![service] = counted]
      /\ mechs' = IF Known(m) THEN [mechs EXCEPT ![ServiceOf[m]] = received] ELSE mechs
      /\ perAgent' = PerAgent(service, n) /\ senders' = [senders EXCEPT ![a] = row]
      /\ agents' = agents /\ multisigs' = multisigs
  BY DEF MarketplaceRequest, Received
<1>4. /\ row \in SenderRow /\ row.requests = OrNew(a).requests + n
      /\ row.offChain = OrNew(a).offChain
  <2> HIDE DEF n, ata
  <2> QED BY <1>1, OrNewIs, SenderAsksIs
<1> HIDE DEF n, row
<1>5. AsksMore(a, n, n) /\ OffChainAmongAll'
  <2>1. OrNew(a).offChain \in Nat
    BY OrNewIs DEF SenderRow
  <2>2. /\ row.requests = OrNew(a).requests + (n + 0) /\ row.offChain = OrNew(a).offChain + 0
        /\ n + 0 = n
    BY <1>1, <1>4, <2>1
  <2>3. AsksMore(a, n, n + 0) /\ OffChainAmongAll'
    BY <1>1, <1>3, <1>4, <2>2, SenderAsked
  <2> QED BY <2>2, <2>3
<1>6. AgentsAsk(a, n)
  BY <1>1, <1>3, AgentsAsked DEF TablesAttributed
<1>7. service # NoService =>
        /\ counted \in ServiceRow /\ counted # NoRow
        /\ counted.requests = services[service].requests + n
        /\ counted.historical = services[service].historical
        /\ counted.config = services[service].config
  <2>1. ASSUME service # NoService
        PROVE  /\ counted \in ServiceRow
               /\ counted.requests = services[service].requests + n
               /\ counted.historical = services[service].historical
               /\ counted.config = services[service].config
    <3>1. services[service] \in ServiceRow
      BY <1>2, <2>1 DEF RowTypes
    <3> HIDE DEF service
    <3> QED BY <1>1, <3>1 DEF ServiceRow
  <2> HIDE DEF counted
  <2> QED BY <2>1, MarketplaceAssumption
<1> HIDE DEF counted
<1>8. ServicesAsk(a, n)
  <2>1. \A s \in Services : services[s] # NoRow => services[s].requests \in Nat
    BY DEF RowTypes, ServiceRow
  <2>2. CASE service = NoService
    BY <1>3, <2>1, <2>2, MarketplaceAssumption DEF ServicesAsk
  <2>3. CASE service # NoService
    <3>1. services'[service] = counted /\ \A s \in Services \ {service} : services'[s] = services[s]
      BY <1>2, <1>3, <2>3 DEF RowTypes
    <3> QED BY <1>2, <1>7, <2>1, <2>3, <3>1 DEF ServicesAsk
  <2> QED BY <2>2, <2>3
<1>9. \A s \in Services : services[s] # NoRow =>
        services'[s] # NoRow /\ services'[s].config = services[s].config
  <2>1. CASE service = NoService
    BY <1>3, <2>1
  <2>2. CASE service # NoService
    <3>1. services'[service] = counted /\ \A s \in Services \ {service} : services'[s] = services[s]
      BY <1>2, <1>3, <2>2 DEF RowTypes
    <3> QED BY <1>7, <2>2, <3>1
  <2> QED BY <2>1, <2>2
<1>10. ConfigKept(mechs, mechs')
  <2>1. CASE ~ Known(m)
    BY <1>3, <2>1 DEF ConfigKept
  <2>2. CASE Known(m)
    <3>1. /\ ServiceOf[m] \in Services /\ mechs[ServiceOf[m]] # NoRow
          /\ mechs[ServiceOf[m]] \in MechRow
      BY <2>2, MarketplaceAssumption DEF Known, Linked, RowTypes
    <3>2. received.config = mechs[ServiceOf[m]].config
      BY <3>1 DEF MechRow
    <3> HIDE DEF received
    <3> QED BY <1>3, <2>2, <3>1, <3>2, ConfigReplaced DEF RowTypes
  <2> QED BY <2>1, <2>2
<1>11. Configured' /\ AgentsOnce'
  BY <1>3, <1>9, <1>10, StillConfigured DEF TablesAttributed, AgentsOnce
<1> QED BY <1>1, <1>3, <1>5, <1>6, <1>8, <1>11, AttributedKept

LEMMA BatchAttributed ==
  ASSUME Typed, Typed', RowTypes, RowTypes', Linked, TablesAttributed, NEW m \in Mechs,
         NEW a \in Accounts, NEW ids \in SUBSET Ids, DeliveryWithSignatures(m, a, ids)
  PROVE  TablesAttributed'
<1> USE DEF registryVars
<1> DEFINE n == Cardinality(ids)
           s == ServiceOf[m]
           ata == ServiceOfMultisig(a) # NoService /\ tx.id \notin ataTxs
           row == SenderSigned(OrNew(a), n, ata)
           received == [mechs[s] EXCEPT !.deliveries = @ + n, !.received = @ + n, !.self = @ + n]
<1>1. n \in Nat /\ s \in Services
  BY MarketplaceAssumption, FS_Subset, FS_CardinalityType
<1>2. /\ services' = services /\ agents' = agents /\ multisigs' = multisigs
      /\ mechs' = IF Known(m) THEN [mechs EXCEPT ![s] = received] ELSE mechs
      /\ perAgent' = PerAgent(ServiceOfMultisig(a), n) /\ senders' = [senders EXCEPT ![a] = row]
  BY DEF DeliveryWithSignatures
<1>3. /\ row \in SenderRow /\ row.requests = OrNew(a).requests + n
      /\ row.offChain = OrNew(a).offChain + n
  <2> HIDE DEF n, ata
  <2> QED BY <1>1, OrNewIs, SenderSignedIs
<1>4. ConfigKept(mechs, mechs')
  <2>1. CASE ~ Known(m)
    BY <1>2, <2>1 DEF ConfigKept
  <2>2. CASE Known(m)
    <3>1. mechs[s] # NoRow /\ mechs[s] \in MechRow
      BY <1>1, <2>2 DEF Known, Linked, RowTypes
    <3>2. received.config = mechs[s].config
      <4> HIDE DEF n, s
      <4> QED BY <3>1 DEF MechRow
    <3> HIDE DEF received
    <3> QED BY <1>1, <1>2, <2>2, <3>1, <3>2, ConfigReplaced DEF RowTypes
  <2> QED BY <2>1, <2>2
<1> HIDE DEF n, row, received
<1>5. AsksMore(a, 0, n) /\ OffChainAmongAll'
  <2>1. 0 + n = n
    BY <1>1
  <2>2. AsksMore(a, 0, 0 + n) /\ OffChainAmongAll'
    BY <1>1, <1>2, <1>3, <2>1, SenderAsked
  <2> QED BY <2>1, <2>2
<1>6. AgentsAsk(a, n)
  BY <1>1, <1>2, AgentsAsked DEF TablesAttributed
<1>7. ServicesAsk(a, 0)
  BY <1>2 DEF ServicesAsk, RowTypes, ServiceRow
<1>8. Configured' /\ AgentsOnce'
  BY <1>2, <1>4, StillConfigured DEF TablesAttributed, AgentsOnce
<1> QED BY <1>1, <1>2, <1>5, <1>6, <1>7, <1>8, AttributedKept

\* A service without a row has no multisig: its requests start with those of none.
LEMMA ServiceCreated ==
  ASSUME Typed, Typed', RowTypes, Linked, TablesAttributed, NEW s \in Services,
         NEW h \in Hashes, services[s] = NoRow, CreateService(s, h)
  PROVE  TablesAttributed'
<1> USE DEF mechVars, askVars, ataVars
<1> DEFINE row == NewService(h)
<1>1. /\ multisigs' = multisigs /\ mechs' = mechs /\ perAgent' = perAgent /\ senders' = senders
      /\ services' = [services EXCEPT ![s] = row] /\ agents' = [agents EXCEPT ![s] = <<>>]
  BY DEF CreateService
<1>2. row \in ServiceRow /\ row # NoRow /\ row.requests = 0
  BY NewRowsTyped, MarketplaceAssumption DEF NewService
<1> HIDE DEF row
<1>3. /\ services'[s] = row /\ \A q \in Services \ {s} : services'[q] = services[q]
      /\ agents'[s] = <<>> /\ \A q \in Services \ {s} : agents'[q] = agents[q]
  BY <1>1 DEF RowTypes
<1>4. OffChainAmongAll /\ Configured /\ AgentsOnce /\ KnownFromStart /\ ServicesBetween
      /\ RequestsPerAgentBounded
  BY DEF TablesAttributed
<1>5. OffChainAmongAll' /\ RequestsPerAgentBounded'
  BY <1>1, <1>4 DEF OffChainAmongAll, RequestsPerAgentBounded, InAll
<1>6. Configured' /\ AgentsOnce'
  BY <1>1, <1>3, <1>4 DEF Configured, AgentsOnce
<1>7. \A a \in DOMAIN multisigs : multisigs[a] # s /\ multisigs[a] \in Services
  BY DEF Typed, Linked
<1>8. KnownFromStart'
  BY <1>1, <1>3, <1>4, <1>7 DEF KnownFromStart
<1>9. ServicesBetween'
  <2> SUFFICES ASSUME NEW q \in Services, services'[q] # NoRow
               PROVE  Between(q)'
    BY DEF ServicesBetween
  <2>1. CASE q = s
    <3>1. From(s) = {} /\ Now(s) = {} /\ Now(s)' = {}
      BY <1>1, <1>4, <1>7 DEF From, Now, KnownFromStart
    <3>2. Total(AskedOnChain(senders), {}) = 0
      BY FS_EmptySet, SumRecurs
    <3> QED BY <1>1, <1>2, <1>3, <2>1, <3>1, <3>2 DEF Between
  <2>2. CASE q # s
    <3>1. services'[q] = services[q] /\ Between(q)
      BY <1>3, <1>4, <2>2 DEF ServicesBetween
    <3>2. Now(q)' = Now(q)
      BY <1>1 DEF Now
    <3> QED BY <1>1, <3>1, <3>2 DEF Between
  <2> QED BY <2>1, <2>2
<1> QED BY <1>5, <1>6, <1>8, <1>9 DEF TablesAttributed

\* A new multisig brings what it has asked for until now; a known one stays where it is.
LEMMA MultisigAttributed ==
  ASSUME Typed, Typed', RowTypes, RowTypes', Linked, TablesAttributed, NEW s \in Services,
         NEW a \in Accounts, services[s] # NoRow, CreateMultisig(s, a)
  PROVE  TablesAttributed'
<1> USE DEF mechVars, askVars, ataVars
<1> DEFINE row == [services[s] EXCEPT !.latest = a, !.historical = @ \cup {a}]
<1>1. /\ mechs' = mechs /\ agents' = agents /\ perAgent' = perAgent /\ senders' = senders
      /\ services' = [services EXCEPT ![s] = row]
      /\ multisigs' = [b \in DOMAIN multisigs \cup {a} |->
                         IF b \in DOMAIN multisigs THEN multisigs[b] ELSE s]
  BY DEF CreateMultisig, WithMultisig
<1>2. /\ row.requests = services[s].requests /\ row.config = services[s].config
      /\ row.historical = services[s].historical \cup {a}
  <2>1. services[s] \in ServiceRow
    BY DEF RowTypes
  <2> QED BY <2>1 DEF ServiceRow
<1>3. row # NoRow
  <2>1. row \in ServiceRow
    BY ServiceRowIs, 0 \in Nat DEF RowTypes
  <2> HIDE DEF row
  <2> QED BY <2>1, MarketplaceAssumption
<1> HIDE DEF row
<1>4. services'[s] = row /\ \A q \in Services \ {s} : services'[q] = services[q]
  BY <1>1 DEF RowTypes
<1>5. OffChainAmongAll /\ Configured /\ AgentsOnce /\ KnownFromStart /\ ServicesBetween
      /\ RequestsPerAgentBounded
  BY DEF TablesAttributed
<1>6. OffChainAmongAll' /\ AgentsOnce'
  BY <1>1, <1>5 DEF OffChainAmongAll, AgentsOnce
<1>7. Configured'
  BY <1>1, <1>2, <1>3, <1>4, <1>5 DEF Configured
<1>8. \A q \in Services : services[q] # NoRow =>
        /\ services'[q] # NoRow /\ services'[q].requests = services[q].requests
        /\ services[q].historical \subseteq services'[q].historical
  BY <1>2, <1>3, <1>4
<1>9. \A b \in DOMAIN multisigs : multisigs'[b] = multisigs[b] /\ b \in DOMAIN multisigs'
                                  /\ services[multisigs[b]] # NoRow /\ multisigs[b] \in Services
  BY <1>1 DEF Typed, Linked
<1>10. KnownFromStart'
  <2>1. \A b \in DOMAIN Multisigs : b \in DOMAIN multisigs' /\ multisigs'[b] = Multisigs[b]
    BY <1>5, <1>9 DEF KnownFromStart
  <2>2. ASSUME NEW b \in DOMAIN multisigs'
        PROVE  b \in DOMAIN Multisigs \/ b \in services'[multisigs'[b]].historical
    <3>1. CASE b \in DOMAIN multisigs
      <4>1. b \in DOMAIN Multisigs \/ b \in services[multisigs[b]].historical
        BY <1>5, <3>1 DEF KnownFromStart
      <4> QED BY <1>8, <1>9, <3>1, <4>1
    <3>2. CASE b \notin DOMAIN multisigs
      <4>1. b = a /\ multisigs'[b] = s
        BY <1>1, <2>2, <3>2
      <4> QED BY <1>2, <1>4, <4>1
    <3> QED BY <3>1, <3>2
  <2> QED BY <2>1, <2>2 DEF KnownFromStart
<1>11. ServicesBetween'
  <2> SUFFICES ASSUME NEW q \in Services, services'[q] # NoRow
               PROVE  Between(q)'
    BY DEF ServicesBetween
  <2>1. /\ services[q] # NoRow /\ services'[q].requests = services[q].requests
        /\ services[q].requests \in Nat
    BY <1>2, <1>4 DEF RowTypes, ServiceRow
  <2>2. Between(q)
    BY <1>5, <2>1 DEF ServicesBetween
  <2>3. Now(q) \in SUBSET Accounts
    BY DEF Now, RowTypes
  <2>4. Now(q)' = Now(q) \/ Now(q)' = Now(q) \cup {a}
    <3>1. Now(q)' = {b \in DOMAIN multisigs \cup {a} :
                       (IF b \in DOMAIN multisigs THEN multisigs[b] ELSE s) = q}
      BY <1>1 DEF Now
    <3> QED BY <3>1 DEF Now
  <2>5. Total(AskedOnChain(senders), Now(q)) <= Total(AskedOnChain(senders), Now(q)')
    <3>1. \A b \in Accounts : AskedOnChain(senders)[b] \in Nat
      BY <1>5, AskedAre
    <3>2. IsFiniteSet(Now(q)) /\ \A b \in Now(q) : AskedOnChain(senders)[b] \in Nat
      BY <2>3, <3>1, MarketplaceAssumption, FS_Subset
    <3>3. Total(AskedOnChain(senders), Now(q)) \in Nat
      BY <3>2, SumNatural
    <3>4. Total(AskedOnChain(senders), Now(q)) <= Total(AskedOnChain(senders), Now(q) \cup {a})
      BY <1>5, <2>3, SumsGrow
    <3> QED BY <2>4, <3>3, <3>4
  <2>6. Total(AskedOnChain(senders), Now(q)) \in Nat /\ Total(AskedOnChain(senders), Now(q)') \in Nat
    <3>1. Now(q)' \in SUBSET Accounts
      BY <2>3, <2>4
    <3>2. \A b \in Accounts : AskedOnChain(senders)[b] \in Nat
      BY <1>5, AskedAre
    <3>3. /\ IsFiniteSet(Now(q)) /\ \A b \in Now(q) : AskedOnChain(senders)[b] \in Nat
          /\ IsFiniteSet(Now(q)') /\ \A b \in Now(q)' : AskedOnChain(senders)[b] \in Nat
      BY <2>3, <3>1, <3>2, MarketplaceAssumption, FS_Subset
    <3> QED BY <3>3, SumNatural
  <2>7. /\ Total(AskedOnChain(senders), From(q)) <= services'[q].requests
        /\ services'[q].requests <= Total(AskedOnChain(senders), Now(q)')
    BY <2>1, <2>2, <2>5, <2>6 DEF Between
  <2>8. From(q)' = From(q)
    BY DEF From
  <2> QED BY <1>1, <2>7, <2>8 DEF Between
<1>12. RequestsPerAgentBounded'
  <2> DEFINE made == RequestsMade(senders)
             known == DOMAIN multisigs
  <2>1. known \in SUBSET Accounts /\ known \cup {a} \in SUBSET Accounts
    BY DEF RowTypes
  <2>2. Total(made, known) <= Total(made, known \cup {a})
    BY <1>5, <2>1, SumsGrow
  <2>3. Total(made, known) \in Nat /\ Total(made, known \cup {a}) \in Nat
    <3>1. \A b \in Accounts : made[b] \in Nat
      BY <1>5, AskedAre
    <3> HIDE DEF made, known
    <3>2. /\ IsFiniteSet(known) /\ \A b \in known : made[b] \in Nat
          /\ IsFiniteSet(known \cup {a}) /\ \A b \in known \cup {a} : made[b] \in Nat
      BY <2>1, <3>1, MarketplaceAssumption, FS_Subset
    <3> QED BY <3>2, SumNatural
  <2>4. DOMAIN multisigs' = known \cup {a}
    BY <1>1
  <2>5. \A x \in DOMAIN perAgent : perAgent[x] \in Nat /\ perAgent[x] <= Total(made, known)
    BY <1>5 DEF RequestsPerAgentBounded, InAll, RowTypes
  <2> HIDE DEF made, known
  <2>6. \A x \in DOMAIN perAgent : perAgent[x] <= Total(made, known \cup {a})
    BY <2>2, <2>3, <2>5
  <2> QED BY <1>1, <2>4, <2>6 DEF RequestsPerAgentBounded, InAll, made
<1> QED BY <1>6, <1>7, <1>10, <1>11, <1>12 DEF TablesAttributed

\* Whichever log is handled, the tables stay attributed.
LEMMA HandleAttributes ==
  ASSUME IInv, IInv', ComposeInv, ComposeInv', AttributedInv, NEW price \in Nat, HandleAt(price)
  PROVE  TablesAttributed'
<1> DEFINE log == Head(logs)
<1>1. /\ Dispatch(log, price) /\ log = logs[1] /\ 1 \in DOMAIN logs /\ log \in Log
      /\ Typed /\ RowsConsistent
  BY NextLog DEF HandleAt, IInv, Typed, chainVars
<1>2. Typed' /\ RowTypes /\ RowTypes' /\ Linked /\ TablesAttributed
  BY DEF IInv, ComposeInv, AttributedInv
<1>3. /\ log.op = "createMech" => services[ServiceOf[log.mech]] # NoRow
      /\ log.op = "multisig" => services[log.service] # NoRow
  <2>1. LogBacked(1)
    BY <1>1 DEF ComposeInv, LogsBacked
  <2> QED BY <1>1, <2>1 DEF LogBacked
<1>4. log.op = "createService" => services[log.service] = NoRow
  BY <1>1 DEF AttributedInv, NewServicesOnly
<1> HIDE DEF log
<1>5. CASE log.op = "factory" /\ FactoryCreate(log.mech, log.rate)
  BY <1>1, <1>2, <1>5, LogTyped, MechChanged
<1>6. CASE log.op = "createMech" /\ CreateMech(log.mech)
  BY <1>1, <1>2, <1>3, <1>6, LogTyped, MechCreated
<1>7. CASE log.op = "rate" /\ MaxDeliveryRateUpdated(log.mech, log.rate)
  BY <1>1, <1>2, <1>7, LogTyped, MechChanged
<1>8. CASE log.op = "createService" /\ CreateService(log.service, log.config)
  BY <1>1, <1>2, <1>4, <1>8, LogTyped, ServiceCreated
<1>9. CASE log.op = "multisig" /\ CreateMultisig(log.service, log.account)
  BY <1>1, <1>2, <1>3, <1>9, LogTyped, MultisigAttributed
<1>10. CASE log.op = "register" /\ RegisterInstance(log.service, log.agent)
  BY <1>1, <1>2, <1>10, LogTyped, AgentsChanged
<1>11. CASE log.op = "terminate" /\ TerminateService(log.service)
  BY <1>1, <1>2, <1>11, LogTyped, AgentsChanged
<1>12. CASE log.op = "transfer" /\ ServiceTransfer(log.service, log.account)
  BY <1>1, <1>2, <1>12, LogTyped, OwnerChanged
<1>13. CASE log.op = "update" /\ UpdateService(log.service, log.config)
  BY <1>1, <1>2, <1>13, LogTyped, ServiceUpdated
<1>14. CASE log.op = "metadata" /\ ComplementaryMetadataUpdated(log.service, log.hash)
  BY <1>1, <1>2, <1>14, LogTyped, AgentsChanged
<1>15. CASE log.op = "karma" /\ MechKarmaChanged(log.mech, log.change)
  BY <1>1, <1>2, <1>15, LogTyped, MechChanged
<1>16. CASE log.op = "mechRequest" /\ MechRequest(log.mech, log.id, log.ipfs)
  BY <1>1, <1>2, <1>16, LogTyped, DirectAsked
<1>17. CASE log.op = "request" /\ MarketplaceRequest(log.mech, log.requester, log.ids)
  BY <1>1, <1>2, <1>17, LogTyped, RequestAttributed
<1>18. CASE log.op = "delivery" /\ MarketplaceDelivery(log.mech, log.ids, log.won)
  BY <1>1, <1>2, <1>18, LogTyped, DeliveryAttributed
<1>19. CASE log.op = "mechDeliver" /\ MechDeliver(log.mech, log.id, log.rate, price)
  BY <1>1, <1>2, <1>19, LogTyped, MechDeliverAttributed
<1>20. CASE log.op = "signed" /\ SignedDeliver(log.id, log.rate, price)
  BY <1>1, <1>2, <1>20, LogTyped, SignedCharged
<1>21. CASE log.op = "batch" /\ DeliveryWithSignatures(log.mech, log.requester, log.ids)
  BY <1>1, <1>2, <1>21, LogTyped, BatchAttributed
<1> QED
  BY <1>1, <1>5, <1>6, <1>7, <1>8, <1>9, <1>10, <1>11, <1>12, <1>13, <1>14, <1>15, <1>16,
     <1>17, <1>18, <1>19, <1>20, <1>21 DEF Dispatch

\* A service's creation is the only log of its transaction.
LEMMA HandleKeepsNew ==
  ASSUME IInv, AttributedInv, NEW price, HandleAt(price)
  PROVE  NewServicesOnly'
<1>1. /\ logs \in Seq(Log) /\ logs # <<>> /\ logs' = Tail(logs)
  BY DEF HandleAt, IInv, Typed
<1>2. /\ Len(logs') = Len(logs) - 1 /\ Len(logs) \in Nat
      /\ \A k \in DOMAIN logs' : k + 1 \in DOMAIN logs /\ logs'[k] = logs[k + 1]
  BY <1>1, NextLog
<1>3. DOMAIN logs' = 1 .. Len(logs') /\ DOMAIN logs = 1 .. Len(logs)
  BY <1>1
<1>4. \A k \in DOMAIN logs' : logs'[k].op # "createService"
  <2> SUFFICES ASSUME NEW k \in DOMAIN logs', logs'[k].op = "createService"
               PROVE  FALSE
    OBVIOUS
  <2>1. k + 1 \in DOMAIN logs /\ logs[k + 1].op = "createService" /\ k \in Nat /\ k >= 1
    BY <1>2, <1>3
  <2>2. Len(logs) = 1
    BY <2>1 DEF AttributedInv, NewServicesOnly
  <2> QED BY <1>3, <2>1, <2>2
<1> QED BY <1>4 DEF NewServicesOnly

LEMMA EmitAttributes ==
  ASSUME AttributedInv, NEW kind, NEW emitted, Emit(kind, emitted), NewServicesOnly'
  PROVE  AttributedInv'
<1>1. /\ mechs' = mechs /\ services' = services /\ multisigs' = multisigs /\ agents' = agents
      /\ perAgent' = perAgent /\ senders' = senders
  BY DEF Emit, mechVars, registryVars
<1>2. OffChainAmongAll' /\ Configured' /\ AgentsOnce' /\ KnownFromStart' /\ RequestsPerAgentBounded'
  BY <1>1 DEF AttributedInv, TablesAttributed, OffChainAmongAll, Configured, AgentsOnce,
     KnownFromStart, RequestsPerAgentBounded, InAll
<1>3. ServicesBetween'
  BY <1>1 DEF AttributedInv, TablesAttributed, ServicesBetween, Between, From, Now
<1> QED BY <1>2, <1>3 DEF AttributedInv, TablesAttributed

\* The kinds of logs that are no creations of services.
Uncreating == \A k \in DOMAIN logs' : logs'[k].op # "createService"

LEMMA UncreatingIs ==
  ASSUME Uncreating PROVE NewServicesOnly'
BY DEF Uncreating, NewServicesOnly

\* A sequence of logs without a creation of a service stays so with one log more.
Plain(emitted) == \A k \in DOMAIN emitted : emitted[k].op # "createService"
LEMMA PlainJoined ==
  ASSUME NEW T, NEW some \in Seq(T), Plain(some), NEW one, one.op # "createService"
  PROVE  Plain(some \o <<one>>) /\ Plain(<<one>> \o some)
<1>1. /\ DOMAIN (some \o <<one>>) = 1 .. Len(some) + 1
      /\ DOMAIN (<<one>> \o some) = 1 .. Len(some) + 1
      /\ Len(some) \in Nat /\ DOMAIN some = 1 .. Len(some)
  OBVIOUS
<1>2. ASSUME NEW k \in 1 .. Len(some) + 1
      PROVE  (some \o <<one>>)[k].op # "createService"
  <2>1. CASE k = Len(some) + 1
    <3>1. (some \o <<one>>)[k] = one
      BY <2>1
    <3> QED BY <3>1
  <2>2. CASE k \in 1 .. Len(some)
    <3>1. (some \o <<one>>)[k] = some[k] /\ k \in DOMAIN some
      BY <2>2
    <3> QED BY <3>1 DEF Plain
  <2> QED BY <1>1, <2>1, <2>2
<1>3. ASSUME NEW k \in 1 .. Len(some) + 1
      PROVE  (<<one>> \o some)[k].op # "createService"
  <2>1. CASE k = 1
    <3>1. (<<one>> \o some)[k] = one
      BY <2>1
    <3> QED BY <3>1
  <2>2. CASE k # 1
    <3>1. (<<one>> \o some)[k] = some[k - 1] /\ k - 1 \in DOMAIN some
      BY <1>1, <2>2
    <3> QED BY <3>1 DEF Plain
  <2> QED BY <2>1, <2>2
<1> QED BY <1>1, <1>2, <1>3 DEF Plain

LEMMA PlainEmitted ==
  ASSUME AttributedInv, NEW kind, NEW emitted, Emit(kind, emitted), Plain(emitted)
  PROVE  AttributedInv'
<1>1. logs' = emitted
  BY DEF Emit
<1>2. Uncreating
  BY <1>1 DEF Plain, Uncreating
<1> QED BY <1>2, UncreatingIs, EmitAttributes

LEMMA MechLogAttributes ==
  ASSUME IInv, AttributedInv, EmitCreateMech \/ EmitRate \/ EmitDirect \/ EmitForeign
  PROVE  AttributedInv'
<1>1. CASE EmitCreateMech
  <2>1. PICK m \in Mechs, logged \in BOOLEAN :
          Emit("createMech",
               IF logged THEN <<[op |-> "factory", mech |-> m, rate |-> advertised[m]],
                                [op |-> "createMech", mech |-> m]>>
               ELSE <<[op |-> "createMech", mech |-> m]>>)
    BY <1>1 DEF EmitCreateMech
  <2>2. Plain(IF logged THEN <<[op |-> "factory", mech |-> m, rate |-> advertised[m]],
                               [op |-> "createMech", mech |-> m]>>
              ELSE <<[op |-> "createMech", mech |-> m]>>)
    BY DEF Plain
  <2> QED BY <2>1, <2>2, PlainEmitted
<1>2. CASE EmitRate
  <2>1. PICK m \in createMechs, rate \in Rates :
          Emit("rate", <<[op |-> "rate", mech |-> m, rate |-> rate]>>)
    BY <1>2 DEF EmitRate
  <2>2. Plain(<<[op |-> "rate", mech |-> m, rate |-> rate]>>)
    BY DEF Plain
  <2> QED BY <2>1, <2>2, PlainEmitted
<1>3. CASE EmitDirect \/ EmitForeign
  <2>1. \E kind, log : /\ log.op \in {"mechRequest", "mechDeliver", "rate"}
                       /\ Emit(kind, <<log>>)
    <3>1. CASE EmitDirect
      <4>1. PICK m \in createMechs, r \in Ids :
              \/ Emit("direct", <<[op |-> "mechRequest", mech |-> m, id |-> r, ipfs |-> TRUE]>>)
              \/ \E rate \in Rates :
                   Emit("direct", <<[op |-> "mechDeliver", mech |-> m, id |-> r, rate |-> rate]>>)
        BY <3>1 DEF EmitDirect
      <4>2. CASE Emit("direct", <<[op |-> "mechRequest", mech |-> m, id |-> r, ipfs |-> TRUE]>>)
        BY <4>2
      <4>3. ASSUME NEW rate \in Rates,
                   Emit("direct", <<[op |-> "mechDeliver", mech |-> m, id |-> r, rate |-> rate]>>)
            PROVE  \E kind, log : /\ log.op \in {"mechRequest", "mechDeliver", "rate"}
                                  /\ Emit(kind, <<log>>)
        BY <4>3
      <4> QED BY <4>1, <4>2, <4>3
    <3>2. CASE EmitForeign
      <4>1. PICK m \in Strangers, r \in Ids, rate \in Rates :
              \/ Emit("foreign", <<[op |-> "mechRequest", mech |-> m, id |-> r, ipfs |-> TRUE]>>)
              \/ Emit("foreign", <<[op |-> "mechDeliver", mech |-> m, id |-> r, rate |-> rate]>>)
              \/ Emit("foreign", <<[op |-> "rate", mech |-> m, rate |-> rate]>>)
        BY <3>2 DEF EmitForeign
      <4> QED BY <4>1
    <3> QED BY <1>3, <3>1, <3>2
  <2>2. PICK kind, log : log.op \in {"mechRequest", "mechDeliver", "rate"} /\ Emit(kind, <<log>>)
    BY <2>1
  <2>3. Plain(<<log>>)
    BY <2>2 DEF Plain
  <2> QED BY <2>2, <2>3, PlainEmitted
<1> QED BY <1>1, <1>2, <1>3

LEMMA RegistryLogAttributes ==
  ASSUME IInv, AttributedInv, EmitRegistry
  PROVE  AttributedInv'
<1> DEFINE Others ==
             \E log : /\ log.op \in {"multisig", "transfer", "register", "terminate", "update",
                                    "metadata", "karma"}
                      /\ Emit("registry", <<log>>)
           Creates ==
             \E s \in Services :
               /\ services[s] = NoRow
               /\ Emit("registry", <<[op |-> "createService", service |-> s, config |-> FirstHash]>>)
<1>1. Creates \/ Others
  <2>1. PICK s \in Services :
          \/ /\ services[s] = NoRow
             /\ Emit("registry", <<[op |-> "createService", service |-> s, config |-> FirstHash]>>)
          \/ \/ \E a \in Accounts :
                  \/ Emit("registry", <<[op |-> "multisig", service |-> s, account |-> a]>>)
                  \/ Emit("registry", <<[op |-> "transfer", service |-> s, account |-> a]>>)
             \/ \E a \in Agents : Emit("registry", <<[op |-> "register", service |-> s, agent |-> a]>>)
             \/ Emit("registry", <<[op |-> "terminate", service |-> s]>>)
             \/ \E h \in Hashes :
                  \/ Emit("registry", <<[op |-> "update", service |-> s, config |-> h]>>)
                  \/ Emit("registry", <<[op |-> "metadata", service |-> s, hash |-> h]>>)
          \/ \E m \in Mechs, k \in Karma :
               Emit("registry", <<[op |-> "karma", service |-> s, mech |-> m, change |-> k]>>)
    BY DEF EmitRegistry
  <2>2. CASE /\ services[s] = NoRow
             /\ Emit("registry", <<[op |-> "createService", service |-> s, config |-> FirstHash]>>)
    BY <2>2
  <2>3. ASSUME NEW a \in Accounts,
               \/ Emit("registry", <<[op |-> "multisig", service |-> s, account |-> a]>>)
               \/ Emit("registry", <<[op |-> "transfer", service |-> s, account |-> a]>>)
        PROVE  Others
    BY <2>3
  <2>4. ASSUME NEW a \in Agents,
               Emit("registry", <<[op |-> "register", service |-> s, agent |-> a]>>)
        PROVE  Others
    BY <2>4
  <2>5. CASE Emit("registry", <<[op |-> "terminate", service |-> s]>>)
    BY <2>5
  <2>6. ASSUME NEW h \in Hashes,
               \/ Emit("registry", <<[op |-> "update", service |-> s, config |-> h]>>)
               \/ Emit("registry", <<[op |-> "metadata", service |-> s, hash |-> h]>>)
        PROVE  Others
    BY <2>6
  <2>7. ASSUME NEW m \in Mechs, NEW k \in Karma,
               Emit("registry", <<[op |-> "karma", service |-> s, mech |-> m, change |-> k]>>)
        PROVE  Others
    BY <2>7
  <2> HIDE DEF Creates, Others
  <2> QED BY <2>1, <2>2, <2>3, <2>4, <2>5, <2>6, <2>7 DEF Creates
<1>2. CASE Others
  <2>1. PICK log : /\ log.op \in {"multisig", "transfer", "register", "terminate", "update",
                                  "metadata", "karma"}
                   /\ Emit("registry", <<log>>)
    BY <1>2
  <2>2. Plain(<<log>>)
    BY <2>1 DEF Plain
  <2> QED BY <2>1, <2>2, PlainEmitted
<1>3. CASE Creates
  <2>1. PICK s \in Services :
          /\ services[s] = NoRow
          /\ Emit("registry", <<[op |-> "createService", service |-> s, config |-> FirstHash]>>)
    BY <1>3
  <2>2. /\ logs' = <<[op |-> "createService", service |-> s, config |-> FirstHash]>>
        /\ services' = services
    BY <2>1 DEF Emit
  <2>3. NewServicesOnly'
    BY <2>1, <2>2 DEF NewServicesOnly
  <2> QED BY <2>1, <2>3, EmitAttributes
<1> HIDE DEF Creates, Others
<1> QED BY <1>1, <1>2, <1>3

LEMMA RequestLogAttributes ==
  ASSUME IInv, AttributedInv, EmitRequest
  PROVE  AttributedInv'
<1>1. PICK m \in createMechs, a \in Accounts, ids \in (SUBSET New) \ {{}}, ipfs \in BOOLEAN :
        Emit("request",
             [k \in DOMAIN SetToSeq(ids) |->
                [op |-> "mechRequest", mech |-> m, id |-> SetToSeq(ids)[k], ipfs |-> ipfs]]
               \o <<[op |-> "request", mech |-> m, requester |-> a, ids |-> ids]>>)
  BY DEF EmitRequest, Each
<1> DEFINE q == SetToSeq(ids)
           each == [k \in DOMAIN q |->
                      [op |-> "mechRequest", mech |-> m, id |-> q[k], ipfs |-> ipfs]]
           last == [op |-> "request", mech |-> m, requester |-> a, ids |-> ids]
           n == Cardinality(ids)
<1>2. IsFiniteSet(ids)
  BY MarketplaceAssumption, FS_Subset DEF New
<1>3. q \in Seq(ids) /\ DOMAIN q = 1 .. n /\ n \in Nat
  BY <1>2, OneEach, AllListed
<1> HIDE DEF q, n
<1>4. each \in Seq({each[k] : k \in DOMAIN q}) /\ Plain(each)
  BY <1>3 DEF Plain
<1>5. last.op # "createService"
  OBVIOUS
<1>6. Emit("request", each \o <<last>>)
  BY <1>1 DEF q
<1> HIDE DEF each, last
<1>7. Plain(each \o <<last>>)
  BY <1>4, <1>5, PlainJoined
<1> QED BY <1>6, <1>7, PlainEmitted

LEMMA DeliveryLogAttributes ==
  ASSUME IInv, AttributedInv, EmitDelivery
  PROVE  AttributedInv'
<1> DEFINE Answer(m, ids, won, rate) ==
             <<[op |-> "delivery", mech |-> m, ids |-> ids, won |-> won]>>
               \o [k \in DOMAIN SetToSeq(won) |->
                     [op |-> "mechDeliver", mech |-> m, id |-> SetToSeq(won)[k], rate |-> rate]]
<1>0. PICK m \in createMechs, ids \in (SUBSET {r \in Ids : status[r] \in {"asked", "done"}}) \ {{}},
           rate \in Rates :
        \E won \in SUBSET {r \in ids : status[r] = "asked"} :
          /\ Emit("delivery", Answer(m, ids, won, rate))
          /\ NewStatus(won, "done") /\ answered' = answered + Cardinality(won)
          /\ UNCHANGED <<minted, advertised, announced, payloads>>
  BY Zenon DEF EmitDelivery, Each
<1>1. PICK won \in SUBSET Ids : Emit("delivery", Answer(m, ids, won, rate))
  <2> HIDE DEF Answer
  <2> QED BY <1>0
<1> DEFINE q == SetToSeq(won)
           each == [k \in DOMAIN q |->
                      [op |-> "mechDeliver", mech |-> m, id |-> q[k], rate |-> rate]]
           first == [op |-> "delivery", mech |-> m, ids |-> ids, won |-> won]
           n == Cardinality(won)
<1>2. IsFiniteSet(won)
  BY MarketplaceAssumption, FS_Subset
<1>3. q \in Seq(won) /\ DOMAIN q = 1 .. n /\ n \in Nat
  BY <1>2, OneEach, AllListed
<1> HIDE DEF q, n
<1>4. each \in Seq({each[k] : k \in DOMAIN q}) /\ Plain(each)
  BY <1>3 DEF Plain
<1>5. first.op # "createService"
  OBVIOUS
<1>6. Emit("delivery", <<first>> \o each)
  BY <1>1 DEF q
<1> HIDE DEF each, first
<1>7. Plain(<<first>> \o each)
  BY <1>4, <1>5, PlainJoined
<1> HIDE DEF Answer
<1> QED BY <1>6, <1>7, PlainEmitted

LEMMA SignedLogAttributes ==
  ASSUME IInv, AttributedInv, EmitSigned
  PROVE  AttributedInv'
<1>0. PICK m \in createMechs, a \in Accounts, rate \in Rates, batchFirst \in BOOLEAN,
           ids \in SUBSET Ids :
        SignedCall(m, a, rate, batchFirst, ids)
  BY SignedCalls, Zenon
<1> DEFINE q == SetToSeq(ids)
           each == [k \in DOMAIN q |-> [op |-> "signed", mech |-> m, id |-> q[k], rate |-> rate]]
           one == [op |-> "batch", mech |-> m, requester |-> a, ids |-> ids]
           n == Cardinality(ids)
           emitted == IF batchFirst THEN <<one>> \o each ELSE each \o <<one>>
<1>2. IsFiniteSet(ids)
  BY MarketplaceAssumption, FS_Subset
<1>3. q \in Seq(ids) /\ DOMAIN q = 1 .. n /\ n \in Nat
  BY <1>2, OneEach, AllListed
<1> HIDE DEF q, n
<1>4. each \in Seq({each[k] : k \in DOMAIN q}) /\ Plain(each)
  BY <1>3 DEF Plain
<1>5. one.op # "createService"
  OBVIOUS
<1>6. Emit("signed", emitted)
  BY <1>0, Zenon DEF SignedCall, q
<1> HIDE DEF each, one
<1>7. Plain(<<one>> \o each) /\ Plain(each \o <<one>>)
  BY <1>4, <1>5, PlainJoined
<1>8. Plain(emitted)
  BY <1>7
<1> HIDE DEF emitted
<1> QED BY <1>6, <1>8, PlainEmitted

LEMMA ContractsAttribute ==
  ASSUME IInv, AttributedInv, Contracts
  PROVE  AttributedInv'
BY MechLogAttributes, RegistryLogAttributes, RequestLogAttributes, DeliveryLogAttributes,
   SignedLogAttributes DEF Contracts

LEMMA InitiallyAttributed ==
  ASSUME Init
  PROVE  AttributedInv
<1>1. /\ logs = <<>> /\ multisigs = Multisigs /\ agents = [s \in Services |-> <<>>]
      /\ perAgent = [a \in Agents |-> 0] /\ senders = [a \in Accounts |-> NoRow]
      /\ services = [s \in Services |-> IF s \in Registered THEN NewService(FirstHash) ELSE NoRow]
  BY DEF Init
<1> DEFINE row(s) == LET m == CHOOSE m \in Founded : ServiceOf[m] = s
                     IN NewMech(m, advertised[m], FirstHash, tx.from)
<1>2. mechs = [s \in Services |-> IF \E m \in Founded : ServiceOf[m] = s THEN row(s) ELSE NoRow]
  BY DEF Init
<1>3. ASSUME NEW s \in Services
      PROVE  row(s).config = FirstHash
  BY DEF NewMech
<1> HIDE DEF row
<1>4. ASSUME NEW s \in Services, mechs[s] # NoRow
      PROVE  services[s] = NewService(FirstHash) /\ mechs[s].config = FirstHash
  <2>1. PICK m \in Founded : ServiceOf[m] = s
    BY <1>2, <1>4
  <2>2. s \in Registered /\ mechs[s] = row(s)
    BY <1>2, <1>4, <2>1, MarketplaceAssumption
  <2> QED BY <1>1, <1>3, <2>2
<1>5. NewService(FirstHash).config = FirstHash /\ NewService(FirstHash).requests = 0
  BY DEF NewService
<1>6. NewService(FirstHash) # NoRow
  BY NewRowsTyped, MarketplaceAssumption DEF FirstHash
<1>7. Configured
  <2>1. \A s \in Services : mechs[s] # NoRow => services[s] # NoRow
    BY <1>4, <1>6
  <2>2. \A s \in Services : mechs[s] # NoRow => mechs[s].config = services[s].config
    BY <1>4, <1>5
  <2> QED BY <2>1, <2>2 DEF Configured
<1>8. OffChainAmongAll /\ AgentsOnce /\ KnownFromStart /\ NewServicesOnly
  BY <1>1 DEF OffChainAmongAll, AgentsOnce, KnownFromStart, NewServicesOnly
<1>9. ASSUME NEW S \in SUBSET Accounts
      PROVE  Total(AskedOnChain(senders), S) = 0 /\ Total(RequestsMade(senders), S) = 0
  <2>1. \A a \in S : AskedOnChain(senders)[a] = 0 /\ RequestsMade(senders)[a] = 0
    BY <1>1 DEF AskedOnChain, RequestsMade
  <2>2. IsFiniteSet(S)
    BY MarketplaceAssumption, FS_Subset
  <2> QED BY <2>1, <2>2, SumZero
<1>10. ServicesBetween
  <2> SUFFICES ASSUME NEW s \in Services, services[s] # NoRow
               PROVE  Between(s)
    BY DEF ServicesBetween
  <2>1. services[s].requests = 0
    BY <1>1, <1>5
  <2>2. From(s) \in SUBSET Accounts /\ Now(s) \in SUBSET Accounts
    BY <1>1, MarketplaceAssumption DEF From, Now
  <2>3. Total(AskedOnChain(senders), From(s)) = 0 /\ Total(AskedOnChain(senders), Now(s)) = 0
    BY <1>9, <2>2
  <2> QED BY <2>1, <2>3 DEF Between
<1>11. RequestsPerAgentBounded
  <2>1. InAll(DOMAIN multisigs) = 0
    BY <1>1, <1>9, MarketplaceAssumption DEF InAll
  <2> QED BY <1>1, <2>1 DEF RequestsPerAgentBounded
<1> QED BY <1>7, <1>8, <1>10, <1>11 DEF AttributedInv, TablesAttributed

LEMMA StutteringAttributes ==
  ASSUME AttributedInv, UNCHANGED vars
  PROVE  AttributedInv'
<1>1. /\ mechs' = mechs /\ services' = services /\ multisigs' = multisigs /\ agents' = agents
      /\ perAgent' = perAgent /\ senders' = senders /\ logs' = logs
  BY DEF vars, mechVars, registryVars
<1>2. OffChainAmongAll' /\ Configured' /\ AgentsOnce' /\ KnownFromStart' /\ RequestsPerAgentBounded'
      /\ NewServicesOnly'
  BY <1>1 DEF AttributedInv, TablesAttributed, OffChainAmongAll, Configured, AgentsOnce,
     KnownFromStart, RequestsPerAgentBounded, InAll, NewServicesOnly
<1>3. ServicesBetween'
  BY <1>1 DEF AttributedInv, TablesAttributed, ServicesBetween, Between, From, Now
<1> QED BY <1>2, <1>3 DEF AttributedInv, TablesAttributed

LEMMA StepAttributes ==
  ASSUME IInv, IInv', ComposeInv, ComposeInv', AttributedInv, [Next]_vars
  PROVE  AttributedInv'
<1>1. CASE Contracts
  BY <1>1, ContractsAttribute
<1>2. CASE Handle
  <2>1. PICK price \in PossiblePrices : HandleAt(price)
    BY <1>2 DEF Handle
  <2>2. price \in Nat
    BY <2>1, PricesTyped
  <2>3. TablesAttributed' /\ NewServicesOnly'
    BY <2>1, <2>2, HandleAttributes, HandleKeepsNew
  <2> QED BY <2>3 DEF AttributedInv
<1>3. CASE UNCHANGED vars
  BY <1>3, StutteringAttributes
<1> QED BY <1>1, <1>2, <1>3 DEF Next

LEMMA Attributing == Spec => []AttributedInv
<1>1. Init => AttributedInv
  BY InitiallyAttributed
<1>2. IInv /\ IInv' /\ ComposeInv /\ ComposeInv' /\ AttributedInv /\ [Next]_vars => AttributedInv'
  BY StepAttributes
<1> QED BY <1>1, <1>2, Invariance, Composing, PTL DEF Spec

LEMMA AttributedAtAll ==
  ASSUME ComposeInv, AttributedInv
  PROVE  RequestsAttributed
<1>1. /\ \A s \in Rows(services) : s \in Services /\ services[s] # NoRow
      /\ \A s \in Rows(mechs) : s \in Services /\ mechs[s] # NoRow
  BY DEF ComposeInv, RowTypes, Rows
<1>2. RequestsByService
  <2> SUFFICES ASSUME NEW s \in Rows(services)
               PROVE  /\ OnChain({a \in DOMAIN Multisigs : Multisigs[a] = s}) <= services[s].requests
                      /\ services[s].requests <= OnChain({a \in DOMAIN multisigs : multisigs[a] = s})
    BY DEF RequestsByService
  <2>1. Between(s)
    BY <1>1 DEF AttributedInv, TablesAttributed, ServicesBetween
  <2> QED BY <2>1 DEF Between, From, Now, OnChain
<1>3. ServiceAndMechAgree
  BY <1>1 DEF AttributedInv, TablesAttributed, Configured, KnownFromStart, ServiceAndMechAgree
<1> QED BY <1>2, <1>3 DEF RequestsAttributed, AttributedInv, TablesAttributed

\* Requests are attributed to whom they are due, though services get multisigs, agents and
\* configurations between them: a service is counted for the requests on chain of all its
\* multisigs known from the start and for none that its multisigs of now did not make
\* (handlers.ts:740-743); an agent at most once for each request of a multisig, on chain or
\* off (handlers.ts:776-778, 1003-1006); and a mech has the configuration of its service
\* (handlers.ts:538-543), which has every multisig created for it in its history
\* (handlers.ts:247).
THEOREM RequestsAlwaysAttributed == Spec => []RequestsAttributed
<1>1. ComposeInv /\ AttributedInv => RequestsAttributed
  BY AttributedAtAll
<1> QED BY <1>1, Composing, Attributing, PTL

-----------------------------------------------------------------------------
(* Requests and deliveries are counted. *)

\* What a log adds to the deliveries of the marketplace: a transaction has one log that
\* does.
Answers(log) == log.op \in {"delivery", "batch"}
AnswersOf(log) == IF log.op = "delivery" THEN Cardinality(log.won)
                  ELSE IF log.op = "batch" THEN Cardinality(log.ids) ELSE 0
DeliveriesComing ==
  /\ \A j, k \in DOMAIN logs : Answers(logs[j]) /\ Answers(logs[k]) => j = k
  /\ (\A k \in DOMAIN logs : ~ Answers(logs[k])) => totals.deliveries = answered
  /\ \A k \in DOMAIN logs : Answers(logs[k]) => totals.deliveries + AnswersOf(logs[k]) = answered

\* What was asked through the marketplace has a row that is not delivered, or gets it.
Undone(r) == requests[r] # NoRow /\ ~ requests[r].delivered
Done(r) == requests[r] # NoRow /\ requests[r].delivered
AskedHaveRows == \A r \in Ids : status[r] = "asked" => Undone(r) \/ AskedByLog(r)

\* A request has a row only if it was made, to a known mech.
OnlyAsked ==
  \A r \in Ids : requests[r] # NoRow =>
    status[r] # "none" /\ requests[r].priority \in createMechs

\* Logs ask for what is not delivered.
AsksFor(log, r) ==
  \/ log.op = "request" /\ r \in log.ids
  \/ log.op = "mechRequest" /\ log.mech \notin Strangers /\ r = log.id
Asks(log) == log.op \in {"request", "mechRequest"}
Delivers(log) == log.op \in {"delivery", "mechDeliver"}

\* The marketplace's log of a delivery is its transaction's first, and what it won is not
\* delivered before; a mech's log that is not direct comes after it.
WonBy(log, r) == log.op = "delivery" /\ r \in log.won
DeliveryBacked(k) ==
  /\ logs[k].op = "delivery" =>
       /\ k = 1 /\ logs[k].won \subseteq logs[k].ids
       /\ \A r \in logs[k].won : Undone(r) /\ status[r] = "done"
  /\ logs[k].op = "mechDeliver" /\ logs[k].mech \notin Strangers =>
       /\ status[logs[k].id] # "asked"
       /\ \A r \in {logs[k].id} :
            ~ tx.toMarketplace \/ Done(r) \/ \E j \in DOMAIN logs : WonBy(logs[j], r)
AskBacked(k) == \A r \in Ids : AsksFor(logs[k], r) => ~ Done(r) /\ status[r] # "none"

\* The mechs of logs are known, unless they are strangers.
Listed(log) ==
  \/ log.op \in {"request", "delivery", "batch"}
  \/ log.op \in {"mechDeliver", "mechRequest"} /\ log.mech \notin Strangers
LogsCounted ==
  /\ \A k \in DOMAIN logs : DeliveryBacked(k) /\ AskBacked(k)
  /\ \A k \in DOMAIN logs : Listed(logs[k]) => logs[k].mech \in createMechs
  /\ \A j, k \in DOMAIN logs : Delivers(logs[j]) => ~ Asks(logs[k])

\* The mechs a service created, and the first of them.
FirstMech(mech) ==
  /\ minted[ServiceOf[mech]] >= 1
  /\ minted[ServiceOf[mech]] = 1 => \A m \in createMechs : ServiceOf[m] # ServiceOf[mech]
MechsMinted ==
  /\ minted \in [Services -> Nat]
  /\ \A m \in createMechs : minted[ServiceOf[m]] >= 1
  /\ \A k \in DOMAIN logs : logs[k].op = "createMech" => FirstMech(logs[k].mech)

\* A service's only mech has received what it or others delivered, what waits for a
\* delivery, and not what was asked of itself.
Of(s) == {r \in Ids : requests[r] # NoRow /\ ServiceOf[requests[r].priority] = s}
DoneDirectly(s) == {r \in Of(s) : Done(r) /\ r \notin Marked(markers)}
Waiting(s) == {r \in Of(s) : ~ Done(r) /\ r \in Marked(markers)}
Balanced(s) ==
  mechs[s].received + Cardinality(DoneDirectly(s))
    = mechs[s].self + mechs[s].others + Cardinality(Waiting(s))
BacklogsBalanced ==
  \A s \in Services : mechs[s] # NoRow /\ minted[s] = 1 => Balanced(s)

AtaCounted == IsFiniteSet(ataTxs) /\ AtaOncePerTransaction

CountedInv ==
  /\ DeliveriesComing /\ AskedHaveRows /\ OnlyAsked /\ LogsCounted /\ MechsMinted
  /\ BacklogsBalanced /\ EachDeliveryCountedOnce /\ AtaCounted

-----------------------------------------------------------------------------
(* What a log does to the requests, their deliveries and the agent transactions. *)

\* The requests that a log opens, and those it delivers.
Opened(log) ==
  IF log.op = "request" THEN log.ids
  ELSE IF log.op = "mechRequest" /\ Known(log.mech) /\ ~ tx.toMarketplace THEN {log.id} ELSE {}
Closed(log) ==
  IF log.op = "delivery" THEN Undelivered(log.ids, log.won)
  ELSE IF log.op = "mechDeliver" /\ Known(log.mech) /\ IsNewDelivery(log.id) THEN {log.id} ELSE {}

\* The rows of requests that are opened are not delivered, and the others stay, but for
\* those delivered.
RowsMove(opened, mech, closed) ==
  \A r \in Ids :
    /\ r \in opened => Undone(r)' /\ requests'[r].priority = mech
    /\ r \notin opened =>
         /\ requests'[r] # NoRow <=> requests[r] # NoRow
         /\ requests[r] # NoRow =>
              /\ requests'[r].priority = requests[r].priority
              /\ requests'[r].delivered <=> requests[r].delivered \/ r \in closed

LEMMA RowsStay ==
  ASSUME requests' = requests, NEW mech
  PROVE  RowsMove({}, mech, {})
BY DEF RowsMove

LEMMA AskedFor ==
  ASSUME Typed, NEW r \in Ids, NEW a \in Accounts, NEW m \in Mechs,
         NEW s \in Services \cup {NoService}, NEW priced \in BOOLEAN
  PROVE  LET new == Asked(r, a, m, s, priced) IN
         new # NoRow /\ new.priority = m /\ ~ new.delivered
<1>1. Asked(r, a, m, s, priced) # NoRow
  BY AskedIs
<1>2. Asked(r, a, m, s, priced).priority = m /\ ~ Asked(r, a, m, s, priced).delivered
  BY DEF Asked
<1> QED BY <1>1, <1>2

LEMMA RequestRows ==
  ASSUME Typed, NEW m \in Mechs, NEW a \in Accounts, NEW ids \in SUBSET Ids,
         MarketplaceRequest(m, a, ids)
  PROVE  RowsMove(ids, m, {})
<1> DEFINE service == ServiceOfMultisig(a)
           new(r) == Asked(r, a, m, service, Priced(m))
<1>1. requests' = [r \in Ids |-> IF r \in ids THEN new(r) ELSE requests[r]]
  BY DEF MarketplaceRequest
<1>2. service \in Services \cup {NoService} /\ Priced(m) \in BOOLEAN
  BY ServiceOfMultisigTyped DEF Priced
<1> HIDE DEF service
<1>3. \A r \in ids : new(r) # NoRow /\ new(r).priority = m /\ ~ new(r).delivered
  BY <1>2, AskedFor
<1> HIDE DEF new
<1> QED BY <1>1, <1>3 DEF RowsMove, Undone

LEMMA MechRequestRows ==
  ASSUME Typed, NEW m \in Mechs, NEW id \in Ids, NEW ipfs, MechRequest(m, id, ipfs)
  PROVE  RowsMove(IF Known(m) /\ ~ tx.toMarketplace THEN {id} ELSE {}, m, {})
<1> DEFINE new == Asked(id, tx.from, m, ServiceOf[m], FALSE)
<1>1. CASE Known(m) /\ ~ tx.toMarketplace
  <2>1. requests' = [requests EXCEPT ![id] = new]
    BY <1>1 DEF MechRequest, IsMarketplaceTransaction
  <2>2. tx.from \in Accounts /\ ServiceOf[m] \in Services \cup {NoService}
    BY MarketplaceAssumption DEF Typed
  <2>3. new # NoRow /\ new.priority = m /\ ~ new.delivered
    <3>1. \A b \in BOOLEAN : LET row == Asked(id, tx.from, m, ServiceOf[m], b) IN
                             row # NoRow /\ row.priority = m /\ ~ row.delivered
      BY <2>2, AskedFor
    <3> QED BY <3>1, Zenon
  <2> HIDE DEF new
  <2>4. requests'[id] = new /\ \A r \in Ids \ {id} : requests'[r] = requests[r]
    BY <2>1 DEF Typed
  <2> QED BY <1>1, <2>3, <2>4 DEF RowsMove, Undone
<1>2. CASE ~ (Known(m) /\ ~ tx.toMarketplace)
  <2>1. requests' = requests
    BY <1>2 DEF MechRequest, IsMarketplaceTransaction
  <2> QED BY <1>2, <2>1, RowsStay
<1> QED BY <1>1, <1>2

LEMMA DeliveryRows ==
  ASSUME Typed, NEW m, NEW ids \in SUBSET Ids, NEW won, MarketplaceDelivery(m, ids, won)
  PROVE  RowsMove({}, m, Undelivered(ids, won))
<1> DEFINE done == Undelivered(ids, won)
<1>1. requests' = [r \in Ids |-> IF r \in done THEN Delivered(r) ELSE requests[r]]
  BY DEF MarketplaceDelivery
<1>2. ASSUME NEW r \in Ids, requests[r] # NoRow
      PROVE  /\ Delivered(r) # NoRow /\ Delivered(r).priority = requests[r].priority
             /\ Delivered(r).delivered
  <2>1. requests[r] \in RequestRow
    BY <1>2 DEF Typed
  <2> QED BY <1>2, <2>1, DeliveredIs DEF Delivered, RequestRow
<1>3. \A r \in done : requests[r] # NoRow
  BY DEF Undelivered
<1> HIDE DEF done
<1>4. ASSUME NEW r \in Ids, requests[r] # NoRow
      PROVE  /\ requests'[r] # NoRow /\ requests'[r].priority = requests[r].priority
             /\ requests'[r].delivered <=> requests[r].delivered \/ r \in done
  <2>1. CASE r \in done
    <3>1. requests'[r] = Delivered(r)
      BY <1>1, <2>1
    <3> QED BY <1>2, <1>4, <2>1, <3>1
  <2>2. CASE r \notin done
    <3>1. requests'[r] = requests[r]
      BY <1>1, <2>2
    <3> QED BY <1>4, <2>2, <3>1
  <2> QED BY <2>1, <2>2
<1>5. \A r \in Ids : requests[r] = NoRow => requests'[r] = NoRow
  BY <1>1, <1>3
<1>6. RowsMove({}, m, done)
  BY <1>4, <1>5 DEF RowsMove
<1> QED BY <1>6 DEF done

LEMMA MechDeliverRows ==
  ASSUME Typed, NEW m, NEW id \in Ids, NEW rate \in Rates, NEW price \in Nat,
         MechDeliver(m, id, rate, price)
  PROVE  RowsMove({}, m, IF Known(m) /\ IsNewDelivery(id) THEN {id} ELSE {})
<1>1. CASE ~ Known(m)
  <2>1. requests' = requests
    BY <1>1 DEF MechDeliver, askVars
  <2> QED BY <1>1, <2>1, RowsStay
<1>2. CASE Known(m)
  <2> DEFINE updated == IF IsNewDelivery(id) THEN Delivered(id) ELSE requests[id]
             new == IF Charged(id) THEN [updated EXCEPT !.fee = FeeToUsd(rate, price)] ELSE updated
  <2>1. requests' = [requests EXCEPT ![id] = new]
    BY <1>2 DEF MechDeliver
  <2>2. requests[id] = NoRow => new = NoRow
    BY DEF IsNewDelivery, Charged
  <2>3. ASSUME requests[id] # NoRow
        PROVE  /\ new # NoRow /\ new.priority = requests[id].priority
               /\ new.delivered <=> requests[id].delivered \/ IsNewDelivery(id)
    <3>1. requests[id] \in RequestRow /\ FeeToUsd(rate, price) \in Nat
      BY <2>3, UsdTyped DEF Typed
    <3>2. PICK usd \in Nat : usd = FeeToUsd(rate, price)
      BY <3>1
    <3>3. /\ updated \in RequestRow /\ updated.priority = requests[id].priority
          /\ updated.delivered <=> requests[id].delivered \/ IsNewDelivery(id)
      BY <3>1 DEF Delivered, RequestRow
    <3> HIDE DEF updated
    <3>4. /\ [updated EXCEPT !.fee = usd] \in RequestRow
          /\ [updated EXCEPT !.fee = usd].priority = updated.priority
          /\ [updated EXCEPT !.fee = usd].delivered = updated.delivered
      BY <3>3 DEF RequestRow
    <3>5. /\ new \in RequestRow /\ new.priority = updated.priority
          /\ new.delivered = updated.delivered
      BY <3>2, <3>3, <3>4
    <3> HIDE DEF new
    <3> QED BY <3>3, <3>5, MarketplaceAssumption
  <2> HIDE DEF new, updated
  <2>4. requests'[id] = new /\ \A r \in Ids \ {id} : requests'[r] = requests[r]
    BY <2>1 DEF Typed
  <2>5. ASSUME NEW r \in Ids
        PROVE  /\ requests'[r] # NoRow <=> requests[r] # NoRow
               /\ requests[r] # NoRow =>
                    /\ requests'[r].priority = requests[r].priority
                    /\ requests'[r].delivered
                         <=> requests[r].delivered \/ (IsNewDelivery(id) /\ r = id)
    <3>1. CASE r = id
      BY <2>2, <2>3, <2>4, <3>1
    <3>2. CASE r # id
      BY <2>4, <3>2
    <3> QED BY <3>1, <3>2
  <2> QED BY <1>2, <2>5 DEF RowsMove
<1> QED BY <1>1, <1>2

LEMMA SignedRows ==
  ASSUME Typed, NEW m, NEW id \in Ids, NEW rate \in Rates, NEW price \in Nat,
         SignedDeliver(id, rate, price)
  PROVE  RowsMove({}, m, {})
<1>1. CASE Charged(id)
  <2> DEFINE new == [requests[id] EXCEPT !.fee = FeeToUsd(rate, price)]
  <2>1. requests' = [requests EXCEPT ![id] = new]
    BY <1>1 DEF SignedDeliver
  <2>2. requests[id] \in RequestRow /\ FeeToUsd(rate, price) \in Nat
    BY <1>1, UsdTyped DEF Typed, Charged
  <2>3. PICK usd \in Nat : usd = FeeToUsd(rate, price)
    BY <2>2
  <2>4. /\ [requests[id] EXCEPT !.fee = usd] \in RequestRow
        /\ [requests[id] EXCEPT !.fee = usd].priority = requests[id].priority
        /\ [requests[id] EXCEPT !.fee = usd].delivered = requests[id].delivered
    BY <2>2 DEF RequestRow
  <2>5. /\ new \in RequestRow /\ new.priority = requests[id].priority
        /\ new.delivered = requests[id].delivered
    BY <2>3, <2>4
  <2> HIDE DEF new
  <2>6. new # NoRow /\ requests[id] # NoRow
    BY <2>2, <2>5, MarketplaceAssumption
  <2>7. requests'[id] = new /\ \A r \in Ids \ {id} : requests'[r] = requests[r]
    BY <2>1 DEF Typed
  <2> QED BY <2>5, <2>6, <2>7 DEF RowsMove
<1>2. CASE ~ Charged(id)
  <2>1. requests' = requests
    BY <1>2 DEF SignedDeliver
  <2> QED BY <2>1, RowsStay
<1> QED BY <1>1, <1>2

\* The deliveries and the agent transactions that rows count.
LEMMA SenderAta ==
  ASSUME NEW s \in SenderRow, NEW n \in Nat, NEW ata
  PROVE  /\ SenderAsks(s, n, ata).ata = IF ata THEN s.ata + 1 ELSE s.ata
         /\ SenderSigned(s, n, ata).ata = IF ata THEN s.ata + 1 ELSE s.ata
<1>1. SenderAsks(s, n, ata).ata = IF ata THEN s.ata + 1 ELSE s.ata
  BY DEF SenderAsks, SenderRow
<1>2. SenderSigned(s, n, ata).ata = IF ata THEN s.ata + 1 ELSE s.ata
  BY DEF SenderSigned, SenderRow
<1> QED BY <1>1, <1>2

LEMMA TotalsCount ==
  ASSUME NEW t \in TotalsRow, NEW n \in Nat, NEW by \in Nat
  PROVE  /\ CountAta(t, by).deliveries = t.deliveries
         /\ CountAta(t, by).ata = IF tx.id \in ataTxs THEN t.ata ELSE t.ata + by
         /\ TotalsAsked(t, n).deliveries = t.deliveries /\ TotalsAsked(t, n).ata = t.ata
         /\ TotalsSigned(t, n).deliveries = t.deliveries + n /\ TotalsSigned(t, n).ata = t.ata
<1>1. /\ CountAta(t, by).deliveries = t.deliveries
      /\ CountAta(t, by).ata = IF tx.id \in ataTxs THEN t.ata ELSE t.ata + by
  BY DEF CountAta, TotalsRow
<1>2. TotalsAsked(t, n).deliveries = t.deliveries /\ TotalsAsked(t, n).ata = t.ata
  BY DEF TotalsAsked, TotalsRow
<1>3. TotalsSigned(t, n).deliveries = t.deliveries + n /\ TotalsSigned(t, n).ata = t.ata
  BY DEF TotalsSigned, TotalsRow
<1> QED BY <1>1, <1>2, <1>3

\* A transaction is counted with its first log only, and by the sender of a service once
\* more at most.
AtaMoves ==
  \E x \in {0, 1}, y \in {0, 1}, t \in {0, 1, 2} :
    /\ y <= x /\ x <= t /\ t <= x + y
    /\ totals'.ata = totals.ata + t
    /\ Total(AtaMade(senders'), Accounts) = Total(AtaMade(senders), Accounts) + y
    /\ ataTxs' = (IF x = 1 THEN ataTxs \cup {tx.id} ELSE ataTxs)
    /\ x = 1 => tx.id \notin ataTxs

LEMMA AtaStays ==
  ASSUME Typed, Typed', \A a \in Accounts : AtaMade(senders')[a] = AtaMade(senders)[a],
         NEW by \in {0, 1}, totals'.ata = totals.ata + by,
         by = 0 => ataTxs' = ataTxs,
         by = 1 => ataTxs' = ataTxs \cup {tx.id} /\ tx.id \notin ataTxs
  PROVE  AtaMoves
<1>1. IsFiniteSet(Accounts) /\ \A a \in Accounts : AtaMade(senders)[a] \in Int
  BY MarketplaceAssumption DEF Typed, AtaMade, SenderRow
<1>2. /\ Total(AtaMade(senders'), Accounts) = Total(AtaMade(senders), Accounts)
      /\ Total(AtaMade(senders), Accounts) \in Int
  BY <1>1, SumSame, SumTyped
<1>3. /\ 0 <= by /\ by <= by /\ by <= by + 0 /\ by \in {0, 1, 2}
      /\ Total(AtaMade(senders'), Accounts) = Total(AtaMade(senders), Accounts) + 0
      /\ ataTxs' = (IF by = 1 THEN ataTxs \cup {tx.id} ELSE ataTxs)
      /\ by = 1 => tx.id \notin ataTxs
  BY <1>2
<1> QED BY <1>3 DEF AtaMoves

LEMMA AtaFirst ==
  ASSUME Typed, Typed', \A a \in Accounts : AtaMade(senders')[a] = AtaMade(senders)[a],
         totals'.ata = CountAta(totals, 1).ata, ataTxs' = ataTxs \cup {tx.id}
  PROVE  AtaMoves
<1>1. totals \in TotalsRow /\ totals.ata \in Nat
  BY DEF Typed, TotalsRow
<1>2. totals'.ata = IF tx.id \in ataTxs THEN totals.ata ELSE totals.ata + 1
  BY <1>1, TotalsCount
<1>3. CASE tx.id \in ataTxs
  <2>1. totals'.ata = totals.ata + 0 /\ ataTxs' = ataTxs /\ 0 \in {0, 1}
    BY <1>1, <1>2, <1>3
  <2> QED BY <2>1, AtaStays
<1>4. CASE tx.id \notin ataTxs
  <2>1. totals'.ata = totals.ata + 1 /\ ataTxs' = ataTxs \cup {tx.id} /\ 1 \in {0, 1}
    BY <1>1, <1>2, <1>4
  <2> QED BY <1>4, <2>1, AtaStays
<1> QED BY <1>3, <1>4

\* The transaction counts for its sender.
LEMMA AtaAsked ==
  ASSUME Typed, Typed', NEW a \in Accounts, NEW row \in SenderRow, NEW ata \in BOOLEAN,
         NEW by \in {0, 1, 2}, senders' = [senders EXCEPT ![a] = row],
         row.ata = IF ata THEN OrNew(a).ata + 1 ELSE OrNew(a).ata,
         totals'.ata = totals.ata + by,
         ata => by \in {1, 2} /\ ataTxs' = ataTxs \cup {tx.id} /\ tx.id \notin ataTxs,
         ~ ata => \/ by = 0 /\ ataTxs' = ataTxs
                  \/ by = 1 /\ ataTxs' = ataTxs \cup {tx.id} /\ tx.id \notin ataTxs
  PROVE  AtaMoves
<1>1. IsFiniteSet(Accounts) /\ \A b \in Accounts : AtaMade(senders)[b] \in Int
  BY MarketplaceAssumption DEF Typed, AtaMade, SenderRow
<1>2. \A b \in Accounts : AtaMade(senders')[b] \in Int
  BY DEF Typed, AtaMade, SenderRow
<1>3. OrNew(a).ata = AtaMade(senders)[a]
  BY DEF OrNew, NewSender, AtaMade, Typed
<1>4. /\ senders'[a] = row /\ row # NoRow /\ DOMAIN senders' = Accounts
      /\ \A b \in Accounts \ {a} : senders'[b] = senders[b]
  BY MarketplaceAssumption DEF Typed
<1>5. /\ AtaMade(senders')[a] = row.ata
      /\ \A b \in Accounts \ {a} : AtaMade(senders)[b] = AtaMade(senders')[b]
  BY <1>4 DEF AtaMade, Typed
<1>6. Total(AtaMade(senders'), Accounts)
        = Total(AtaMade(senders), Accounts) + (AtaMade(senders')[a] - AtaMade(senders)[a])
  <2>1. PICK f, g : f = AtaMade(senders) /\ g = AtaMade(senders')
    OBVIOUS
  <2>2. /\ \A b \in Accounts : f[b] \in Int /\ g[b] \in Int
        /\ \A b \in Accounts \ {a} : f[b] = g[b]
    BY <1>1, <1>2, <1>5, <2>1
  <2>3. Total(g, Accounts) = Total(f, Accounts) + (g[a] - f[a])
    BY <1>1, <2>2, SumChange
  <2> QED BY <2>1, <2>3
<1>7. Total(AtaMade(senders), Accounts) \in Int
  BY <1>1, SumTyped
<1>8. CASE ata
  <2>1. /\ 1 <= 1 /\ 1 <= by /\ by <= 1 + 1
        /\ Total(AtaMade(senders'), Accounts) = Total(AtaMade(senders), Accounts) + 1
        /\ ataTxs' = (IF 1 = 1 THEN ataTxs \cup {tx.id} ELSE ataTxs)
        /\ 1 = 1 => tx.id \notin ataTxs
    BY <1>1, <1>3, <1>5, <1>6, <1>7, <1>8
  <2> QED BY <2>1 DEF AtaMoves
<1>9. CASE ~ ata
  <2>1. \A b \in Accounts : AtaMade(senders')[b] = AtaMade(senders)[b]
    BY <1>3, <1>5, <1>9
  <2>2. /\ by \in {0, 1}
        /\ by = 0 => ataTxs' = ataTxs
        /\ by = 1 => ataTxs' = ataTxs \cup {tx.id} /\ tx.id \notin ataTxs
    BY <1>9
  <2> QED BY <2>1, <2>2, AtaStays
<1> QED BY <1>8, <1>9

\* Charging a sender, or meeting one, counts no transaction.
LEMMA AtaCharged ==
  ASSUME Typed, RowsConsistent, NEW r \in Ids, NEW usd \in Nat, Charged(r),
         senders' = PaidBy(senders, r, usd)
  PROVE  \A a \in Accounts : AtaMade(senders')[a] = AtaMade(senders)[a]
<1> DEFINE s == requests[r].sender
           row == [senders[s] EXCEPT !.fees = @ + usd]
<1>1. s \in Accounts /\ senders[s] # NoRow /\ senders[s] \in SenderRow
  BY DEF Charged, Typed, RowsConsistent, RequestRow
<1>2. row \in SenderRow /\ row.ata = senders[s].ata
  BY <1>1 DEF SenderRow
<1>3. senders' = [senders EXCEPT ![s] = row] /\ row # NoRow
  BY <1>2, MarketplaceAssumption DEF PaidBy
<1> HIDE DEF row, s
<1>4. /\ senders'[s] = row /\ DOMAIN senders' = Accounts /\ DOMAIN senders = Accounts
      /\ \A b \in Accounts \ {s} : senders'[b] = senders[b]
  BY <1>1, <1>3 DEF Typed
<1> QED BY <1>1, <1>2, <1>3, <1>4 DEF AtaMade

LEMMA AtaMet ==
  ASSUME Typed, NEW a \in Accounts, senders' = [senders EXCEPT ![a] = OrNew(a)]
  PROVE  \A b \in Accounts : AtaMade(senders')[b] = AtaMade(senders)[b]
<1> DEFINE row == OrNew(a)
<1>1. row # NoRow /\ row.ata = AtaMade(senders)[a]
  <2>1. OrNew(a) # NoRow
    BY OrNewIs, MarketplaceAssumption
  <2>2. OrNew(a).ata = AtaMade(senders)[a]
    BY DEF OrNew, NewSender, AtaMade, Typed
  <2> QED BY <2>1, <2>2
<1>2. senders' = [senders EXCEPT ![a] = row]
  OBVIOUS
<1> HIDE DEF row
<1>3. /\ senders'[a] = row /\ DOMAIN senders' = Accounts /\ DOMAIN senders = Accounts
      /\ \A b \in Accounts \ {a} : senders'[b] = senders[b]
  BY <1>2 DEF Typed
<1>4. AtaMade(senders')[a] = row.ata
  BY <1>1, <1>3 DEF AtaMade
<1>5. \A b \in Accounts \ {a} : AtaMade(senders')[b] = AtaMade(senders)[b]
  BY <1>3 DEF AtaMade
<1> QED BY <1>1, <1>4, <1>5

\* The deliveries that services count.
DeliveriesOf(table) == Total(DeliveriesMade(table), Services)

LEMMA DeliveriesStay ==
  ASSUME RowTypes, RowTypes',
         \A s \in Services : DeliveriesMade(services')[s] = DeliveriesMade(services)[s]
  PROVE  DeliveriesOf(services') = DeliveriesOf(services) + 0
<1>1. IsFiniteSet(Services) /\ \A s \in Services : DeliveriesMade(services)[s] \in Int
  BY MarketplaceAssumption DEF RowTypes, DeliveriesMade, ServiceRow
<1>2. Total(DeliveriesMade(services'), Services) = Total(DeliveriesMade(services), Services)
  BY <1>1, SumSame
<1>3. Total(DeliveriesMade(services), Services) \in Int
  BY <1>1, SumTyped
<1> QED BY <1>2, <1>3 DEF DeliveriesOf

LEMMA ServiceDelivers ==
  ASSUME RowTypes, RowTypes', NEW s \in Services, NEW n \in Nat, services[s] # NoRow,
         services' = DeliveredBy(s, n)
  PROVE  DeliveriesOf(services') = DeliveriesOf(services) + n
<1> DEFINE row == [services[s] EXCEPT !.deliveries = @ + n]
<1>1. /\ IsFiniteSet(Services)
      /\ \A q \in Services : DeliveriesMade(services)[q] \in Int /\ DeliveriesMade(services')[q] \in Int
  BY MarketplaceAssumption DEF RowTypes, DeliveriesMade, ServiceRow
<1>2. row \in ServiceRow /\ row.deliveries = services[s].deliveries + n
      /\ services[s].deliveries \in Int
  <2>1. services[s] \in ServiceRow
    BY DEF RowTypes
  <2> QED BY <2>1 DEF ServiceRow
<1>3. services' = [services EXCEPT ![s] = row] /\ row # NoRow
  BY <1>2, MarketplaceAssumption DEF DeliveredBy
<1> HIDE DEF row
<1>4. /\ services'[s] = row /\ DOMAIN services' = Services /\ DOMAIN services = Services
      /\ \A q \in Services \ {s} : services'[q] = services[q]
  BY <1>3 DEF RowTypes
<1>5. /\ DeliveriesMade(services')[s] - DeliveriesMade(services)[s] = n
      /\ \A q \in Services \ {s} : DeliveriesMade(services)[q] = DeliveriesMade(services')[q]
  BY <1>2, <1>3, <1>4 DEF DeliveriesMade
<1>6. Total(DeliveriesMade(services'), Services)
        = Total(DeliveriesMade(services), Services)
            + (DeliveriesMade(services')[s] - DeliveriesMade(services)[s])
  <2>1. PICK f, g : f = DeliveriesMade(services) /\ g = DeliveriesMade(services')
    OBVIOUS
  <2>2. /\ \A q \in Services : f[q] \in Int /\ g[q] \in Int
        /\ \A q \in Services \ {s} : f[q] = g[q]
    BY <1>1, <1>5, <2>1
  <2>3. Total(g, Services) = Total(f, Services) + (g[s] - f[s])
    BY <1>1, <2>2, SumChange
  <2> QED BY <2>1, <2>3
<1> QED BY <1>5, <1>6 DEF DeliveriesOf

\* Rows that change otherwise keep their deliveries.
LEMMA DeliveriesKept ==
  ASSUME RowTypes, RowTypes', NEW s \in Services, NEW row \in ServiceRow,
         services' = [services EXCEPT ![s] = row],
         row.deliveries = DeliveriesMade(services)[s]
  PROVE  DeliveriesOf(services') = DeliveriesOf(services) + 0
<1>1. /\ services'[s] = row /\ row # NoRow /\ DOMAIN services' = Services
      /\ DOMAIN services = Services /\ \A q \in Services \ {s} : services'[q] = services[q]
  BY MarketplaceAssumption DEF RowTypes
<1>2. \A q \in Services : DeliveriesMade(services')[q] = DeliveriesMade(services)[q]
  BY <1>1 DEF DeliveriesMade
<1> QED BY <1>2, DeliveriesStay

\* What a row of a mech has received and not delivered.
Backlog(row) == row.received - (row.self + row.others)
\* The mechs receive these requests, and these are delivered.
BacklogsMove(received, mech, closed) ==
  \A s \in Services : mechs'[s] # NoRow =>
    /\ mechs[s] # NoRow
    /\ Backlog(mechs'[s]) =
         Backlog(mechs[s]) + (IF ServiceOf[mech] = s THEN Cardinality(received) ELSE 0)
           - Cardinality(closed \cap Of(s))

LEMMA BacklogTyped ==
  ASSUME NEW row \in MechRow
  PROVE  /\ row.received \in Nat /\ row.self \in Nat /\ row.others \in Nat /\ Backlog(row) \in Int
BY DEF MechRow, Backlog

LEMMA BacklogsStay ==
  ASSUME RowTypes, NEW mech,
         \A s \in Services : mechs'[s] # NoRow =>
           mechs[s] # NoRow /\ Backlog(mechs'[s]) = Backlog(mechs[s])
  PROVE  BacklogsMove({}, mech, {})
<1>1. \A s \in Services : mechs[s] # NoRow => Backlog(mechs[s]) \in Int
  BY BacklogTyped DEF RowTypes
<1>2. Cardinality({}) = 0 /\ \A s : {} \cap Of(s) = {}
  BY FS_EmptySet
<1> QED BY <1>1, <1>2 DEF BacklogsMove

-----------------------------------------------------------------------------
(* What each handler counts. *)

\* A log opens requests for a mech, marks some and delivers others, and says that n were
\* delivered.
CountsMove(mech, opened, marked, closed, n) ==
  /\ RowsMove(opened, mech, closed)
  /\ Marked(markers') = Marked(markers) \cup marked
  /\ totals'.deliveries = totals.deliveries + n
  /\ DeliveriesOf(services') = DeliveriesOf(services) + Cardinality(closed)
  /\ AtaMoves

TablesStill ==
  /\ requests' = requests /\ markers' = markers /\ senders' = senders
  /\ ataTxs' = ataTxs /\ totals' = totals

LEMMA StillCounted ==
  ASSUME Typed, Typed', TablesStill, DeliveriesOf(services') = DeliveriesOf(services) + 0,
         NEW mech
  PROVE  CountsMove(mech, {}, {}, {}, 0)
<1>1. RowsMove({}, mech, {})
  BY RowsStay DEF TablesStill
<1>2. totals.deliveries \in Nat /\ totals.ata \in Nat
  BY DEF Typed, TotalsRow
<1>3. totals'.deliveries = totals.deliveries + 0 /\ totals'.ata = totals.ata + 0
  BY <1>2 DEF TablesStill
<1>4. AtaMoves
  <2>1. /\ \A a \in Accounts : AtaMade(senders')[a] = AtaMade(senders)[a]
        /\ 0 \in {0, 1} /\ ataTxs' = ataTxs
    BY DEF TablesStill
  <2> QED BY <1>3, <2>1, AtaStays
<1>5. Cardinality({}) = 0
  BY FS_EmptySet
<1> QED BY <1>1, <1>3, <1>4, <1>5 DEF CountsMove, TablesStill

\* A mech's row changes, but for what it has received and delivered.
LEMMA MechStill ==
  ASSUME RowTypes, NEW mech, NEW s \in Services, mechs[s] # NoRow, NEW row \in MechRow,
         row.received = mechs[s].received, row.self = mechs[s].self,
         row.others = mechs[s].others, mechs' = [mechs EXCEPT ![s] = row]
  PROVE  BacklogsMove({}, mech, {})
<1>1. mechs'[s] = row /\ \A q \in Services \ {s} : mechs'[q] = mechs[q]
  BY DEF RowTypes
<1>2. Backlog(row) = Backlog(mechs[s])
  BY DEF Backlog
<1>3. \A q \in Services : mechs'[q] # NoRow =>
        mechs[q] # NoRow /\ Backlog(mechs'[q]) = Backlog(mechs[q])
  BY <1>1, <1>2
<1> QED BY <1>3, BacklogsStay

LEMMA MechsSame ==
  ASSUME RowTypes, NEW mech, mechs' = mechs
  PROVE  BacklogsMove({}, mech, {})
BY BacklogsStay

\* The fields of mechs' rows that logs replace.
LEMMA MechFields ==
  ASSUME NEW row \in MechRow
  PROVE  /\ \A rate \in Rates : LET new == [row EXCEPT !.rate = rate] IN
              /\ new \in MechRow /\ new.received = row.received
              /\ new.self = row.self /\ new.others = row.others
         /\ \A a \in Accounts : LET new == [row EXCEPT !.owner = a] IN
              /\ new \in MechRow /\ new.received = row.received
              /\ new.self = row.self /\ new.others = row.others
         /\ \A h \in Hashes : LET new == [row EXCEPT !.config = h] IN
              /\ new \in MechRow /\ new.received = row.received
              /\ new.self = row.self /\ new.others = row.others
         /\ \A k \in Karma : LET new == [row EXCEPT !.karma = @ + k] IN
              /\ new \in MechRow /\ new.received = row.received
              /\ new.self = row.self /\ new.others = row.others
BY MarketplaceAssumption DEF MechRow

\* The logs of mechs and of the registry count nothing; that of a mech's creation starts
\* its counters.
LEMMA RegistryBacklogs ==
  ASSUME Typed, RowTypes, Linked, NEW log \in Log, NEW mech,
         \/ log.op = "rate" /\ MaxDeliveryRateUpdated(log.mech, log.rate)
         \/ log.op = "transfer" /\ ServiceTransfer(log.service, log.account)
         \/ log.op = "update" /\ UpdateService(log.service, log.config)
         \/ log.op = "karma" /\ MechKarmaChanged(log.mech, log.change)
  PROVE  BacklogsMove({}, mech, {})
<1>1. \A s \in Services : mechs[s] # NoRow => mechs[s] \in MechRow
  BY DEF RowTypes
<1>2. CASE mechs' = mechs
  BY <1>2, MechsSame
<1>3. CASE log.op = "rate" /\ MaxDeliveryRateUpdated(log.mech, log.rate) /\ mechs' # mechs
  <2>1. PICK s \in Services, rate \in Rates :
          mechs[s] # NoRow /\ mechs' = [mechs EXCEPT ![s] = [mechs[s] EXCEPT !.rate = rate]]
    <3>1. log.mech \in Mechs /\ log.rate \in Rates
      BY <1>3, LogTyped
    <3>2. Known(log.mech) /\ mechs' = [mechs EXCEPT ![ServiceOf[log.mech]].rate = log.rate]
      BY <1>3 DEF MaxDeliveryRateUpdated
    <3>3. ServiceOf[log.mech] \in Services /\ mechs[ServiceOf[log.mech]] # NoRow
      BY <3>1, <3>2, MarketplaceAssumption DEF Known, Linked
    <3> QED BY <3>1, <3>2, <3>3
  <2> QED BY <1>1, <2>1, MechFields, MechStill
<1>4. CASE log.op = "transfer" /\ ServiceTransfer(log.service, log.account) /\ mechs' # mechs
  <2>1. PICK s \in Services, a \in Accounts :
          mechs[s] # NoRow /\ mechs' = [mechs EXCEPT ![s] = [mechs[s] EXCEPT !.owner = a]]
    BY <1>4, LogTyped DEF ServiceTransfer
  <2> QED BY <1>1, <2>1, MechFields, MechStill
<1>5. CASE log.op = "update" /\ UpdateService(log.service, log.config) /\ mechs' # mechs
  <2>1. PICK s \in Services, h \in Hashes :
          mechs[s] # NoRow /\ mechs' = [mechs EXCEPT ![s] = [mechs[s] EXCEPT !.config = h]]
    BY <1>5, LogTyped DEF UpdateService
  <2> QED BY <1>1, <2>1, MechFields, MechStill
<1>6. CASE log.op = "karma" /\ MechKarmaChanged(log.mech, log.change) /\ mechs' # mechs
  <2>1. PICK s \in Services, k \in Karma :
          mechs[s] # NoRow /\ mechs' = [mechs EXCEPT ![s] = [mechs[s] EXCEPT !.karma = @ + k]]
    BY <1>6, LogTyped, MarketplaceAssumption DEF MechKarmaChanged
  <2> QED BY <1>1, <2>1, MechFields, MechStill
<1> QED BY <1>2, <1>3, <1>4, <1>5, <1>6

\* A service's row changes with its multisigs and its configuration, and is new once.
LEMMA RegistryDeliveries ==
  ASSUME RowTypes, RowTypes', NEW log \in Log, log.op = "createService" => services[log.service] = NoRow,
         \/ log.op = "createService" /\ CreateService(log.service, log.config)
         \/ log.op = "multisig" /\ CreateMultisig(log.service, log.account)
         \/ log.op = "update" /\ UpdateService(log.service, log.config)
  PROVE  DeliveriesOf(services') = DeliveriesOf(services) + 0
<1>1. \A s \in Services : services[s] # NoRow => services[s] \in ServiceRow
  BY DEF RowTypes
<1>2. CASE services' = services
  BY <1>2, DeliveriesStay
<1>3. CASE log.op = "createService" /\ CreateService(log.service, log.config)
  <2>1. PICK s \in Services, h \in Hashes :
          services[s] = NoRow /\ services' = [services EXCEPT ![s] = NewService(h)]
    BY <1>3, LogTyped DEF CreateService
  <2>2. NewService(h) \in ServiceRow /\ NewService(h).deliveries = 0
    BY NewRowsTyped DEF NewService
  <2>3. DeliveriesMade(services)[s] = 0
    BY <2>1 DEF DeliveriesMade, RowTypes
  <2> QED BY <2>1, <2>2, <2>3, DeliveriesKept
<1>4. CASE log.op = "multisig" /\ CreateMultisig(log.service, log.account) /\ services' # services
  <2>1. PICK s \in Services, a \in Accounts :
          /\ services[s] # NoRow
          /\ services' = [services EXCEPT ![s] =
               [services[s] EXCEPT !.latest = a, !.historical = @ \cup {a}]]
    BY <1>4, LogTyped DEF CreateMultisig, WithMultisig
  <2> DEFINE row == [services[s] EXCEPT !.latest = a, !.historical = @ \cup {a}]
  <2>2. row \in ServiceRow
    BY <1>1, <2>1, ServiceRowIs
  <2>3. row.deliveries = services[s].deliveries
    BY <1>1, <2>1 DEF ServiceRow
  <2>4. DeliveriesMade(services)[s] = services[s].deliveries
    BY <2>1 DEF DeliveriesMade, RowTypes
  <2> HIDE DEF row
  <2>5. services' = [services EXCEPT ![s] = row]
    BY <2>1 DEF row
  <2> QED BY <2>2, <2>3, <2>4, <2>5, DeliveriesKept
<1>5. CASE log.op = "update" /\ UpdateService(log.service, log.config) /\ services' # services
  <2>1. PICK s \in Services, h \in Hashes :
          /\ services[s] # NoRow
          /\ services' = [services EXCEPT ![s] = [services[s] EXCEPT !.config = h]]
    BY <1>5, LogTyped DEF UpdateService
  <2>2. /\ [services[s] EXCEPT !.config = h] \in ServiceRow
        /\ [services[s] EXCEPT !.config = h].deliveries = services[s].deliveries
    BY <1>1, <2>1 DEF ServiceRow
  <2>3. DeliveriesMade(services)[s] = services[s].deliveries
    BY <2>1 DEF DeliveriesMade, RowTypes
  <2> QED BY <2>1, <2>2, <2>3, DeliveriesKept
<1> QED BY <1>2, <1>3, <1>4, <1>5

LEMMA MechRequestCounts ==
  ASSUME Typed, Typed', RowsConsistent, TotalsAddUp, RowTypes, RowTypes', status' = status,
         NEW m \in Mechs, NEW id \in Ids, NEW ipfs, m \notin Strangers => id \notin Marked(markers),
         MechRequest(m, id, ipfs)
  PROVE  /\ CountsMove(m, IF Known(m) /\ ~ tx.toMarketplace THEN {id} ELSE {}, {}, {}, 0)
         /\ BacklogsMove({}, m, {})
<1>1. /\ totals' = totals /\ ataTxs' = ataTxs /\ services' = services /\ mechs' = mechs
      /\ senders' = senders \/ senders' = [senders EXCEPT ![tx.from] = OrNew(tx.from)]
  BY DEF MechRequest, mechVars, ataVars
<1>2. Marked(markers') = Marked(markers) \cup {}
  BY MechRequestKept DEF TablesKept
<1>3. AtaMoves
  <2>1. tx.from \in Accounts /\ totals.ata \in Nat
    BY DEF Typed, TotalsRow
  <2>2. \A a \in Accounts : AtaMade(senders')[a] = AtaMade(senders)[a]
    BY <1>1, <2>1, AtaMet
  <2>3. totals'.ata = totals.ata + 0 /\ 0 \in {0, 1}
    BY <1>1, <2>1
  <2> QED BY <1>1, <2>2, <2>3, AtaStays
<1>4. totals'.deliveries = totals.deliveries + 0
  BY <1>1 DEF Typed, TotalsRow
<1>5. DeliveriesOf(services') = DeliveriesOf(services) + Cardinality({})
  BY <1>1, DeliveriesStay, FS_EmptySet
<1> QED BY <1>1, <1>2, <1>3, <1>4, <1>5, MechRequestRows, MechsSame DEF CountsMove

LEMMA RequestCounts ==
  ASSUME Typed, Typed', RowTypes, RowTypes', Linked,
         NEW m \in createMechs, NEW a \in Accounts, NEW ids \in SUBSET Ids,
         MarketplaceRequest(m, a, ids)
  PROVE  CountsMove(m, ids, ids, {}, 0) /\ BacklogsMove(ids, m, {})
<1> DEFINE n == Cardinality(ids)
           service == ServiceOfMultisig(a)
           ata == service # NoService /\ tx.id \notin ataTxs
           row == SenderAsks(OrNew(a), n, ata)
           t == IF ata THEN CountAta(totals, 1) ELSE totals
           s == ServiceOf[m]
           mechRow == [mechs[s] EXCEPT !.received = @ + n]
<1>1. /\ n \in Nat /\ service \in Services \cup {NoService} /\ ata \in BOOLEAN
      /\ m \in Mechs /\ s \in Services
  <2>1. m \in Mechs
    BY DEF Typed
  <2> QED BY <2>1, MarketplaceAssumption, FS_Subset, FS_CardinalityType, ServiceOfMultisigTyped
<1>2. /\ senders' = [senders EXCEPT ![a] = row] /\ totals' = TotalsAsked(t, n)
      /\ ataTxs' = IF ata THEN ataTxs \cup {tx.id} ELSE ataTxs
      /\ services' = IF service = NoService THEN services
                     ELSE [services EXCEPT ![service].requests = @ + n]
      /\ markers' = [r \in Ids |-> IF r \in ids THEN [marketplace |-> TRUE, payload |-> WithPayload(r)]
                                   ELSE markers[r]]
      /\ mechs' = [mechs EXCEPT ![s] = mechRow]
  BY DEF MarketplaceRequest, Received, Known
<1>3. ata => tx.id \notin ataTxs
  OBVIOUS
<1>4. service # NoService => services[service] # NoRow
  BY DEF ServiceOfMultisig, Linked
<1> HIDE DEF n, service, ata
<1>5. /\ row \in SenderRow /\ row.ata = IF ata THEN OrNew(a).ata + 1 ELSE OrNew(a).ata
  BY <1>1, OrNewIs, SenderAsksIs, SenderAta
<1>6. /\ t \in TotalsRow /\ t.deliveries = totals.deliveries
      /\ t.ata = totals.ata + (IF ata THEN 1 ELSE 0) /\ totals.deliveries \in Nat
  <2>1. totals \in TotalsRow /\ totals.ata \in Nat /\ totals.deliveries \in Nat
    BY DEF Typed, TotalsRow
  <2>2. CountAta(totals, 1) \in TotalsRow
    BY <2>1, CountAtaIs
  <2>3. /\ CountAta(totals, 1).deliveries = totals.deliveries
        /\ ata => CountAta(totals, 1).ata = totals.ata + 1
    BY <1>1, <1>3, <2>1, TotalsCount
  <2> QED BY <2>1, <2>2, <2>3
<1> HIDE DEF row, t
<1>7. totals'.deliveries = totals.deliveries + 0 /\ totals'.ata = totals.ata + (IF ata THEN 1 ELSE 0)
  BY <1>1, <1>2, <1>6, TotalsCount
<1>8. AtaMoves
  BY <1>1, <1>2, <1>3, <1>5, <1>7, AtaAsked
<1>9. DeliveriesOf(services') = DeliveriesOf(services) + 0
  <2>1. CASE service = NoService
    BY <1>2, <2>1, DeliveriesStay
  <2>2. CASE service # NoService
    <3> DEFINE new == [services[service] EXCEPT !.requests = @ + n]
    <3>1. services[service] \in ServiceRow /\ service \in Services
      BY <1>1, <1>4, <2>2 DEF RowTypes
    <3>2. new \in ServiceRow /\ new.deliveries = services[service].deliveries
      BY <1>1, <3>1 DEF ServiceRow
    <3>3. services' = [services EXCEPT ![service] = new]
      BY <1>2, <2>2
    <3>4. DeliveriesMade(services)[service] = services[service].deliveries
      BY <1>4, <2>2, <3>1 DEF DeliveriesMade, RowTypes
    <3> HIDE DEF new
    <3> QED BY <3>1, <3>2, <3>3, <3>4, DeliveriesKept
  <2> QED BY <2>1, <2>2
<1>10. Marked(markers') = Marked(markers) \cup ids
  <2>1. \A r \in ids : [marketplace |-> TRUE, payload |-> WithPayload(r)] # NoRow
    <3>1. \A r \in ids : WithPayload(r) \in BOOLEAN
      BY DEF WithPayload, Typed, MarkerRow
    <3>2. \A p \in BOOLEAN : [marketplace |-> TRUE, payload |-> p] \in MarkerRow
      BY DEF MarkerRow
    <3> QED BY <3>1, <3>2, MarketplaceAssumption
  <2>2. \A r \in ids : markers'[r] # NoRow /\ markers'[r].marketplace
    BY <1>2, <2>1
  <2>3. \A r \in Ids \ ids : markers'[r] = markers[r]
    BY <1>2
  <2> QED BY <2>2, <2>3 DEF Marked, Typed
<1>11. BacklogsMove(ids, m, {})
  <2>1. mechs[s] # NoRow /\ mechs[s] \in MechRow
    BY <1>1 DEF Linked, RowTypes
  <2>2. /\ mechRow.received = mechs[s].received + n /\ mechRow.self = mechs[s].self
        /\ mechRow.others = mechs[s].others
    BY <1>1, <2>1 DEF MechRow
  <2> HIDE DEF mechRow
  <2>3. mechs'[s] = mechRow /\ \A q \in Services \ {s} : mechs'[q] = mechs[q]
    BY <1>1, <1>2 DEF RowTypes
  <2>4. Backlog(mechRow) = Backlog(mechs[s]) + n
    BY <1>1, <2>1, <2>2, BacklogTyped DEF Backlog
  <2>5. \A q \in Services : mechs[q] # NoRow => Backlog(mechs[q]) \in Int
    BY BacklogTyped DEF RowTypes
  <2>6. \A q : Cardinality({} \cap Of(q)) = 0
    <3>1. Cardinality({}) = 0
      BY FS_EmptySet
    <3>2. \A q : {} \cap Of(q) = {}
      OBVIOUS
    <3> QED BY <3>1, <3>2
  <2>7. ASSUME NEW q \in Services, mechs'[q] # NoRow
        PROVE  /\ mechs[q] # NoRow
               /\ Backlog(mechs'[q]) =
                    Backlog(mechs[q]) + (IF s = q THEN n ELSE 0) - Cardinality({} \cap Of(q))
    <3>1. CASE q = s
      BY <1>1, <2>1, <2>3, <2>4, <2>5, <2>6, <3>1
    <3>2. CASE q # s
      BY <1>1, <2>3, <2>5, <2>6, <2>7, <3>2
    <3> QED BY <3>1, <3>2
  <2> QED BY <2>7 DEF BacklogsMove, n
<1>12. DeliveriesOf(services') = DeliveriesOf(services) + Cardinality({})
  BY <1>9, FS_EmptySet
<1> QED BY <1>1, <1>7, <1>8, <1>10, <1>11, <1>12, RequestRows DEF CountsMove

\* A set and one that is part of it.
LEMMA Parted ==
  ASSUME NEW S, NEW T, IsFiniteSet(S), T \subseteq S
  PROVE  /\ IsFiniteSet(T) /\ IsFiniteSet(S \ T)
         /\ Cardinality(S) \in Nat /\ Cardinality(T) \in Nat /\ Cardinality(S \ T) \in Nat
         /\ Cardinality(S) = Cardinality(T) + Cardinality(S \ T)
<1>1. IsFiniteSet(T) /\ IsFiniteSet(S \ T)
  BY FS_Subset
<1>2. Cardinality(S \ T) = Cardinality(S) - Cardinality(S \cap T)
  BY FS_Difference
<1>3. Cardinality(S \cap T) = Cardinality(T)
  <2>1. S \cap T = T
    OBVIOUS
  <2> QED BY <2>1, Zenon
<1>4. Cardinality(S) \in Nat /\ Cardinality(T) \in Nat /\ Cardinality(S \ T) \in Nat
  BY <1>1, FS_CardinalityType
<1> QED BY <1>1, <1>2, <1>3, <1>4

\* The requests delivered are counted for the services of their mechs.
LEMMA CountedBacklogs ==
  ASSUME OnlyAsked, NEW t \in [Services -> {NoRow} \cup MechRow], NEW ids \in SUBSET Ids, NEW mech,
         \A r \in ids : requests[r] # NoRow
  PROVE  LET u == Counted(t, ids, mech) IN
         \A s \in Services :
           /\ u[s] # NoRow => t[s] # NoRow
           /\ t[s] # NoRow => u[s] # NoRow /\ u[s] \in MechRow
                              /\ Backlog(u[s]) = Backlog(t[s]) - Cardinality(ids \cap Of(s))
<1> DEFINE of(s) == {r \in ids : Known(requests[r].priority) /\ ServiceOf[requests[r].priority] = s}
           own(s) == {r \in of(s) : requests[r].priority = mech}
           row(s) == [t[s] EXCEPT !.self = @ + Cardinality(own(s)),
                                  !.others = @ + Cardinality(of(s) \ own(s))]
           u == [s \in Services |-> IF t[s] = NoRow THEN NoRow ELSE row(s)]
<1>1. u = Counted(t, ids, mech)
  BY DEF Counted
<1>2. ASSUME NEW s \in Services, t[s] # NoRow
      PROVE  row(s) \in MechRow /\ Backlog(row(s)) = Backlog(t[s]) - Cardinality(ids \cap Of(s))
  <2>1. of(s) = ids \cap Of(s)
    BY DEF OnlyAsked, Known, Of
  <2>2. IsFiniteSet(own(s)) /\ IsFiniteSet(of(s) \ own(s)) /\ IsFiniteSet(of(s))
    BY MarketplaceAssumption, FS_Subset
  <2>3. Cardinality(of(s)) = Cardinality(own(s)) + Cardinality(of(s) \ own(s))
    <3>1. own(s) \subseteq of(s)
      OBVIOUS
    <3> HIDE DEF of, own
    <3> QED BY <2>2, <3>1, Parted
  <2>4. Cardinality(own(s)) \in Nat /\ Cardinality(of(s) \ own(s)) \in Nat
    BY <2>2, FS_CardinalityType
  <2> HIDE DEF of, own
  <2>5. t[s] \in MechRow
    BY <1>2
  <2>6. PICK n \in Nat, m \in Nat : n = Cardinality(own(s)) /\ m = Cardinality(of(s) \ own(s))
    BY <2>4
  <2>7. PICK a : a = [t[s] EXCEPT !.self = t[s].self + n]
    OBVIOUS
  <2>8. /\ a \in MechRow /\ a.received = t[s].received /\ a.self = t[s].self + n
        /\ a.others = t[s].others
    BY <2>5, <2>7 DEF MechRow
  <2>9. PICK b : b = [a EXCEPT !.others = t[s].others + m]
    OBVIOUS
  <2>10. /\ b \in MechRow /\ b.received = t[s].received /\ b.self = t[s].self + n
         /\ b.others = t[s].others + m
    BY <2>5, <2>8, <2>9 DEF MechRow
  <2>11. row(s) = b
    BY <2>6, <2>7, <2>9, Zenon
  <2>12. Backlog(b) = Backlog(t[s]) - (n + m)
    BY <2>5, <2>10, BacklogTyped DEF Backlog
  <2> HIDE DEF row
  <2> QED BY <2>1, <2>3, <2>6, <2>10, <2>11, <2>12
<1> HIDE DEF row
<1>3. \A s \in Services : /\ u[s] # NoRow => t[s] # NoRow
                          /\ t[s] # NoRow => u[s] = row(s) /\ u[s] # NoRow
  BY <1>2, MarketplaceAssumption
<1> HIDE DEF u
<1>4. \A s \in Services : t[s] # NoRow => /\ u[s] \in MechRow
                                          /\ Backlog(u[s]) = Backlog(t[s]) - Cardinality(ids \cap Of(s))
  BY <1>2, <1>3
<1> QED BY <1>1, <1>3, <1>4

LEMMA DeliveryCounts ==
  ASSUME Typed, Typed', RowTypes, RowTypes', Linked, OnlyAsked, NEW m \in createMechs,
         NEW ids \in SUBSET Ids, NEW won, MarketplaceDelivery(m, ids, won)
  PROVE  LET done == Undelivered(ids, won) IN
         CountsMove(m, {}, {}, done, Cardinality(done)) /\ BacklogsMove({}, m, done)
<1> DEFINE done == Undelivered(ids, won)
           n == Cardinality(done)
           s == ServiceOf[m]
           counted == Counted(mechs, done, m)
           row == [counted[s] EXCEPT !.deliveries = @ + n]
           t == CountAta(totals, 1)
<1>1. /\ done \in SUBSET Ids /\ n \in Nat /\ s \in Services /\ \A r \in done : requests[r] # NoRow
  <2>1. done \in SUBSET Ids /\ \A r \in done : requests[r] # NoRow
    BY DEF Undelivered
  <2> QED BY <2>1, MarketplaceAssumption, FS_Subset, FS_CardinalityType DEF Typed
<1>2. /\ mechs' = [counted EXCEPT ![s] = row]
      /\ services' = DeliveredBy(s, n)
      /\ senders' = senders /\ markers' = markers
      /\ totals' = [t EXCEPT !.deliveries = @ + n, !.transactions = @ + 1]
      /\ ataTxs' = ataTxs \cup {tx.id}
  BY DEF MarketplaceDelivery, Known
<1>3. RowsMove({}, m, done)
  BY DeliveryRows
<1> HIDE DEF done, n
<1>4. t \in TotalsRow /\ t.deliveries = totals.deliveries
  <2>1. totals \in TotalsRow
    BY DEF Typed
  <2> QED BY <2>1, CountAtaIs, TotalsCount
<1> HIDE DEF t
<1>5. totals'.deliveries = totals.deliveries + n /\ totals'.ata = t.ata
  BY <1>1, <1>2, <1>4 DEF TotalsRow
<1>6. AtaMoves
  <2>1. \A a \in Accounts : AtaMade(senders')[a] = AtaMade(senders)[a]
    BY <1>2
  <2>2. totals'.ata = CountAta(totals, 1).ata
    BY <1>5 DEF t
  <2> QED BY <1>2, <2>1, <2>2, AtaFirst
<1>7. DeliveriesOf(services') = DeliveriesOf(services) + n
  <2>1. services[s] # NoRow
    BY DEF Linked
  <2> QED BY <1>1, <1>2, <2>1, ServiceDelivers
<1>8. BacklogsMove({}, m, done)
  <2>1. \A q \in Services :
          /\ counted[q] # NoRow => mechs[q] # NoRow
          /\ mechs[q] # NoRow =>
               /\ counted[q] # NoRow /\ counted[q] \in MechRow
               /\ Backlog(counted[q]) = Backlog(mechs[q]) - Cardinality(done \cap Of(q))
    BY <1>1, CountedBacklogs DEF RowTypes
  <2>2. DOMAIN counted = Services
    BY DEF Counted
  <2> HIDE DEF counted
  <2>3. mechs[s] # NoRow
    BY DEF Linked
  <2>4. counted[s] \in MechRow
    BY <1>1, <2>1, <2>3
  <2>5. Backlog(row) = Backlog(counted[s])
    BY <1>1, <2>4 DEF Backlog, MechRow
  <2> HIDE DEF row
  <2>6. mechs'[s] = row /\ \A q \in Services \ {s} : mechs'[q] = counted[q]
    BY <1>1, <1>2, <2>2
  <2>7. Cardinality({}) = 0 /\ \A q \in Services : mechs[q] # NoRow => Backlog(mechs[q]) \in Int
    BY BacklogTyped, FS_EmptySet DEF RowTypes
  <2>8. ASSUME NEW q \in Services, mechs'[q] # NoRow
        PROVE  /\ mechs[q] # NoRow
               /\ Backlog(mechs'[q]) =
                    Backlog(mechs[q]) + (IF s = q THEN Cardinality({}) ELSE 0)
                      - Cardinality(done \cap Of(q))
    <3>1. mechs[q] # NoRow
      BY <2>1, <2>3, <2>6, <2>8
    <3>2. Backlog(mechs'[q]) = Backlog(mechs[q]) - Cardinality(done \cap Of(q))
      BY <2>1, <2>5, <2>6, <3>1
    <3>3. (IF s = q THEN Cardinality({}) ELSE 0) = 0 /\ Backlog(mechs[q]) \in Int
      BY <2>7, <3>1
    <3>4. Cardinality(done \cap Of(q)) \in Nat
      BY <1>1, MarketplaceAssumption, FS_Subset, FS_CardinalityType
    <3> QED BY <3>1, <3>2, <3>3, <3>4
  <2> QED BY <2>8 DEF BacklogsMove
<1>9. Marked(markers') = Marked(markers) \cup {}
  BY <1>2
<1>10. CountsMove(m, {}, {}, done, n)
  BY <1>3, <1>5, <1>6, <1>7, <1>9 DEF CountsMove, n
<1> QED BY <1>8, <1>10 DEF done, n

LEMMA PaidCounts ==
  ASSUME NEW t \in TotalsRow, NEW usd \in Nat
  PROVE  Paid(t, usd).deliveries = t.deliveries /\ Paid(t, usd).ata = t.ata
BY DEF Paid, TotalsRow

LEMMA MechDeliverCounts ==
  ASSUME Typed, Typed', RowTypes, RowTypes', Linked, RowsConsistent, OnlyAsked, NEW m \in Mechs,
         NEW id \in Ids, NEW rate \in Rates, NEW price \in Nat, MechDeliver(m, id, rate, price),
         tx.toMarketplace /\ Known(m) => ~ IsNewDelivery(id)
  PROVE  LET closed == IF Known(m) /\ IsNewDelivery(id) THEN {id} ELSE {} IN
         CountsMove(m, {}, {}, closed, 0) /\ BacklogsMove({}, m, closed)
<1>1. CASE ~ Known(m)
  <2>1. TablesStill /\ services' = services /\ mechs' = mechs
    BY <1>1 DEF MechDeliver, mechVars, askVars, ataVars, TablesStill
  <2> QED BY <1>1, <2>1, DeliveriesStay, StillCounted, MechsSame
<1>2. CASE Known(m)
  <2> DEFINE s == ServiceOf[m]
             first == ~ IsMarketplaceTransaction /\ IsNewDelivery(id)
             closed == IF first THEN {id} ELSE {}
             counted == IF first THEN Counted(mechs, {id}, m) ELSE mechs
             usd == FeeToUsd(rate, price)
             t == IF ~ IsMarketplaceTransaction THEN CountAta(totals, 1) ELSE totals
  <2>0. (IF Known(m) /\ IsNewDelivery(id) THEN {id} ELSE {}) = closed
    BY <1>2 DEF IsMarketplaceTransaction
  <2>1. /\ mechs' = ObservedRate(counted, m, rate)
        /\ services' = IF first THEN DeliveredBy(s, 1) ELSE services
        /\ markers' = markers
        /\ IF Charged(id) THEN senders' = PaidBy(senders, id, usd) /\ totals' = Paid(t, usd)
           ELSE totals' = t /\ senders' = senders
        /\ ataTxs' = IF ~ IsMarketplaceTransaction THEN ataTxs \cup {tx.id} ELSE ataTxs
    BY <1>2 DEF MechDeliver
  <2>2. /\ s \in Services /\ mechs[s] # NoRow /\ services[s] # NoRow /\ usd \in Nat
        /\ closed \in SUBSET Ids
        /\ \A r \in closed : requests[r] # NoRow
    BY <1>2, MarketplaceAssumption, UsdTyped DEF Known, Linked, IsNewDelivery
  <2>3. RowsMove({}, m, closed)
    BY <2>0, MechDeliverRows
  <2>4. Cardinality(closed) = IF first THEN 1 ELSE 0
    BY FS_Singleton, FS_EmptySet
  <2>5. /\ t \in TotalsRow /\ t.deliveries = totals.deliveries /\ totals.deliveries \in Nat
        /\ totals.ata \in Nat
    <3>1. totals \in TotalsRow
      BY DEF Typed
    <3>2. totals.deliveries \in Nat /\ totals.ata \in Nat
      BY <3>1 DEF TotalsRow
    <3> QED BY <3>1, <3>2, CountAtaIs, TotalsCount
  <2> HIDE DEF first, usd
  <2>6. totals'.deliveries = totals.deliveries + 0 /\ totals'.ata = t.ata
    <3> HIDE DEF t
    <3> QED BY <2>1, <2>2, <2>5, PaidCounts
  <2>7. AtaMoves
    <3>1. \A a \in Accounts : AtaMade(senders')[a] = AtaMade(senders)[a]
      BY <2>1, <2>2, AtaCharged
    <3>2. CASE ~ IsMarketplaceTransaction
      BY <2>1, <2>6, <3>1, <3>2, AtaFirst
    <3>3. CASE IsMarketplaceTransaction
      <4>1. totals'.ata = totals.ata + 0 /\ ataTxs' = ataTxs /\ 0 \in {0, 1}
        BY <2>1, <2>5, <2>6, <3>3
      <4> QED BY <3>1, <4>1, AtaStays
    <3> QED BY <3>2, <3>3
  <2>8. DeliveriesOf(services') = DeliveriesOf(services) + Cardinality(closed)
    <3>1. CASE first
      <4>1. services' = DeliveredBy(s, 1) /\ 1 \in Nat
        BY <2>1, <3>1
      <4>2. DeliveriesOf(services') = DeliveriesOf(services) + 1
        BY <2>2, <4>1, ServiceDelivers
      <4> QED BY <2>4, <3>1, <4>2
    <3>2. CASE ~ first
      <4>1. DeliveriesOf(services') = DeliveriesOf(services) + 0
        BY <2>1, <3>2, DeliveriesStay
      <4> QED BY <2>4, <3>2, <4>1
    <3> QED BY <3>1, <3>2
  <2>9. BacklogsMove({}, m, closed)
    <3>0. /\ Cardinality({}) = 0
          /\ \A q : q \in Services /\ mechs[q] # NoRow => Backlog(mechs[q]) \in Int
      BY BacklogTyped, FS_EmptySet DEF RowTypes
    <3>1. \A q \in Services :
            /\ counted[q] # NoRow => mechs[q] # NoRow
            /\ mechs[q] # NoRow =>
                 /\ counted[q] # NoRow /\ counted[q] \in MechRow
                 /\ Backlog(counted[q]) = Backlog(mechs[q]) - Cardinality(closed \cap Of(q))
      <4>1. CASE first
        <5>1. {id} = closed /\ counted = Counted(mechs, {id}, m)
          BY <4>1
        <5>2. \A r \in {id} : requests[r] # NoRow
          BY <2>2, <5>1
        <5> HIDE DEF counted, closed
        <5>3. \A q \in Services :
                /\ counted[q] # NoRow => mechs[q] # NoRow
                /\ mechs[q] # NoRow =>
                     /\ counted[q] # NoRow /\ counted[q] \in MechRow
                     /\ Backlog(counted[q]) = Backlog(mechs[q]) - Cardinality({id} \cap Of(q))
          <6>1. mechs \in [Services -> {NoRow} \cup MechRow] /\ {id} \in SUBSET Ids
            BY DEF RowTypes
          <6>2. \A q \in Services :
                  /\ Counted(mechs, {id}, m)[q] # NoRow => mechs[q] # NoRow
                  /\ mechs[q] # NoRow =>
                       /\ Counted(mechs, {id}, m)[q] # NoRow /\ Counted(mechs, {id}, m)[q] \in MechRow
                       /\ Backlog(Counted(mechs, {id}, m)[q])
                            = Backlog(mechs[q]) - Cardinality({id} \cap Of(q))
            BY <5>2, <6>1, CountedBacklogs
          <6> QED BY <5>1, <6>2, Zenon
        <5> QED BY <5>1, <5>3, Zenon
      <4>2. CASE ~ first
        <5>1. counted = mechs /\ \A q : closed \cap Of(q) = {}
          BY <4>2
        <5> HIDE DEF counted, closed
        <5>2. \A q : Cardinality(closed \cap Of(q)) = 0
          BY <3>0, <5>1
        <5>3. \A q \in Services : mechs[q] # NoRow =>
                mechs[q] \in MechRow /\ Backlog(mechs[q]) = Backlog(mechs[q]) - 0
          BY <3>0 DEF RowTypes
        <5> QED BY <5>1, <5>2, <5>3
      <4> QED BY <4>1, <4>2
    <3>2. DOMAIN counted = Services
      BY DEF Counted, RowTypes
    <3> HIDE DEF counted, closed
    <3>3. counted[s] \in MechRow
      BY <2>2, <3>1
    <3>4. \A q \in Services : (mechs'[q] # NoRow => counted[q] # NoRow)
            /\ (counted[q] # NoRow => Backlog(mechs'[q]) = Backlog(counted[q]))
      <4> DEFINE row == [counted[s] EXCEPT !.rate = rate]
      <4>1. Backlog(row) = Backlog(counted[s])
        BY <3>3 DEF Backlog, MechRow
      <4>2. mechs' = counted \/ mechs' = [counted EXCEPT ![s] = row]
        BY <2>1 DEF ObservedRate
      <4> HIDE DEF row
      <4>3. counted[s] # NoRow
        BY <2>2, <3>1
      <4> QED BY <2>2, <3>2, <4>1, <4>2, <4>3
    <3>5. ASSUME NEW q \in Services, mechs'[q] # NoRow
          PROVE  /\ mechs[q] # NoRow
                 /\ Backlog(mechs'[q]) =
                      Backlog(mechs[q]) + (IF s = q THEN Cardinality({}) ELSE 0)
                        - Cardinality(closed \cap Of(q))
      <4>1. mechs[q] # NoRow /\ counted[q] # NoRow
        BY <3>1, <3>4, <3>5
      <4>2. Backlog(mechs'[q]) = Backlog(mechs[q]) - Cardinality(closed \cap Of(q))
        BY <3>1, <3>4, <4>1
      <4>3. (IF s = q THEN Cardinality({}) ELSE 0) = 0 /\ Backlog(mechs[q]) \in Int
        BY <3>0, <4>1
      <4>4. Cardinality(closed \cap Of(q)) \in Nat
        BY <2>2, MarketplaceAssumption, FS_Subset, FS_CardinalityType
      <4> QED BY <4>1, <4>2, <4>3, <4>4
    <3> QED BY <3>5 DEF BacklogsMove
  <2>10. Marked(markers') = Marked(markers) \cup {}
    BY <2>1
  <2> HIDE DEF closed
  <2>11. CountsMove(m, {}, {}, closed, 0)
    BY <2>3, <2>6, <2>7, <2>8, <2>10 DEF CountsMove
  <2> QED BY <2>0, <2>9, <2>11
<1> QED BY <1>1, <1>2

LEMMA SignedCounts ==
  ASSUME Typed, Typed', RowTypes, RowTypes', RowsConsistent, NEW m, NEW id \in Ids,
         NEW rate \in Rates, NEW price \in Nat, SignedDeliver(id, rate, price)
  PROVE  CountsMove(m, {}, {}, {}, 0) /\ BacklogsMove({}, m, {})
<1>1. /\ IF Charged(id)
         THEN /\ senders' = PaidBy(senders, id, FeeToUsd(rate, price))
              /\ totals' = Paid(totals, FeeToUsd(rate, price))
         ELSE senders' = senders /\ totals' = totals
      /\ markers' = markers /\ ataTxs' = ataTxs /\ services' = services /\ mechs' = mechs
  BY DEF SignedDeliver, mechVars
<1>2. totals \in TotalsRow /\ totals.deliveries \in Nat /\ totals.ata \in Nat
  BY DEF Typed, TotalsRow
<1>3. totals'.deliveries = totals.deliveries + 0 /\ totals'.ata = totals.ata + 0
  BY <1>1, <1>2, UsdTyped, PaidCounts
<1>4. AtaMoves
  <2>1. \A a \in Accounts : AtaMade(senders')[a] = AtaMade(senders)[a]
    BY <1>1, UsdTyped, AtaCharged
  <2> QED BY <1>1, <1>3, <2>1, 0 \in {0, 1}, AtaStays
<1>5. DeliveriesOf(services') = DeliveriesOf(services) + Cardinality({})
  BY <1>1, DeliveriesStay, FS_EmptySet
<1>6. Marked(markers') = Marked(markers) \cup {}
  BY <1>1
<1> QED BY <1>1, <1>3, <1>4, <1>5, <1>6, SignedRows, MechsSame DEF CountsMove

LEMMA BatchCounts ==
  ASSUME Typed, Typed', RowTypes, RowTypes', Linked, NEW m \in createMechs, NEW a \in Accounts,
         NEW ids \in SUBSET Ids, DeliveryWithSignatures(m, a, ids)
  PROVE  CountsMove(m, {}, {}, {}, Cardinality(ids)) /\ BacklogsMove({}, m, {})
<1> DEFINE n == Cardinality(ids)
           ata == ServiceOfMultisig(a) # NoService /\ tx.id \notin ataTxs
           row == SenderSigned(OrNew(a), n, ata)
           t == CountAta(totals, IF ata THEN 2 ELSE 1)
           s == ServiceOf[m]
           mechRow == [mechs[s] EXCEPT !.deliveries = @ + n, !.received = @ + n, !.self = @ + n]
<1>1. n \in Nat /\ ata \in BOOLEAN /\ s \in Services
  <2>1. m \in Mechs
    BY DEF Typed
  <2> QED BY <2>1, MarketplaceAssumption, FS_Subset, FS_CardinalityType
<1>2. /\ senders' = [senders EXCEPT ![a] = row] /\ totals' = TotalsSigned(t, n)
      /\ ataTxs' = ataTxs \cup {tx.id} /\ mechs' = [mechs EXCEPT ![s] = mechRow]
      /\ services' = services /\ requests' = requests /\ markers' = markers
  BY DEF DeliveryWithSignatures, askVars, Known
<1>3. ata => tx.id \notin ataTxs
  OBVIOUS
<1> HIDE DEF n, ata
<1>4. row \in SenderRow /\ row.ata = IF ata THEN OrNew(a).ata + 1 ELSE OrNew(a).ata
  BY <1>1, OrNewIs, SenderSignedIs, SenderAta
<1>5. PICK by \in {0, 1, 2} :
        /\ t.ata = totals.ata + by
        /\ ata => by = 2
        /\ ~ ata => \/ by = 0 /\ tx.id \in ataTxs
                    \/ by = 1 /\ tx.id \notin ataTxs
  <2>1. totals \in TotalsRow /\ totals.ata \in Nat
    BY DEF Typed, TotalsRow
  <2>2. t.ata = IF tx.id \in ataTxs THEN totals.ata ELSE totals.ata + (IF ata THEN 2 ELSE 1)
    BY <2>1, TotalsCount
  <2> HIDE DEF t
  <2> QED BY <1>1, <1>3, <2>1, <2>2
<1>6. t \in TotalsRow /\ t.deliveries = totals.deliveries
  <2>1. totals \in TotalsRow /\ (IF ata THEN 2 ELSE 1) \in Nat
    BY DEF Typed
  <2> QED BY <2>1, CountAtaIs, TotalsCount
<1> HIDE DEF t, row
<1>7. totals'.deliveries = totals.deliveries + n /\ totals'.ata = totals.ata + by
  BY <1>1, <1>2, <1>5, <1>6, TotalsCount
<1>8. AtaMoves
  <2>1. ata => by \in {1, 2} /\ ataTxs' = ataTxs \cup {tx.id} /\ tx.id \notin ataTxs
    BY <1>2, <1>3, <1>5
  <2>2. ~ ata => \/ by = 0 /\ ataTxs' = ataTxs
                 \/ by = 1 /\ ataTxs' = ataTxs \cup {tx.id} /\ tx.id \notin ataTxs
    BY <1>2, <1>5
  <2> QED BY <1>1, <1>2, <1>4, <1>7, <2>1, <2>2, AtaAsked
<1>9. DeliveriesOf(services') = DeliveriesOf(services) + Cardinality({})
  BY <1>2, DeliveriesStay, FS_EmptySet
<1>10. BacklogsMove({}, m, {})
  <2>1. mechs[s] # NoRow /\ mechs[s] \in MechRow
    BY <1>1 DEF Linked, RowTypes
  <2>2. /\ mechRow.received = mechs[s].received + n /\ mechRow.self = mechs[s].self + n
        /\ mechRow.others = mechs[s].others
    BY <1>1, <2>1 DEF MechRow
  <2> HIDE DEF mechRow
  <2>3. Backlog(mechRow) = Backlog(mechs[s])
    BY <1>1, <2>1, <2>2, BacklogTyped DEF Backlog
  <2>4. mechs'[s] = mechRow /\ \A q \in Services \ {s} : mechs'[q] = mechs[q]
    BY <1>1, <1>2 DEF RowTypes
  <2>5. \A q \in Services : mechs'[q] # NoRow =>
          mechs[q] # NoRow /\ Backlog(mechs'[q]) = Backlog(mechs[q])
    BY <2>1, <2>3, <2>4
  <2> QED BY <2>5, BacklogsStay
<1>11. RowsMove({}, m, {}) /\ Marked(markers') = Marked(markers) \cup {}
  BY <1>2, RowsStay
<1> QED BY <1>7, <1>8, <1>9, <1>10, <1>11 DEF CountsMove, n

-----------------------------------------------------------------------------
(* What the first log counts. *)

MarkedBy(log) == IF log.op = "request" THEN log.ids ELSE {}
Counts(log) ==
  /\ CountsMove(log.mech, Opened(log), MarkedBy(log), Closed(log), AnswersOf(log))
  /\ log.op # "createMech" => BacklogsMove(MarkedBy(log), log.mech, Closed(log))

\* Logs that open, mark and deliver nothing.
LEMMA QuietCounts ==
  ASSUME NEW log, log.op \notin {"request", "mechRequest", "delivery", "mechDeliver", "batch"},
         CountsMove(log.mech, {}, {}, {}, 0),
         log.op # "createMech" => BacklogsMove({}, log.mech, {})
  PROVE  Counts(log)
<1>1. Opened(log) = {} /\ MarkedBy(log) = {} /\ Closed(log) = {} /\ AnswersOf(log) = 0
  BY DEF Opened, MarkedBy, Closed, AnswersOf
<1> QED BY <1>1 DEF Counts

\* The first log's mech is known if the log counts for one, and delivers what is not
\* delivered.
LEMMA FirstLog ==
  ASSUME IInv, ComposeInv, CountedInv, logs # <<>>
  PROVE  /\ logs[1].op \in {"request", "delivery", "batch"} => logs[1].mech \in createMechs
         /\ logs[1].op = "mechRequest" /\ logs[1].mech \notin Strangers =>
              logs[1].id \notin Marked(markers)
         /\ logs[1].op = "delivery" => Undelivered(logs[1].ids, logs[1].won) = logs[1].won
         /\ logs[1].op = "mechDeliver" /\ tx.toMarketplace /\ Known(logs[1].mech) =>
              ~ IsNewDelivery(logs[1].id)
<1>1. logs \in Seq(Log) /\ 1 \in DOMAIN logs
  BY DEF IInv, Typed
<1>2. DeliveryBacked(1) /\ (Listed(logs[1]) => logs[1].mech \in createMechs)
  BY <1>1 DEF CountedInv, LogsCounted
<1>3. logs[1].op \in {"request", "delivery", "batch"} => logs[1].mech \in createMechs
  BY <1>2 DEF Listed
<1>4. logs[1].op = "mechRequest" /\ logs[1].mech \notin Strangers => logs[1].id \notin Marked(markers)
  BY <1>1 DEF IInv, LogsFresh
<1>5. logs[1].op = "delivery" => Undelivered(logs[1].ids, logs[1].won) = logs[1].won
  BY <1>2 DEF DeliveryBacked, Undelivered, Undone
<1>6. ASSUME logs[1].op = "mechDeliver", tx.toMarketplace, Known(logs[1].mech),
             NEW r, r = logs[1].id
      PROVE  ~ IsNewDelivery(r)
  <2>1. logs[1].mech \notin Strangers
    BY <1>6 DEF Known, IInv, Typed
  <2>2. Done(r) \/ \E j \in DOMAIN logs : WonBy(logs[j], r)
    BY <1>2, <1>6, <2>1 DEF DeliveryBacked
  <2>3. \A j \in DOMAIN logs : logs[j].op # "delivery"
    <3>1. \A j \in DOMAIN logs : logs[j].op = "delivery" => j = 1
      BY DEF CountedInv, LogsCounted, DeliveryBacked
    <3> QED BY <1>6, <3>1
  <2> QED BY <2>2, <2>3 DEF WonBy, Done, IsNewDelivery
<1> QED BY <1>3, <1>4, <1>5, <1>6

LEMMA RegistryCounts ==
  ASSUME Typed, Typed', RowTypes, RowTypes', Linked, NEW log \in Log, NEW mech,
         log.op = "createService" => services[log.service] = NoRow,
         \/ log.op = "factory" /\ FactoryCreate(log.mech, log.rate)
         \/ log.op = "createMech" /\ CreateMech(log.mech)
         \/ log.op = "rate" /\ MaxDeliveryRateUpdated(log.mech, log.rate)
         \/ log.op = "createService" /\ CreateService(log.service, log.config)
         \/ log.op = "multisig" /\ CreateMultisig(log.service, log.account)
         \/ log.op = "register" /\ RegisterInstance(log.service, log.agent)
         \/ log.op = "terminate" /\ TerminateService(log.service)
         \/ log.op = "transfer" /\ ServiceTransfer(log.service, log.account)
         \/ log.op = "update" /\ UpdateService(log.service, log.config)
         \/ log.op = "metadata" /\ ComplementaryMetadataUpdated(log.service, log.hash)
         \/ log.op = "karma" /\ MechKarmaChanged(log.mech, log.change)
  PROVE  /\ CountsMove(mech, {}, {}, {}, 0)
         /\ log.op # "createMech" => BacklogsMove({}, mech, {})
<1>1. TablesStill
  BY DEF TablesStill, FactoryCreate, CreateMech, MaxDeliveryRateUpdated, CreateService,
     CreateMultisig, RegisterInstance, TerminateService, ServiceTransfer, UpdateService,
     ComplementaryMetadataUpdated, MechKarmaChanged, askVars, ataVars
<1>2. log.op \notin {"createService", "multisig", "update"} => services' = services
  BY DEF FactoryCreate, CreateMech, MaxDeliveryRateUpdated, RegisterInstance, TerminateService,
     ServiceTransfer, ComplementaryMetadataUpdated, MechKarmaChanged
<1>3. log.op \notin {"createMech", "rate", "transfer", "update", "karma"} => mechs' = mechs
  BY DEF FactoryCreate, CreateService, CreateMultisig, RegisterInstance, TerminateService,
     ComplementaryMetadataUpdated, mechVars
<1>4. DeliveriesOf(services') = DeliveriesOf(services) + 0
  <2>1. CASE log.op \notin {"createService", "multisig", "update"}
    BY <1>2, <2>1, DeliveriesStay
  <2>2. CASE log.op \in {"createService", "multisig", "update"}
    BY <2>2, RegistryDeliveries
  <2> QED BY <2>1, <2>2
<1>5. log.op # "createMech" => BacklogsMove({}, mech, {})
  <2>1. CASE log.op \notin {"createMech", "rate", "transfer", "update", "karma"}
    BY <1>3, <2>1, MechsSame
  <2>2. CASE log.op \in {"rate", "transfer", "update", "karma"}
    BY <2>2, RegistryBacklogs
  <2> QED BY <2>1, <2>2
<1> QED BY <1>1, <1>4, <1>5, StillCounted

LEMMA HandleCounts ==
  ASSUME IInv, IInv', ComposeInv, ComposeInv', NewServicesOnly, CountedInv,
         NEW price \in Nat, HandleAt(price), NEW log, log = logs[1]
  PROVE  Counts(log)
<1>1. /\ Dispatch(log, price) /\ 1 \in DOMAIN logs /\ log \in Log /\ status' = status
      /\ logs # <<>>
  BY NextLog DEF HandleAt, IInv, Typed, chainVars
<1>2. /\ Typed /\ Typed' /\ RowTypes /\ RowTypes' /\ Linked /\ RowsConsistent /\ OnlyAsked
      /\ TotalsAddUp
  BY DEF IInv, ComposeInv, CountedInv
<1>3. /\ log.op \in {"request", "delivery", "batch"} => log.mech \in createMechs
      /\ log.op = "mechRequest" /\ log.mech \notin Strangers => log.id \notin Marked(markers)
      /\ log.op = "delivery" => Undelivered(log.ids, log.won) = log.won
      /\ log.op = "mechDeliver" /\ tx.toMarketplace /\ Known(log.mech) => ~ IsNewDelivery(log.id)
  BY <1>1, FirstLog
<1>4. log.op = "createService" => services[log.service] = NoRow
  BY <1>1 DEF NewServicesOnly
<1> DEFINE registry ==
             \/ log.op = "factory" /\ FactoryCreate(log.mech, log.rate)
             \/ log.op = "createMech" /\ CreateMech(log.mech)
             \/ log.op = "rate" /\ MaxDeliveryRateUpdated(log.mech, log.rate)
             \/ log.op = "createService" /\ CreateService(log.service, log.config)
             \/ log.op = "multisig" /\ CreateMultisig(log.service, log.account)
             \/ log.op = "register" /\ RegisterInstance(log.service, log.agent)
             \/ log.op = "terminate" /\ TerminateService(log.service)
             \/ log.op = "transfer" /\ ServiceTransfer(log.service, log.account)
             \/ log.op = "update" /\ UpdateService(log.service, log.config)
             \/ log.op = "metadata" /\ ComplementaryMetadataUpdated(log.service, log.hash)
             \/ log.op = "karma" /\ MechKarmaChanged(log.mech, log.change)
<1>5. CASE registry
  <2>1. /\ CountsMove(log.mech, {}, {}, {}, 0)
        /\ log.op # "createMech" => BacklogsMove({}, log.mech, {})
    BY <1>1, <1>2, <1>4, <1>5, RegistryCounts
  <2>2. log.op \notin {"request", "mechRequest", "delivery", "mechDeliver", "batch"}
    BY <1>5
  <2> QED BY <2>1, <2>2, QuietCounts
<1>6. CASE log.op = "mechRequest" /\ MechRequest(log.mech, log.id, log.ipfs)
  <2>1. log.mech \in Mechs /\ log.id \in Ids
    BY <1>1, <1>6, LogTyped
  <2>2. /\ CountsMove(log.mech, IF Known(log.mech) /\ ~ tx.toMarketplace THEN {log.id} ELSE {},
                      {}, {}, 0)
        /\ BacklogsMove({}, log.mech, {})
    BY <1>1, <1>2, <1>3, <1>6, <2>1, MechRequestCounts
  <2>3. /\ Opened(log) = IF Known(log.mech) /\ ~ tx.toMarketplace THEN {log.id} ELSE {}
        /\ MarkedBy(log) = {} /\ Closed(log) = {} /\ AnswersOf(log) = 0
    BY <1>6 DEF Opened, MarkedBy, Closed, AnswersOf
  <2> QED BY <2>2, <2>3 DEF Counts
<1>7. CASE log.op = "request" /\ MarketplaceRequest(log.mech, log.requester, log.ids)
  <2>1. log.requester \in Accounts /\ log.ids \in SUBSET Ids
    BY <1>1, <1>7, LogTyped
  <2>2. CountsMove(log.mech, log.ids, log.ids, {}, 0) /\ BacklogsMove(log.ids, log.mech, {})
    BY <1>2, <1>3, <1>7, <2>1, RequestCounts
  <2>3. /\ Opened(log) = log.ids /\ MarkedBy(log) = log.ids /\ Closed(log) = {}
        /\ AnswersOf(log) = 0
    BY <1>7 DEF Opened, MarkedBy, Closed, AnswersOf
  <2> QED BY <2>2, <2>3 DEF Counts
<1>8. CASE log.op = "delivery" /\ MarketplaceDelivery(log.mech, log.ids, log.won)
  <2>1. log.ids \in SUBSET Ids
    BY <1>1, <1>8, LogTyped
  <2>2. /\ CountsMove(log.mech, {}, {}, log.won, Cardinality(log.won))
        /\ BacklogsMove({}, log.mech, log.won)
    BY <1>2, <1>3, <1>8, <2>1, DeliveryCounts
  <2>3. /\ Opened(log) = {} /\ MarkedBy(log) = {} /\ Closed(log) = log.won
        /\ AnswersOf(log) = Cardinality(log.won)
    BY <1>3, <1>8 DEF Opened, MarkedBy, Closed, AnswersOf
  <2> QED BY <2>2, <2>3 DEF Counts
<1>9. CASE log.op = "mechDeliver" /\ MechDeliver(log.mech, log.id, log.rate, price)
  <2>1. log.mech \in Mechs /\ log.id \in Ids /\ log.rate \in Rates
    BY <1>1, <1>9, LogTyped
  <2>2. LET closed == IF Known(log.mech) /\ IsNewDelivery(log.id) THEN {log.id} ELSE {} IN
        CountsMove(log.mech, {}, {}, closed, 0) /\ BacklogsMove({}, log.mech, closed)
    BY <1>2, <1>3, <1>9, <2>1, MechDeliverCounts
  <2>3. /\ Closed(log) = IF Known(log.mech) /\ IsNewDelivery(log.id) THEN {log.id} ELSE {}
        /\ Opened(log) = {} /\ MarkedBy(log) = {} /\ AnswersOf(log) = 0
    BY <1>9 DEF Opened, MarkedBy, Closed, AnswersOf
  <2> QED BY <2>2, <2>3 DEF Counts
<1>10. CASE log.op = "signed" /\ SignedDeliver(log.id, log.rate, price)
  <2>1. log.id \in Ids /\ log.rate \in Rates
    BY <1>1, <1>10, LogTyped
  <2>2. CountsMove(log.mech, {}, {}, {}, 0) /\ BacklogsMove({}, log.mech, {})
    BY <1>2, <1>10, <2>1, SignedCounts
  <2> QED BY <1>10, <2>2, QuietCounts
<1>11. CASE log.op = "batch" /\ DeliveryWithSignatures(log.mech, log.requester, log.ids)
  <2>1. log.requester \in Accounts /\ log.ids \in SUBSET Ids
    BY <1>1, <1>11, LogTyped
  <2>2. /\ CountsMove(log.mech, {}, {}, {}, Cardinality(log.ids))
        /\ BacklogsMove({}, log.mech, {})
    BY <1>2, <1>3, <1>11, <2>1, BatchCounts
  <2>3. /\ Opened(log) = {} /\ MarkedBy(log) = {} /\ Closed(log) = {}
        /\ AnswersOf(log) = Cardinality(log.ids)
    BY <1>11 DEF Opened, MarkedBy, Closed, AnswersOf
  <2> QED BY <2>2, <2>3 DEF Counts
<1> QED BY <1>1, <1>5, <1>6, <1>7, <1>8, <1>9, <1>10, <1>11 DEF Dispatch

-----------------------------------------------------------------------------
(* Handling a log keeps what is counted. *)

\* A log opens what is neither delivered nor marked, marks no more than that, and
\* delivers what is not delivered nor asked for.
Moves(log) ==
  /\ Opened(log) \subseteq Ids /\ Closed(log) \subseteq Ids
  /\ MarkedBy(log) \subseteq Opened(log)
  /\ Opened(log) = {} \/ Closed(log) = {}
  /\ \A r \in Opened(log) :
       ~ Done(r) /\ r \notin Marked(markers) /\ status[r] # "none" /\ log.mech \in createMechs
  /\ \A r \in Closed(log) : Undone(r) /\ status[r] # "asked"
  /\ log.op = "createMech" => Opened(log) = {} /\ Closed(log) = {}

LEMMA FirstMoves ==
  ASSUME IInv, CountedInv, logs # <<>>, NEW log, log = logs[1]
  PROVE  Moves(log)
<1>1. logs \in Seq(Log) /\ 1 \in DOMAIN logs /\ log \in Log /\ createMechs \cap Strangers = {}
  BY DEF IInv, Typed
<1>2. DeliveryBacked(1) /\ AskBacked(1) /\ (Listed(log) => log.mech \in createMechs)
  BY <1>1 DEF CountedInv, LogsCounted
<1>3. /\ log.op = "request" => \A r \in log.ids : r \notin Marked(markers)
      /\ log.op = "mechRequest" /\ log.mech \notin Strangers =>
           \A r \in {log.id} : r \notin Marked(markers)
  BY <1>1 DEF IInv, LogsFresh
<1>4. /\ log.op = "request" => log.ids \subseteq Ids
      /\ log.op \in {"mechRequest", "mechDeliver"} => log.id \in Ids
      /\ log.op = "delivery" => log.ids \subseteq Ids
  BY <1>1, LogTyped
<1>5. CASE log.op \in {"request", "mechRequest"}
  <2>1. /\ Closed(log) = {} /\ Opened(log) \subseteq Ids /\ MarkedBy(log) \subseteq Opened(log)
        /\ \A r \in Opened(log) : AsksFor(log, r) /\ log.mech \in createMechs
                                  /\ r \notin Marked(markers)
    BY <1>1, <1>2, <1>3, <1>4, <1>5 DEF Closed, Opened, MarkedBy, AsksFor, Known, Listed
  <2> QED BY <1>2, <1>5, <2>1 DEF Moves, AskBacked
<1>6. CASE log.op \in {"delivery", "mechDeliver"}
  <2>1. Opened(log) = {} /\ MarkedBy(log) = {}
    BY <1>6 DEF Opened, MarkedBy
  <2>2. \A r \in Closed(log) : Undone(r) /\ status[r] # "asked"
    <3>1. CASE log.op = "delivery"
      BY <1>2, <3>1 DEF Closed, Undelivered, DeliveryBacked
    <3>2. CASE log.op = "mechDeliver"
      BY <1>1, <1>2, <3>2 DEF Closed, DeliveryBacked, IsNewDelivery, Known, Undone
    <3> QED BY <1>6, <3>1, <3>2
  <2>3. Closed(log) \subseteq Ids
    BY <1>4, <1>6 DEF Closed, Undelivered
  <2> QED BY <1>6, <2>1, <2>2, <2>3 DEF Moves
<1>7. CASE log.op \notin {"request", "mechRequest", "delivery", "mechDeliver"}
  BY <1>7 DEF Moves, Opened, MarkedBy, Closed
<1> QED BY <1>5, <1>6, <1>7

LEMMA HandleAnswers ==
  ASSUME IInv, DeliveriesComing, logs # <<>>, logs' = Tail(logs), answered' = answered,
         Counts(logs[1])
  PROVE  DeliveriesComing'
<1>1. /\ logs \in Seq(Log) /\ 1 \in DOMAIN logs /\ totals.deliveries \in Nat
      /\ \A k \in DOMAIN logs' : k + 1 \in DOMAIN logs /\ logs'[k] = logs[k + 1]
                                 /\ k \in Nat /\ k > 0
      /\ \A k \in DOMAIN logs : k # 1 => k - 1 \in DOMAIN logs' /\ logs'[k - 1] = logs[k]
  <2>1. logs \in Seq(Log) /\ totals.deliveries \in Nat
    BY DEF IInv, Typed, TotalsRow
  <2> QED BY <2>1, NextLog, LogsLeft
<1>2. totals'.deliveries = totals.deliveries + AnswersOf(logs[1])
  BY DEF Counts, CountsMove
<1>3. ASSUME NEW j \in DOMAIN logs', NEW k \in DOMAIN logs', Answers(logs'[j]), Answers(logs'[k])
      PROVE  j = k
  <2>1. j + 1 = k + 1
    BY <1>1, <1>3 DEF DeliveriesComing
  <2> QED BY <1>1, <2>1
<1>4. CASE Answers(logs[1])
  <2>1. \A k \in DOMAIN logs' : ~ Answers(logs'[k])
    <3> SUFFICES ASSUME NEW k \in DOMAIN logs', Answers(logs'[k]) PROVE FALSE
      OBVIOUS
    <3>1. k + 1 = 1
      BY <1>1, <1>4 DEF DeliveriesComing
    <3> QED BY <1>1, <3>1
  <2>2. totals'.deliveries = answered'
    BY <1>1, <1>2, <1>4 DEF DeliveriesComing
  <2> QED BY <1>3, <2>1, <2>2 DEF DeliveriesComing
<1>5. CASE ~ Answers(logs[1])
  <2>1. totals'.deliveries = totals.deliveries
    BY <1>1, <1>2, <1>5 DEF Answers, AnswersOf
  <2>2. ASSUME \A k \in DOMAIN logs' : ~ Answers(logs'[k])
        PROVE  totals'.deliveries = answered'
    <3>1. \A k \in DOMAIN logs : ~ Answers(logs[k])
      BY <1>1, <1>5, <2>2
    <3> QED BY <2>1, <3>1 DEF DeliveriesComing
  <2>3. ASSUME NEW k \in DOMAIN logs', Answers(logs'[k])
        PROVE  totals'.deliveries + AnswersOf(logs'[k]) = answered'
    BY <1>1, <2>1, <2>3 DEF DeliveriesComing
  <2> QED BY <1>3, <2>2, <2>3 DEF DeliveriesComing
<1> QED BY <1>4, <1>5

LEMMA HandleKeepsRows ==
  ASSUME AskedHaveRows, OnlyAsked, DOMAIN requests = Ids, NEW log, log = logs[1], Moves(log),
         RowsMove(Opened(log), log.mech, Closed(log)),
         status' = status, createMechs \subseteq createMechs',
         \A r : AskedByLog(r) => AskedByLog(r)' \/ (log.op = "request" /\ r \in log.ids)
  PROVE  AskedHaveRows' /\ OnlyAsked'
<1>1. ASSUME NEW r \in Ids, status[r] = "asked"
      PROVE  Undone(r)' \/ AskedByLog(r)'
  <2>1. CASE r \in Opened(log)
    BY <2>1 DEF RowsMove
  <2>2. CASE r \notin Opened(log) /\ Undone(r)
    <3>1. r \notin Closed(log)
      BY <1>1 DEF Moves
    <3> QED BY <2>2, <3>1 DEF RowsMove, Undone
  <2>3. CASE r \notin Opened(log) /\ AskedByLog(r)
    BY <2>3 DEF Opened
  <2> QED BY <1>1, <2>1, <2>2, <2>3 DEF AskedHaveRows
<1>2. ASSUME NEW r \in Ids, requests'[r] # NoRow
      PROVE  status[r] # "none" /\ requests'[r].priority \in createMechs'
  <2>1. CASE r \in Opened(log)
    BY <2>1 DEF RowsMove, Moves
  <2>2. CASE r \notin Opened(log)
    BY <1>2, <2>2 DEF RowsMove, OnlyAsked
  <2> QED BY <2>1, <2>2
<1> QED BY <1>1, <1>2 DEF AskedHaveRows, OnlyAsked

LEMMA HandleKeepsLogs ==
  ASSUME IInv, LogsCounted, logs # <<>>, logs' = Tail(logs), NEW log, log = logs[1], Moves(log),
         RowsMove(Opened(log), log.mech, Closed(log)),
         status' = status, tx' = tx, createMechs \subseteq createMechs'
  PROVE  LogsCounted'
<1>1. /\ logs \in Seq(Log) /\ 1 \in DOMAIN logs
      /\ \A k \in DOMAIN logs' : k + 1 \in DOMAIN logs /\ logs'[k] = logs[k + 1]
                                 /\ k \in Nat /\ k > 0 /\ logs[k + 1] \in Log
  <2>1. logs \in Seq(Log)
    BY DEF IInv, Typed
  <2> QED BY <2>1, NextLog
<1>2. ASSUME NEW r \in Ids, Done(r) PROVE Done(r)'
  BY <1>2 DEF Moves, RowsMove, Done
<1>3. ASSUME NEW r \in Ids, r \in Closed(log) PROVE Done(r)'
  <2>1. r \notin Opened(log) /\ requests[r] # NoRow
    BY <1>3 DEF Moves, Undone
  <2> QED BY <1>3, <2>1 DEF RowsMove, Done
<1>4. ASSUME NEW r, WonBy(log, r) PROVE r \in Closed(log)
  BY <1>1, <1>4 DEF WonBy, Closed, Undelivered, LogsCounted, DeliveryBacked, Undone
<1>5. ASSUME NEW k \in DOMAIN logs'
      PROVE  DeliveryBacked(k)'
  <2>1. DeliveryBacked(k + 1) /\ logs'[k] = logs[k + 1] /\ k + 1 # 1
    BY <1>1 DEF LogsCounted
  <2>2. logs'[k].op # "delivery"
    BY <2>1 DEF DeliveryBacked
  <2>3. ASSUME logs'[k].op = "mechDeliver", logs'[k].mech \notin Strangers
        PROVE  /\ status[logs'[k].id] # "asked"
               /\ \A r \in {logs'[k].id} :
                    ~ tx.toMarketplace \/ Done(r)' \/ \E j \in DOMAIN logs' : WonBy(logs'[j], r)
    <3>1. PICK r : r = logs'[k].id
      OBVIOUS
    <3>2. r \in Ids
      BY <1>1, <2>3, <3>1, LogTyped
    <3>3. /\ status[r] # "asked"
          /\ ~ tx.toMarketplace \/ Done(r) \/ \E j \in DOMAIN logs : WonBy(logs[j], r)
      BY <2>1, <2>3, <3>1 DEF DeliveryBacked
    <3>4. ASSUME NEW j \in DOMAIN logs, WonBy(logs[j], r) PROVE Done(r)'
      <4>1. j = 1
        BY <3>4 DEF LogsCounted, DeliveryBacked, WonBy
      <4> QED BY <1>3, <1>4, <3>2, <3>4, <4>1
    <3> QED BY <1>2, <3>1, <3>2, <3>3, <3>4
  <2> QED BY <2>2, <2>3 DEF DeliveryBacked
<1>6. ASSUME NEW k \in DOMAIN logs'
      PROVE  AskBacked(k)'
  <2>1. AskBacked(k + 1) /\ logs'[k] = logs[k + 1] /\ k + 1 \in DOMAIN logs
    BY <1>1 DEF LogsCounted
  <2>2. ASSUME NEW r \in Ids, AsksFor(logs[k + 1], r)
        PROVE  ~ Done(r)' /\ status[r] # "none"
    <3>1. ~ Done(r) /\ status[r] # "none"
      BY <2>1, <2>2 DEF AskBacked
    <3>2. CASE r \in Opened(log)
      BY <3>1, <3>2 DEF RowsMove, Undone, Done
    <3>3. CASE r \notin Opened(log)
      <4>1. r \notin Closed(log)
        <5>1. Asks(logs[k + 1])
          BY <2>2 DEF AsksFor, Asks
        <5>2. ~ Delivers(log)
          BY <1>1, <2>1, <5>1 DEF LogsCounted
        <5> QED BY <5>2 DEF Delivers, Closed
      <4> QED BY <3>1, <3>3, <4>1 DEF RowsMove, Done
    <3> QED BY <3>2, <3>3
  <2>3. \A r \in Ids : AsksFor(logs'[k], r) => ~ Done(r)' /\ status'[r] # "none"
    BY <2>1, <2>2
  <2> QED BY <2>3 DEF AskBacked, AsksFor
<1>7. \A k \in DOMAIN logs' : Listed(logs'[k]) => logs'[k].mech \in createMechs'
  BY <1>1 DEF LogsCounted
<1>8. \A j, k \in DOMAIN logs' : Delivers(logs'[j]) => ~ Asks(logs'[k])
  BY <1>1 DEF LogsCounted
<1> QED BY <1>5, <1>6, <1>7, <1>8 DEF LogsCounted

\* The requests that wait for a delivery, and those of mechs that were made directly and
\* are delivered, before and after a log.
LEMMA SetsMove ==
  ASSUME DOMAIN requests = Ids, NEW log, Moves(log),
         RowsMove(Opened(log), log.mech, Closed(log)),
         Marked(markers') = Marked(markers) \cup MarkedBy(log), NEW s
  PROVE  /\ Waiting(s)' = (Waiting(s) \ Closed(log))
                            \cup (IF ServiceOf[log.mech] = s THEN MarkedBy(log) ELSE {})
         /\ DoneDirectly(s)' = DoneDirectly(s) \cup ((Closed(log) \cap Of(s)) \ Marked(markers))
<1>1. ASSUME NEW r \in Ids
      PROVE  /\ r \in Waiting(s)' <=>
                  \/ r \in Waiting(s) /\ r \notin Closed(log)
                  \/ ServiceOf[log.mech] = s /\ r \in MarkedBy(log)
             /\ r \in DoneDirectly(s)' <=>
                  \/ r \in DoneDirectly(s)
                  \/ r \in Closed(log) /\ r \in Of(s) /\ r \notin Marked(markers)
  <2>1. r \in Marked(markers') <=> r \in Marked(markers) \/ r \in MarkedBy(log)
    OBVIOUS
  <2>2. CASE r \in Opened(log)
    <3>1. /\ requests'[r] # NoRow /\ ~ Done(r)' /\ requests'[r].priority = log.mech
          /\ ~ Done(r) /\ r \notin Marked(markers) /\ r \notin Closed(log)
      BY <2>2 DEF RowsMove, Moves, Undone, Done
    <3>2. r \in Of(s)' <=> ServiceOf[log.mech] = s
      BY <3>1 DEF Of
    <3>3. r \notin Waiting(s) /\ r \notin DoneDirectly(s)
      BY <3>1 DEF Waiting, DoneDirectly
    <3> QED BY <2>1, <3>1, <3>2, <3>3 DEF Waiting, DoneDirectly
  <2>3. CASE r \notin Opened(log)
    <3>1. r \notin MarkedBy(log)
      BY <2>3 DEF Moves
    <3>2. r \in Of(s)' <=> r \in Of(s)
      BY <2>3 DEF RowsMove, Of
    <3>3. Done(r)' <=> Done(r) \/ r \in Closed(log)
      BY <2>3 DEF RowsMove, Done, Moves, Undone
    <3>4. r \in Closed(log) => ~ Done(r)
      BY DEF Moves, Undone, Done
    <3> QED BY <2>1, <3>1, <3>2, <3>3, <3>4 DEF Waiting, DoneDirectly
  <2> QED BY <2>2, <2>3
<1>2. Waiting(s) \subseteq Ids /\ Waiting(s)' \subseteq Ids /\ Closed(log) \subseteq Ids
      /\ MarkedBy(log) \subseteq Ids /\ DoneDirectly(s) \subseteq Ids /\ DoneDirectly(s)' \subseteq Ids
  BY DEF Waiting, DoneDirectly, Of, Moves
<1> QED BY <1>1, <1>2

LEMMA SetsCount ==
  ASSUME DOMAIN requests = Ids, NEW log, Moves(log),
         RowsMove(Opened(log), log.mech, Closed(log)),
         Marked(markers') = Marked(markers) \cup MarkedBy(log), NEW s
  PROVE  /\ Cardinality(Waiting(s)) \in Nat /\ Cardinality(DoneDirectly(s)) \in Nat
         /\ Cardinality(Waiting(s)') \in Nat /\ Cardinality(DoneDirectly(s)') \in Nat
         /\ Cardinality(MarkedBy(log)) \in Nat /\ Cardinality(Closed(log) \cap Of(s)) \in Nat
         /\ Cardinality(Waiting(s)') - Cardinality(DoneDirectly(s)') =
              Cardinality(Waiting(s)) - Cardinality(DoneDirectly(s))
                + (IF ServiceOf[log.mech] = s THEN Cardinality(MarkedBy(log)) ELSE 0)
                - Cardinality(Closed(log) \cap Of(s))
<1> DEFINE C == Closed(log)
           M == IF ServiceOf[log.mech] = s THEN MarkedBy(log) ELSE {}
           W == Waiting(s)
           D == DoneDirectly(s)
           direct == (C \cap Of(s)) \ Marked(markers)
<1>1. Waiting(s)' = (W \ C) \cup M /\ DoneDirectly(s)' = D \cup direct
  BY SetsMove
<1>2. /\ C \subseteq Ids /\ W \subseteq Ids /\ D \subseteq Ids /\ MarkedBy(log) \subseteq Ids
      /\ W \cap M = {} /\ D \cap direct = {} /\ (C \cap Of(s)) \cap W = W \cap C
      /\ (C \cap Of(s)) \ W = direct
  BY DEF Moves, Waiting, DoneDirectly, Undone, Done, Of
<1>3. M \subseteq Ids /\ direct \subseteq Ids /\ C \cap Of(s) \subseteq Ids
      /\ MarkedBy(log) \in SUBSET Ids
  BY <1>2
<1>4. Cardinality(M) = IF ServiceOf[log.mech] = s THEN Cardinality(MarkedBy(log)) ELSE 0
  BY FS_EmptySet
<1> HIDE DEF C, M, W, D, direct
<1>5. \A S \in SUBSET Ids : IsFiniteSet(S) /\ Cardinality(S) \in Nat
  BY MarketplaceAssumption, FS_Subset, FS_CardinalityType
<1>6. \A S, T \in SUBSET Ids : T \subseteq S => Cardinality(S) = Cardinality(T) + Cardinality(S \ T)
  BY <1>5, Parted
<1>7. Cardinality((W \ C) \cup M) = Cardinality(W \ C) + Cardinality(M)
  <2>1. ((W \ C) \cup M) \ M = W \ C /\ (W \ C) \cup M \in SUBSET Ids /\ M \subseteq (W \ C) \cup M
    BY <1>2, <1>3
  <2>2. Cardinality((W \ C) \cup M) = Cardinality(M) + Cardinality(((W \ C) \cup M) \ M)
    BY <1>3, <1>6, <2>1
  <2>3. Cardinality(((W \ C) \cup M) \ M) = Cardinality(W \ C)
    BY <2>1, Zenon
  <2>4. Cardinality(W \ C) \in Nat /\ Cardinality(M) \in Nat
    BY <1>2, <1>3, <1>5
  <2> QED BY <2>2, <2>3, <2>4
<1>8. Cardinality(D \cup direct) = Cardinality(D) + Cardinality(direct)
  <2>1. (D \cup direct) \ D = direct /\ D \cup direct \in SUBSET Ids /\ D \subseteq D \cup direct
    BY <1>2, <1>3
  <2>2. Cardinality(D \cup direct) = Cardinality(D) + Cardinality((D \cup direct) \ D)
    BY <1>2, <1>6, <2>1
  <2>3. Cardinality((D \cup direct) \ D) = Cardinality(direct)
    BY <2>1, Zenon
  <2> QED BY <2>2, <2>3
<1>9. Cardinality(W) = Cardinality(W \cap C) + Cardinality(W \ C)
  <2>1. W \ (W \cap C) = W \ C /\ W \cap C \subseteq W /\ W \cap C \in SUBSET Ids
    BY <1>2
  <2>2. Cardinality(W) = Cardinality(W \cap C) + Cardinality(W \ (W \cap C))
    BY <1>2, <1>6, <2>1
  <2>3. Cardinality(W \ (W \cap C)) = Cardinality(W \ C)
    BY <2>1, Zenon
  <2> QED BY <2>2, <2>3
<1>10. Cardinality(C \cap Of(s)) = Cardinality(W \cap C) + Cardinality(direct)
  <2>1. (C \cap Of(s)) \ (W \cap C) = direct /\ W \cap C \subseteq C \cap Of(s)
        /\ W \cap C \in SUBSET Ids
    BY <1>2
  <2>2. Cardinality(C \cap Of(s)) =
          Cardinality(W \cap C) + Cardinality((C \cap Of(s)) \ (W \cap C))
    BY <1>3, <1>6, <2>1
  <2>3. Cardinality((C \cap Of(s)) \ (W \cap C)) = Cardinality(direct)
    BY <2>1, Zenon
  <2> QED BY <2>2, <2>3
<1>11. /\ Cardinality(W) \in Nat /\ Cardinality(D) \in Nat /\ Cardinality(M) \in Nat
       /\ Cardinality(W \ C) \in Nat /\ Cardinality(W \cap C) \in Nat
       /\ Cardinality(direct) \in Nat /\ Cardinality(C \cap Of(s)) \in Nat
       /\ Cardinality(MarkedBy(log)) \in Nat
       /\ Cardinality((W \ C) \cup M) \in Nat /\ Cardinality(D \cup direct) \in Nat
  <2>1. /\ W \in SUBSET Ids /\ D \in SUBSET Ids /\ M \in SUBSET Ids /\ W \ C \in SUBSET Ids
        /\ W \cap C \in SUBSET Ids /\ direct \in SUBSET Ids /\ C \cap Of(s) \in SUBSET Ids
        /\ MarkedBy(log) \in SUBSET Ids /\ (W \ C) \cup M \in SUBSET Ids
        /\ D \cup direct \in SUBSET Ids
    BY <1>2, <1>3
  <2> QED BY <1>5, <2>1
<1>12. /\ Cardinality(Waiting(s)') = Cardinality((W \ C) \cup M)
       /\ Cardinality(DoneDirectly(s)') = Cardinality(D \cup direct)
  BY <1>1, Zenon
<1>13. Cardinality((W \ C) \cup M) - Cardinality(D \cup direct)
         = Cardinality(W) - Cardinality(D) + Cardinality(M) - Cardinality(C \cap Of(s))
  BY <1>7, <1>8, <1>9, <1>10, <1>11
<1> QED BY <1>4, <1>11, <1>12, <1>13 DEF W, D, C

\* A balance is the difference of its sides.
LEMMA BalanceIs ==
  ASSUME NEW received \in Nat, NEW self \in Nat, NEW others \in Nat, NEW w \in Nat, NEW d \in Nat
  PROVE  received + d = self + others + w <=> received - (self + others) = w - d
OBVIOUS

LEMMA HandleBalances ==
  ASSUME RowTypes, RowTypes', DOMAIN requests = Ids, NEW log, Moves(log), Counts(log),
         log.op # "createMech", minted' = minted, BacklogsBalanced
  PROVE  BacklogsBalanced'
<1> SUFFICES ASSUME NEW s \in Services, mechs'[s] # NoRow, minted[s] = 1
             PROVE  Balanced(s)'
  BY DEF BacklogsBalanced
<1> DEFINE received == IF ServiceOf[log.mech] = s THEN Cardinality(MarkedBy(log)) ELSE 0
<1>1. /\ mechs[s] # NoRow
      /\ Backlog(mechs'[s]) = Backlog(mechs[s]) + received - Cardinality(Closed(log) \cap Of(s))
  BY DEF Counts, BacklogsMove
<1>2. Balanced(s)
  BY <1>1 DEF BacklogsBalanced
<1>3. mechs[s] \in MechRow /\ mechs'[s] \in MechRow
  BY <1>1 DEF RowTypes
<1>4. /\ Cardinality(Waiting(s)) \in Nat /\ Cardinality(DoneDirectly(s)) \in Nat
      /\ Cardinality(Waiting(s)') \in Nat /\ Cardinality(DoneDirectly(s)') \in Nat
      /\ received \in Nat /\ Cardinality(Closed(log) \cap Of(s)) \in Nat
      /\ Cardinality(Waiting(s)') - Cardinality(DoneDirectly(s)') =
           Cardinality(Waiting(s)) - Cardinality(DoneDirectly(s))
             + received - Cardinality(Closed(log) \cap Of(s))
  BY SetsCount DEF Counts, CountsMove
<1> HIDE DEF received
<1>5. /\ mechs[s].received \in Nat /\ mechs[s].self \in Nat /\ mechs[s].others \in Nat
      /\ Backlog(mechs[s]) = mechs[s].received - (mechs[s].self + mechs[s].others)
      /\ mechs'[s].received \in Nat /\ mechs'[s].self \in Nat /\ mechs'[s].others \in Nat
      /\ Backlog(mechs'[s]) = mechs'[s].received - (mechs'[s].self + mechs'[s].others)
  BY <1>3, BacklogTyped DEF Backlog
<1>6. mechs[s].received + Cardinality(DoneDirectly(s))
        = mechs[s].self + mechs[s].others + Cardinality(Waiting(s))
  BY <1>2 DEF Balanced
<1>7. Backlog(mechs[s]) = Cardinality(Waiting(s)) - Cardinality(DoneDirectly(s))
  <2>1. PICK r \in Nat, f \in Nat, o \in Nat, w \in Nat, d \in Nat :
          /\ r = mechs[s].received /\ f = mechs[s].self /\ o = mechs[s].others
          /\ w = Cardinality(Waiting(s)) /\ d = Cardinality(DoneDirectly(s))
    BY <1>4, <1>5
  <2>2. r + d = f + o + w
    BY <1>6, <2>1, Zenon
  <2>3. r - (f + o) = w - d
    BY <2>2, BalanceIs
  <2> QED BY <1>5, <2>1, <2>3, Zenon
<1>8. Backlog(mechs'[s]) = Cardinality(Waiting(s)') - Cardinality(DoneDirectly(s)')
  BY <1>1, <1>4, <1>7
<1>9. mechs'[s].received + Cardinality(DoneDirectly(s)')
        = mechs'[s].self + mechs'[s].others + Cardinality(Waiting(s)')
  BY <1>4, <1>5, <1>8, BalanceIs
<1> QED BY <1>9 DEF Balanced

\* The counters of a service's first mech start from nothing.
LEMMA CreateBalances ==
  ASSUME RowTypes, RowTypes', OnlyAsked, DOMAIN requests = Ids, NEW log \in Log, Moves(log),
         Counts(log), log.op = "createMech", CreateMech(log.mech), FirstMech(log.mech),
         minted' = minted, BacklogsBalanced
  PROVE  BacklogsBalanced'
<1> SUFFICES ASSUME NEW s \in Services, mechs'[s] # NoRow, minted[s] = 1
             PROVE  Balanced(s)'
  BY DEF BacklogsBalanced
<1>1. Closed(log) = {} /\ MarkedBy(log) = {}
  BY DEF Closed, MarkedBy
<1>2. Waiting(s)' = Waiting(s) /\ DoneDirectly(s)' = DoneDirectly(s)
  <2>1. /\ Waiting(s)' = (Waiting(s) \ Closed(log))
                            \cup (IF ServiceOf[log.mech] = s THEN MarkedBy(log) ELSE {})
        /\ DoneDirectly(s)' = DoneDirectly(s) \cup ((Closed(log) \cap Of(s)) \ Marked(markers))
    BY SetsMove DEF Counts, CountsMove
  <2> QED BY <1>1, <2>1
<1>3. log.mech \in Mechs /\ ServiceOf[log.mech] \in Services
  BY LogTyped, MarketplaceAssumption
<1>4. CASE s = ServiceOf[log.mech]
  <2>1. PICK rate, config, owner : mechs'[s] = NewMech(log.mech, rate, config, owner)
    BY <1>3, <1>4 DEF CreateMech, RowTypes
  <2>2. mechs'[s].received = 0 /\ mechs'[s].self = 0 /\ mechs'[s].others = 0
    BY <2>1 DEF NewMech
  <2>3. Of(s) = {}
    BY <1>4 DEF FirstMech, OnlyAsked, Of
  <2>4. Waiting(s) = {} /\ DoneDirectly(s) = {}
    BY <2>3 DEF Waiting, DoneDirectly
  <2>5. Cardinality(Waiting(s)') = 0 /\ Cardinality(DoneDirectly(s)') = 0
    BY <1>2, <2>4, FS_EmptySet
  <2> QED BY <2>2, <2>5 DEF Balanced
<1>5. CASE s # ServiceOf[log.mech]
  <2>1. mechs'[s] = mechs[s]
    BY <1>5 DEF CreateMech, RowTypes
  <2>2. Balanced(s)
    BY <2>1 DEF BacklogsBalanced
  <2> QED BY <1>2, <2>1, <2>2 DEF Balanced
<1> QED BY <1>4, <1>5

LEMMA HandleDeliversOnce ==
  ASSUME Typed, Typed', RowTypes, RowTypes', NEW log, Moves(log), Counts(log),
         EachDeliveryCountedOnce
  PROVE  EachDeliveryCountedOnce'
<1> DEFINE C == Closed(log)
           D == DeliveredRequests(requests)
<1>1. /\ DOMAIN requests = Ids /\ DOMAIN requests' = Ids
      /\ DOMAIN services = Services /\ DOMAIN services' = Services
  BY DEF Typed, RowTypes
<1>2. C \subseteq Ids /\ D \subseteq Ids /\ C \cap D = {}
  BY <1>1 DEF Moves, DeliveredRequests, Undone
<1>3. ASSUME NEW r \in Ids
      PROVE  r \in DeliveredRequests(requests') <=> r \in D \/ r \in C
  <2>1. CASE r \in Opened(log)
    <3>1. r \notin C /\ ~ Done(r)
      BY <2>1 DEF Moves
    <3>2. Undone(r)'
      BY <2>1 DEF Counts, CountsMove, RowsMove
    <3> QED BY <1>1, <3>1, <3>2 DEF Undone, Done, DeliveredRequests
  <2>2. CASE r \notin Opened(log)
    <3>1. /\ requests'[r] # NoRow <=> requests[r] # NoRow
          /\ requests[r] # NoRow => (requests'[r].delivered <=> requests[r].delivered \/ r \in C)
      BY <2>2 DEF Counts, CountsMove, RowsMove
    <3>2. r \in C => requests[r] # NoRow
      BY DEF Moves, Undone
    <3> QED BY <1>1, <3>1, <3>2 DEF DeliveredRequests
  <2> QED BY <2>1, <2>2
<1>4. DeliveredRequests(requests') \subseteq Ids
  BY <1>1 DEF DeliveredRequests
<1> HIDE DEF C, D
<1>5. DeliveredRequests(requests') = D \cup C
  BY <1>2, <1>3, <1>4
<1>6. Cardinality(D \cup C) = Cardinality(D) + Cardinality(C)
  <2>1. IsFiniteSet(D \cup C)
    BY <1>2, MarketplaceAssumption, FS_Subset
  <2>2. Cardinality(D \cup C) = Cardinality(D) + Cardinality((D \cup C) \ D)
    BY <2>1, Parted
  <2>3. (D \cup C) \ D = C
    BY <1>2
  <2>4. Cardinality((D \cup C) \ D) = Cardinality(C)
    BY <2>3, Zenon
  <2> QED BY <2>2, <2>4
<1>7. DeliveriesOf(services') = DeliveriesOf(services) + Cardinality(C)
  BY DEF Counts, CountsMove, C
<1>8. DeliveriesOf(services) = Cardinality(D)
  BY <1>1 DEF EachDeliveryCountedOnce, DeliveriesOf, D
<1>9. DeliveriesOf(services') = Cardinality(DeliveredRequests(requests'))
  <2>1. Cardinality(DeliveredRequests(requests')) = Cardinality(D \cup C)
    BY <1>5, Zenon
  <2> QED BY <1>6, <1>7, <1>8, <2>1
<1> QED BY <1>1, <1>9 DEF EachDeliveryCountedOnce, DeliveriesOf

LEMMA HandleKeepsAta ==
  ASSUME Typed, Typed', RowTypes, AtaCounted, AtaMoves
  PROVE  AtaCounted'
<1>1. PICK x \in {0, 1}, y \in {0, 1}, t \in {0, 1, 2} :
        /\ y <= x /\ x <= t /\ t <= x + y
        /\ totals'.ata = totals.ata + t
        /\ Total(AtaMade(senders'), Accounts) = Total(AtaMade(senders), Accounts) + y
        /\ ataTxs' = (IF x = 1 THEN ataTxs \cup {tx.id} ELSE ataTxs)
        /\ x = 1 => tx.id \notin ataTxs
  BY DEF AtaMoves
<1>2. /\ IsFiniteSet(ataTxs)
      /\ Total(AtaMade(senders), Accounts) <= Cardinality(ataTxs)
      /\ Cardinality(ataTxs) <= totals.ata
      /\ totals.ata <= Cardinality(ataTxs) + Total(AtaMade(senders), Accounts)
  <2>1. DOMAIN senders = Accounts
    BY DEF Typed
  <2> QED BY <2>1 DEF AtaCounted, AtaOncePerTransaction
<1>3. IsFiniteSet(ataTxs') /\ Cardinality(ataTxs') = Cardinality(ataTxs) + x
  <2>1. CASE x = 1
    BY <1>1, <1>2, <2>1, FS_AddElement
  <2>2. CASE x = 0
    <3>1. ataTxs' = ataTxs /\ Cardinality(ataTxs) \in Nat
      BY <1>1, <1>2, <2>2, FS_CardinalityType
    <3> QED BY <1>2, <2>2, <3>1
  <2> QED BY <2>1, <2>2
<1>4. /\ Cardinality(ataTxs) \in Nat /\ totals.ata \in Nat
      /\ Total(AtaMade(senders), Accounts) \in Int
  <2>1. IsFiniteSet(Accounts) /\ \A a \in Accounts : AtaMade(senders)[a] \in Int
    BY MarketplaceAssumption DEF Typed, AtaMade, SenderRow
  <2> QED BY <1>2, <2>1, SumTyped, FS_CardinalityType DEF Typed, TotalsRow
<1>5. /\ Total(AtaMade(senders'), Accounts) <= Cardinality(ataTxs')
      /\ Cardinality(ataTxs') <= totals'.ata
      /\ totals'.ata <= Cardinality(ataTxs') + Total(AtaMade(senders'), Accounts)
  BY <1>1, <1>2, <1>3, <1>4
<1>6. DOMAIN senders' = Accounts
  BY DEF Typed
<1> QED BY <1>3, <1>5, <1>6 DEF AtaCounted, AtaOncePerTransaction

LEMMA HandleKeepsMinted ==
  ASSUME IInv, ComposeInv, MechsMinted, logs # <<>>, logs' = Tail(logs), minted' = minted,
         RatesHandled(logs[1])
  PROVE  MechsMinted'
<1>1. /\ logs \in Seq(Log) /\ 1 \in DOMAIN logs /\ Len(logs) \in Nat /\ Len(logs') = Len(logs) - 1
      /\ \A k \in DOMAIN logs' : k + 1 \in DOMAIN logs /\ logs'[k] = logs[k + 1]
  <2>1. logs \in Seq(Log)
    BY DEF IInv, Typed
  <2> QED BY <2>1, NextLog
<1>2. LogBacked(1)
  BY <1>1 DEF ComposeInv, LogsBacked
<1>3. CASE logs[1].op = "createMech"
  <2>1. DOMAIN logs' = {}
    <3>1. Len(logs') = 0 /\ logs' \in Seq(Log)
      BY <1>1, <1>2, <1>3 DEF LogBacked
    <3> QED BY <3>1
  <2>2. createMechs' = createMechs \cup {logs[1].mech} /\ FirstMech(logs[1].mech)
    BY <1>1, <1>3 DEF RatesHandled, MechsMinted
  <2> QED BY <2>1, <2>2 DEF MechsMinted, FirstMech
<1>4. CASE logs[1].op # "createMech"
  <2>1. createMechs' = createMechs
    BY <1>4 DEF RatesHandled
  <2>2. \A k \in DOMAIN logs' : logs'[k].op = "createMech" => FirstMech(logs'[k].mech)
    BY <1>1 DEF MechsMinted
  <2>3. \A k \in DOMAIN logs' : logs'[k].op = "createMech" =>
          /\ minted'[ServiceOf[logs'[k].mech]] >= 1
          /\ minted'[ServiceOf[logs'[k].mech]] = 1 =>
               \A m \in createMechs' : ServiceOf[m] # ServiceOf[logs'[k].mech]
    BY <2>1, <2>2 DEF FirstMech
  <2> QED BY <2>1, <2>3 DEF MechsMinted, FirstMech
<1> QED BY <1>3, <1>4

LEMMA HandleKeepsCounted ==
  ASSUME IInv, IInv', ComposeInv, ComposeInv', NewServicesOnly, CountedInv,
         NEW price \in Nat, HandleAt(price)
  PROVE  CountedInv'
<1>1. /\ logs \in Seq(Log) /\ logs # <<>> /\ logs' = Tail(logs) /\ createMechs \subseteq createMechs'
      /\ Head(logs) = logs[1] /\ 1 \in DOMAIN logs /\ logs[1] \in Log
      /\ status' = status /\ tx' = tx /\ RatesHandled(logs[1])
  BY Handling
<1>2. minted' = minted /\ answered' = answered /\ Dispatch(Head(logs), price)
  BY DEF HandleAt, chainVars
<1>3. PICK log : log = logs[1]
  OBVIOUS
<1>4. Moves(log) /\ Counts(log) /\ log \in Log
  BY <1>1, <1>3, FirstMoves, HandleCounts
<1>5. /\ Typed /\ Typed' /\ RowTypes /\ RowTypes' /\ DOMAIN requests = Ids
      /\ RowsMove(Opened(log), log.mech, Closed(log)) /\ AtaMoves
  BY <1>4 DEF IInv, ComposeInv, Typed, Counts, CountsMove
<1>6. \A r : AskedByLog(r) => AskedByLog(r)' \/ (log.op = "request" /\ r \in log.ids)
  BY <1>1, <1>3, StillToCome
<1>7. DeliveriesComing'
  BY <1>1, <1>2, <1>3, <1>4, HandleAnswers DEF CountedInv
<1>8. AskedHaveRows' /\ OnlyAsked'
  BY <1>1, <1>3, <1>4, <1>5, <1>6, HandleKeepsRows DEF CountedInv
<1>9. LogsCounted'
  BY <1>1, <1>3, <1>4, <1>5, HandleKeepsLogs DEF CountedInv
<1>10. MechsMinted'
  BY <1>1, <1>2, HandleKeepsMinted DEF CountedInv
<1>11. BacklogsBalanced'
  <2>1. CASE log.op # "createMech"
    BY <1>2, <1>4, <1>5, <2>1, HandleBalances DEF CountedInv
  <2>2. CASE log.op = "createMech"
    <3>1. CreateMech(log.mech)
      BY <1>1, <1>2, <1>3, <2>2 DEF Dispatch
    <3>2. FirstMech(log.mech)
      BY <1>1, <1>3, <2>2 DEF CountedInv, MechsMinted
    <3> QED BY <1>2, <1>4, <1>5, <2>2, <3>1, <3>2, CreateBalances DEF CountedInv
  <2> QED BY <2>1, <2>2
<1>12. EachDeliveryCountedOnce'
  BY <1>4, <1>5, HandleDeliversOnce DEF CountedInv
<1>13. AtaCounted'
  BY <1>5, HandleKeepsAta DEF CountedInv
<1> QED BY <1>7, <1>8, <1>9, <1>10, <1>11, <1>12, <1>13 DEF CountedInv

-----------------------------------------------------------------------------
(* The contracts' steps keep what is counted. *)

\* What a call logs is so, and what it asks for and delivers is logged with it.
LoggedCounts ==
  /\ \A j, k \in DOMAIN logs' : Answers(logs'[j]) /\ Answers(logs'[k]) => j = k
  /\ (\A k \in DOMAIN logs' : ~ Answers(logs'[k])) => answered' = answered
  /\ \A k \in DOMAIN logs' : Answers(logs'[k]) => answered' = answered + AnswersOf(logs'[k])
  /\ \A r \in Ids : status'[r] = "asked" => status[r] = "asked" \/ AskedByLog(r)'
  /\ \A r \in Ids : status[r] # "none" => status'[r] # "none"
  /\ LogsCounted' /\ MechsMinted'
  /\ \A s \in Services : mechs[s] # NoRow /\ minted'[s] = 1 => minted[s] = 1

\* Between transactions everything logged is counted.
LEMMA NothingLeft ==
  ASSUME CountedInv, logs = <<>>
  PROVE  /\ totals.deliveries = answered
         /\ \A r \in Ids : status[r] = "asked" => Undone(r)
         /\ \A r \in Ids : status[r] = "none" => ~ Done(r)
<1>1. DOMAIN logs = {} /\ \A r : ~ AskedByLog(r)
  BY DEF AskedByLog
<1> QED BY <1>1 DEF CountedInv, DeliveriesComing, AskedHaveRows, OnlyAsked, Done

LEMMA TablesKeptByCalls ==
  ASSUME NEW kind, NEW emitted, Emit(kind, emitted)
  PROVE  /\ logs = <<>> /\ logs' = emitted
         /\ createMechs' = createMechs /\ mechs' = mechs /\ services' = services
         /\ requests' = requests /\ markers' = markers /\ senders' = senders
         /\ ataTxs' = ataTxs /\ totals' = totals
         /\ \A r : (Undone(r)' <=> Undone(r)) /\ (Done(r)' <=> Done(r))
<1>1. /\ logs = <<>> /\ logs' = emitted
      /\ createMechs' = createMechs /\ mechs' = mechs /\ services' = services
      /\ requests' = requests /\ markers' = markers /\ senders' = senders
      /\ ataTxs' = ataTxs /\ totals' = totals
  BY DEF Emit, mechVars, askVars, ataVars
<1> QED BY <1>1 DEF Undone, Done

LEMMA EmitCounts ==
  ASSUME CountedInv, NEW kind, NEW emitted, Emit(kind, emitted), LoggedCounts
  PROVE  CountedInv'
<1>1. /\ logs = <<>> /\ createMechs' = createMechs /\ mechs' = mechs /\ services' = services
      /\ requests' = requests /\ markers' = markers /\ senders' = senders
      /\ ataTxs' = ataTxs /\ totals' = totals
      /\ \A r : (Undone(r)' <=> Undone(r)) /\ (Done(r)' <=> Done(r))
  BY TablesKeptByCalls
<1>2. DeliveriesComing'
  <2>1. totals'.deliveries = answered
    BY <1>1, NothingLeft
  <2>2. \A k \in DOMAIN logs' : Answers(logs'[k]) =>
          totals'.deliveries + AnswersOf(logs'[k]) = answered'
    BY <2>1 DEF LoggedCounts
  <2> QED BY <2>1, <2>2 DEF LoggedCounts, DeliveriesComing
<1>3. AskedHaveRows'
  <2>1. \A r \in Ids : status'[r] = "asked" => Undone(r)' \/ AskedByLog(r)'
    BY <1>1, NothingLeft DEF LoggedCounts
  <2> QED BY <2>1 DEF AskedHaveRows
<1>4. OnlyAsked'
  BY <1>1 DEF CountedInv, OnlyAsked, LoggedCounts
<1>5. BacklogsBalanced'
  <2>1. \A s : Waiting(s)' = Waiting(s) /\ DoneDirectly(s)' = DoneDirectly(s)
    BY <1>1 DEF Waiting, DoneDirectly, Of, Done
  <2>2. \A s \in Services : mechs[s] # NoRow /\ minted'[s] = 1 => Balanced(s)
    BY DEF LoggedCounts, CountedInv, BacklogsBalanced
  <2>3. \A s \in Services : mechs'[s] # NoRow /\ minted'[s] = 1 => Balanced(s)'
    BY <1>1, <2>1, <2>2 DEF Balanced
  <2> QED BY <2>3 DEF BacklogsBalanced
<1>6. EachDeliveryCountedOnce' /\ AtaCounted'
  BY <1>1 DEF CountedInv, EachDeliveryCountedOnce, AtaCounted, AtaOncePerTransaction
<1> QED BY <1>2, <1>3, <1>4, <1>5, <1>6 DEF LoggedCounts, CountedInv

\* Calls that log no creation of a mech.
LEMMA MintedSame ==
  ASSUME CountedInv, minted' = minted, createMechs' = createMechs,
         \A k \in DOMAIN logs' : logs'[k].op # "createMech"
  PROVE  MechsMinted'
BY DEF CountedInv, MechsMinted

LEMMA OneLogCounts ==
  ASSUME CountedInv, NEW kind, NEW log, Emit(kind, <<log>>), minted' = minted, answered' = answered,
         log.op \notin {"createMech", "request", "delivery", "batch"},
         \A r \in Ids : status'[r] = status[r] \/ (status[r] = "none" /\ status'[r] \notin {"none", "asked"}),
         Listed(log) => log.mech \in createMechs,
         log.op = "mechDeliver" /\ log.mech \notin Strangers =>
           status'[log.id] # "asked" /\ ~ tx'.toMarketplace,
         log.op = "mechRequest" /\ log.mech \notin Strangers =>
           status[log.id] = "none" /\ status'[log.id] # "none"
  PROVE  CountedInv'
<1>1. /\ logs = <<>> /\ createMechs' = createMechs
      /\ \A r : (Undone(r)' <=> Undone(r)) /\ (Done(r)' <=> Done(r))
      /\ logs' = <<log>>
  BY TablesKeptByCalls
<1>2. DOMAIN logs' = {1} /\ logs'[1] = log
  BY <1>1
<1>3. ~ Answers(log)
  BY DEF Answers
<1>4. MechsMinted'
  BY <1>1, <1>2, MintedSame
<1>5. LogsCounted'
  <2>1. DeliveryBacked(1)'
    BY <1>2 DEF DeliveryBacked
  <2>2. \A r \in Ids : AsksFor(log, r) => ~ Done(r)' /\ status'[r] # "none"
    BY <1>1, NothingLeft DEF AsksFor
  <2>3. AskBacked(1)'
    BY <1>2, <2>2 DEF AskBacked, AsksFor
  <2>4. Delivers(log) => ~ Asks(log)
    BY DEF Delivers, Asks
  <2>5. \A k \in DOMAIN logs' : k = 1
    BY <1>2
  <2>6. \A k \in DOMAIN logs' : DeliveryBacked(k)' /\ AskBacked(k)'
    BY <2>1, <2>3, <2>5
  <2> QED BY <1>1, <1>2, <2>4, <2>5, <2>6 DEF LogsCounted
<1>6. LoggedCounts
  BY <1>2, <1>3, <1>4, <1>5 DEF LoggedCounts
<1> QED BY <1>6, EmitCounts

LEMMA CreateMechCounts ==
  ASSUME IInv, ComposeInv, CountedInv, EmitCreateMech
  PROVE  CountedInv'
<1>1. PICK m \in Mechs, logged \in BOOLEAN :
        /\ Emit("createMech",
                IF logged THEN <<[op |-> "factory", mech |-> m, rate |-> advertised[m]],
                                 [op |-> "createMech", mech |-> m]>>
                ELSE <<[op |-> "createMech", mech |-> m]>>)
        /\ minted' = [minted EXCEPT ![ServiceOf[m]] = @ + 1]
        /\ status' = status /\ answered' = answered
  BY DEF EmitCreateMech
<1> DEFINE emitted == IF logged THEN <<[op |-> "factory", mech |-> m, rate |-> advertised[m]],
                                       [op |-> "createMech", mech |-> m]>>
                      ELSE <<[op |-> "createMech", mech |-> m]>>
<1>2. logs' = emitted /\ createMechs' = createMechs
  BY <1>1, TablesKeptByCalls
<1>3. \A k \in DOMAIN logs' : logs'[k].op \in {"factory", "createMech"} /\ logs'[k].mech = m
  BY <1>2
<1>4. Emit("createMech", emitted)
  BY <1>1
<1> HIDE DEF emitted
<1>5. /\ minted \in [Services -> Nat] /\ ServiceOf[m] \in Services
      /\ \A n \in createMechs : n \in Mechs /\ minted[ServiceOf[n]] >= 1
  BY MarketplaceAssumption DEF CountedInv, MechsMinted, IInv, Typed
<1>6. /\ minted' \in [Services -> Nat] /\ minted'[ServiceOf[m]] = minted[ServiceOf[m]] + 1
      /\ \A s \in Services : s # ServiceOf[m] => minted'[s] = minted[s]
      /\ \A s \in Services : minted'[s] >= minted[s]
  BY <1>1, <1>5
<1>7. MechsMinted'
  <2>1. \A n \in createMechs : minted'[ServiceOf[n]] >= 1
    <3> SUFFICES ASSUME NEW n \in createMechs PROVE minted'[ServiceOf[n]] >= 1
      OBVIOUS
    <3>1. ServiceOf[n] \in Services /\ minted[ServiceOf[n]] \in Nat /\ minted'[ServiceOf[n]] \in Nat
          /\ minted[ServiceOf[n]] >= 1
      BY <1>5, <1>6, MarketplaceAssumption
    <3> QED BY <1>6, <3>1
  <2>2. /\ minted'[ServiceOf[m]] >= 1
        /\ minted'[ServiceOf[m]] = 1 => \A n \in createMechs : ServiceOf[n] # ServiceOf[m]
    BY <1>5, <1>6
  <2>3. \A k \in DOMAIN logs' : logs'[k].op = "createMech" =>
          /\ minted'[ServiceOf[logs'[k].mech]] >= 1
          /\ minted'[ServiceOf[logs'[k].mech]] = 1 =>
               \A n \in createMechs' : ServiceOf[n] # ServiceOf[logs'[k].mech]
    BY <1>2, <1>3, <2>2
  <2> QED BY <1>2, <1>6, <2>1, <2>3 DEF MechsMinted, FirstMech
<1>8. \A s \in Services : mechs[s] # NoRow /\ minted'[s] = 1 => minted[s] = 1
  <2> SUFFICES ASSUME NEW s \in Services, mechs[s] # NoRow, minted'[s] = 1
               PROVE  minted[s] = 1
    OBVIOUS
  <2>1. mechs[s].address \in createMechs /\ ServiceOf[mechs[s].address] = s
    BY DEF ComposeInv, Linked
  <2>2. minted[s] >= 1
    BY <1>5, <2>1
  <2> QED BY <1>5, <1>6, <2>2
<1>9. LogsCounted'
  <2>1. \A k \in DOMAIN logs' :
          /\ ~ Answers(logs'[k]) /\ ~ Listed(logs'[k]) /\ ~ Delivers(logs'[k])
          /\ \A r : ~ AsksFor(logs'[k], r)
          /\ logs'[k].op \notin {"delivery", "mechDeliver"}
    BY <1>3 DEF Answers, Listed, Delivers, AsksFor
  <2>2. \A k \in DOMAIN logs' : DeliveryBacked(k)'
    BY <2>1 DEF DeliveryBacked
  <2>3. \A k \in DOMAIN logs' : AskBacked(k)'
    BY <2>1 DEF AskBacked, AsksFor
  <2> QED BY <2>1, <2>2, <2>3 DEF LogsCounted
<1>10. \A k \in DOMAIN logs' : ~ Answers(logs'[k])
  BY <1>3 DEF Answers
<1>11. LoggedCounts
  BY <1>1, <1>7, <1>8, <1>9, <1>10 DEF LoggedCounts
<1> QED BY <1>4, <1>11, EmitCounts

LEMMA RateCounts ==
  ASSUME CountedInv, EmitRate
  PROVE  CountedInv'
<1>1. PICK m \in createMechs, rate \in Rates :
        /\ Emit("rate", <<[op |-> "rate", mech |-> m, rate |-> rate]>>)
        /\ minted' = minted /\ status' = status /\ answered' = answered
  BY DEF EmitRate
<1>2. PICK log : log = [op |-> "rate", mech |-> m, rate |-> rate]
  OBVIOUS
<1>3. log.op = "rate" /\ Emit("rate", <<log>>)
  BY <1>1, <1>2
<1>4. ~ Listed(log)
  BY <1>3 DEF Listed
<1> QED BY <1>1, <1>3, <1>4, OneLogCounts

LEMMA RegistryLogCounts ==
  ASSUME CountedInv, EmitRegistry
  PROVE  CountedInv'
<1>1. minted' = minted /\ status' = status /\ answered' = answered
  BY DEF EmitRegistry
<1> DEFINE Registers ==
             \E log : /\ log.op \in {"createService", "multisig", "transfer", "register",
                                    "terminate", "update", "metadata", "karma"}
                      /\ Emit("registry", <<log>>)
<1>2. Registers
  <2>1. PICK s \in Services :
          \/ Emit("registry", <<[op |-> "createService", service |-> s, config |-> FirstHash]>>)
          \/ \E a \in Accounts :
               \/ Emit("registry", <<[op |-> "multisig", service |-> s, account |-> a]>>)
               \/ Emit("registry", <<[op |-> "transfer", service |-> s, account |-> a]>>)
          \/ \E a \in Agents : Emit("registry", <<[op |-> "register", service |-> s, agent |-> a]>>)
          \/ Emit("registry", <<[op |-> "terminate", service |-> s]>>)
          \/ \E h \in Hashes :
               \/ Emit("registry", <<[op |-> "update", service |-> s, config |-> h]>>)
               \/ Emit("registry", <<[op |-> "metadata", service |-> s, hash |-> h]>>)
          \/ \E m \in Mechs, k \in Karma :
               Emit("registry", <<[op |-> "karma", service |-> s, mech |-> m, change |-> k]>>)
    BY DEF EmitRegistry
  <2>2. CASE Emit("registry", <<[op |-> "createService", service |-> s, config |-> FirstHash]>>)
    BY <2>2
  <2>3. ASSUME NEW a \in Accounts,
               \/ Emit("registry", <<[op |-> "multisig", service |-> s, account |-> a]>>)
               \/ Emit("registry", <<[op |-> "transfer", service |-> s, account |-> a]>>)
        PROVE  Registers
    BY <2>3
  <2>4. ASSUME NEW a \in Agents,
               Emit("registry", <<[op |-> "register", service |-> s, agent |-> a]>>)
        PROVE  Registers
    BY <2>4
  <2>5. CASE Emit("registry", <<[op |-> "terminate", service |-> s]>>)
    BY <2>5
  <2>6. ASSUME NEW h \in Hashes,
               \/ Emit("registry", <<[op |-> "update", service |-> s, config |-> h]>>)
               \/ Emit("registry", <<[op |-> "metadata", service |-> s, hash |-> h]>>)
        PROVE  Registers
    BY <2>6
  <2>7. ASSUME NEW m \in Mechs, NEW k \in Karma,
               Emit("registry", <<[op |-> "karma", service |-> s, mech |-> m, change |-> k]>>)
        PROVE  Registers
    BY <2>7
  <2> HIDE DEF Registers
  <2> QED BY <2>1, <2>2, <2>3, <2>4, <2>5, <2>6, <2>7
<1>3. PICK log : /\ log.op \in {"createService", "multisig", "transfer", "register", "terminate",
                                "update", "metadata", "karma"}
                 /\ Emit("registry", <<log>>)
  BY <1>2
<1>4. ~ Listed(log) /\ log.op \notin {"createMech", "request", "delivery", "batch"}
      /\ log.op \notin {"mechDeliver", "mechRequest"}
  BY <1>3 DEF Listed
<1> QED BY <1>1, <1>3, <1>4, OneLogCounts

LEMMA ForeignCounts ==
  ASSUME CountedInv, EmitForeign
  PROVE  CountedInv'
<1>1. minted' = minted /\ status' = status /\ answered' = answered
  BY DEF EmitForeign
<1>2. \E log : /\ log.op \in {"mechRequest", "mechDeliver", "rate"} /\ log.mech \in Strangers
               /\ Emit("foreign", <<log>>)
  <2>1. PICK m \in Strangers, r \in Ids, rate \in Rates :
          \/ Emit("foreign", <<[op |-> "mechRequest", mech |-> m, id |-> r, ipfs |-> TRUE]>>)
          \/ Emit("foreign", <<[op |-> "mechDeliver", mech |-> m, id |-> r, rate |-> rate]>>)
          \/ Emit("foreign", <<[op |-> "rate", mech |-> m, rate |-> rate]>>)
    BY DEF EmitForeign
  <2> QED BY <2>1
<1>3. PICK log : /\ log.op \in {"mechRequest", "mechDeliver", "rate"} /\ log.mech \in Strangers
                 /\ Emit("foreign", <<log>>)
  BY <1>2
<1>4. ~ Listed(log) /\ log.op \notin {"createMech", "request", "delivery", "batch"}
  BY <1>3 DEF Listed
<1> QED BY <1>1, <1>3, <1>4, OneLogCounts

LEMMA DirectCounts ==
  ASSUME IInv, CountedInv, EmitDirect
  PROVE  CountedInv'
<1>1. PICK m \in createMechs, r \in Ids :
        /\ \/ /\ status[r] = "none" /\ NewStatus({r}, m)
              /\ Emit("direct", <<[op |-> "mechRequest", mech |-> m, id |-> r, ipfs |-> TRUE]>>)
           \/ /\ status[r] = m /\ status' = status
              /\ \E rate \in Rates :
                   Emit("direct", <<[op |-> "mechDeliver", mech |-> m, id |-> r, rate |-> rate]>>)
        /\ minted' = minted /\ answered' = answered
  BY DEF EmitDirect
<1>2. m \notin {"none", "asked"}
  BY MarketplaceAssumption DEF IInv, Typed
<1>3. CASE /\ status[r] = "none" /\ NewStatus({r}, m)
           /\ Emit("direct", <<[op |-> "mechRequest", mech |-> m, id |-> r, ipfs |-> TRUE]>>)
  <2>1. PICK log : log = [op |-> "mechRequest", mech |-> m, id |-> r, ipfs |-> TRUE]
    OBVIOUS
  <2>2. log.op = "mechRequest" /\ log.mech = m /\ log.id = r /\ Emit("direct", <<log>>)
    BY <1>3, <2>1
  <2>3. /\ \A q \in Ids : status'[q] = status[q]
                         \/ (status[q] = "none" /\ status'[q] \notin {"none", "asked"})
        /\ status'[r] # "none"
    BY <1>2, <1>3 DEF NewStatus
  <2> QED BY <1>1, <1>3, <2>2, <2>3, OneLogCounts
<1>4. ASSUME NEW rate \in Rates, status[r] = m, status' = status,
             Emit("direct", <<[op |-> "mechDeliver", mech |-> m, id |-> r, rate |-> rate]>>)
      PROVE  CountedInv'
  <2>1. PICK log : log = [op |-> "mechDeliver", mech |-> m, id |-> r, rate |-> rate]
    OBVIOUS
  <2>2. log.op = "mechDeliver" /\ log.mech = m /\ log.id = r /\ Emit("direct", <<log>>)
    BY <1>4, <2>1
  <2>3. ~ tx'.toMarketplace
    BY <1>4 DEF Emit
  <2> QED BY <1>1, <1>2, <1>4, <2>2, <2>3, OneLogCounts
<1> QED BY <1>1, <1>3, <1>4

LEMMA RequestLogCounts ==
  ASSUME IInv, CountedInv, EmitRequest
  PROVE  CountedInv'
<1>1. PICK m \in createMechs, a \in Accounts, ids \in (SUBSET New) \ {{}}, ipfs \in BOOLEAN :
        /\ Emit("request",
                [k \in DOMAIN SetToSeq(ids) |->
                   [op |-> "mechRequest", mech |-> m, id |-> SetToSeq(ids)[k], ipfs |-> ipfs]]
                  \o <<[op |-> "request", mech |-> m, requester |-> a, ids |-> ids]>>)
        /\ NewStatus(ids, "asked") /\ minted' = minted /\ answered' = answered
  BY DEF EmitRequest, Each
<1> DEFINE q == SetToSeq(ids)
           each == [k \in DOMAIN q |->
                      [op |-> "mechRequest", mech |-> m, id |-> q[k], ipfs |-> ipfs]]
           last == [op |-> "request", mech |-> m, requester |-> a, ids |-> ids]
           n == Cardinality(ids)
<1>2. ids \in SUBSET Ids /\ IsFiniteSet(ids) /\ \A r \in ids : status[r] = "none"
  BY MarketplaceAssumption, FS_Subset DEF New
<1>3. /\ q \in Seq(ids) /\ DOMAIN q = 1 .. n /\ n \in Nat
  BY <1>2, OneEach, AllListed
<1> HIDE DEF q, n
<1>4. /\ each \in Seq({each[k] : k \in DOMAIN q}) /\ Len(each) = n /\ DOMAIN each = 1 .. n
      /\ \A k \in 1 .. n : /\ each[k].op = "mechRequest" /\ each[k].id \in ids
                           /\ each[k].mech = m
  BY <1>3
<1>5. last.op = "request" /\ last.ids = ids /\ last.mech = m
  OBVIOUS
<1>6. Emit("request", each \o <<last>>)
  BY <1>1 DEF q
<1> HIDE DEF each, last
<1>7. /\ logs = <<>> /\ logs' = each \o <<last>> /\ createMechs' = createMechs
      /\ \A r : (Undone(r)' <=> Undone(r)) /\ (Done(r)' <=> Done(r))
  BY <1>6, TablesKeptByCalls
<1>8. /\ DOMAIN logs' = 1 .. n + 1 /\ logs'[n + 1] = last
      /\ \A k \in 1 .. n : logs'[k] = each[k]
  <2>1. logs' = Append(each, last)
    BY <1>4, <1>7
  <2> QED BY <1>3, <1>4, <2>1
<1>9. \A r \in ids : AskedByLog(r)'
  <2>1. n + 1 \in DOMAIN logs'
    BY <1>3, <1>8
  <2> QED BY <1>5, <1>8, <2>1 DEF AskedByLog
<1>10. \A k \in DOMAIN logs' :
         /\ \/ logs'[k].op = "mechRequest" /\ logs'[k].id \in ids
            \/ logs'[k].op = "request" /\ logs'[k].ids = ids
         /\ logs'[k].mech = m
  <2> SUFFICES ASSUME NEW k \in DOMAIN logs'
               PROVE  /\ \/ logs'[k].op = "mechRequest" /\ logs'[k].id \in ids
                         \/ logs'[k].op = "request" /\ logs'[k].ids = ids
                      /\ logs'[k].mech = m
    OBVIOUS
  <2>1. k \in 1 .. n \/ k = n + 1
    BY <1>3, <1>8
  <2>2. CASE k \in 1 .. n
    <3>1. logs'[k] = each[k]
      BY <1>8, <2>2
    <3> QED BY <1>4, <2>2, <3>1
  <2>3. CASE k = n + 1
    BY <1>5, <1>8, <2>3
  <2> QED BY <2>1, <2>2, <2>3
<1>11. /\ \A r \in ids : status'[r] = "asked" /\ ~ Done(r)'
       /\ \A r \in Ids \ ids : status'[r] = status[r]
  BY <1>1, <1>2, <1>7, NothingLeft DEF NewStatus
<1>12. \A k \in DOMAIN logs' : \A r \in Ids : AsksFor(logs'[k], r) => r \in ids
  BY <1>10 DEF AsksFor
<1>13. \A k \in DOMAIN logs' : DeliveryBacked(k)' /\ AskBacked(k)'
  <2>1. \A k \in DOMAIN logs' : DeliveryBacked(k)'
    BY <1>10 DEF DeliveryBacked
  <2>2. \A k \in DOMAIN logs' : AskBacked(k)'
    BY <1>11, <1>12 DEF AskBacked, AsksFor
  <2> QED BY <2>1, <2>2
<1>14. \A k \in DOMAIN logs' :
         ~ Answers(logs'[k]) /\ ~ Delivers(logs'[k]) /\ logs'[k].op # "createMech"
  BY <1>10 DEF Answers, Delivers
<1>15. LogsCounted'
  BY <1>7, <1>10, <1>13, <1>14 DEF LogsCounted
<1>16. MechsMinted'
  BY <1>1, <1>7, <1>14, MintedSame
<1>17. LoggedCounts
  BY <1>1, <1>2, <1>9, <1>11, <1>14, <1>15, <1>16 DEF LoggedCounts
<1> QED BY <1>6, <1>17, EmitCounts

LEMMA DeliveryLogCounts ==
  ASSUME IInv, CountedInv, EmitDelivery
  PROVE  CountedInv'
<1> DEFINE Answer(m, ids, won, rate) ==
             <<[op |-> "delivery", mech |-> m, ids |-> ids, won |-> won]>>
               \o [k \in DOMAIN SetToSeq(won) |->
                     [op |-> "mechDeliver", mech |-> m, id |-> SetToSeq(won)[k], rate |-> rate]]
<1>0. PICK m \in createMechs, ids \in (SUBSET {r \in Ids : status[r] \in {"asked", "done"}}) \ {{}},
           rate \in Rates :
        \E won \in SUBSET {r \in ids : status[r] = "asked"} :
          /\ Emit("delivery", Answer(m, ids, won, rate))
          /\ NewStatus(won, "done") /\ answered' = answered + Cardinality(won)
          /\ minted' = minted
  BY Zenon DEF EmitDelivery, Each
<1>1. PICK won \in SUBSET {r \in ids : status[r] = "asked"} :
        /\ Emit("delivery", Answer(m, ids, won, rate))
        /\ NewStatus(won, "done") /\ answered' = answered + Cardinality(won)
        /\ minted' = minted
  <2> HIDE DEF Answer
  <2> QED BY <1>0
<1> DEFINE q == SetToSeq(won)
           each == [k \in DOMAIN q |->
                      [op |-> "mechDeliver", mech |-> m, id |-> q[k], rate |-> rate]]
           first == [op |-> "delivery", mech |-> m, ids |-> ids, won |-> won]
           n == Cardinality(won)
<1>2. won \in SUBSET Ids /\ won \subseteq ids /\ IsFiniteSet(won)
      /\ \A r \in won : status[r] = "asked"
  <2>1. won \in SUBSET Ids
    OBVIOUS
  <2> QED BY <2>1, MarketplaceAssumption, FS_Subset
<1>3. q \in Seq(won) /\ DOMAIN q = 1 .. n /\ n \in Nat
  BY <1>2, OneEach, AllListed
<1> HIDE DEF q, n
<1>4. /\ each \in Seq({each[k] : k \in DOMAIN q}) /\ Len(each) = n /\ DOMAIN each = 1 .. n
      /\ \A k \in 1 .. n : each[k].op = "mechDeliver" /\ each[k].id \in won /\ each[k].mech = m
  BY <1>3
<1>5. first.op = "delivery" /\ first.won = won /\ first.ids = ids /\ first.mech = m
  OBVIOUS
<1>6. Emit("delivery", <<first>> \o each)
  BY <1>1 DEF q
<1> HIDE DEF each, first
<1>7. /\ logs = <<>> /\ logs' = <<first>> \o each /\ createMechs' = createMechs
      /\ \A r : (Undone(r)' <=> Undone(r)) /\ (Done(r)' <=> Done(r))
  BY <1>6, TablesKeptByCalls
<1>8. /\ 1 \in DOMAIN logs' /\ logs'[1] = first
      /\ \A k \in DOMAIN logs' : k # 1 => logs'[k].op = "mechDeliver" /\ logs'[k].id \in won
                                          /\ logs'[k].mech = m
  BY <1>3, <1>4, <1>7
<1>9. /\ \A r \in won : status'[r] = "done"
      /\ \A r \in Ids \ won : status'[r] = status[r]
  BY <1>1, <1>2 DEF NewStatus
<1>10. \A r \in won : Undone(r)'
  BY <1>2, <1>7, NothingLeft
<1>11. \A k \in DOMAIN logs' : DeliveryBacked(k)' /\ AskBacked(k)'
  <2>1. \A r \in won : WonBy(logs'[1], r)
    BY <1>5, <1>8 DEF WonBy
  <2>2. ASSUME NEW k \in DOMAIN logs' PROVE DeliveryBacked(k)'
    <3>1. CASE k = 1
      <4>1. logs'[k] = first
        BY <1>8, <3>1
      <4> QED BY <1>2, <1>5, <1>9, <1>10, <3>1, <4>1 DEF DeliveryBacked
    <3>2. CASE k # 1
      <4>1. logs'[k].op = "mechDeliver" /\ logs'[k].id \in won
        BY <1>8, <3>2
      <4>2. \A r \in {logs'[k].id} : \E j \in DOMAIN logs' : WonBy(logs'[j], r)
        BY <1>8, <2>1, <4>1
      <4>3. status'[logs'[k].id] # "asked"
        BY <1>9, <4>1
      <4> QED BY <4>1, <4>2, <4>3 DEF DeliveryBacked, WonBy
    <3> QED BY <3>1, <3>2
  <2>3. \A k \in DOMAIN logs' : logs'[k].op \in {"delivery", "mechDeliver"}
    BY <1>5, <1>8
  <2>4. \A k \in DOMAIN logs' : AskBacked(k)'
    BY <2>3 DEF AskBacked, AsksFor
  <2> QED BY <2>2, <2>4
<1>12. \A k \in DOMAIN logs' : /\ logs'[k].op \in {"delivery", "mechDeliver"} /\ logs'[k].mech = m
                               /\ logs'[k].op = "delivery" => k = 1
  BY <1>5, <1>8
<1>13. LogsCounted'
  <2>1. \A k \in DOMAIN logs' : ~ Asks(logs'[k])
    BY <1>12 DEF Asks
  <2> QED BY <1>7, <1>11, <1>12, <2>1 DEF LogsCounted
<1>14. \A k \in DOMAIN logs' : Answers(logs'[k]) <=> k = 1
  BY <1>5, <1>8, <1>12 DEF Answers
<1>15. AnswersOf(logs'[1]) = Cardinality(won)
  BY <1>5, <1>8 DEF AnswersOf
<1>16. MechsMinted'
  <2>1. \A k \in DOMAIN logs' : logs'[k].op # "createMech"
    BY <1>12
  <2> QED BY <1>1, <1>7, <2>1, MintedSame
<1>17. LoggedCounts
  BY <1>1, <1>2, <1>8, <1>9, <1>13, <1>14, <1>15, <1>16 DEF LoggedCounts
<1> HIDE DEF Answer
<1> QED BY <1>6, <1>17, EmitCounts

LEMMA SignedLogCounts ==
  ASSUME IInv, CountedInv, EmitSigned
  PROVE  CountedInv'
<1>0. PICK m \in createMechs, a \in Accounts, rate \in Rates, batchFirst \in BOOLEAN,
           ids \in SUBSET Ids :
        SignedCall(m, a, rate, batchFirst, ids)
  BY SignedCalls, Zenon
<1>1. /\ NewStatus(ids \cap New, "signed") /\ answered' = answered + Cardinality(ids)
      /\ minted' = minted
  BY <1>0, Zenon DEF SignedCall
<1> DEFINE q == SetToSeq(ids)
           each == [k \in DOMAIN q |-> [op |-> "signed", mech |-> m, id |-> q[k], rate |-> rate]]
           one == [op |-> "batch", mech |-> m, requester |-> a, ids |-> ids]
           n == Cardinality(ids)
           emitted == IF batchFirst THEN <<one>> \o each ELSE each \o <<one>>
           place == IF batchFirst THEN 1 ELSE n + 1
<1>2. IsFiniteSet(ids)
  BY MarketplaceAssumption, FS_Subset
<1>3. q \in Seq(ids) /\ DOMAIN q = 1 .. n /\ n \in Nat
  BY <1>2, OneEach, AllListed
<1> HIDE DEF q, n
<1>4. /\ each \in Seq({each[k] : k \in DOMAIN q}) /\ Len(each) = n /\ DOMAIN each = 1 .. n
      /\ \A k \in 1 .. n : each[k].op = "signed"
  BY <1>3
<1>5. one.op = "batch" /\ one.mech = m /\ one.ids = ids
  OBVIOUS
<1>6. Emit("signed", emitted)
  BY <1>0, Zenon DEF SignedCall, q
<1> HIDE DEF each, one
<1>7. logs = <<>> /\ logs' = emitted /\ createMechs' = createMechs
  <2> HIDE DEF emitted
  <2> QED BY <1>6, TablesKeptByCalls
<1>8. /\ place \in DOMAIN logs' /\ logs'[place] = one
      /\ \A k \in DOMAIN logs' : k # place => logs'[k].op = "signed"
  <2>1. CASE batchFirst
    <3>1. logs' = <<one>> \o each
      BY <1>7, <2>1
    <3> QED BY <1>3, <1>4, <2>1, <3>1
  <2>2. CASE ~ batchFirst
    <3>1. logs' = each \o <<one>>
      BY <1>7, <2>2
    <3> QED BY <1>3, <1>4, <2>2, <3>1
  <2> QED BY <2>1, <2>2
<1> HIDE DEF emitted, place
<1>9. \A k \in DOMAIN logs' : /\ logs'[k].op \in {"signed", "batch"}
                              /\ logs'[k].op = "batch" <=> k = place
                              /\ logs'[k].op = "batch" => logs'[k].mech = m
  BY <1>5, <1>8
<1>10. \A r \in Ids : \/ status'[r] = status[r]
                      \/ status[r] = "none" /\ status'[r] = "signed"
  BY <1>1 DEF NewStatus, New
<1>11. LogsCounted'
  <2>1. \A k \in DOMAIN logs' : DeliveryBacked(k)'
    BY <1>9 DEF DeliveryBacked
  <2>2. \A k \in DOMAIN logs' : AskBacked(k)'
    BY <1>9 DEF AskBacked, AsksFor
  <2>3. \A k \in DOMAIN logs' : /\ ~ Delivers(logs'[k])
                                /\ Listed(logs'[k]) => logs'[k].mech \in createMechs
    BY <1>9 DEF Delivers, Listed
  <2> QED BY <1>7, <2>1, <2>2, <2>3 DEF LogsCounted
<1>12. \A k \in DOMAIN logs' : Answers(logs'[k]) <=> k = place
  BY <1>9 DEF Answers
<1>13. AnswersOf(logs'[place]) = Cardinality(ids)
  BY <1>5, <1>8 DEF AnswersOf
<1>14. MechsMinted'
  <2>1. \A k \in DOMAIN logs' : logs'[k].op # "createMech"
    BY <1>9
  <2> QED BY <1>1, <1>7, <2>1, MintedSame
<1>15. LoggedCounts
  BY <1>1, <1>8, <1>10, <1>11, <1>12, <1>13, <1>14 DEF LoggedCounts
<1> QED BY <1>6, <1>15, EmitCounts

LEMMA ContractsCount ==
  ASSUME IInv, ComposeInv, CountedInv, Contracts
  PROVE  CountedInv'
BY CreateMechCounts, RateCounts, RegistryLogCounts, RequestLogCounts, DeliveryLogCounts,
   SignedLogCounts, DirectCounts, ForeignCounts DEF Contracts

\* What the first states count.
LEMMA InitiallyMinted ==
  ASSUME Init
  PROVE  MechsMinted
<1>1. /\ logs = <<>> /\ createMechs = Founded
      /\ minted = [s \in Services |-> Cardinality({m \in Founded : ServiceOf[m] = s})]
  BY DEF Init
<1>2. ASSUME NEW s \in Services
      PROVE  Cardinality({m \in Founded : ServiceOf[m] = s}) \in Nat
  <2>1. CASE {m \in Founded : ServiceOf[m] = s} = {}
    BY <2>1, FS_EmptySet
  <2>2. CASE {m \in Founded : ServiceOf[m] = s} # {}
    <3>1. PICK m \in Founded : ServiceOf[m] = s
      BY <2>2
    <3>2. {n \in Founded : ServiceOf[n] = s} = {m}
      BY <3>1, MarketplaceAssumption
    <3>3. Cardinality({m}) = 1
      BY FS_Singleton, Zenon
    <3> QED BY <3>2, <3>3
  <2> QED BY <2>1, <2>2
<1>3. ASSUME NEW m \in createMechs
      PROVE  minted[ServiceOf[m]] = 1
  <2>1. m \in Founded /\ ServiceOf[m] \in Services
    BY <1>1, MarketplaceAssumption
  <2>2. {n \in Founded : ServiceOf[n] = ServiceOf[m]} = {m}
    BY <2>1, MarketplaceAssumption
  <2>3. minted[ServiceOf[m]] = Cardinality({n \in Founded : ServiceOf[n] = ServiceOf[m]})
    BY <1>1, <2>1
  <2> QED BY <2>2, <2>3, FS_Singleton
<1>4. minted \in [Services -> Nat]
  BY <1>1, <1>2
<1>5. \A k \in DOMAIN logs : FALSE
  BY <1>1
<1> QED BY <1>3, <1>4, <1>5 DEF MechsMinted

LEMMA InitiallyBalanced ==
  ASSUME Init
  PROVE  BacklogsBalanced
<1> SUFFICES ASSUME NEW s \in Services, mechs[s] # NoRow
             PROVE  Balanced(s)
  BY DEF BacklogsBalanced
<1> DEFINE row(x) == LET m == CHOOSE m \in Founded : ServiceOf[m] = x
                     IN NewMech(m, advertised[m], FirstHash, tx.from)
<1>1. mechs = [x \in Services |-> IF \E m \in Founded : ServiceOf[m] = x THEN row(x) ELSE NoRow]
  BY DEF Init
<1>2. row(s).received = 0 /\ row(s).self = 0 /\ row(s).others = 0
  BY DEF NewMech
<1> HIDE DEF row
<1>3. mechs[s].received = 0 /\ mechs[s].self = 0 /\ mechs[s].others = 0
  BY <1>1, <1>2
<1>4. Of(s) = {}
  BY DEF Init, Of
<1>5. DoneDirectly(s) = {} /\ Waiting(s) = {}
  BY <1>4 DEF DoneDirectly, Waiting
<1> QED BY <1>3, <1>5, FS_EmptySet DEF Balanced

LEMMA InitiallyTotalled ==
  ASSUME Init
  PROVE  EachDeliveryCountedOnce /\ AtaCounted
<1>1. /\ services = [s \in Services |-> IF s \in Registered THEN NewService(FirstHash) ELSE NoRow]
      /\ requests = [r \in Ids |-> NoRow] /\ senders = [a \in Accounts |-> NoRow]
      /\ ataTxs = {} /\ totals.ata = 0
  BY DEF Init
<1>2. \A s \in Services : DeliveriesMade(services)[s] = 0
  BY <1>1 DEF DeliveriesMade, NewService
<1>3. \A a \in Accounts : AtaMade(senders)[a] = 0
  BY <1>1 DEF AtaMade
<1>4. DOMAIN services = Services /\ DOMAIN senders = Accounts
  BY <1>1
<1>5. Total(DeliveriesMade(services), Services) = 0 /\ Total(AtaMade(senders), Accounts) = 0
  BY <1>2, <1>3, SumZero, MarketplaceAssumption
<1>6. DeliveredRequests(requests) = {}
  BY <1>1 DEF DeliveredRequests
<1>7. EachDeliveryCountedOnce
  BY <1>4, <1>5, <1>6, FS_EmptySet DEF EachDeliveryCountedOnce
<1>8. AtaCounted
  BY <1>1, <1>4, <1>5, FS_EmptySet DEF AtaCounted, AtaOncePerTransaction
<1> QED BY <1>7, <1>8

LEMMA InitiallyCounted ==
  ASSUME Init
  PROVE  CountedInv
<1>1. /\ logs = <<>> /\ requests = [r \in Ids |-> NoRow] /\ status = [r \in Ids |-> "none"]
      /\ totals.deliveries = 0 /\ answered = 0
  BY DEF Init
<1>2. \A k \in DOMAIN logs : FALSE
  BY <1>1
<1>3. DeliveriesComing /\ LogsCounted
  BY <1>1, <1>2 DEF DeliveriesComing, LogsCounted
<1>4. AskedHaveRows /\ OnlyAsked
  BY <1>1 DEF AskedHaveRows, OnlyAsked
<1> QED BY <1>3, <1>4, InitiallyMinted, InitiallyBalanced, InitiallyTotalled DEF CountedInv

LEMMA StutteringCounts ==
  ASSUME CountedInv, UNCHANGED vars
  PROVE  CountedInv'
<1>1. /\ minted' = minted /\ status' = status /\ answered' = answered /\ tx' = tx
      /\ logs' = logs /\ createMechs' = createMechs /\ mechs' = mechs /\ services' = services
      /\ requests' = requests /\ markers' = markers /\ senders' = senders
      /\ ataTxs' = ataTxs /\ totals' = totals
  BY DEF vars, chainVars, mechVars, askVars, ataVars
<1>2. /\ \A r : (Undone(r)' <=> Undone(r)) /\ (Done(r)' <=> Done(r))
      /\ \A r : AskedByLog(r)' <=> AskedByLog(r)
  BY <1>1 DEF Undone, Done, AskedByLog
<1>3. DeliveriesComing'
  BY <1>1 DEF CountedInv, DeliveriesComing
<1>4. AskedHaveRows' /\ OnlyAsked'
  BY <1>1, <1>2 DEF CountedInv, AskedHaveRows, OnlyAsked
<1>5. LogsCounted'
  <2>1. \A k \in DOMAIN logs' : DeliveryBacked(k)' /\ AskBacked(k)'
    BY <1>1, <1>2 DEF CountedInv, LogsCounted, DeliveryBacked, AskBacked
  <2> QED BY <1>1, <2>1 DEF CountedInv, LogsCounted
<1>6. MechsMinted'
  BY <1>1 DEF CountedInv, MechsMinted, FirstMech
<1>7. BacklogsBalanced'
  BY <1>1 DEF CountedInv, BacklogsBalanced, Balanced, DoneDirectly, Waiting, Of, Done, Marked
<1>8. EachDeliveryCountedOnce' /\ AtaCounted'
  BY <1>1 DEF CountedInv, EachDeliveryCountedOnce, AtaCounted, AtaOncePerTransaction
<1> QED BY <1>3, <1>4, <1>5, <1>6, <1>7, <1>8 DEF CountedInv

LEMMA StepCounts ==
  ASSUME IInv, IInv', ComposeInv, ComposeInv', AttributedInv, CountedInv, [Next]_vars
  PROVE  CountedInv'
<1>1. CASE Contracts
  BY <1>1, ContractsCount
<1>2. CASE Handle
  <2>1. PICK price \in PossiblePrices : HandleAt(price)
    BY <1>2 DEF Handle
  <2>2. price \in Nat /\ NewServicesOnly
    BY <2>1, PricesTyped DEF AttributedInv
  <2> QED BY <2>1, <2>2, HandleKeepsCounted
<1>3. CASE UNCHANGED vars
  BY <1>3, StutteringCounts
<1> QED BY <1>1, <1>2, <1>3 DEF Next

LEMMA Counting == Spec => []CountedInv
<1>1. Init => CountedInv
  BY InitiallyCounted
<1>2. IInv /\ IInv' /\ ComposeInv /\ ComposeInv' /\ AttributedInv /\ CountedInv /\ [Next]_vars
        => CountedInv'
  BY StepCounts
<1> QED BY <1>1, <1>2, Invariance, Composing, Attributing, PTL DEF Spec

\* The rows of a mech's requests, between transactions or not.
LEMMA BacklogAtAll ==
  ASSUME IInv, ComposeInv, CountedInv
  PROVE  BacklogExact
<1> SUFFICES ASSUME NEW s \in Rows(mechs), minted[s] = 1
             PROVE  LET own == {r \in Rows(requests) : ServiceOf[requests[r].priority] = s}
                        viaMarketplace == {r \in own : markers[r] # NoRow /\ markers[r].marketplace}
                        m == mechs[s]
                    IN m.received + Cardinality({r \in own \ viaMarketplace : requests[r].delivered})
                         = m.self + m.others
                             + Cardinality({r \in viaMarketplace : ~ requests[r].delivered})
  BY DEF BacklogExact
<1> DEFINE own == {r \in Rows(requests) : ServiceOf[requests[r].priority] = s}
           viaMarketplace == {r \in own : markers[r] # NoRow /\ markers[r].marketplace}
<1>1. s \in Services /\ mechs[s] # NoRow
  BY DEF ComposeInv, RowTypes, Rows
<1>2. DOMAIN requests = Ids /\ DOMAIN markers = Ids
  BY DEF IInv, Typed
<1>3. own = Of(s)
  BY <1>2 DEF Of, Rows
<1>4. /\ {r \in own \ viaMarketplace : requests[r].delivered} = DoneDirectly(s)
      /\ {r \in viaMarketplace : ~ requests[r].delivered} = Waiting(s)
  BY <1>2, <1>3 DEF DoneDirectly, Waiting, Done, Marked, Of
<1>5. Balanced(s)
  BY <1>1 DEF CountedInv, BacklogsBalanced
<1> QED BY <1>4, <1>5, Zenon DEF Balanced

LEMMA CountedAtAll ==
  ASSUME IInv, ComposeInv, CountedInv
  PROVE  RequestsCounted
<1>1. DeliveriesMatchChain
  <2> SUFFICES ASSUME logs = <<>>
               PROVE  totals.deliveries = answered
    BY DEF DeliveriesMatchChain, Handled
  <2>1. \A k \in DOMAIN logs : FALSE
    OBVIOUS
  <2> QED BY <2>1 DEF CountedInv, DeliveriesComing
<1>2. AtaOncePerTransaction /\ EachDeliveryCountedOnce
  BY DEF CountedInv, AtaCounted
<1> QED BY <1>1, <1>2, BacklogAtAll DEF RequestsCounted

\* What is counted is counted once, whatever is delivered twice, signed, direct or by a
\* foreign mech: the marketplace's deliveries are those of its contract (handlers.ts:832);
\* the services' are the delivered requests, by the write-once guards (logic.ts:45); what
\* the only mech of a service received is what it or others delivered or what still waits
\* (handlers.ts:315-322); and an agent transaction counts once in the totals, or twice
\* when a service multisig asks (handlers.ts:990).
THEOREM RequestsAlwaysCounted == Spec => []RequestsCounted
<1>1. IInv /\ ComposeInv /\ CountedInv => RequestsCounted
  BY CountedAtAll
<1> QED BY <1>1, Invariance, Composing, Counting, PTL

=============================================================================
