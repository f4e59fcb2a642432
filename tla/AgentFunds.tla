------------------------------ MODULE AgentFunds ------------------------------
(***************************************************************************)
(* The registry, funding and balance handlers of the babydegen-mode         *)
(* subgraph (subgraphs/babydegen-mode/src: serviceRegistry.ts, safe.ts,     *)
(* tokenBalances.ts, common.ts and ensureAgentPortfolio of helpers.ts).     *)
(*                                                                         *)
(* The chain runs ahead of the tables by one block.  Its operations append  *)
(* the logs of the block; Index handles them, as graph-node does, with the  *)
(* Safe events of a block's new data sources last, and every call of a      *)
(* handler to a contract sees the end of the block.  Amounts are whole, the *)
(* price of ETH is one of Prices for a block, that of other tokens is 1.    *)
(***************************************************************************)
EXTENDS Integers, SequencesExt

CONSTANTS Ids, ExcludedIds, Operators, Multisigs,
          Home,            \* multisig |-> the service it is deployed for
          Outsiders,       \* other addresses
          Contracts,       \* the outsiders that may become contracts
          Tokens, Amounts,
          Moves,           \* the pairs of addresses between which something moves
          AgentIds, Prices,
          MaxTime, MaxLogs, MaxHeld  \* bounds

OptimusAgent == 40
ExcludedOlasSender == "excluded"
WhitelistedTokens == {"WETH", "MODE", "OLAS", "USDC", "USDT"}
FundingTokens == {"USDC"}

VARIABLES
  now, price,
  code,      \* the addresses with code
  held,      \* <<multisig, token>> |-> what it has
  truth,     \* what the chain has seen, below
  logs,      \* the logs of the block that is not yet indexed
  tables

fundVars == <<now, price, code, held, truth, logs, tables>>

Saved(f, k, v) == (k :> v) @@ f

\* Service, ServiceIndex and ServiceRegistration by their ids, the registered
\* services of the scheduler, the Safe data sources, AddressType, FundingBalance,
\* TokenBalance, AgentPortfolio and ProtocolPosition.
NoTables ==
  [registration |-> <<>>, current |-> <<>>, service |-> <<>>, scheduled |-> <<>>, hosts |-> {},
   contract |-> <<>>, funding |-> <<>>, balance |-> <<>>, portfolio |-> <<>>, position |-> <<>>]

\* What the tables are to tell, from the chain: the operator that registered last for
\* the agent and the multisig deployed last of a service; who operates a multisig;
\* what moved between it and its sources in USD; what it got before it was a service or
\* is left out on purpose; the Safes a transaction with a value executed.
NoTruth ==
  [operator |-> <<>>, multisig |-> <<>>, operatorOf |-> <<>>,
   in |-> [m \in Multisigs |-> 0], out |-> [m \in Multisigs |-> 0], withdrawn |-> [m \in Multisigs |-> 0],
   untracked |-> [h \in Multisigs \X (Tokens \cup {"ETH"}) |-> 0], valued |-> {}]

Safes == code \cap (Multisigs \cup Operators)

-----------------------------------------------------------------------------
(* Services.                                                                 *)

\* getServiceByAgent
IsService(t, a) == a \in DOMAIN t.service

\* The current service of an id follows its registration.
HandleRegisterInstance(t, log) ==
  IF log.agent # OptimusAgent \/ log.id \in ExcludedIds THEN t
  ELSE LET registered == [t EXCEPT !.registration = Saved(@, log.id, log.operator)]
       IN IF log.id \in DOMAIN t.current
          THEN [registered EXCEPT !.service[t.current[log.id]].operator = log.operator]
          ELSE registered

RegisterServiceForSnapshots(t, m) ==
  [t EXCEPT !.scheduled = IF Contains(@, m) THEN @ ELSE Append(@, m)]

\* The service row is a new one, its positions are none, even of a multisig that has one.
HandleCreateMultisigWithAgents(t, log) ==
  IF log.id \in ExcludedIds \/ log.id \notin DOMAIN t.registration THEN t
  ELSE LET retired == IF log.id \in DOMAIN t.current
                      THEN [t EXCEPT !.service[t.current[log.id]].active = FALSE] ELSE t
           operator == t.registration[log.id]
       IN RegisterServiceForSnapshots(
            [retired EXCEPT !.service = Saved(@, log.safe, [id |-> log.id, operator |-> operator,
                                                            active |-> TRUE, listed |-> <<>>]),
                            !.current = Saved(@, log.id, log.safe),
                            !.hosts = @ \cup {log.safe, operator}],
            log.safe)

-----------------------------------------------------------------------------
(* Portfolios and funding.                                                   *)

NewPortfolio(first) ==
  [first |-> first, initial |-> 0, final |-> 0, positions |-> 0, uninvested |-> 0, withdrawn |-> 0,
   active |-> 0, closed |-> 0, realized |-> [invested |-> 0, gross |-> 0, costs |-> 0], roi |-> 0,
   baseline |-> 0, snapshot |-> 0]

EnsureAgentPortfolio(t, m) ==
  IF m \in DOMAIN t.portfolio THEN t
  ELSE [t EXCEPT !.portfolio =
          Saved(@, m, NewPortfolio(IF m \in DOMAIN t.funding THEN t.funding[m].first ELSE 0))]

UpdateFirstTradingTimestamp(t, m) ==
  LET u == EnsureAgentPortfolio(t, m)
  IN IF u.portfolio[m].first = 0 THEN [u EXCEPT !.portfolio[m].first = now] ELSE u

\* The row of a service's funding, created by any flow.
FundingOf(t, m) ==
  IF m \in DOMAIN t.funding THEN t.funding[m] ELSE [in |-> 0, out |-> 0, withdrawn |-> 0, first |-> now]
NetUsd(t, m) == IF m \in DOMAIN t.funding THEN t.funding[m].in - t.funding[m].out ELSE 0

UpdateFundingBalance(t, m, usd, deposit) ==
  LET row == FundingOf(t, m)
      next == IF deposit THEN [row EXCEPT !.in = @ + usd] ELSE [row EXCEPT !.out = @ + usd]
  IN EnsureAgentPortfolio([t EXCEPT !.funding = Saved(@, m, next)], m)

UpdateWithdrawalTracking(t, m, usd) ==
  EnsureAgentPortfolio([t EXCEPT !.funding = Saved(@, m, [FundingOf(t, m) EXCEPT !.withdrawn = @ + usd])], m)

\* isEOACached, on what the first check of the address recorded.
IsEOA(t, a) == IF a \in DOMAIN t.contract THEN ~t.contract[a] ELSE a \notin code
AddressTypeSaved(t, a) == IF a \in DOMAIN t.contract THEN t ELSE [t EXCEPT !.contract = Saved(@, a, a \in code)]

IsFundingSource(t, a, m) == IsService(t, m) /\ (a = t.service[m].operator \/ IsEOA(t, a))

-----------------------------------------------------------------------------
(* Balances.                                                                 *)

\* getTokenPriceUSD of this module's tokens (AgentPrices has the rest of it).
GetTokenPriceUSD(token) == IF token \in {"ETH", "WETH"} THEN price ELSE 1

AmountOf(t, m, token) == IF <<m, token>> \in DOMAIN t.balance THEN t.balance[<<m, token>>].amount ELSE 0

\* A balance after a change, never below zero.
BalanceSaved(t, m, token, change) ==
  LET amount == Max({0, AmountOf(t, m, token) + change})
  IN [t EXCEPT !.balance =
        Saved(@, <<m, token>>, [amount |-> amount, usd |-> amount * GetTokenPriceUSD(token)])]

UpdateETHBalance(t, m, change) == IF IsService(t, m) THEN BalanceSaved(t, m, "ETH", change) ELSE t
UpdateTokenBalance(t, m, token, change) ==
  IF IsService(t, m) /\ token \in WhitelistedTokens THEN BalanceSaved(t, m, token, change) ELSE t

CalculateUninvestedValue(t, m) ==
  FoldSet(LAMBDA token, sum : sum + IF AmountOf(t, m, token) > 0 THEN t.balance[<<m, token>>].usd ELSE 0,
          0, WhitelistedTokens \cup {"ETH"})

Excluded(log) == log.token = "OLAS" /\ log.from = ExcludedOlasSender

\* The deposit half of handleERC20Transfer.
Deposited(t, log) ==
  LET held1 == EnsureAgentPortfolio(UpdateTokenBalance(t, log.to, log.token, log.amount), log.to)
      checked == AddressTypeSaved(held1, log.from)
  IN IF IsFundingSource(held1, log.from, log.to) /\ log.token \in FundingTokens
     THEN UpdateFundingBalance(checked, log.to, log.amount * GetTokenPriceUSD(log.token), TRUE)
     ELSE checked

\* The withdrawal half.
Withdrawn(t, log) ==
  LET sent == UpdateTokenBalance(t, log.from, log.token, -log.amount)
  IN IF log.token \notin FundingTokens THEN sent
     ELSE IF IsFundingSource(sent, log.to, log.from)
     THEN UpdateWithdrawalTracking(AddressTypeSaved(sent, log.to), log.from, log.amount * GetTokenPriceUSD(log.token))
     ELSE AddressTypeSaved(sent, log.to)

\* Mutant: a transfer between two services is only a deposit.
TransferOnce(t, log) ==
  IF log.token \notin WhitelistedTokens THEN t
  ELSE IF IsService(t, log.to) THEN IF Excluded(log) THEN t ELSE Deposited(t, log)
  ELSE IF IsService(t, log.from) THEN Withdrawn(t, log) ELSE t

\* An excluded OLAS transfer leaves before the withdrawal half.
HandleERC20Transfer(t, log) ==
  IF log.token \notin WhitelistedTokens \/ (IsService(t, log.to) /\ Excluded(log)) THEN t
  ELSE LET received == IF IsService(t, log.to) THEN Deposited(t, log) ELSE t
       IN IF IsService(received, log.from) THEN Withdrawn(received, log) ELSE received

-----------------------------------------------------------------------------
(* ETH.                                                                      *)

\* Only the sender's operator is looked at when the receiver is no service; a payment of
\* a service to another is not taken from its balance.
HandleSafeReceived(t, log) ==
  LET usd == log.amount * price
  IN CASE IsService(t, log.safe) ->
            LET checked == AddressTypeSaved(t, log.from)
                funded == IF IsFundingSource(t, log.from, log.safe)
                          THEN UpdateFundingBalance(checked, log.safe, usd, TRUE) ELSE checked
            IN UpdateETHBalance(funded, log.safe, log.amount)
       [] ~IsService(t, log.safe) /\ IsService(t, log.from) ->
            UpdateETHBalance(IF log.safe = t.service[log.from].operator
                             THEN UpdateFundingBalance(t, log.from, usd, FALSE) ELSE t,
                             log.from, -log.amount)
       [] OTHER -> t

\* handleSafeEthTransfer, behind ExecutionSuccess and ExecutionFromModuleSuccess: the
\* receiver and the value are those of the transaction.
HandleSafeEthTransfer(t, log) ==
  IF ~IsService(t, log.safe) \/ log.value = 0 THEN t
  ELSE LET paid == AddressTypeSaved(UpdateETHBalance(t, log.safe, -log.value), log.target)
       IN IF IsFundingSource(paid, log.target, log.safe)
          THEN UpdateFundingBalance(paid, log.safe, log.value * price, FALSE) ELSE paid

-----------------------------------------------------------------------------
(* A block.                                                                  *)

HandleFunds(t, log) ==
  CASE log.kind = "register" -> HandleRegisterInstance(t, log)
    [] log.kind = "deploy" -> HandleCreateMultisigWithAgents(t, log)
    [] log.kind = "transfer" -> HandleERC20Transfer(t, log)
    [] log.kind = "received" -> HandleSafeReceived(t, log)
    [] log.kind = "executed" -> HandleSafeEthTransfer(t, log)
    [] OTHER -> t

OfSafe(log) == log.kind \in {"received", "executed"}

\* The block's logs by some handlers; the new data sources' after the others.
BlockIndexed(Handle(_, _), t) ==
  LET first == FoldLeft(Handle, t, SelectSeq(logs, LAMBDA log : OfSafe(log) => log.safe \in t.hosts))
      late == SelectSeq(logs, LAMBDA log : OfSafe(log) /\ log.safe \in first.hosts \ t.hosts)
  IN FoldLeft(Handle, first, late)

Index ==
  /\ logs # <<>> /\ now < MaxTime
  /\ tables' = BlockIndexed(HandleFunds, tables)
  /\ logs' = <<>> /\ now' = now + 1 /\ price' \in Prices
  /\ UNCHANGED <<code, held, truth>>

-----------------------------------------------------------------------------
(* The chain.                                                                *)

FundInit ==
  /\ now = 1 /\ price \in Prices /\ code = Operators
  /\ held = [h \in Multisigs \X (Tokens \cup {"ETH"}) |-> 0]
  /\ truth = NoTruth /\ logs = <<>> /\ tables = NoTables

Room(n) == Len(logs) + n <= MaxLogs
Emit(log) == logs' = Append(logs, log)

\* RegisterInstance, before the service's next deployment; not in the block of the last
\* one, whose first payments would be judged by the operator after them.
Register(id, operator, agent) ==
  /\ Room(1) /\ \A i \in DOMAIN logs : logs[i].kind = "deploy" => logs[i].id # id
  /\ Emit([kind |-> "register", id |-> id, operator |-> operator, agent |-> agent])
  /\ truth' = IF agent # OptimusAgent THEN truth
              ELSE [truth EXCEPT !.operator = Saved(@, id, operator),
                                 !.operatorOf = IF id \in DOMAIN truth.multisig
                                                THEN Saved(@, truth.multisig[id], operator) ELSE @]
  /\ UNCHANGED <<now, price, code, held, tables>>

\* The ETH a Safe got in this block from some sources.
GotBefore(m, sources(_)) ==
  FoldSeq(LAMBDA log, sum :
            sum + IF log.kind = "received" /\ log.safe = m /\ sources(log.from) THEN log.amount * price ELSE 0,
          0, logs)

Pays(log, a) == log.kind = "transfer" /\ log.to = a

\* CreateMultisigWithAgents: of a new multisig, not paid before in the block that creates
\* it (its handlers see a contract all along), or of one there was, whose ETH of the
\* block counts if it was of no agent.
Deploy(m) ==
  /\ Room(1)
  /\ m \notin code => \A i \in DOMAIN logs : ~Pays(logs[i], m)
  /\ Emit([kind |-> "deploy", id |-> Home[m], safe |-> m])
  /\ truth' = IF Home[m] \notin DOMAIN truth.operator THEN truth
              ELSE [truth EXCEPT
                      !.multisig = Saved(@, Home[m], m),
                      !.operatorOf = Saved(@, m, truth.operator[Home[m]]),
                      !.in[m] = IF m \in DOMAIN truth.operatorOf THEN @
                                ELSE @ + GotBefore(m, LAMBDA a : a \notin code \/ a = truth.operator[Home[m]])]
  /\ code' = code \cup {m}
  /\ UNCHANGED <<now, price, held, tables>>

\* A contract is created at an address that was none.
AcquireCode(a) ==
  /\ logs = <<>> /\ a \notin code /\ code' = code \cup {a}
  /\ UNCHANGED <<now, price, held, truth, logs, tables>>

\* Whether an address is one of the sources of a multisig, by the chain.
IsSource(a, m) == a \notin code \/ (m \in DOMAIN truth.operatorOf /\ a = truth.operatorOf[m])
Served(m) == m \in DOMAIN truth.operatorOf /\ Home[m] \notin ExcludedIds

Holds(a, token, n) == a \in Multisigs => a \in code /\ held[<<a, token>>] >= n
HeldAfter(from, to, token, n) ==
  [h \in DOMAIN held |-> held[h] + (IF h = <<to, token>> THEN n ELSE 0) - (IF h = <<from, token>> THEN n ELSE 0)]
Fits(to, token, n) == to \in Multisigs => held[<<to, token>>] + n <= MaxHeld

\* A Transfer of a token.
MoveToken(from, to, token, n) ==
  LET log == [kind |-> "transfer", token |-> token, from |-> from, to |-> to, amount |-> n]
      funds == token \in FundingTokens
  IN /\ Room(1) /\ Holds(from, token, n) /\ Fits(to, token, n)
     /\ Emit(log)
     /\ held' = HeldAfter(from, to, token, n)
     /\ truth' = [truth EXCEPT
          !.in = [m \in Multisigs |-> @[m] + IF m = to /\ Served(m) /\ funds /\ IsSource(from, m) THEN n ELSE 0],
          !.withdrawn = [m \in Multisigs |-> @[m] + IF m = from /\ Served(m) /\ funds /\ IsSource(to, m)
                                                    THEN n ELSE 0],
          !.untracked = [h \in DOMAIN @ |-> @[h] + IF h = <<to, token>> /\ (~Served(to) \/ Excluded(log))
                                                   THEN n ELSE 0]]
     /\ UNCHANGED <<now, price, code, tables>>

Received(from, to, n) ==
  IF n > 0 /\ to \in Safes THEN <<[kind |-> "received", safe |-> to, from |-> from, amount |-> n]>> ELSE <<>>

\* What a payment of ETH between two addresses adds to what the chain has seen.
EthPaid(seen, from, to, n) ==
  [seen EXCEPT
     !.in = [m \in Multisigs |-> @[m] + IF m = to /\ Served(m) /\ IsSource(from, m) THEN n * price ELSE 0],
     !.out = [m \in Multisigs |-> @[m] + IF m = from /\ Served(m) /\ IsSource(to, m) THEN n * price ELSE 0],
     !.untracked = [h \in DOMAIN @ |-> @[h] + IF h = <<to, "ETH">> /\ ~Served(to) THEN n ELSE 0]]

\* ETH of a source, or of another address that is no agent.
MoveEth(from, to, n) ==
  /\ from \notin Multisigs /\ to \in Safes /\ Room(1) /\ Fits(to, "ETH", n)
  /\ logs' = logs \o Received(from, to, n)
  /\ held' = HeldAfter(from, to, "ETH", n)
  /\ truth' = EthPaid(truth, from, to, n)
  /\ UNCHANGED <<now, price, code, tables>>

\* A Safe executes: it may pay n, then it says so; the transaction may carry a value to it.
Execute(m, to, n, value) ==
  /\ m \in code /\ Room(2) /\ Holds(m, "ETH", n) /\ Fits(to, "ETH", n) /\ Fits(m, "ETH", value)
  /\ logs' = logs \o Received(m, to, n)
               \o <<[kind |-> "executed", safe |-> m, target |-> m, value |-> value]>>
  /\ held' = [HeldAfter(m, to, "ETH", n) EXCEPT ![<<m, "ETH">>] = @ + value]
  /\ truth' = [EthPaid(truth, m, to, n) EXCEPT !.valued = IF value > 0 THEN @ \cup {m} ELSE @]
  /\ UNCHANGED <<now, price, code, tables>>

FundOps ==
  \/ \E id \in Ids, o \in Operators, agent \in AgentIds : Register(id, o, agent)
  \/ \E m \in Multisigs : Deploy(m)
  \/ \E a \in Contracts : AcquireCode(a)
  \/ \E move \in Moves, n \in Amounts :
       \/ \E token \in Tokens : MoveToken(move[1], move[2], token, n)
       \/ MoveEth(move[1], move[2], n)
       \/ /\ move[1] \in Multisigs
          /\ \E pays \in {0, n}, value \in {0, n} : Execute(move[1], move[2], pays, value)

FundNext == FundOps \/ Index

FundSpec == FundInit /\ [][FundNext]_fundVars

-----------------------------------------------------------------------------
(* What is to hold once the block is indexed.                                *)

Indexed == logs = <<>>
NeverStale == \A a \in DOMAIN tables.contract : tables.contract[a] = (a \in code)

\* handleRegisterInstance, handleCreateMultisigWithAgents (serviceRegistry.ts:29-147): a
\* service's one active row is its last multisig, with the operator that registered
\* last for it, and every such multisig is listened to and scheduled once.
ServicesFollowRegistry ==
  Indexed =>
    LET deployed == {id \in DOMAIN truth.multisig : id \notin ExcludedIds}
        active == {m \in DOMAIN tables.service : tables.service[m].active}
    IN /\ active = {truth.multisig[id] : id \in deployed}
       /\ \A m \in active : tables.service[m].id = Home[m] /\ tables.service[m].operator = truth.operatorOf[m]
       /\ DOMAIN tables.service \subseteq tables.hosts
       /\ ToSet(tables.scheduled) = DOMAIN tables.service /\ IsInjective(tables.scheduled)

\* isFundingSource and updateFundingBalance (common.ts:62-86, tokenBalances.ts:180-311): in
\* USD of the block, a service has been funded and has withdrawn what moved between it
\* and its sources, as long as no source has become a contract after it was
\* checked; its ETH outflows are never more than those there were.
FundingFollowsSources ==
  Indexed /\ NeverStale =>
    \A m \in DOMAIN tables.service \ truth.valued :
      LET row == FundingOf(tables, m)
      IN row.in = truth.in[m] /\ row.withdrawn = truth.withdrawn[m] /\ row.out <= truth.out[m]

\* handleERC20Transfer (tokenBalances.ts:157-241): a service's recorded tokens are what it
\* holds, but for what it got before it was one and what is left out on purpose.
TokensAsHeld ==
  Indexed =>
    \A m \in DOMAIN tables.service, token \in Tokens \cap WhitelistedTokens :
      LET h == <<m, token>>
      IN /\ AmountOf(tables, m, token) <= held[h]
         /\ held[h] <= AmountOf(tables, m, token) + truth.untracked[h]

\* handleSafeReceived, handleSafeEthTransfer (safe.ts:17-177): not every ETH outflow is seen,
\* every inflow is, unless a transaction brought it that the Safe executed.
EthNeverUnderstated ==
  Indexed =>
    \A m \in DOMAIN tables.service \ truth.valued :
      held[<<m, "ETH">>] <= AmountOf(tables, m, "ETH") + truth.untracked[<<m, "ETH">>]

=============================================================================
