------------------------------ MODULE PearlFunds ------------------------------
(***************************************************************************)
(* The handlers of the pearl-transactions squid                            *)
(* (squids/pearl-transactions/src/handlers.ts, logic.ts): which addresses  *)
(* belong to a Pearl user and in which role, and what each transfer and    *)
(* bond is booked as.  Roles are given once and links come in any order,   *)
(* so that the same transfer may be booked in different ways.              *)
(*                                                                         *)
(* There is one ERC-20 token, OLAS, and every amount is 1.  Reorganisations *)
(* and batches are in TrackedIndex and EntityCache.                        *)
(***************************************************************************)
EXTENDS Integers, Sequences, FiniteSets, SequencesExt

CONSTANTS Services, Safes, Eoas, Multisigs, Proxies, App,
          OwnersOf,    \* the owners of each of the Safes at the start
          MultisigOf,  \* the multisig of each service that is deployed at the start
          OperatorsOf, \* who may run an agent of a service that its owner does not
          Plans,       \* bounds: the kinds of contract calls a behaviour has and how many,
                       \* and the services, their owners and signers before START_BLOCK
          Founded,     \* the staking proxies created before
          Foreign,     \* those of an implementation that is not allowed
          MaxDays,
          None

\* ServiceRegistryL2 and ServiceRegistryTokenUtility.
Registry == "registry"
Srtu == "srtu"

Addresses == Safes \cup Eoas \cup Multisigs \cup Proxies \cup {App, Registry, Srtu}
Owners == Safes \cup Eoas
Days == 1 .. MaxDays

ASSUME PearlAssumption ==
  /\ OwnersOf \in [Safes -> Seq(Eoas)] /\ \A m \in Safes : OwnersOf[m] # <<>>
  /\ MultisigOf \in [Services -> Multisigs]
  /\ OperatorsOf \in [Services -> SUBSET Owners]
  /\ Founded \subseteq Proxies \ Foreign /\ Foreign \subseteq Proxies
  /\ None \notin Services \cup Addresses
  /\ \A p \in Plans : /\ p.max \in Nat
                       /\ p.owner \in [Services -> Owners]
                       /\ p.signers \in [Services -> SUBSET Eoas]
                       /\ p.joint \in BOOLEAN /\ p.native \subseteq BOOLEAN
  /\ MaxDays \in Nat \ {0}

VARIABLES
  \* The contracts: stage, owner and multisig of each service, the proxy it is
  \* staked in, its operators and agent signers; the owners of each Safe.
  stage, owner, multisig, stakedIn, operators, signers, safeOwners,
  plan, calls, tx, day, logs,
  at,        \* position of the last handled log
  \* What the chain says, for the properties: net transfers since an address was
  \* tracked, what an Agent Safe got of other ones, legs of funding, the latest
  \* registration of a signer.
  gained, exchanged, funded, registeredWith,
  \* The tables.
  services, masters, agentSafes, tracked, pending, instances, bonds, balances,
  movements, afes, daily,
  \* BondQueue of the transaction.
  queue, guard

chainVars == <<stage, owner, multisig, stakedIn, operators, signers, safeOwners, plan, calls, tx, day>>
ghostVars == <<gained, exchanged, funded, registeredWith>>
linkVars == <<services, masters, agentSafes, tracked, pending, instances>>
ledgerVars == <<balances, movements, afes, daily>>
bondVars == <<bonds, queue, guard>>
vars == <<chainVars, logs, at, ghostVars, linkVars, ledgerVars, bondVars>>

NewService == [master |-> None, agent |-> None, operators |-> {}, staked |-> None, rewards |-> 0,
               since |-> at]
NoPending == [operators |-> {}, instances |-> <<>>]
Untracked == [role |-> "", master |-> None, service |-> None]
Categories == {"SAFE_DEPLOYED", "SAFE_SETUP_TRANSFER", "MASTER_FUNDING_IN", "MASTER_WITHDRAWAL",
               "MASTER_TO_AGENT", "AGENT_TO_MASTER", "AGENT_OLAS_TO_MASTER", "AGENT_TO_APP",
               "APP_TO_AGENT", "STAKING_REWARD_CLAIM", "UNSTAKE_REWARD", "SERVICE_EVICTED",
               "AGENT_SAFE_TO_AGENT_EOA", "OTHER"}

TypeOK ==
  /\ services \in [Services -> {None} \cup
       [master : Safes \cup {None}, agent : Multisigs \cup {None}, operators : SUBSET Owners,
        staked : Proxies \cup {None}, rewards : Nat,
        since : Nat]]
  /\ \A m \in Safes : masters[m] # None => masters[m].owners \in Seq(Eoas)
  /\ agentSafes \subseteq Multisigs
  /\ tracked \in [Addresses ->
       [role : {"", "MASTER", "AGENT", "MASTER_EOA", "AGENT_EOA", "STAKING"},
        master : Safes \cup {None}, service : Services \cup {None}]]
  /\ pending \in [Services -> [operators : SUBSET Owners,
                               instances : Seq([signer : Eoas, at : Nat])]]
  /\ instances \in [Eoas -> {None} \cup [service : Services, at : Nat]]
  /\ \A b \in DOMAIN bonds : bonds[b].service \in Services \cup {None}
  /\ balances \in [Addresses -> Int]
  /\ \A row \in movements : row.category \in Categories
  /\ daily \in [Services -> [Days -> [claimed : Nat, cumulative : Nat]]]

Init ==
  /\ plan \in Plans /\ stage = plan.stage /\ owner = plan.owner /\ signers = plan.signers
  /\ multisig = [s \in Services |-> IF stage[s] = "deployed" THEN MultisigOf[s] ELSE None]
  /\ stakedIn = [s \in Services |-> None]
  /\ operators = [s \in Services |-> IF signers[s] = {} THEN {} ELSE {owner[s]}]
  /\ safeOwners = OwnersOf
  /\ calls = 0 /\ tx = 1 /\ day = 1 /\ logs = <<>> /\ at = 0
  /\ gained = [a \in Addresses |-> 0] /\ exchanged = gained /\ funded = {}
  /\ registeredWith = [e \in Eoas |-> None]
  /\ services = [s \in Services |-> None] /\ masters = [m \in Safes |-> None]
  /\ agentSafes = {} /\ pending = [s \in Services |-> NoPending]
  /\ tracked = [a \in Addresses |-> IF a \in Founded
                                    THEN [Untracked EXCEPT !.role = "STAKING"] ELSE Untracked]
  /\ instances = [e \in Eoas |-> None]
  /\ bonds = <<>> /\ queue = <<>> /\ guard = {}
  /\ balances = [a \in Addresses |-> 0] /\ movements = {} /\ afes = <<>>
  /\ daily = [s \in Services |-> [d \in Days |-> [claimed |-> 0, cumulative |-> 0]]]

-----------------------------------------------------------------------------
(* The contracts (external): each call emits its logs, in a transaction of   *)
(* its own or, as the bond queue is of a transaction, in that of the calls   *)
(* with bonds before it.                                                     *)

Bonded == {"activate", "register", "terminate", "unbond"}

Emit(kind, emitted) ==
  /\ logs = <<>> /\ kind \in plan.calls /\ calls < plan.max
  /\ logs' = emitted
  /\ calls' = calls + 1
  /\ \/ tx' = tx + 1 /\ queue' = <<>> /\ guard' = {}
     \/ plan.joint /\ kind \in Bonded /\ queue # <<>> /\ UNCHANGED <<tx, queue, guard>>
  /\ UNCHANGED <<plan, at, gained, exchanged, linkVars, ledgerVars, bonds>>

Nft(s, from, to) == [op |-> "nft", service |-> s, from |-> from, to |-> to]
Transfer(from, to) == [op |-> "transfer", from |-> from, to |-> to]
Received(from, safe) == [op |-> "received", from |-> from, to |-> safe]
Bond(kind, account, s, type) ==
  [op |-> kind, account |-> account, service |-> s, type |-> type]

EmitCreate ==
  \E s \in Services :
    /\ stage[s] = "none"
    /\ stage' = [stage EXCEPT ![s] = "minted"]
    /\ Emit("create", <<Nft(s, None, owner[s])>>)
    /\ UNCHANGED <<owner, multisig, stakedIn, operators, signers, safeOwners, day, funded,
                   registeredWith>>

\* ServiceManager makes the deposit first; a service secured with the native
\* token has none.
EmitActivate ==
  \E s \in Services, native \in plan.native :
    /\ stage[s] = "minted"
    /\ stage' = [stage EXCEPT ![s] = "active"]
    /\ Emit("activate",
            (IF native THEN <<>>
             ELSE <<Transfer(owner[s], Srtu), Bond("deposit", owner[s], s, "SECURITY_DEPOSIT")>>)
            \o <<[op |-> "activate", service |-> s]>>)
    /\ UNCHANGED <<owner, multisig, stakedIn, operators, signers, safeOwners, day, funded,
                   registeredWith>>

\* One deposit for all the agents that are registered by the call.
EmitRegister ==
  \E s \in Services, new \in SUBSET Eoas :
    \E operator \in {owner[s]} \cup OperatorsOf[s] :
      LET instance(e) == [op |-> "register", service |-> s, operator |-> operator, signer |-> e]
      IN
      /\ stage[s] = "active" /\ new # {}
      /\ \A t \in Services : signers[t] \cap new = {}
      /\ Emit("register",
              <<Transfer(operator, Srtu), Bond("deposit", operator, s, "AGENT_BOND")>>
              \o SetToSeq({instance(e) : e \in new}))
      /\ stage' = [stage EXCEPT ![s] = "registered"]
      /\ operators' = [operators EXCEPT ![s] = {operator}]
      /\ signers' = [signers EXCEPT ![s] = new]
      /\ registeredWith' = [e \in Eoas |-> IF e \in new THEN s ELSE registeredWith[e]]
      /\ UNCHANGED <<owner, multisig, stakedIn, safeOwners, day, funded>>

EmitDeploy ==
  \E s \in Services, g \in Multisigs :
    /\ stage[s] = "registered"
    /\ \A t \in Services \ {s} : multisig[t] # g
    /\ multisig[s] \in {None, g}
    /\ Emit("deploy", <<[op |-> "deploy", service |-> s, multisig |-> g]>>)
    /\ stage' = [stage EXCEPT ![s] = "deployed"]
    /\ multisig' = [multisig EXCEPT ![s] = g]
    /\ UNCHANGED <<owner, stakedIn, operators, signers, safeOwners, day, funded, registeredWith>>

EmitMove ==
  \E s \in Services, to \in Owners :
    /\ stage[s] # "none" /\ stakedIn[s] = None /\ to # owner[s]
    /\ owner' = [owner EXCEPT ![s] = to]
    /\ Emit("move", <<Nft(s, owner[s], to)>>)
    /\ UNCHANGED <<stage, multisig, stakedIn, operators, signers, safeOwners, day, funded,
                   registeredWith>>

\* The registry returns a few wei, the token utility the bond.
EmitTerminate ==
  \E s \in Services :
    /\ stage[s] \in {"active", "registered", "deployed"} /\ stakedIn[s] = None
    /\ Emit("terminate",
            <<Transfer(Srtu, owner[s]), Bond("refund", owner[s], s, "SECURITY_DEPOSIT")>>
            \o <<[op |-> "terminate", service |-> s]>>
            \o (IF owner[s] \in Safes THEN <<Received(Registry, owner[s])>> ELSE <<>>))
    /\ stage' = [stage EXCEPT ![s] = IF stage[s] = "active" THEN "minted" ELSE "terminated"]
    /\ UNCHANGED <<owner, multisig, stakedIn, operators, signers, safeOwners, day, funded,
                   registeredWith>>

EmitUnbond ==
  \E s \in Services : \E operator \in operators[s] :
    /\ stage[s] = "terminated"
    /\ Emit("unbond",
            <<Transfer(Srtu, operator), Bond("refund", operator, s, "AGENT_BOND")>>
            \o <<[op |-> "unbond", service |-> s]>>)
    /\ stage' = [stage EXCEPT ![s] = "minted"]
    /\ operators' = [operators EXCEPT ![s] = {}] /\ signers' = [signers EXCEPT ![s] = {}]
    /\ UNCHANGED <<owner, multisig, stakedIn, safeOwners, day, funded, registeredWith>>

\* The factory creates a proxy.
EmitInstance ==
  \E p \in Proxies :
    /\ p \notin Founded
    /\ Emit("instance", <<[op |-> "instance", proxy |-> p]>>)
    /\ UNCHANGED <<stage, owner, multisig, stakedIn, operators, signers, safeOwners, day, funded,
                   registeredWith>>

Staking(op, s, p, amount) ==
  [op |-> op, service |-> s, proxy |-> p, owner |-> owner[s], multisig |-> multisig[s],
   reward |-> amount]

EmitStake ==
  \E s \in Services, p \in Proxies :
    /\ stage[s] = "deployed" /\ stakedIn[s] = None
    /\ stakedIn' = [stakedIn EXCEPT ![s] = p]
    /\ Emit("stake", <<Nft(s, owner[s], p), Staking("staked", s, p, 0)>>)
    /\ UNCHANGED <<stage, owner, multisig, operators, signers, safeOwners, day, funded,
                   registeredWith>>

\* A reward is paid to the multisig, now or on a later day.
EmitClaim ==
  \E s \in Services, d \in day .. MaxDays :
    /\ stakedIn[s] # None
    /\ day' = d
    /\ Emit("claim", <<Transfer(stakedIn[s], multisig[s]), Staking("claimed", s, stakedIn[s], 1)>>)
    /\ UNCHANGED <<stage, owner, multisig, stakedIn, operators, signers, safeOwners, funded,
                   registeredWith>>

EmitUnstake ==
  \E s \in Services, amount \in {0, 1} :
    /\ stakedIn[s] # None
    /\ stakedIn' = [stakedIn EXCEPT ![s] = None]
    /\ Emit("unstake",
            <<Nft(s, stakedIn[s], owner[s])>>
            \o (IF amount = 1 THEN <<Transfer(stakedIn[s], multisig[s])>> ELSE <<>>)
            \o <<Staking("unstaked", s, stakedIn[s], amount)>>)
    /\ UNCHANGED <<stage, owner, multisig, operators, signers, safeOwners, day, funded,
                   registeredWith>>

EmitEvict ==
  \E s \in Services :
    /\ stakedIn[s] # None
    /\ Emit("evict", <<Staking("evicted", s, stakedIn[s], 0)>>)
    /\ UNCHANGED <<stage, owner, multisig, stakedIn, operators, signers, safeOwners, day, funded,
                   registeredWith>>

\* Somebody sends tokens, but not to the Token Utility without a bond.  What a
\* multisig sends to another one is a kind of its own in the plans.
EmitPay ==
  \E from, to \in Safes \cup Eoas \cup Multisigs \cup {App} :
    /\ from # to /\ (tracked[from].role # "" \/ tracked[to].role # "")
    /\ Emit(IF {from, to} \subseteq Multisigs THEN "exchange" ELSE "pay", <<Transfer(from, to)>>)
    /\ UNCHANGED <<stage, owner, multisig, stakedIn, operators, signers, safeOwners, day, funded,
                   registeredWith>>

\* The Agent Signers and the Agent Safe the tables can know the service has: those
\* of its registrations and deployments since START_BLOCK.
Payees(s) == {e \in signers[s] : registeredWith[e] = s}
             \cup (IF services[s].agent = multisig[s] THEN {multisig[s]} ELSE {})

\* A Safe pays native tokens to the Agent Safe and the Agent Signers of its
\* service, through MultiSend; a signer that is a contract can make the Safe
\* execute, and log, again.
EmitFund ==
  \E s \in Services : \E to \in SUBSET (signers[s] \cup {multisig[s]}), twice \in BOOLEAN :
    LET legs == SetToSeq(to)
        execution == [op |-> "execution", safe |-> owner[s], legs |-> legs, sender |-> App]
    IN
    /\ stage[s] = "deployed" /\ owner[s] \in Safes /\ stakedIn[s] = None /\ to # {}
    /\ Emit("fund",
            (IF multisig[s] \in to THEN <<Received(owner[s], multisig[s])>> ELSE <<>>)
            \o (IF twice THEN <<execution, execution>> ELSE <<execution>>))
    /\ funded' = IF services[s] # None /\ services[s].master = owner[s]
                 THEN funded \cup {[tx |-> tx', service |-> s, to |-> Payees(s) \cap to]}
                 ELSE funded
    /\ tx' # tx
    /\ UNCHANGED <<stage, owner, multisig, stakedIn, operators, signers, safeOwners, day,
                   registeredWith>>

\* An Agent Safe pays its signer, who made the call.
EmitTopUp ==
  \E s \in Services : \E e \in signers[s] :
    /\ stage[s] = "deployed"
    /\ Emit("topup", <<[op |-> "execution", safe |-> multisig[s], legs |-> <<e>>, sender |-> e]>>)
    /\ UNCHANGED <<stage, owner, multisig, stakedIn, operators, signers, safeOwners, day, funded,
                   registeredWith>>

\* addOwner puts the new one first; removeOwner keeps one owner; swapOwner logs a
\* removal and then an addition.
Owner(op, m, e) == [op |-> op, safe |-> m, owner |-> e]
EmitOwners ==
  \E m \in Safes, e \in Eoas :
    LET old == safeOwners[m]
        without == SelectSeq(old, LAMBDA o : o # e)
    IN
    /\ \/ /\ e \notin ToSet(old)
          /\ safeOwners' = [safeOwners EXCEPT ![m] = <<e>> \o old]
          /\ Emit("owners", <<Owner("addOwner", m, e)>>)
       \/ /\ e \in ToSet(old) /\ without # <<>>
          /\ safeOwners' = [safeOwners EXCEPT ![m] = without]
          /\ Emit("owners", <<Owner("removeOwner", m, e)>>)
       \/ \E new \in Eoas \ ToSet(old) :
          /\ e \in ToSet(old)
          /\ safeOwners' =
               [safeOwners EXCEPT ![m] = [i \in DOMAIN old |-> IF old[i] = e THEN new ELSE old[i]]]
          /\ Emit("swapOwner", <<Owner("removeOwner", m, e), Owner("addOwner", m, new)>>)
    /\ UNCHANGED <<stage, owner, multisig, stakedIn, operators, signers, day, funded,
                   registeredWith>>

-----------------------------------------------------------------------------
(* Tracking.  The tables that links are written to are passed along.         *)

\* upsertTracked
WithTracked(t, address, role, master, service) ==
  IF t[address].role # "" THEN t
  ELSE [t EXCEPT ![address] = [role |-> role, master |-> master, service |-> service]]

\* getOrCreateMasterSafe: an address that answers getOwners is a Safe.
TrackMaster(t, m) ==
  WithTracked(WithTracked(t, m, "MASTER", m, None), safeOwners[m][1], "MASTER_EOA", m, None)
DeployedRow(m) == [id |-> <<"deployed", m>>, category |-> "SAFE_DEPLOYED", to |-> m, tx |-> tx,
                   service |-> None, native |-> TRUE]
NewMaster(m) == [owners |-> safeOwners[m], eoa |-> safeOwners[m][1], setup |-> FALSE]

WithMaster(m) ==
  IF m \notin Safes \/ masters[m] # None
  THEN UNCHANGED <<masters, movements>>
  ELSE /\ masters' = [masters EXCEPT ![m] = NewMaster(m)]
       /\ movements' = movements \cup {DeployedRow(m)}
TrackedMaster(m) == IF m \in Safes /\ masters[m] = None THEN TrackMaster(tracked, m) ELSE tracked

\* The service is linked to the Master Safe, if that is one.
Linked(row, m) == IF m \in Safes THEN [row EXCEPT !.master = m] ELSE row

\* trackAgentSafe
WithAgent(t, g, s, row) ==
  IF row.master = None THEN t
  ELSE FoldSet(LAMBDA o, u : WithTracked(u, o, "AGENT_EOA", row.master, s),
               WithTracked(t, g, "AGENT", row.master, s),
               row.operators \ {row.master})

\* getOrCreateAgentSafe: trackAgentSafe when it is new, else linkLateAgentSafe.
WithAgentSafe(t, g, s, row) ==
  IF g \in agentSafes /\ t[g].role # "" THEN t ELSE WithAgent(t, g, s, row)

\* getOrCreateService
ServiceOrNew(s) == IF services[s] = None THEN NewService ELSE services[s]

-----------------------------------------------------------------------------
(* Handlers: each handles the next log.                                      *)

Log == Head(logs)
NextLog(op) ==
  /\ logs # <<>> /\ Log.op = op
  /\ logs' = Tail(logs) /\ at' = at + 1
  /\ UNCHANGED <<chainVars, funded, registeredWith>>

Row(id, category, s, to, native) ==
  [id |-> id, category |-> category, service |-> s, to |-> to, native |-> native, tx |-> tx]
EventId == <<"event", at>>

\* linkAgentInstance: unless a later registration did already.
LinkInstance(table, signer, s, position) ==
  IF table[signer] # None /\ table[signer].at > position THEN table
  ELSE [table EXCEPT ![signer] = [service |-> s, at |-> position]]

\* BondQueue.dequeue
Undone == {i \in DOMAIN queue : ~ queue[i].done}
Oldest == CHOOSE i \in Undone : \A j \in Undone : i <= j

\* attributeBond, for the oldest movement of the transaction that nobody took; its
\* service is set if that has a row.
Attribute(s, type, row) ==
  IF Undone = {} THEN UNCHANGED <<queue, bonds>>
  ELSE LET b == queue[Oldest].bond
           bond == [bonds[b] EXCEPT !.type = type]
       IN
       /\ queue' = [queue EXCEPT ![Oldest].done = TRUE]
       /\ bonds' = [bonds EXCEPT ![b] =
            IF row = None THEN bond
            ELSE [bond EXCEPT !.service = s,
                              !.master = IF @ = None THEN row.master ELSE @]]

\* dequeueAgentBondOnce
AgentBond(s, row) ==
  IF s \in guard THEN UNCHANGED bondVars
  ELSE guard' = guard \cup {s} /\ Attribute(s, "AGENT_BOND", row)

HandleRegisterInstance ==
  /\ NextLog("register")
  /\ LET s == Log.service
         row == [services[s] EXCEPT !.operators = @ \cup {Log.operator}]
         others == SelectSeq(pending[s].instances, LAMBDA b : b.signer # Log.signer)
     IN
     IF services[s] # None
     THEN /\ services' = [services EXCEPT ![s] = row]
          /\ instances' = LinkInstance(instances, Log.signer, s, at)
          /\ AgentBond(s, row)
          /\ UNCHANGED pending
     ELSE /\ pending' = [pending EXCEPT ![s] =
               [operators |-> @.operators \cup {Log.operator},
                instances |-> Append(others, [signer |-> Log.signer, at |-> at])]]
          /\ AgentBond(s, None)
          /\ UNCHANGED <<services, instances>>
  /\ UNCHANGED <<gained, exchanged, masters, agentSafes, tracked, ledgerVars>>

\* ActivateRegistration, TerminateService and OperatorUnbond; the second creates
\* the service's row.
HandleBondedCall(op, type) ==
  /\ NextLog(op)
  /\ services' = IF op = "terminate"
                 THEN [services EXCEPT ![Log.service] = ServiceOrNew(Log.service)] ELSE services
  /\ Attribute(Log.service, type, services'[Log.service])
  /\ UNCHANGED <<gained, exchanged, masters, agentSafes, tracked, pending, instances, ledgerVars, guard>>
HandleActivateRegistration == HandleBondedCall("activate", "SECURITY_DEPOSIT")
HandleTerminateService == HandleBondedCall("terminate", "SECURITY_DEPOSIT")
HandleOperatorUnbond == HandleBondedCall("unbond", "AGENT_BOND")

HandleCreateMultisigWithAgents ==
  /\ NextLog("deploy")
  /\ LET s == Log.service
         row == [ServiceOrNew(s) EXCEPT !.operators = @ \cup pending[s].operators]
     IN
     /\ instances' = FoldLeft(LAMBDA t, b : LinkInstance(t, b.signer, s, b.at), instances,
                              pending[s].instances)
     /\ tracked' = WithAgentSafe(tracked, Log.multisig, s, row)
     /\ agentSafes' = agentSafes \cup {Log.multisig}
     /\ services' = [services EXCEPT ![s] = [row EXCEPT !.agent = Log.multisig]]
  /\ UNCHANGED <<gained, exchanged, masters, pending, ledgerVars, bondVars>>

\* The Agent Safe of a service whose Master Safe is known only now.
LateLink(t, s, row) == IF row.agent = None THEN t ELSE WithAgentSafe(t, row.agent, s, row)

\* The NFT on its way to a staking proxy says nothing of the Master Safe.
HandleServiceNftTransfer ==
  /\ NextLog("nft")
  /\ LET s == Log.service
         row == Linked(ServiceOrNew(s), Log.to)
     IN
     IF tracked[Log.to].role = "STAKING"
     THEN /\ services' = [services EXCEPT ![s] = ServiceOrNew(s)]
          /\ UNCHANGED <<masters, movements, tracked>>
     ELSE /\ services' = [services EXCEPT ![s] = row]
          /\ WithMaster(Log.to)
          /\ tracked' = IF Log.to \in Safes THEN LateLink(TrackedMaster(Log.to), s, row)
                        ELSE tracked
  /\ UNCHANGED <<gained, exchanged, agentSafes, pending, instances, balances, afes, daily, bondVars>>

\* trackedMasterId
TrackedMasterId(account) ==
  IF tracked[account].role = "MASTER" THEN tracked[account].master ELSE None

\* TokenDeposit and TokenRefund: the balance moves here, and not with the transfer.
HandleBond(op, delta) ==
  /\ NextLog(op)
  /\ bonds' = Append(bonds, [service |-> None, type |-> None,
                             master |-> TrackedMasterId(Log.account),
                             of |-> Log.service, as |-> Log.type, at |-> at, tx |-> tx,
                             deposit |-> delta < 0])
  /\ balances' = IF TrackedMasterId(Log.account) = None THEN balances
                 ELSE [balances EXCEPT ![Log.account] = @ + delta]
  /\ queue' = Append(queue, [bond |-> Len(bonds) + 1, done |-> FALSE])
  /\ UNCHANGED <<gained, exchanged, linkVars, movements, afes, daily, guard>>
HandleTokenDeposit == HandleBond("deposit", -1)
HandleTokenRefund == HandleBond("refund", 1)

HandleInstanceCreated ==
  /\ NextLog("instance")
  /\ tracked' = IF Log.proxy \in Foreign THEN tracked
                ELSE WithTracked(tracked, Log.proxy, "STAKING", None, None)
  /\ UNCHANGED <<gained, exchanged, services, masters, agentSafes, pending, instances, ledgerVars, bondVars>>

\* isTrackedProxy guards every staking handler.
Ours == tracked[Log.proxy].role = "STAKING"
HandleForeignProxy ==
  /\ logs # <<>> /\ Log.op \in {"staked", "claimed", "unstaked", "evicted"} /\ ~ Ours
  /\ NextLog(Log.op)
  /\ UNCHANGED <<gained, exchanged, linkVars, ledgerVars, bondVars>>

HandleServiceStaked ==
  /\ NextLog("staked") /\ Ours
  /\ LET s == Log.service
         row == Linked([ServiceOrNew(s) EXCEPT !.staked = Log.proxy], Log.owner)
     IN
     /\ WithMaster(Log.owner)
     /\ tracked' = WithAgentSafe(TrackedMaster(Log.owner), Log.multisig, s, row)
     /\ agentSafes' = agentSafes \cup {Log.multisig}
     /\ services' = [services EXCEPT ![s] = [row EXCEPT !.agent = Log.multisig]]
  /\ UNCHANGED <<gained, exchanged, pending, instances, balances, afes, daily, bondVars>>

\* addDailyOlasReward
AddReward(s, amount) ==
  /\ daily' = [daily EXCEPT ![s][day] =
       [claimed |-> @.claimed + amount, cumulative |-> ServiceOrNew(s).rewards + amount]]
  /\ services' = [services EXCEPT ![s] =
       [ServiceOrNew(s) EXCEPT !.rewards = @ + amount,
                               !.staked = IF Log.op = "unstaked" THEN None ELSE @]]

RewardRow(category) ==
  movements' = movements \cup {Row(EventId, category, Log.service, Log.multisig, FALSE)}

HandleRewardClaimed ==
  /\ NextLog("claimed") /\ Ours
  /\ RewardRow("STAKING_REWARD_CLAIM")
  /\ AddReward(Log.service, Log.reward)
  /\ UNCHANGED <<gained, exchanged, masters, agentSafes, tracked, pending, instances, balances, afes,
                 bondVars>>

HandleAnyUnstake ==
  /\ NextLog("unstaked") /\ Ours
  /\ RewardRow("UNSTAKE_REWARD")
  /\ IF Log.reward > 0
     THEN AddReward(Log.service, Log.reward)
     ELSE /\ services' = [services EXCEPT ![Log.service] =
                            [ServiceOrNew(Log.service) EXCEPT !.staked = None]]
          /\ UNCHANGED daily
  /\ UNCHANGED <<gained, exchanged, masters, agentSafes, tracked, pending, instances, balances, afes,
                 bondVars>>

HandleServicesEvicted ==
  /\ NextLog("evicted") /\ Ours
  /\ RewardRow("SERVICE_EVICTED")
  /\ services' = [services EXCEPT ![Log.service] = ServiceOrNew(Log.service)]
  /\ UNCHANGED <<gained, exchanged, masters, agentSafes, tracked, pending, instances, balances, afes, daily,
                 bondVars>>

-----------------------------------------------------------------------------
(* Transfers.                                                                *)

\* classifyTransfer, and the split of OLAS that its caller makes.  The order of the
\* cases counts.  None: not ours.
Category(from, to, native) ==
  LET fr == tracked[from].role
      tr == tracked[to].role
      setUp == tr = "MASTER" /\ masters[to] # None /\ masters[to].setup
  IN
  CASE fr = "" /\ tr = "" /\ Srtu \notin {from, to} -> None
    [] fr = "MASTER" /\ to = Srtu -> None
    [] from = Srtu /\ tr = "MASTER" -> None
    [] fr = "MASTER" /\ tr \in {"AGENT", "AGENT_EOA"} -> "MASTER_TO_AGENT"
    [] fr = "AGENT" /\ tr = "MASTER" ->
         IF native THEN "AGENT_TO_MASTER" ELSE "AGENT_OLAS_TO_MASTER"
    [] fr = "STAKING" /\ tr = "AGENT" -> "STAKING_REWARD_CLAIM"
    [] tr = "MASTER" /\ from = Registry -> "OTHER"
    [] tr = "MASTER" /\ fr = "MASTER_EOA" /\ ~ setUp -> "SAFE_SETUP_TRANSFER"
    [] tr = "MASTER" -> "MASTER_FUNDING_IN"
    [] fr = "MASTER" -> "MASTER_WITHDRAWAL"
    [] fr = "AGENT" -> "AGENT_TO_APP"
    [] tr = "AGENT" -> "APP_TO_AGENT"
    [] OTHER -> "OTHER"

Credits == {"SAFE_SETUP_TRANSFER", "MASTER_FUNDING_IN", "AGENT_TO_MASTER", "AGENT_OLAS_TO_MASTER",
            "APP_TO_AGENT", "STAKING_REWARD_CLAIM", "MASTER_TO_AGENT"}
Debits == {"MASTER_WITHDRAWAL", "MASTER_TO_AGENT", "AGENT_TO_APP", "AGENT_TO_MASTER",
           "AGENT_OLAS_TO_MASTER"}

\* The sender is debited too when one Master Safe pays another.
SenderDebited(category, from) ==
  \/ category \in Debits
  \/ category = "MASTER_FUNDING_IN" /\ tracked[from].role = "MASTER"

Amount(holds) == IF holds THEN 1 ELSE 0

\* upsertTokenBalance of both sides.
Booked(category, from, to) ==
  [a \in Addresses |->
     balances[a] + Amount(a = to /\ category \in Credits)
                 - Amount(a = from /\ SenderDebited(category, from))]

\* addToAgentFundingEvent
AddFunding(events, m, s, native) ==
  LET id == <<tx, m, s>>
      old == IF id \in DOMAIN events THEN events[id] ELSE [native |-> 0, olas |-> 0]
  IN (id :> [native |-> old.native + Amount(native), olas |-> old.olas + Amount(~ native)])
     @@ events

\* handleTransfer, of tokens or, to a Safe, of the native token.
Book(from, to, native) ==
  LET category == Category(from, to, native)
      s == IF category = "MASTER_TO_AGENT" THEN tracked[to].service ELSE None
  IN
  IF category = None THEN UNCHANGED <<masters, movements, afes, balances>>
  ELSE /\ movements' = movements \cup {Row(EventId, category, s, to, native)}
       /\ masters' = IF category = "SAFE_SETUP_TRANSFER"
                     THEN [masters EXCEPT ![to].setup = TRUE] ELSE masters
       /\ afes' = IF category = "MASTER_TO_AGENT" /\ s # None
                  THEN AddFunding(afes, tracked[from].master, s, native) ELSE afes
       /\ balances' = IF native THEN balances ELSE Booked(category, from, to)

IsOurSafe(a) == tracked[a].role \in {"MASTER", "AGENT"}

HandleErc20Transfer ==
  /\ NextLog("transfer")
  /\ Book(Log.from, Log.to, FALSE)
  /\ gained' = [a \in Addresses |->
       gained[a] + Amount(a = Log.to /\ IsOurSafe(a)) - Amount(a = Log.from /\ IsOurSafe(a))]
  /\ exchanged' = [a \in Addresses |->
       exchanged[a] + Amount(a = Log.to /\ tracked[a].role = "AGENT" /\ tracked[Log.from].role = "AGENT")]
  /\ UNCHANGED <<services, agentSafes, tracked, pending, instances, daily, bondVars>>

HandleSafeReceived ==
  /\ NextLog("received")
  /\ IF IsOurSafe(Log.to) THEN Book(Log.from, Log.to, TRUE)
     ELSE UNCHANGED <<masters, movements, afes, balances>>
  /\ UNCHANGED <<gained, exchanged, services, agentSafes, tracked, pending, instances, daily, bondVars>>

\* Mutant: a leg's row is named by its log.
LegIdByLog(i) == <<"leg", tx, i, at>>

\* agentSignerLegId
LegId(i) == <<"leg", tx, i>>
HasRow(id) == \E row \in movements : row.id = id

\* writeAgentSignerLegs: the legs to a signer of a service whose Pearl Safe this is.
SignerLegs ==
  {i \in DOMAIN Log.legs :
     /\ Log.legs[i] \in Eoas /\ instances[Log.legs[i]] # None
     /\ LET row == services[instances[Log.legs[i]].service]
        IN row # None /\ row.master = Log.safe
     /\ ~ HasRow(LegId(i))}

LegService(i) == instances[Log.legs[i]].service

HandleSafeExecutionSuccess ==
  /\ NextLog("execution")
  /\ CASE tracked[Log.safe].role = "MASTER" ->
            /\ movements' = movements \cup
                 {Row(LegId(i), "MASTER_TO_AGENT", LegService(i), Log.legs[i], TRUE) :
                    i \in SignerLegs}
            /\ afes' = FoldSet(LAMBDA i, events : AddFunding(events, Log.safe, LegService(i), TRUE),
                               afes, SignerLegs)
       [] tracked[Log.safe].role = "AGENT" /\ Log.legs = <<Log.sender>> ->
            /\ movements' =
                 IF HasRow(<<"topup", tx>>) THEN movements
                 ELSE movements \cup {Row(<<"topup", tx>>, "AGENT_SAFE_TO_AGENT_EOA",
                                          tracked[Log.safe].service, Log.sender, TRUE)}
            /\ UNCHANGED afes
       [] OTHER -> UNCHANGED <<movements, afes>>
  /\ UNCHANGED <<gained, exchanged, linkVars, balances, daily, bondVars>>

\* Only the owners of a Master Safe are kept.
HandleSafeAddedOwner ==
  /\ NextLog("addOwner")
  /\ LET m == Log.safe IN
     masters' = IF masters[m] = None \/ Log.owner \in ToSet(masters[m].owners) THEN masters
                ELSE [masters EXCEPT ![m].owners = Append(@, Log.owner)]
  /\ UNCHANGED <<gained, exchanged, services, agentSafes, tracked, pending, instances, ledgerVars, bondVars>>

\* The removed Master EOA is followed by the first of the owners left, if any is.
HandleSafeRemovedOwner ==
  /\ NextLog("removeOwner")
  /\ LET m == Log.safe
         left == SelectSeq(masters[m].owners, LAMBDA o : o # Log.owner)
     IN
     masters' = IF masters[m] = None THEN masters
                ELSE [masters EXCEPT ![m].owners = left,
                                     ![m].eoa = IF left # <<>> /\ @ = Log.owner
                                                THEN left[1] ELSE @]
  /\ UNCHANGED <<gained, exchanged, services, agentSafes, tracked, pending, instances, ledgerVars, bondVars>>

-----------------------------------------------------------------------------
Chain == EmitCreate \/ EmitActivate \/ EmitRegister \/ EmitDeploy \/ EmitMove \/ EmitTerminate
         \/ EmitUnbond \/ EmitInstance \/ EmitStake \/ EmitClaim \/ EmitUnstake \/ EmitEvict
         \/ EmitPay \/ EmitFund \/ EmitTopUp \/ EmitOwners

HandleRegistryLog ==
  HandleRegisterInstance \/ HandleActivateRegistration \/ HandleTerminateService
  \/ HandleOperatorUnbond \/ HandleCreateMultisigWithAgents \/ HandleServiceNftTransfer
HandleBondLog == HandleTokenDeposit \/ HandleTokenRefund
HandleStakingLog ==
  HandleInstanceCreated \/ HandleForeignProxy \/ HandleServiceStaked \/ HandleRewardClaimed
  \/ HandleAnyUnstake \/ HandleServicesEvicted
HandleSafeLog ==
  HandleSafeReceived \/ HandleSafeExecutionSuccess \/ HandleSafeAddedOwner \/ HandleSafeRemovedOwner

\* A log is of one source: the first of these that its address or its topic fits.
Handle == HandleRegistryLog \/ HandleBondLog \/ HandleErc20Transfer \/ HandleStakingLog \/ HandleSafeLog

Next == Chain \/ Handle

Spec == Init /\ [][Next]_vars

-----------------------------------------------------------------------------
(* Properties, between two calls.                                            *)

Settled == logs = <<>>

\* The comments on getService and trackAgentSafe (entityCache.ts:193-197,
\* handlers.ts:262-270): an Agent Safe whose service has a Master Safe is tracked
\* whichever of the two came first; and a Master Safe has its role, unless it ran
\* the agents of a service of another one before.
LinkedSafesTracked ==
  Settled =>
    /\ \A s \in Services :
         services[s] # None /\ services[s].master # None /\ services[s].agent # None =>
           tracked[services[s].agent].role = "AGENT"
    /\ \A m \in Safes :
         masters[m] # None /\ tracked[m].role # "MASTER" =>
           /\ tracked[m].master \notin {None, m}
           /\ m \in services[tracked[m].service].operators

\* "the bond's balance effect is booked HERE, exactly once" (handlers.ts:603-606)
\* and classifyTransfer's cases: the TokenBalance of each tracked Safe is what it
\* gained since, through bonds, rewards, funding and payments, but for what an Agent
\* Safe got of another one: that is AGENT_TO_APP (logic.ts:309-316), which debits the
\* sender and credits nobody (handlers.ts:1107-1120), though the row is a "running
\* balance per (safe, token)" (schema.graphql:274).  The rewards of a service are the
\* sum of its days and the last of the cumulative ones.
LedgersAddUp ==
  Settled =>
    /\ \A a \in Addresses : IsOurSafe(a) => balances[a] = gained[a] - exchanged[a]
    /\ \A s \in Services : services[s] # None =>
         LET claimed(d) == MapThenSumSet(LAMBDA e : daily[s][e].claimed, 1 .. d) IN
         /\ services[s].rewards = claimed(MaxDays)
         /\ \A d \in Days : daily[s][d].claimed > 0 => daily[s][d].cumulative = claimed(d)

\* logic.ts:347-353: the movements of a transaction's bonds are attributed, by the
\* order of the logs alone, to the service and the kind of bond that each was for;
\* dequeueAgentBondOnce takes it that a transaction registers the agents of a
\* service with one deposit.
BondsAttributed ==
  LET agentBonds(b) ==
        {c \in DOMAIN bonds : /\ bonds[c].tx = bonds[b].tx /\ bonds[c].of = bonds[b].of
                              /\ bonds[c].deposit /\ bonds[c].as = "AGENT_BOND"}
      once(t) == \A b \in DOMAIN bonds : bonds[b].tx = t => Cardinality(agentBonds(b)) <= 1
  IN
  Settled =>
    \A b \in DOMAIN bonds :
      LET bond == bonds[b]
          unknown == services[bond.of] = None \/ services[bond.of].since > bond.at
      IN once(bond.tx) =>
           bond.type = bond.as /\ bond.service \in {bond.of} \cup (IF unknown THEN {None} ELSE {})

\* linkAgentInstance (handlers.ts:408-414): whether its registration is linked at once or
\* buffered, drained late or drained again, a signer follows its latest one.
SignersFollowRegistration ==
  Settled =>
    \A e \in Eoas :
      registeredWith[e] # None /\ services[registeredWith[e]] # None
        /\ (services[registeredWith[e]].agent # None \/ pending[registeredWith[e]] = NoPending) =>
        instances[e] # None /\ instances[e].service = registeredWith[e]

\* handleSafeExecutionSuccess (handlers.ts:1137-1166): each leg of a funding is in one
\* row, from the log of the Agent Safe or from that of the Pearl Safe, though the
\* Safe may log its execution twice; and the funding's total is that of its rows.
FundedOnce ==
  Settled =>
    /\ \A f \in funded :
         LET rows == {r \in movements : /\ r.tx = f.tx /\ r.service = f.service
                                        /\ r.category = "MASTER_TO_AGENT"} IN
         {r.to : r \in rows} = f.to /\ Cardinality(rows) = Cardinality(f.to)
    /\ \A id \in DOMAIN afes :
         LET rows(native) == {r \in movements : /\ r.tx = id[1] /\ r.service = id[3]
                                                /\ r.category = "MASTER_TO_AGENT"
                                                /\ r.native = native} IN
         /\ afes[id].native = Cardinality(rows(TRUE))
         /\ afes[id].olas = Cardinality(rows(FALSE))

=============================================================================
