--------------------------- MODULE AssetHandlers ----------------------------
(***************************************************************************)
(* One SACHandler (asset/stellar-asset-contract): a classic handler        *)
(* (asset/classic) and a Soroban token handler (asset/soroban-token) of    *)
(* one asset.  The token handler is a ContractEngine whose methods invoke  *)
(* or read the contract in its register; the classic handler executes      *)
(* classic transactions.  Once the asset is wrapped both move the balances *)
(* of the same trustlines, one in whole units, the other in stroops.       *)
(*                                                                         *)
(* The trustlines are external: a Stellar ledger as far as these methods   *)
(* use one.  Whether a trustline is authorized is left out: it makes an    *)
(* operation fail, as anything may.  Who signs a Soroban invocation, and   *)
(* the sequence numbers, are other modules' business.                      *)
(***************************************************************************)
EXTENDS ContractEngine, UnitConversion, SequencesExt

CONSTANTS
  Asset,         \* the asset of the handler
  ClassicCalls,  \* calls of the classic handler's methods
  Holders,       \* accounts beside the issuer
  Issuer,
  issuerAccount, \* the classic handler was given the issuer's handler, not a key
  NoOne,         \* no account
  Payers,        \* the holders that calls take an amount from
  Opening,       \* holder -> balance in stroops at the start
  Opened,        \* the holders that have a trustline then
  Amounts,       \* of units, in the calls of the classic handler
  Stroops,       \* in the calls of the token handler
  Functions      \* the token's functions that are called

Accounts == Holders \cup {Issuer}

\* constants.ts: the functions of a token, and those of the spec that a handler
\* gets which is given none.
Reads == {"admin", "allowance", "balance", "spendable_balance", "decimals", "name", "symbol"}
Invoked == {"initialize", "set_admin", "set_authorized", "mint", "clawback", "approve",
            "transfer", "transfer_from", "burn", "burn_from"}
methods == Reads \cup Invoked
defaultSpec == methods \ {"admin", "set_authorized", "clawback", "spendable_balance"}

ASSUME AssetAssumption ==
  /\ Asset \in Assets
  /\ Functions \subseteq methods
  /\ Issuer \notin Holders
  /\ issuerAccount \in BOOLEAN
  /\ NoOne \notin Accounts
  /\ Amounts \subseteq Nat /\ Stroops \subseteq Nat
  /\ Payers \subseteq Holders
  /\ IsFiniteSet(Holders)
  /\ Opening \in [Holders -> Nat]
  /\ Opened \subseteq Holders
  /\ \A h \in Holders \ Opened : Opening[h] = 0

VARIABLES
  method,         \* engine call -> the token method it is a call of
  classic,        \* classic call -> its method, signers, state and transaction
  ledger          \* the trustlines, their balances, and allowances

assetVars == <<method, classic, ledger>>
allAssetVars == <<vars, assetVars>>

-----------------------------------------------------------------------------
(* The ledger.  An operation moves stroops, or changes a trustline.        *)

Ledgers == [trust : SUBSET Holders, balance : [Holders -> Nat],
            allowance : [Holders \X Holders -> Nat]]

Pay(from, to, amount, spender) ==
  [op |-> "pay", from |-> from, to |-> to, amount |-> amount, spender |-> spender]
Trust(h) == [op |-> "trust", to |-> h]
SetFlags == [op |-> "flags"]
Approve(from, spender, amount) ==
  [op |-> "approve", from |-> from, spender |-> spender, amount |-> amount]
Clawback(from, amount) == [op |-> "clawback", from |-> from, amount |-> amount]

\* The issuer has any amount, and needs no trustline.
Has(l, a, amount) == a \in {Issuer} \cup {h \in Holders : l.balance[h] >= amount}
MayHold(l, a) == a \in {Issuer} \cup l.trust

Allows(l, o) ==
  CASE o.op = "pay" -> /\ MayHold(l, o.from) /\ Has(l, o.from, o.amount) /\ MayHold(l, o.to)
                       /\ o.spender # NoOne => l.allowance[<<o.from, o.spender>>] >= o.amount
    [] o.op = "clawback" -> l.balance[o.from] >= o.amount
    [] OTHER -> TRUE

Moved(balance, from, to, amount) ==
  [h \in Holders |-> balance[h] + (IF h = to THEN amount ELSE 0) - (IF h = from THEN amount ELSE 0)]

Effect(l, o) ==
  CASE o.op = "pay" ->
         [l EXCEPT !.balance = Moved(@, o.from, o.to, o.amount),
                   !.allowance = [p \in DOMAIN @ |->
                     IF p = <<o.from, o.spender>> THEN @[p] - o.amount ELSE @[p]]]
    [] o.op = "trust" -> [l EXCEPT !.trust = @ \cup {o.to}]
    [] o.op = "flags" -> l
    [] o.op = "approve" -> [l EXCEPT !.allowance[<<o.from, o.spender>>] = o.amount]
    [] o.op = "clawback" -> [l EXCEPT !.balance = Moved(@, o.from, Issuer, o.amount)]

\* A transaction applies all its operations, in order, or none.
After(l, ops) == FoldLeft(Effect, l, ops)
AllowsAll(l, ops) ==
  \A n \in 1..Len(ops) : Allows(After(l, SubSeq(ops, 1, n - 1)), ops[n])

-----------------------------------------------------------------------------
(* The methods: what they are called with, and the operations they send.   *)

NoMethod == [fn |-> "none"]

Pairs == {p \in Payers \X Holders : p[1] # p[2]}

\* Calls of the admin's and of the holders' functions, with their arguments.
AdminCalls ==
  [fn : {"initialize", "set_admin", "set_authorized"}]
    \cup [fn : {"mint"}, to : Holders, amount : Stroops]
    \cup [fn : {"clawback"}, from : Payers, amount : Stroops]

HolderCalls ==
  [fn : {"burn"}, from : Payers, amount : Stroops]
    \cup {[fn |-> "transfer", from |-> p[1], to |-> p[2], amount |-> n] :
            p \in Pairs, n \in Stroops}
    \cup {[fn |-> f, spender |-> p[2], from |-> p[1], amount |-> n] :
            f \in {"approve", "burn_from"}, p \in Pairs, n \in Stroops}
    \cup {[fn |-> "transfer_from", spender |-> p[2], from |-> p[1], to |-> p[2], amount |-> n] :
            p \in Pairs, n \in Stroops}

TokenCalls == {m \in AdminCalls \cup HolderCalls \cup [fn : Reads] : m.fn \in Functions}

\* What they do when the contract is that of a classic asset, which has no
\* initialize; the other functions move no balance.
AdminOps(m) ==
  CASE m.fn = "mint" -> <<Pay(Issuer, m.to, m.amount, NoOne)>>
    [] m.fn = "clawback" -> <<Clawback(m.from, m.amount)>>
    [] OTHER -> <<>>

HolderOps(m) ==
  CASE m.fn = "transfer" -> <<Pay(m.from, m.to, m.amount, NoOne)>>
    [] m.fn = "burn" -> <<Pay(m.from, Issuer, m.amount, NoOne)>>
    [] m.fn = "transfer_from" -> <<Pay(m.from, m.to, m.amount, m.spender)>>
    [] m.fn = "burn_from" -> <<Pay(m.from, Issuer, m.amount, m.spender)>>
    [] m.fn = "approve" -> <<Approve(m.from, m.spender, m.amount)>>

TokenOps(m) ==
  IF m \in AdminCalls THEN AdminOps(m) ELSE IF m \in HolderCalls THEN HolderOps(m) ELSE <<>>

\* A classic method with its arguments (amounts in units), the operations it
\* executes, and the signers it adds to those it is given.
transfer(from, to, n) ==
  [fn |-> "transfer", from |-> from, to |-> to, amount |-> n,
   ops |-> <<Pay(from, to, toStroops(n), NoOne)>>, adds |-> {}]

burn(from, n) == [transfer(from, Issuer, n) EXCEPT !.fn = "burn"]

\* Mutant: the amount is taken for stroops, as the token handler's are.
mintStroops(to, n) ==
  [fn |-> "mint", from |-> Issuer, to |-> to, amount |-> n,
   ops |-> <<Pay(Issuer, to, n, NoOne)>>, adds |-> {Issuer}]

mint(to, n) ==
  [fn |-> "mint", from |-> Issuer, to |-> to, amount |-> n,
   ops |-> <<Pay(Issuer, to, toStroops(n), NoOne)>>, adds |-> {Issuer}]

setFlags ==
  [fn |-> "setFlags", from |-> Issuer, to |-> Issuer, amount |-> 0,
   ops |-> <<SetFlags>>, adds |-> {Issuer}]

addTrustlineAndMint(to, n) ==
  [fn |-> "addTrustlineAndMint", from |-> Issuer, to |-> to, amount |-> n,
   ops |-> <<Trust(to), Pay(Issuer, to, toStroops(n), NoOne)>>, adds |-> {Issuer}]

addTrustline(to) ==
  [fn |-> "addTrustline", from |-> to, to |-> to, amount |-> 0,
   ops |-> <<Trust(to)>>, adds |-> {}]

ClassicMethods ==
  {transfer(p[1], p[2], n) : p \in Pairs, n \in Amounts}
    \cup {burn(h, n) : h \in Payers, n \in Amounts}
    \cup {mint(h, n) : h \in Holders, n \in Amounts}
    \cup {setFlags}
    \cup {addTrustlineAndMint(h, n) : h \in Holders, n \in Amounts}
    \cup {addTrustline(h) : h \in Holders}

\* The account an operation has as its source.
SourceOf(o) ==
  CASE o.op = "pay" -> o.from
    [] o.op = "trust" -> o.to
    [] o.op = "flags" -> Issuer

-----------------------------------------------------------------------------
NotCalled == [state |-> "idle"]
ClassicCallStates ==
  [method : ClassicMethods, signers : SUBSET Accounts,
   state : {"executing", "resolved", "rejected"},
   tx : {"none", "pending", "succeeded", "failed"}]

AssetTypeOK ==
  /\ TypeOK
  /\ method \in [Calls -> TokenCalls \cup {NoMethod}]
  /\ classic \in [ClassicCalls -> ClassicCallStates \cup {NotCalled}]
  /\ ledger \in Ledgers

\* The constructors: the token handler always has a spec, and if it is given a
\* contract it is that of the asset, which others wrapped.
AssetInit ==
  /\ Init
  /\ constructed.spec = "given"
  /\ constructed.contractId # "none" => Asset \in entries
  /\ method = [c \in Calls |-> NoMethod]
  /\ classic = [k \in ClassicCalls |-> NotCalled]
  /\ ledger = [trust |-> Opened,
               balance |-> Opening,
               allowance |-> [p \in Holders \X Holders |-> 0]]

-----------------------------------------------------------------------------
(* The token handler.                                                      *)

\* The spec the handler has must have the function; one it loaded may.
SpecHas(m) == spec = "given" => m.fn \in defaultSpec

\* A method of the engine that is none of the token's; wrapAndDeploy wraps the
\* handler's own asset.
EngineCall(c) ==
  /\ \E k \in Kinds \ {"invoke", "read"}, only \in BOOLEAN : Call(c, k, only, Asset)
  /\ UNCHANGED assetVars

TokenCall(c, m) ==
  /\ Call(c, IF m.fn \in Reads THEN "read" ELSE "invoke", m.fn \in Reads, Asset)
  /\ pc'[c] = "simulating" => SpecHas(m)
  /\ method' = [method EXCEPT ![c] = m]
  /\ UNCHANGED <<classic, ledger>>

\* The call of c is one of a token function on the asset's contract.
OnAsset(c) ==
  kind[c] \in {"invoke", "read"} /\ target[c] \in {Asset, constructed.contractId}

\* The contract lets the call through, on the ledger as it is.
Passes(c) ==
  OnAsset(c) => method[c].fn # "initialize" /\ AllowsAll(ledger, TokenOps(method[c]))

TokenSubmit(c) == Submit(c) /\ Passes(c) /\ UNCHANGED assetVars

TokenInclude(c) ==
  /\ Include(c) /\ Passes(c)
  /\ ledger' = IF OnAsset(c) THEN After(ledger, TokenOps(method[c])) ELSE ledger
  /\ UNCHANGED <<method, classic>>

TokenStep(c) ==
  \/ EngineCall(c)
  \/ \E m \in TokenCalls : TokenCall(c, m)
  \/ TokenSubmit(c) \/ TokenInclude(c)
  \/ /\ \/ EntryFound(c) \/ SpecLoaded(c)
        \/ SimulatedOnly(c) \/ AlreadyWrapped(c)
        \/ ExecutionThrows(c) \/ Return(c)
        \/ Discard(c)
     /\ UNCHANGED assetVars

-----------------------------------------------------------------------------
(* The classic handler.                                                    *)

\* A management method requires the issuer's handler, and signs with it.
requireIssuerAccount(m) == Issuer \in m.adds => issuerAccount

\* The caller gives the handlers of the holders; one that is missing is among the
\* reasons to throw.
ClassicCall(k, m) ==
  /\ classic[k] = NotCalled
  /\ classic' = [classic EXCEPT ![k] =
       [method |-> m, signers |-> Holders \cup m.adds, tx |-> "none",
        state |-> IF requireIssuerAccount(m) THEN "executing" ELSE "rejected"]]
  /\ UNCHANGED <<vars, method, ledger>>

\* The pipeline submits a transaction signed for every source of its operations.
ClassicSubmit(k) ==
  /\ classic[k].state = "executing" /\ classic[k].tx = "none"
  /\ \A n \in DOMAIN classic[k].method.ops :
       SourceOf(classic[k].method.ops[n]) \in classic[k].signers
  /\ classic' = [classic EXCEPT ![k].tx = "pending"]
  /\ UNCHANGED <<vars, method, ledger>>

\* A ledger includes it, and applies it.
ClassicInclude(k) ==
  /\ classic[k] # NotCalled /\ classic[k].tx = "pending"
  /\ AllowsAll(ledger, classic[k].method.ops)
  /\ classic' = [classic EXCEPT ![k].tx = "succeeded"]
  /\ ledger' = After(ledger, classic[k].method.ops)
  /\ UNCHANGED <<vars, method>>

ClassicDiscard(k) ==
  /\ classic[k] # NotCalled /\ classic[k].tx = "pending"
  /\ classic' = [classic EXCEPT ![k].tx = "failed"]
  /\ UNCHANGED <<vars, method, ledger>>

ClassicReturn(k) ==
  /\ classic[k].state = "executing" /\ classic[k].tx = "succeeded"
  /\ classic' = [classic EXCEPT ![k].state = "resolved"]
  /\ UNCHANGED <<vars, method, ledger>>

ClassicThrows(k) ==
  /\ classic[k].state = "executing"
  /\ classic' = [classic EXCEPT ![k].state = "rejected"]
  /\ UNCHANGED <<vars, method, ledger>>

ClassicStep(k) ==
  \/ \E m \in ClassicMethods : ClassicCall(k, m)
  \/ ClassicSubmit(k) \/ ClassicInclude(k) \/ ClassicDiscard(k)
  \/ ClassicReturn(k) \/ ClassicThrows(k)

AssetNext == (\E c \in Calls : TokenStep(c)) \/ (\E k \in ClassicCalls : ClassicStep(k))

AssetSpec == AssetInit /\ [][AssetNext]_allAssetVars

-----------------------------------------------------------------------------
(* Properties *)

\* What a method, in its own words, changes the balance of h by, in stroops.
TokenMoves(m, h) ==
  CASE m.fn \in {"mint"} -> IF m.to = h THEN m.amount ELSE 0
    [] m.fn \in {"burn", "burn_from", "clawback"} -> IF m.from = h THEN -m.amount ELSE 0
    [] m.fn \in {"transfer", "transfer_from"} ->
         (IF m.to = h THEN m.amount ELSE 0) - (IF m.from = h THEN m.amount ELSE 0)
    [] OTHER -> 0

ClassicMoves(m, h) ==
  (IF m.to = h THEN PowerOfTen[Decimals] * m.amount ELSE 0)
    - (IF m.from = h THEN PowerOfTen[Decimals] * m.amount ELSE 0)

\* The calls that move balances, and sent their transaction.
TokenSent == {c \in Calls : kind[c] = "invoke" /\ OnAsset(c) /\ tx[c] # "none"}
ClassicSent == {k \in ClassicCalls : classic[k] # NotCalled /\ classic[k].tx # "none"}

TokenAsked(h) == [c \in TokenSent |-> TokenMoves(method[c], h)]
ClassicAsked(h) == [k \in ClassicSent |-> ClassicMoves(classic[k].method, h)]

Total(asked, calls) == MapThenSumSet(LAMBDA c : asked[c], calls)

\* The balances are those at the start, changed as was asked by a set of calls
\* of the two handlers: by every call that resolved, by some of those that sent
\* a transaction and then rejected or still wait, and by none that rejected
\* before.  Each took effect once, in its own unit.
BalancesAccountForCalls ==
  \E done \in SUBSET TokenSent, kdone \in SUBSET ClassicSent :
    /\ \A c \in TokenSent : pc[c] = "resolved" => c \in done
    /\ \A k \in ClassicSent : classic[k].state = "resolved" => k \in kdone
    /\ \A h \in Holders :
         ledger.balance[h] =
           Opening[h] + Total(TokenAsked(h), done) + Total(ClassicAsked(h), kdone)

\* The contracts a handler may call: that of its asset, the one it was
\* constructed with, and those it deployed by calls that resolved.
Own == ({Asset, constructed.contractId} \cup Resolved("deploy")) \ {"none"}

\* The handler calls the contract of its asset ("You'll be able to use both the
\* classic and the Soroban interfaces fully") unless it deployed another one, and
\* then one of these: never that of a deploy that has not returned, however
\* wraps, deploys, uploads and calls overlap and fail.
TokenIsTheAsset ==
  /\ contractId # "none" => contractId \in Own
  /\ \A c \in Calls : kind[c] \in {"invoke", "read"} /\ pc[c] # "rejected" => target[c] \in Own

\* Doubles tell the amounts of so many units and those with one place more apart
\* from their neighbours.
Distinguished(amount, d) ==
  2 * amount * PowerOfTen[IF d > Decimals THEN d - Decimals ELSE 0] <= Significand

\* What a balance on the ledger is in its strings.  Bigints are read back exactly.
\* Of a number that doubles distinguish, the string is within half of its last
\* place, and is read back as the double nearest to what it says or the next to it.
\* It is not, as unit-conversion/index.ts:77 has it, rounded when the rounding
\* carries: where the next whole is nearest, the string says a tenth more than the
\* whole below.
BalancesReadBack ==
  \A h \in Holders : \A d \in 0..(Decimals + 1) :
    LET amount == ledger.balance[h]
        number == Number(amount, Decimals)
        s == numberBalanceToString(number, d)
        one == PowerOfTen[Decimals]
        whole == amount \div one
        said == s.int * PowerOfTen[s.width] + s.frac
        nearest == Nearest(said * Scale, PowerOfTen[s.width])
        Off(a, b) == IF a < b THEN b - a ELSE a - b
    IN  /\ bigIntBalanceFromString(bigIntBalanceToString(amount, d)) = amount
        /\ fromStroops(toStroops(amount)) = amount
        /\ Distinguished(amount, d) =>
             /\ IF Carries(number, d)
                THEN /\ 2 * ((whole + 1) * one - amount) * PowerOfTen[d] <= one
                     /\ 10 * said = (10 * whole + 1) * PowerOfTen[s.width]
                ELSE 2 * Off(said * one, amount * PowerOfTen[s.width]) * PowerOfTen[d]
                       <= one * PowerOfTen[s.width]
             /\ Off(numberBalanceFromString(s), nearest) <= spacing[nearest]

=============================================================================
