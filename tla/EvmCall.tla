------------------------------ MODULE EvmCall ------------------------------
(***************************************************************************)
(* zagros-executor/src/evm.rs and the EVM side of apply_transaction.  revm *)
(* journals ZAGROS itself; ZERENYA lives in the accounts, is written       *)
(* directly by ZerenyaInterceptor in the middle of the call, and is taken  *)
(* back by the interceptor's own stack of frames when a call frame         *)
(* reverts.  Only one EVM transaction runs at a time (evm_execution_lock,  *)
(* and the scheduler keeps it apart from native ones), so a call's steps   *)
(* are not interleaved with Apply.                                         *)
(*                                                                         *)
(* What bytecode does is any sequence of nested frames, transfers and      *)
(* approvals up to MaxDepth and MaxOps; a call's gas, value and the number *)
(* of contracts it creates are fields of the transaction.                  *)
(***************************************************************************)
EXTENDS Ledger

CONSTANTS
    Calls,            \* [type, from, to, amt, fee, used, creates, deploy, skew]
    Contracts,        \* accounts with code
    Payees, Moves,    \* whom bytecode pays or approves, and how much
    CallFloor,        \* evm_standard_fee's target, in ZERENYA
    FactoryFee,       \* TOKEN_FACTORY_FEE_ZERENYA
    DeployLevy,       \* evm_deploy_levy's target, in ZERENYA
    MaxDepth, MaxOps,    \* bounds: frames, operations of a call
    MaxBefore, MaxWith   \* bounds: transactions before a call, and in all beside one

\* revm takes no more gas than the fee has paid for.
ASSUME CallAssumption ==
    /\ \A x \in Calls :
          /\ x.from \in Addrs /\ x.to \in Addrs /\ x.amt \in Nat /\ x.creates \in Nat
          /\ x.fee \in Nat /\ x.used \in 0 .. x.fee
    /\ Contracts \subseteq Addrs /\ Payees \subseteq Addrs /\ Moves \subseteq Nat
    /\ CallFloor \in Nat /\ FactoryFee \in Nat /\ DeployLevy \in Nat

VARIABLE call         \* [x, saved, frames, at, ops], or Idle before and Done after it

evmVars == <<w, gas, counter, now, producer, factor, lost, left, call>>

Idle == [frames |-> <<>>, done |-> FALSE]
Done == [frames |-> <<>>, done |-> TRUE]
Running == call.frames # <<>>

-----------------------------------------------------------------------------
(* ZerenyaInterceptor.  A frame maps the accounts and the transfer records *)
(* first touched in it to what they held.                                  *)

Held(wd, a) == [zerenya |-> wd.acct[a].zerenya, allow |-> wd.acct[a].allow]

View(wd) == [acct |-> [a \in Addrs |-> Held(wd, a)], transfers |-> wd.transfers]

NewFrame == [acct |-> [a \in {} |-> FALSE], transfers |-> [i \in {} |-> FALSE]]

\* record_if_absent in a frame just opened, for all that will be written
Recorded(wd, accounts, records) ==
    [acct |-> [a \in accounts |-> Held(wd, a)],
     transfers |-> [i \in records |-> i \in wd.transfers]]

\* f, and where it is not defined g
Over(f, g) == [k \in DOMAIN f \cup DOMAIN g |-> IF k \in DOMAIN f THEN f[k] ELSE g[k]]

\* Mutant: The inner frame's values win.
MergedNewest(parent, frame) ==
    [acct |-> Over(frame.acct, parent.acct), transfers |-> Over(frame.transfers, parent.transfers)]

\* pop_frame of a successful frame: its parent keeps its own older values.
Merged(parent, frame) ==
    [acct |-> Over(parent.acct, frame.acct), transfers |-> Over(parent.transfers, frame.transfers)]

\* pop_frame of a reverted one.
Restored(wd, frame) ==
    [wd EXCEPT
        !.acct = [a \in Addrs |->
            IF a \in DOMAIN frame.acct
            THEN [@[a] EXCEPT !.zerenya = frame.acct[a].zerenya, !.allow = frame.acct[a].allow]
            ELSE @[a]],
        !.transfers = {i \in @ \cup DOMAIN frame.transfers :
            i \in DOMAIN frame.transfers => frame.transfers[i]}]

\* An intercepted call that succeeds is a frame of its own: opened, written, merged.
Intercepted(accounts, records, wd) ==
    /\ w' = wd
    /\ call' = [call EXCEPT !.ops = @ + 1,
                   !.frames = Append(Front(@), Merged(Last(@), Recorded(w, accounts, records)))]

\* Who msg.sender can be: a contract, or the signer in the outermost frame.
Callers == Contracts \cup (IF Len(call.frames) = 1 THEN {call.x.from} ELSE {})

InCall == Running /\ call.ops < MaxOps
RecordKeys == {counter} \cup Evicted(counter)

Spent(a, spender, amount) ==
    [a EXCEPT !.zerenya = @ - amount, !.allow[spender] = @ - amount]

Given(wd, to, amount) == [wd EXCEPT !.acct[to].zerenya = @ + amount]

\* transfer(address,uint256); to the pool, or without the funds, it reverts.
TransferZerenya(from, to, amount) ==
    /\ InCall /\ from \in Callers /\ to # Pool /\ w.acct[from].zerenya >= amount
    /\ Intercepted({from, to}, RecordKeys,
           TransferRecorded(Given([w EXCEPT !.acct[from].zerenya = @ - amount], to, amount),
                            counter))
    /\ counter' = counter + 1
    /\ UNCHANGED <<gas, lost, left, block>>

\* transferFrom(address,address,uint256) by a spender with an allowance.
TransferFrom(spender, owner, to, amount) ==
    /\ InCall /\ spender \in Callers /\ to # Pool
    /\ w.acct[owner].zerenya >= amount /\ w.acct[owner].allow[spender] >= amount
    /\ Intercepted({owner, to}, RecordKeys,
           TransferRecorded(Given([w EXCEPT !.acct[owner] = Spent(@, spender, amount)],
                                  to, amount), counter))
    /\ counter' = counter + 1
    /\ UNCHANGED <<gas, lost, left, block>>

\* approve(address,uint256)
Approve(owner, spender, amount) ==
    /\ InCall /\ owner \in Callers
    /\ Intercepted({owner}, {}, [w EXCEPT !.acct[owner].allow[spender] = amount])
    /\ UNCHANGED <<gas, counter, lost, left, block>>

\* call and create: every frame opens one.
EnterFrame ==
    /\ InCall /\ Len(call.frames) < MaxDepth
    /\ call' = [call EXCEPT !.frames = Append(@, NewFrame), !.at = Append(@, View(w)),
                            !.ops = @ + 1]
    /\ UNCHANGED <<w, gas, counter, lost, left, block>>

\* call_end and create_end of an inner frame.
ExitFrame(ok) ==
    LET fs == call.frames
        outer == Front(fs)
    IN  /\ Running /\ Len(fs) > 1
        /\ w' = IF ok THEN w ELSE Restored(w, Last(fs))
        /\ call' = [call EXCEPT !.at = Front(@),
                       !.frames = IF ok THEN Append(Front(outer), Merged(Last(outer), Last(fs)))
                                  ELSE outer]
        /\ UNCHANGED <<gas, counter, lost, left, block>>

-----------------------------------------------------------------------------
(* apply_transaction for an EVM transaction.                               *)

Floor(wd, x) == IF x.deploy THEN 0 ELSE Price(wd, CallFloor)
Levy(wd, x) == IF x.deploy THEN Price(wd, DeployLevy) ELSE 0

CallAdmitted(x) ==
    /\ ~Running /\ Executed(w) < MaxTxs /\ Executed(w) <= MaxBefore
    /\ x.skew \in (-MaxSkew) .. MaxSkew
    /\ w.acct[x.from].balance >= Max({x.fee, Floor(w, x)}) + Levy(w, x)

\* The part of the fee that revm has not taken goes to pending_gas_reward.
CallSettled(wd, x, due) ==
    LET charged == Min({due, wd.acct[x.from].balance})
    IN  /\ w' = [wd EXCEPT !.acct[x.from].nonce = @ + 1, !.acct[x.from].balance = @ - charged]
        /\ gas' = gas + charged

\* The checkpoint is reverted; a failed call pays at least the floor.
CallFailed(saved, x, metered) ==
    LET due == Max({metered, Floor(saved, x)})
    IN  /\ w' = [saved EXCEPT !.acct[x.from].nonce = @ + 1, !.acct[x.from].balance = @ - due]
        /\ gas' = gas + due

\* commit: revm's balance changes are applied as differences, and what reached
\* the treasury (the gas, for it is the coinbase, and value) is taken out again.
Committed(wd, x) ==
    LET paid == [wd EXCEPT !.acct[x.from].balance = @ - x.used - x.amt]
    IN  [paid EXCEPT !.acct[x.to].balance = @ + x.amt]

\* token_factory_fee_per_contract, for every contract the call created
FactoryTotal(wd, x) == x.creates * Price(wd, FactoryFee)

BeginCall(x) ==
    /\ CallAdmitted(x) /\ x.type = "call" /\ w.acct[x.from].balance >= x.fee + x.amt
    /\ call' = [x |-> x, saved |-> w, frames |-> <<NewFrame>>, at |-> <<View(w)>>, ops |-> 0]
    /\ UNCHANGED <<w, gas, counter, lost, left, block>>

\* The outermost frame ends well: commit, rewards, factory fee, fees.
FinishCall ==
    LET x == call.x
        earned == Distribute(Committed(w, x), x.used)
        fee == FactoryTotal(earned, x)
        built == Distribute([earned EXCEPT !.acct[x.from].balance = @ - fee], fee)
        floor == IF x.creates > 0 THEN 0 ELSE Floor(call.saved, x)
    IN  /\ Running /\ Len(call.frames) = 1
        /\ IF earned.acct[x.from].balance < fee THEN CallFailed(call.saved, x, x.used)
           ELSE CallSettled(built, x, Monus(floor, x.used) + Levy(call.saved, x))
        /\ call' = Done
        /\ UNCHANGED <<counter, lost, left, block>>

\* It reverts or halts.
RevertCall ==
    /\ Running /\ Len(call.frames) = 1
    /\ CallFailed(call.saved, call.x, call.x.used)
    /\ call' = Done
    /\ UNCHANGED <<counter, lost, left, block>>

\* swapSell(uint256,uint256) and swapBuy sent to the token's address never
\* reach revm; their pool, volume and fee are those of the native arms.
EvmSwap(x) ==
    LET d == IF x.type = "evm_sell" THEN "zagros_in" ELSE "zerenya_in"
        reserve == IF d = "zagros_in" THEN w.pool.zagros ELSE w.pool.zerenya
        quotes == {q \in IF d = "zagros_in" THEN SellQuote(w, x.amt) ELSE BuyQuote(w, x.amt) :
                      IF d = "zagros_in" THEN w.acct[x.from].balance >= x.fee + x.amt
                      ELSE w.acct[x.from].zerenya >= x.amt /\ w.acct[x.from].balance >= x.fee}
        sold == IF d = "zagros_in" THEN x.amt ELSE 0
    IN  /\ CallAdmitted(x) /\ x.type \in {"evm_sell", "evm_buy"}
        /\ \E outs \in {VolumeRecorded(w, d, x.amt, reserve) \X quotes} :
              \/ \E p \in outs :
                    LET paid == [p[1] EXCEPT !.pool = p[2].pool,
                                    !.acct[x.from].balance =
                                        IF d = "zagros_in" THEN @ - x.amt ELSE @ + p[2].out,
                                    !.acct[x.from].zerenya =
                                        IF d = "zagros_in" THEN @ + p[2].out ELSE @ - x.amt]
                    IN  CallSettled(Distribute(paid, p[2].fee), x, Max({x.fee, Floor(w, x)}))
              \/ outs = {} /\ CallFailed(w, x, x.fee)
        /\ call' = Done
        /\ UNCHANGED <<counter, lost, left, block>>

EvmInit == Init /\ call = Idle

EvmNext ==
    \/ ~Running /\ (call.done => Executed(w) < MaxWith) /\ Next /\ UNCHANGED call
    \/ \E x \in Calls : BeginCall(x) \/ EvmSwap(x)
    \/ \E from \in Addrs, to \in Payees, n \in Moves :
          TransferZerenya(from, to, n) \/ Approve(from, to, n)
    \/ \E spender \in Contracts, owner \in Addrs, to \in Payees, n \in Moves :
          TransferFrom(spender, owner, to, n)
    \/ EnterFrame
    \/ \E ok \in BOOLEAN : ExitFrame(ok)
    \/ FinishCall
    \/ RevertCall

EvmSpec == EvmInit /\ [][EvmNext]_evmVars

-----------------------------------------------------------------------------

\* A frame that reverts leaves every ZERENYA balance, allowance and transfer
\* record as the frame found them, whatever its inner frames did or undid.
RevertExact ==
    [][ExitFrame(FALSE) => View(w') = Last(call.at)]_evmVars

=============================================================================
