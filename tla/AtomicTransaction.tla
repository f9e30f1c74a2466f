-------------------------- MODULE AtomicTransaction --------------------------
(***************************************************************************)
(* What the transition function promises its caller: a transaction is      *)
(* rejected and changes nothing; or fails and changes nothing but the fee  *)
(* and the nonce; or succeeds, and then each of its commands took effect,  *)
(* in order, every deferred command right after the call it came from.     *)
(* There is no cache, no gas meter and no stack of commands here.          *)
(***************************************************************************)
EXTENDS Ledger

VARIABLES
    world,   \* the world state in the hands of the caller
    request  \* <<transaction, block>> that is being answered, or None

Idle == request = None

\* Tokens change hands; the payer may pay itself.
Move(balance, from, to, amount) ==
    LET debited == [balance EXCEPT ![from] = @ - amount]
    IN  [debited EXCEPT ![to] = saturating_add(@, amount)]

\* The effects of commands on a world state; None when they cannot succeed.
TopUp(w, actor, amount) ==
    IF w = None \/ w.balance[actor] < amount THEN None
    ELSE [w EXCEPT !.balance[actor] = @ - amount,
                   !.deposit[actor] = saturating_add(@, amount)]

Pay(w, from, to, amount) ==
    IF w = None \/ w.balance[from] < amount THEN None
    ELSE [w EXCEPT !.balance = Move(w.balance, from, to, amount)]

Effect(w, signer, cmd) ==
    CASE cmd.kind = "TopUpDeposit" -> TopUp(w, signer, cmd.amount)
      [] cmd.kind = "Transfer" -> Pay(w, signer, cmd.to, cmd.amount)
      [] cmd.kind = "Call" -> IF cmd.error # None THEN None
                              ELSE Pay(Pay(w, signer, cmd.to, cmd.amount), cmd.to, signer, cmd.pay)

\* Only a call defers commands, and they act for its target.
Deferring(cmd) == IF cmd.kind = "Call" THEN cmd.defer ELSE <<>>

\* A command and the first commands it deferred, and the first commands of a
\* transaction with all they deferred.
WithDeferred(w, signer, cmd) ==
    LET after[j \in 0 .. Len(Deferring(cmd))] ==
            IF j = 0 THEN Effect(w, signer, cmd)
            ELSE TopUp(after[j - 1], cmd.to, Deferring(cmd)[j])
    IN  after

Commands(w, tx) ==
    LET after[i \in 0 .. Len(tx.commands)] ==
            IF i = 0 THEN w
            ELSE LET cmd == tx.commands[i]
                 IN  WithDeferred(after[i - 1], tx.signer, cmd)[Len(Deferring(cmd))]
    IN  after

Effects(w, tx) == Commands(w, tx)[Len(tx.commands)]

\* The signer holds back gas_limit * fee while the commands run; in the end the
\* gas used is paid for and the rest is returned.
Fee(tx, block) == block.base_fee + tx.priority_fee

HeldBack(tx, block) ==
    [world EXCEPT !.balance[tx.signer] = @ - tx.gas_limit * Fee(tx, block)]

Charged(after, tx, block, gas) ==
    LET cut      == (gas * block.base_fee * TreasuryNum) \div TreasuryDenom
        refunded == [after.balance EXCEPT ![tx.signer] = @ + (tx.gas_limit - gas) * Fee(tx, block)]
        tipped   == [refunded EXCEPT ![block.proposer] = saturating_add(@, gas * tx.priority_fee)]
        taxed    == [tipped EXCEPT ![block.treasury] = saturating_add(@, cut)]
    IN  [after EXCEPT !.balance = taxed, !.nonce[tx.signer] = saturating_add(@, 1)]

Init == world \in Geneses /\ request = None

Submit == Idle /\ request' \in Txns \X Blocks /\ UNCHANGED world

Answer(w) == ~Idle /\ world' = w /\ request' = None

\* The gas that is paid for covers the inclusion and respects the limit.
AnswerAndCharge(after) ==
    \E gas \in tx_inclusion_cost(request[1]) .. request[1].gas_limit :
        Answer(Charged(after, request[1], request[2], gas))

Reject == Answer(world)

Fail == AnswerAndCharge(HeldBack(request[1], request[2]))

Succeed ==
    LET after == Effects(HeldBack(request[1], request[2]), request[1])
    IN  after # None /\ AnswerAndCharge(after)

\* An epoch transaction consists of one command, pays no fee and counts as a
\* transaction of its signer; it may also move the world state to version 2.
EnterEpoch ==
    /\ ~Idle
    /\ Len(request[1].commands) = 1 /\ request[1].commands[1].kind = "NextEpoch"
    /\ \E version \in {world.version, 2} :
           Answer([world EXCEPT !.epoch = @ + 1, !.version = version,
                                !.nonce[request[1].signer] = saturating_add(@, 1)])

NoEpoch(tx) == \A i \in DOMAIN tx.commands : tx.commands[i].kind # "NextEpoch"

\* A transaction with the wrong nonce, or without a balance for its gas limit,
\* can only be rejected.
Payable ==
    LET tx == request[1]
    IN  /\ NoEpoch(tx)
        /\ tx.nonce = world.nonce[tx.signer]
        /\ tx.gas_limit * Fee(tx, request[2]) <= world.balance[tx.signer]

Next ==
    \/ Submit
    \/ ~Idle /\ Reject
    \/ ~Idle /\ Payable /\ (Fail \/ Succeed)
    \/ EnterEpoch

Spec == Init /\ [][Next]_<<world, request>>

=============================================================================
