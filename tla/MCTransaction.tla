--------------------------- MODULE MCTransaction ---------------------------
(***************************************************************************)
(* Small instances of Transaction: the signer s, the contract c and the    *)
(* bystander p, any of which may be proposer and treasury of the block.    *)
(***************************************************************************)
EXTENDS TransactionRefinement, SequencesExt

CONSTANTS s, c, p, CommandNames, MaxCommands, GasLimits, PriorityFees, Nonces, Roles

Cmd(kind, to, amount, pay, defer, err) ==
    [kind |-> kind, to |-> to, amount |-> amount, pay |-> pay, defer |-> defer, error |-> err]

CommandNamed ==
    [pay       |-> Cmd("Transfer", c, 2, 0, <<>>, None),
     self      |-> Cmd("Transfer", s, 1, 0, <<>>, None),
     call      |-> Cmd("Call", c, 1, 2, <<1, 2>>, None),
     trap      |-> Cmd("Call", c, 1, 0, <<>>, "RuntimeError"),
     nocode    |-> Cmd("Call", p, 1, 0, <<>>, "InvalidCBI"),
     topup     |-> Cmd("TopUpDeposit", s, 1, 0, <<>>, None),
     epoch     |-> Cmd("NextEpoch", s, 0, 0, <<>>, None)]

CommandLists ==
    {[i \in DOMAIN names |-> CommandNamed[names[i]]] : names \in BoundedSeq(CommandNames, MaxCommands)}

MCTxns ==
    {[version |-> v, signer |-> s, nonce |-> n, gas_limit |-> g, priority_fee |-> f,
      size |-> 1, commands |-> cmds] :
        v \in {1, 2}, n \in Nonces, g \in GasLimits, f \in PriorityFees, cmds \in CommandLists}

MCBlocks ==
    {[base_fee |-> 3, proposer |-> x, treasury |-> y, performance |-> TRUE] :
        x \in Roles, y \in Roles}
    \cup {[base_fee |-> 3, proposer |-> p, treasury |-> p, performance |-> FALSE]}

\* A rich c can pay for the two commands that one call defers, not for those of a second
\* call. A poor one can pay for the first only, unless it is paid before. The balance of p
\* is small or next to the integer limit.
MCGeneses ==
    {[balance |-> b, deposit |-> [a \in Accounts |-> 0], nonce |-> [a \in Accounts |-> 0],
      epoch |-> 0, version |-> 1] :
        b \in {s :> 30 @@ c :> 5 @@ p :> 1, s :> 30 @@ c :> 3 @@ p :> MaxU64 - 1}}

=============================================================================
