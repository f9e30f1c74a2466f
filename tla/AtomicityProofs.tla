-------------------------- MODULE AtomicityProofs --------------------------
(***************************************************************************)
(* A transaction is atomic, for any list of commands with any deferred     *)
(* commands: the transition function implements AtomicTransaction.  First  *)
(* what the effects of commands compute, then what the commands see        *)
(* through the write set, then the invariant that relates the two while    *)
(* the commands run, and then the steps one by one.                        *)
(***************************************************************************)
EXTENDS TransactionRefinement, TransactionProofs

\* A leaf goes to the SMT solver, for a minute at most, unless it names Zenon.
USE SMTT(60)

\* What a sequence of commands leaves: a world state, or None after a failure.
States == WorldState \cup {None}

\* A stack that commands are pushed onto: its length and its first entries.
LEMMA Pushed ==
    ASSUME NEW s \in Seq(Entry), NEW t \in Seq(Entry)
    PROVE  Len(s \o t) = Len(s) + Len(t) /\ \A i \in 1 .. Len(s) : (s \o t)[i] = s[i]
  OBVIOUS

\* The length of the stack when m commands take the place of the first of c - n.
LEMMA PushedLength ==
    ASSUME NEW m \in Nat, NEW c \in Nat, NEW n \in Nat
    PROVE  m + ((0 + (c - n)) - 1) = m + (c - (n + 1))
  OBVIOUS

\* Nothing of m deferred commands is done when m are left.
LEMMA NoneDone ==
    ASSUME NEW m \in Nat, NEW n \in Nat
    PROVE  m - m = 0 /\ (n + 1) - 1 = n /\ m <= m /\ \A i \in 1 .. m : (m - m) + i = i
  OBVIOUS

\* The abstract specification uses the same arithmetic.
LEMMA AtomicArith ==
    /\ \A y, z : Atomic!saturating_add(y, z) = saturating_add(y, z)
    /\ \A t : Atomic!tx_inclusion_cost(t) = tx_inclusion_cost(t)
  <1>1. \A y, z : Atomic!saturating_add(y, z) = saturating_add(y, z)
    BY ZenonT(60) DEF Atomic!saturating_add, Atomic!saturate, Atomic!U64, saturating_add, saturate, U64
  <1> QED
    BY <1>1, ZenonT(60) DEF Atomic!tx_inclusion_cost, tx_inclusion_cost

\* The effects of the abstract specification.
LEMMA EffectTypes ==
    ASSUME NEW w \in States, NEW a \in Accounts, NEW b \in Accounts, NEW x \in U64
    PROVE  Atomic!TopUp(w, a, x) \in States /\ Atomic!Pay(w, a, b, x) \in States
  <1>1. CASE w = None \/ w.balance[a] < x
    BY <1>1, ZenonT(60) DEF Atomic!TopUp, Atomic!Pay, States
  <1>2. CASE ~ (w = None \/ w.balance[a] < x)
    <2>1. w \in WorldState /\ w.balance \in [Accounts -> U64] /\ w.deposit \in [Accounts -> U64]
      BY <1>2, ZenonT(60) DEF States, WorldState
    <2>2. w.balance[a] - x \in U64
      BY <1>2, <2>1, U64Assumption DEF U64
    <2>3. \A y, z : Atomic!saturating_add(y, z) \in U64
      BY AtomicArith, Saturated, ZenonT(60)
    <2>4. Atomic!Move(w.balance, a, b, x) \in [Accounts -> U64]
      BY <2>1, <2>2, <2>3 DEF Atomic!Move
    <2>5. Atomic!Pay(w, a, b, x) = [w EXCEPT !.balance = Atomic!Move(w.balance, a, b, x)]
      BY <1>2, ZenonT(60) DEF Atomic!Pay
    <2>6. Atomic!Pay(w, a, b, x) \in WorldState
      BY <2>1, <2>4, <2>5 DEF WorldState
    <2>7. Atomic!TopUp(w, a, x) =
              [w EXCEPT !.balance = [w.balance EXCEPT ![a] = w.balance[a] - x],
                        !.deposit = [w.deposit EXCEPT ![a] = Atomic!saturating_add(w.deposit[a], x)]]
      BY <1>2 DEF Atomic!TopUp
    <2>8. Atomic!TopUp(w, a, x) \in WorldState
      <3> DEFINE b1 == [w.balance EXCEPT ![a] = w.balance[a] - x]
                 d1 == [w.deposit EXCEPT ![a] = Atomic!saturating_add(w.deposit[a], x)]
      <3>1. b1 \in [Accounts -> U64] /\ d1 \in [Accounts -> U64]
        BY <2>1, <2>2, <2>3
      <3> HIDE DEF b1, d1
      <3>2. [w EXCEPT !.balance = b1, !.deposit = d1] \in WorldState
        BY <2>1, <3>1, ZenonT(60) DEF WorldState
      <3> QED BY <2>7, <3>2 DEF b1, d1
    <2> QED BY <2>6, <2>8, ZenonT(60) DEF States
  <1> QED BY <1>1, <1>2, ZenonT(60)

LEMMA EffectType ==
    ASSUME NEW w \in States, NEW a \in Accounts, NEW cmd \in Command, cmd.kind # "NextEpoch"
    PROVE  Atomic!Effect(w, a, cmd) \in States
  <1>1. cmd.to \in Accounts /\ cmd.amount \in U64 /\ cmd.pay \in U64
    BY ZenonT(60) DEF Command, Amounts
  <1>2. cmd.kind \in {"Transfer", "Call", "TopUpDeposit"}
    BY ZenonT(60) DEF Command, Kinds
  <1>3. CASE cmd.kind = "TopUpDeposit"
    <2>1. Atomic!Effect(w, a, cmd) = Atomic!TopUp(w, a, cmd.amount)
      BY <1>3 DEF Atomic!Effect
    <2> QED BY <1>1, <2>1, EffectTypes
  <1>4. CASE cmd.kind = "Transfer"
    <2>1. Atomic!Effect(w, a, cmd) = Atomic!Pay(w, a, cmd.to, cmd.amount)
      BY <1>4 DEF Atomic!Effect
    <2> QED BY <1>1, <2>1, EffectTypes
  <1>5. CASE cmd.kind = "Call"
    <2> DEFINE paid == Atomic!Pay(w, a, cmd.to, cmd.amount)
    <2>1. Atomic!Effect(w, a, cmd) = IF cmd.error # None THEN None ELSE Atomic!Pay(paid, cmd.to, a, cmd.pay)
      BY <1>5, ZenonT(60) DEF Atomic!Effect
    <2>2. paid \in States
      BY <1>1, EffectTypes
    <2> HIDE DEF paid
    <2>3. Atomic!Pay(paid, cmd.to, a, cmd.pay) \in States
      BY <1>1, <2>2, EffectTypes
    <2> QED BY <2>1, <2>3 DEF States
  <1> QED BY <1>2, <1>3, <1>4, <1>5

\* The commands a call defers.
LEMMA DeferringType ==
    ASSUME NEW cmd \in Command
    PROVE  /\ Atomic!Deferring(cmd) \in Seq(U64) /\ Len(Atomic!Deferring(cmd)) \in Nat
           /\ \A j \in 1 .. Len(Atomic!Deferring(cmd)) : Atomic!Deferring(cmd)[j] \in U64
  <1>1. cmd.defer \in Seq(U64)
    BY ZenonT(60) DEF Command, Amounts
  <1>2. Atomic!Deferring(cmd) \in Seq(U64)
    BY <1>1 DEF Atomic!Deferring
  <1> QED BY <1>2

\* A command and its deferred commands, one after the other.
LEMMA DeferredRun ==
    ASSUME NEW w \in States, NEW a \in Accounts, NEW cmd \in Command, cmd.kind # "NextEpoch"
    PROVE  LET d == Atomic!Deferring(cmd)
               after == Atomic!WithDeferred(w, a, cmd)
           IN  /\ after \in [0 .. Len(d) -> States]
               /\ after[0] = Atomic!Effect(w, a, cmd)
               /\ \A j \in 1 .. Len(d) : after[j] = Atomic!TopUp(after[j - 1], cmd.to, d[j])
  <1> DEFINE d == Atomic!Deferring(cmd)
             n == Len(d)
             G == [j \in 1 .. n |-> [s \in States |-> Atomic!TopUp(s, cmd.to, d[j])]]
             after == Atomic!WithDeferred(w, a, cmd)
             Is(f) == f = [j \in 0 .. n |-> IF j = 0 THEN Atomic!Effect(w, a, cmd)
                                            ELSE Atomic!TopUp(f[j - 1], cmd.to, d[j])]
  <1>1. n \in Nat /\ \A j \in 1 .. n : d[j] \in U64
    BY DeferringType, ZenonT(60)
  <1>2. cmd.to \in Accounts
    BY ZenonT(60) DEF Command
  <1>3. Atomic!Effect(w, a, cmd) \in States
    BY EffectType, ZenonT(60)
  <1>4. \A j \in 1 .. n : \A s \in States : Atomic!TopUp(s, cmd.to, d[j]) \in States
    BY <1>1, <1>2, EffectTypes, ZenonT(60)
  <1>5. after = CHOOSE f : Is(f)
    BY ZenonT(60) DEF Atomic!WithDeferred
  <1> HIDE DEF d, n, after
  <1>6. G \in Steps(n, States)
    BY <1>4, ZenonT(60) DEF Steps
  <1>7. PICK f \in [0 .. n -> States] : /\ f[0] = Atomic!Effect(w, a, cmd)
                                        /\ \A j \in 1 .. n : f[j] = G[j][f[j - 1]]
    <2> DEFINE e == Atomic!Effect(w, a, cmd)
    <2>1. e \in States
      BY <1>3, ZenonT(60)
    <2> HIDE DEF G, e
    <2>2. \E f : IsRun(f, n, States, e, G)
      BY <1>1, <1>6, <2>1, RunExists, ZenonT(60)
    <2> QED BY <2>2, ZenonT(60) DEF IsRun, e
  <1>8. Is(f)
    <2>1. ASSUME NEW j \in 1 .. n PROVE f[j] = Atomic!TopUp(f[j - 1], cmd.to, d[j])
      <3>1. j - 1 \in 0 .. n
        BY <1>1
      <3>2. f[j - 1] \in States
        BY <1>7, <3>1, ZenonT(60)
      <3>3. G[j][f[j - 1]] = Atomic!TopUp(f[j - 1], cmd.to, d[j])
        BY <3>2, ZenonT(60)
      <3> QED BY <1>7, <3>3, ZenonT(60)
    <2>2. \A j \in 0 .. n : f[j] = IF j = 0 THEN Atomic!Effect(w, a, cmd)
                                   ELSE Atomic!TopUp(f[j - 1], cmd.to, d[j])
      BY <1>1, <1>7, <2>1
    <2>3. f = [j \in 0 .. n |-> f[j]]
      BY <1>7, ZenonT(60)
    <2> QED BY <2>2, <2>3, ZenonT(60)
  <1>9. Is(after)
    BY <1>5, <1>8, ZenonT(60)
  <1>10. /\ after[0] = Atomic!Effect(w, a, cmd)
         /\ \A j \in 1 .. n : after[j] = Atomic!TopUp(after[j - 1], cmd.to, d[j])
    BY <1>1, <1>9
  <1>11. \A j \in 0 .. n : after[j] \in States
    <2>1. \A j \in 1 .. n : after[j - 1] \in States => after[j] \in States
      BY <1>4, <1>10
    <2>2. after[0] \in States
      BY <1>3, <1>10
    <2> QED BY <1>1, <2>1, <2>2, RunType, ZenonT(60)
  <1>12. after \in [0 .. n -> States]
    <2>1. after = [j \in 0 .. n |-> after[j]]
      BY <1>9
    <2> QED BY <1>11, <2>1
  <1> QED BY <1>10, <1>12, ZenonT(60) DEF d, n, after

\* The commands of a transaction, one after the other.
LEMMA CommandsRun ==
    ASSUME NEW w \in States, NEW t \in Transaction,
           \A i \in 1 .. Len(t.commands) : t.commands[i].kind # "NextEpoch"
    PROVE  LET after == Atomic!Commands(w, t)
               n     == Len(t.commands)
           IN  /\ after \in [0 .. n -> States]
               /\ after[0] = w
               /\ \A i \in 1 .. n :
                      after[i] = Atomic!WithDeferred(after[i - 1], t.signer, t.commands[i])
                                     [Len(Atomic!Deferring(t.commands[i]))]
  <1> DEFINE n == Len(t.commands)
             W(s, i) == Atomic!WithDeferred(s, t.signer, t.commands[i])[Len(Atomic!Deferring(t.commands[i]))]
             G == [i \in 1 .. n |-> [s \in States |-> W(s, i)]]
             after == Atomic!Commands(w, t)
             Is(f) == f = [i \in 0 .. n |-> IF i = 0 THEN w ELSE W(f[i - 1], i)]
  <1>1. n \in Nat /\ t.signer \in Accounts /\ \A i \in 1 .. n : t.commands[i] \in Command
    BY DEF Transaction
  <1>2. ASSUME NEW i \in 1 .. n, NEW s \in States PROVE W(s, i) \in States
    <2> DEFINE cmd == t.commands[i]
               d == Atomic!Deferring(cmd)
    <2>1. cmd \in Command /\ cmd.kind # "NextEpoch"
      BY <1>1, ZenonT(60)
    <2> HIDE DEF cmd
    <2>2. Len(d) \in Nat
      BY <2>1, DeferringType, ZenonT(60)
    <2>3. Atomic!WithDeferred(s, t.signer, cmd) \in [0 .. Len(d) -> States]
      BY <1>1, <2>1, DeferredRun
    <2>4. Len(d) \in 0 .. Len(d)
      BY <2>2
    <2>5. Atomic!WithDeferred(s, t.signer, cmd)[Len(d)] \in States
      BY <2>3, <2>4
    <2> QED BY <2>5, ZenonT(60) DEF cmd
  <1>3. after = CHOOSE f : Is(f)
    BY ZenonT(60) DEF Atomic!Commands
  <1> HIDE DEF n, after, W
  <1>4. G \in Steps(n, States)
    BY <1>2, ZenonT(60) DEF Steps
  <1>5. PICK f : IsRun(f, n, States, w, G)
    <2> HIDE DEF G
    <2> QED BY <1>1, <1>4, RunExists
  <1>6. f \in [0 .. n -> States] /\ f[0] = w /\ \A i \in 1 .. n : f[i] = G[i][f[i - 1]]
    BY <1>5, ZenonT(60) DEF IsRun
  <1>7. Is(f)
    <2>1. ASSUME NEW i \in 1 .. n PROVE f[i] = W(f[i - 1], i)
      <3>1. i - 1 \in 0 .. n
        BY <1>1
      <3>2. f[i - 1] \in States
        BY <1>6, <3>1, ZenonT(60)
      <3>3. G[i][f[i - 1]] = W(f[i - 1], i)
        BY <3>2, ZenonT(60)
      <3> QED BY <1>6, <3>3, ZenonT(60)
    <2>2. \A i \in 0 .. n : f[i] = IF i = 0 THEN w ELSE W(f[i - 1], i)
      BY <1>1, <1>6, <2>1
    <2>3. f = [i \in 0 .. n |-> f[i]]
      BY <1>6, ZenonT(60)
    <2> QED BY <2>2, <2>3, ZenonT(60)
  <1>8. Is(after)
    BY <1>3, <1>7, ZenonT(60)
  <1>9. after[0] = w /\ \A i \in 1 .. n : after[i] = W(after[i - 1], i)
    BY <1>1, <1>8
  <1>10. \A i \in 0 .. n : after[i] \in States
    <2>1. \A i \in 1 .. n : after[i - 1] \in States => after[i] \in States
      BY <1>2, <1>9
    <2> QED BY <1>1, <1>9, <2>1, RunType, ZenonT(60)
  <1>11. after \in [0 .. n -> States]
    <2>1. after = [i \in 0 .. n |-> after[i]]
      BY <1>8, ZenonT(60)
    <2> QED BY <1>10, <2>1
  <1> QED BY <1>9, <1>11 DEF n, after, W

\* The world state as the commands of the transaction see it.
Viewed(w) == [ws EXCEPT !.balance = Balances(w), !.deposit = Deposits(w)]

\* What the commands see is a world state.
LEMMA ViewedType ==
    ASSUME ws \in WorldState, NEW w \in Writes
    PROVE  /\ Viewed(w) \in WorldState
           /\ Viewed(w).balance = Balances(w) /\ Viewed(w).deposit = Deposits(w)
           /\ Viewed(w).nonce = ws.nonce /\ Viewed(w).epoch = ws.epoch /\ Viewed(w).version = ws.version
  <1> DEFINE B == Balances(w)
             D == Deposits(w)
  <1>1. B \in [Accounts -> U64] /\ D \in [Accounts -> U64]
    BY FundsType, ZenonT(60)
  <1>2. Viewed(w) = [ws EXCEPT !.balance = B, !.deposit = D]
    BY ZenonT(60) DEF Viewed
  <1> HIDE DEF B, D
  <1>3. /\ Viewed(w) \in WorldState /\ Viewed(w).balance = B /\ Viewed(w).deposit = D
        /\ Viewed(w).nonce = ws.nonce /\ Viewed(w).epoch = ws.epoch /\ Viewed(w).version = ws.version
    BY <1>1, <1>2, ZenonT(60) DEF WorldState
  <1> QED BY <1>3, ZenonT(60) DEF B, D

\* World states are equal when their parts are.
LEMMA WorldStatesEqual ==
    ASSUME NEW r \in WorldState, NEW s \in WorldState,
           r.balance = s.balance, r.deposit = s.deposit, r.nonce = s.nonce,
           r.epoch = s.epoch, r.version = s.version
    PROVE  r = s
  BY DEF WorldState

\* Nothing is written yet, or no longer.
LEMMA ViewedNothing ==
    ASSUME ws \in WorldState
    PROVE  Viewed(NoWrites) = ws
  <1>1. NoWrites \in Writes
    BY NoWritesFunds, ZenonT(60)
  <1>2. \A a \in Accounts : balance(NoWrites, a) = ws.balance[a] /\ deposit(NoWrites, a) = ws.deposit[a]
    BY ZenonT(60) DEF balance, deposit, NoWrites
  <1>3. Balances(NoWrites) = ws.balance /\ Deposits(NoWrites) = ws.deposit
    BY <1>2, WealthType DEF Balances, Deposits
  <1> QED
    BY <1>1, <1>3, ViewedType, WorldStatesEqual

\* A write is seen in its account only.
LEMMA ViewedWrite ==
    ASSUME ws \in WorldState, NEW w \in Writes, NEW a \in Accounts, NEW value \in U64
    PROVE  /\ Balances(set_balance(w, a, value)) = [Balances(w) EXCEPT ![a] = value]
           /\ Deposits(set_balance(w, a, value)) = Deposits(w)
           /\ Deposits(set_deposit(w, a, value)) = [Deposits(w) EXCEPT ![a] = value]
           /\ Balances(set_deposit(w, a, value)) = Balances(w)
  <1> DEFINE b == set_balance(w, a, value)
             d == set_deposit(w, a, value)
  <1>1. value # None
    BY LedgerAssumption, ZenonT(60)
  <1>2. /\ balance(b, a) = value
        /\ \A x \in Accounts \ {a} : balance(b, x) = balance(w, x)
        /\ \A x \in Accounts : deposit(b, x) = deposit(w, x)
    BY <1>1, ZenonT(60) DEF balance, deposit, set_balance, Writes
  <1>3. /\ deposit(d, a) = value
        /\ \A x \in Accounts \ {a} : deposit(d, x) = deposit(w, x)
        /\ \A x \in Accounts : balance(d, x) = balance(w, x)
    BY <1>1, ZenonT(60) DEF balance, deposit, set_deposit, Writes
  <1> HIDE DEF b, d
  <1>4. Balances(b) = [Balances(w) EXCEPT ![a] = value] /\ Deposits(b) = Deposits(w)
    BY <1>2, ZenonT(60) DEF Balances, Deposits
  <1>5. Deposits(d) = [Deposits(w) EXCEPT ![a] = value] /\ Balances(d) = Balances(w)
    BY <1>3, ZenonT(60) DEF Balances, Deposits
  <1> QED BY <1>4, <1>5 DEF b, d

\* A transfer through the cache is a payment.
LEMMA ViewedTransfer ==
    ASSUME ws \in WorldState, NEW w \in Writes, NEW from \in Accounts, NEW to \in Accounts,
           NEW amount \in U64, balance(w, from) >= amount
    PROVE  Viewed(transfer(w, from, to, amount)) = Atomic!Pay(Viewed(w), from, to, amount)
  <1> DEFINE v == balance(w, from) - amount
             debited == set_balance(w, from, v)
             credit == saturating_add(balance(debited, to), amount)
             paid == set_balance(debited, to, credit)
             less == [Balances(w) EXCEPT ![from] = v]
             V == Viewed(w)
  <1>1. balance(w, from) \in U64 /\ v \in U64
    BY ReadType, U64Assumption DEF U64
  <1>2. /\ Balances(w) \in [Accounts -> U64] /\ Balances(w)[from] = balance(w, from)
    BY FundsType, ZenonT(60)
  <1>3. debited \in Writes /\ Balances(debited) = less /\ Deposits(debited) = Deposits(w)
    <2> HIDE DEF v
    <2> QED BY <1>1, WriteType, ViewedWrite
  <1> HIDE DEF debited
  <1>4. balance(debited, to) = less[to] /\ credit \in U64
    BY <1>3, FundsType, Saturated, ZenonT(60)
  <1>5. /\ paid \in Writes /\ Balances(paid) = [less EXCEPT ![to] = credit]
        /\ Deposits(paid) = Deposits(w)
    <2> HIDE DEF credit, less
    <2>1. paid \in Writes
      BY <1>3, <1>4, WriteType
    <2>2. Balances(paid) = [Balances(debited) EXCEPT ![to] = credit] /\ Deposits(paid) = Deposits(debited)
      BY <1>3, <1>4, ViewedWrite
    <2> QED BY <1>3, <2>1, <2>2
  <1>6. credit = Atomic!saturating_add(less[to], amount)
    BY <1>4, AtomicArith
  <1>7. paid = transfer(w, from, to, amount)
    BY DEF transfer, debited
  <1> HIDE DEF paid, credit
  <1>8. Balances(paid) = Atomic!Move(Balances(w), from, to, amount)
    <2>1. less = [Balances(w) EXCEPT ![from] = @ - amount]
      BY <1>2, ZenonT(60)
    <2> QED BY <1>5, <1>6, <2>1, ZenonT(60) DEF Atomic!Move
  <1>9. /\ V \in WorldState /\ V.balance = Balances(w) /\ V.deposit = Deposits(w)
        /\ V.nonce = ws.nonce /\ V.epoch = ws.epoch /\ V.version = ws.version
    BY ViewedType, ZenonT(60)
  <1>10. V # None /\ ~ (V.balance[from] < amount)
    BY <1>1, <1>2, <1>9, LedgerAssumption, U64Assumption DEF U64
  <1>11. Atomic!Pay(V, from, to, amount) = [V EXCEPT !.balance = Balances(paid)]
    <2>1. Atomic!Pay(V, from, to, amount) = [V EXCEPT !.balance = Atomic!Move(V.balance, from, to, amount)]
      BY <1>10 DEF Atomic!Pay
    <2> QED BY <1>8, <1>9, <2>1
  <1> HIDE DEF V
  <1>12. [V EXCEPT !.balance = Balances(paid)] = Viewed(paid)
    <2> DEFINE R == [V EXCEPT !.balance = Balances(paid)]
    <2>1. Balances(paid) \in [Accounts -> U64]
      BY <1>5, FundsType
    <2>2. /\ R \in WorldState /\ R.balance = Balances(paid) /\ R.deposit = V.deposit
          /\ R.nonce = V.nonce /\ R.epoch = V.epoch /\ R.version = V.version
      BY <1>9, <2>1 DEF WorldState
    <2> HIDE DEF R
    <2>3. R = Viewed(paid)
      <3>1. /\ Viewed(paid) \in WorldState
            /\ Viewed(paid).balance = Balances(paid) /\ Viewed(paid).deposit = Deposits(w)
            /\ Viewed(paid).nonce = ws.nonce /\ Viewed(paid).epoch = ws.epoch
            /\ Viewed(paid).version = ws.version
        BY <1>5, ViewedType, ZenonT(60)
      <3> QED BY <1>9, <2>2, <3>1, WorldStatesEqual
    <2> QED BY <2>3 DEF R
  <1> QED
    BY <1>7, <1>11, <1>12 DEF V

\* A top-up through the cache.
LEMMA ViewedTopUp ==
    ASSUME ws \in WorldState, NEW w \in Writes, NEW actor \in Accounts,
           NEW amount \in U64, balance(w, actor) >= amount
    PROVE  Viewed(set_deposit(set_balance(w, actor, balance(w, actor) - amount),
                              actor, saturating_add(deposit(w, actor), amount)))
               = Atomic!TopUp(Viewed(w), actor, amount)
  <1> DEFINE v == balance(w, actor) - amount
             debited == set_balance(w, actor, v)
             credit == saturating_add(deposit(w, actor), amount)
             topped == set_deposit(debited, actor, credit)
             less == [Balances(w) EXCEPT ![actor] = v]
             more == [Deposits(w) EXCEPT ![actor] = credit]
             V == Viewed(w)
  <1>1. balance(w, actor) \in U64 /\ v \in U64
    BY ReadType, U64Assumption DEF U64
  <1>2. /\ Balances(w) \in [Accounts -> U64] /\ Balances(w)[actor] = balance(w, actor)
        /\ Deposits(w) \in [Accounts -> U64] /\ Deposits(w)[actor] = deposit(w, actor)
    BY FundsType, ZenonT(60)
  <1>3. debited \in Writes /\ Balances(debited) = less /\ Deposits(debited) = Deposits(w)
    <2> HIDE DEF v
    <2> QED BY <1>1, WriteType, ViewedWrite
  <1>4. credit \in U64 /\ credit = Atomic!saturating_add(deposit(w, actor), amount)
    BY Saturated, AtomicArith, ZenonT(60)
  <1> HIDE DEF debited, credit
  <1>5. topped \in Writes /\ Balances(topped) = less /\ Deposits(topped) = more
    BY <1>3, <1>4, WriteType, ViewedWrite
  <1>6. /\ V \in WorldState /\ V.balance = Balances(w) /\ V.deposit = Deposits(w)
        /\ V.nonce = ws.nonce /\ V.epoch = ws.epoch /\ V.version = ws.version
    BY ViewedType
  <1>7. V # None /\ ~ (V.balance[actor] < amount)
    BY <1>1, <1>2, <1>6, LedgerAssumption, U64Assumption DEF U64
  <1> HIDE DEF topped, V
  <1>8. Atomic!TopUp(V, actor, amount) = [V EXCEPT !.balance = less, !.deposit = more]
    <2>1. Atomic!TopUp(V, actor, amount) =
              [V EXCEPT !.balance = [V.balance EXCEPT ![actor] = V.balance[actor] - amount],
                        !.deposit = [V.deposit EXCEPT ![actor] = Atomic!saturating_add(V.deposit[actor], amount)]]
      BY <1>7, ZenonT(60) DEF Atomic!TopUp
    <2>2. /\ [V.balance EXCEPT ![actor] = V.balance[actor] - amount] = less
          /\ [V.deposit EXCEPT ![actor] = Atomic!saturating_add(V.deposit[actor], amount)] = more
      BY <1>2, <1>4, <1>6
    <2> HIDE DEF less, more
    <2> QED BY <2>1, <2>2, ZenonT(60)
  <1>9. [V EXCEPT !.balance = less, !.deposit = more] = Viewed(topped)
    <2> DEFINE R == [V EXCEPT !.balance = less, !.deposit = more]
    <2>1. less \in [Accounts -> U64] /\ more \in [Accounts -> U64]
      BY <1>5, FundsType
    <2> HIDE DEF less, more
    <2>2. /\ R \in WorldState /\ R.balance = less /\ R.deposit = more
          /\ R.nonce = V.nonce /\ R.epoch = V.epoch /\ R.version = V.version
      BY <1>6, <2>1, ZenonT(60) DEF WorldState
    <2> HIDE DEF R
    <2>3. R = Viewed(topped)
      <3>1. /\ Viewed(topped) \in WorldState
            /\ Viewed(topped).balance = less /\ Viewed(topped).deposit = more
            /\ Viewed(topped).nonce = ws.nonce /\ Viewed(topped).epoch = ws.epoch
            /\ Viewed(topped).version = ws.version
        BY <1>5, ViewedType
      <3> QED BY <1>6, <2>2, <3>1, WorldStatesEqual
    <2> QED BY <2>3, ZenonT(60) DEF R
  <1> QED
    BY <1>8, <1>9, ZenonT(60) DEF V, topped, debited, credit

\* A command that succeeds has its effect on what it sees.
LEMMA ExecuteView ==
    ASSUME TypeOK, phase = "commands", NEW entry \in Entry,
           entry.sent => entry.cmd.kind # "NextEpoch",
           Execute(entry).error = None, Execute(entry).trap = None
    PROVE  Viewed(Execute(entry).writes) =
               IF entry.sent THEN Atomic!Effect(Viewed(writes), tx.signer, entry.cmd)
               ELSE Atomic!TopUp(Viewed(writes), entry.contract, entry.amount)
  <1>1. writes \in Writes /\ ws \in WorldState /\ tx.signer \in Accounts
    BY DEF TypeOK, Writes, Transaction
  <1>2. /\ None # "NotEnoughBalanceForTransfer" /\ None # "InvalidCBI"
        /\ None # "InternalRuntimeError"
    BY LedgerAssumption DEF Errors
  <1>3. \A e : Failed(e).error = e
    BY DEF Failed
  <1>4. \A w, trap : Done(w, trap).writes = w /\ Done(w, trap).trap = trap
    BY DEF Done
  <1>5. ASSUME NEW actor \in Accounts, NEW amount \in U64, ExecuteTopUp(actor, amount).error = None
        PROVE  Viewed(ExecuteTopUp(actor, amount).writes) = Atomic!TopUp(Viewed(writes), actor, amount)
    <2>1. ~ (balance(writes, actor) < amount)
      BY <1>2, <1>3, <1>5 DEF ExecuteTopUp
    <2>2. balance(writes, actor) >= amount
      BY <1>1, <2>1, ReadType, U64Assumption DEF U64
    <2>3. ExecuteTopUp(actor, amount).writes =
              set_deposit(set_balance(writes, actor, balance(writes, actor) - amount),
                          actor, saturating_add(deposit(writes, actor), amount))
      BY <1>4, <2>1 DEF ExecuteTopUp
    <2> QED BY <1>1, <2>2, <2>3, ViewedTopUp
  <1>6. ASSUME NEW w \in Writes, NEW from \in Accounts, NEW to \in Accounts, NEW amount \in U64,
               ~ (balance(w, from) < amount)
        PROVE  /\ transfer(w, from, to, amount) \in Writes
               /\ Viewed(transfer(w, from, to, amount)) = Atomic!Pay(Viewed(w), from, to, amount)
    <2>1. balance(w, from) >= amount
      BY <1>1, <1>6, ReadType, U64Assumption DEF U64
    <2> QED BY <1>1, <2>1, TransferType, ViewedTransfer
  <1>7. ASSUME NEW cmd \in Command, ExecuteTransfer(cmd).error = None
        PROVE  Viewed(ExecuteTransfer(cmd).writes) = Atomic!Pay(Viewed(writes), tx.signer, cmd.to, cmd.amount)
    <2>1. cmd.to \in Accounts /\ cmd.amount \in U64
      BY ZenonT(60) DEF Command, Amounts
    <2>2. ~ (balance(writes, tx.signer) < cmd.amount)
      BY <1>2, <1>3, <1>7 DEF ExecuteTransfer
    <2>3. ExecuteTransfer(cmd).writes = transfer(writes, tx.signer, cmd.to, cmd.amount)
      BY <1>4, <2>2, ZenonT(60) DEF ExecuteTransfer
    <2> QED BY <1>1, <1>6, <2>1, <2>2, <2>3
  <1>8. ASSUME NEW cmd \in Command, ExecuteCall(cmd).error = None, ExecuteCall(cmd).trap = None
        PROVE  /\ cmd.error = None
               /\ Viewed(ExecuteCall(cmd).writes) =
                      Atomic!Pay(Atomic!Pay(Viewed(writes), tx.signer, cmd.to, cmd.amount),
                                 cmd.to, tx.signer, cmd.pay)
    <2> DEFINE paid == transfer(writes, tx.signer, cmd.to, cmd.amount)
               back == transfer(paid, cmd.to, tx.signer, cmd.pay)
    <2>1. cmd.to \in Accounts /\ cmd.amount \in U64 /\ cmd.pay \in U64
      BY ZenonT(60) DEF Command, Amounts
    <2>2. ExecuteCall(cmd) =
              IF balance(writes, tx.signer) < cmd.amount THEN Failed("NotEnoughBalanceForTransfer")
              ELSE IF cmd.error = "InvalidCBI" THEN Failed("InvalidCBI")
              ELSE IF balance(paid, cmd.to) < cmd.pay THEN Done(paid, "InternalRuntimeError")
              ELSE Done(back, cmd.error)
      BY ZenonT(60) DEF ExecuteCall
    <2> HIDE DEF paid, back
    <2>3. ~ (balance(writes, tx.signer) < cmd.amount) /\ ~ (cmd.error = "InvalidCBI")
      BY <1>2, <1>3, <1>8, <2>2
    <2>4. ~ (balance(paid, cmd.to) < cmd.pay)
      BY <1>2, <1>4, <1>8, <2>2, <2>3
    <2>5. ExecuteCall(cmd).writes = back /\ cmd.error = None
      BY <1>4, <1>8, <2>2, <2>3, <2>4
    <2>6. /\ paid \in Writes
          /\ Viewed(paid) = Atomic!Pay(Viewed(writes), tx.signer, cmd.to, cmd.amount)
      BY <1>1, <1>6, <2>1, <2>3 DEF paid
    <2>7. Viewed(back) = Atomic!Pay(Viewed(paid), cmd.to, tx.signer, cmd.pay)
      BY <1>1, <1>6, <2>1, <2>4, <2>6 DEF back
    <2> QED BY <2>5, <2>6, <2>7, ZenonT(60)
  <1>9. CASE ~ entry.sent
    <2>1. Execute(entry) = ExecuteTopUp(entry.contract, entry.amount)
      BY <1>9, ZenonT(60) DEF Execute
    <2>2. entry.contract \in Accounts /\ entry.amount \in U64
      BY <1>9, ZenonT(60) DEF Entry, SentEntry, DeferredEntry
    <2> QED BY <1>5, <1>9, <2>1, <2>2
  <1>10. CASE entry.sent
    <2> DEFINE cmd == entry.cmd
               V == Viewed(writes)
    <2>1. cmd \in Command
      BY <1>10, ZenonT(60) DEF Entry, SentEntry, DeferredEntry
    <2>2. cmd.kind \in {"Transfer", "Call", "TopUpDeposit"} /\ cmd.amount \in U64
      BY <1>10, <2>1, ZenonT(60) DEF Command, Kinds, Amounts
    <2>3. CASE cmd.kind = "Transfer"
      <3>1. Execute(entry) = ExecuteTransfer(cmd)
        BY <1>10, <2>3, ZenonT(60) DEF Execute
      <3>2. Atomic!Effect(V, tx.signer, cmd) = Atomic!Pay(V, tx.signer, cmd.to, cmd.amount)
        BY <2>3, ZenonT(60) DEF Atomic!Effect
      <3> QED BY <1>7, <1>10, <2>1, <3>1, <3>2
    <2>4. CASE cmd.kind = "Call"
      <3>1. Execute(entry) = ExecuteCall(cmd)
        BY <1>10, <2>4, ZenonT(60) DEF Execute
      <3>2. cmd.error = None => Atomic!Effect(V, tx.signer, cmd) =
                Atomic!Pay(Atomic!Pay(V, tx.signer, cmd.to, cmd.amount), cmd.to, tx.signer, cmd.pay)
        BY <2>4, ZenonT(60) DEF Atomic!Effect
      <3> QED BY <1>8, <1>10, <2>1, <3>1, <3>2
    <2>5. CASE cmd.kind = "TopUpDeposit"
      <3>1. Execute(entry) = ExecuteTopUp(tx.signer, cmd.amount)
        BY <1>10, <2>5, ZenonT(60) DEF Execute
      <3>2. Atomic!Effect(V, tx.signer, cmd) = Atomic!TopUp(V, tx.signer, cmd.amount)
        BY <2>5, ZenonT(60) DEF Atomic!Effect
      <3> QED BY <1>1, <1>5, <1>10, <2>2, <3>1, <3>2
    <2> QED BY <2>2, <2>3, <2>4, <2>5
  <1> QED BY <1>9, <1>10, ZenonT(60)

\* While there is no error: k of the commands that the last executed command deferred
\* are still to come, and what the commands see is the effect of all before them.
Progress(k) ==
    /\ Len(stack) = k + (Len(tx.commands) - Len(receipts))
    /\ receipts = <<>> => k = 0 /\ writes = NoWrites
    /\ receipts # <<>> =>
           LET n   == Len(receipts)
               cmd == tx.commands[n]
               d   == Atomic!Deferring(cmd)
           IN  /\ k <= Len(d)
               /\ \A i \in 1 .. k : stack[i] = Deferred(cmd.to, d[(Len(d) - k) + i])
               /\ Viewed(writes) =
                      Atomic!WithDeferred(Atomic!Commands(ws, tx)[n - 1], tx.signer, cmd)[Len(d) - k]

\* What relates the commands phase to an atomic transaction.
AtomicInv ==
    phase = "commands" =>
        /\ gas.inclusion = tx_inclusion_cost(tx)
        /\ tx.nonce = world.nonce[tx.signer]
        /\ error = None => \E k \in Nat : Progress(k)

\* The types in the commands phase, and the effects of its commands.
LEMMA CommandsTypes ==
    ASSUME TransactionInv, phase = "commands"
    PROVE  /\ ws \in WorldState /\ ws \in States /\ writes \in Writes
           /\ tx \in Transaction /\ tx.signer \in Accounts /\ tx.commands \in Seq(Command)
           /\ receipts \in Seq(CommandReceipt) /\ Len(receipts) \in Nat /\ Len(tx.commands) \in Nat
           /\ Len(receipts) <= Len(tx.commands)
           /\ \A i \in 1 .. Len(tx.commands) : tx.commands[i] \in Command /\ tx.commands[i].kind # "NextEpoch"
           /\ Atomic!Commands(ws, tx) \in [0 .. Len(tx.commands) -> States]
           /\ Atomic!Commands(ws, tx)[0] = ws
           /\ \A i \in 1 .. Len(tx.commands) :
                  Atomic!Commands(ws, tx)[i] =
                      Atomic!WithDeferred(Atomic!Commands(ws, tx)[i - 1], tx.signer, tx.commands[i])
                                         [Len(Atomic!Deferring(tx.commands[i]))]
  <1>1. /\ ws \in WorldState /\ writes \in Writes /\ tx \in Transaction /\ tx.signer \in Accounts
        /\ tx.commands \in Seq(Command) /\ receipts \in Seq(CommandReceipt)
        /\ Len(receipts) <= Len(tx.commands) /\ ~ has_next_epoch
    BY ZenonT(60) DEF TransactionInv, ReceiptsInv, TypeOK, Writes, Transaction
  <1>2. Len(receipts) \in Nat /\ Len(tx.commands) \in Nat /\ ws \in States
    BY <1>1 DEF States
  <1>3. \A i \in 1 .. Len(tx.commands) : tx.commands[i] \in Command /\ tx.commands[i].kind # "NextEpoch"
    BY <1>1 DEF has_next_epoch
  <1> QED BY <1>1, <1>2, <1>3, CommandsRun

\* When none of the deferred commands is left, the next effect is that of a command.
LEMMA AllDone ==
    ASSUME TransactionInv, phase = "commands", Progress(0)
    PROVE  Viewed(writes) = Atomic!Commands(ws, tx)[Len(receipts)]
  <1> DEFINE n == Len(receipts)
             cmd == tx.commands[n]
             d == Atomic!Deferring(cmd)
  <1>1. CASE receipts = <<>>
    BY <1>1, CommandsTypes, ViewedNothing, ZenonT(60) DEF Progress
  <1>2. CASE receipts # <<>>
    <2>1. n \in 1 .. Len(tx.commands)
      BY <1>2, CommandsTypes
    <2>2. Len(d) \in Nat
      BY <2>1, CommandsTypes, DeferringType, ZenonT(60)
    <2>3. Len(d) - 0 = Len(d)
      BY <2>2
    <2>4. Viewed(writes) = Atomic!WithDeferred(Atomic!Commands(ws, tx)[n - 1], tx.signer, cmd)[Len(d)]
      BY <1>2, <2>3 DEF Progress
    <2> QED BY <2>1, <2>4, CommandsTypes
  <1> QED BY <1>1, <1>2

\* What a command adds to the stack.
LEMMA DeferredEntries ==
    ASSUME NEW cmd \in Command
    PROVE  /\ Len(deferred_commands(Sent(cmd))) = Len(Atomic!Deferring(cmd))
           /\ \A i \in 1 .. Len(Atomic!Deferring(cmd)) :
                  deferred_commands(Sent(cmd))[i] = Deferred(cmd.to, Atomic!Deferring(cmd)[i])
  <1>1. Sent(cmd).sent /\ Sent(cmd).cmd = cmd
    BY ZenonT(60) DEF Sent
  <1>2. CASE cmd.kind = "Call"
    <2>1. cmd.defer \in Seq(U64)
      BY ZenonT(60) DEF Command, Amounts
    <2>2. deferred_commands(Sent(cmd)) = [i \in 1 .. Len(cmd.defer) |-> Deferred(cmd.to, cmd.defer[i])]
      BY <1>1, <1>2, <2>1 DEF deferred_commands
    <2>3. Atomic!Deferring(cmd) = cmd.defer
      BY <1>2 DEF Atomic!Deferring
    <2> QED BY <2>1, <2>2, <2>3
  <1>3. CASE cmd.kind # "Call"
    BY <1>1, <1>3 DEF deferred_commands, Atomic!Deferring
  <1> QED BY <1>2, <1>3

\* A command that succeeds takes the progress one command further.
LEMMA ProgressStep ==
    ASSUME TransactionInv, NEW cost \in Costs, ExecuteCommand(cost), error' = None,
           NEW k \in Nat, Progress(k)
    PROVE  \E j \in Nat : Progress(j)'
  <1> DEFINE entry   == Head(stack)
             n       == Len(receipts)
             outcome == Execute(entry)
             more    == deferred_commands(entry)
             after   == Atomic!Commands(ws, tx)
  <1>1. /\ phase = "commands" /\ error = None /\ stack # <<>>
        /\ outcome.error = None /\ outcome.trap = None /\ writes' = outcome.writes
        /\ \E e, g : receipts' = IF entry.sent THEN push_command_receipt(entry.cmd.kind, e, g)
                                 ELSE push_deferred_command_receipt(e, g)
        /\ stack' = more \o Tail(stack)
        /\ UNCHANGED <<world, phase, tx, bd, ws, result>>
    <2> DEFINE exhausted == tx.gas_limit < saturating_add(total_gas_used_for_executed_commands, cost)
               err       == IF outcome.error # None THEN outcome.error
                            ELSE IF exhausted THEN "ExecutionProperGasExhausted"
                            ELSE outcome.trap
    <2>1. /\ phase = "commands" /\ error = None /\ stack # <<>>
          /\ writes' = IF err = None THEN outcome.writes ELSE NoWrites
          /\ receipts' = IF entry.sent THEN push_command_receipt(entry.cmd.kind, err, clamped(cost))
                         ELSE push_deferred_command_receipt(err, clamped(cost))
          /\ stack' = IF err = None THEN more \o Tail(stack) ELSE Tail(stack)
          /\ error' = err
          /\ UNCHANGED <<world, phase, tx, bd, ws, result>>
      BY ZenonT(60) DEF ExecuteCommand, push_deferred_commands
    <2>2. None # "ExecutionProperGasExhausted"
      BY LedgerAssumption, ZenonT(60) DEF Errors
    <2> HIDE DEF outcome, exhausted, more
    <2>3. err = None /\ outcome.error = None /\ outcome.trap = None
      BY <2>1, <2>2, ZenonT(60)
    <2> HIDE DEF err
    <2> QED BY <2>1, <2>3, ZenonT(60)
  <1>2. /\ TypeOK /\ ReceiptsInv /\ stack \in Seq(Entry)
    BY <1>1, ZenonT(60) DEF TransactionInv
  <1>3. /\ ws \in WorldState /\ writes \in Writes /\ tx.signer \in Accounts
        /\ receipts \in Seq(CommandReceipt) /\ n \in Nat /\ Len(tx.commands) \in Nat
        /\ \A i \in 1 .. Len(tx.commands) : tx.commands[i] \in Command /\ tx.commands[i].kind # "NextEpoch"
        /\ after \in [0 .. Len(tx.commands) -> States]
    BY <1>1, CommandsTypes, ZenonT(60)
  <1>4. PICK j \in Nat : Pending(j)
    BY <1>1, ZenonT(60) DEF TransactionInv
  <1>5. /\ entry = stack[1] /\ entry \in Entry
        /\ entry.sent => j = 0 /\ n < Len(tx.commands) /\ entry = Sent(tx.commands[n + 1])
        /\ ~ entry.sent => j > 0
    BY <1>1, <1>4, NextEntry, ZenonT(60)
  <1>6. j = k
    BY <1>2, <1>3, <1>4 DEF Pending, Progress
  <1>7. entry.sent => entry.cmd = tx.commands[n + 1] /\ entry.cmd.kind # "NextEpoch"
    BY <1>3, <1>5 DEF Sent
  <1> HIDE DEF entry, outcome
  <1>8. Viewed(outcome.writes) =
            IF entry.sent THEN Atomic!Effect(Viewed(writes), tx.signer, entry.cmd)
            ELSE Atomic!TopUp(Viewed(writes), entry.contract, entry.amount)
    BY <1>1, <1>2, <1>5, <1>7, ExecuteView, ZenonT(60) DEF outcome
  <1>9. Viewed(writes)' = Viewed(outcome.writes)
    BY <1>1, ZenonT(60) DEF Viewed, Balances, Deposits, balance, deposit
  <1>10. /\ Tail(stack) \in Seq(Entry) /\ Len(Tail(stack)) = Len(stack) - 1 /\ Len(stack) \in Nat
         /\ \A i \in 1 .. Len(stack) - 1 : Tail(stack)[i] = stack[i + 1]
    BY <1>1, <1>2
  <1>11. CASE entry.sent
    <2> DEFINE cmd == tx.commands[n + 1]
               d == Atomic!Deferring(cmd)
               m == Len(d)
    <2>1. n + 1 \in 1 .. Len(tx.commands)
      BY <1>3, <1>5, <1>11
    <2>2. cmd \in Command /\ cmd.kind # "NextEpoch" /\ entry = Sent(cmd) /\ entry.cmd = cmd
      BY <1>3, <1>5, <1>7, <1>11, <2>1, ZenonT(60)
    <2>3. m \in Nat
      BY <2>2, DeferringType, ZenonT(60)
    <2>4. /\ more \in Seq(Entry) /\ Len(more) = m
          /\ \A i \in 1 .. m : more[i] = Deferred(cmd.to, d[i])
      BY <1>5, <2>2, DeferredType, DeferredEntries, ZenonT(60)
    <2>5. Len(receipts') = n + 1 /\ receipts' # <<>>
      BY <1>1, <1>3, <1>11 DEF push_command_receipt
    <2>6. Viewed(writes) = after[n]
      BY <1>1, <1>5, <1>6, <1>11, AllDone, ZenonT(60)
    <2>7. after[n] \in States
      BY <1>3, <2>1
    <2> HIDE DEF cmd, more, after
    <2>8. Viewed(writes)' = Atomic!WithDeferred(after[n], tx.signer, cmd)[0]
      BY <1>3, <1>8, <1>9, <1>11, <2>2, <2>6, <2>7, DeferredRun
    <2>9. Len(stack') = m + (Len(tx.commands) - (n + 1))
      <3>1. Len(stack') = m + Len(Tail(stack))
        BY <1>1, <1>10, <2>4, Pushed, ZenonT(60)
      <3>2. Len(stack) = 0 + (Len(tx.commands) - n)
        BY <1>5, <1>6, <1>11, ZenonT(60) DEF Progress
      <3> DEFINE c == Len(tx.commands)
                 l == Len(stack)
                 q == Len(Tail(stack))
      <3>3. q = l - 1 /\ l = 0 + (c - n) /\ c \in Nat /\ n \in Nat /\ m \in Nat
        BY <1>3, <1>10, <2>3, <3>2, ZenonT(60)
      <3> HIDE DEF c, n, m, l, q
      <3>4. m + ((0 + (c - n)) - 1) = m + (c - (n + 1))
        BY <3>3, PushedLength, ZenonT(60)
      <3>5. m + q = m + (c - (n + 1))
        BY <3>3, <3>4, ZenonT(60)
      <3> QED BY <3>1, <3>5, ZenonT(60) DEF c, q
    <2>10. \A i \in 1 .. m : stack'[i] = Deferred(cmd.to, d[(m - m) + i])
      <3>1. \A i \in 1 .. m : stack'[i] = more[i]
        BY <1>1, <1>10, <2>4, Pushed, ZenonT(60)
      <3>2. \A i \in 1 .. m : (m - m) + i = i
        BY <1>3, <2>3, NoneDone, ZenonT(60)
      <3> QED BY <2>4, <3>1, <3>2, ZenonT(60)
    <2>11. Viewed(writes)' = Atomic!WithDeferred(after[(n + 1) - 1], tx.signer, cmd)[m - m]
      <3>1. m - m = 0 /\ (n + 1) - 1 = n
        BY <1>3, <2>3, NoneDone, ZenonT(60)
      <3> QED BY <2>8, <3>1, ZenonT(60)
    <2>12. m <= m
      BY <1>3, <2>3, NoneDone, ZenonT(60)
    <2>13. PICK j0 \in Nat : j0 = m
      BY <2>3
    <2>14. Progress(j0)'
      <3> HIDE DEF n
      <3> QED
        BY <1>1, <2>5, <2>9, <2>10, <2>11, <2>12, <2>13, ZenonT(60) DEF Progress, cmd, after, Deferred
    <2> QED BY <2>14
  <1>12. CASE ~ entry.sent
    <2> DEFINE cmd == tx.commands[n]
               d == Atomic!Deferring(cmd)
               m == Len(d)
               run == Atomic!WithDeferred(after[n - 1], tx.signer, cmd)
    <2>1. k > 0 /\ receipts # <<>> /\ n \in 1 .. Len(tx.commands)
      <3>1. k > 0 /\ receipts # <<>>
        BY <1>5, <1>6, <1>12 DEF Progress
      <3> QED BY <1>2, <1>3, <3>1 DEF ReceiptsInv
    <2>2. cmd \in Command /\ cmd.kind # "NextEpoch"
      BY <1>3, <2>1, ZenonT(60)
    <2>3. m \in Nat /\ k <= m
      BY <2>1, <2>2, DeferringType, ZenonT(60) DEF Progress
    <2>4. after[n - 1] \in States
      BY <1>3, <2>1
    <2>5. /\ \A i \in 1 .. k : stack[i] = Deferred(cmd.to, d[(m - k) + i])
          /\ Viewed(writes) = run[m - k]
      BY <2>1, ZenonT(60) DEF Progress
    <2>6. \A i \in 1 .. m : run[i] = Atomic!TopUp(run[i - 1], cmd.to, d[i])
      BY <1>3, <2>2, <2>4, DeferredRun, ZenonT(60)
    <2>7. entry.contract = cmd.to /\ entry.amount = d[(m - k) + 1]
      <3>1. 1 \in 1 .. k
        BY <2>1
      <3>2. entry = Deferred(cmd.to, d[(m - k) + 1])
        BY <1>5, <2>5, <3>1, ZenonT(60)
      <3> QED BY <3>2, ZenonT(60) DEF Deferred
    <2> HIDE DEF cmd, run, after
    <2>8. Viewed(writes)' = run[m - (k - 1)]
      <3>1. (m - k) + 1 \in 1 .. m /\ ((m - k) + 1) - 1 = m - k /\ (m - k) + 1 = m - (k - 1)
        BY <2>1, <2>3
      <3>2. run[(m - k) + 1] = Atomic!TopUp(run[m - k], cmd.to, d[(m - k) + 1])
        BY <2>6, <3>1, ZenonT(60)
      <3>3. Viewed(writes)' = Atomic!TopUp(run[m - k], cmd.to, d[(m - k) + 1])
        BY <1>8, <1>9, <1>12, <2>5, <2>7, ZenonT(60)
      <3> QED BY <3>1, <3>2, <3>3
    <2>9. Len(receipts') = n /\ receipts' # <<>>
      BY <1>1, <1>3, <1>12, <2>1 DEF push_deferred_command_receipt
    <2>10. stack' = Tail(stack)
      <3>1. \A t \in Seq(Entry) : <<>> \o t = t
        OBVIOUS
      <3>2. more = <<>>
        BY <1>5, <1>12, DeferredType, ZenonT(60)
      <3> QED BY <1>1, <1>10, <3>1, <3>2, ZenonT(60)
    <2>11. Len(stack') = (k - 1) + (Len(tx.commands) - n) /\ k - 1 \in Nat /\ k - 1 <= m
      BY <1>3, <1>10, <2>1, <2>3, <2>10 DEF Progress
    <2>12. \A i \in 1 .. k - 1 : stack'[i] = Deferred(cmd.to, d[(m - (k - 1)) + i])
      <3> SUFFICES ASSUME NEW i \in 1 .. k - 1
                   PROVE  stack'[i] = Deferred(cmd.to, d[(m - (k - 1)) + i])
        BY ZenonT(60)
      <3>1. i + 1 \in 1 .. k /\ (m - k) + (i + 1) = (m - (k - 1)) + i
        BY <2>3
      <3>2. i \in 1 .. Len(stack) - 1
        BY <1>2, <1>3, <1>10, <2>1, <2>10, <2>11
      <3>3. stack'[i] = stack[i + 1]
        BY <1>10, <2>10, <3>2
      <3> QED BY <2>5, <3>1, <3>3
    <2>13. Progress(k - 1)'
      BY <1>1, <2>8, <2>9, <2>11, <2>12, ZenonT(60) DEF Progress, cmd, after, run, Deferred
    <2> QED BY <2>11, <2>13, ZenonT(60)
  <1> QED BY <1>11, <1>12, ZenonT(60)

\* The relation to an atomic transaction holds in every state.
LEMMA AtomicInvariance == Spec => []AtomicInv
  <1>1. Init => AtomicInv
    BY ZenonT(60) DEF Init, AtomicInv
  <1>2. ASSUME TransactionInv, FundsInv, AtomicInv, [Next]_vars
        PROVE  AtomicInv'
    <2>0. TypeOK
      BY <1>2, ZenonT(60) DEF TransactionInv
    <2>1. ASSUME phase' # "commands"
          PROVE  AtomicInv'
      BY <2>1 DEF AtomicInv
    <2>2. ASSUME PreCharge, phase' = "commands"
          PROVE  AtomicInv'
      <3>1. /\ phase = "submitted" /\ pre_charge_error = None
            /\ gas' = [gas EXCEPT !.inclusion = tx_inclusion_cost(tx)]
            /\ stack' = [i \in DOMAIN tx.commands |-> Sent(tx.commands[i])]
            /\ UNCHANGED <<world, tx, bd, writes, receipts, error, result>>
        BY <2>2, ZenonT(60) DEF PreCharge, Return, Panic
      <3>2. /\ writes = NoWrites /\ ws = world /\ error = None /\ receipts = <<>> /\ gas = NoGas
            /\ tx.commands \in Seq(Command)
        BY <1>2, <2>0, <3>1 DEF FundsInv, TransactionInv, TypeOK, Transaction
      <3>3. tx.nonce = ws.nonce[tx.signer]
        <4>1. None # "PreExecutionGasExhausted" /\ None # "WrongNonce"
          BY LedgerAssumption, ZenonT(60) DEF Errors
        <4> QED BY <3>1, <4>1 DEF pre_charge_error
      <3>4. gas'.inclusion = tx_inclusion_cost(tx)
        BY <3>1, <3>2 DEF NoGas
      <3>5. Len(stack') = 0 + (Len(tx.commands) - Len(receipts))
        <4>1. Len(receipts) = 0
          BY <3>2, ZenonT(60)
        <4>2. Len(stack') = Len(tx.commands) /\ Len(tx.commands) \in Nat
          BY <3>1, <3>2
        <4> QED BY <4>1, <4>2
      <3>6. Progress(0)'
        BY <3>1, <3>2, <3>5 DEF Progress, NoWrites
      <3>7. tx_inclusion_cost(tx)' = tx_inclusion_cost(tx)
        BY <3>1, ZenonT(60)
      <3> QED BY <3>1, <3>2, <3>3, <3>4, <3>6, <3>7, ZenonT(60) DEF AtomicInv
    <2>3. ASSUME NEW cost \in Costs, ExecuteCommand(cost)
          PROVE  AtomicInv'
      <3>1. /\ phase = "commands" /\ error = None /\ UNCHANGED <<world, phase, tx, bd, ws, result>>
            /\ gas' = [gas EXCEPT !.executed = saturating_add(@, clamped(cost))]
        BY <2>3, ZenonT(60) DEF ExecuteCommand
      <3>2. /\ gas.inclusion = tx_inclusion_cost(tx) /\ tx.nonce = world.nonce[tx.signer]
            /\ \E k \in Nat : Progress(k)
        BY <1>2, <3>1 DEF AtomicInv
      <3>3. gas'.inclusion = gas.inclusion
        BY <2>0, <3>1 DEF TypeOK
      <3>4. error' = None => \E k \in Nat : Progress(k)'
        BY <1>2, <2>3, <3>2, ProgressStep
      <3>5. tx_inclusion_cost(tx)' = tx_inclusion_cost(tx)
        BY <3>1, ZenonT(60)
      <3> QED BY <3>1, <3>2, <3>3, <3>4, <3>5, ZenonT(60) DEF AtomicInv
    <2>4. CASE UNCHANGED vars
      <3>1. UNCHANGED <<world, phase, tx, ws, writes, gas, stack, receipts, error>>
        BY <2>4, ZenonT(60) DEF vars, execution
      <3>2. Viewed(writes)' = Viewed(writes) /\ NoWrites' = NoWrites
        BY <3>1, ZenonT(60) DEF Viewed, Balances, Deposits, balance, deposit, NoWrites
      <3>3. ASSUME NEW k \in Nat, Progress(k) PROVE Progress(k)'
        BY <3>1, <3>2, <3>3, ZenonT(60) DEF Progress, Deferred
      <3>4. tx_inclusion_cost(tx)' = tx_inclusion_cost(tx)
        BY <3>1, ZenonT(60)
      <3> QED BY <1>2, <3>1, <3>3, <3>4, ZenonT(60) DEF AtomicInv
    <2>5. ASSUME NEW t \in Txns, NEW b \in Blocks, Submit(t, b)
          PROVE  AtomicInv'
      BY <2>1, <2>5, ZenonT(60) DEF Submit
    <2>6. CASE PreCharge
      BY <2>1, <2>2, <2>6, ZenonT(60)
    <2>7. CASE Charge \/ EpochTransaction \/ Upgrade
      BY <2>1, <2>7, ZenonT(60) DEF Charge, EpochTransaction, Upgrade, Return, Panic
    <2> QED
      BY <1>2, <2>3, <2>4, <2>5, <2>6, <2>7, ZenonT(60) DEF Next
  <1> QED
    BY <1>1, <1>2, Invariance, FundsInvariance, PTL DEF Spec

\* What is being answered.
LEMMA RequestIs ==
    ASSUME TypeOK, phase # "idle"
    PROVE  /\ tx \in Transaction /\ bd \in Block /\ <<tx, bd>> # None
           /\ <<tx, bd>>[1] = tx /\ <<tx, bd>>[2] = bd
  <1>1. tx \in Transaction /\ bd \in Block
    BY ZenonT(60) DEF TypeOK
  <1>2. <<tx, bd>> \in Transaction \X Block
    BY <1>1, ZenonT(60)
  <1> QED BY <1>1, <1>2, LedgerAssumption

\* A transition that returns is an answer.
LEMMA AnswerIs ==
    ASSUME TypeOK, phase # "idle", NEW s, NEW res, Return(s, res)
    PROVE  Atomic!Answer(s)
  BY RequestIs, ZenonT(60) DEF Atomic!Answer, Atomic!Idle, Return

\* The fee that is held back in advance.
LEMMA HeldBackIs ==
    ASSUME TypeOK, FundsInv, phase = "commands"
    PROVE  Atomic!HeldBack(tx, bd) = ws /\ Atomic!Fee(tx, bd) = fee_per_gas
  <1>1. Atomic!Fee(tx, bd) = fee_per_gas
    BY ZenonT(60) DEF Atomic!Fee, fee_per_gas
  <1>2. ws = [world EXCEPT !.balance = [world.balance EXCEPT ![tx.signer] = world.balance[tx.signer] - Held]]
    BY ZenonT(60) DEF FundsInv
  <1>3. Atomic!HeldBack(tx, bd) =
            [world EXCEPT !.balance = [world.balance EXCEPT ![tx.signer] = world.balance[tx.signer] - Held]]
    BY <1>1, ZenonT(60) DEF Atomic!HeldBack, Held
  <1> QED BY <1>1, <1>2, <1>3, ZenonT(60)

\* What charge makes of the world state is what the abstract specification charges.
LEMMA ChargedIs ==
    ASSUME TransactionInv, TransactionInv', FundsInv, phase = "commands", Charge, ~ charge_panics
    PROVE  Atomic!Charged(Viewed(writes), tx, bd, charged_gas) = world'
  <1> DEFINE V == Viewed(writes)
             S == tx.signer
             non == [ws.nonce EXCEPT ![S] = saturating_add(@, 1)]
             C == Atomic!Charged(V, tx, bd, charged_gas)
  <1>1. TypeOK /\ ws \in WorldState /\ writes \in Writes /\ S \in Accounts /\ world' \in WorldState
    BY HeldType, ZenonT(60) DEF TransactionInv, TypeOK, Writes
  <1>2. /\ V \in WorldState /\ V.balance = Balances(writes) /\ V.deposit = Deposits(writes)
        /\ V.nonce = ws.nonce /\ V.epoch = ws.epoch /\ V.version = ws.version
    BY <1>1, ViewedType, ZenonT(60)
  <1>3. /\ world'.balance = Taxed /\ world'.deposit = Deposits(writes) /\ world'.nonce = non
        /\ world'.epoch = ws.epoch /\ world'.version = ws.version
    BY ChargedWorld, ZenonT(60)
  <1>4. Taxed \in [Accounts -> U64]
    BY ChargedBalances, ZenonT(60)
  <1>5. non \in [Accounts -> U64]
    BY <1>1, <1>3, ZenonT(60) DEF WorldState
  <1> HIDE DEF V
  <1>6. C = [V EXCEPT !.balance = Taxed, !.nonce = non]
    <2> DEFINE refunded == [V.balance EXCEPT ![S] = @ + (tx.gas_limit - charged_gas) * Atomic!Fee(tx, bd)]
               tipped == [refunded EXCEPT ![bd.proposer] = Atomic!saturating_add(@, charged_gas * tx.priority_fee)]
               cut == (charged_gas * bd.base_fee * TreasuryNum) \div TreasuryDenom
               taxed == [tipped EXCEPT ![bd.treasury] = Atomic!saturating_add(@, cut)]
    <2>1. refunded = Refunded
      BY <1>1, <1>2, HeldBackIs, ZenonT(60) DEF Refunded
    <2>2. tipped = Tipped
      BY <2>1, AtomicArith, ZenonT(60) DEF Tipped
    <2>3. taxed = Taxed
      BY <2>2, AtomicArith, ZenonT(60) DEF Taxed, treasury_cut
    <2>4. C = [V EXCEPT !.balance = taxed, !.nonce = [V.nonce EXCEPT ![S] = Atomic!saturating_add(@, 1)]]
      BY ZenonT(60) DEF Atomic!Charged
    <2>5. [V.nonce EXCEPT ![S] = Atomic!saturating_add(@, 1)] = non
      BY <1>2, AtomicArith, ZenonT(60)
    <2> HIDE DEF taxed, non
    <2> QED BY <2>3, <2>4, <2>5, ZenonT(60)
  <1> HIDE DEF non, C
  <1>7. /\ C \in WorldState /\ C.balance = Taxed /\ C.deposit = V.deposit /\ C.nonce = non
        /\ C.epoch = V.epoch /\ C.version = V.version
    BY <1>2, <1>4, <1>5, <1>6, ZenonT(60) DEF WorldState
  <1>8. C = world'
    BY <1>1, <1>2, <1>3, <1>7, WorldStatesEqual
  <1> QED BY <1>8, ZenonT(60) DEF C, V

\* The end of the commands phase answers with all effects of the transaction, or with
\* none but the fee.
LEMMA ChargeRefines ==
    ASSUME TransactionInv, TransactionInv', FundsInv, AtomicInv, Charge, ~ charge_panics
    PROVE  Atomic!Next
  <1> DEFINE V == Viewed(writes)
             R == <<tx, bd>>
  <1>1. phase = "commands" /\ commands_done /\ \E s, res : Return(s, res)
    BY ZenonT(60) DEF Charge
  <1>2. /\ TypeOK /\ ws \in WorldState /\ writes \in Writes /\ tx \in Transaction /\ bd \in Block
        /\ R # None /\ R[1] = tx /\ R[2] = bd /\ tx.commands \in Seq(Command) /\ ~ has_next_epoch
    BY <1>1, RequestIs, ZenonT(60) DEF TransactionInv, TypeOK, Writes, Transaction
  <1>3. Atomic!Answer(world')
    BY <1>1, <1>2, AnswerIs, ZenonT(60) DEF Return
  <1>4. charged_gas \in Atomic!tx_inclusion_cost(tx) .. tx.gas_limit
    <2>1. gas.inclusion = Atomic!tx_inclusion_cost(tx)
      BY <1>1, AtomicArith, ZenonT(60) DEF AtomicInv
    <2>2. gas.inclusion \in Nat /\ gas.executed \in Nat /\ tx.gas_limit \in Nat
      BY <1>1, <1>2, HeldType, U64Assumption DEF TypeOK, U64
    <2>3. charged_gas = gas.inclusion + gas.executed /\ charged_gas <= tx.gas_limit
      BY <1>1, ChargedGas
    <2> QED BY <2>1, <2>2, <2>3
  <1>5. Atomic!AnswerAndCharge(V)
    <2>1. Atomic!Charged(V, tx, bd, charged_gas) = world'
      BY <1>1, ChargedIs, ZenonT(60)
    <2>2. Atomic!Answer(Atomic!Charged(V, tx, bd, charged_gas))
      BY <1>3, <2>1, ZenonT(60)
    <2> HIDE DEF V
    <2>3. \E g \in Atomic!tx_inclusion_cost(tx) .. tx.gas_limit : Atomic!Answer(Atomic!Charged(V, tx, bd, g))
      BY <1>4, <2>2, ZenonT(60)
    <2> QED BY <1>1, <1>2, <2>3, ZenonT(60) DEF Atomic!AnswerAndCharge
  <1>6. Atomic!HeldBack(tx, bd) = ws /\ Atomic!Fee(tx, bd) = fee_per_gas
    BY <1>1, <1>2, HeldBackIs, ZenonT(60)
  <1>7. Atomic!Payable
    <2>1. Atomic!NoEpoch(tx)
      BY <1>2, ZenonT(60) DEF Atomic!NoEpoch, has_next_epoch
    <2>2. tx.nonce = world.nonce[tx.signer]
      BY <1>1, ZenonT(60) DEF AtomicInv
    <2>3. tx.gas_limit * Atomic!Fee(tx, bd) <= world.balance[tx.signer]
      BY <1>1, <1>6, ZenonT(60) DEF FundsInv, Held
    <2> QED BY <1>1, <1>2, <2>1, <2>2, <2>3, ZenonT(60) DEF Atomic!Payable
  <1>8. CASE error # None
    <2>1. V = ws
      BY <1>1, <1>2, <1>8, ViewedNothing, ZenonT(60) DEF FundsInv
    <2>2. Atomic!AnswerAndCharge(Atomic!HeldBack(tx, bd))
      BY <1>5, <1>6, <2>1, ZenonT(60)
    <2>3. Atomic!Fail
      BY <1>1, <1>2, <2>2, ZenonT(60) DEF Atomic!Fail
    <2> QED BY <1>1, <1>2, <1>7, <2>3, ZenonT(60) DEF Atomic!Next, Atomic!Idle
  <1>9. CASE error = None
    <2>1. stack = <<>>
      BY <1>1, <1>9, ZenonT(60) DEF commands_done
    <2>2. PICK k \in Nat : Progress(k)
      BY <1>1, <1>9, ZenonT(60) DEF AtomicInv
    <2>3. Len(receipts) \in Nat /\ Len(tx.commands) \in Nat /\ Len(receipts) <= Len(tx.commands)
      BY <1>1, CommandsTypes, ZenonT(60)
    <2>4. 0 = k + (Len(tx.commands) - Len(receipts))
      BY <2>1, <2>2, ZenonT(60) DEF Progress
    <2>5. k = 0 /\ Len(receipts) = Len(tx.commands)
      BY <2>3, <2>4
    <2>6. V = Atomic!Commands(ws, tx)[Len(tx.commands)]
      BY <1>1, <2>2, <2>5, AllDone, ZenonT(60)
    <2>7. V = Atomic!Effects(Atomic!HeldBack(tx, bd), tx)
      BY <1>6, <2>6, ZenonT(60) DEF Atomic!Effects
    <2>8. V # None
      BY <1>2, ViewedType, LedgerAssumption
    <2> HIDE DEF V
    <2>9. Atomic!Succeed
      BY <1>1, <1>2, <1>5, <2>7, <2>8, ZenonT(60) DEF Atomic!Succeed
    <2> QED BY <1>1, <1>2, <1>7, <2>9, ZenonT(60) DEF Atomic!Next, Atomic!Idle
  <1> QED BY <1>8, <1>9, ZenonT(60)

\* An answer that leaves the world state alone.
LEMMA RejectRefines ==
    ASSUME TypeOK, phase # "idle", NEW res, Return(world, res)
    PROVE  Atomic!Next
  <1>1. Atomic!Answer(world)
    BY AnswerIs, ZenonT(60)
  <1> QED BY <1>1, ZenonT(60) DEF Atomic!Next, Atomic!Reject, Atomic!Answer

\* The answer to an epoch transaction, with or without the upgrade.
LEMMA EpochRefines ==
    ASSUME TypeOK, FundsInv, phase = "submitted", next_epoch_valid,
           NEW version \in {world.version, 2}, NEW res,
           Return([next_epoch_state EXCEPT !.version = version], res)
    PROVE  Atomic!Next
  <1> DEFINE R == <<tx, bd>>
             W == [world EXCEPT !.epoch = @ + 1, !.version = version,
                                !.nonce[tx.signer] = Atomic!saturating_add(@, 1)]
  <1>1. /\ ws = world /\ world \in WorldState /\ tx.signer \in Accounts
        /\ R # None /\ R[1] = tx /\ R[2] = bd
    BY RequestIs, ZenonT(60) DEF FundsInv, TypeOK, Transaction
  <1>2. [next_epoch_state EXCEPT !.version = version] = W
    <2> DEFINE non == [world.nonce EXCEPT ![tx.signer] = saturating_add(@, 1)]
               e == world.epoch + 1
    <2>1. next_epoch_state = [world EXCEPT !.epoch = e, !.nonce = non]
      BY <1>1, ZenonT(60) DEF next_epoch_state
    <2>2. W = [world EXCEPT !.epoch = e, !.version = version, !.nonce = non]
      <3>1. W = [world EXCEPT !.epoch = e, !.version = version,
                              !.nonce = [world.nonce EXCEPT ![tx.signer] = Atomic!saturating_add(@, 1)]]
        BY ZenonT(60)
      <3>2. [world.nonce EXCEPT ![tx.signer] = Atomic!saturating_add(@, 1)] = non
        BY AtomicArith, ZenonT(60)
      <3> HIDE DEF non, W
      <3> QED BY <3>1, <3>2, ZenonT(60)
    <2>3. version \in {1, 2} /\ e \in Nat /\ non \in [Accounts -> U64]
      BY <1>1, Saturated DEF WorldState
    <2> HIDE DEF non, e, W
    <2>4. [[world EXCEPT !.epoch = e, !.nonce = non] EXCEPT !.version = version] =
              [world EXCEPT !.epoch = e, !.version = version, !.nonce = non]
      <3> DEFINE A == [world EXCEPT !.epoch = e, !.nonce = non]
                 B == [A EXCEPT !.version = version]
                 D == [world EXCEPT !.epoch = e, !.version = version, !.nonce = non]
      <3>1. /\ A \in WorldState /\ A.balance = world.balance /\ A.deposit = world.deposit
            /\ A.nonce = non /\ A.epoch = e
        BY <1>1, <2>3, ZenonT(60) DEF WorldState
      <3>2. /\ D \in WorldState /\ D.balance = world.balance /\ D.deposit = world.deposit
            /\ D.nonce = non /\ D.epoch = e /\ D.version = version
        BY <1>1, <2>3, ZenonT(60) DEF WorldState
      <3> HIDE DEF A, D
      <3>3. /\ B \in WorldState /\ B.balance = A.balance /\ B.deposit = A.deposit
            /\ B.nonce = A.nonce /\ B.epoch = A.epoch /\ B.version = version
        BY <2>3, <3>1, ZenonT(60) DEF WorldState
      <3> HIDE DEF B
      <3>4. B = D
        BY <3>1, <3>2, <3>3, WorldStatesEqual
      <3> QED BY <3>4, ZenonT(60) DEF A, B, D
    <2> QED BY <2>1, <2>2, <2>4
  <1>3. Atomic!Answer(W)
    BY <1>2, AnswerIs
  <1> HIDE DEF W
  <1>4. \E v \in {world.version, 2} :
            Atomic!Answer([world EXCEPT !.epoch = @ + 1, !.version = v,
                                        !.nonce[tx.signer] = Atomic!saturating_add(@, 1)])
    BY <1>3, ZenonT(60) DEF W
  <1>5. Len(tx.commands) = 1 /\ tx.commands[1].kind = "NextEpoch"
    BY ZenonT(60) DEF next_epoch_valid
  <1>6. Atomic!EnterEpoch
    BY <1>1, <1>4, <1>5, ZenonT(60) DEF Atomic!EnterEpoch, Atomic!Idle
  <1> QED BY <1>6, ZenonT(60) DEF Atomic!Next

\* A commit of nothing.
LEMMA CommitNothing ==
    ASSUME NEW s \in WorldState
    PROVE  commit_to_world_state(s, NoWrites) = s
  <1> DEFINE b == [a \in Accounts |-> IF NoWrites.balance[a] # None THEN NoWrites.balance[a] ELSE s.balance[a]]
             d == [a \in Accounts |-> IF NoWrites.deposit[a] # None THEN NoWrites.deposit[a] ELSE s.deposit[a]]
             C == [s EXCEPT !.balance = b, !.deposit = d]
  <1>1. \A a \in Accounts : NoWrites.balance[a] = None /\ NoWrites.deposit[a] = None
    BY ZenonT(60) DEF NoWrites
  <1>2. b = s.balance /\ d = s.deposit
    BY <1>1, WealthType, ZenonT(60)
  <1>3. commit_to_world_state(s, NoWrites) = C
    BY ZenonT(60) DEF commit_to_world_state
  <1>4. b \in [Accounts -> U64] /\ d \in [Accounts -> U64]
    BY <1>2, WealthType
  <1> HIDE DEF b, d
  <1>5. /\ C \in WorldState /\ C.balance = b /\ C.deposit = d
        /\ C.nonce = s.nonce /\ C.epoch = s.epoch /\ C.version = s.version
    BY <1>4, ZenonT(60) DEF WorldState
  <1> HIDE DEF C
  <1> QED BY <1>2, <1>3, <1>5, WorldStatesEqual

\* An epoch transaction does not touch the version.
LEMMA EpochVersion ==
    ASSUME TypeOK, FundsInv, phase = "submitted"
    PROVE  [next_epoch_state EXCEPT !.version = world.version] = next_epoch_state
  <1> DEFINE non == [world.nonce EXCEPT ![tx.signer] = saturating_add(@, 1)]
             e == world.epoch + 1
             A == [world EXCEPT !.epoch = e, !.nonce = non]
             B == [A EXCEPT !.version = world.version]
  <1>1. ws = world /\ world \in WorldState /\ tx.signer \in Accounts
    BY RequestIs DEF FundsInv, TypeOK, Transaction
  <1>2. next_epoch_state = A
    BY <1>1, ZenonT(60) DEF next_epoch_state
  <1>3. world.version \in {1, 2} /\ e \in Nat /\ non \in [Accounts -> U64]
    BY <1>1, Saturated DEF WorldState
  <1> HIDE DEF non, e
  <1>4. A \in WorldState /\ A.version = world.version
    BY <1>1, <1>3, ZenonT(60) DEF WorldState
  <1> HIDE DEF A
  <1>5. /\ B \in WorldState /\ B.balance = A.balance /\ B.deposit = A.deposit
        /\ B.nonce = A.nonce /\ B.epoch = A.epoch /\ B.version = world.version
    BY <1>3, <1>4, ZenonT(60) DEF WorldState
  <1> HIDE DEF B
  <1>6. B = A
    BY <1>4, <1>5, WorldStatesEqual
  <1> QED BY <1>2, <1>6 DEF B

\* The transition function, with its phases, its cache, its stack of commands and its
\* abort path, implements AtomicTransaction: a transaction is rejected and changes
\* nothing, or fails and costs the fee, or has the effects of all its commands in order,
\* each deferred command right after the call that deferred it.
THEOREM TransactionsRefine == Spec => TransactionsAreAtomic
  <1> DEFINE request == IF phase = "idle" THEN None ELSE <<tx, bd>>
  <1>1. Init => Atomic!Init
    BY ZenonT(60) DEF Init, Atomic!Init
  <1>2. ASSUME TransactionInv, TransactionInv', FundsInv, AtomicInv, [Next]_vars
        PROVE  Atomic!Next \/ UNCHANGED <<world, request>>
    <2>0. TypeOK
      BY <1>2, ZenonT(60) DEF TransactionInv
    <2>1. ASSUME NEW t \in Txns, NEW b \in Blocks, Submit(t, b)
          PROVE  Atomic!Next
      <3>1. /\ phase = "idle" /\ phase' = "submitted" /\ tx' = t /\ bd' = b /\ world' = world
        BY <2>1, ZenonT(60) DEF Submit
      <3>2. <<t, b>> \in Txns \X Blocks
        BY <2>1
      <3>3. Atomic!Submit
        BY <3>1, <3>2, ZenonT(60) DEF Atomic!Submit, Atomic!Idle
      <3> QED BY <3>3, ZenonT(60) DEF Atomic!Next
    <2>2. ASSUME Panic, phase # "idle"
          PROVE  UNCHANGED <<world, request>>
      BY <2>2, ZenonT(60) DEF Panic, execution
    <2>3. CASE PreCharge
      <3>1. phase = "submitted"
        BY <2>3 DEF PreCharge
      <3>2. ws = world /\ writes = NoWrites /\ ws \in WorldState
        BY <1>2, <2>0, <3>1 DEF FundsInv, TypeOK
      <3>3. commit_to_world_state(ws, writes) = world
        BY <3>2, CommitNothing
      <3>4. CASE pre_charge_error = None
        <4>1. phase' = "commands" /\ UNCHANGED <<world, tx, bd>>
          BY <2>3, <3>4, ZenonT(60) DEF PreCharge
        <4> QED BY <3>1, <4>1
      <3>5. CASE pre_charge_error # None
        <4>1. Panic \/ \E res : Return(world, res)
          BY <2>3, <3>3, <3>5, ZenonT(60) DEF PreCharge
        <4> QED BY <2>0, <2>2, <3>1, <4>1, RejectRefines
      <3> QED BY <3>4, <3>5
    <2>4. ASSUME NEW cost \in Costs, ExecuteCommand(cost)
          PROVE  UNCHANGED <<world, request>>
      <3>1. UNCHANGED <<world, phase, tx, bd>>
        BY <2>4, ZenonT(60) DEF ExecuteCommand
      <3> QED BY <3>1
    <2>5. CASE Charge
      <3>1. phase = "commands"
        BY <2>5, ZenonT(60) DEF Charge
      <3>2. CASE charge_panics
        <4>1. Panic
          BY <2>5, <3>2 DEF Charge
        <4> QED BY <2>2, <3>1, <4>1
      <3>3. CASE ~ charge_panics
        BY <1>2, <2>5, <3>3, ChargeRefines
      <3> QED BY <3>2, <3>3
    <2>6. CASE EpochTransaction
      <3>1. phase = "submitted"
        BY <2>6 DEF EpochTransaction
      <3>2. ws = world
        BY <1>2, <3>1 DEF FundsInv
      <3>3. CASE next_epoch_valid
        <4>1. PICK res : Return(next_epoch_state, res)
          BY <2>6, <3>3, ZenonT(60) DEF EpochTransaction
        <4>2. Return([next_epoch_state EXCEPT !.version = world.version], res)
          BY <1>2, <2>0, <3>1, <4>1, EpochVersion
        <4>3. world.version \in {world.version, 2}
          BY ZenonT(60)
        <4> QED BY <1>2, <2>0, <3>1, <3>3, <4>2, <4>3, EpochRefines
      <3>4. CASE ~ next_epoch_valid
        <4>1. \E res : Return(world, res)
          BY <2>6, <3>2, <3>4, ZenonT(60) DEF EpochTransaction
        <4> QED BY <2>0, <3>1, <4>1, RejectRefines
      <3> QED BY <3>3, <3>4, ZenonT(60)
    <2>7. CASE Upgrade
      <3>1. phase = "submitted"
        BY <2>7 DEF Upgrade
      <3>2. \/ \E res : Return(world, res)
            \/ next_epoch_valid /\ \E res : Return([next_epoch_state EXCEPT !.version = 2], res)
        BY <2>7, ZenonT(60) DEF Upgrade
      <3>3. 2 \in {world.version, 2}
        BY ZenonT(60)
      <3> QED BY <1>2, <2>0, <3>1, <3>2, <3>3, RejectRefines, EpochRefines
    <2>8. CASE UNCHANGED vars
      BY <2>8 DEF vars, execution
    <2> QED
      BY <1>2, <2>1, <2>3, <2>4, <2>5, <2>6, <2>7, <2>8, ZenonT(60) DEF Next
  <1>3. TransactionInv /\ TransactionInv' /\ FundsInv /\ AtomicInv /\ [Next]_vars
            => [Atomic!Next]_<<world, request>>
    BY <1>2, ZenonT(60)
  <1> QED
    BY <1>1, <1>3, Invariance, FundsInvariance, AtomicInvariance, PTL
       DEF Spec, TransactionsAreAtomic, Atomic!Spec

==============================================================================
