------------------------ MODULE ContractCallsProofs ------------------------
(***************************************************************************)
(* The gas and the balances of nested contract calls, for any contracts,   *)
(* limits, costs and depth.                                                *)
(***************************************************************************)
EXTENDS ContractCalls, SumProofs, TLAPS

\* A leaf goes to the SMT solver, for a minute at most, unless it names Zenon.
USE SMTT(60)

\* A frame unwinds only while there is one, and for want of gas only without gas.
ErrorsAreOfFrames ==
    /\ frames = <<>> => error = "none"
    /\ error = "exhausted" => top.gas = 0

\* The inductive invariant.
IInv == TypeOK /\ GasIsHandedDown /\ ErrorsAreOfFrames /\ ExhaustionIsReported

\* The gas of frames, apart from the rest of TypeOK.
FramesOK(f) ==
    /\ f \in Seq(Frame)
    /\ \A i \in 1 .. Len(f) : f[i].gas <= f[i].limit
    /\ \A i \in 1 .. Len(f) - 1 : f[i + 1].limit = f[i].gas

\* u64::saturating_sub stays within Nat, below what it subtracts from.
LEMMA SubBounds ==
    ASSUME NEW a \in Nat, NEW b \in Nat
    PROVE  saturating_sub(a, b) \in Nat /\ saturating_sub(a, b) <= a
  BY DEF saturating_sub

\* What the invariant says of the frames.
LEMMA FramesInv == IInv => FramesOK(frames)
  BY ZenonT(60) DEF IInv, TypeOK, GasIsHandedDown, FramesOK, depth

\* The innermost frame.
LEMMA TopFrame ==
    ASSUME FramesOK(frames), frames # <<>>
    PROVE  /\ depth \in Nat \ {0} /\ top \in Frame /\ top.gas <= top.limit
           /\ top.gas \in Nat /\ top.limit \in Nat
  <1>1. frames \in Seq(Frame) /\ Len(frames) \in Nat
    BY DEF FramesOK
  <1>2. Len(frames) # 0
    BY <1>1
  <1>3. depth \in Nat \ {0} /\ depth \in 1 .. Len(frames)
    BY <1>1, <1>2 DEF depth
  <1>4. top \in Frame
    BY <1>1, <1>3 DEF top
  <1>5. top.gas <= top.limit
    BY <1>3, ZenonT(60) DEF top, FramesOK
  <1>. QED
    BY <1>3, <1>4, <1>5, ZenonT(60) DEF Frame

\* WasmerGasGlobal::subtract_gas leaves the frames in order if the gas does not grow.
LEMMA ChargeKeepsFrames ==
    ASSUME FramesOK(frames), frames # <<>>, NEW g \in Nat, g <= top.gas
    PROVE  /\ FramesOK(WithGas(g)) /\ Len(WithGas(g)) = depth
           /\ WithGas(g)[depth].gas = g /\ WithGas(g)[depth] \in Frame
           /\ WithGas(g) # <<>>
  <1>. DEFINE r == [target |-> top.target, limit |-> top.limit, gas |-> g, is_view |-> top.is_view]
              w == WithGas(g)
  <1>1. r \in Frame /\ r.gas = g /\ r.limit = top.limit
    BY TopFrame, ZenonT(60) DEF Frame
  <1>2. w = [frames EXCEPT ![depth] = r]
    BY ZenonT(60) DEF WithGas
  <1>. HIDE DEF r, w
  <1>3. frames \in Seq(Frame) /\ depth \in 1 .. Len(frames) /\ Len(frames) \in Nat
    BY TopFrame DEF FramesOK, depth
  <1>4. w \in Seq(Frame) /\ Len(w) = Len(frames)
    BY <1>1, <1>2, <1>3
  <1>5. \A i \in 1 .. Len(w) : w[i] = IF i = depth THEN r ELSE frames[i]
    BY <1>2, <1>3, <1>4
  <1>6. top = frames[depth] /\ depth = Len(frames)
    BY ZenonT(60) DEF top, depth
  <1>7. \A i \in 1 .. Len(w) : w[i].gas <= w[i].limit
    BY <1>1, <1>3, <1>4, <1>5, <1>6, TopFrame DEF FramesOK
  <1>8. \A i \in 1 .. Len(w) - 1 : w[i + 1].limit = w[i].gas
    BY <1>1, <1>3, <1>4, <1>5, <1>6 DEF FramesOK
  <1>9. w[depth] = r
    BY <1>3, <1>4, <1>5, ZenonT(60)
  <1>10. w # <<>>
    BY <1>3, <1>4
  <1>. QED
    BY <1>1, <1>4, <1>6, <1>7, <1>8, <1>9, <1>10, ZenonT(60) DEF FramesOK, w

\* A child starts with the gas its parent has left.
LEMMA CallKeepsFrames ==
    ASSUME FramesOK(frames), frames # <<>>, NEW g \in Nat, g <= top.gas, NEW c \in Contracts
    PROVE  /\ FramesOK(Append(WithGas(g), ChildFrame(c, g)))
           /\ Len(Append(WithGas(g), ChildFrame(c, g))) = depth + 1
           /\ Append(WithGas(g), ChildFrame(c, g))[depth + 1].gas = g
  <1>. DEFINE w == WithGas(g)
              ch == ChildFrame(c, g)
              z == Append(w, ch)
  <1>1. FramesOK(w) /\ Len(w) = depth /\ w[depth].gas = g
    BY ChargeKeepsFrames, ZenonT(60)
  <1>2. ch \in Frame /\ ch.limit = g /\ ch.gas = g
    BY TopFrame, ZenonT(60) DEF ChildFrame, Frame
  <1>3. depth \in Nat \ {0}
    BY TopFrame, ZenonT(60)
  <1>. HIDE DEF w, ch
  <1>4. w \in Seq(Frame)
    BY <1>1, ZenonT(60) DEF FramesOK
  <1>5. z \in Seq(Frame) /\ Len(z) = depth + 1 /\ z[depth + 1] = ch
    BY <1>1, <1>2, <1>3, <1>4
  <1>6. \A i \in 1 .. depth : z[i] = w[i]
    BY <1>1, <1>2, <1>3, <1>4
  <1>. HIDE DEF z
  <1>7. \A i \in 1 .. Len(z) : z[i].gas <= z[i].limit
    <2>. SUFFICES ASSUME NEW i \in 1 .. Len(z) PROVE z[i].gas <= z[i].limit
      BY ZenonT(60)
    <2>1. CASE i \in 1 .. depth
      BY <2>1, <1>1, <1>6, ZenonT(60) DEF FramesOK
    <2>2. CASE i = depth + 1
      BY <2>2, <1>2, <1>5
    <2>. QED
      BY <2>1, <2>2, <1>3, <1>5
  <1>8. \A i \in 1 .. Len(z) - 1 : z[i + 1].limit = z[i].gas
    <2>. SUFFICES ASSUME NEW i \in 1 .. Len(z) - 1 PROVE z[i + 1].limit = z[i].gas
      BY ZenonT(60)
    <2>1. CASE i = depth
      BY <2>1, <1>1, <1>2, <1>3, <1>5, <1>6
    <2>2. CASE i \in 1 .. depth - 1
      BY <2>2, <1>1, <1>3, <1>6 DEF FramesOK
    <2>. QED
      BY <2>1, <2>2, <1>3, <1>5
  <1>. QED
    BY <1>2, <1>5, <1>7, <1>8, ZenonT(60) DEF FramesOK, z, w, ch

\* deduct_gas in the second half of call: what is left to the parent is what was left
\* to the child.
LEMMA DeductedIsChildGas ==
    ASSUME FramesOK(frames), depth > 1
    PROVE  /\ depth - 1 \in 1 .. Len(frames) /\ frames # <<>>
           /\ parent \in Frame /\ top \in Frame /\ top.gas \in Nat
           /\ deducted = top.gas /\ deducted <= parent.limit /\ deducted <= parent.gas
  <1>1. frames \in Seq(Frame) /\ Len(frames) \in Nat /\ depth = Len(frames)
    BY DEF FramesOK, depth
  <1>2. depth - 1 \in 1 .. Len(frames) - 1 /\ depth \in 1 .. Len(frames)
    BY <1>1
  <1>3. parent \in Frame /\ top \in Frame
    BY <1>1, <1>2 DEF parent, top
  <1>4. (depth - 1) + 1 = depth
    BY <1>1
  <1>5. frames[(depth - 1) + 1].limit = frames[depth - 1].gas
    BY <1>2, ZenonT(60) DEF FramesOK
  <1>6. top.limit = parent.gas
    BY <1>4, <1>5, ZenonT(60) DEF parent, top
  <1>7. top.gas <= top.limit /\ parent.gas <= parent.limit
    BY <1>2 DEF FramesOK, parent, top
  <1>8. /\ top.gas \in Nat /\ top.limit \in Nat
        /\ parent.gas \in Nat /\ parent.limit \in Nat
    BY <1>3, ZenonT(60) DEF Frame
  <1>9. total_gas(top) = top.limit - top.gas
    BY <1>7, <1>8, ZenonT(60) DEF total_gas, saturating_sub
  <1>10. deducted = top.gas
    BY <1>6, <1>7, <1>8, <1>9 DEF deducted, saturating_sub
  <1>. QED
    BY <1>1, <1>2, <1>3, <1>6, <1>7, <1>8, <1>10

\* Popping a frame keeps the others in order.
LEMMA PopKeepsFrames ==
    ASSUME FramesOK(frames), depth > 1, NEW g \in Nat, g <= parent.gas
    PROVE  /\ FramesOK(ParentWithGas(g)) /\ Len(ParentWithGas(g)) = depth - 1
           /\ ParentWithGas(g)[depth - 1].gas = g /\ ParentWithGas(g) # <<>>
  <1>. DEFINE r == [target |-> parent.target, limit |-> parent.limit, gas |-> g,
                    is_view |-> parent.is_view]
              w == ParentWithGas(g)
              s == SubSeq(frames, 1, depth - 1)
  <1>1. frames \in Seq(Frame) /\ Len(frames) \in Nat /\ depth = Len(frames)
    BY DEF FramesOK, depth
  <1>2. parent \in Frame /\ depth - 1 \in 1 .. Len(frames)
    BY DeductedIsChildGas, ZenonT(60)
  <1>3. r \in Frame /\ r.gas = g /\ r.limit = parent.limit
    BY <1>2, ZenonT(60) DEF Frame
  <1>4. s \in Seq(Frame) /\ Len(s) = depth - 1 /\ \A i \in 1 .. depth - 1 : s[i] = frames[i]
    BY <1>1, <1>2
  <1>5. w = [s EXCEPT ![depth - 1] = r]
    BY ZenonT(60) DEF ParentWithGas
  <1>6. parent = frames[depth - 1] /\ parent.gas <= parent.limit
    BY <1>2, ZenonT(60) DEF parent, FramesOK
  <1>. HIDE DEF r, s, w
  <1>7. w \in Seq(Frame) /\ Len(w) = depth - 1
    BY <1>1, <1>2, <1>3, <1>4, <1>5
  <1>8. \A i \in 1 .. depth - 1 : w[i] = IF i = depth - 1 THEN r ELSE frames[i]
    BY <1>1, <1>2, <1>4, <1>5
  <1>9. parent.gas \in Nat /\ parent.limit \in Nat
    BY <1>2, ZenonT(60) DEF Frame
  <1>10. \A i \in 1 .. Len(w) : w[i].gas <= w[i].limit
    BY <1>1, <1>3, <1>6, <1>7, <1>8, <1>9 DEF FramesOK
  <1>11. \A i \in 1 .. Len(w) - 1 : w[i + 1].limit = w[i].gas
    BY <1>1, <1>3, <1>6, <1>7, <1>8 DEF FramesOK
  <1>12. w[depth - 1] = r
    BY <1>1, <1>2, <1>8
  <1>13. w # <<>>
    BY <1>1, <1>2, <1>7
  <1>. QED
    BY <1>3, <1>7, <1>10, <1>11, <1>12, <1>13, ZenonT(60) DEF FramesOK, w

-----------------------------------------------------------------------------

\* The rest of TypeOK.
Rest ==
    /\ error \in {"none", "trap", "func", "exhausted"}
    /\ ws \in [Contracts -> U64]
    /\ balance \in [Contracts -> U64]
    /\ return_value \in Nat
    /\ deferred \in Seq(Contracts)

\* transfer_from_contract leaves u64 balances.
LEMMA TransferType ==
    ASSUME balance \in [Contracts -> U64], NEW s \in Contracts, NEW r \in Contracts,
           NEW a \in U64, a <= balance[s]
    PROVE  transfer_from_contract(s, a, r) \in [Contracts -> U64]
  <1>. DEFINE d == [balance EXCEPT ![s] = balance[s] - a]
  <1>1. balance[s] - a \in U64
    BY U64Assumption DEF U64
  <1>2. d \in [Contracts -> U64]
    BY <1>1, ZenonT(60)
  <1>3. saturating_add(d[r], a) \in U64
    BY U64Assumption DEF saturating_add, saturate, U64
  <1>4. [d EXCEPT ![r] = saturating_add(d[r], a)] \in [Contracts -> U64]
    BY <1>2, <1>3, ZenonT(60)
  <1>. QED
    BY <1>4, ZenonT(60) DEF transfer_from_contract

\* The gas a host function leaves is at most what there was.
LEMMA HostGasBounds ==
    ASSUME FramesOK(frames), frames # <<>>, top.gas >= CallCost, NEW cost \in Costs
    PROVE  /\ HostGas(cost) \in Nat /\ HostGas(cost) <= top.gas
           /\ cost > top.gas - CallCost => HostGas(cost) = 0
  <1>1. top.gas \in Nat /\ top.gas - CallCost \in Nat /\ cost \in Nat
    BY TopFrame, CostsAssumption DEF CallCost
  <1>. QED
    BY <1>1 DEF HostGas, saturating_sub, CallCost

\* log and return_value leave no more gas than there was, and none if it did not pay for
\* their output.
LEMMA OutputGasBounds ==
    ASSUME FramesOK(frames), frames # <<>>, top.gas >= CallCost,
           NEW cost \in Costs, NEW output \in OutputCosts
    PROVE  /\ OutputGas(cost, output) \in Nat /\ OutputGas(cost, output) <= top.gas
           /\ output > HostGas(cost) => OutputGas(cost, output) = 0
  <1>1. HostGas(cost) \in Nat /\ HostGas(cost) <= top.gas /\ top.gas \in Nat
    BY HostGasBounds, TopFrame, ZenonT(60)
  <1>2. output \in Nat
    BY CostsAssumption DEF OutputCosts
  <1>. QED
    BY <1>1, <1>2 DEF OutputGas, saturating_sub

\* What a step does to the frames: they stay in order, the innermost gas does not
\* grow, and a frame without gas is one that exhausted it.
Good ==
    /\ FramesOK(frames')
    /\ frames # <<>> /\ frames' # <<>> => frames'[Len(frames')].gas <= top.gas
    /\ frames' = <<>> => error' = "none"
    /\ error' = "exhausted" => frames'[Len(frames')].gas = 0

\* A step that charges the innermost frame is a good one.
LEMMA ChargeIsGood ==
    ASSUME FramesOK(frames), frames # <<>>, NEW g \in Nat, g <= top.gas,
           frames' = WithGas(g), error' = "exhausted" => g = 0
    PROVE  Good
  BY ChargeKeepsFrames, ZenonT(60) DEF Good

\* Every step is good, action by action.
LEMMA StepIsGood == IInv /\ Next => Good
  <1>. SUFFICES ASSUME IInv, Next PROVE Good
    BY ZenonT(60)
  <1>0. FramesOK(frames) /\ ErrorsAreOfFrames
    BY FramesInv, ZenonT(60) DEF IInv
  <1>1. ASSUME NEW c \in Contracts, NEW limit \in Limits, NEW v \in BOOLEAN,
               Instantiate(c, limit, v)
        PROVE  Good
    <2>. DEFINE f == [target |-> c, limit |-> limit, gas |-> limit, is_view |-> v]
    <2>1. f \in Frame /\ f.gas = limit /\ f.limit = limit /\ limit \in Nat
      BY CostsAssumption, ZenonT(60) DEF Frame
    <2>2. frames' = <<f>> /\ frames = <<>> /\ error' = error
      BY <1>1, ZenonT(60) DEF Instantiate
    <2>. HIDE DEF f
    <2>3. FramesOK(<<f>>)
      BY <2>1 DEF FramesOK
    <2>. QED
      BY <2>2, <2>3, <1>0, ZenonT(60) DEF Good, ErrorsAreOfFrames
  <1>2. ASSUME NEW cost \in Costs, WasmBlock(cost) PROVE Good
    <2>1. frames # <<>> /\ error = "none" /\ top.gas \in Nat /\ cost \in Nat
      BY <1>0, <1>2, TopFrame, CostsAssumption, ZenonT(60) DEF WasmBlock, Running
    <2>2. CASE top.gas < cost
      BY <1>0, <1>2, <2>1, <2>2, ChargeIsGood DEF WasmBlock
    <2>3. CASE ~ (top.gas < cost)
      <3>1. top.gas - cost \in Nat /\ top.gas - cost <= top.gas
        BY <2>1, <2>3
      <3>. QED
        BY <1>0, <1>2, <2>1, <2>3, <3>1, ChargeIsGood, ZenonT(60) DEF WasmBlock
    <2>. QED
      BY <2>2, <2>3, ZenonT(60)
  <1>3. CASE WasmTrap
    <2>1. frames' = frames /\ frames # <<>> /\ error' = "trap"
      BY <1>3, ZenonT(60) DEF WasmTrap, Running
    <2>2. top.gas \in Nat /\ top = frames[Len(frames)]
      BY <1>0, <2>1, TopFrame, ZenonT(60) DEF top, depth
    <2>. QED
      BY <1>0, <2>1, <2>2 DEF Good
  <1>4. ASSUME NEW cost \in Costs, Invoke(cost), error' # "exhausted" PROVE Good
    <2>1. frames # <<>> /\ top.gas >= CallCost /\ frames' = WithGas(HostGas(cost))
      BY <1>4, ZenonT(60) DEF Invoke, Running
    <2>. QED
      BY <1>0, <1>4, <2>1, HostGasBounds, ChargeIsGood, ZenonT(60)
  <1>5. ASSUME NEW cost \in Costs, HostFunctionFails(cost) PROVE Good
    BY <1>4, <1>5, ZenonT(60) DEF HostFunctionFails
  <1>6. ASSUME NEW cost \in Costs, SetStorage(cost) PROVE Good
    BY <1>4, <1>6, ZenonT(60) DEF SetStorage, Invoke, Running
  <1>7. ASSUME NEW cost \in Costs, NEW a \in Amounts, NEW c \in Contracts, Transfer(cost, a, c)
        PROVE  Good
    BY <1>4, <1>7, ZenonT(60) DEF Transfer, Invoke, Running
  <1>8. ASSUME NEW cost \in Costs, NEW output \in OutputCosts, ReturnValue(cost, output) PROVE Good
    <2>1. /\ frames # <<>> /\ error = "none" /\ top.gas >= CallCost
          /\ frames' = WithGas(OutputGas(cost, output))
          /\ error' = "exhausted" => output > HostGas(cost)
      BY <1>8, ZenonT(60) DEF ReturnValue, Running
    <2>. QED
      BY <1>0, <2>1, OutputGasBounds, ChargeIsGood, ZenonT(60)
  <1>14. ASSUME NEW cost \in Costs, Defer(cost) PROVE Good
    BY <1>4, <1>14, ZenonT(60) DEF Defer, Invoke, Running
  <1>15. ASSUME NEW cost \in Costs, NEW output \in OutputCosts, Log(cost, output) PROVE Good
    <2>1. /\ frames # <<>> /\ error = "none" /\ top.gas >= CallCost
          /\ frames' = WithGas(OutputGas(cost, output))
          /\ error' = "exhausted" => output > HostGas(cost)
      BY <1>15, ZenonT(60) DEF Log, Running
    <2>. QED
      BY <1>0, <2>1, OutputGasBounds, ChargeIsGood, ZenonT(60)
  <1>9. ASSUME NEW cost \in Costs, NEW c \in Contracts, NEW a \in Amounts, Call(cost, c, a)
        PROVE  Good
    <2>. DEFINE g == HostGas(cost)
                z == Append(WithGas(g), ChildFrame(c, g))
    <2>1. frames # <<>> /\ error = "none" /\ top.gas >= CallCost
      BY <1>9, ZenonT(60) DEF Call, Running
    <2>2. g \in Nat /\ g <= top.gas
      BY <1>0, <2>1, HostGasBounds, ZenonT(60)
    <2>3. (frames' = WithGas(g) /\ error' = "func") \/ (frames' = z /\ error' = error)
      BY <1>9, ZenonT(60) DEF Call
    <2>. HIDE DEF g
    <2>4. CASE frames' = WithGas(g) /\ error' = "func"
      BY <1>0, <2>1, <2>2, <2>4, ChargeIsGood, ZenonT(60)
    <2>5. CASE frames' = z /\ error' = error
      <3>1. FramesOK(z) /\ Len(z) = depth + 1 /\ z[depth + 1].gas = g
        BY <1>0, <2>1, <2>2, CallKeepsFrames, ZenonT(60)
      <3>. HIDE DEF z
      <3>. QED
        BY <2>1, <2>2, <2>5, <3>1, ZenonT(60) DEF Good
    <2>. QED
      BY <2>3, <2>4, <2>5, ZenonT(60)
  <1>10. ASSUME NEW cost \in Costs, Return(cost) PROVE Good
    <2>. DEFINE g == IF return_value = 0 THEN deducted ELSE saturating_sub(deducted, cost)
    <2>1. depth > 1 /\ frames' = ParentWithGas(g) /\ error' # "exhausted"
      BY <1>10, ZenonT(60) DEF Return, Running
    <2>2. /\ deducted = top.gas /\ top.gas \in Nat /\ deducted <= parent.gas
          /\ parent.gas \in Nat
      BY <1>0, <2>1, DeductedIsChildGas, ZenonT(60) DEF Frame
    <2>3. g \in Nat /\ g <= deducted
      <3>1. cost \in Nat /\ deducted \in Nat
        BY <2>2, CostsAssumption, ZenonT(60)
      <3>2. saturating_sub(deducted, cost) \in Nat /\ saturating_sub(deducted, cost) <= deducted
        BY <3>1, SubBounds, ZenonT(60)
      <3>. QED
        BY <3>1, <3>2
    <2>. HIDE DEF g
    <2>4. g <= parent.gas /\ g <= top.gas
      BY <2>2, <2>3
    <2>5. /\ FramesOK(frames') /\ Len(frames') = depth - 1
          /\ frames'[depth - 1].gas = g /\ frames' # <<>>
      BY <1>0, <2>1, <2>3, <2>4, PopKeepsFrames, ZenonT(60)
    <2>. QED
      BY <2>1, <2>4, <2>5, ZenonT(60) DEF Good
  <1>11. CASE Unwind
    <2>1. /\ depth > 1 /\ frames' = ParentWithGas(deducted)
          /\ error' = "exhausted" => deducted = 0
      BY <1>11, ZenonT(60) DEF Unwind
    <2>2. deducted = top.gas /\ top.gas \in Nat /\ deducted <= parent.gas
      BY <1>0, <2>1, DeductedIsChildGas, ZenonT(60)
    <2>3. /\ FramesOK(frames') /\ Len(frames') = depth - 1
          /\ frames'[depth - 1].gas = deducted /\ frames' # <<>>
      BY <1>0, <2>1, <2>2, PopKeepsFrames, ZenonT(60)
    <2>. QED
      BY <2>1, <2>2, <2>3 DEF Good
  <1>12. CASE Finish
    <2>1. FramesOK(<<>>)
      BY DEF FramesOK
    <2>. QED
      BY <1>12, <2>1, ZenonT(60) DEF Finish, Good
  <1>13. ASSUME NEW cost \in Costs, NEW c \in Contracts, NEW a \in Amounts,
                CallFindsNoContract(cost, c, a)
         PROVE  Good
    BY <1>4, <1>13, ZenonT(60) DEF CallFindsNoContract
  <1>. QED
    BY <1>1, <1>2, <1>3, <1>5, <1>6, <1>7, <1>8, <1>9, <1>10, <1>11, <1>12, <1>13,
       <1>14, <1>15, ZenonT(60)
    DEF Next, WasmStep, HostStep, CallStep

\* No step leaves the types of the other variables.
LEMMA RestIsKept == IInv /\ Next => Rest'
  <1>. SUFFICES ASSUME IInv, Next PROVE Rest'
    BY ZenonT(60)
  <1>0. Rest /\ FramesOK(frames)
    BY FramesInv, ZenonT(60) DEF IInv, TypeOK, Rest
  <1>1. ASSUME NEW c \in Contracts, NEW limit \in Limits, NEW v \in BOOLEAN,
               Instantiate(c, limit, v)
        PROVE  Rest'
    BY <1>0, <1>1, ZenonT(60) DEF Instantiate, Rest
  <1>2. CASE WasmStep
    BY <1>0, <1>2, ZenonT(60) DEF WasmStep, WasmBlock, WasmTrap, Rest
  <1>3. ASSUME NEW cost \in Costs, HostFunctionFails(cost) \/ SetStorage(cost) PROVE Rest'
    BY <1>0, <1>3, ZenonT(60) DEF HostFunctionFails, SetStorage, Rest
  <1>4. ASSUME NEW cost \in Costs, NEW a \in Amounts, NEW c \in Contracts, Transfer(cost, a, c)
        PROVE  Rest'
    <2>1. top.target \in Contracts
      BY <1>0, <1>4, TopFrame, ZenonT(60) DEF Transfer, Invoke, Running, Frame
    <2>2. a \in U64 /\ a \in Nat /\ balance[top.target] \in Nat
      BY <1>0, <2>1, DepthAssumption, U64Assumption DEF U64, Rest
    <2>3. CASE balance[top.target] < a
      BY <1>0, <1>4, <2>3, ZenonT(60) DEF Transfer, Rest
    <2>4. CASE ~ (balance[top.target] < a)
      <3>1. transfer_from_contract(top.target, a, c) \in [Contracts -> U64]
        BY <1>0, <2>1, <2>2, <2>4, TransferType DEF Rest
      <3>. QED
        BY <1>0, <1>4, <2>4, <3>1, ZenonT(60) DEF Transfer, Rest
    <2>. QED
      BY <2>3, <2>4, ZenonT(60)
  <1>5. ASSUME NEW cost \in Costs, NEW output \in OutputCosts, ReturnValue(cost, output) PROVE Rest'
    <2>1. depth \in Nat
      BY <1>0, <1>5, TopFrame, ZenonT(60) DEF ReturnValue, Running
    <2>. QED
      BY <1>0, <1>5, <2>1, ZenonT(60) DEF ReturnValue, Rest
  <1>6. ASSUME NEW cost \in Costs, NEW c \in Contracts, NEW a \in Amounts, Call(cost, c, a)
        PROVE  Rest'
    <2>1. top.target \in Contracts
      BY <1>0, <1>6, TopFrame, ZenonT(60) DEF Call, Running, Frame
    <2>2. a \in U64 /\ a \in Nat /\ balance[top.target] \in Nat
      BY <1>0, <2>1, DepthAssumption, U64Assumption DEF U64, Rest
    <2>3. CASE error' = "func" /\ balance' = balance
      BY <1>0, <1>6, <2>3, ZenonT(60) DEF Call, Rest
    <2>4. CASE ~ (error' = "func" /\ balance' = balance)
      <3>1. /\ ~ (balance[top.target] < a) /\ error' = error
            /\ balance' = transfer_from_contract(top.target, a, c)
        BY <1>6, <2>4, ZenonT(60) DEF Call
      <3>2. balance' \in [Contracts -> U64]
        BY <1>0, <2>1, <2>2, <3>1, TransferType DEF Rest
      <3>. QED
        BY <1>0, <1>6, <3>1, <3>2, ZenonT(60) DEF Call, Rest
    <2>. QED
      BY <2>3, <2>4, ZenonT(60)
  <1>7. ASSUME NEW cost \in Costs, Return(cost) PROVE Rest'
    BY <1>0, <1>7, ZenonT(60) DEF Return, Rest
  <1>8. CASE Unwind
    BY <1>0, <1>8, ZenonT(60) DEF Unwind, Rest
  <1>9. CASE Finish
    BY <1>0, <1>9 DEF Finish, Rest
  <1>10. ASSUME NEW cost \in Costs, NEW c \in Contracts, NEW a \in Amounts,
                CallFindsNoContract(cost, c, a)
         PROVE  Rest'
    <2>1. top.target \in Contracts
      BY <1>0, <1>10, TopFrame, ZenonT(60) DEF CallFindsNoContract, Invoke, Running, Frame
    <2>2. a \in U64 /\ a <= balance[top.target]
      BY <1>0, <1>10, <2>1, DepthAssumption, U64Assumption, ZenonT(60) DEF CallFindsNoContract, U64, Rest
    <2>3. balance' \in [Contracts -> U64]
      BY <1>0, <1>10, <2>1, <2>2, TransferType, ZenonT(60) DEF CallFindsNoContract, Rest
    <2>. QED
      BY <1>0, <1>10, <2>3, ZenonT(60) DEF CallFindsNoContract, Rest
  <1>11. ASSUME NEW cost \in Costs, Defer(cost) PROVE Rest'
    <2>1. top.target \in Contracts
      BY <1>0, <1>11, TopFrame, ZenonT(60) DEF Defer, Invoke, Running, Frame
    <2>. QED
      BY <1>0, <1>11, <2>1 DEF Defer, Rest
  <1>12. ASSUME NEW cost \in Costs, NEW output \in OutputCosts, Log(cost, output) PROVE Rest'
    BY <1>0, <1>12, ZenonT(60) DEF Log, Rest
  <1>. QED
    BY <1>1, <1>2, <1>3, <1>4, <1>5, <1>6, <1>7, <1>8, <1>9, <1>10, <1>11, <1>12, ZenonT(60)
    DEF Next, HostStep, CallStep

\* CallInstance::call reports the exhaustion of gas exactly when all of it was used.
LEMMA FinishReports == IInv /\ Next => ExhaustionIsReported'
  <1>. SUFFICES ASSUME IInv, Next PROVE ExhaustionIsReported'
    BY ZenonT(60)
  <1>1. CASE Finish
    <2>1. frames # <<>> /\ FramesOK(frames)
      <3>1. FramesOK(frames) /\ depth = 1
        BY <1>1, FramesInv, ZenonT(60) DEF Finish
      <3>. QED
        BY <3>1 DEF depth
    <2>2. top.gas \in Nat /\ top.limit \in Nat /\ top.gas <= top.limit
      BY <2>1, TopFrame, ZenonT(60)
    <2>3. total_gas(top) = top.limit <=> top.gas = 0
      BY <2>2 DEF total_gas, saturating_sub
    <2>4. /\ error \in {"none", "trap", "func", "exhausted"}
          /\ error = "exhausted" => top.gas = 0
      BY ZenonT(60) DEF IInv, TypeOK, ErrorsAreOfFrames
    <2>5. TransitionError # "none" =>
            (TransitionError = "ExecutionProperGasExhausted" <=> top.gas = 0)
      <3>1. CASE error = "none"
        BY <3>1, ZenonT(60) DEF TransitionError
      <3>2. CASE error # "none" /\ top.gas = 0
        BY <3>2, ZenonT(60) DEF TransitionError
      <3>3. CASE error = "func" /\ top.gas # 0
        BY <3>3, ZenonT(60) DEF TransitionError
      <3>4. CASE error = "trap" /\ top.gas # 0
        BY <3>4, ZenonT(60) DEF TransitionError
      <3>. QED
        BY <2>4, <3>1, <3>2, <3>3, <3>4, ZenonT(60)
    <2>6. /\ result'.error = TransitionError /\ result'.gas_used = total_gas(top)
          /\ result'.limit = top.limit
      BY <1>1, ZenonT(60) DEF Finish
    <2>. QED
      BY <2>3, <2>5, <2>6, ZenonT(60) DEF ExhaustionIsReported
  <1>2. CASE result' = result
    BY <1>2, ZenonT(60) DEF IInv, ExhaustionIsReported
  <1>3. Finish \/ result' = result
    BY ZenonT(60) DEF Next, WasmStep, HostStep, CallStep, Instantiate, WasmBlock, WasmTrap,
        HostFunctionFails, SetStorage, Transfer, Defer, Log, ReturnValue, Call, CallFindsNoContract,
        Return, Unwind
  <1>. QED
    BY <1>1, <1>2, <1>3, ZenonT(60)

\* The invariant is inductive.
LEMMA Inductive == Spec => []IInv
  <1>1. Init => IInv
    <2>. SUFFICES ASSUME Init PROVE IInv
      BY ZenonT(60)
    <2>1. TypeOK /\ GasIsHandedDown
      <3>1. frames = <<>> /\ depth = 0
        BY ZenonT(60) DEF Init, depth
      <3>2. frames \in Seq(Frame)
        BY <3>1
      <3>3. ws \in [Contracts -> U64] /\ balance = ws
        BY DepthAssumption, ZenonT(60) DEF Init
      <3>. QED
        BY <3>1, <3>2, <3>3 DEF Init, TypeOK, GasIsHandedDown
    <2>2. ErrorsAreOfFrames /\ ExhaustionIsReported
      BY ZenonT(60) DEF Init, ErrorsAreOfFrames, ExhaustionIsReported, NoResult
    <2>. QED
      BY <2>1, <2>2, ZenonT(60) DEF IInv
  <1>2. IInv /\ [Next]_vars => IInv'
    <2>1. CASE IInv /\ Next
      <3>1. Good /\ Rest' /\ ExhaustionIsReported'
        BY <2>1, StepIsGood, RestIsKept, FinishReports, ZenonT(60)
      <3>2. TypeOK' /\ GasIsHandedDown'
        BY <3>1, ZenonT(60) DEF Good, Rest, TypeOK, GasIsHandedDown, FramesOK, depth
      <3>3. ErrorsAreOfFrames'
        BY <3>1, ZenonT(60) DEF Good, ErrorsAreOfFrames, top, depth
      <3>. QED
        BY <3>1, <3>2, <3>3, ZenonT(60) DEF IInv
    <2>2. CASE IInv /\ UNCHANGED vars
      <3>1. TypeOK' /\ GasIsHandedDown'
        BY <2>2, ZenonT(60) DEF vars, IInv, TypeOK, GasIsHandedDown, depth
      <3>2. ErrorsAreOfFrames' /\ ExhaustionIsReported'
        BY <2>2, ZenonT(60) DEF vars, IInv, ErrorsAreOfFrames, ExhaustionIsReported, top, depth
      <3>. QED
        BY <3>1, <3>2, ZenonT(60) DEF IInv
    <2>. QED
      BY <2>1, <2>2, ZenonT(60)
  <1>. QED
    BY <1>1, <1>2, PTL DEF Spec

\* Frames are well formed, and no frame has more gas than it was given.
THEOREM TypeCorrect == Spec => []TypeOK
  BY Inductive, PTL DEF IInv

\* The gas of a nest of calls is handed down whole (the gas_limit of call_tx in the host
\* function call), at any depth.
THEOREM GasHandedDown == Spec => []GasIsHandedDown
  BY Inductive, PTL DEF IInv

\* A failed command reports exhaustion exactly when it used all of its gas
\* (Instance::call_method and TransitionError::from).
THEOREM ExhaustionReported == Spec => []ExhaustionIsReported
  BY Inductive, PTL DEF IInv

\* No sequence of nested calls, returns and errors makes more of the gas: what is left to
\* the running contract never grows (subtract_gas, deduct_gas, ContractInstance::call).
THEOREM GasNeverGrows == Spec => GasOnlyDecreases
  <1>1. IInv /\ [Next]_vars =>
            [frames # <<>> /\ frames' # <<>> => frames'[Len(frames')].gas <= top.gas]_vars
    BY StepIsGood, ZenonT(60) DEF Good
  <1>. QED
    BY Inductive, <1>1, PTL DEF Spec, GasOnlyDecreases

-----------------------------------------------------------------------------

\* All frames of a nest are views, or none is.
SameViews(f) == \A i \in 1 .. Len(f) : f[i].is_view = f[1].is_view

\* Nothing was written and nothing deferred.
Untouched == balance = ws /\ stored = {} /\ deferred = <<>>

\* The inductive invariant of views.
ViewInv ==
    /\ SameViews(frames)
    /\ frames = <<>> /\ result = NoResult => Untouched
    /\ ViewsWriteNothing

\* The charge of a frame does not change what is a view.
LEMMA ChargeKeepsViews ==
    ASSUME FramesOK(frames), frames # <<>>, SameViews(frames), NEW g \in Nat, g <= top.gas
    PROVE  \A i \in 1 .. Len(WithGas(g)) : WithGas(g)[i].is_view = frames[1].is_view
  <1>. DEFINE r == [target |-> top.target, limit |-> top.limit, gas |-> g, is_view |-> top.is_view]
              w == WithGas(g)
  <1>1. frames \in Seq(Frame) /\ depth \in 1 .. Len(frames) /\ Len(frames) \in Nat
    BY TopFrame DEF FramesOK, depth
  <1>2. r.is_view = frames[1].is_view
    BY <1>1, ZenonT(60) DEF SameViews, top
  <1>3. w = [frames EXCEPT ![depth] = r]
    BY ZenonT(60) DEF WithGas
  <1>. HIDE DEF r, w
  <1>4. Len(w) = Len(frames) /\ \A i \in 1 .. Len(w) : w[i] = IF i = depth THEN r ELSE frames[i]
    BY <1>1, <1>3
  <1>5. \A i \in 1 .. Len(w) : w[i].is_view = frames[1].is_view
    BY <1>2, <1>4, ZenonT(60) DEF SameViews
  <1>. QED
    BY <1>5, ZenonT(60) DEF w

\* The child of a view is a view (the is_view given to ContractModule::instantiate).
LEMMA CallKeepsViews ==
    ASSUME FramesOK(frames), frames # <<>>, SameViews(frames), NEW g \in Nat, g <= top.gas,
           NEW c \in Contracts
    PROVE  LET z == Append(WithGas(g), ChildFrame(c, g))
           IN  \A i \in 1 .. Len(z) : z[i].is_view = frames[1].is_view
  <1>. DEFINE w == WithGas(g)
              ch == ChildFrame(c, g)
              z == Append(w, ch)
  <1>1. FramesOK(w) /\ Len(w) = depth /\ \A i \in 1 .. Len(w) : w[i].is_view = frames[1].is_view
    BY ChargeKeepsFrames, ChargeKeepsViews, ZenonT(60)
  <1>2. depth \in 1 .. Len(frames) /\ depth \in Nat
    BY TopFrame DEF depth
  <1>3. ch.is_view = frames[1].is_view /\ ch \in Frame
    BY <1>2, TopFrame, ZenonT(60) DEF ChildFrame, Frame, SameViews, top
  <1>. HIDE DEF w, ch
  <1>4. w \in Seq(Frame)
    BY <1>1, ZenonT(60) DEF FramesOK
  <1>5. Len(z) = depth + 1 /\ \A i \in 1 .. Len(z) : z[i] = IF i = depth + 1 THEN ch ELSE w[i]
    BY <1>1, <1>2, <1>3, <1>4
  <1>. HIDE DEF z
  <1>6. \A i \in 1 .. Len(z) : z[i].is_view = frames[1].is_view
    BY <1>1, <1>2, <1>3, <1>5
  <1>. QED
    BY <1>6, ZenonT(60) DEF z, w, ch

\* Popping a frame does not change what is a view.
LEMMA PopKeepsViews ==
    ASSUME FramesOK(frames), depth > 1, SameViews(frames), NEW g \in Nat
    PROVE  \A i \in 1 .. Len(ParentWithGas(g)) : ParentWithGas(g)[i].is_view = frames[1].is_view
  <1>. DEFINE r == [target |-> parent.target, limit |-> parent.limit, gas |-> g,
                    is_view |-> parent.is_view]
              s == SubSeq(frames, 1, depth - 1)
              w == ParentWithGas(g)
  <1>1. frames \in Seq(Frame) /\ depth = Len(frames) /\ depth \in Nat /\ depth - 1 \in 1 .. Len(frames)
    BY DeductedIsChildGas DEF FramesOK, depth
  <1>2. r.is_view = frames[1].is_view
    BY <1>1, ZenonT(60) DEF SameViews, parent
  <1>3. w = [s EXCEPT ![depth - 1] = r]
    BY ZenonT(60) DEF ParentWithGas
  <1>4. Len(s) = depth - 1 /\ s \in Seq(Frame) /\ \A i \in 1 .. depth - 1 : s[i] = frames[i]
    BY <1>1
  <1>. HIDE DEF r, s, w
  <1>5. Len(w) = depth - 1
    BY <1>1, <1>3, <1>4
  <1>6. \A i \in 1 .. Len(w) : w[i] = IF i = depth - 1 THEN r ELSE frames[i]
    BY <1>1, <1>3, <1>4, <1>5
  <1>7. \A i \in 1 .. Len(w) : w[i].is_view = frames[1].is_view
    BY <1>1, <1>2, <1>5, <1>6 DEF SameViews
  <1>. QED
    BY <1>7, ZenonT(60) DEF w

\* transfer_from_contract of nothing, which stands for a call without amount.
LEMMA TransferOfNothing ==
    ASSUME balance \in [Contracts -> U64], NEW s \in Contracts, NEW r \in Contracts
    PROVE  transfer_from_contract(s, 0, r) = balance
  <1>. DEFINE d == [balance EXCEPT ![s] = balance[s] - 0]
  <1>1. balance[s] \in Nat /\ balance[s] - 0 = balance[s]
    BY U64Assumption DEF U64
  <1>2. d = balance
    BY <1>1, ZenonT(60)
  <1>3. saturating_add(balance[r], 0) = balance[r]
    BY U64Assumption DEF saturating_add, saturate, U64
  <1>4. [balance EXCEPT ![r] = saturating_add(balance[r], 0)] = balance
    BY <1>3, ZenonT(60)
  <1>. QED
    BY <1>2, <1>4, ZenonT(60) DEF transfer_from_contract

\* What a step inside a nest does: it leaves the views views, and in a view it leaves the
\* write set and the deferred commands alone.
NestStep ==
    /\ frames # <<>> /\ frames' # <<>> /\ result' = result
    /\ \A i \in 1 .. Len(frames') : frames'[i].is_view = frames[1].is_view
    /\ frames[1].is_view => UNCHANGED <<ws, balance, stored, deferred>>

\* A step that charges the innermost frame, and writes nothing if that is a view.
LEMMA ChargeIsNestStep ==
    ASSUME FramesOK(frames), SameViews(frames), frames # <<>>, NEW g \in Nat, g <= top.gas,
           frames' = WithGas(g), result' = result,
           top.is_view => UNCHANGED <<ws, balance, stored, deferred>>
    PROVE  NestStep
  <1>1. depth \in 1 .. Len(frames)
    BY TopFrame DEF depth
  <1>2. top.is_view = frames[1].is_view
    BY <1>1, ZenonT(60) DEF SameViews, top
  <1>3. WithGas(g) # <<>>
    BY ChargeKeepsFrames, ZenonT(60)
  <1>. QED
    BY <1>2, <1>3, ChargeKeepsViews, ZenonT(60) DEF NestStep

\* Every step but the first and the last of a command is a step inside the nest.
LEMMA StepsInNest ==
    ASSUME IInv, ViewInv, WasmStep \/ HostStep \/ (CallStep /\ ~ Finish)
    PROVE  NestStep
  <1>0. FramesOK(frames) /\ SameViews(frames) /\ balance \in [Contracts -> U64]
    BY FramesInv, ZenonT(60) DEF IInv, TypeOK, ViewInv
  <1>1. ASSUME NEW cost \in Costs, WasmBlock(cost) PROVE NestStep
    <2>1. frames # <<>> /\ top.gas \in Nat /\ cost \in Nat
      BY <1>0, <1>1, TopFrame, CostsAssumption, ZenonT(60) DEF WasmBlock, Running
    <2>2. PICK g \in Nat : g <= top.gas /\ frames' = WithGas(g)
      <3>1. CASE top.gas < cost
        BY <1>1, <2>1, <3>1 DEF WasmBlock
      <3>2. CASE ~ (top.gas < cost)
        <4>1. top.gas - cost \in Nat /\ top.gas - cost <= top.gas
          BY <2>1, <3>2
        <4>. QED
          BY <1>1, <3>2, <4>1, ZenonT(60) DEF WasmBlock
      <3>. QED
        BY <3>1, <3>2, ZenonT(60)
    <2>. QED
      BY <1>0, <1>1, <2>1, <2>2, ChargeIsNestStep, ZenonT(60) DEF WasmBlock
  <1>2. CASE WasmTrap
    BY <1>0, <1>2, ZenonT(60) DEF WasmTrap, Running, NestStep, SameViews
  <1>3. ASSUME NEW cost \in Costs, Invoke(cost), result' = result,
               top.is_view => UNCHANGED <<ws, balance, stored, deferred>>
        PROVE  NestStep
    <2>1. frames # <<>> /\ top.gas >= CallCost /\ frames' = WithGas(HostGas(cost))
      BY <1>3, ZenonT(60) DEF Invoke, Running
    <2>. QED
      BY <1>0, <1>3, <2>1, HostGasBounds, ChargeIsNestStep, ZenonT(60)
  <1>4. ASSUME NEW cost \in Costs, HostFunctionFails(cost) \/ SetStorage(cost) \/ Defer(cost)
        PROVE  NestStep
    BY <1>3, <1>4, ZenonT(60) DEF HostFunctionFails, SetStorage, Defer
  <1>5. ASSUME NEW cost \in Costs, NEW a \in Amounts, NEW c \in Contracts, Transfer(cost, a, c)
        PROVE  NestStep
    BY <1>3, <1>5, ZenonT(60) DEF Transfer
  <1>6. ASSUME NEW cost \in Costs, NEW output \in OutputCosts,
               Log(cost, output) \/ ReturnValue(cost, output)
        PROVE  NestStep
    <2>1. /\ frames # <<>> /\ top.gas >= CallCost /\ frames' = WithGas(OutputGas(cost, output))
          /\ UNCHANGED <<ws, balance, stored, deferred, result>>
      BY <1>6, ZenonT(60) DEF Log, ReturnValue, Running
    <2>. QED
      BY <1>0, <2>1, OutputGasBounds, ChargeIsNestStep, ZenonT(60)
  <1>7. ASSUME NEW cost \in Costs, NEW c \in Contracts, NEW a \in Amounts, Call(cost, c, a)
        PROVE  NestStep
    <2>. DEFINE g == HostGas(cost)
                z == Append(WithGas(g), ChildFrame(c, g))
    <2>1. frames # <<>> /\ top.gas >= CallCost /\ depth \in 1 .. Len(frames) /\ top.target \in Contracts
      BY <1>0, <1>7, TopFrame DEF Call, Running, depth, Frame
    <2>2. g \in Nat /\ g <= top.gas
      BY <1>0, <2>1, HostGasBounds, ZenonT(60)
    <2>3. CASE frames' = WithGas(g) /\ balance' = balance
      BY <1>0, <1>7, <2>1, <2>2, <2>3, ChargeIsNestStep, ZenonT(60) DEF Call
    <2>4. CASE ~ (frames' = WithGas(g) /\ balance' = balance)
      <3>1. /\ frames' = z /\ balance' = transfer_from_contract(top.target, a, c)
            /\ top.is_view => a = 0
            /\ UNCHANGED <<ws, stored, deferred, result>>
        BY <1>7, <2>4, ZenonT(60) DEF Call
      <3>2. top.is_view => balance' = balance
        BY <1>0, <2>1, <3>1, TransferOfNothing, ZenonT(60)
      <3>3. top.is_view = frames[1].is_view
        BY <1>0, <2>1, ZenonT(60) DEF SameViews, top
      <3>. HIDE DEF g
      <3>4. \A i \in 1 .. Len(z) : z[i].is_view = frames[1].is_view
        BY <1>0, <2>1, <2>2, CallKeepsViews, ZenonT(60)
      <3>5. Len(z) = depth + 1
        BY <1>0, <2>1, <2>2, CallKeepsFrames, ZenonT(60)
      <3>. HIDE DEF z
      <3>6. z # <<>>
        BY <2>1, <3>5
      <3>. QED
        BY <2>1, <3>1, <3>2, <3>3, <3>4, <3>6, ZenonT(60) DEF NestStep
    <2>. QED
      BY <2>3, <2>4, ZenonT(60)
  <1>8. ASSUME NEW cost \in Costs, NEW c \in Contracts, NEW a \in Amounts,
               CallFindsNoContract(cost, c, a)
        PROVE  NestStep
    <2>1. top.target \in Contracts
      BY <1>0, <1>8, TopFrame, ZenonT(60) DEF CallFindsNoContract, Invoke, Running, Frame
    <2>2. top.is_view => balance' = balance
      BY <1>0, <1>8, <2>1, TransferOfNothing, ZenonT(60) DEF CallFindsNoContract
    <2>. QED
      BY <1>3, <1>8, <2>2, ZenonT(60) DEF CallFindsNoContract
  <1>9. ASSUME NEW g \in Nat, depth > 1, g <= parent.gas, frames' = ParentWithGas(g),
               UNCHANGED <<ws, balance, stored, deferred, result>>
        PROVE  NestStep
    <2>1. frames # <<>> /\ ParentWithGas(g) # <<>>
      BY <1>0, <1>9, DeductedIsChildGas, PopKeepsFrames, ZenonT(60)
    <2>. QED
      BY <1>0, <1>9, <2>1, PopKeepsViews, ZenonT(60) DEF NestStep
  <1>10. ASSUME NEW cost \in Costs, Return(cost) PROVE NestStep
    <2>. DEFINE g == IF return_value = 0 THEN deducted ELSE saturating_sub(deducted, cost)
    <2>1. depth > 1 /\ frames' = ParentWithGas(g)
      BY <1>10, ZenonT(60) DEF Return
    <2>2. deducted \in Nat /\ deducted <= parent.gas /\ parent.gas \in Nat /\ cost \in Nat
      BY <1>0, <2>1, DeductedIsChildGas, CostsAssumption, ZenonT(60) DEF Frame
    <2>3. g \in Nat /\ g <= parent.gas
      BY <2>2, SubBounds DEF saturating_sub
    <2>. HIDE DEF g
    <2>. QED
      BY <1>9, <1>10, <2>1, <2>3, ZenonT(60) DEF Return
  <1>11. CASE Unwind
    <2>1. depth > 1 /\ deducted \in Nat /\ deducted <= parent.gas
      BY <1>0, <1>11, DeductedIsChildGas, ZenonT(60) DEF Unwind
    <2>. QED
      BY <1>9, <1>11, <2>1, ZenonT(60) DEF Unwind
  <1>. QED
    BY <1>1, <1>2, <1>4, <1>5, <1>6, <1>7, <1>8, <1>10, <1>11 DEF WasmStep, HostStep, CallStep

\* TransitionError::from(MethodCallError): a result is reported, and an error as one.
LEMMA ErrorIsReported ==
    ASSUME error \in {"none", "trap", "func", "exhausted"}
    PROVE  /\ TransitionError # "pending"
           /\ error = "none" <=> TransitionError = "none"
  <1>1. CASE error = "none"
    BY <1>1, ZenonT(60) DEF TransitionError
  <1>2. CASE error # "none" /\ top.gas = 0
    BY <1>2, ZenonT(60) DEF TransitionError
  <1>3. CASE error = "exhausted" /\ top.gas # 0
    BY <1>3, ZenonT(60) DEF TransitionError
  <1>4. CASE error = "func" /\ top.gas # 0
    BY <1>4, ZenonT(60) DEF TransitionError
  <1>5. CASE error = "trap" /\ top.gas # 0
    BY <1>5, ZenonT(60) DEF TransitionError
  <1>. QED
    BY <1>1, <1>2, <1>3, <1>4, <1>5, ZenonT(60)

\* The invariant of views is kept by every step.
LEMMA ViewInvIsKept == IInv /\ ViewInv /\ Next => ViewInv'
  <1>. SUFFICES ASSUME IInv, ViewInv, Next PROVE ViewInv'
    BY ZenonT(60)
  <1>1. ASSUME NEW c \in Contracts, NEW limit \in Limits, NEW v \in BOOLEAN,
               Instantiate(c, limit, v)
        PROVE  ViewInv'
    <2>. DEFINE f == [target |-> c, limit |-> limit, gas |-> limit, is_view |-> v]
    <2>1. frames' = <<f>> /\ Untouched /\ UNCHANGED <<ws, balance, stored, deferred>>
      BY <1>1, ZenonT(60) DEF Instantiate, ViewInv
    <2>. HIDE DEF f
    <2>2. SameViews(<<f>>) /\ <<f>> # <<>>
      BY DEF SameViews
    <2>3. Untouched'
      BY <2>1, ZenonT(60) DEF Untouched
    <2>. QED
      BY <2>1, <2>2, <2>3, ZenonT(60) DEF ViewInv, ViewsWriteNothing, Untouched
  <1>2. CASE Finish
    <2>1. frames' = <<>> /\ result'.error = TransitionError
      BY <1>2, ZenonT(60) DEF Finish
    <2>3. TransitionError # "pending"
      BY ErrorIsReported, ZenonT(60) DEF IInv, TypeOK
    <2>4. result' # NoResult
      BY <2>1, <2>3 DEF NoResult
    <2>5. SameViews(<<>>)
      BY DEF SameViews
    <2>. QED
      BY <2>1, <2>4, <2>5, ZenonT(60) DEF ViewInv, ViewsWriteNothing
  <1>3. CASE WasmStep \/ HostStep \/ (CallStep /\ ~ Finish)
    <2>1. NestStep /\ FramesOK(frames')
      BY <1>3, StepsInNest, StepIsGood, ZenonT(60) DEF Good
    <2>2. frames'[1].is_view = frames[1].is_view
      <3>1. frames' \in Seq(Frame) /\ frames' # <<>>
        BY <2>1, ZenonT(60) DEF FramesOK, NestStep
      <3>2. 1 \in 1 .. Len(frames')
        BY <3>1
      <3>. QED
        BY <2>1, <3>2, ZenonT(60) DEF NestStep
    <2>3. SameViews(frames')
      BY <2>1, <2>2, ZenonT(60) DEF NestStep, SameViews
    <2>4. ViewsWriteNothing'
      BY <2>1, <2>2, ZenonT(60) DEF NestStep, ViewInv, ViewsWriteNothing
    <2>. QED
      BY <2>1, <2>3, <2>4, ZenonT(60) DEF NestStep, ViewInv
  <1>. QED
    BY <1>1, <1>2, <1>3, ZenonT(60) DEF Next

\* No contract called from a view, at any depth, writes balances or storage or defers a
\* command (create_importable_view and the is_view of HostFunctions::call).
THEOREM ViewsAreReadOnly == Spec => []ViewsWriteNothing
  <1>1. Init => ViewInv
    BY DEF Init, ViewInv, SameViews, Untouched, ViewsWriteNothing
  <1>2. IInv /\ ViewInv /\ [Next]_vars => ViewInv'
    <2>1. ViewInv /\ UNCHANGED vars => ViewInv'
      BY ZenonT(60) DEF vars, ViewInv, SameViews, Untouched, ViewsWriteNothing
    <2>. QED
      BY <2>1, ViewInvIsKept, ZenonT(60)
  <1>3. ViewInv => ViewsWriteNothing
    BY ZenonT(60) DEF ViewInv
  <1>. QED
    BY <1>1, <1>2, <1>3, Inductive, PTL DEF Spec

-----------------------------------------------------------------------------

\* The inductive invariant of the return value: while no error unwinds the nest, no
\* contract deeper than the one that runs has left a value behind.
ReturnInv ==
    /\ frames # <<>> => result = NoResult
    /\ result = NoResult /\ frames = <<>> => return_value = 0
    /\ error = "none" /\ frames # <<>> => return_value <= depth
    /\ ReturnValueIsOwn

\* A step without a result keeps ReturnInv if it leaves no value of a deeper contract.
LEMMA ReturnStep ==
    ASSUME ReturnInv, frames # <<>>, frames' # <<>>, result' = result,
           error' = "none" => return_value' <= Len(frames')
    PROVE  ReturnInv'
  <1>1. result' = NoResult /\ NoResult.error # "none"
    BY ZenonT(60) DEF ReturnInv, NoResult
  <1>. QED
    BY <1>1, ZenonT(60) DEF ReturnInv, ReturnValueIsOwn, depth

\* Every step keeps the invariant of the return value.
LEMMA ReturnInvIsKept == IInv /\ ReturnInv /\ Next => ReturnInv'
  <1>. SUFFICES ASSUME IInv, ReturnInv, Next PROVE ReturnInv'
    BY ZenonT(60)
  <1>0. FramesOK(frames) /\ return_value \in Nat /\ FramesOK(frames')
    BY FramesInv, StepIsGood, ZenonT(60) DEF IInv, TypeOK, Good
  <1>1. ASSUME NEW c \in Contracts, NEW limit \in Limits, NEW v \in BOOLEAN,
               Instantiate(c, limit, v)
        PROVE  ReturnInv'
    <2>. DEFINE f == [target |-> c, limit |-> limit, gas |-> limit, is_view |-> v]
    <2>1. frames' = <<f>> /\ result = NoResult /\ result' = NoResult /\ return_value' = 0
      BY <1>1, ZenonT(60) DEF Instantiate, ReturnInv
    <2>. HIDE DEF f
    <2>2. Len(<<f>>) = 1 /\ <<f>> # <<>> /\ NoResult.error # "none"
      BY ZenonT(60) DEF NoResult
    <2>. QED
      BY <2>1, <2>2 DEF ReturnInv, ReturnValueIsOwn, depth
  <1>2. ASSUME NEW g \in Nat, g <= top.gas, frames # <<>>, frames' = WithGas(g), result' = result,
               error' = "none" => error = "none" /\ return_value' \in {return_value, depth}
        PROVE  ReturnInv'
    <2>1. frames' # <<>> /\ Len(frames') = depth /\ depth \in Nat
      BY <1>0, <1>2, ChargeKeepsFrames, TopFrame, ZenonT(60)
    <2>. QED
      BY <1>2, <2>1, ReturnStep DEF ReturnInv
  <1>3. CASE WasmStep
    <2>1. frames # <<>> /\ top.gas \in Nat
      BY <1>0, <1>3, TopFrame, ZenonT(60) DEF WasmStep, WasmBlock, WasmTrap, Running
    <2>2. CASE WasmTrap
      BY <2>1, <2>2, ReturnStep, ZenonT(60) DEF WasmTrap
    <2>3. ASSUME NEW cost \in Costs, WasmBlock(cost) PROVE ReturnInv'
      <3>1. cost \in Nat
        BY CostsAssumption, ZenonT(60)
      <3>2. CASE top.gas < cost
        BY <1>2, <2>1, <2>3, <3>1, <3>2 DEF WasmBlock
      <3>3. CASE ~ (top.gas < cost)
        <4>1. top.gas - cost \in Nat /\ top.gas - cost <= top.gas
          BY <2>1, <3>1, <3>3
        <4>. QED
          BY <1>2, <2>1, <2>3, <3>3, <4>1, ZenonT(60) DEF WasmBlock, Running
      <3>. QED
        BY <3>2, <3>3, ZenonT(60)
    <2>. QED
      BY <1>3, <2>2, <2>3, ZenonT(60) DEF WasmStep
  <1>4. ASSUME NEW cost \in Costs, Invoke(cost), result' = result,
               error' = "none" => error = "none" /\ return_value' \in {return_value, depth}
        PROVE  ReturnInv'
    <2>1. frames # <<>> /\ top.gas >= CallCost /\ frames' = WithGas(HostGas(cost))
      BY <1>4, ZenonT(60) DEF Invoke, Running
    <2>2. HostGas(cost) \in Nat /\ HostGas(cost) <= top.gas
      BY <1>0, <2>1, HostGasBounds, ZenonT(60)
    <2>. QED
      BY <1>2, <1>4, <2>1, <2>2, ZenonT(60)
  <1>5. CASE HostStep
    <2>1. ASSUME NEW cost \in Costs, HostFunctionFails(cost) \/ SetStorage(cost) \/ Defer(cost)
          PROVE  ReturnInv'
      BY <1>4, <2>1, ZenonT(60) DEF HostFunctionFails, SetStorage, Defer, Invoke, Running
    <2>2. ASSUME NEW cost \in Costs, NEW a \in Amounts, NEW c \in Contracts, Transfer(cost, a, c)
          PROVE  ReturnInv'
      BY <1>4, <2>2, ZenonT(60) DEF Transfer, Invoke, Running
    <2>3. ASSUME NEW cost \in Costs, NEW output \in OutputCosts,
                 Log(cost, output) \/ ReturnValue(cost, output)
          PROVE  ReturnInv'
      <3>1. /\ frames # <<>> /\ top.gas >= CallCost /\ error = "none" /\ result' = result
            /\ frames' = WithGas(OutputGas(cost, output))
            /\ return_value' \in {return_value, depth}
        BY <2>3, ZenonT(60) DEF Log, ReturnValue, Running
      <3>2. OutputGas(cost, output) \in Nat /\ OutputGas(cost, output) <= top.gas
        BY <1>0, <3>1, OutputGasBounds, ZenonT(60)
      <3>. QED
        BY <1>2, <3>1, <3>2, ZenonT(60)
    <2>. QED
      BY <1>5, <2>1, <2>2, <2>3, ZenonT(60) DEF HostStep
  <1>6. ASSUME NEW cost \in Costs, NEW c \in Contracts, NEW a \in Amounts, Call(cost, c, a)
        PROVE  ReturnInv'
    <2>. DEFINE g == HostGas(cost)
                z == Append(WithGas(g), ChildFrame(c, g))
    <2>1. frames # <<>> /\ top.gas >= CallCost /\ depth \in Nat \ {0} /\ error = "none"
      BY <1>0, <1>6, TopFrame, ZenonT(60) DEF Call, Running
    <2>2. g \in Nat /\ g <= top.gas
      BY <1>0, <2>1, HostGasBounds, ZenonT(60)
    <2>3. /\ (frames' = WithGas(g) /\ error' = "func") \/ frames' = z
          /\ UNCHANGED <<return_value, result>>
      BY <1>6, ZenonT(60) DEF Call
    <2>. HIDE DEF g
    <2>4. CASE frames' = WithGas(g) /\ error' = "func"
      BY <1>2, <2>1, <2>2, <2>3, <2>4, ZenonT(60)
    <2>5. CASE frames' = z
      <3>1. Len(z) = depth + 1
        BY <1>0, <2>1, <2>2, CallKeepsFrames, ZenonT(60)
      <3>. HIDE DEF z
      <3>2. return_value <= depth /\ z # <<>>
        BY <2>1, <3>1 DEF ReturnInv
      <3>3. return_value' <= Len(frames')
        BY <1>0, <2>1, <2>3, <2>5, <3>1, <3>2
      <3>. QED
        BY <2>1, <2>3, <2>5, <3>2, <3>3, ReturnStep, ZenonT(60)
    <2>. QED
      BY <2>3, <2>4, <2>5, ZenonT(60)
  <1>7. ASSUME NEW cost \in Costs, NEW c \in Contracts, NEW a \in Amounts,
               CallFindsNoContract(cost, c, a)
        PROVE  ReturnInv'
    BY <1>4, <1>7, ZenonT(60) DEF CallFindsNoContract
  <1>8. ASSUME NEW cost \in Costs, Return(cost) PROVE ReturnInv'
    <2>1. depth > 1 /\ frames # <<>> /\ return_value' = 0 /\ result' = result
      BY <1>0, <1>8, DeductedIsChildGas, ZenonT(60) DEF Return
    <2>2. frames' # <<>> /\ Len(frames') \in Nat
      <3>. DEFINE g == IF return_value = 0 THEN deducted ELSE saturating_sub(deducted, cost)
      <3>1. frames' = ParentWithGas(g)
        BY <1>8, ZenonT(60) DEF Return
      <3>2. deducted \in Nat /\ deducted <= parent.gas /\ parent.gas \in Nat /\ cost \in Nat
        BY <1>0, <2>1, DeductedIsChildGas, CostsAssumption, ZenonT(60) DEF Frame
      <3>3. g \in Nat /\ g <= parent.gas
        BY <3>2, SubBounds DEF saturating_sub
      <3>. HIDE DEF g
      <3>. QED
        BY <1>0, <2>1, <3>1, <3>3, PopKeepsFrames DEF FramesOK
    <2>. QED
      BY <2>1, <2>2, ReturnStep
  <1>9. CASE Unwind
    <2>1. /\ depth > 1 /\ frames # <<>> /\ result' = result /\ error' # "none"
          /\ frames' = ParentWithGas(deducted) /\ deducted \in Nat /\ deducted <= parent.gas
      BY <1>0, <1>9, DeductedIsChildGas, ZenonT(60) DEF Unwind
    <2>. QED
      BY <1>0, <2>1, PopKeepsFrames, ReturnStep, ZenonT(60)
  <1>10. CASE Finish
    <2>1. /\ frames' = <<>> /\ result'.error = TransitionError /\ return_value' = return_value
          /\ depth = 1
      BY <1>10, ZenonT(60) DEF Finish
    <2>2. TransitionError # "pending" /\ (error = "none" <=> TransitionError = "none")
      BY ErrorIsReported, ZenonT(60) DEF IInv, TypeOK
    <2>3. frames # <<>> /\ result' # NoResult
      BY <2>1, <2>2 DEF depth, NoResult
    <2>4. error = "none" => return_value \in {0, 1}
      BY <1>0, <2>1, <2>3 DEF ReturnInv
    <2>. QED
      BY <2>1, <2>2, <2>3, <2>4, ZenonT(60) DEF ReturnInv, ReturnValueIsOwn
  <1>. QED
    BY <1>1, <1>3, <1>5, <1>6, <1>7, <1>8, <1>9, <1>10, ZenonT(60) DEF Next, CallStep

\* The receipt of a Call that succeeds never holds the return value of a nested contract
\* (take_return_value in HostFunctions::call), at any depth.
THEOREM ReceiptHasOwnValue == Spec => []ReturnValueIsOwn
  <1>1. Init => ReturnInv
    BY ZenonT(60) DEF Init, ReturnInv, ReturnValueIsOwn, NoResult
  <1>2. IInv /\ ReturnInv /\ [Next]_vars => ReturnInv'
    <2>1. ReturnInv /\ UNCHANGED vars => ReturnInv'
      BY ZenonT(60) DEF vars, ReturnInv, ReturnValueIsOwn, depth
    <2>. QED
      BY <2>1, ReturnInvIsKept, ZenonT(60)
  <1>3. ReturnInv => ReturnValueIsOwn
    BY ZenonT(60) DEF ReturnInv
  <1>. QED
    BY <1>1, <1>2, <1>3, Inductive, PTL DEF Spec

\* An error anywhere in the nest fails the command, and nothing deferred is executed
\* (HostFunctions::call, CallInstance::call and execute_commands).
THEOREM ErrorsFailTheCommand == Spec => ErrorsReachTheCommand
  <1>1. IInv /\ [Next]_vars =>
            [error # "none" =>
                \/ error' # "none"
                \/ result'.error \notin {"none", "pending"} /\ result'.deferred = <<>>]_vars
    <2>. SUFFICES ASSUME IInv, Next, error # "none"
                  PROVE  \/ error' # "none"
                         \/ result'.error \notin {"none", "pending"} /\ result'.deferred = <<>>
      BY ZenonT(60)
    <2>1. CASE Finish
      <3>1. TransitionError \notin {"none", "pending"}
        BY ErrorIsReported, ZenonT(60) DEF IInv, TypeOK
      <3>. QED
        BY <2>1, <3>1, ZenonT(60) DEF Finish, deferred_cmds_from_execution
    <2>2. CASE Unwind
      BY <2>2, ZenonT(60) DEF Unwind
    <2>3. frames # <<>>
      BY ZenonT(60) DEF IInv, ErrorsAreOfFrames
    <2>4. ~ WasmStep
      BY ZenonT(60) DEF WasmStep, WasmBlock, WasmTrap, Running
    <2>5. ~ HostStep
      BY ZenonT(60) DEF HostStep, HostFunctionFails, SetStorage, Transfer, Defer, Log, ReturnValue,
                   Invoke, Running
    <2>6. CallStep => Unwind \/ Finish
      BY ZenonT(60) DEF CallStep, Call, CallFindsNoContract, Return, Invoke, Running
    <2>7. \A c, limit, is_view : ~ Instantiate(c, limit, is_view)
      BY <2>3, ZenonT(60) DEF Instantiate
    <2>. QED
      BY <2>1, <2>2, <2>4, <2>5, <2>6, <2>7, ZenonT(60) DEF Next
  <1>. QED
    BY Inductive, <1>1, PTL DEF Spec, ErrorsReachTheCommand

-----------------------------------------------------------------------------

\* Balances have a sum, and each is a part of it.
LEMMA BalancesSum ==
    ASSUME NEW b \in [Contracts -> U64]
    PROVE  /\ SumFunction(b) = SumFunctionOnSet(b, Contracts)
           /\ SumFunction(b) \in Nat
           /\ \A c \in Contracts : b[c] \in Nat /\ b[c] <= SumFunction(b)
  <1>1. SumFunction(b) = SumFunctionOnSet(b, Contracts)
    BY ZenonT(60) DEF SumFunction
  <1>2. \A c \in Contracts : b[c] \in Nat
    BY U64Assumption DEF U64
  <1>. QED
    BY <1>1, <1>2, ContractsAssumption, SumNat, SumBounds, ZenonT(60)

\* The sum after one of the balances was set.
LEMMA BalanceSet ==
    ASSUME NEW b \in [Contracts -> U64], NEW c \in Contracts, NEW v \in U64
    PROVE  SumFunction([b EXCEPT ![c] = v]) = SumFunction(b) + (v - b[c])
  <1>. DEFINE w == [b EXCEPT ![c] = v]
  <1>1. w \in [Contracts -> U64] /\ w[c] = v /\ \A x \in Contracts \ {c} : w[x] = b[x]
    BY ZenonT(60)
  <1>. HIDE DEF w
  <1>2. \A x \in Contracts : w[x] \in Int /\ b[x] \in Int
    BY <1>1, BalancesSum
  <1>3. SumFunctionOnSet(w, Contracts) = SumFunctionOnSet(b, Contracts) + (w[c] - b[c])
    BY <1>1, <1>2, ContractsAssumption, SumChange
  <1>. QED
    BY <1>1, <1>3, BalancesSum, ZenonT(60) DEF w

\* A transfer between contracts creates nothing, and loses nothing unless the sum of the
\* balances exceeds a u64; the recipient may be the signer.
LEMMA TransferConserves ==
    ASSUME balance \in [Contracts -> U64], NEW s \in Contracts, NEW r \in Contracts,
           NEW a \in U64, a <= balance[s], NEW b, b = transfer_from_contract(s, a, r)
    PROVE  /\ SumFunction(b) <= SumFunction(balance)
           /\ SumFunction(balance) <= MaxU64 => SumFunction(b) = SumFunction(balance)
  <1>. DEFINE d == [balance EXCEPT ![s] = balance[s] - a]
              v == saturating_add(d[r], a)
  <1>1. balance[s] - a \in U64 /\ balance[s] \in Nat /\ a \in Nat
    BY U64Assumption DEF U64
  <1>2. d \in [Contracts -> U64]
    BY <1>1, ZenonT(60)
  <1>3. SumFunction(d) = SumFunction(balance) + ((balance[s] - a) - balance[s])
    BY <1>1, BalanceSet, ZenonT(60)
  <1>4. b = [d EXCEPT ![r] = v]
    BY ZenonT(60) DEF transfer_from_contract
  <1>. HIDE DEF d
  <1>5. /\ d[r] \in Nat /\ d[r] <= SumFunction(d)
        /\ SumFunction(d) \in Nat /\ SumFunction(balance) \in Nat
    BY <1>2, BalancesSum, ZenonT(60)
  <1>6. v \in U64 /\ v \in Nat /\ v <= d[r] + a /\ (d[r] + a <= MaxU64 => v = d[r] + a)
    BY <1>1, <1>5, U64Assumption DEF saturating_add, saturate, U64
  <1>. HIDE DEF v
  <1>7. SumFunction(b) = SumFunction(d) + (v - d[r])
    <2>1. v \in U64
      BY <1>6, ZenonT(60)
    <2>. QED
      BY <1>2, <1>4, <2>1, BalanceSet, ZenonT(60)
  <1>8. SumFunction(d) = SumFunction(balance) - a
    BY <1>1, <1>3, <1>5
  <1>. QED
    BY <1>1, <1>5, <1>6, <1>7, <1>8, U64Assumption

\* What a step does to the balances.
BalanceStep ==
    \/ UNCHANGED <<ws, balance>>
    \/ ws' = ws /\ balance' = ws
    \/ /\ ws' = ws
       /\ \E s \in Contracts, r \in Contracts, a \in U64 :
              a <= balance[s] /\ balance' = transfer_from_contract(s, a, r)

\* Every step is such a step: only transfers and the end of a command touch the balances.
LEMMA StepsOfBalances == IInv /\ Next => BalanceStep
  <1>. SUFFICES ASSUME IInv, Next PROVE BalanceStep
    BY ZenonT(60)
  <1>0. FramesOK(frames) /\ balance \in [Contracts -> U64]
    BY FramesInv, ZenonT(60) DEF IInv, TypeOK
  <1>1. ASSUME NEW a \in Amounts, NEW c \in Contracts, frames # <<>>, ws' = ws,
               ~ (balance[top.target] < a),
               balance' = transfer_from_contract(top.target, a, c)
        PROVE  BalanceStep
    <2>1. top.target \in Contracts
      BY <1>0, <1>1, TopFrame DEF Frame
    <2>2. a \in U64 /\ a <= balance[top.target]
      BY <1>0, <1>1, <2>1, DepthAssumption, U64Assumption DEF U64
    <2>. QED
      BY <1>1, <2>1, <2>2 DEF BalanceStep
  <1>2. ASSUME NEW cost \in Costs, NEW a \in Amounts, NEW c \in Contracts, Transfer(cost, a, c)
        PROVE  BalanceStep
    BY <1>1, <1>2, ZenonT(60) DEF Transfer, Invoke, Running, BalanceStep
  <1>3. ASSUME NEW cost \in Costs, NEW c \in Contracts, NEW a \in Amounts, Call(cost, c, a)
        PROVE  BalanceStep
    BY <1>1, <1>3, ZenonT(60) DEF Call, Running, BalanceStep
  <1>4. ASSUME NEW cost \in Costs, NEW c \in Contracts, NEW a \in Amounts,
               CallFindsNoContract(cost, c, a)
        PROVE  BalanceStep
    <2>1. frames # <<>> /\ top.target \in Contracts
      BY <1>0, <1>4, TopFrame, ZenonT(60) DEF CallFindsNoContract, Invoke, Running, Frame
    <2>2. ~ (balance[top.target] < a)
      BY <1>0, <1>4, <2>1, DepthAssumption, U64Assumption DEF CallFindsNoContract, U64
    <2>. QED
      BY <1>1, <1>4, <2>1, <2>2, ZenonT(60) DEF CallFindsNoContract
  <1>5. CASE Finish
    BY <1>5, ZenonT(60) DEF Finish, BalanceStep
  <1>. QED
    BY <1>2, <1>3, <1>4, <1>5 DEF Next, WasmStep, HostStep, CallStep, Instantiate, WasmBlock,
        WasmTrap, HostFunctionFails, SetStorage, Defer, Log, ReturnValue, Return, Unwind, BalanceStep

\* Contracts pass on what they have: the transfers of a nest of calls create no balance and,
\* unless all balances together exceed a u64, destroy none (transfer_from_contract, and the
\* transfer of an amount in the host function call).
THEOREM NothingCreated == Spec => []BalancesConserved
  <1>1. Init => BalancesConserved
    <2>. SUFFICES ASSUME Init PROVE BalancesConserved
      BY ZenonT(60)
    <2>1. ws \in [Contracts -> U64] /\ balance = ws
      BY DepthAssumption, ZenonT(60) DEF Init
    <2>. QED
      BY <2>1, BalancesSum DEF BalancesConserved
  <1>2. IInv /\ IInv' /\ BalancesConserved /\ [Next]_vars => BalancesConserved'
    <2>. SUFFICES ASSUME IInv, IInv', BalancesConserved, BalanceStep PROVE BalancesConserved'
      BY StepsOfBalances, ZenonT(60) DEF vars, BalanceStep
    <2>1. /\ ws \in [Contracts -> U64] /\ balance \in [Contracts -> U64]
          /\ balance' \in [Contracts -> U64]
      BY ZenonT(60) DEF IInv, TypeOK
    <2>2. SumFunction(ws) \in Nat /\ SumFunction(balance) \in Nat /\ SumFunction(balance') \in Nat
      BY <2>1, BalancesSum, ZenonT(60)
    <2>3. CASE UNCHANGED <<ws, balance>>
      BY <2>3, ZenonT(60) DEF BalancesConserved
    <2>4. CASE ws' = ws /\ balance' = ws
      BY <2>2, <2>4 DEF BalancesConserved
    <2>5. ASSUME ws' = ws, NEW s \in Contracts, NEW r \in Contracts, NEW a \in U64,
                 a <= balance[s], balance' = transfer_from_contract(s, a, r)
          PROVE  BalancesConserved'
      <3>1. /\ SumFunction(balance') <= SumFunction(balance)
            /\ SumFunction(balance) <= MaxU64 => SumFunction(balance') = SumFunction(balance)
        BY <2>1, <2>5, TransferConserves, ZenonT(60)
      <3>. QED
        BY <2>2, <2>5, <3>1, U64Assumption DEF BalancesConserved
    <2>. QED
      BY <2>3, <2>4, <2>5, ZenonT(60) DEF BalanceStep
  <1>. QED
    BY <1>1, <1>2, Inductive, PTL DEF Spec

=============================================================================
