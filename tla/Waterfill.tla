------------------------------ MODULE Waterfill ------------------------------
(***************************************************************************)
(* The bounded weighted water-filling of the receiver's scheduler, in the  *)
(* order the code computes it: waterfill and Scheduler._fill (rx_agent.py) *)
(* for the grants, waterfill_ceilings (fastfill.py) and its cascade for    *)
(* the ceilings. Three layers: the link among destination VMs, a VM among  *)
(* its classes, a class among its flow-sets.                               *)
(*                                                                         *)
(* Rates are integers and a quotient is rounded down. The caps of a layer  *)
(* are levels of the grid where LevelUnit is a multiple of the weights,    *)
(* and an instance is exact when its rates divide by the weights that can  *)
(* meet at each layer. The C library computes the same two results and is  *)
(* not told apart.                                                         *)
(***************************************************************************)
EXTENDS Integers, FiniteSetsExt

CONSTANTS
  DstOf, ClsOf, \* destination VM and class of every flow-set
  Unlimited,    \* infinity: more than any rate
  LevelUnit     \* water levels are multiples of 1 / LevelUnit

ASSUME WaterfillAssumption == Unlimited \in Nat /\ LevelUnit \in Nat \ {0}

Smaller(a, b) == IF a <= b THEN a ELSE b
Larger(a, b) == IF a >= b THEN a ELSE b

------------------------------------------------------------------------------
(* One layer: items with weights w and caps cap *)

\* Mutant: the shares of saturated items are not released to the others.
FillKeeping(capacity, w, cap) ==
  [k \in DOMAIN cap |-> Smaller(cap[k], (capacity * w[k]) \div SumFunction(w))]

\* The level rises until the cheapest caps saturate, which releases the rest to
\* the items still active, or the money runs out.
Fill(capacity, w, cap) ==
  LET rise[active \in SUBSET DOMAIN cap] ==
        LET left == capacity - SumFunctionOnSet(cap, DOMAIN cap \ active)
            weight == SumFunctionOnSet(w, active)
            cheapest == {k \in active : \A j \in active : cap[k] * w[j] <= cap[j] * w[k]}
        IN IF \E k \in cheapest : cap[k] * weight <= left * w[k]
             THEN rise[active \ cheapest]
             ELSE [k \in DOMAIN cap |-> IF k \in active THEN (left * w[k]) \div weight
                                                        ELSE cap[k]]
  IN rise[{k \in DOMAIN cap : cap[k] > 0}]

\* What an item takes of n units of 1 / LevelUnit when its cap is r.
Capped(r, n) == IF r = Unlimited THEN n ELSE Smaller(r * LevelUnit, n)

\* Consumption at a level, all caps in force, in units of 1 / LevelUnit.
Consumed(level, w, cap) ==
  LET full == {k \in DOMAIN cap : cap[k] * LevelUnit <= w[k] * level}
  IN SumFunctionOnSet(cap, full) * LevelUnit + SumFunctionOnSet(w, DOMAIN cap \ full) * level

\* Mutant: the consumption of the item's own cap is not taken out.
LevelWithOwn(k, capacity, w, cap, repl) ==
  LET g(t) == Consumed(t, w, cap) + Capped(repl, w[k] * t)
      grid == {(cap[i] * LevelUnit) \div w[i] : i \in DOMAIN cap}
      past == {t \in grid : g(t) >= capacity * LevelUnit}
  IN IF past # {} THEN Min(past) ELSE Max(grid)

\* The level at which the capacity is spent when the cap of k is repl: a segment
\* of the grid of caps, and on it a straight line.
LevelFor(k, capacity, w, cap, repl) ==
  LET g(t) == Consumed(t, w, cap) - Smaller(cap[k] * LevelUnit, w[k] * t)
                                  + Capped(repl, w[k] * t)
      grid == {(cap[i] * LevelUnit) \div w[i] : i \in DOMAIN cap}
                \cup (IF repl = Unlimited THEN {} ELSE {(repl * LevelUnit) \div w[k]})
      past == {t \in grid : g(t) >= capacity * LevelUnit}
      high == Min(past)
      low == Max({0} \cup {t \in grid : past = {} \/ t < high})
      money == capacity * LevelUnit - g(low)
  IN IF past = {}
       THEN low + (IF repl = Unlimited THEN money \div w[k] ELSE 0)
       ELSE IF high > low /\ g(high) > g(low)
              THEN low + (money * (high - low)) \div (g(high) - g(low))
              ELSE low

\* What each item would get if its own cap were repl and the others kept theirs.
Ceilings(capacity, w, cap, repl) ==
  [k \in DOMAIN cap |->
     Capped(repl[k], w[k] * LevelFor(k, capacity, w, cap, repl[k])) \div LevelUnit]

------------------------------------------------------------------------------
(* Three layers: a policy gives every VM a weight, a MaxRate and the weights *)
(* of its classes, and every flow-set its weight in its class                *)

VmsOf(want) == {DstOf[f] : f \in DOMAIN want}
ClassesOf(want, vm) == {ClsOf[f] : f \in {g \in DOMAIN want : DstOf[g] = vm}}
InClass(want, vm, cls) == {f \in DOMAIN want : DstOf[f] = vm /\ ClsOf[f] = cls}
VmDemand(want, vm) == SumFunctionOnSet(want, {f \in DOMAIN want : DstOf[f] = vm})

VmWeights(pol, want) == [vm \in VmsOf(want) |-> pol.weight[vm]]
ClassWeights(pol, want, vm) ==
  [c \in ClassesOf(want, vm) |-> pol.clsWeight[vm][c]]
LeafWeights(pol, want, vm, cls) ==
  [f \in InClass(want, vm, cls) |-> pol.fsWeight[f]]

\* Mutant: the MaxRate of the VM is forgotten.
UncappedVms(pol, want) == [vm \in VmsOf(want) |-> VmDemand(want, vm)]

VmCaps(pol, want) ==
  [vm \in VmsOf(want) |-> Smaller(pol.maxRate[vm], VmDemand(want, vm))]
ClassCaps(want, vm) ==
  [c \in ClassesOf(want, vm) |-> SumFunctionOnSet(want, InClass(want, vm, c))]
LeafCaps(want, vm, cls) == [f \in InClass(want, vm, cls) |-> want[f]]

\* _fill: the grant e of every flow-set, capped by its demand.
Grants(root, pol, want) ==
  LET vms == Fill(root, VmWeights(pol, want), VmCaps(pol, want))
      classes == [vm \in VmsOf(want) |->
                    Fill(vms[vm], ClassWeights(pol, want, vm), ClassCaps(want, vm))]
      leaves == [vm \in VmsOf(want) |-> [c \in ClassesOf(want, vm) |->
                   Fill(classes[vm][c], LeafWeights(pol, want, vm, c),
                        LeafCaps(want, vm, c))]]
  IN [f \in DOMAIN want |-> leaves[DstOf[f]][ClsOf[f]][f]]

\* _entitlements_py: the ceiling of every flow-set, its own demand infinite at
\* every layer, which leaves its VM capped by MaxRate.
FairCeilings(root, pol, want) ==
  LET unbounded(S) == [x \in S |-> Unlimited]
      vms == Ceilings(root, VmWeights(pol, want), VmCaps(pol, want),
                      [vm \in VmsOf(want) |-> pol.maxRate[vm]])
      classes == [vm \in VmsOf(want) |->
                    Ceilings(vms[vm], ClassWeights(pol, want, vm),
                             ClassCaps(want, vm), unbounded(ClassesOf(want, vm)))]
      leaves == [vm \in VmsOf(want) |-> [c \in ClassesOf(want, vm) |->
                   Ceilings(classes[vm][c], LeafWeights(pol, want, vm, c),
                            LeafCaps(want, vm, c),
                            unbounded(InClass(want, vm, c)))]]
  IN [f \in DOMAIN want |-> leaves[DstOf[f]][ClsOf[f]][f]]

==============================================================================
