-------------------------- MODULE BudgetGuardProofs --------------------------
(***************************************************************************)
(* BudgetGuard's properties for every set of callers, every budget and     *)
(* every range of bills.                                                   *)
(***************************************************************************)
EXTENDS BudgetGuard, CommonProofs, FiniteSetTheorems

(* How many provider calls are under way. *)
K == Cardinality(Admitted)

(* A caller under way still has the call it is making to finish. *)
UnderWay == \A c \in Callers : pc[c] = "admitted" => asks[c] > 0

(* Once the cap is crossed nobody is admitted any more, so the calls under *)
(* way are all that can still be added: each that ends adds one MaxBill at *)
(* most and leaves one fewer under way.                                    *)
CostInv ==
  budget.max_cost_usd # None =>
    \/ guard.spent <= budget.max_cost_usd
    \/ guard.spent + MaxBill * K <= budget.max_cost_usd + MaxBill * N

(* Counted calls plus those that will be. *)
CallsInv ==
  budget.max_calls # None => guard.calls + K <= budget.max_calls + N - 1

(* Before the latch no unpriced call was made under a cost cap; after it   *)
(* only the calls under way may still turn out to be one.                  *)
UnpricedInv ==
  budget.max_cost_usd # None =>
    IF guard.tripped THEN unpriced + K <= N ELSE unpriced = 0

IInv ==
  /\ GuardTypeOK
  /\ UnderWay
  /\ CostInv
  /\ CallsInv
  /\ UnpricedInv
  /\ BooksBalance
  /\ RaisedRefuses

-----------------------------------------------------------------------------
(* Starting one more call, or ending one, changes K by one. *)
LEMMA CountUnderWay ==
  ASSUME GuardTypeOK, NEW c \in Callers
  PROVE  /\ N \in Nat /\ N >= 1
         /\ K \in Nat /\ K <= N
         /\ pc[c] = "admitted" => K >= 1
         /\ pc[c] = "idle" => K <= N - 1
         /\ (pc[c] = "admitted" /\ pc' = [pc EXCEPT ![c] = "idle"]) => K' = K - 1
         /\ (pc[c] = "idle" /\ pc' = [pc EXCEPT ![c] = "admitted"]) => K' = K + 1
  <1>1. IsFiniteSet(Callers) /\ Admitted \subseteq Callers /\ IsFiniteSet(Admitted)
    BY BudgetGuardAssumption, FS_Subset DEF Admitted
  <1>2. N \in Nat /\ K \in Nat /\ K <= N /\ N # 0
    BY <1>1, BudgetGuardAssumption, FS_Subset, FS_CardinalityType, FS_EmptySet DEF N, K
  <1>3. ASSUME pc[c] = "admitted"
        PROVE  K >= 1
    <2>1. c \in Admitted
      BY <1>3 DEF Admitted
    <2> QED  BY <2>1, <1>1, <1>2, FS_EmptySet DEF K
  <1>4. ASSUME pc[c] = "idle"
        PROVE  K <= N - 1
    <2>1. c \notin Admitted
      BY <1>4 DEF Admitted
    <2>2. Admitted \in SUBSET (Callers \ {c})
      BY <2>1, <1>1
    <2>3. IsFiniteSet(Callers \ {c}) /\ Cardinality(Callers \ {c}) = N - 1
      BY <1>1, FS_RemoveElement DEF N
    <2> QED  BY <2>2, <2>3, FS_Subset DEF K
  <1>5. ASSUME pc[c] = "admitted", pc' = [pc EXCEPT ![c] = "idle"]
        PROVE  K' = K - 1
    <2>1. c \in Admitted /\ Admitted' = Admitted \ {c}
      BY <1>5 DEF Admitted, GuardTypeOK
    <2> QED  BY <2>1, <1>1, FS_RemoveElement DEF K
  <1>6. ASSUME pc[c] = "idle", pc' = [pc EXCEPT ![c] = "admitted"]
        PROVE  K' = K + 1
    <2>1. c \notin Admitted /\ Admitted' = Admitted \cup {c}
      BY <1>6 DEF Admitted, GuardTypeOK
    <2> QED  BY <2>1, <1>1, FS_AddElement DEF K
  <1> QED  BY <1>2, <1>3, <1>4, <1>5, <1>6

(* One call fewer under way frees one MaxBill of headroom. *)
LEMMA Headroom ==
  ASSUME NEW k \in Nat, NEW n \in Nat, k <= n
  PROVE  /\ MaxBill * k <= MaxBill * n
         /\ MaxBill * k \in Nat /\ MaxBill * n \in Nat
         /\ k >= 1 => MaxBill * (k - 1) = MaxBill * k - MaxBill
  BY BudgetGuardAssumption
-----------------------------------------------------------------------------
(* The strengthening holds initially and every step keeps it. *)
LEMMA InitIInv == GuardInit => IInv
  <1> SUFFICES ASSUME GuardInit PROVE IInv
    OBVIOUS
  <1>1. GuardTypeOK /\ UnderWay
    <2>1. NewGuard \in GuardType
      BY DEF NewGuard, GuardType
    <2>2. Attempts \in 0 .. Attempts
      BY BudgetGuardAssumption
    <2>3. pc \in [Callers -> {"idle", "admitted"}] /\ asks \in [Callers -> 0 .. Attempts]
      BY <2>2 DEF GuardInit
    <2>4. UnderWay
      BY DEF GuardInit, UnderWay
    <2> QED  BY <2>1, <2>3, <2>4 DEF GuardInit, GuardTypeOK
  <1>2. N \in Nat /\ N >= 1 /\ K = 0
    <2>1. Admitted = {}
      BY DEF GuardInit, Admitted
    <2>2. N \in Nat /\ N # 0
      BY BudgetGuardAssumption, FS_CardinalityType, FS_EmptySet DEF N
    <2> QED  BY <2>1, <2>2, FS_EmptySet DEF K
  <1>3. budget \in BudgetType
    BY <1>1, BudgetGuardAssumption DEF GuardTypeOK
  <1>4. CostInv /\ CallsInv /\ UnpricedInv
    BY <1>2, <1>3 DEF GuardInit, NewGuard, CostInv, CallsInv, UnpricedInv, BudgetType, Cap
  <1>5. BooksBalance /\ RaisedRefuses
    BY DEF GuardInit, NewGuard, BooksBalance, RaisedRefuses
  <1> QED  BY <1>1, <1>4, <1>5 DEF IInv

LEMMA AdmitIInv ==
  ASSUME IInv, NEW c \in Callers, Admit(c)
  PROVE  IInv'
  <1> USE DEF IInv
  <1>1. /\ K \in Nat /\ N \in Nat /\ K' = K + 1 /\ K <= N - 1
    BY CountUnderWay DEF Admit
  <1>2. budget \in BudgetType /\ guard \in GuardType
    BY BudgetGuardAssumption DEF GuardTypeOK
  <1>3. GuardTypeOK' /\ UnderWay'
    BY DEF Admit, GuardTypeOK, UnderWay
  <1>4. CostInv'
    BY DEF Admit, CostInv, EnsureNotExceeded
  <1>5. CallsInv'
    <2>1. budget.max_calls # None => guard.calls + 1 <= budget.max_calls
      BY <1>2 DEF Admit, EnsureNotExceeded, BudgetType, GuardType, Cap
    <2>2. budget.max_calls # None =>
             /\ budget.max_calls \in Nat /\ guard.calls \in Nat
             /\ guard.calls + (K + 1) <= budget.max_calls + N - 1
      BY <1>1, <1>2, <2>1 DEF BudgetType, GuardType, Cap
    <2> QED  BY <1>1, <2>2 DEF Admit, CallsInv, N
  <1>6. UnpricedInv'
    BY DEF Admit, UnpricedInv, EnsureNotExceeded
  <1>7. BooksBalance' /\ RaisedRefuses'
    BY DEF Admit, BooksBalance, RaisedRefuses
  <1> QED  BY <1>3, <1>4, <1>5, <1>6, <1>7

LEMMA RefuseIInv ==
  ASSUME IInv, NEW c \in Callers, Refuse(c)
  PROVE  IInv'
  <1>1. GuardTypeOK' /\ UnderWay'
    BY BudgetGuardAssumption DEF IInv, Refuse, GuardTypeOK, UnderWay
  <1>2. CostInv' /\ CallsInv' /\ UnpricedInv' /\ BooksBalance' /\ RaisedRefuses'
    BY DEF IInv, Refuse, CostInv, CallsInv, UnpricedInv, BooksBalance,
           RaisedRefuses, K, N, Admitted
  <1> QED  BY <1>1, <1>2 DEF IInv

LEMMA FailsIInv ==
  ASSUME IInv, NEW c \in Callers, ProviderFails(c)
  PROVE  IInv'
  <1> USE DEF IInv
  <1>1. /\ K \in Nat /\ N \in Nat /\ K' = K - 1 /\ K <= N /\ K >= 1
    BY CountUnderWay DEF ProviderFails
  <1>2. /\ budget \in BudgetType /\ guard \in GuardType /\ unpriced \in Nat
        /\ budget' = budget /\ guard' = guard /\ unpriced' = unpriced
    BY BudgetGuardAssumption DEF GuardTypeOK, ProviderFails
  <1>3. GuardTypeOK' /\ UnderWay'
    BY BudgetGuardAssumption DEF ProviderFails, GuardTypeOK, UnderWay
  <1>4. CostInv'
    <2>1. MaxBill * (K - 1) <= MaxBill * K /\ MaxBill * (K - 1) \in Nat
      BY <1>1, Headroom, BudgetGuardAssumption
    <2> DEFINE room == MaxBill * K
               room1 == MaxBill * (K - 1)
               all == MaxBill * N
    <2>2. /\ room \in Nat /\ room1 \in Nat /\ all \in Nat /\ room1 <= room
          /\ budget.max_cost_usd # None => budget.max_cost_usd \in Nat
          /\ guard.spent \in Nat
      BY <1>1, <1>2, <2>1, Headroom DEF BudgetType, GuardType, Cap
    <2>3. budget.max_cost_usd # None =>
             \/ guard.spent <= budget.max_cost_usd
             \/ guard.spent + room <= budget.max_cost_usd + all
      BY DEF CostInv
    <2> HIDE DEF room, room1, all
    <2>4. budget.max_cost_usd # None =>
             \/ guard.spent <= budget.max_cost_usd
             \/ guard.spent + room1 <= budget.max_cost_usd + all
      BY <2>2, <2>3
    <2> QED  BY <1>1, <1>2, <2>4 DEF CostInv, room1, all, N
  <1>5. CallsInv' /\ UnpricedInv'
    BY <1>1, <1>2 DEF CallsInv, UnpricedInv, BudgetType, GuardType, Cap, N
  <1>6. BooksBalance' /\ RaisedRefuses'
    BY DEF ProviderFails, BooksBalance, RaisedRefuses
  <1> QED  BY <1>3, <1>4, <1>5, <1>6

LEMMA RecordIInv ==
  ASSUME IInv, NEW c \in Callers, NEW bill \in Bills, RecordBill(c, bill)
  PROVE  IInv'
  <1> USE DEF IInv
  <1>1. /\ K \in Nat /\ N \in Nat /\ K' = K - 1 /\ K <= N /\ K >= 1 /\ N' = N
    BY CountUnderWay DEF RecordBill, N
  <1>2. /\ budget \in BudgetType /\ guard \in GuardType /\ bill \in BillType
        /\ unpriced \in Nat /\ told \in Nat /\ budget' = budget
        /\ bill.cost \in Nat /\ bill.cost <= MaxBill /\ MaxBill \in Nat
    BY BudgetGuardAssumption, GuardShape DEF GuardTypeOK, RecordBill
  <1>3. /\ guard' = Recorded(budget, guard, bill) /\ guard' \in GuardType
        /\ Unaccountable(budget, bill) =>
             guard' = [spent |-> guard.spent, tokens |-> guard.tokens,
                       calls |-> guard.calls, tripped |-> TRUE]
        /\ ~Unaccountable(budget, bill) =>
             guard' = [spent |-> guard.spent + bill.cost,
                       tokens |-> guard.tokens + bill.tokens,
                       calls |-> guard.calls + 1, tripped |-> guard.tripped]
    BY <1>2, RecordedFields DEF RecordBill
  <1>4. /\ guard.spent \in Nat /\ guard.calls \in Nat
        /\ budget.max_cost_usd # None => budget.max_cost_usd \in Nat
        /\ budget.max_calls # None => budget.max_calls \in Nat
    BY <1>2, GuardShape
  <1>5. GuardTypeOK' /\ UnderWay'
    <2>1. told' \in Nat
      BY <1>2 DEF RecordBill, AttemptedCost
    <2>2. unpriced' \in Nat
      BY <1>2 DEF RecordBill
    <2>3. raised' \in BOOLEAN
      BY DEF RecordBill, RecordReturns, GuardTypeOK
    <2>4. pc' \in [Callers -> {"idle", "admitted"}] /\ budget' \in Budgets
      BY DEF RecordBill, GuardTypeOK
    <2>5. asks' \in [Callers -> 0 .. Attempts]
      BY BudgetGuardAssumption DEF RecordBill, GuardTypeOK, UnderWay
    <2>6. UnderWay'
      BY DEF RecordBill, GuardTypeOK, UnderWay
    <2> QED  BY <1>3, <2>1, <2>2, <2>3, <2>4, <2>5, <2>6 DEF GuardTypeOK
  <1>6. CostInv'
    <2> DEFINE room == MaxBill * K
               room1 == MaxBill * (K - 1)
               all == MaxBill * N
    <2>1. /\ room \in Nat /\ room1 \in Nat /\ all \in Nat
          /\ room1 = room - MaxBill /\ room <= all
      BY <1>1, <1>2, Headroom
    <2>2. budget.max_cost_usd # None =>
             \/ guard.spent <= budget.max_cost_usd
             \/ guard.spent + room <= budget.max_cost_usd + all
      BY DEF CostInv
    <2>3. guard'.spent \in Nat /\ guard'.spent <= guard.spent + bill.cost
      BY <1>2, <1>3, <1>4
    <2> HIDE DEF room, room1, all
    <2>4. budget.max_cost_usd # None =>
             \/ guard'.spent <= budget.max_cost_usd
             \/ guard'.spent + room1 <= budget.max_cost_usd + all
      BY <1>2, <1>4, <2>1, <2>2, <2>3
    <2> QED  BY <1>1, <1>2, <2>4 DEF CostInv, room1, all
  <1>7. CallsInv'
    <2>1. guard'.calls \in Nat /\ guard'.calls <= guard.calls + 1
      BY <1>3, <1>4
    <2>2. budget.max_calls # None => guard.calls + K <= budget.max_calls + N - 1
      BY DEF CallsInv
    <2>3. budget.max_calls # None => guard'.calls + (K - 1) <= budget.max_calls + N - 1
      BY <1>1, <1>4, <2>1, <2>2
    <2> QED  BY <1>1, <1>2, <2>3 DEF CallsInv
  <1>8. UnpricedInv'
    <2>1. CASE Unaccountable(budget, bill)
      <3>1. guard'.tripped /\ unpriced' = unpriced + 1
        BY <1>3, <2>1 DEF RecordBill
      <3>2. unpriced + K <= N
        BY <1>1, <1>2, <2>1 DEF UnpricedInv, Unaccountable
      <3> QED  BY <1>1, <1>2, <3>1, <3>2 DEF UnpricedInv
    <2>2. CASE ~Unaccountable(budget, bill)
      <3>1. guard'.tripped = guard.tripped /\ unpriced' = unpriced
        BY <1>2, <1>3, <2>2 DEF RecordBill
      <3> QED  BY <1>1, <1>2, <3>1 DEF UnpricedInv
    <2> QED  BY <2>1, <2>2
  <1>9. BooksBalance'
    <2>1. CASE Unaccountable(budget, bill)
      BY <1>2, <1>3, <2>1 DEF RecordBill, BooksBalance, RecordReturns, AttemptedCost
    <2>2. CASE ~Unaccountable(budget, bill)
      BY <1>2, <1>3, <2>2 DEF RecordBill, BooksBalance, AttemptedCost
    <2> QED  BY <2>1, <2>2
  <1>10. RaisedRefuses'
    BY <1>2, <1>3, RecordCloses DEF RecordBill, RaisedRefuses
  <1> QED  BY <1>5, <1>6, <1>7, <1>8, <1>9, <1>10

LEMMA StutterIInv ==
  ASSUME IInv, UNCHANGED guard_vars
  PROVE  IInv'
  BY DEF IInv, guard_vars, GuardTypeOK, UnderWay, CostInv, CallsInv, UnpricedInv,
         BooksBalance, RaisedRefuses, K, N, Admitted

LEMMA NextIInv == IInv /\ [GuardNext]_guard_vars => IInv'
  <1> SUFFICES ASSUME IInv, [GuardNext]_guard_vars PROVE IInv'
    OBVIOUS
  <1>1. CASE \E c \in Callers : Caller(c)
    <2> PICK c \in Callers : Caller(c)
      BY <1>1
    <2> QED  BY AdmitIInv, RefuseIInv, RecordIInv, FailsIInv DEF Caller
  <1>2. CASE UNCHANGED guard_vars
    BY <1>2, StutterIInv
  <1> QED  BY <1>1, <1>2 DEF GuardNext

LEMMA Inductive == GuardSpec => []IInv
  BY InitIInv, NextIInv, PTL DEF GuardSpec

-----------------------------------------------------------------------------
(* The variables of a shared guard and of its callers keep their types,    *)
(* whatever the budget and the bills.                                      *)
THEOREM Typing == GuardSpec => []GuardTypeOK
  <1>1. IInv => GuardTypeOK
    BY DEF IInv
  <1> QED  BY <1>1, Inductive, PTL

(* The spending of a capped command never exceeds its cost cap by more     *)
(* than one call per caller, and it makes at most one call per caller to a *)
(* model that has no price.                                                *)
THEOREM CostOvershoot == GuardSpec => []CostOvershootBounded
  <1>1. IInv => CostOvershootBounded
    <2> SUFFICES ASSUME IInv, budget.max_cost_usd # None
                 PROVE  /\ guard.spent <= budget.max_cost_usd + MaxBill * N
                        /\ unpriced <= N
      BY DEF CostOvershootBounded
    <2>1. /\ budget.max_cost_usd \in Nat /\ guard.spent \in Nat
          /\ MaxBill \in Nat
      BY BudgetGuardAssumption DEF IInv, GuardTypeOK, BudgetType, GuardType, Cap
    <2>2. N \in Nat /\ K \in Nat /\ K <= N
      <3> PICK c \in Callers : TRUE
        BY BudgetGuardAssumption
      <3> QED  BY CountUnderWay DEF IInv
    <2>3. MaxBill * N \in Nat /\ MaxBill * K \in Nat
      BY <2>1, <2>2, Headroom
    <2> DEFINE room == MaxBill * K
               all == MaxBill * N
    <2>4. guard.spent <= budget.max_cost_usd \/ guard.spent + room <= budget.max_cost_usd + all
      BY DEF IInv, CostInv
    <2> HIDE DEF room, all
    <2>5. room \in Nat /\ all \in Nat
      BY <2>3 DEF room, all
    <2>6. guard.spent <= budget.max_cost_usd + all
      BY <2>1, <2>4, <2>5
    <2>7. unpriced <= N
      <3>1. unpriced \in Nat
        BY DEF IInv, GuardTypeOK
      <3> QED  BY <2>2, <3>1 DEF IInv, UnpricedInv
    <2> QED  BY <2>6, <2>7 DEF all
  <1> QED  BY <1>1, Inductive, PTL

(* The counted calls never exceed max_calls by more than the callers that  *)
(* can be between the check and the record, less the one that closes it.   *)
THEOREM CallCap == GuardSpec => []CallsBounded
  <1>1. IInv => CallsBounded
    <2> SUFFICES ASSUME IInv, budget.max_calls # None
                 PROVE  guard.calls <= budget.max_calls + N - 1
      BY DEF CallsBounded
    <2>1. budget.max_calls \in Nat /\ guard.calls \in Nat
      BY BudgetGuardAssumption DEF IInv, GuardTypeOK, BudgetType, GuardType, Cap
    <2>2. N \in Nat /\ K \in Nat
      <3> PICK c \in Callers : TRUE
        BY BudgetGuardAssumption
      <3> QED  BY CountUnderWay DEF IInv
    <2> QED  BY <2>1, <2>2 DEF IInv, CallsInv
  <1> QED  BY <1>1, Inductive, PTL

(* What the callers were told they spent is what the guard counted.        *)
THEOREM Books == GuardSpec => []BooksBalance
  <1>1. IInv => BooksBalance
    BY DEF IInv
  <1> QED  BY <1>1, Inductive, PTL

(* A refusal by record refuses every later admission.                      *)
THEOREM Sticky == GuardSpec => []RaisedRefuses
  <1>1. IInv => RaisedRefuses
    BY DEF IInv
  <1> QED  BY <1>1, Inductive, PTL

(* The guard implements the admission gate: initial states map to initial  *)
(* states, every step of a caller to a step of the gate or a stutter.      *)
THEOREM Refinement == GuardSpec => ImplementsGate
  <1>1. GuardInit => Gate!Init
    BY DEF GuardInit, Gate!Init, Admitted, EnsureNotExceeded
  <1>2. IInv /\ [GuardNext]_guard_vars => [Gate!Next]_(Gate!vars)
    <2> SUFFICES ASSUME IInv, [GuardNext]_guard_vars PROVE [Gate!Next]_(Gate!vars)
      OBVIOUS
    <2> USE DEF Gate!vars
    <2>1. ASSUME NEW c \in Callers, Admit(c)
          PROVE  Gate!Enter(c)
      BY <2>1 DEF Admit, Gate!Enter, Admitted, IInv, GuardTypeOK
    <2>2. ASSUME NEW c \in Callers, Refuse(c)
          PROVE  UNCHANGED Gate!vars
      BY <2>2 DEF Refuse, Admitted
    <2>3. ASSUME NEW c \in Callers, NEW bill \in Bills, RecordBill(c, bill)
          PROVE  Gate!Leave(c)
      <3>1. budget \in BudgetType /\ guard \in GuardType /\ bill \in BillType
        BY BudgetGuardAssumption DEF IInv, GuardTypeOK
      <3>2. EnsureNotExceeded(budget, guard)' => EnsureNotExceeded(budget, guard)
        BY <2>3, <3>1, RecordCloses DEF RecordBill
      <3>3. EnsureNotExceeded(budget, guard)' \in {EnsureNotExceeded(budget, guard), FALSE}
        BY <3>2 DEF EnsureNotExceeded
      <3>4. c \in Admitted /\ Admitted' = Admitted \ {c}
        BY <2>3 DEF RecordBill, Admitted, IInv, GuardTypeOK
      <3> QED  BY <3>3, <3>4 DEF Gate!Leave
    <2>4. ASSUME NEW c \in Callers, ProviderFails(c)
          PROVE  Gate!Leave(c)
      BY <2>4 DEF ProviderFails, Gate!Leave, Admitted, IInv, GuardTypeOK
    <2>5. CASE UNCHANGED guard_vars
      BY <2>5 DEF guard_vars, Admitted
    <2> QED  BY <2>1, <2>2, <2>3, <2>4, <2>5 DEF GuardNext, Caller, Gate!Next
  <1> QED  BY <1>1, <1>2, Inductive, PTL DEF GuardSpec, ImplementsGate, Gate!Spec
=============================================================================
