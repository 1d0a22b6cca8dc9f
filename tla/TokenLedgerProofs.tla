------------------------- MODULE TokenLedgerProofs -------------------------
(***************************************************************************)
(* Conservation of the abstract token ledger, for every set of accounts    *)
(* and every width of the amounts.                                         *)
(***************************************************************************)
EXTENDS TokenLedger, FiniteSetTheorems, TLAPS

-----------------------------------------------------------------------------
(* How Total and Holders change when one or two balances change *)

\* Balances up to M own units up to number M.
LEMMA UnitsAre ==
    ASSUME NEW A, NEW M \in Nat, NEW bal \in [A -> 0 .. M]
    PROVE  \A u : u \in Units(bal) <=> u \in A \X (1 .. M) /\ u[2] <= bal[u[1]]
<1>1. DOMAIN bal = A /\ \A a \in A : bal[a] \in 0 .. M
  OBVIOUS
<1>2. ASSUME NEW u \in Units(bal)
      PROVE  u \in A \X (1 .. M) /\ u[2] <= bal[u[1]]
  <2>1. PICK a \in A : u \in {a} \X (1 .. bal[a])
    BY <1>1, <1>2 DEF Units
  <2> QED
    BY <1>1, <2>1
<1>3. ASSUME NEW u \in A \X (1 .. M), u[2] <= bal[u[1]]
      PROVE  u \in Units(bal)
  <2>1. u[1] \in A /\ u[2] \in 1 .. M /\ u = <<u[1], u[2]>>
    OBVIOUS
  <2>2. u \in {u[1]} \X (1 .. bal[u[1]])
    BY <1>1, <1>3, <2>1
  <2> QED
    BY <1>1, <2>1, <2>2 DEF Units
<1> QED
  BY <1>2, <1>3

\* A finite table of balances has finitely many units; Total is a natural number.
LEMMA UnitsFinite ==
    ASSUME NEW A, IsFiniteSet(A), NEW M \in Nat, NEW bal \in [A -> 0 .. M]
    PROVE  /\ IsFiniteSet(Units(bal))
           /\ Total(bal) \in Nat
<1>1. IsFiniteSet(1 .. M)
  BY FS_Interval
<1>2. IsFiniteSet(A \X (1 .. M))
  BY <1>1, FS_Product
<1>3. Units(bal) \subseteq A \X (1 .. M)
  BY UnitsAre
<1>4. IsFiniteSet(Units(bal))
  BY <1>2, <1>3, FS_Subset
<1> QED
  BY <1>4, FS_CardinalityType DEF Total

\* A table in which nobody owns anything totals zero.
LEMMA TotalZero ==
    ASSUME NEW A
    PROVE  Total([a \in A |-> 0]) = 0
<1>1. Units([a \in A |-> 0]) = {}
  BY DEF Units
<1> QED
  BY <1>1, FS_EmptySet DEF Total

(***************************************************************************)
(* If `new` gives one holder n units more than `bal`, and everybody else   *)
(* the same, its total is n larger.  (Read from `new` to `bal` this is     *)
(* also the lemma about a debit.)                                          *)
(***************************************************************************)
LEMMA TotalCredit ==
    ASSUME NEW A, IsFiniteSet(A), NEW M \in Nat,
           NEW bal \in [A -> 0 .. M], NEW new \in [A -> 0 .. M],
           NEW a \in A, NEW n \in Nat,
           new[a] = bal[a] + n,
           \A b \in A : b # a => new[b] = bal[b]
    PROVE  Total(new) = Total(bal) + n
<1>old. \A u : u \in Units(bal) <=> u \in A \X (1 .. M) /\ u[2] <= bal[u[1]]
  BY UnitsAre
<1>more. \A u : u \in Units(new) <=> u \in A \X (1 .. M) /\ u[2] <= new[u[1]]
  BY UnitsAre
<1> DEFINE lo == bal[a] + 1
           hi == bal[a] + n
           added == {a} \X (lo .. hi)
<1>1. /\ bal[a] \in Nat /\ new[a] \in Nat /\ new[a] <= M
      /\ DOMAIN bal = A /\ DOMAIN new = A
      /\ \A b \in A : bal[b] \in 0 .. M
  OBVIOUS
<1>2. Units(new) = Units(bal) \cup added
  <2>1. ASSUME NEW u \in A \X (1 .. M)
        PROVE  u[2] <= new[u[1]] <=> (u[2] <= bal[u[1]] \/ u \in added)
    BY <1>1, SMT
  <2>2. added \subseteq A \X (1 .. M)
    BY <1>1, SMT
  <2> HIDE DEF added
  <2> QED
    BY <2>1, <2>2, <1>old, <1>more
<1>3. Units(bal) \cap added = {}
  BY <1>1, <1>old, SMT
<1>4. IsFiniteSet(added) /\ Cardinality(added) = n
  <2>1. lo \in Int /\ hi \in Int /\ hi - lo + 1 = n /\ (lo > hi => n = 0)
    BY <1>1, SMT
  <2> HIDE DEF lo, hi
  <2>2. /\ IsFiniteSet(lo .. hi)
        /\ Cardinality(lo .. hi) = IF lo > hi THEN 0 ELSE hi - lo + 1
    BY <2>1, FS_Interval
  <2>3. Cardinality(lo .. hi) = n
    BY <2>1, <2>2
  <2>4. IsFiniteSet({a}) /\ Cardinality({a}) = 1
    BY FS_Singleton
  <2>5. /\ IsFiniteSet({a} \X (lo .. hi))
        /\ Cardinality({a} \X (lo .. hi)) = 1 * n
    <3> DEFINE one == {a}
               range == lo .. hi
    <3>1. /\ IsFiniteSet(one) /\ IsFiniteSet(range)
          /\ Cardinality(one) = 1 /\ Cardinality(range) = n
      BY <2>2, <2>3, <2>4
    <3> HIDE DEF one, range
    <3>2. /\ IsFiniteSet(one \X range)
          /\ Cardinality(one \X range) = Cardinality(one) * Cardinality(range)
      BY <3>1, FS_Product, Zenon
    <3> QED
      BY <3>1, <3>2 DEF one, range
  <2> QED
    BY <2>5
<1>5. IsFiniteSet(Units(bal)) /\ Cardinality(Units(bal)) \in Nat
  BY UnitsFinite DEF Total
<1>6. Cardinality(Units(bal) \cup added) = Cardinality(Units(bal)) + n
  <2> HIDE DEF added
  <2>1. Cardinality(Units(bal) \cup added) =
            Cardinality(Units(bal)) + n - Cardinality(Units(bal) \cap added)
    BY <1>4, <1>5, FS_Union
  <2>2. Cardinality(Units(bal) \cap added) = 0
    BY <1>3, FS_EmptySet
  <2> QED
    BY <2>1, <2>2, <1>5
<1> QED
  BY <1>2, <1>6 DEF Total

\* One more holder adds what it owns.
LEMMA TotalExtend ==
    ASSUME NEW A, IsFiniteSet(A), NEW M \in Nat, NEW x, x \notin A,
           NEW bal \in [A -> 0 .. M], NEW new \in [A \cup {x} -> 0 .. M],
           \A a \in A : new[a] = bal[a]
    PROVE  Total(new) = Total(bal) + new[x]
<1> DEFINE mid == [a \in A \cup {x} |-> IF a = x THEN 0 ELSE bal[a]]
<1>1. mid \in [A \cup {x} -> 0 .. M]
  OBVIOUS
<1>2. Units(mid) = Units(bal)
  <2>1. \A u : u \in Units(mid) <=> u \in (A \cup {x}) \X (1 .. M) /\ u[2] <= mid[u[1]]
    <3> HIDE DEF mid
    <3> QED
      BY <1>1, UnitsAre
  <2>2. \A u : u \in Units(bal) <=> u \in A \X (1 .. M) /\ u[2] <= bal[u[1]]
    BY UnitsAre
  <2>3. ASSUME NEW u \in (A \cup {x}) \X (1 .. M)
        PROVE  u[2] <= mid[u[1]] <=> (u \in A \X (1 .. M) /\ u[2] <= bal[u[1]])
    OBVIOUS
  <2>4. A \X (1 .. M) \subseteq (A \cup {x}) \X (1 .. M)
    OBVIOUS
  <2> HIDE DEF mid
  <2> QED
    BY <2>1, <2>2, <2>3, <2>4
<1>3. /\ new[x] = mid[x] + new[x] /\ new[x] \in Nat
      /\ \A b \in A \cup {x} : b # x => new[b] = mid[b]
  OBVIOUS
<1>4. IsFiniteSet(A \cup {x})
  BY FS_AddElement
<1> HIDE DEF mid
<1>5. Total(new) = Total(mid) + new[x]
  BY <1>1, <1>3, <1>4, TotalCredit
<1> QED
  BY <1>2, <1>5 DEF Total

\* Moving n from one holder to another leaves the total alone.
LEMMA TotalMove ==
    ASSUME NEW A, IsFiniteSet(A), NEW M \in Nat,
           NEW bal \in [A -> 0 .. M], NEW new \in [A -> 0 .. M],
           NEW a \in A, NEW b \in A, a # b, NEW n \in Nat,
           bal[a] = new[a] + n, new[b] = bal[b] + n,
           \A c \in A : c # a /\ c # b => new[c] = bal[c]
    PROVE  Total(new) = Total(bal)
<1> DEFINE mid == [bal EXCEPT ![a] = new[a]]
<1>1. mid \in [A -> 0 .. M]
  OBVIOUS
<1>2. /\ bal[a] = mid[a] + n
      /\ \A c \in A : c # a => bal[c] = mid[c]
  OBVIOUS
<1>3. /\ new[b] = mid[b] + n
      /\ \A c \in A : c # b => new[c] = mid[c]
  OBVIOUS
<1> HIDE DEF mid
<1>4. Total(bal) = Total(mid) + n
  BY <1>1, <1>2, TotalCredit
<1>5. Total(new) = Total(mid) + n
  BY <1>1, <1>3, TotalCredit
<1> QED
  BY <1>4, <1>5

\* One balance, and two different balances together, are part of the total.
LEMMA TotalBounds ==
    ASSUME NEW A, IsFiniteSet(A), NEW M \in Nat, NEW bal \in [A -> 0 .. M],
           NEW a \in A
    PROVE  /\ bal[a] <= Total(bal)
           /\ \A b \in A : a # b => bal[a] + bal[b] <= Total(bal)
<1> DEFINE mid == [bal EXCEPT ![a] = 0]
<1>1. mid \in [A -> 0 .. M]
  OBVIOUS
<1>2. /\ bal[a] = mid[a] + bal[a]
      /\ \A c \in A : c # a => bal[c] = mid[c]
      /\ bal[a] \in Nat
  OBVIOUS
<1> HIDE DEF mid
<1>3. Total(bal) = Total(mid) + bal[a]
  BY <1>1, <1>2, TotalCredit
<1>4. Total(mid) \in Nat
  BY <1>1, UnitsFinite
<1>5. ASSUME NEW b \in A, a # b
      PROVE  bal[b] <= Total(mid)
  <2> DEFINE low == [mid EXCEPT ![b] = 0]
  <2>1. low \in [A -> 0 .. M]
    BY <1>1
  <2>2. PICK n \in Nat : n = mid[b]
    BY <1>1
  <2>3. /\ mid[b] = low[b] + n
        /\ \A c \in A : c # b => mid[c] = low[c]
    BY <1>1, <2>2
  <2> HIDE DEF low
  <2>4. Total(mid) = Total(low) + n
    BY <1>1, <2>1, <2>3, TotalCredit
  <2>5. Total(low) \in Nat
    BY <2>1, UnitsFinite
  <2> QED
    BY <1>2, <1>5, <2>2, <2>4, <2>5
<1> QED
  BY <1>2, <1>3, <1>4, <1>5

\* The holders are finitely many.
LEMMA HoldersFinite ==
    ASSUME NEW A, IsFiniteSet(A), NEW M \in Nat, NEW bal \in [A -> 0 .. M]
    PROVE  /\ IsFiniteSet(Holders(bal))
           /\ Cardinality(Holders(bal)) \in Nat
<1>1. Holders(bal) \subseteq A
  BY DEF Holders
<1> QED
  BY <1>1, FS_Subset, FS_CardinalityType

\* When one account starts to own something, there is one holder more.  (Read
\* from `new` to `bal` it is the lemma about an account emptied.)
LEMMA HoldersGain ==
    ASSUME NEW A, IsFiniteSet(A), NEW M \in Nat,
           NEW bal \in [A -> 0 .. M], NEW new \in [A -> 0 .. M],
           NEW b \in A, bal[b] = 0, new[b] > 0,
           \A c \in A : c # b => (new[c] > 0 <=> bal[c] > 0)
    PROVE  Cardinality(Holders(new)) = Cardinality(Holders(bal)) + 1
<1>1. Holders(new) = Holders(bal) \cup {b} /\ b \notin Holders(bal)
  BY DEF Holders
<1>2. IsFiniteSet(Holders(bal))
  BY HoldersFinite
<1> DEFINE H == Holders(bal)
<1> HIDE DEF H
<1>3. Cardinality(H \cup {b}) = IF b \in H THEN Cardinality(H) ELSE Cardinality(H) + 1
  BY <1>2, FS_AddElement, Zenon DEF H
<1> QED
  BY <1>1, <1>3 DEF H

-----------------------------------------------------------------------------
(* The ledger *)

\* The inductive invariant.  A transfer's credit stays representable only
\* because the supply is the sum of the balances, so the type needs
\* Conservation.
LedgerInv == LedgerTypeOK /\ Conservation

LEMMA LedgerInvInit == LedgerInit => LedgerInv
<1> SUFFICES ASSUME LedgerInit PROVE LedgerInv
  OBVIOUS
<1>1. LedgerTypeOK
  BY IMaxAssumption DEF LedgerInit, LedgerTypeOK, Amount
<1>2. Total(balance) = 0
  BY TotalZero, IMaxAssumption DEF LedgerInit
<1> QED
  BY <1>1, <1>2 DEF LedgerInit, LedgerInv, Conservation

LEMMA LedgerInvCreditFits == LedgerInv => CreditFits
<1> SUFFICES ASSUME LedgerInv, NEW a \in Accounts, NEW b \in Accounts, a # b
             PROVE  balance[a] + balance[b] <= totalSupply
  BY DEF CreditFits
<1>1. IMax \in Nat /\ balance \in [Accounts -> 0 .. IMax]
  BY IMaxAssumption DEF LedgerInv, LedgerTypeOK, Amount
<1>2. balance[a] + balance[b] <= Total(balance)
  BY <1>1, TotalBounds, AccountsAssumption
<1> QED
  BY <1>2 DEF LedgerInv, Conservation

LEMMA LedgerInvStep == LedgerInv /\ [LedgerNext]_ledgerVars => LedgerInv'
<1> SUFFICES ASSUME LedgerInv, [LedgerNext]_ledgerVars
             PROVE  LedgerInv'
  OBVIOUS
<1> USE AccountsAssumption, IMaxAssumption
<1>1. /\ IMax \in Nat
      /\ balance \in [Accounts -> 0 .. IMax] /\ totalSupply \in 0 .. IMax
      /\ totalSupply = Total(balance)
  BY DEF LedgerInv, LedgerTypeOK, Conservation, Amount
<1>2. ASSUME NEW a \in Accounts, NEW n \in Amount \ {0}, Create(a, n)
      PROVE  LedgerInv'
  <2>1. /\ balance' = [balance EXCEPT ![a] = balance[a] + n]
        /\ totalSupply' = totalSupply + n /\ totalSupply' \in 0 .. IMax
        /\ n \in Nat
    BY <1>2 DEF Create, Amount
  <2>2. balance[a] <= totalSupply
    BY <1>1, TotalBounds
  <2>3. balance' \in [Accounts -> 0 .. IMax]
    BY <1>1, <2>1, <2>2
  <2>4. /\ balance'[a] = balance[a] + n
        /\ \A b \in Accounts : b # a => balance'[b] = balance[b]
    BY <1>1, <2>1
  <2>5. Total(balance') = Total(balance) + n
    <3>1. n \in Nat
      BY <2>1
    <3> QED
      BY <1>1, <2>3, <2>4, <3>1, TotalCredit
  <2> QED
    BY <1>1, <2>1, <2>3, <2>5 DEF LedgerInv, LedgerTypeOK, Conservation, Amount
<1>3. ASSUME NEW a \in Accounts, NEW n \in Amount \ {0}, Destroy(a, n)
      PROVE  LedgerInv'
  <2>1. /\ balance' = [balance EXCEPT ![a] = balance[a] - n]
        /\ totalSupply' = totalSupply - n
        /\ n \in Nat /\ n <= balance[a]
    BY <1>3, <1>1 DEF Destroy, Amount
  <2>2. balance[a] <= totalSupply
    BY <1>1, TotalBounds
  <2>3. balance' \in [Accounts -> 0 .. IMax]
    BY <1>1, <2>1
  <2>4. /\ balance[a] = balance'[a] + n
        /\ \A b \in Accounts : b # a => balance[b] = balance'[b]
    BY <1>1, <2>1
  <2>5. Total(balance) = Total(balance') + n
    <3>1. n \in Nat
      BY <2>1
    <3> QED
      BY <1>1, <2>3, <2>4, <3>1, TotalCredit
  <2>6. Total(balance') \in Nat
    BY <1>1, <2>3, UnitsFinite
  <2> QED
    BY <1>1, <2>1, <2>2, <2>3, <2>5, <2>6
       DEF LedgerInv, LedgerTypeOK, Conservation, Amount
<1>4. ASSUME NEW a \in Accounts, NEW b \in Accounts, NEW n \in Amount \ {0},
             Pass(a, b, n)
      PROVE  LedgerInv'
  <2>1. /\ a # b
        /\ balance' = [balance EXCEPT ![a] = balance[a] - n,
                                      ![b] = balance[b] + n]
        /\ totalSupply' = totalSupply
        /\ n \in Nat /\ n <= balance[a]
    BY <1>4, <1>1 DEF Pass, Amount
  <2>2. balance[a] + balance[b] <= totalSupply
    BY <2>1, LedgerInvCreditFits DEF CreditFits
  <2>3. balance' \in [Accounts -> 0 .. IMax]
    BY <1>1, <2>1, <2>2
  <2>4. /\ balance[a] = balance'[a] + n
        /\ balance'[b] = balance[b] + n
        /\ \A c \in Accounts : c # a /\ c # b => balance'[c] = balance[c]
    BY <1>1, <2>1
  <2>5. Total(balance') = Total(balance)
    <3>1. n \in Nat /\ a # b
      BY <2>1
    <3> QED
      BY <1>1, <2>3, <2>4, <3>1, TotalMove
  <2> QED
    BY <1>1, <2>1, <2>3, <2>5 DEF LedgerInv, LedgerTypeOK, Conservation, Amount
<1>5. CASE UNCHANGED ledgerVars
  BY <1>5 DEF ledgerVars, LedgerInv, LedgerTypeOK, Conservation
<1> QED
  BY <1>2, <1>3, <1>4, <1>5 DEF LedgerNext

(***************************************************************************)
(* In every behaviour of a token's books the supply is the sum of the      *)
(* balances, and no two holders own more than the supply: what             *)
(* checked_add, checked_sub and the balance tests of the contracts rely    *)
(* on.                                                                     *)
(***************************************************************************)
THEOREM LedgerConserves == LedgerSpec => [](LedgerTypeOK /\ Conservation /\ CreditFits)
<1>1. LedgerInv => LedgerTypeOK /\ Conservation /\ CreditFits
  BY LedgerInvCreditFits DEF LedgerInv
<1> QED
  BY <1>1, LedgerInvInit, LedgerInvStep, PTL DEF LedgerSpec
=============================================================================
