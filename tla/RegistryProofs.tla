---------------------------- MODULE RegistryProofs ----------------------------
(***************************************************************************)
(* The directory, for any assets, any counter width and page size: it is a *)
(* bijection, a walk of it in pages misses and repeats nothing and gets    *)
(* nearer to its end with every page, and the admin role is handed over as *)
(* AdminHandover says.                                                     *)
(***************************************************************************)
EXTENDS Registry, TLAPS

\* The directory has not shrunk since the walk began, so a walk that reaches its end
\* has seen what it was to see.
StartIsPast == startCount <= assetCount

RegistryInv == TypeOK /\ DirectoryIsABijection /\ WalkIsExact /\ StartIsPast

-----------------------------------------------------------------------------
LEMMA NoneIsNothing == None \notin Contracts /\ None \notin AssetEntry
BY RegistryInputs

LEMMA RegistryInvInit == Init => RegistryInv
<1> SUFFICES ASSUME Init PROVE RegistryInv
  OBVIOUS
<1>1. HandoverTypeOK
  BY DEF Init, HandoverInit, HandoverTypeOK
<1>2. TypeOK
  <2>1. 0 \in Index
    BY RegistryBounds DEF Index
  <2>2. entry \in [Contracts -> AssetEntry \cup {None}]
    BY DEF Init
  <2>3. assetAt \in [Index -> Contracts \cup {None}]
    BY DEF Init
  <2>4. assetCount \in Index /\ startCount \in Index
    BY <2>1 DEF Init
  <2>5. paused \in BOOLEAN /\ walk \in {"none", "walking", "returned"}
    BY DEF Init
  <2>6. listed \in Seq(Contracts)
    BY DEF Init
  <2> QED
    BY <1>1, <2>2, <2>3, <2>4, <2>5, <2>6 DEF TypeOK
<1>3. DirectoryIsABijection
  BY RegistryBounds, NoneIsNothing DEF Init, DirectoryIsABijection, Index
<1>4. WalkIsExact /\ StartIsPast
  BY DEF Init, WalkIsExact, StartIsPast
<1> QED
  BY <1>2, <1>3, <1>4 DEF RegistryInv

\* A page from an index that is not past the end: how long it is and what is on it.
LEMMA PageOf ==
    ASSUME TypeOK, DirectoryIsABijection, NEW start \in Nat, start <= assetCount
    PROVE  LET page == ListAssets(start, PageSize)
           IN  /\ page \in Seq(Contracts)
               /\ start + Len(page) <= assetCount
               /\ Len(page) < PageSize => start + Len(page) = assetCount
               /\ \A i \in 1 .. Len(page) : page[i] = assetAt[start + i - 1]
<1> DEFINE end == IF start + PageSize <= assetCount THEN start + PageSize ELSE assetCount
<1> DEFINE page == ListAssets(start, PageSize)
<1>1. /\ assetCount \in Nat /\ assetCount <= MaxCount /\ PageSize \in Nat \ {0}
      /\ MaxCount \in Nat
  BY RegistryBounds DEF TypeOK, Index
<1>2. end \in Nat /\ start <= end /\ end <= assetCount /\ end - start \in Nat
  BY <1>1
<1>3. page = [i \in 1 .. end - start |-> assetAt[start + i - 1]]
  BY <1>2 DEF ListAssets
<1>4. \A i \in 1 .. end - start : assetAt[start + i - 1] \in Contracts
  <2> SUFFICES ASSUME NEW i \in 1 .. end - start
               PROVE  assetAt[start + i - 1] \in Contracts
    OBVIOUS
  <2>1. start + i - 1 \in Index /\ start + i - 1 < assetCount
    BY <1>1, <1>2 DEF Index
  <2> QED
    BY <2>1 DEF TypeOK, DirectoryIsABijection
<1> HIDE DEF page
<1>5. page \in Seq(Contracts) /\ Len(page) = end - start
  BY <1>2, <1>3, <1>4
<1>6. start + Len(page) <= assetCount /\ (Len(page) < PageSize => start + Len(page) = assetCount)
  BY <1>1, <1>2, <1>5
<1> QED
  BY <1>3, <1>5, <1>6 DEF page

-----------------------------------------------------------------------------
(* The directory *)

LEMMA RegisterKeeps ==
    ASSUME RegistryInv, NEW c \in Contracts, NEW e \in AssetEntry, Register(c, e)
    PROVE  RegistryInv'
<1> USE DEF RegistryInv
<1>1. /\ entry' = [entry EXCEPT ![c] = e] /\ e # None
      /\ entry' \in [Contracts -> AssetEntry \cup {None}]
  BY NoneIsNothing DEF Register, TypeOK
<1>2. HandoverTypeOK'
  BY DEF Register, TypeOK, HandoverTypeOK, RequireAdmin, RequireAuth
<1>3. CASE entry[c] # None /\ UNCHANGED <<assetCount, assetAt>>
  <2>1. TypeOK'
    BY <1>1, <1>2, <1>3 DEF Register, TypeOK, walkVars
  <2>2. DirectoryIsABijection'
    BY <1>1, <1>3 DEF DirectoryIsABijection, TypeOK
  <2>3. WalkIsExact' /\ StartIsPast'
    BY <1>3 DEF Register, walkVars, WalkIsExact, StartIsPast
  <2> QED
    BY <2>1, <2>2, <2>3
<1>4. CASE /\ entry[c] = None /\ assetCount < MaxCount
           /\ assetAt' = [assetAt EXCEPT ![assetCount] = c]
           /\ assetCount' = assetCount + 1
  <2>1. /\ assetCount \in Index /\ assetCount' \in Index /\ assetCount \in Nat
        /\ assetAt' \in [Index -> Contracts \cup {None}]
        /\ assetAt'[assetCount] = c
        /\ \A i \in Index : i # assetCount => assetAt'[i] = assetAt[i]
    BY <1>4, RegistryBounds DEF TypeOK, Index
  <2>2. TypeOK'
    BY <1>1, <1>2, <2>1 DEF Register, TypeOK, walkVars
  <2>3. \A i \in Index : assetAt[i] # c
    BY <1>4 DEF DirectoryIsABijection
  <2>4. \A i \in Index : i < assetCount' <=> i < assetCount \/ i = assetCount
    BY <1>4, <2>1 DEF Index
  <2>5. DirectoryIsABijection'
    <3>1. \A i \in Index : assetAt'[i] # None <=> i < assetCount'
      BY <2>1, <2>4, NoneIsNothing DEF DirectoryIsABijection
    <3>2. \A i, j \in Index : assetAt'[i] # None /\ assetAt'[i] = assetAt'[j] => i = j
      BY <2>1, <2>3 DEF DirectoryIsABijection
    <3>3. assetAt[assetCount] = None
      BY <2>1 DEF DirectoryIsABijection
    <3>4. \A d \in Contracts : entry'[d] # None <=> \E i \in Index : assetAt'[i] = d
      BY <1>1, <2>1, <3>3, NoneIsNothing DEF DirectoryIsABijection, TypeOK
    <3> QED
      BY <3>1, <3>2, <3>4 DEF DirectoryIsABijection
  <2>6. WalkIsExact'
    <3>1. UNCHANGED <<listed, walk, startCount>>
      BY DEF Register, walkVars
    <3>2. /\ Len(listed) \in Nat /\ Len(listed) <= assetCount
          /\ DOMAIN listed = 1 .. Len(listed)
      BY DEF WalkIsExact, TypeOK
    <3>3. \A i \in DOMAIN listed : i - 1 \in Index /\ i - 1 # assetCount
      BY <2>1, <3>2, RegistryBounds DEF Index
    <3>4. \A i \in DOMAIN listed : listed[i] = assetAt'[i - 1]
      BY <2>1, <3>3 DEF WalkIsExact
    <3>5. Len(listed) <= assetCount'
      BY <1>4, <2>1, <3>2
    <3> QED
      BY <3>1, <3>4, <3>5 DEF WalkIsExact
  <2>7. StartIsPast'
    BY <1>4, <2>1, RegistryBounds DEF Register, walkVars, StartIsPast, TypeOK, Index
  <2> QED
    BY <2>2, <2>5, <2>6, <2>7
<1> QED
  BY <1>3, <1>4 DEF Register

LEMMA SetActiveKeeps ==
    ASSUME RegistryInv, NEW c \in Contracts, NEW b \in BOOLEAN, SetActive(c, b)
    PROVE  RegistryInv'
<1> USE DEF RegistryInv
<1>1. entry[c] \in AssetEntry
  BY DEF SetActive, TypeOK
<1>2. [entry[c] EXCEPT !.active = b] \in AssetEntry
  BY <1>1 DEF AssetEntry
<1>3. /\ entry' = [entry EXCEPT ![c] = [entry[c] EXCEPT !.active = b]]
      /\ UNCHANGED <<assetCount, assetAt, listed, walk, startCount, paused>>
      /\ entry[c] # None
  BY DEF SetActive, walkVars
<1>4. HandoverTypeOK'
  BY DEF SetActive, TypeOK, HandoverTypeOK, RequireAdmin, RequireAuth
<1>5. TypeOK'
  BY <1>2, <1>3, <1>4 DEF TypeOK
<1>6. \A d \in Contracts : entry'[d] # None <=> entry[d] # None
  BY <1>2, <1>3, NoneIsNothing DEF TypeOK
<1>7. DirectoryIsABijection' /\ WalkIsExact' /\ StartIsPast'
  BY <1>3, <1>6 DEF DirectoryIsABijection, WalkIsExact, StartIsPast
<1> QED
  BY <1>5, <1>7

-----------------------------------------------------------------------------
(* The walk *)

LEMMA NextPageKeeps ==
    ASSUME RegistryInv, NextPage
    PROVE  RegistryInv'
<1> USE DEF RegistryInv
<1> DEFINE page == ListAssets(Len(listed), PageSize)
<1>1. /\ Len(listed) \in Nat /\ Len(listed) <= assetCount /\ listed \in Seq(Contracts)
      /\ assetCount \in Nat /\ startCount \in Nat
  BY RegistryBounds DEF TypeOK, WalkIsExact, Index
<1>2. /\ page \in Seq(Contracts)
      /\ Len(listed) + Len(page) <= assetCount
      /\ Len(page) < PageSize => Len(listed) + Len(page) = assetCount
      /\ \A i \in 1 .. Len(page) : page[i] = assetAt[Len(listed) + i - 1]
  BY <1>1, PageOf
<1>3. /\ listed' = listed \o page
      /\ walk' = (IF Len(page) < PageSize THEN "returned" ELSE "walking")
      /\ UNCHANGED <<startCount, paused, directoryVars, handoverVars>>
  BY DEF NextPage
<1> HIDE DEF page
<1>4. /\ listed' \in Seq(Contracts) /\ Len(listed') = Len(listed) + Len(page)
      /\ DOMAIN listed' = 1 .. Len(listed) + Len(page)
      /\ \A i \in 1 .. Len(listed) : listed'[i] = listed[i]
      /\ \A i \in 1 .. Len(page) : listed'[Len(listed) + i] = page[i]
  BY <1>1, <1>2, <1>3
<1>5. TypeOK'
  BY <1>3, <1>4 DEF TypeOK, HandoverTypeOK, directoryVars, handoverVars
<1>6. DirectoryIsABijection'
  BY <1>3 DEF DirectoryIsABijection, directoryVars
<1>7. \A i \in DOMAIN listed' : listed'[i] = assetAt[i - 1]
  <2> SUFFICES ASSUME NEW i \in DOMAIN listed'
               PROVE  listed'[i] = assetAt[i - 1]
    OBVIOUS
  <2>1. CASE i \in 1 .. Len(listed)
    BY <1>1, <1>4, <2>1 DEF WalkIsExact
  <2>2. CASE i \notin 1 .. Len(listed)
    <3>1. i - Len(listed) \in 1 .. Len(page) /\ Len(page) \in Nat
      BY <1>1, <1>2, <1>4, <2>2
    <3>2. listed'[Len(listed) + (i - Len(listed))] = page[i - Len(listed)]
      BY <1>4, <3>1
    <3>3. page[i - Len(listed)] = assetAt[Len(listed) + (i - Len(listed)) - 1]
      BY <1>2, <3>1
    <3> QED
      BY <1>1, <1>4, <3>2, <3>3
  <2> QED
    BY <2>1, <2>2
<1>8. ASSUME walk' = "returned" PROVE Len(listed') >= startCount
  BY <1>1, <1>2, <1>3, <1>4, <1>8 DEF StartIsPast
<1>9. WalkIsExact'
  BY <1>2, <1>3, <1>4, <1>7, <1>8 DEF WalkIsExact, directoryVars
<1> QED
  BY <1>3, <1>5, <1>6, <1>9 DEF StartIsPast, directoryVars

LEMMA BeginWalkKeeps ==
    ASSUME RegistryInv, BeginWalk
    PROVE  RegistryInv'
<1> USE DEF RegistryInv
<1>1. /\ UNCHANGED <<paused, directoryVars, handoverVars>>
      /\ walk' = "walking" /\ listed' = <<>> /\ startCount' = assetCount
  BY DEF BeginWalk
<1>2. assetCount \in Nat
  BY RegistryBounds DEF TypeOK, Index
<1>3. TypeOK'
  BY <1>1 DEF TypeOK, HandoverTypeOK, directoryVars, handoverVars
<1>4. DirectoryIsABijection'
  BY <1>1 DEF DirectoryIsABijection, directoryVars
<1>5. WalkIsExact' /\ StartIsPast'
  BY <1>1, <1>2 DEF WalkIsExact, StartIsPast, directoryVars
<1> QED
  BY <1>3, <1>4, <1>5

\* The calls that touch neither the directory nor the walk.
LEMMA QuietCallsKeep ==
    ASSUME RegistryInv, HandoverCall \/ (\E p \in BOOLEAN : SetPaused(p)) \/ UNCHANGED vars
    PROVE  RegistryInv'
<1> USE DEF RegistryInv
<1>1. UNCHANGED <<directoryVars, walkVars>>
  BY DEF HandoverCall, SetPaused, vars
<1>2. HandoverTypeOK' /\ paused' \in BOOLEAN
  <2> USE NoneIsNoAccount DEF HandoverTypeOK, RequireAdmin, RequireAuth
  <2>0. HandoverTypeOK /\ paused \in BOOLEAN
    BY DEF TypeOK
  <2>1. CASE \E p \in BOOLEAN : SetPaused(p)
    BY <2>0, <2>1 DEF SetPaused
  <2>2. CASE UNCHANGED vars
    BY <2>0, <2>2 DEF vars, handoverVars
  <2>3. ASSUME NEW a \in Successors, ProposeAdmin(a) PROVE HandoverTypeOK'
    BY <2>0, <2>3, RegistryInputs DEF ProposeAdmin
  <2>4. ASSUME AcceptAdmin PROVE HandoverTypeOK'
    BY <2>0, <2>4 DEF AcceptAdmin
  <2>5. ASSUME CancelAdminTransfer PROVE HandoverTypeOK'
    BY <2>0, <2>5 DEF CancelAdminTransfer
  <2>6. CASE HandoverCall
    BY <2>0, <2>3, <2>4, <2>5, <2>6 DEF HandoverCall
  <2> QED
    BY <2>1, <2>2, <2>6
<1>3. TypeOK'
  BY <1>1, <1>2 DEF TypeOK, directoryVars, walkVars
<1>4. DirectoryIsABijection' /\ WalkIsExact' /\ StartIsPast'
  BY <1>1 DEF DirectoryIsABijection, WalkIsExact, StartIsPast, directoryVars, walkVars
<1> QED
  BY <1>3, <1>4

LEMMA RegistryInvStep == RegistryInv /\ [Next]_vars => RegistryInv'
BY RegisterKeeps, SetActiveKeeps, NextPageKeeps, BeginWalkKeeps, QuietCallsKeep
   DEF Next, RegistryCall, Walk

(***************************************************************************)
(* The indexes below the count name the registered assets, each once.      *)
(***************************************************************************)
THEOREM RegistryIsABijection == Spec => [](TypeOK /\ DirectoryIsABijection)
<1>1. RegistryInv => TypeOK /\ DirectoryIsABijection
  BY DEF RegistryInv
<1> QED
  BY <1>1, RegistryInvInit, RegistryInvStep, PTL DEF Spec

(***************************************************************************)
(* A walk in pages has a beginning of the directory, and at least what was *)
(* registered when it began once it returns, whatever happens in between.  *)
(***************************************************************************)
THEOREM RegistryWalkIsExact == Spec => []WalkIsExact
<1>1. RegistryInv => WalkIsExact
  BY DEF RegistryInv
<1> QED
  BY <1>1, RegistryInvInit, RegistryInvStep, PTL DEF Spec

-----------------------------------------------------------------------------
(* How long a walk can take *)

\* How much further a walk can go: no directory is longer than the counter counts.
LeftToList == IF walk = "walking" THEN MaxCount + 1 - Len(listed) ELSE 0

LEMMA LeftIsANumber ==
    ASSUME RegistryInv
    PROVE  /\ LeftToList \in Nat
           /\ LeftToList > 0 <=> walk = "walking"
<1>1. /\ Len(listed) \in Nat /\ assetCount \in Nat /\ MaxCount \in Nat
      /\ Len(listed) <= assetCount /\ assetCount <= MaxCount
  BY RegistryBounds DEF RegistryInv, TypeOK, WalkIsExact, Index
<1> QED
  BY <1>1 DEF LeftToList

LEMMA PageMovesOn ==
    ASSUME RegistryInv, NextPage
    PROVE  /\ LeftToList' < LeftToList
           /\ walk' = "returned" => Len(listed') = assetCount
<1> DEFINE page == ListAssets(Len(listed), PageSize)
<1>1. /\ Len(listed) \in Nat /\ listed \in Seq(Contracts)
      /\ assetCount \in Nat /\ MaxCount \in Nat /\ PageSize \in Nat \ {0}
      /\ Len(listed) <= assetCount /\ assetCount <= MaxCount
  BY RegistryBounds DEF RegistryInv, TypeOK, WalkIsExact, Index
<1>2. /\ page \in Seq(Contracts)
      /\ Len(listed) + Len(page) <= assetCount
      /\ Len(page) < PageSize => Len(listed) + Len(page) = assetCount
  BY <1>1, PageOf DEF RegistryInv
<1>3. /\ walk = "walking" /\ listed' = listed \o page
      /\ walk' = (IF Len(page) < PageSize THEN "returned" ELSE "walking")
  BY DEF NextPage
<1> HIDE DEF page
<1>4. Len(listed') = Len(listed) + Len(page) /\ Len(page) \in Nat
  BY <1>1, <1>2, <1>3
<1>5. CASE walk' = "walking"
  <2>1. Len(page) >= PageSize
    BY <1>1, <1>3, <1>4, <1>5
  <2> QED
    BY <1>1, <1>2, <1>3, <1>4, <1>5, <2>1 DEF LeftToList
<1>6. CASE walk' = "returned"
  <2>1. Len(page) < PageSize
    BY <1>3, <1>6
  <2> QED
    BY <1>1, <1>2, <1>3, <1>4, <1>6, <2>1 DEF LeftToList
<1> QED
  BY <1>3, <1>5, <1>6

(***************************************************************************)
(* listAllAssets (sdk/src/registry.ts) cannot go round in circles: while   *)
(* it walks, each page takes it strictly nearer to a bound that the calls  *)
(* of others, however many they register meanwhile, never move; and its    *)
(* last page leaves it with the whole directory of that moment.  What      *)
(* WalkReturns needs besides is only that the node answers.                *)
(***************************************************************************)
THEOREM RegistryWalkMovesOn ==
    Spec => /\ [](LeftToList \in Nat /\ (LeftToList > 0 <=> walk = "walking"))
            /\ [][/\ NextPage => LeftToList' < LeftToList
                  /\ RegistryCall => LeftToList' = LeftToList
                  /\ walk = "walking" /\ walk' = "returned"
                        => Len(listed') = assetCount']_vars
<1>1. RegistryInv => LeftToList \in Nat /\ (LeftToList > 0 <=> walk = "walking")
  BY LeftIsANumber
<1>2. RegistryCall => UNCHANGED <<walk, listed>>
  BY DEF RegistryCall, Register, SetActive, SetPaused, HandoverCall, walkVars
<1>3. ASSUME RegistryInv, [Next]_vars
      PROVE  [/\ NextPage => LeftToList' < LeftToList
              /\ RegistryCall => LeftToList' = LeftToList
              /\ walk = "walking" /\ walk' = "returned"
                    => Len(listed') = assetCount']_vars
  <2>1. NextPage => LeftToList' < LeftToList
    BY <1>3, PageMovesOn
  <2>2. RegistryCall => LeftToList' = LeftToList
    BY <1>2 DEF LeftToList
  <2>3. ASSUME walk = "walking", walk' = "returned"
        PROVE  Len(listed') = assetCount'
    <3>1. NextPage
      BY <1>2, <1>3, <2>3 DEF Next, Walk, BeginWalk, vars, walkVars
    <3> QED
      BY <1>3, <2>3, <3>1, PageMovesOn DEF NextPage, directoryVars
  <2> QED
    BY <2>1, <2>2, <2>3
<1> QED
  BY <1>1, <1>3, RegistryInvInit, RegistryInvStep, PTL DEF Spec

-----------------------------------------------------------------------------
(* The admin role *)

LEMMA RegistryHandoverStep == RegistryInv /\ [Next]_vars => [HandoverNext]_handoverVars
<1> SUFFICES ASSUME RegistryInv, [Next]_vars
             PROVE  HandoverNext \/ UNCHANGED handoverVars
  BY DEF handoverVars
<1>1. admin \in Accounts
  BY DEF RegistryInv, TypeOK, HandoverTypeOK
<1>2. ASSUME RequireAdmin, UNCHANGED <<admin, pendingAdmin, proposedBy>>
      PROVE  HandoverNext
  BY <1>1, <1>2 DEF RequireAdmin, OtherCall, HandoverNext
<1>3. ASSUME NEW c \in Contracts, NEW e, NEW b, Register(c, e) \/ SetActive(c, b)
      PROVE  HandoverNext
  BY <1>2, <1>3 DEF Register, SetActive
<1>4. ASSUME NEW p, SetPaused(p) PROVE HandoverNext
  BY <1>2, <1>4 DEF SetPaused
<1>5. CASE HandoverCall
  BY <1>5, RegistryInputs DEF HandoverCall, HandoverNext
<1>6. CASE Walk \/ UNCHANGED vars
  BY <1>6 DEF Walk, BeginWalk, NextPage, vars
<1> QED
  BY <1>3, <1>4, <1>5, <1>6 DEF Next, RegistryCall

(***************************************************************************)
(* The registry's admin role is the one AdminHandover describes: every     *)
(* call either proposes, accepts, withdraws or leaves the role alone.      *)
(* With HandoverNeedsBoth (ComplianceProofs), a change of admin carries    *)
(* both signatures here too.                                               *)
(***************************************************************************)
THEOREM RegistryImplementsHandover == Spec => HandoverSpec
<1>1. Init => \E a \in Accounts : HandoverInit(a)
  BY DEF Init
<1> QED
  BY <1>1, RegistryHandoverStep, RegistryInvInit, RegistryInvStep, PTL DEF Spec, HandoverSpec
=============================================================================
