------------------------------- MODULE Registry -------------------------------
(***************************************************************************)
(* The directory of assets (contracts/registry/src/lib.rs): an entry per   *)
(* asset, a counter, and for every index below it the asset registered     *)
(* then.  Integrators walk the directory page by page while the admin      *)
(* registers more (listAllAssets in sdk/src/registry.ts), a page per step. *)
(*                                                                         *)
(* An invocation is one step.  The admin role is that of AdminHandover.    *)
(***************************************************************************)
EXTENDS AdminHandover, Integers, Sequences

CONSTANTS
    Contracts,         \* addresses of assets
    MaxCount,          \* u32::MAX, for the counter
    PageSize,          \* MAX_PAGE_SIZE, and the page listAllAssets asks for
    ClassInputs, Successors

Index == 0 .. MaxCount
AssetEntry == [asset_class : ClassInputs, active : BOOLEAN]

ASSUME RegistryBounds == MaxCount \in Nat /\ PageSize \in Nat \ {0}
ASSUME RegistryInputs ==
    /\ Successors \subseteq Accounts
    /\ None \notin Contracts /\ None \notin AssetEntry

VARIABLES
    paused,
    entry,             \* Asset(contract), None if there is no entry
    assetCount,        \* AssetCount
    assetAt,           \* AssetAt(index), None if there is no entry
    listed,            \* listAllAssets: what it has got so far
    walk,              \* "none", "walking" or "returned"
    startCount         \* history: the assets there were when the walk began

directoryVars == <<entry, assetCount, assetAt>>
walkVars == <<listed, walk, startCount>>
vars == <<paused, directoryVars, walkVars, handoverVars>>

-----------------------------------------------------------------------------
\* list_assets, for a limit it accepts; each index below the count has an asset
\* (DirectoryIsABijection).  start + limit saturates in the code, which min with
\* the count hides.
ListAssets(start, limit) ==
    LET end == IF start + limit <= assetCount THEN start + limit ELSE assetCount
    IN  [i \in 1 .. (IF start <= end THEN end - start ELSE 0) |-> assetAt[start + i - 1]]

Init ==
    /\ \E a \in Accounts : HandoverInit(a)
    /\ paused = FALSE
    /\ entry = [c \in Contracts |-> None]
    /\ assetCount = 0
    /\ assetAt = [i \in Index |-> None]
    /\ listed = <<>> /\ walk = "none" /\ startCount = 0

\* Mutant of Register: an asset registered again is listed again.
Register_Again(contract, e) ==
    /\ RequireAdmin /\ ~paused
    /\ entry' = [entry EXCEPT ![contract] = e]
    /\ assetCount < MaxCount
    /\ assetAt' = [assetAt EXCEPT ![assetCount] = contract]
    /\ assetCount' = assetCount + 1
    /\ UNCHANGED <<paused, walkVars, admin, pendingAdmin, proposedBy>>

\* A new asset takes the next index; one registered before keeps its own.
Register(contract, e) ==
    /\ RequireAdmin
    /\ ~paused
    /\ entry' = [entry EXCEPT ![contract] = e]
    /\ \/ /\ entry[contract] # None
          /\ UNCHANGED <<assetCount, assetAt>>
       \/ /\ entry[contract] = None
          /\ assetCount < MaxCount
          /\ assetAt' = [assetAt EXCEPT ![assetCount] = contract]
          /\ assetCount' = assetCount + 1
    /\ UNCHANGED <<paused, walkVars, admin, pendingAdmin, proposedBy>>

SetActive(contract, active) ==
    /\ RequireAdmin
    /\ ~paused
    /\ entry[contract] # None
    /\ entry' = [entry EXCEPT ![contract].active = active]
    /\ UNCHANGED <<paused, assetCount, assetAt, walkVars, admin, pendingAdmin, proposedBy>>

SetPaused(p) ==
    /\ RequireAdmin
    /\ paused' = p
    /\ UNCHANGED <<directoryVars, walkVars, admin, pendingAdmin, proposedBy>>

HandoverCall ==
    /\ \/ \E a \in Successors : ProposeAdmin(a)
       \/ AcceptAdmin
       \/ CancelAdminTransfer
    /\ UNCHANGED <<paused, directoryVars, walkVars>>

(* listAllAssets *)

BeginWalk ==
    /\ walk # "walking"
    /\ walk' = "walking" /\ listed' = <<>> /\ startCount' = assetCount
    /\ UNCHANGED <<paused, directoryVars, handoverVars>>

\* Mutants of NextPage: indexes count from 1; the walk ends when it has as many
\* assets as there were at its beginning.
NextPage_FromOne ==
    LET page == ListAssets(Len(listed) + 1, PageSize)
    IN  /\ walk = "walking"
        /\ listed' = listed \o page
        /\ walk' = IF Len(page) < PageSize THEN "returned" ELSE "walking"
        /\ UNCHANGED <<startCount, paused, directoryVars, handoverVars>>

NextPage_UntilCount ==
    LET page == ListAssets(Len(listed), PageSize)
    IN  /\ walk = "walking"
        /\ listed' = listed \o page
        /\ walk' = IF Len(listed') = startCount THEN "returned" ELSE "walking"
        /\ UNCHANGED <<startCount, paused, directoryVars, handoverVars>>

\* One page, from the index after the last one got; a short page ends the walk.
NextPage ==
    LET page == ListAssets(Len(listed), PageSize)
    IN  /\ walk = "walking"
        /\ listed' = listed \o page
        /\ walk' = IF Len(page) < PageSize THEN "returned" ELSE "walking"
        /\ UNCHANGED <<startCount, paused, directoryVars, handoverVars>>

-----------------------------------------------------------------------------
RegistryCall ==
    \/ \E c \in Contracts :
          \/ \E e \in AssetEntry : Register(c, e)
          \/ \E b \in BOOLEAN : SetActive(c, b)
    \/ \E p \in BOOLEAN : SetPaused(p)
    \/ HandoverCall

Walk == BeginWalk \/ NextPage

Next == RegistryCall \/ Walk

\* A walk goes on as long as the node answers; nobody has to register anything.
Spec == Init /\ [][Next]_vars /\ WF_vars(NextPage)

-----------------------------------------------------------------------------
(* Properties *)

\* Every variable holds a value of its type.
TypeOK ==
    /\ HandoverTypeOK
    /\ paused \in BOOLEAN
    /\ entry \in [Contracts -> AssetEntry \cup {None}]
    /\ assetCount \in Index
    /\ assetAt \in [Index -> Contracts \cup {None}]
    /\ listed \in Seq(Contracts)
    /\ walk \in {"none", "walking", "returned"}
    /\ startCount \in Index

(***************************************************************************)
(* The two mappings and the counter are one directory: the indexes below   *)
(* the count, and no others, name the registered assets, each once.        *)
(***************************************************************************)
DirectoryIsABijection ==
    /\ \A i \in Index : assetAt[i] # None <=> i < assetCount
    /\ \A i, j \in Index : assetAt[i] # None /\ assetAt[i] = assetAt[j] => i = j
    /\ \A c \in Contracts : entry[c] # None <=> \E i \in Index : assetAt[i] = c

(***************************************************************************)
(* A walk sees every asset that was registered when it began, in the order *)
(* of registration and each once, whatever is registered or changed        *)
(* between its pages: what it has got is always a beginning of the         *)
(* directory, and when it returns no shorter than the directory was then   *)
(* (README.md, list_assets: "in registration order [...] each exactly      *)
(* once").                                                                 *)
(***************************************************************************)
WalkIsExact ==
    /\ Len(listed) <= assetCount
    /\ \A i \in DOMAIN listed : listed[i] = assetAt[i - 1]
    /\ walk = "returned" => Len(listed) >= startCount

(***************************************************************************)
(* A walk ends, although the directory may grow under it: each page moves  *)
(* it on by a page or ends it, and the directory is bounded.               *)
(***************************************************************************)
WalkReturns == walk = "walking" ~> walk = "returned"
=============================================================================
