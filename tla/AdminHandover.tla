---------------------------- MODULE AdminHandover ----------------------------
(***************************************************************************)
(* The two-step handover of the admin role: the admin proposes a           *)
(* successor, the successor accepts with its own signature, and until then *)
(* the admin can replace or withdraw the proposal.  The same code stands   *)
(* in rwa-asset, compliance, registry, governance and oracle-adapter; the  *)
(* map of this module names the one in compliance.                         *)
(*                                                                         *)
(* An invocation that panics is rolled back, so only successful calls are  *)
(* steps.                                                                  *)
(***************************************************************************)
CONSTANTS Accounts,   \* addresses
          None        \* Option::None

ASSUME NoneIsNoAccount == None \notin Accounts

VARIABLES admin,         \* ADMIN_KEY
          pendingAdmin,  \* PENDING_ADMIN_KEY, or None
          proposedBy,    \* history: who signed the pending proposal
          signer         \* history: who signed the last invocation

handoverVars == <<admin, pendingAdmin, proposedBy, signer>>

\* `addr.require_auth()`: the invocation carries addr's signature.
RequireAuth(addr) == signer' = addr

\* `require_admin`: the invocation carries the current admin's signature.
RequireAdmin == RequireAuth(admin)

\* The constructor makes `deployer` admin, with its signature.
HandoverInit(deployer) ==
    /\ admin = deployer
    /\ signer = deployer
    /\ pendingAdmin = None
    /\ proposedBy = None

\* A new proposal replaces one already pending.
ProposeAdmin(newAdmin) ==
    /\ RequireAdmin
    /\ pendingAdmin' = newAdmin
    /\ proposedBy' = admin
    /\ UNCHANGED admin

\* Mutant of AcceptAdmin: the successor's signature is not asked for.
AcceptAdmin_Unsigned ==
    /\ pendingAdmin # None
    /\ \E a \in Accounts : RequireAuth(a)
    /\ admin' = pendingAdmin
    /\ pendingAdmin' = None
    /\ proposedBy' = None

AcceptAdmin ==
    /\ pendingAdmin # None
    /\ RequireAuth(pendingAdmin)
    /\ admin' = pendingAdmin
    /\ pendingAdmin' = None
    /\ proposedBy' = None

CancelAdminTransfer ==
    /\ pendingAdmin # None
    /\ RequireAdmin
    /\ pendingAdmin' = None
    /\ proposedBy' = None
    /\ UNCHANGED admin

\* Any other invocation of the contract, by whoever it is.
OtherCall ==
    /\ \E a \in Accounts : RequireAuth(a)
    /\ UNCHANGED <<admin, pendingAdmin, proposedBy>>

HandoverNext ==
    \/ \E a \in Accounts : ProposeAdmin(a)
    \/ AcceptAdmin
    \/ CancelAdminTransfer
    \/ OtherCall

HandoverSpec ==
    /\ \E a \in Accounts : HandoverInit(a)
    /\ [][HandoverNext]_handoverVars

-----------------------------------------------------------------------------
HandoverTypeOK ==
    /\ admin \in Accounts
    /\ pendingAdmin \in Accounts \cup {None}
    /\ proposedBy \in Accounts \cup {None}
    /\ signer \in Accounts

(***************************************************************************)
(* A proposal that could be accepted now was signed by the present admin:  *)
(* none outlives the admin who made it.  accept_admin does not look at who *)
(* made the proposal, so it rests on every path that changes the admin or  *)
(* withdraws a proposal clearing PENDING_ADMIN_KEY.                        *)
(***************************************************************************)
PendingProposalIsCurrentAdmins == pendingAdmin # None => proposedBy = admin

(***************************************************************************)
(* The role moves only to an address the present admin named, and only     *)
(* with that address' own signature (ADR-006: both sides consented).       *)
(***************************************************************************)
AdminChangesWithBothSignatures ==
    [][admin' # admin =>
          /\ admin' = pendingAdmin /\ signer' = admin'
          /\ proposedBy = admin]_handoverVars
=============================================================================
