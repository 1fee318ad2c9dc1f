------------------------------- MODULE RwaVault -------------------------------
(***************************************************************************)
(* A vault of shares over one attested asset, beside the settlement that   *)
(* brings owners the asset.  Deposits need a live attestation, withdrawals *)
(* need none.  The asset is a token that reverts when it cannot move: the  *)
(* vault does not read what transferFrom and transfer return.              *)
(***************************************************************************)
EXTENDS Settlement, FiniteSets

CONSTANTS
    Vault,          \* the vault's account
    Asset,          \* the token it holds
    Holder,         \* accounts that hold shares
    VaultAmounts    \* the amounts deposited, withdrawn and sent on

ASSUME RwaVaultAssumption ==
    /\ Holder \subseteq Account \ {This}
    /\ IsFiniteSet(Holder)
    /\ Vault \in Account \ ({This} \cup Holder)
    /\ \A x \in Transfers : x.from /= Vault
    /\ \A i \in Intent : \A e \in Engagement[i] : e.owner /= Vault
    /\ Asset \in Token
    /\ Endowment[Vault][Asset] = 0
    /\ VaultAmounts \subseteq Nat \ {0}

VARIABLE shares     \* balances of the vault's own token

vaultVars == <<vars, shares>>

VaultInit ==
    /\ Init
    /\ shares = [a \in Holder |-> 0]

\* Broken, for a mutant: the asset refused and nobody looked.
Deposit_Unpaid(a, v) ==
    /\ pc = "idle"
    /\ IsAttested(Asset)
    /\ shares' = [shares EXCEPT ![a] = @ + v]
    /\ UNCHANGED vars

\* The holder approves the vault in a call of its own, just before.
Deposit(a, v) ==
    /\ pc = "idle"
    /\ IsAttested(Asset)
    /\ v <= ledger[a][Asset]
    /\ ledger' = Move(ledger, a, Vault, Asset, v)
    /\ shares' = [shares EXCEPT ![a] = @ + v]
    /\ UNCHANGED <<rwaVars, allowance, engagement, status, delivered,
                   roleVars, frameVars>>

\* Broken, for a mutant: withdrawals need the attestation too.
Withdraw_Attested(a, v) ==
    /\ pc = "idle"
    /\ IsAttested(Asset)
    /\ v <= shares[a]
    /\ v <= ledger[Vault][Asset]
    /\ ledger' = Move(ledger, Vault, a, Asset, v)
    /\ shares' = [shares EXCEPT ![a] = @ - v]
    /\ UNCHANGED <<rwaVars, allowance, engagement, status, delivered,
                   roleVars, frameVars>>

Withdraw(a, v) ==
    /\ pc = "idle"
    /\ v <= shares[a]
    /\ v <= ledger[Vault][Asset]
    /\ ledger' = Move(ledger, Vault, a, Asset, v)
    /\ shares' = [shares EXCEPT ![a] = @ - v]
    /\ UNCHANGED <<rwaVars, allowance, engagement, status, delivered,
                   roleVars, frameVars>>

TransferShares(a, b, v) ==
    /\ pc = "idle"
    /\ v <= shares[a]
    /\ shares' = [shares EXCEPT ![a] = @ - v, ![b] = @ + v]
    /\ UNCHANGED vars

VaultStep ==
    \/ \E a \in Holder, v \in VaultAmounts : Deposit(a, v) \/ Withdraw(a, v)
    \/ \E a, b \in Holder, v \in VaultAmounts : a /= b /\ TransferShares(a, b, v)

VaultNext == VaultStep \/ (Next /\ UNCHANGED shares)

VaultSpec == VaultInit /\ [][VaultNext]_vaultVars

-----------------------------------------------------------------------------
(* Properties. *)

Issued == SumFunction(shares)

\* Every share is backed by one unit of the asset, whatever was sent to the vault
\* besides and whatever a settlement delivers to it (deposit, withdraw).
VaultIsBacked == pc = "idle" => Issued <= ledger[Vault][Asset]

\* A holder can always withdraw all it holds, also when the attestation was
\* revoked or is stale: only deposits are gated (withdraw).
ExitIsNeverBlocked ==
    \A a \in Holder :
       pc = "idle" /\ shares[a] > 0 => ENABLED Withdraw(a, shares[a])
=============================================================================
