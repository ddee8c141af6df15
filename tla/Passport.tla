------------------------------ MODULE Passport ------------------------------
(***************************************************************************)
(* The passport program: a validator pays a deposit to request access to   *)
(* the DoubleZero Ledger network, and the sentinel grants or denies it.    *)
(*                                                                         *)
(* An access request lives at an address derived from its service key, so  *)
(* the service key names both; the wallets sign the instructions and pay.  *)
(* An action is one transaction with one instruction.  The lamports of all *)
(* accounts are one function.  The runtime rejects an instruction that     *)
(* does not preserve their sum; the model does not, and LamportsConserved  *)
(* shows that no decision is ever rejected for it.                         *)
(***************************************************************************)
EXTENDS Totals

CONSTANTS
  Wallets,             \* keys that sign and pay
  ServiceKeys,         \* service keys, other than Pubkey::default()
  PROGRAM_CONFIG,      \* the address of the program config account
  DEFAULT_KEY,         \* Pubkey::default(), for which nobody signs
  ConfigRent,          \* rent exemption of a ProgramConfig account
  RequestRent,         \* rent exemption of an AccessRequest account
  MAX_BACKUP_IDS,      \* backup IDs that fit REQUEST_ACCESS_MAX_DATA_SIZE bytes
  InitialLamports,     \* the lamports of every account before the program is initialized
  DepositSettings,     \* the deposits and fees that the admin tries to set
  LimitSettings,       \* the limits of backup IDs that the admin tries to set
  BackupIdCounts,      \* the numbers of backup IDs of a request
  TransferAmounts      \* the amounts of plain transfers

Accounts == Wallets \cup ServiceKeys \cup {PROGRAM_CONFIG}
Keys == Wallets \cup {DEFAULT_KEY}

ASSUME AccountsAssumption ==
  /\ Wallets \cap ServiceKeys = {}
  /\ PROGRAM_CONFIG \notin Wallets \cup ServiceKeys
  /\ DEFAULT_KEY \notin Wallets

ASSUME LamportsAssumption ==
  /\ InitialLamports \in [Accounts -> Nat]
  /\ IsFiniteSet(Units(InitialLamports))
  /\ ConfigRent \in Nat /\ RequestRent \in Nat

ASSUME SettingsAssumption ==
  /\ DepositSettings \subseteq [deposit : Nat, fee : Nat]
  /\ LimitSettings \subseteq Nat /\ BackupIdCounts \subseteq Nat
  /\ TransferAmounts \subseteq Nat /\ MAX_BACKUP_IDS \in Nat

VARIABLES
  lamports,              \* of every account
  is_initialized,        \* the program config account exists
  config,                \* its fields
  is_requested,          \* the access request account of a service key exists
  rent_beneficiary_key,  \* its fields
  request_fee_lamports

requestVars == <<is_requested, rent_beneficiary_key, request_fee_lamports>>
vars == <<lamports, is_initialized, config, requestVars>>

ProgramConfig ==
  [is_paused : BOOLEAN, is_request_access_paused : BOOLEAN,
   admin_key : Keys, sentinel_key : Keys,
   request_deposit_lamports : Nat, request_fee_lamports : Nat,
   solana_validator_backup_ids_limit : Nat]

ZeroConfig ==
  [is_paused |-> FALSE, is_request_access_paused |-> FALSE,
   admin_key |-> DEFAULT_KEY, sentinel_key |-> DEFAULT_KEY,
   request_deposit_lamports |-> 0, request_fee_lamports |-> 0,
   solana_validator_backup_ids_limit |-> 0]

Init ==
  /\ lamports = InitialLamports
  /\ is_initialized = FALSE
  /\ config = ZeroConfig
  /\ is_requested = [s \in ServiceKeys |-> FALSE]
  /\ rent_beneficiary_key = [s \in ServiceKeys |-> DEFAULT_KEY]
  /\ request_fee_lamports = [s \in ServiceKeys |-> 0]

(***************************************************************************)
(* Accounts and lamports.                                                  *)
(***************************************************************************)
saturating_sub(a, b) == IF a >= b THEN a - b ELSE 0

credited(balances, account, amount) ==
  [balances EXCEPT ![account] = balances[account] + amount]

transferred(balances, from, to, amount) ==
  credited([balances EXCEPT ![from] = balances[from] - amount], to, amount)

\* try_create_account: the payer adds what the new account does not hold yet.
lamport_diff(account, required) == saturating_sub(required, lamports[account])

try_create_account(payer, account, required) ==
  LET amount == lamport_diff(account, required)
  IN  /\ lamports[payer] >= amount
      /\ lamports' = transferred(lamports, payer, account, amount)

\* Anyone sends lamports to any other account (system program).
Transfer(from, to, amount) ==
  /\ from # to
  /\ lamports[from] >= amount
  /\ lamports' = transferred(lamports, from, to, amount)
  /\ UNCHANGED <<is_initialized, config, requestVars>>

(***************************************************************************)
(* The program config.                                                     *)
(***************************************************************************)
InitializeProgram(payer) ==
  /\ ~is_initialized
  /\ try_create_account(payer, PROGRAM_CONFIG, ConfigRent)
  /\ is_initialized' = TRUE
  /\ config' = ZeroConfig
  /\ UNCHANGED requestVars

\* The upgrade authority names the admin.
SetAdmin(admin_key) ==
  /\ is_initialized
  /\ config' = [config EXCEPT !.admin_key = admin_key]
  /\ UNCHANGED <<lamports, is_initialized, requestVars>>

is_authorized_admin(signer) == is_initialized /\ signer = config.admin_key
is_authorized_sentinel(signer) == is_initialized /\ signer = config.sentinel_key

\* Faulty variant: the fee is not compared with the deposit.
is_deposit_set(d) == d.deposit # 0

is_valid_deposit(d) == d.deposit # 0 /\ d.fee < d.deposit

ConfigureProgram(signer) ==
  /\ is_authorized_admin(signer)
  /\ \/ \E should_pause \in BOOLEAN :
           config' = [config EXCEPT !.is_paused = should_pause]
     \/ \E should_pause \in BOOLEAN :
           config' = [config EXCEPT !.is_request_access_paused = should_pause]
     \/ \E key \in Keys : config' = [config EXCEPT !.sentinel_key = key]
     \/ \E d \in DepositSettings :
           /\ is_valid_deposit(d)
           /\ config' = [config EXCEPT !.request_deposit_lamports = d.deposit,
                                       !.request_fee_lamports = d.fee]
     \/ \E limit \in LimitSettings :
           /\ limit # 0
           /\ config' = [config EXCEPT !.solana_validator_backup_ids_limit = limit]
  /\ UNCHANGED <<lamports, is_initialized, requestVars>>

(***************************************************************************)
(* Access requests.                                                        *)
(***************************************************************************)

try_require_unpaused == ~config.is_paused

\* A request without backup IDs (the first access mode) passes 0.
are_backup_ids_accepted(backup_ids) ==
  \/ backup_ids = 0
  \/ backup_ids \in 1..config.solana_validator_backup_ids_limit
     /\ backup_ids <= MAX_BACKUP_IDS

\* Faulty variant: an existing account is initialized again.
is_any_account(service_key) == TRUE

\* The system program creates or allocates only an account without data.
is_unallocated(service_key) == ~is_requested[service_key]

\* Faulty variant: the deposit counts towards the rent exemption.
deposit_without_rent == config.request_deposit_lamports

required_lamports == config.request_deposit_lamports + RequestRent

RequestAccess(payer, service_key, backup_ids) ==
  /\ is_initialized
  /\ try_require_unpaused
  /\ ~config.is_request_access_paused
  /\ are_backup_ids_accepted(backup_ids)
  /\ config.request_deposit_lamports # 0
  /\ is_unallocated(service_key)
  /\ try_create_account(payer, service_key, required_lamports)
  /\ is_requested' = [is_requested EXCEPT ![service_key] = TRUE]
  /\ rent_beneficiary_key' = [rent_beneficiary_key EXCEPT ![service_key] = payer]
  /\ request_fee_lamports' =
        [request_fee_lamports EXCEPT ![service_key] = config.request_fee_lamports]
  /\ UNCHANGED <<is_initialized, config>>

\* An account without lamports and its data are gone after the transaction.
close(service_key) ==
  /\ is_requested' = [is_requested EXCEPT ![service_key] = FALSE]
  /\ rent_beneficiary_key' = [rent_beneficiary_key EXCEPT ![service_key] = DEFAULT_KEY]
  /\ request_fee_lamports' = [request_fee_lamports EXCEPT ![service_key] = 0]

\* Faulty variant: the fee is the one configured now.
current_request_fee(service_key) == config.request_fee_lamports

request_fee(service_key) == request_fee_lamports[service_key]

\* The sentinel keeps the fee and the rent beneficiary receives the rest.
GrantAccess(sentinel, service_key) ==
  LET fee == request_fee(service_key)
      request_refund == saturating_sub(lamports[service_key], fee)
      paid == credited(credited(lamports, sentinel, fee),
                       rent_beneficiary_key[service_key], request_refund)
  IN  /\ is_authorized_sentinel(sentinel)
      /\ try_require_unpaused
      /\ is_requested[service_key]
      /\ lamports' = [paid EXCEPT ![service_key] = 0]
      /\ close(service_key)
      /\ UNCHANGED <<is_initialized, config>>

\* The sentinel receives everything.
DenyAccess(sentinel, service_key) ==
  /\ is_authorized_sentinel(sentinel)
  /\ try_require_unpaused
  /\ is_requested[service_key]
  /\ lamports' = [credited(lamports, sentinel, lamports[service_key])
                    EXCEPT ![service_key] = 0]
  /\ close(service_key)
  /\ UNCHANGED <<is_initialized, config>>

Next ==
  \/ \E from \in Wallets, to \in Accounts, amount \in TransferAmounts :
        Transfer(from, to, amount)
  \/ \E payer \in Wallets : InitializeProgram(payer)
  \/ \E admin_key \in Keys : SetAdmin(admin_key)
  \/ \E signer \in Wallets : ConfigureProgram(signer)
  \/ \E payer \in Wallets, s \in ServiceKeys, n \in BackupIdCounts : RequestAccess(payer, s, n)
  \/ \E signer \in Wallets, s \in ServiceKeys : GrantAccess(signer, s)
  \/ \E signer \in Wallets, s \in ServiceKeys : DenyAccess(signer, s)

Spec == Init /\ [][Next]_vars

(***************************************************************************)
(* Properties.                                                             *)
(***************************************************************************)

\* Type invariant.
PassportTypeOK ==
  /\ lamports \in [Accounts -> Nat]
  /\ is_initialized \in BOOLEAN
  /\ config \in ProgramConfig
  /\ is_requested \in [ServiceKeys -> BOOLEAN]
  /\ rent_beneficiary_key \in [ServiceKeys -> Keys]
  /\ request_fee_lamports \in [ServiceKeys -> Nat]

\* An open request holds its rent exemption and more than the fee it was made with, and
\* somebody to refund, whatever was configured since (try_request_access copies the fee,
\* try_configure_program compares a new fee only with the new deposit): GrantAccess always
\* refunds more than the rent, and its saturating_sub never saturates.
RequestsCovered ==
  \A s \in ServiceKeys : is_requested[s] =>
    /\ lamports[s] > RequestRent + request_fee_lamports[s]
    /\ rent_beneficiary_key[s] \in Wallets

\* The instructions create and destroy no lamports, whatever the account held when it was
\* created and whoever is sentinel and beneficiary when it is closed (try_create_account,
\* try_grant_access, try_deny_access).
LamportsConserved == Total(lamports) = Total(InitialLamports)

\* While a request is open, nobody takes its place: its beneficiary and its fee stay, and
\* its lamports do not fall (try_request_access for the same service key fails).
PendingRequestsKept ==
  [][\A s \in ServiceKeys : is_requested[s] /\ is_requested'[s] =>
       /\ rent_beneficiary_key'[s] = rent_beneficiary_key[s]
       /\ request_fee_lamports'[s] = request_fee_lamports[s]
       /\ lamports'[s] >= lamports[s]]_vars

gain(k) == lamports'[k] - lamports[k]

\* The step closes the request of s, if at all, on the agreed terms.
DecisionHonoursTerms(s) ==
  is_requested[s] /\ ~is_requested'[s] =>
    LET sentinel == config.sentinel_key
        beneficiary == rent_beneficiary_key[s]
    IN  /\ ~config.is_paused
        /\ gain(s) = - lamports[s]
        /\ \A k \in Wallets \ {sentinel, beneficiary} : gain(k) = 0
        /\ \/ /\ gain(sentinel) = lamports[s]
              /\ sentinel # beneficiary => gain(beneficiary) = 0
           \/ /\ sentinel # beneficiary
              /\ gain(sentinel) = request_fee_lamports[s]
              /\ gain(beneficiary) = lamports[s] - request_fee_lamports[s]

\* A request is closed only by a decision under the sentinel of that moment, with the
\* program unpaused: either the sentinel earns all of its lamports, or the sentinel earns
\* the fee agreed when the request was made and the requester the rest, and no other
\* wallet gains or loses (try_grant_access, try_deny_access).
DecisionsHonourTerms == [][\A s \in ServiceKeys : DecisionHonoursTerms(s)]_vars
=============================================================================
