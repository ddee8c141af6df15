---------------------------- MODULE Authorities ----------------------------
(***************************************************************************)
(* Who may do what in the revenue-distribution program: the accounts that  *)
(* anyone may create, the keys that the upgrade authority and the admin    *)
(* appoint, and the contributor accounts, which the contributor manager    *)
(* hands to rewards managers until a rewards manager blocks it.            *)
(*                                                                         *)
(* Several roles may be held by one key, a key may lose its role between   *)
(* any two steps, and every key starts as the zero key, which cannot sign. *)
(***************************************************************************)
EXTENDS Totals, Sequences

CONSTANTS
  Keys,              \* keys of wallets, which can sign
  DEFAULT_KEY,       \* Pubkey::default(), which cannot
  UpgradeAuthority,  \* the upgrade authority in the program data account
  Appointees,        \* bound: keys that a role may be given
  SwapPrograms,      \* bound: swap program IDs that the admin may set
  Contributors,      \* service keys of contributors
  RecipientLists,    \* bound: recipients that a rewards manager may ask for
  MAX_RECIPIENTS,    \* state::MAX_RECIPIENTS
  MAX_SHARE          \* UnitShare16::MAX

ASSUME KeysAssumption ==
  /\ DEFAULT_KEY \notin Keys
  /\ UpgradeAuthority \in Keys
  /\ Appointees \subseteq Keys \cup {DEFAULT_KEY}

\* The authorities that program_config names.
Authority == {"Admin", "DebtAccountant", "RewardsAccountant", "ContributorManager"}

\* Everyone whose signature some step requires.
Signatory == Authority \cup {"UpgradeAuthority", "RewardsManager"}

VARIABLES
  \* The program config account.
  program_exists, is_paused, authority_keys, sol_2z_swap_program_id,
  \* The journal and the swap destination, with their token accounts.
  journal_exists, swap_destination_exists,
  \* The contributor rewards accounts.
  account_exists, rewards_manager_key, is_set_rewards_manager_blocked, recipient_shares,
  \* History, not in any account: who signed the last step, which authorities have
  \* ever signed one, and who last set a contributor's blocking flag.
  signer, acted, blocked_by

configVars == <<program_exists, is_paused, authority_keys, sol_2z_swap_program_id>>
sharedVars == <<journal_exists, swap_destination_exists>>
contributorVars ==
  <<account_exists, rewards_manager_key, is_set_rewards_manager_blocked, recipient_shares>>
vars == <<configVars, sharedVars, contributorVars, signer, acted, blocked_by>>

\* The fields of a contributor rewards account that decide who is paid.
payee(c) ==
  <<rewards_manager_key[c], is_set_rewards_manager_blocked[c], recipient_shares[c]>>

TypeOK ==
  /\ program_exists \in BOOLEAN /\ is_paused \in BOOLEAN
  /\ authority_keys \in [Authority -> Keys \cup {DEFAULT_KEY}]
  /\ sol_2z_swap_program_id \in SwapPrograms \cup {DEFAULT_KEY}
  /\ journal_exists \in BOOLEAN /\ swap_destination_exists \in BOOLEAN
  /\ account_exists \in [Contributors -> BOOLEAN]
  /\ rewards_manager_key \in [Contributors -> Keys \cup {DEFAULT_KEY}]
  /\ is_set_rewards_manager_blocked \in [Contributors -> BOOLEAN]
  /\ recipient_shares \in [Contributors -> RecipientLists \cup {<<>>}]
  /\ signer \in Keys \cup {DEFAULT_KEY}
  /\ acted \in SUBSET Signatory
  /\ blocked_by \in [Contributors -> Keys \cup {DEFAULT_KEY}]

\* No account exists; a new account has zeroed data.
Init ==
  /\ program_exists = FALSE
  /\ is_paused = FALSE
  /\ authority_keys = [a \in Authority |-> DEFAULT_KEY]
  /\ sol_2z_swap_program_id = DEFAULT_KEY
  /\ journal_exists = FALSE
  /\ swap_destination_exists = FALSE
  /\ account_exists = [c \in Contributors |-> FALSE]
  /\ rewards_manager_key = [c \in Contributors |-> DEFAULT_KEY]
  /\ is_set_rewards_manager_blocked = [c \in Contributors |-> FALSE]
  /\ recipient_shares = [c \in Contributors |-> <<>>]
  /\ signer = DEFAULT_KEY
  /\ acted = {}
  /\ blocked_by = [c \in Contributors |-> DEFAULT_KEY]

(***************************************************************************)
(* Authorization.                                                          *)
(***************************************************************************)

\* Faulty variant: a role that nobody holds is open to everyone.
is_authorized_or_vacant(k, authority) ==
  program_exists /\ authority_keys[authority] \in {k, DEFAULT_KEY}

\* The signer is the key that the config names for the authority.
is_authorized(k, authority) == program_exists /\ k = authority_keys[authority]

try_require_unpaused == program_exists /\ ~is_paused

\* The step is signed by k, as nobody in particular or as one of the authorities.
signed(k) == signer' = k /\ UNCHANGED acted
signed_as(k, authority) == signer' = k /\ acted' = acted \cup {authority}

(***************************************************************************)
(* Accounts that anyone may pay for, once, paused or not.                  *)
(***************************************************************************)

InitializeProgram(payer) ==
  /\ ~program_exists
  /\ program_exists' = TRUE
  /\ is_paused' = TRUE
  /\ signed(payer)
  /\ UNCHANGED <<authority_keys, sol_2z_swap_program_id, sharedVars, contributorVars,
                 blocked_by>>

InitializeJournal(payer) ==
  /\ ~journal_exists
  /\ journal_exists' = TRUE
  /\ signed(payer)
  /\ UNCHANGED <<configVars, swap_destination_exists, contributorVars, blocked_by>>

InitializeSwapDestination(payer) ==
  /\ program_exists
  /\ ~swap_destination_exists
  /\ swap_destination_exists' = TRUE
  /\ signed(payer)
  /\ UNCHANGED <<configVars, journal_exists, contributorVars, blocked_by>>

InitializeContributorRewards(payer, c) ==
  /\ ~account_exists[c]
  /\ account_exists' = [account_exists EXCEPT ![c] = TRUE]
  /\ signed(payer)
  /\ UNCHANGED <<configVars, sharedVars, rewards_manager_key,
                 is_set_rewards_manager_blocked, recipient_shares, blocked_by>>

(***************************************************************************)
(* Appointments: SetAdmin is signed by the upgrade authority,              *)
(* ConfigureProgram by the admin; both work on a paused program.           *)
(***************************************************************************)
is_upgrade_authority(k) == k = UpgradeAuthority

SetAdmin(k, admin_key) ==
  /\ is_upgrade_authority(k)
  /\ program_exists
  /\ authority_keys' = [authority_keys EXCEPT !["Admin"] = admin_key]
  /\ signed_as(k, "UpgradeAuthority")
  /\ UNCHANGED <<program_exists, is_paused, sol_2z_swap_program_id, sharedVars,
                 contributorVars, blocked_by>>

SetIsPaused(k, should_pause) ==
  /\ is_authorized(k, "Admin")
  /\ is_paused' = should_pause
  /\ signed_as(k, "Admin")
  /\ UNCHANGED <<program_exists, authority_keys, sol_2z_swap_program_id, sharedVars,
                 contributorVars, blocked_by>>

SetAuthority(k, authority, key) ==
  /\ is_authorized(k, "Admin")
  /\ authority_keys' = [authority_keys EXCEPT ![authority] = key]
  /\ signed_as(k, "Admin")
  /\ UNCHANGED <<program_exists, is_paused, sol_2z_swap_program_id, sharedVars,
                 contributorVars, blocked_by>>

\* The seed of the withdraw authority, cached with the ID, is a function of it.
SetSol2zSwapProgram(k, program_id) ==
  /\ is_authorized(k, "Admin")
  /\ sol_2z_swap_program_id' = program_id
  /\ signed_as(k, "Admin")
  /\ UNCHANGED <<program_exists, is_paused, authority_keys, sharedVars, contributorVars,
                 blocked_by>>

ConfigureProgram(k) ==
  \/ \E should_pause \in BOOLEAN : SetIsPaused(k, should_pause)
  \/ \E authority \in Authority \ {"Admin"}, key \in Appointees :
        SetAuthority(k, authority, key)
  \/ \E program_id \in SwapPrograms : SetSol2zSwapProgram(k, program_id)

(***************************************************************************)
(* Contributor rewards accounts.                                           *)
(***************************************************************************)

\* Faulty variant: the blocking flag is not read.
can_always_set_rewards_manager(c) == account_exists[c]

can_set_rewards_manager(c) == account_exists[c] /\ ~is_set_rewards_manager_blocked[c]

SetRewardsManager(k, c, key) ==
  /\ is_authorized(k, "ContributorManager")
  /\ try_require_unpaused
  /\ can_set_rewards_manager(c)
  /\ rewards_manager_key' = [rewards_manager_key EXCEPT ![c] = key]
  /\ signed_as(k, "ContributorManager")
  /\ UNCHANGED <<configVars, sharedVars, account_exists, is_set_rewards_manager_blocked,
                 recipient_shares, blocked_by>>

\* RecipientShares::new: at most MAX_RECIPIENTS, none of them the zero key, positive
\* shares that add up to the whole.
is_valid_recipients(recipients) ==
  /\ Len(recipients) <= MAX_RECIPIENTS
  /\ \A i \in DOMAIN recipients :
        /\ recipients[i].recipient_key # DEFAULT_KEY
        /\ recipients[i].share \in 1..MAX_SHARE
  /\ Total([i \in DOMAIN recipients |-> recipients[i].share]) = MAX_SHARE

\* Faulty variant: whoever appoints the rewards managers passes for one.
is_manager_or_appointer(k, c) ==
  k \in {rewards_manager_key[c], authority_keys["ContributorManager"]}

is_rewards_manager(k, c) == k = rewards_manager_key[c]

ConfigureContributorRewards(k, c) ==
  /\ try_require_unpaused
  /\ account_exists[c]
  /\ is_rewards_manager(k, c)
  /\ \/ \E recipients \in RecipientLists :
           /\ is_valid_recipients(recipients)
           /\ recipient_shares' = [recipient_shares EXCEPT ![c] = recipients]
           /\ UNCHANGED <<is_set_rewards_manager_blocked, blocked_by>>
     \/ \E should_block \in BOOLEAN :
           /\ is_set_rewards_manager_blocked' =
                 [is_set_rewards_manager_blocked EXCEPT ![c] = should_block]
           /\ blocked_by' = [blocked_by EXCEPT ![c] = k]
           /\ UNCHANGED recipient_shares
  /\ signed_as(k, "RewardsManager")
  /\ UNCHANGED <<configVars, sharedVars, account_exists, rewards_manager_key>>

Next ==
  \E k \in Keys :
    \/ InitializeProgram(k)
    \/ InitializeJournal(k)
    \/ InitializeSwapDestination(k)
    \/ \E key \in Appointees : SetAdmin(k, key)
    \/ ConfigureProgram(k)
    \/ \E c \in Contributors : InitializeContributorRewards(k, c)
    \/ \E c \in Contributors, key \in Appointees : SetRewardsManager(k, c, key)
    \/ \E c \in Contributors : ConfigureContributorRewards(k, c)

Spec == Init /\ [][Next]_vars

(***************************************************************************)
(* Properties.                                                             *)
(***************************************************************************)

\* A contributor account whose rewards manager blocked SetRewardsManager stays with the
\* key that blocked it, however often the admin, the contributor manager or their keys
\* change afterwards (the flag try_set_rewards_manager reads).
BlockedControl ==
  \A c \in Contributors :
    is_set_rewards_manager_blocked[c] =>
      /\ rewards_manager_key[c] = blocked_by[c]
      /\ rewards_manager_key[c] \in Keys

\* Every power is traced back to the upgrade authority: the program runs only after an
\* admin it named unpaused it, and a contributor account has a manager, recipients or a
\* block only after such an admin named a contributor manager who signed.  The zero keys
\* that new accounts are created with open nothing.
ChainOfTrust ==
  /\ try_require_unpaused => "Admin" \in acted
  /\ "Admin" \in acted => "UpgradeAuthority" \in acted
  /\ "ContributorManager" \in acted => "Admin" \in acted
  /\ \A c \in Contributors :
        payee(c) # <<DEFAULT_KEY, FALSE, <<>>>> => "ContributorManager" \in acted

\* Once a contributor account is blocked, whoever it pays is decided by the key that
\* blocked it alone; before, the contributor manager may replace the manager and nobody
\* but the manager the recipients.  A paused program changes neither.
PayeeControl ==
  [][\A c \in Contributors :
       payee(c)' # payee(c) =>
         /\ ~is_paused
         /\ is_set_rewards_manager_blocked[c] => signer' = blocked_by[c]
         /\ recipient_shares'[c] # recipient_shares[c] => signer' = rewards_manager_key[c]]_vars
=============================================================================
