-------------------------- MODULE AuthoritiesProofs --------------------------
(***************************************************************************)
(* Proofs that control of the program and of the contributor accounts      *)
(* cannot be taken, for every set of keys, contributors and recipients.    *)
(*                                                                         *)
(* ChainOfTrust is not inductive: what matters is that a role that some    *)
(* key holds was given by an authority that had signed (Appointed), since  *)
(* the zero key that a role starts with never signs.                       *)
(***************************************************************************)
EXTENDS Authorities, TLAPS

\* A role is held only after the authority above it signed an appointment.
Appointed ==
  /\ authority_keys["Admin"] # DEFAULT_KEY => "UpgradeAuthority" \in acted
  /\ authority_keys["ContributorManager"] # DEFAULT_KEY => "Admin" \in acted

AuthorityInv == TypeOK /\ Appointed /\ BlockedControl /\ ChainOfTrust

\* Before any account exists nobody holds a role.
LEMMA InitAuthority ==
  ASSUME Init PROVE AuthorityInv
<1> USE DEF Init
<1>1. TypeOK
  BY DEF TypeOK, Authority, Signatory
<1>2. Appointed
  BY DEF Appointed, Authority
<1>3. BlockedControl /\ ChainOfTrust
  BY DEF BlockedControl, ChainOfTrust, payee, try_require_unpaused
<1> QED
  BY <1>1, <1>2, <1>3 DEF AuthorityInv

\* A key that signs as an authority proves that the role was given to it.
LEMMA SignerIsAppointed ==
  ASSUME AuthorityInv, NEW k \in Keys
  PROVE  /\ is_authorized(k, "Admin") => "UpgradeAuthority" \in acted
         /\ is_authorized(k, "ContributorManager") => "Admin" \in acted
BY KeysAssumption DEF AuthorityInv, Appointed, is_authorized

\* A step that leaves the contributor accounts alone and keeps what the authorities have
\* signed keeps BlockedControl and the contributors' part of ChainOfTrust.
LEMMA ContributorsKept ==
  ASSUME AuthorityInv, acted \subseteq acted',
         UNCHANGED <<rewards_manager_key, is_set_rewards_manager_blocked, recipient_shares,
                     blocked_by>>
  PROVE  /\ BlockedControl'
         /\ \A c \in Contributors :
              (payee(c) # <<DEFAULT_KEY, FALSE, <<>>>> => "ContributorManager" \in acted)'
BY DEF AuthorityInv, BlockedControl, ChainOfTrust, payee

\* The accounts that anyone may create hold no power: the program starts paused.
LEMMA CreateKeepsAuthority ==
  ASSUME AuthorityInv, NEW k \in Keys,
         \/ InitializeProgram(k) \/ InitializeJournal(k) \/ InitializeSwapDestination(k)
         \/ \E c \in Contributors : InitializeContributorRewards(k, c)
  PROVE  AuthorityInv'
<1> USE DEF InitializeProgram, InitializeJournal, InitializeSwapDestination,
            InitializeContributorRewards, signed, configVars, sharedVars, contributorVars
<1>1. TypeOK'
  BY DEF AuthorityInv, TypeOK
<1>2. Appointed'
  BY DEF AuthorityInv, Appointed
<1>3. /\ UNCHANGED <<rewards_manager_key, is_set_rewards_manager_blocked, recipient_shares,
                     blocked_by, acted>>
      /\ try_require_unpaused' => try_require_unpaused
  BY DEF try_require_unpaused
<1>4. ChainOfTrust' /\ BlockedControl'
  BY <1>3, ContributorsKept DEF AuthorityInv, ChainOfTrust
<1> QED
  BY <1>1, <1>2, <1>4 DEF AuthorityInv

\* Appointments extend the chain by one signature.
LEMMA AppointKeepsAuthority ==
  ASSUME AuthorityInv, NEW k \in Keys,
         ConfigureProgram(k) \/ \E key \in Appointees : SetAdmin(k, key)
  PROVE  AuthorityInv'
<1> USE DEF signed_as, configVars, sharedVars, contributorVars
<1>1. CASE \E key \in Appointees : SetAdmin(k, key)
  <2> PICK key \in Appointees : SetAdmin(k, key)
    BY <1>1
  <2> USE DEF SetAdmin
  <2>1. TypeOK'
    BY KeysAssumption DEF AuthorityInv, TypeOK, Authority, Signatory
  <2>2. Appointed'
    BY DEF AuthorityInv, Appointed, TypeOK, Authority
  <2>3. ChainOfTrust' /\ BlockedControl'
    BY ContributorsKept DEF AuthorityInv, ChainOfTrust, try_require_unpaused
  <2> QED
    BY <2>1, <2>2, <2>3 DEF AuthorityInv
<1>2. CASE ConfigureProgram(k)
  <2> USE <1>2 DEF ConfigureProgram, SetIsPaused, SetAuthority, SetSol2zSwapProgram
  <2>1. is_authorized(k, "Admin") /\ "UpgradeAuthority" \in acted
    BY SignerIsAppointed
  <2>2. acted' = acted \cup {"Admin"}
    BY DEF is_authorized
  <2>3. UNCHANGED <<rewards_manager_key, is_set_rewards_manager_blocked, recipient_shares,
                    blocked_by>>
    OBVIOUS
  <2>4. TypeOK'
    <3>1. /\ authority_keys' \in [Authority -> Keys \cup {DEFAULT_KEY}]
          /\ sol_2z_swap_program_id' \in SwapPrograms \cup {DEFAULT_KEY}
          /\ is_paused' \in BOOLEAN
      BY KeysAssumption DEF AuthorityInv, TypeOK
    <3>2. acted' \in SUBSET Signatory /\ signer' \in Keys \cup {DEFAULT_KEY}
      BY <2>2 DEF AuthorityInv, TypeOK, Authority, Signatory
    <3> QED
      BY <3>1, <3>2, <2>3 DEF AuthorityInv, TypeOK
  <2>5. Appointed'
    BY <2>1, <2>2 DEF AuthorityInv, Appointed
  <2>6. ChainOfTrust' /\ BlockedControl'
    BY <2>1, <2>2, <2>3, ContributorsKept DEF AuthorityInv, ChainOfTrust
  <2> QED
    BY <2>4, <2>5, <2>6 DEF AuthorityInv
<1> QED
  BY <1>1, <1>2

\* The contributor manager replaces the manager of an account that is not blocked.
LEMMA SetManagerKeepsAuthority ==
  ASSUME AuthorityInv, NEW k \in Keys, NEW c \in Contributors, NEW key \in Appointees,
         SetRewardsManager(k, c, key)
  PROVE  AuthorityInv'
<1> USE DEF SetRewardsManager, signed_as, configVars, sharedVars
<1>1. "Admin" \in acted
  BY SignerIsAppointed
<1>2. TypeOK'
  BY KeysAssumption DEF AuthorityInv, TypeOK, Authority, Signatory
<1>3. Appointed'
  BY DEF AuthorityInv, Appointed
<1>4. BlockedControl'
  BY DEF AuthorityInv, TypeOK, BlockedControl, can_set_rewards_manager
<1>5. ChainOfTrust'
  BY <1>1 DEF AuthorityInv, ChainOfTrust, try_require_unpaused
<1> QED
  BY <1>2, <1>3, <1>4, <1>5 DEF AuthorityInv

\* The manager sets recipients, or the flag; either way it has been appointed.
LEMMA ConfigureKeepsAuthority ==
  ASSUME AuthorityInv, NEW k \in Keys, NEW c \in Contributors,
         ConfigureContributorRewards(k, c)
  PROVE  AuthorityInv'
<1> USE DEF ConfigureContributorRewards, signed_as, configVars, sharedVars, is_rewards_manager
<1>1. "ContributorManager" \in acted
  BY KeysAssumption DEF AuthorityInv, ChainOfTrust, payee
<1>2. TypeOK'
  BY DEF AuthorityInv, TypeOK, Signatory
<1>3. Appointed'
  BY DEF AuthorityInv, Appointed
<1>4. BlockedControl'
  BY DEF AuthorityInv, TypeOK, BlockedControl
<1>5. ChainOfTrust'
  BY <1>1 DEF AuthorityInv, ChainOfTrust, try_require_unpaused
<1> QED
  BY <1>2, <1>3, <1>4, <1>5 DEF AuthorityInv

\* Every step keeps the chain.
LEMMA NextAuthority ==
  ASSUME AuthorityInv, [Next]_vars PROVE AuthorityInv'
<1>1. CASE Next
  BY <1>1, CreateKeepsAuthority, AppointKeepsAuthority, SetManagerKeepsAuthority,
     ConfigureKeepsAuthority DEF Next
<1>2. CASE UNCHANGED vars
  BY <1>2 DEF vars, configVars, sharedVars, contributorVars, AuthorityInv, TypeOK, Appointed,
              BlockedControl, ChainOfTrust, try_require_unpaused, payee
<1> QED
  BY <1>1, <1>2

\* The invariant holds in every behaviour.
THEOREM AuthorityInvariance == Spec => []AuthorityInv
<1> QED
  BY InitAuthority, NextAuthority, PTL DEF Spec

\* A blocked contributor account belongs to the key that blocked it
\* (try_set_rewards_manager, try_configure_contributor_rewards).
THEOREM BlockedStaysInControl == Spec => []BlockedControl
<1>1. AuthorityInv => BlockedControl
  BY DEF AuthorityInv
<1> QED
  BY <1>1, AuthorityInvariance, PTL

\* Every power is traced back to the upgrade authority (Authority, SetAdmin).
THEOREM PowersAreGranted == Spec => []ChainOfTrust
<1>1. AuthorityInv => ChainOfTrust
  BY DEF AuthorityInv
<1> QED
  BY <1>1, AuthorityInvariance, PTL

\* Who is paid is decided by the rewards manager, and by nobody else once it blocked its
\* replacement.
THEOREM PayeesAreControlled == Spec => PayeeControl
<1> DEFINE Controlled ==
      \A c \in Contributors :
        payee(c)' # payee(c) =>
          /\ ~is_paused
          /\ is_set_rewards_manager_blocked[c] => signer' = blocked_by[c]
          /\ recipient_shares'[c] # recipient_shares[c] => signer' = rewards_manager_key[c]
<1>1. ASSUME AuthorityInv, [Next]_vars PROVE [Controlled]_vars
  <2> SUFFICES ASSUME Next, NEW c \in Contributors, payee(c)' # payee(c)
               PROVE  /\ ~is_paused
                      /\ is_set_rewards_manager_blocked[c] => signer' = blocked_by[c]
                      /\ recipient_shares'[c] # recipient_shares[c] =>
                           signer' = rewards_manager_key[c]
    BY <1>1
  <2> PICK k \in Keys :
         \/ \E d \in Contributors, key \in Appointees : SetRewardsManager(k, d, key)
         \/ \E d \in Contributors : ConfigureContributorRewards(k, d)
    BY DEF Next, InitializeProgram, InitializeJournal, InitializeSwapDestination, SetAdmin,
           ConfigureProgram, SetIsPaused, SetAuthority, SetSol2zSwapProgram,
           InitializeContributorRewards, contributorVars, payee
  <2>1. CASE \E d \in Contributors, key \in Appointees : SetRewardsManager(k, d, key)
    BY <1>1, <2>1 DEF SetRewardsManager, payee, AuthorityInv, TypeOK,
                      can_set_rewards_manager, try_require_unpaused
  <2>2. CASE \E d \in Contributors : ConfigureContributorRewards(k, d)
    BY <1>1, <2>2 DEF ConfigureContributorRewards, payee, AuthorityInv, TypeOK,
                      BlockedControl, is_rewards_manager, signed_as, try_require_unpaused
  <2> QED
    BY <2>1, <2>2
<1> QED
  BY <1>1, AuthorityInvariance, PTL DEF Spec, PayeeControl
=============================================================================
