--------------------------- MODULE PassportProofs ---------------------------
(***************************************************************************)
(* Proofs about the passport program: its types, that every open request   *)
(* can be granted as agreed, and that lamports are conserved.              *)
(***************************************************************************)
EXTENDS Passport, TotalsTheorems, TLAPS

(***************************************************************************)
(* The fee of a request is copied from the configuration, where it is less *)
(* than a deposit that is set.                                             *)
(***************************************************************************)
FeeBelowDeposit ==
  config.request_deposit_lamports # 0 =>
    config.request_fee_lamports < config.request_deposit_lamports

\* The lamports that exist are finitely many, and as many as at the beginning.
FiniteLamports == IsFiniteSet(Units(lamports)) /\ LamportsConserved

PassportInv == PassportTypeOK /\ FeeBelowDeposit /\ RequestsCovered /\ FiniteLamports

\* An amount that moves from one account to another leaves the sum alone
\* (transferred: the system program's transfer).
LEMMA TransferTotal ==
  ASSUME NEW f \in [Accounts -> Nat], IsFiniteSet(Units(f)),
         NEW from \in Accounts, NEW to \in Accounts, from # to,
         NEW amount \in Nat, amount <= f[from]
  PROVE  /\ transferred(f, from, to, amount) \in [Accounts -> Nat]
         /\ IsFiniteSet(Units(transferred(f, from, to, amount)))
         /\ Total(transferred(f, from, to, amount)) = Total(f)
<1> DEFINE g == [f EXCEPT ![from] = f[from] - amount]
           h == [g EXCEPT ![to] = g[to] + amount]
<1>1. g \in [Accounts -> Nat] /\ g[from] = f[from] - amount
  OBVIOUS
<1>2. /\ IsFiniteSet(Units(g))
      /\ Total(g) = Total(f) - f[from] + g[from]
      /\ Total(f) \in Nat
  <2>1. /\ \A y \in DOMAIN f : f[y] \in Nat
        /\ from \in DOMAIN f /\ DOMAIN g = DOMAIN f /\ g[from] \in Nat
        /\ \A y \in DOMAIN f \ {from} : g[y] = f[y]
    BY <1>1
  <2> QED
    BY <2>1, TotalUpdate
<1>3. IsFiniteSet(Units(h)) /\ Total(g) \in Nat /\ Total(h) = Total(g) + amount
  <2>1. (\A y \in DOMAIN g : g[y] \in Nat) /\ to \in DOMAIN g
    BY <1>1
  <2> HIDE DEF g
  <2> QED
    BY <1>2, <2>1, TotalIncrease
<1>4. transferred(f, from, to, amount) = h /\ h \in [Accounts -> Nat]
  BY <1>1 DEF transferred, credited
<1> QED
  BY <1>1, <1>2, <1>3, <1>4

\* Crediting an account adds to the sum (lamports += amount).
LEMMA CreditTotal ==
  ASSUME NEW f \in [Accounts -> Nat], IsFiniteSet(Units(f)),
         NEW account \in Accounts, NEW amount \in Nat
  PROVE  /\ credited(f, account, amount) \in [Accounts -> Nat]
         /\ IsFiniteSet(Units(credited(f, account, amount)))
         /\ Total(f) \in Nat
         /\ Total(credited(f, account, amount)) = Total(f) + amount
<1>1. (\A y \in DOMAIN f : f[y] \in Nat) /\ account \in DOMAIN f
  OBVIOUS
<1> DEFINE g == credited(f, account, amount)
<1>2. g = [f EXCEPT ![account] = f[account] + amount]
  BY DEF credited
<1>3. g \in [Accounts -> Nat]
  BY <1>2
<1>4. IsFiniteSet(Units(g)) /\ Total(f) \in Nat /\ Total(g) = Total(f) + amount
  <2> HIDE DEF g
  <2> QED
    BY <1>1, <1>2, TotalIncrease
<1> QED
  BY <1>3, <1>4

\* Zeroing an account takes its lamports out of the sum (lamports = 0).
LEMMA ZeroTotal ==
  ASSUME NEW f \in [Accounts -> Nat], IsFiniteSet(Units(f)), NEW account \in Accounts
  PROVE  /\ [f EXCEPT ![account] = 0] \in [Accounts -> Nat]
         /\ IsFiniteSet(Units([f EXCEPT ![account] = 0]))
         /\ Total(f) \in Nat
         /\ Total([f EXCEPT ![account] = 0]) = Total(f) - f[account]
<1> DEFINE g == [f EXCEPT ![account] = 0]
<1>1. /\ g \in [Accounts -> Nat] /\ g[account] = 0
      /\ \A y \in DOMAIN f : f[y] \in Nat
      /\ account \in DOMAIN f /\ DOMAIN g = DOMAIN f /\ g[account] \in Nat
      /\ \A y \in DOMAIN f \ {account} : g[y] = f[y]
  OBVIOUS
<1>2. /\ IsFiniteSet(Units(g))
      /\ Total(g) = Total(f) - f[account] + g[account]
      /\ Total(f) \in Nat
  <2> HIDE DEF g
  <2> QED
    BY <1>1, TotalUpdate
<1> QED
  BY <1>1, <1>2

\* Before the program exists there is nothing to cover.
LEMMA PassportInitInv ==
  ASSUME Init PROVE PassportInv
BY AccountsAssumption, LamportsAssumption
DEF Init, PassportInv, PassportTypeOK, FeeBelowDeposit, RequestsCovered, FiniteLamports,
    LamportsConserved, ZeroConfig, ProgramConfig, Keys

\* A plain transfer by a wallet cannot take lamports from a request.
LEMMA TransferInv ==
  ASSUME PassportInv, NEW from \in Wallets, NEW to \in Accounts,
         NEW amount \in TransferAmounts, Transfer(from, to, amount)
  PROVE  PassportInv'
<1> USE DEF Transfer, PassportInv, requestVars
<1>1. lamports \in [Accounts -> Nat] /\ from \in Accounts /\ amount \in Nat
  BY SettingsAssumption DEF PassportTypeOK, Accounts
<1>2. /\ lamports' \in [Accounts -> Nat]
      /\ IsFiniteSet(Units(lamports')) /\ Total(lamports') = Total(lamports)
  BY <1>1, TransferTotal DEF FiniteLamports
<1>3. \A s \in ServiceKeys : lamports'[s] >= lamports[s]
  BY <1>1, AccountsAssumption DEF transferred, credited, Accounts
<1>4. PassportTypeOK' /\ FeeBelowDeposit'
  BY <1>2 DEF PassportTypeOK, FeeBelowDeposit
<1>5. RequestsCovered'
  <2> SUFFICES ASSUME NEW s \in ServiceKeys, is_requested'[s]
               PROVE  /\ lamports'[s] > RequestRent + request_fee_lamports'[s]
                      /\ rent_beneficiary_key'[s] \in Wallets
    BY DEF RequestsCovered
  <2>1. lamports[s] \in Nat /\ lamports'[s] \in Nat /\ request_fee_lamports[s] \in Nat
    BY <1>1, <1>2 DEF Accounts, PassportTypeOK
  <2> QED
    BY <1>3, <2>1, LamportsAssumption DEF RequestsCovered
<1>6. FiniteLamports'
  BY <1>2 DEF FiniteLamports, LamportsConserved
<1> QED
  BY <1>4, <1>5, <1>6

\* What the payer adds to a new account: try_create_account keeps the sum, gives the
\* account at least what is required and takes lamports of no other account.
LEMMA CreateAccount ==
  ASSUME PassportTypeOK, FiniteLamports, NEW payer \in Wallets,
         NEW account \in Accounts \ Wallets, NEW required \in Nat,
         try_create_account(payer, account, required)
  PROVE  /\ lamports' \in [Accounts -> Nat]
         /\ FiniteLamports'
         /\ lamports'[account] >= required
         /\ \A a \in Accounts \ {payer} : lamports'[a] >= lamports[a]
<1> DEFINE amount == lamport_diff(account, required)
<1>1. lamports \in [Accounts -> Nat] /\ payer \in Accounts /\ account \in Accounts
  BY DEF PassportTypeOK, Accounts
<1>2. amount \in Nat /\ lamports[account] + amount >= required
  BY <1>1 DEF lamport_diff, saturating_sub
<1>3. lamports[payer] >= amount /\ lamports' = transferred(lamports, payer, account, amount)
  BY DEF try_create_account
<1> HIDE DEF amount
<1>4. /\ lamports' \in [Accounts -> Nat]
      /\ IsFiniteSet(Units(lamports')) /\ Total(lamports') = Total(lamports)
  BY <1>1, <1>2, <1>3, TransferTotal DEF FiniteLamports
<1>5. /\ lamports'[account] = lamports[account] + amount
      /\ \A a \in Accounts \ {payer} : lamports'[a] >= lamports[a]
  BY <1>1, <1>2, <1>3 DEF transferred, credited
<1> QED
  BY <1>2, <1>4, <1>5 DEF FiniteLamports, LamportsConserved

\* The config account is created at the cost of a wallet, not of a request.
LEMMA InitializeProgramInv ==
  ASSUME PassportInv, NEW payer \in Wallets, InitializeProgram(payer)
  PROVE  PassportInv'
<1> USE DEF InitializeProgram, PassportInv, requestVars
<1>1. PROGRAM_CONFIG \in Accounts \ Wallets /\ ConfigRent \in Nat
  BY AccountsAssumption, LamportsAssumption DEF Accounts
<1>2. /\ lamports' \in [Accounts -> Nat]
      /\ FiniteLamports'
      /\ \A a \in Accounts \ {payer} : lamports'[a] >= lamports[a]
  BY <1>1, CreateAccount
<1>3. PassportTypeOK' /\ FeeBelowDeposit'
  BY <1>2 DEF PassportTypeOK, FeeBelowDeposit, ZeroConfig, ProgramConfig, Keys
<1>4. RequestsCovered'
  <2> SUFFICES ASSUME NEW s \in ServiceKeys, is_requested'[s]
               PROVE  /\ lamports'[s] > RequestRent + request_fee_lamports'[s]
                      /\ rent_beneficiary_key'[s] \in Wallets
    BY DEF RequestsCovered
  <2>1. s \in Accounts \ {payer}
    BY AccountsAssumption DEF Accounts
  <2>2. /\ lamports[s] \in Nat /\ lamports'[s] \in Nat /\ request_fee_lamports[s] \in Nat
        /\ lamports'[s] >= lamports[s]
    BY <1>2, <2>1 DEF PassportTypeOK
  <2> QED
    BY <2>2, LamportsAssumption DEF RequestsCovered
<1> QED
  BY <1>2, <1>3, <1>4

\* A change of the configuration leaves every request as it is, and cannot set a fee that
\* is not less than the deposit.
LEMMA ConfigurationInv ==
  ASSUME PassportInv,
         \/ \E admin_key \in Keys : SetAdmin(admin_key)
         \/ \E signer \in Wallets : ConfigureProgram(signer)
  PROVE  PassportInv'
<1> USE DEF PassportInv, requestVars
<1>1. UNCHANGED <<lamports, is_initialized, requestVars>>
  BY DEF SetAdmin, ConfigureProgram
<1>2. config' \in ProgramConfig /\ FeeBelowDeposit'
  <2>1. CASE \E admin_key \in Keys : SetAdmin(admin_key)
    BY <2>1 DEF SetAdmin, PassportTypeOK, ProgramConfig, FeeBelowDeposit
  <2>2. CASE \E signer \in Wallets : ConfigureProgram(signer)
    BY <2>2, SettingsAssumption
    DEF ConfigureProgram, PassportTypeOK, ProgramConfig, FeeBelowDeposit, is_valid_deposit
  <2> QED
    BY <2>1, <2>2
<1>3. PassportTypeOK'
  BY <1>1, <1>2 DEF PassportTypeOK
<1>4. RequestsCovered' /\ FiniteLamports'
  BY <1>1 DEF RequestsCovered, FiniteLamports, LamportsConserved
<1> QED
  BY <1>2, <1>3, <1>4

\* A new request holds the rent and the deposit, which is more than the fee it records.
LEMMA RequestAccessInv ==
  ASSUME PassportInv, NEW payer \in Wallets, NEW k \in ServiceKeys, NEW n \in BackupIdCounts,
         RequestAccess(payer, k, n)
  PROVE  PassportInv'
<1> USE DEF RequestAccess, PassportInv
<1>1. k \in Accounts \ Wallets
  BY AccountsAssumption DEF Accounts
<1>2. /\ config.request_deposit_lamports \in Nat /\ config.request_fee_lamports \in Nat
      /\ config.request_fee_lamports < config.request_deposit_lamports
      /\ required_lamports \in Nat
      /\ required_lamports > RequestRent + config.request_fee_lamports
  BY LamportsAssumption DEF PassportTypeOK, ProgramConfig, FeeBelowDeposit, required_lamports
<1>3. /\ lamports' \in [Accounts -> Nat]
      /\ FiniteLamports'
      /\ lamports'[k] >= required_lamports
      /\ \A a \in Accounts \ {payer} : lamports'[a] >= lamports[a]
  BY <1>1, <1>2, CreateAccount
<1>4. PassportTypeOK' /\ FeeBelowDeposit'
  BY <1>2, <1>3 DEF PassportTypeOK, FeeBelowDeposit, Keys
<1>5. RequestsCovered'
  <2> SUFFICES ASSUME NEW s \in ServiceKeys, is_requested'[s]
               PROVE  /\ lamports'[s] > RequestRent + request_fee_lamports'[s]
                      /\ rent_beneficiary_key'[s] \in Wallets
    BY DEF RequestsCovered
  <2>1. s \in Accounts \ {payer}
    BY AccountsAssumption DEF Accounts
  <2>2. /\ lamports[s] \in Nat /\ lamports'[s] \in Nat /\ request_fee_lamports[s] \in Nat
        /\ lamports'[s] >= lamports[s]
    BY <1>3, <2>1 DEF PassportTypeOK
  <2>3. CASE s = k
    BY <1>2, <1>3, <2>2, <2>3, LamportsAssumption DEF PassportTypeOK
  <2>4. CASE s # k
    BY <2>2, <2>4, LamportsAssumption DEF PassportTypeOK, RequestsCovered
  <2> QED
    BY <2>3, <2>4
<1> QED
  BY <1>3, <1>4, <1>5

\* A decision that credits wallets and closes the request k keeps the other requests.
LEMMA CloseRequest ==
  ASSUME PassportTypeOK, FeeBelowDeposit, RequestsCovered, NEW k \in ServiceKeys, close(k),
         UNCHANGED <<is_initialized, config>>,
         lamports' \in [Accounts -> Nat],
         \A s \in ServiceKeys \ {k} : lamports'[s] = lamports[s]
  PROVE  PassportTypeOK' /\ FeeBelowDeposit' /\ RequestsCovered'
<1>1. PassportTypeOK' /\ FeeBelowDeposit'
  BY DEF PassportTypeOK, FeeBelowDeposit, close, Keys
<1>2. RequestsCovered'
  BY DEF PassportTypeOK, RequestsCovered, close
<1> QED
  BY <1>1, <1>2

\* A granted request holds its fee, so that fee and refund are all of its lamports.
LEMMA GrantAccessInv ==
  ASSUME PassportInv, NEW sentinel \in Wallets, NEW k \in ServiceKeys, GrantAccess(sentinel, k)
  PROVE  PassportInv'
<1> USE DEF PassportInv
<1> DEFINE fee == request_fee_lamports[k]
           beneficiary == rent_beneficiary_key[k]
           refund == saturating_sub(lamports[k], fee)
           earned == credited(lamports, sentinel, fee)
           paid == credited(earned, beneficiary, refund)
<1>1. /\ is_requested[k] /\ close(k) /\ UNCHANGED <<is_initialized, config>>
      /\ lamports' = [paid EXCEPT ![k] = 0]
  BY DEF GrantAccess, request_fee
<1>2. /\ lamports \in [Accounts -> Nat] /\ IsFiniteSet(Units(lamports))
      /\ k \in Accounts /\ sentinel \in Accounts /\ fee \in Nat
      /\ beneficiary \in Wallets /\ beneficiary \in Accounts
      /\ k \notin Wallets
  BY <1>1, AccountsAssumption DEF PassportTypeOK, Accounts, FiniteLamports, RequestsCovered
<1>3. refund \in Nat /\ refund + fee = lamports[k]
  <2>1. lamports[k] \in Nat /\ lamports[k] > RequestRent + fee /\ RequestRent \in Nat
    BY <1>1, <1>2, LamportsAssumption DEF RequestsCovered
  <2> QED
    BY <1>2, <2>1 DEF saturating_sub
<1>4. earned[k] = lamports[k]
      /\ \A s \in ServiceKeys : earned[s] = lamports[s]
  BY <1>2, AccountsAssumption DEF credited, Accounts
<1> HIDE DEF refund, fee
<1>5. /\ earned \in [Accounts -> Nat] /\ IsFiniteSet(Units(earned))
      /\ Total(lamports) \in Nat /\ Total(earned) = Total(lamports) + fee
  BY <1>2, CreditTotal
<1> HIDE DEF earned
<1>6. /\ paid \in [Accounts -> Nat] /\ IsFiniteSet(Units(paid))
      /\ Total(earned) \in Nat /\ Total(paid) = Total(earned) + refund
  BY <1>2, <1>3, <1>5, CreditTotal
<1>7. \A s \in ServiceKeys : paid[s] = lamports[s]
  BY <1>2, <1>4, <1>5, AccountsAssumption DEF credited, Accounts
<1> HIDE DEF paid
<1>8. /\ lamports' \in [Accounts -> Nat] /\ IsFiniteSet(Units(lamports'))
      /\ Total(paid) \in Nat /\ Total(lamports') = Total(paid) - paid[k]
  BY <1>1, <1>2, <1>6, ZeroTotal
<1>9. \A s \in ServiceKeys \ {k} : lamports'[s] = lamports[s]
  BY <1>1, <1>6, <1>7 DEF Accounts
<1>10. PassportTypeOK' /\ FeeBelowDeposit' /\ RequestsCovered'
  BY <1>1, <1>8, <1>9, CloseRequest
<1>11. FiniteLamports'
  BY <1>2, <1>3, <1>5, <1>6, <1>7, <1>8 DEF FiniteLamports, LamportsConserved
<1> QED
  BY <1>10, <1>11

\* A denied request gives the sentinel exactly what it loses.
LEMMA DenyAccessInv ==
  ASSUME PassportInv, NEW sentinel \in Wallets, NEW k \in ServiceKeys, DenyAccess(sentinel, k)
  PROVE  PassportInv'
<1> USE DEF PassportInv
<1> DEFINE earned == credited(lamports, sentinel, lamports[k])
<1>1. /\ close(k) /\ UNCHANGED <<is_initialized, config>>
      /\ lamports' = [earned EXCEPT ![k] = 0]
  BY DEF DenyAccess
<1>2. /\ lamports \in [Accounts -> Nat] /\ IsFiniteSet(Units(lamports))
      /\ k \in Accounts /\ sentinel \in Accounts /\ lamports[k] \in Nat
  BY DEF PassportTypeOK, Accounts, FiniteLamports
<1>3. /\ earned \in [Accounts -> Nat] /\ IsFiniteSet(Units(earned))
      /\ Total(lamports) \in Nat /\ Total(earned) = Total(lamports) + lamports[k]
  BY <1>2, CreditTotal
<1>4. \A s \in ServiceKeys : earned[s] = lamports[s]
  BY <1>2, AccountsAssumption DEF credited, Accounts
<1> HIDE DEF earned
<1>5. /\ lamports' \in [Accounts -> Nat] /\ IsFiniteSet(Units(lamports'))
      /\ Total(earned) \in Nat /\ Total(lamports') = Total(earned) - earned[k]
  BY <1>1, <1>2, <1>3, ZeroTotal
<1>6. \A s \in ServiceKeys \ {k} : lamports'[s] = lamports[s]
  BY <1>1, <1>3, <1>4 DEF Accounts
<1>7. PassportTypeOK' /\ FeeBelowDeposit' /\ RequestsCovered'
  BY <1>1, <1>5, <1>6, CloseRequest
<1>8. FiniteLamports'
  BY <1>2, <1>3, <1>4, <1>5 DEF FiniteLamports, LamportsConserved
<1> QED
  BY <1>7, <1>8

\* The inductive invariant of the passport program.
THEOREM PassportInvariant == Spec => []PassportInv
<1>1. Init => PassportInv
  BY PassportInitInv
<1>2. PassportInv /\ [Next]_vars => PassportInv'
  <2> SUFFICES ASSUME PassportInv, [Next]_vars PROVE PassportInv'
    OBVIOUS
  <2>1. CASE UNCHANGED vars
    BY <2>1 DEF vars, requestVars, PassportInv, PassportTypeOK, FeeBelowDeposit,
                RequestsCovered, FiniteLamports, LamportsConserved
  <2>2. CASE Next
    BY <2>2, TransferInv, InitializeProgramInv, ConfigurationInv, RequestAccessInv,
       GrantAccessInv, DenyAccessInv
    DEF Next
  <2> QED
    BY <2>1, <2>2
<1> QED
  BY <1>1, <1>2, PTL DEF Spec

\* In every reachable state an open request can be granted as agreed: it holds its rent
\* and more than its fee, whatever the admin configured since (try_grant_access).
THEOREM OpenRequestsAreCovered == Spec => []RequestsCovered
<1>1. PassportInv => RequestsCovered
  BY DEF PassportInv
<1> QED
  BY <1>1, PassportInvariant, PTL

\* No instruction of the passport program creates or destroys lamports.
THEOREM LamportsAreConserved == Spec => []LamportsConserved
<1>1. PassportInv => LamportsConserved
  BY DEF PassportInv, FiniteLamports
<1> QED
  BY <1>1, PassportInvariant, PTL

\* A grant pays the sentinel the recorded fee and the beneficiary the rest.
LEMMA GrantHonoursTerms ==
  ASSUME PassportInv, NEW sentinel \in Wallets, NEW k \in ServiceKeys, GrantAccess(sentinel, k)
  PROVE  DecisionHonoursTerms(k)
<1> USE DEF PassportInv
<1> DEFINE fee == request_fee_lamports[k]
           beneficiary == rent_beneficiary_key[k]
           refund == saturating_sub(lamports[k], fee)
           paid == credited(credited(lamports, sentinel, fee), beneficiary, refund)
<1>1. /\ is_requested[k] /\ ~config.is_paused /\ sentinel = config.sentinel_key
      /\ lamports' = [paid EXCEPT ![k] = 0]
  BY DEF GrantAccess, request_fee, try_require_unpaused, is_authorized_sentinel
<1>2. /\ lamports \in [Accounts -> Nat]
      /\ k \in Accounts /\ sentinel \in Accounts /\ fee \in Nat
      /\ beneficiary \in Wallets /\ beneficiary \in Accounts
      /\ k \notin Wallets
  BY <1>1, AccountsAssumption DEF PassportTypeOK, Accounts, RequestsCovered
<1>3. refund = lamports[k] - fee /\ lamports[k] \in Nat
  <2>1. lamports[k] \in Nat /\ lamports[k] > RequestRent + fee /\ RequestRent \in Nat
    BY <1>1, <1>2, LamportsAssumption DEF RequestsCovered
  <2> QED
    BY <1>2, <2>1 DEF saturating_sub
<1>4. \A w \in Wallets : w \in Accounts /\ w # k
  BY <1>2 DEF Accounts
<1> HIDE DEF refund, fee, beneficiary
<1>5. /\ gain(k) = - lamports[k]
      /\ \A w \in Wallets \ {sentinel, beneficiary} : gain(w) = 0
  BY <1>1, <1>2, <1>3, <1>4 DEF gain, credited
<1>6. CASE sentinel = beneficiary
  <2>1. gain(sentinel) = lamports[k]
    BY <1>1, <1>2, <1>3, <1>4, <1>6 DEF gain, credited
  <2> QED
    BY <1>1, <1>5, <1>6, <2>1 DEF DecisionHonoursTerms, beneficiary
<1>7. CASE sentinel # beneficiary
  <2>1. gain(sentinel) = fee /\ gain(beneficiary) = lamports[k] - fee
    BY <1>1, <1>2, <1>3, <1>4, <1>7 DEF gain, credited
  <2> QED
    BY <1>1, <1>5, <1>7, <2>1 DEF DecisionHonoursTerms, beneficiary, fee
<1> QED
  BY <1>6, <1>7

\* A denial pays the sentinel everything.
LEMMA DenialHonoursTerms ==
  ASSUME PassportInv, NEW sentinel \in Wallets, NEW k \in ServiceKeys, DenyAccess(sentinel, k)
  PROVE  DecisionHonoursTerms(k)
<1> USE DEF PassportInv
<1>1. /\ ~config.is_paused /\ sentinel = config.sentinel_key
      /\ lamports' = [credited(lamports, sentinel, lamports[k]) EXCEPT ![k] = 0]
  BY DEF DenyAccess, try_require_unpaused, is_authorized_sentinel
<1>2. /\ lamports \in [Accounts -> Nat] /\ k \in Accounts /\ k \notin Wallets
      /\ \A w \in Wallets : w \in Accounts /\ w # k
      /\ is_requested[k] /\ rent_beneficiary_key[k] \in Wallets
  BY AccountsAssumption DEF PassportTypeOK, Accounts, DenyAccess, RequestsCovered
<1>3. /\ gain(k) = - lamports[k]
      /\ gain(sentinel) = lamports[k]
      /\ \A w \in Wallets \ {sentinel} : gain(w) = 0
  BY <1>1, <1>2 DEF gain, credited
<1> QED
  BY <1>1, <1>2, <1>3 DEF DecisionHonoursTerms

\* Every request is closed on the terms it was made with, whatever the admin configured
\* and whoever became sentinel in between (try_grant_access, try_deny_access).
THEOREM DecisionsAreHonoured == Spec => DecisionsHonourTerms
<1>1. PassportInv /\ [Next]_vars => [\A s \in ServiceKeys : DecisionHonoursTerms(s)]_vars
  <2> SUFFICES ASSUME PassportInv, Next, NEW s \in ServiceKeys
               PROVE  DecisionHonoursTerms(s)
    OBVIOUS
  <2> USE DEF PassportInv
  <2>1. CASE \E from \in Wallets, to \in Accounts, amount \in TransferAmounts :
               Transfer(from, to, amount)
    BY <2>1 DEF Transfer, requestVars, DecisionHonoursTerms
  <2>2. CASE \E payer \in Wallets : InitializeProgram(payer)
    BY <2>2 DEF InitializeProgram, requestVars, DecisionHonoursTerms
  <2>3. CASE \E admin_key \in Keys : SetAdmin(admin_key)
    BY <2>3 DEF SetAdmin, requestVars, DecisionHonoursTerms
  <2>4. CASE \E signer \in Wallets : ConfigureProgram(signer)
    BY <2>4 DEF ConfigureProgram, requestVars, DecisionHonoursTerms
  <2>5. CASE \E payer \in Wallets, k \in ServiceKeys, n \in BackupIdCounts :
               RequestAccess(payer, k, n)
    BY <2>5 DEF RequestAccess, PassportTypeOK, DecisionHonoursTerms
  <2>6. CASE \E signer \in Wallets, k \in ServiceKeys : GrantAccess(signer, k)
    <3>1. PICK signer \in Wallets, k \in ServiceKeys : GrantAccess(signer, k)
      BY <2>6
    <3>2. CASE s = k
      BY <3>1, <3>2, GrantHonoursTerms
    <3>3. CASE s # k
      BY <3>1, <3>3 DEF GrantAccess, close, PassportTypeOK, DecisionHonoursTerms
    <3> QED
      BY <3>2, <3>3
  <2>7. CASE \E signer \in Wallets, k \in ServiceKeys : DenyAccess(signer, k)
    <3>1. PICK signer \in Wallets, k \in ServiceKeys : DenyAccess(signer, k)
      BY <2>7
    <3>2. CASE s = k
      BY <3>1, <3>2, DenialHonoursTerms
    <3>3. CASE s # k
      BY <3>1, <3>3 DEF DenyAccess, close, PassportTypeOK, DecisionHonoursTerms
    <3> QED
      BY <3>2, <3>3
  <2> QED
    BY <2>1, <2>2, <2>3, <2>4, <2>5, <2>6, <2>7 DEF Next
<1> QED
  BY <1>1, PassportInvariant, PTL DEF Spec, DecisionsHonourTerms

\* What stays of a request that a step leaves open.
RequestStays(s) ==
  is_requested[s] /\ is_requested'[s] =>
    /\ rent_beneficiary_key'[s] = rent_beneficiary_key[s]
    /\ request_fee_lamports'[s] = request_fee_lamports[s]
    /\ lamports'[s] >= lamports[s]

\* A step that leaves the records of the requests alone and takes lamports of wallets only.
LEMMA RecordsStay ==
  ASSUME UNCHANGED requestVars, NEW s \in ServiceKeys, lamports'[s] >= lamports[s]
  PROVE  RequestStays(s)
  BY DEF RequestStays, requestVars

\* A new request leaves the open ones alone: its account must not be in use, and its payer
\* is a wallet.
LEMMA RequestAccessKeeps ==
  ASSUME PassportInv, NEW payer \in Wallets, NEW k \in ServiceKeys, NEW n,
         RequestAccess(payer, k, n), NEW s \in ServiceKeys
  PROVE  RequestStays(s)
<1>1. /\ k \in Accounts \ Wallets /\ s \in Accounts \ {payer} /\ required_lamports \in Nat
  BY AccountsAssumption, LamportsAssumption
     DEF Accounts, PassportInv, PassportTypeOK, ProgramConfig, required_lamports
<1>2. lamports'[s] >= lamports[s]
  BY <1>1, CreateAccount DEF RequestAccess, PassportInv
<1>3. ~is_requested[k]
  BY DEF RequestAccess, is_unallocated
<1> QED
  BY <1>2, <1>3 DEF RequestAccess, RequestStays, PassportInv, PassportTypeOK

\* The decision about one request leaves the others alone: it pays wallets only.
LEMMA DecisionKeeps ==
  ASSUME PassportInv, NEW sentinel \in Wallets, NEW k \in ServiceKeys,
         GrantAccess(sentinel, k) \/ DenyAccess(sentinel, k), NEW s \in ServiceKeys
  PROVE  RequestStays(s)
<1> USE DEF PassportInv
<1>1. close(k) /\ is_requested[k]
  BY DEF GrantAccess, DenyAccess
<1>2. CASE s = k
  BY <1>1, <1>2 DEF close, RequestStays, PassportTypeOK
<1>3. CASE s # k
  <2>1. /\ lamports \in [Accounts -> Nat] /\ s \in Accounts /\ k \in Accounts
        /\ s # sentinel /\ s # rent_beneficiary_key[k]
    BY <1>1, AccountsAssumption DEF PassportTypeOK, Accounts, RequestsCovered
  <2>2. lamports'[s] = lamports[s]
    <3>1. CASE GrantAccess(sentinel, k)
      BY <1>3, <2>1, <3>1 DEF GrantAccess, credited
    <3>2. CASE DenyAccess(sentinel, k)
      BY <1>3, <2>1, <3>2 DEF DenyAccess, credited
    <3> QED
      BY <3>1, <3>2
  <2>3. lamports'[s] >= lamports[s]
    BY <2>1, <2>2
  <2> QED
    BY <1>1, <1>3, <2>3 DEF close, RequestStays, PassportTypeOK
<1> QED
  BY <1>2, <1>3

\* Nobody takes the place of an open request, whatever else is requested, decided,
\* configured or transferred (try_request_access for the same service key fails).
THEOREM PendingRequestsAreKept == Spec => PendingRequestsKept
<1> DEFINE Kept ==
      \A s \in ServiceKeys : is_requested[s] /\ is_requested'[s] =>
        /\ rent_beneficiary_key'[s] = rent_beneficiary_key[s]
        /\ request_fee_lamports'[s] = request_fee_lamports[s]
        /\ lamports'[s] >= lamports[s]
<1>1. ASSUME PassportInv, [Next]_vars, NEW s \in ServiceKeys PROVE RequestStays(s)
  <2>1. lamports \in [Accounts -> Nat] /\ s \in Accounts /\ s \notin Wallets
    BY <1>1, AccountsAssumption DEF PassportInv, PassportTypeOK, Accounts
  <2>2. CASE \E from \in Wallets, to \in Accounts, amount \in TransferAmounts :
               Transfer(from, to, amount)
    <3>1. PICK from \in Wallets, to \in Accounts, amount \in TransferAmounts :
            Transfer(from, to, amount)
      BY <2>2
    <3>2. from \in Accounts /\ from # s /\ amount \in Nat
      BY <2>1, SettingsAssumption DEF Accounts
    <3>3. lamports'[s] >= lamports[s]
      BY <2>1, <3>1, <3>2 DEF Transfer, transferred, credited
    <3> QED
      BY <3>1, <3>3, RecordsStay DEF Transfer
  <2>3. CASE \E payer \in Wallets : InitializeProgram(payer)
    <3>1. PICK payer \in Wallets : InitializeProgram(payer)
      BY <2>3
    <3>2. PROGRAM_CONFIG \in Accounts \ Wallets /\ ConfigRent \in Nat
      BY AccountsAssumption, LamportsAssumption DEF Accounts
    <3>3. lamports'[s] >= lamports[s]
      BY <1>1, <2>1, <3>1, <3>2, CreateAccount DEF InitializeProgram, PassportInv
    <3> QED
      BY <3>1, <3>3, RecordsStay DEF InitializeProgram
  <2>4. CASE \/ \E admin_key \in Keys : SetAdmin(admin_key)
             \/ \E signer \in Wallets : ConfigureProgram(signer)
             \/ UNCHANGED vars
    <3>1. UNCHANGED <<lamports, requestVars>>
      BY <2>4 DEF SetAdmin, ConfigureProgram, vars, requestVars
    <3> QED
      BY <2>1, <3>1, RecordsStay
  <2>5. CASE \E payer \in Wallets, k \in ServiceKeys, n \in BackupIdCounts :
               RequestAccess(payer, k, n)
    BY <1>1, <2>5, RequestAccessKeeps
  <2>6. CASE \/ \E signer \in Wallets, k \in ServiceKeys : GrantAccess(signer, k)
             \/ \E signer \in Wallets, k \in ServiceKeys : DenyAccess(signer, k)
    BY <1>1, <2>6, DecisionKeeps
  <2> QED
    BY <1>1, <2>2, <2>3, <2>4, <2>5, <2>6 DEF Next
<1>2. ASSUME PassportInv, [Next]_vars PROVE Kept
  BY <1>1, <1>2 DEF RequestStays
<1> QED
  BY <1>2, PassportInvariant, PTL DEF Spec, PendingRequestsKept
==============================================================================
