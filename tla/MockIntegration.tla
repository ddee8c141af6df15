--------------------------- MODULE MockIntegration ---------------------------
(***************************************************************************)
(* The mock rewards integration of the repository, composed with the       *)
(* revenue-distribution program.  Every integration keeps one distribution *)
(* account and one bucket of 2Z per DZ epoch; CollectIntegrationRewards    *)
(* calls it to move the bucket of an epoch to that epoch's distribution.   *)
(***************************************************************************)
EXTENDS RevenueProperties

CONSTANTS
  IntegrationEpochs,  \* bound: epochs an integration prepares, later ones included
  MaxDeposit          \* bound: 2Z that reaches the buckets of an epoch

\* Anyone may prepare the accounts of every epoch the program completes.
ASSUME IntegrationEpochsAssumption == Epochs \subseteq IntegrationEpochs

Accounts == Integrations \X IntegrationEpochs

VARIABLES
  integration_distributions,  \* the accounts <<p, e>> that have been initialized
  bucket_2z,                  \* the 2Z in their buckets
  deposited_2z                \* history: the 2Z ever put into the buckets of an epoch

mockVars == <<integration_distributions, bucket_2z, deposited_2z>>

IntegrationInit ==
  /\ Init
  /\ integration_distributions = {}
  /\ bucket_2z = [a \in Accounts |-> 0]
  /\ deposited_2z = [e \in IntegrationEpochs |-> 0]

\* Anyone may pay for the accounts of any epoch, once.
InitializeIntegrationDistribution(p, dz_epoch) ==
  /\ <<p, dz_epoch>> \notin integration_distributions
  /\ integration_distributions' = integration_distributions \cup {<<p, dz_epoch>>}
  /\ UNCHANGED <<vars, bucket_2z, deposited_2z>>

\* The integration's revenue, a token transfer to a bucket that exists.
DepositRevenue(p, dz_epoch, amount) ==
  /\ <<p, dz_epoch>> \in integration_distributions
  /\ deposited_2z[dz_epoch] + amount <= MaxDeposit
  /\ bucket_2z' = [bucket_2z EXCEPT ![<<p, dz_epoch>>] = @ + amount]
  /\ deposited_2z' = [deposited_2z EXCEPT ![dz_epoch] = @ + amount]
  /\ UNCHANGED <<vars, integration_distributions>>

\* Faulty variant: the two epochs are not compared.
is_any_distribution(p, integration_dz_epoch, e) ==
  <<p, integration_dz_epoch>> \in integration_distributions

\* The interface's checks: the integration's account is for the calling distribution's
\* epoch.  The destination belongs to the distribution, and only it can sign the call.
is_distribution_of_epoch(p, integration_dz_epoch, e) ==
  /\ <<p, integration_dz_epoch>> \in integration_distributions
  /\ integration_dz_epoch = e

\* WithdrawIntegrationRewards moves the whole balance of the account passed as bucket.
\* That account is the bucket or another, empty, token account of the same authority: its
\* address is not compared with the bucket's.
Withdraw(p, integration_dz_epoch, e) ==
  /\ is_distribution_of_epoch(p, integration_dz_epoch, e)
  /\ \/ /\ CollectIntegrationRewards(e, p, bucket_2z[<<p, integration_dz_epoch>>])
        /\ bucket_2z' = [bucket_2z EXCEPT ![<<p, integration_dz_epoch>>] = 0]
     \/ /\ CollectIntegrationRewards(e, p, 0)
        /\ UNCHANGED bucket_2z
  /\ UNCHANGED <<integration_distributions, deposited_2z>>

CollectBucket(e, p) ==
  \E integration_dz_epoch \in IntegrationEpochs : Withdraw(p, integration_dz_epoch, e)

IntegrationNext ==
  \/ (OwnStep \/ SwapSol \/ \E e \in Epochs : Sweep(e)) /\ UNCHANGED mockVars
  \/ \E p \in Integrations, e \in IntegrationEpochs : InitializeIntegrationDistribution(p, e)
  \/ \E p \in Integrations, e \in IntegrationEpochs, amount \in TokenAmounts :
        DepositRevenue(p, e, amount)
  \/ \E e \in Epochs, p \in Integrations : CollectBucket(e, p)

(***************************************************************************)
(* Besides the steps of Fairness, anyone may collect from an integration   *)
(* whose accounts for the epoch exist; the mock then has no way to refuse. *)
(* Nobody has to prepare those accounts, and without them an epoch cannot  *)
(* be collected: it waits behind the gate, perhaps for ever.               *)
(***************************************************************************)
allVars == <<vars, mockVars>>

IntegrationFairness ==
  /\ WF_allVars(SwapSol /\ UNCHANGED mockVars)
  /\ \A e \in Epochs :
       /\ WF_allVars(Sweep(e) /\ UNCHANGED mockVars)
       /\ WF_allVars(DistributeReward(e) /\ UNCHANGED mockVars)
  /\ \A e \in Epochs, p \in Integrations : WF_allVars(CollectBucket(e, p))

IntegrationSpec == IntegrationInit /\ [][IntegrationNext]_allVars /\ IntegrationFairness

\* The revenue of an integration for an epoch is in its bucket or in the distribution of
\* that epoch, never in another epoch's, whichever buckets are filled early or late and in
\* whatever order the integrations are collected.
RevenueStaysInEpoch ==
  \A e \in Epochs :
    deposited_2z[e] =
      Total([p \in Integrations |-> bucket_2z[<<p, e>>]]) + collected_2z_from_integrations[e]

\* Every integration of the epoch's snapshot has its accounts for the epoch.
IsCollectable(e) ==
  \A p \in DOMAIN registration_index :
    registration_index[p] < integrations_count_snapshot[e] =>
      <<p, e>> \in integration_distributions

\* A swept epoch that every contributor can be paid from and every integration of its
\* snapshot can be collected for is distributed completely in the end.  Integrations
\* registered later do not matter to it, and neither does another epoch that cannot be
\* collected: CollectIntegrationRewards and DistributeRewards hold back that epoch alone.
SweptRewardsAreDistributed ==
  \A e \in Epochs :
    has_swept_2z_tokens[e] /\ IsPayable(e) /\ IsCollectable(e)
      ~> are_all_rewards_distributed(e)
=============================================================================
