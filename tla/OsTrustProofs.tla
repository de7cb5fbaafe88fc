---------------------------- MODULE OsTrustProofs ----------------------------
(***************************************************************************)
(* Proofs about the trust policy (OsTrust), for every set of parties and   *)
(* any number of epochs, sequences, power cuts, killed processes and       *)
(* failing commands.                                                       *)
(***************************************************************************)
EXTENDS OsTrust, TLAPS

-----------------------------------------------------------------------------
(* The inductive invariant.                                                *)

\* There is a job, with the files it was admitted with, and a worker only
\* for a queued one.
JobInv ==
  /\ state # "none" => files \in Files
  /\ worker # "off" => state = "queued"

\* Until its restart a job runs on the system it was admitted on, so a
\* comparison with the running system is one with the system it falls back to.
SourceInv == state \in {"queued", "installing", "ready"} => running = before

\* What the worker has established where it is in work(): a policy it is
\* about to admit is newer; an entry it hands to RAUC was authorized by the
\* policy, and above the floor and the running system, that still hold.
PassInv ==
  /\ worker = "admit" => files.policy.epoch > policy.epoch
  /\ worker = "verify" => Authorizes(policy, files.entry) /\ Admissible(files.entry)

TrustInv == TypeOK /\ JobInv /\ SourceInv /\ PassInv /\ InstallsAdmitted

-----------------------------------------------------------------------------
LEMMA FilesFields ==
  ASSUME NEW f \in Files
  PROVE  /\ f.policy \in Policies /\ f.policy.epoch \in 1..MaxEpoch
         /\ f.entry \in Entries /\ f.entry.seq \in 1..MaxSeq
         /\ f # Nothing
BY NothingAssumption DEF Files, Policies, Entries

LEMMA InitInv == Init => TrustInv
BY TrustAssumption
DEF Init, TrustInv, TypeOK, JobInv, SourceInv, PassInv, InstallsAdmitted,
    OnlyAuthorized, OnlyNewer

(* A step that leaves the policy, the floor and the job's files alone and  *)
(* starts no pass of the worker keeps what was established about the job.  *)
LEMMA StepInv == TrustInv /\ [Next]_vars => TrustInv'
<1> SUFFICES ASSUME TrustInv, [Next]_vars PROVE TrustInv'
  OBVIOUS
<1> USE TrustAssumption
    DEF TrustInv, JobInv, SourceInv, PassInv, InstallsAdmitted, OnlyAuthorized, OnlyNewer,
        Authorizes, Admissible, job
<1>t. /\ policy \in Policies /\ policy.epoch \in 1..MaxEpoch
      /\ floor \in Nat /\ running \in Nat /\ before \in Nat
      /\ state # "none" => files.entry.seq \in 1..MaxSeq /\ files.policy \in Policies
                           /\ files # Nothing
  BY FilesFields DEF TypeOK, Policies
<1>1. ASSUME NEW f \in Files, Check(f) PROVE TrustInv'
  BY <1>1 DEF Check, TypeOK
<1>2. CASE Install
  <2>1. checked \in Files
    BY <1>2 DEF Install, TypeOK
  <2>2. checked.entry.seq \in 1..MaxSeq
    BY <2>1, FilesFields
  <2> QED BY <1>2, <1>t, <2>1, <2>2 DEF Install, TypeOK
<1>3. CASE WorkBegin
  BY <1>3, <1>t DEF WorkBegin, Fails, Verifies, Accepts, TypeOK
<1>4. CASE AdmitPolicy
  BY <1>4, <1>t DEF AdmitPolicy, TypeOK
<1>5. CASE AdmitFails
  BY <1>5, <1>t DEF AdmitFails, Fails, TypeOK
<1>6. CASE RestartRauc
  BY <1>6, <1>t DEF RestartRauc, TypeOK
<1>7. CASE RestartRaucFails
  BY <1>7, <1>t DEF RestartRaucFails, Fails, TypeOK
<1>8. CASE Authorize
  BY <1>8, <1>t DEF Authorize, Fails, TypeOK
<1>9. CASE VerifyBundle
  BY <1>9, <1>t DEF VerifyBundle, Fails, TrustsBundle, TypeOK
<1>10. CASE RaucInstalls
  BY <1>10, <1>t DEF RaucInstalls, TypeOK
<1>11. CASE Restart
  BY <1>11, <1>t DEF Restart, Revalidates, Boots, TypeOK
<1>12. CASE Discard
  BY <1>12, <1>t DEF Discard, TypeOK
<1>13. CASE Confirm
  BY <1>13, <1>t DEF Confirm, RaisedFloor, TypeOK
<1>14. CASE TrialFails
  BY <1>14, <1>t DEF TrialFails, FallsBack, Boots, TypeOK
<1>15. CASE PowerCut
  BY <1>15, <1>t DEF PowerCut, FallsBack, Boots, TypeOK
<1>16. CASE WorkerKilled
  BY <1>16, <1>t DEF WorkerKilled, TypeOK
<1>17. CASE RaucKilled
  BY <1>17, <1>t DEF RaucKilled, TypeOK
<1>18. CASE FactoryReset
  BY <1>18, <1>t DEF FactoryReset, Boots, TypeOK
<1>19. CASE UNCHANGED vars
  BY <1>19 DEF vars, TypeOK
<1> QED
  BY <1>1, <1>2, <1>3, <1>4, <1>5, <1>6, <1>7, <1>8, <1>9, <1>10, <1>11, <1>12, <1>13,
     <1>14, <1>15, <1>16, <1>17, <1>18, <1>19 DEF Next

-----------------------------------------------------------------------------
(* What the box installs, keeps ready and tries is authorized by the       *)
(* policy in force, signed by a signer it lists, and newer than every      *)
(* system it confirmed and than the one it would fall back to.             *)
THEOREM OnlyAdmittedInstalls == Spec => []InstallsAdmitted
<1>1. TrustInv => InstallsAdmitted
  BY DEF TrustInv
<1> QED BY InitInv, StepInv, <1>1, PTL DEF Spec

(* The policy in the environment is only ever replaced by one of a later   *)
(* epoch: not by a save that reported an error, stale files or a reset.    *)
THEOREM TrustOnlyAdvances == Spec => TrustForward
<1>1. TrustInv /\ [Next]_vars => [policy' # policy => policy'.epoch > policy.epoch]_vars
  <2> SUFFICES ASSUME TrustInv, Next PROVE policy' # policy => policy'.epoch > policy.epoch
    BY DEF vars
  <2>1. CASE AdmitPolicy \/ AdmitFails
    BY <2>1 DEF AdmitPolicy, AdmitFails, TrustInv, PassInv
  <2>2. CASE ~(AdmitPolicy \/ AdmitFails)
    BY <2>2 DEF Next, Check, Install, WorkBegin, RestartRauc, RestartRaucFails, Authorize,
       VerifyBundle, RaucInstalls, Restart, Discard, Confirm, TrialFails, PowerCut,
       WorkerKilled, RaucKilled, FactoryReset
  <2> QED BY <2>1, <2>2
<1> QED BY InitInv, StepInv, <1>1, PTL DEF Spec, TrustForward
=============================================================================
