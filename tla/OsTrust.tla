------------------------------- MODULE OsTrust -------------------------------
(***************************************************************************)
(* Who may install an OS (epilykos_os_trust.py and its callers).  A policy *)
(* signed by the offline root lists the keys that may authorize packages   *)
(* and the signers RAUC may accept; a newer epoch revokes what it leaves   *)
(* out.  The policy in force is in the redundant environment, RAUC works   *)
(* with the keyring written from it when its service started, and files    *)
(* that were verified against an older policy wait in checked.json and in  *)
(* the journal.                                                            *)
(*                                                                         *)
(* Whatever the root, the listed keys and the listed signers ever signed   *)
(* may be served again by the feed.  A policy or entry that is malformed,  *)
(* for another board, channel or host, or whose signature does not verify  *)
(* is not in Policies or Entries: every reader refuses it.                 *)
(***************************************************************************)
EXTENDS Integers

CONSTANTS
  Parties,      \* holders of index keys and of RAUC signing keys
  Nothing,      \* no such file
  MaxEpoch,
  MaxSeq,
  MaxCuts,      \* power cuts
  MaxKills,     \* killed workers and RAUC services
  MaxIOErrors   \* saves and service restarts that report an error

ASSUME TrustAssumption ==
  /\ Parties # {}
  /\ MaxEpoch \in Nat \ {0} /\ MaxSeq \in Nat \ {0}
  /\ MaxCuts \in Nat /\ MaxKills \in Nat /\ MaxIOErrors \in Nat

\* A policy as verify_policy returns it, an entry as verify_os_release reads
\* it: key signed the entry, signer the bundle it names.
Policies == [epoch : 1..MaxEpoch, listed : (SUBSET Parties) \ {{}}]
Entries == [seq : 1..MaxSeq, epoch : 1..MaxEpoch, key : Parties, signer : Parties]
Files == [policy : Policies, entry : Entries]

ASSUME NothingAssumption == Nothing \notin Files

VARIABLES
  policy,   \* epk_trust_policy and epk_trust_epoch, saved in one batch
  floor,    \* epk_os_floor
  keyring,  \* the policy from which the running RAUC service has its keyring
  checked,  \* checked.json
  state,    \* the job's state
  files,    \* the signed files the job was admitted with
  worker,   \* where the worker is in work()
  running,  \* the sequence of the booted slot
  before,   \* the sequence of the slot the job came from
  budget

job == <<state, files, before>>
vars == <<policy, floor, keyring, checked, job, worker, running, budget>>

Init ==
  /\ policy \in Policies /\ policy.epoch = 1
  /\ keyring = policy
  /\ floor = 0 /\ running = 0 /\ before = 0
  /\ checked = Nothing
  /\ state = "none" /\ files = Nothing /\ worker = "off"
  /\ budget = [cuts |-> MaxCuts, kills |-> MaxKills, io |-> MaxIOErrors]

Spend(what) ==
  /\ budget[what] > 0
  /\ budget' = [budget EXCEPT ![what] = @ - 1]

-----------------------------------------------------------------------------
\* verify_policy with current: newer, or byte for byte the one in force.
Accepts(p) == p.epoch > policy.epoch \/ p = policy

\* verify_os_release: this epoch's, and by a key the policy lists.
Authorizes(p, e) == e.epoch = p.epoch /\ e.key \in p.listed

\* admissible: above the confirmed floor and the running system.
Admissible(e) == e.seq > floor /\ e.seq > running

\* Mutant: RAUC checks the signer anyway.
TrustsAnyBundle(p, e) == TRUE

\* check_bundle: the signer of the bundle, and the bundle is the entry's.
TrustsBundle(p, e) == e.signer \in p.listed

\* verify_release.
Verifies(f) == Accepts(f.policy) /\ Authorizes(f.policy, f.entry)

\* check: the newest files of the feed, kept for Install.
Check(f) ==
  /\ Verifies(f)
  /\ Admissible(f.entry)
  /\ checked' = f
  /\ UNCHANGED <<policy, floor, keyring, job, worker, running, budget>>

Install ==
  /\ state \in {"none", "failed", "done"} /\ worker = "off"
  /\ checked # Nothing
  /\ Verifies(checked) /\ Admissible(checked.entry)
  /\ state' = "queued" /\ files' = checked /\ before' = running
  /\ UNCHANGED <<policy, floor, keyring, checked, worker, running, budget>>

-----------------------------------------------------------------------------
(* work(): from the start again after every interruption.                  *)

Fails == state' = "failed" /\ worker' = "off"

WorkBegin ==
  /\ state = "queued" /\ worker = "off"
  /\ \/ /\ Verifies(files)
        /\ worker' = IF files.policy.epoch > policy.epoch THEN "admit" ELSE "authorize"
        /\ UNCHANGED state
     \/ ~Verifies(files) /\ Fails
  /\ UNCHANGED <<policy, floor, keyring, checked, files, before, running, budget>>

\* admit_policy, one batch and read back; "trust advances first".
AdmitPolicy ==
  /\ worker = "admit"
  /\ policy' = files.policy
  /\ worker' = "restart"
  /\ UNCHANGED <<floor, keyring, checked, job, running, budget>>

\* The save reports an error, whether or not it reached the card.
AdmitFails ==
  /\ worker = "admit"
  /\ Spend("io")
  /\ policy' \in {policy, files.policy}
  /\ Fails
  /\ UNCHANGED <<floor, keyring, checked, files, before, running>>

RestartRauc ==
  /\ worker = "restart"
  /\ keyring' = policy
  /\ worker' = "authorize"
  /\ UNCHANGED <<policy, floor, checked, job, running, budget>>

RestartRaucFails ==
  /\ worker = "restart"
  /\ Spend("io")
  /\ Fails
  /\ UNCHANGED <<policy, floor, keyring, checked, files, before, running>>

Authorize ==
  /\ worker = "authorize"
  /\ IF Authorizes(policy, files.entry) /\ Admissible(files.entry)
     THEN worker' = "verify" /\ UNCHANGED state
     ELSE Fails
  /\ UNCHANGED <<policy, floor, keyring, checked, files, before, running, budget>>

\* After the download, which may fail as well.
VerifyBundle ==
  /\ worker = "verify"
  /\ \/ TrustsBundle(policy, files.entry) /\ state' = "installing" /\ worker' = "off"
     \/ Fails
  /\ UNCHANGED <<policy, floor, keyring, checked, files, before, running, budget>>

\* RAUC accepts any signer whose certificate chains to a CA of its keyring.
\* Which CA issued which certificate is left open: it may accept or refuse.
RaucInstalls ==
  /\ state = "installing"
  /\ state' \in {"ready", "failed"}
  /\ UNCHANGED <<policy, floor, keyring, checked, files, before, worker, running, budget>>

-----------------------------------------------------------------------------
(* Restart, trial and the machine.                                         *)

\* revalidate: under the policy and the floor of now.
Revalidates == Authorizes(policy, files.entry) /\ Admissible(files.entry)

\* A boot starts RAUC, whose keyring is written from the policy in force.
Boots == worker' = "off" /\ keyring' = policy

Restart ==
  /\ state = "ready"
  /\ Revalidates
  /\ state' = "trial" /\ running' = files.entry.seq
  /\ Boots
  /\ UNCHANGED <<policy, floor, checked, files, before, budget>>

Discard ==
  /\ state = "ready"
  /\ state' = "done"
  /\ UNCHANGED <<policy, floor, keyring, checked, files, before, worker, running, budget>>

\* The confirmation raises the floor to the sequence it confirmed.
RaisedFloor == IF files.entry.seq > floor THEN files.entry.seq ELSE floor

Confirm ==
  /\ state = "trial"
  /\ floor' = RaisedFloor
  /\ state' = "done"
  /\ UNCHANGED <<policy, keyring, checked, files, before, worker, running, budget>>

FallsBack == state = "trial" /\ state' = "failed" /\ running' = before

TrialFails ==
  /\ FallsBack
  /\ Boots
  /\ UNCHANGED <<policy, floor, checked, files, before, budget>>

PowerCut ==
  /\ Spend("cuts")
  /\ \/ FallsBack
     \/ state = "installing" /\ state' = "failed" /\ UNCHANGED running
     \/ state \notin {"trial", "installing"} /\ UNCHANGED <<state, running>>
  /\ Boots
  /\ UNCHANGED <<policy, floor, checked, files, before>>

WorkerKilled ==
  /\ worker # "off"
  /\ Spend("kills")
  /\ worker' = "off"
  /\ UNCHANGED <<policy, floor, keyring, checked, job, running>>

RaucKilled ==
  /\ Spend("kills")
  /\ keyring' = policy
  /\ state' = IF state = "installing" THEN "failed" ELSE state
  /\ UNCHANGED <<policy, floor, checked, files, before, worker, running>>

\* Mutant: the environment of the image's first boot is put back as well.
FactoryResetSeeds ==
  /\ state \in {"none", "failed", "done", "ready"}
  /\ checked' = Nothing
  /\ state' = "none" /\ files' = Nothing /\ before' = running
  /\ policy' \in {p \in Policies : p.epoch = 1} /\ keyring' = policy'
  /\ worker' = "off" /\ floor' = 0
  /\ UNCHANGED <<running, budget>>

\* Factory reset: DATA goes, the environment stays.
FactoryReset ==
  /\ state \in {"none", "failed", "done", "ready"}
  /\ checked' = Nothing
  /\ state' = "none" /\ files' = Nothing /\ before' = running
  /\ Boots
  /\ UNCHANGED <<policy, floor, running, budget>>

Next ==
  \/ \E f \in Files : Check(f)
  \/ Install \/ WorkBegin \/ AdmitPolicy \/ AdmitFails \/ RestartRauc \/ RestartRaucFails
  \/ Authorize \/ VerifyBundle \/ RaucInstalls
  \/ Restart \/ Discard \/ Confirm \/ TrialFails
  \/ PowerCut \/ WorkerKilled \/ RaucKilled \/ FactoryReset

Spec == Init /\ [][Next]_vars

-----------------------------------------------------------------------------
TypeOK ==
  /\ policy \in Policies /\ keyring \in Policies
  /\ floor \in 0..MaxSeq /\ running \in 0..MaxSeq /\ before \in 0..MaxSeq
  /\ checked \in Files \cup {Nothing} /\ files \in Files \cup {Nothing}
  /\ state \in {"none", "queued", "installing", "ready", "trial", "failed", "done"}
  /\ worker \in {"off", "admit", "restart", "authorize", "verify"}

\* RAUC writes, and the box holds ready or tries, only what the policy in
\* force authorizes and whose signer it lists, although the files were
\* verified against an older policy, RAUC may run with an older keyring, and
\* a policy may land in a save that reported an error.
OnlyAuthorized ==
  state \in {"installing", "ready", "trial"} =>
    /\ Authorizes(policy, files.entry)
    /\ files.entry.signer \in policy.listed

\* A policy is never taken back or replaced within its epoch: not by stale
\* files in checked.json or in a journal, a repeated job or a factory reset.
TrustForward == [][policy' # policy => policy'.epoch > policy.epoch]_vars

\* What is written, ready or tried is newer than every system this box ever
\* confirmed and than the one it would fall back to, although check, install
\* and the worker read the floor at different times and the feed may serve an
\* old entry again.
OnlyNewer ==
  state \in {"installing", "ready", "trial"} =>
    files.entry.seq > floor /\ files.entry.seq > before

\* Both hold of everything that gets as far as RAUC.
InstallsAdmitted == OnlyAuthorized /\ OnlyNewer

\* "On policy change, ... reload/restart the service under maintenance
\* exclusion before another install" (os-dashboard-updates-design.md:287).
\* restart_rauc runs only in the pass of the worker that admitted the policy.
KeyringInForce == state = "installing" => keyring = policy
=============================================================================
