------------------------------- MODULE TxPolicy -------------------------------
(***************************************************************************)
(* Policy hot-reload at the sender agent: the two layers that enforce a    *)
(* VM's MaxRate, the sender tree (TxAgent) and the NIC's rate leaf         *)
(* (hw_maxrate.py), follow the registry file while the loop runs. The file *)
(* is edited in place, so the agent may read it half written; a devlink    *)
(* command may fail; a firmware reset drops what the NIC was told.         *)
(***************************************************************************)
EXTENDS TxAgent

CONSTANTS
  Vms, VmOf,    \* source VMs, and the VM of each flow-set
  Caps,         \* MaxRate levels a policy may give a VM
  ReloadTicks   \* reload_period_s in ticks

NoCap == Top + 1  \* a VM without max_rate_bps; a rate leaf that is off
Policies == [Vms -> Caps \cup {NoCap}]

ASSUME PolicyAssumption ==
  /\ VmOf \in [Flows -> Vms]
  /\ Caps \subseteq Paces
  /\ ReloadTicks \in Nat \ {0}
  /\ 1 \in Steps

VARIABLES
  policy,  \* stree.policy: MaxRate per VM
  hw,      \* MaxRate programmed in the NIC per VM
  file,    \* what the registry says, or will say when it is no longer torn
  torn,    \* the registry is half written
  edited,  \* the registry's mtime differs from reg_mtime
  chkAge,  \* now - last_reload_chk
  apart,   \* VMs whose last devlink command failed or whose leaf was dropped
  beat     \* parity of the ticks so far, for fairness

fileVars == <<file, torn>>
policyVars == <<policy, hw, fileVars, edited, chkAge, apart, beat>>
policedVars == <<vars, policyVars>>

------------------------------------------------------------------------------
(* The reload *)

\* What trees() computes is at most the VM's MaxRate.
TreesWithinPolicy ==
  treeAge' = 0 => \A f \in Flows : want'[f] <= policy[VmOf[f]]

\* Mutant: the hardware is synchronised before the policy is loaded.
SyncedBefore(leaf, pol, ok) ==
  [v \in Vms |-> IF policy[v] # NoCap /\ v \in ok THEN policy[v] ELSE leaf[v]]

\* Mutant: only a cut is written.
SyncedCuts(leaf, pol, ok) ==
  [v \in Vms |-> IF pol[v] < leaf[v] /\ v \in ok THEN pol[v] ELSE leaf[v]]

\* hw.sync on rate leaves: a VM without MaxRate in the policy is left alone, and so
\* is one whose devlink command fails (ok is the set of those that succeed).
SyncedHw(leaf, pol, ok) ==
  [v \in Vms |-> IF pol[v] # NoCap /\ v \in ok THEN pol[v] ELSE leaf[v]]

\* VMs whose MaxRate in the policy was not written.
Refused(pol, ok) == {v \in Vms : pol[v] # NoCap /\ v \notin ok}

\* Mutant: the policy kept is what the hardware is given, the VMs with a MaxRate.
LoadCapped ==
  \E ok \in SUBSET Vms :
    /\ policy' = [v \in {w \in Vms : file[w] # NoCap} |-> file[v]]
    /\ hw' = SyncedHw(hw, file, ok)
    /\ apart' = Refused(file, ok)

\* The registry is parsed and both layers take its policy.
Load ==
  \E ok \in SUBSET Vms :
    /\ policy' = file
    /\ hw' = SyncedHw(hw, file, ok)
    /\ apart' = Refused(file, ok)

\* maybe_reload: the new mtime is remembered even if the file does not parse.
MaybeReload(d) ==
  LET age == Saturated(chkAge, d, ReloadTicks)
  IN IF age < ReloadTicks
       THEN chkAge' = age /\ UNCHANGED <<policy, hw, edited, apart>>
       ELSE /\ chkAge' = 0
            /\ edited' = FALSE
            /\ IF edited /\ ~torn THEN Load ELSE UNCHANGED <<policy, hw, apart>>

\* The ticker calls it after the telemetry path.
LoopPolicy(d) ==
  /\ Loop(d)
  /\ TreesWithinPolicy
  /\ IF d > 0 THEN MaybeReload(d)
              ELSE UNCHANGED <<policy, hw, edited, chkAge, apart>>
  /\ beat' = (beat + d) % 2
  /\ UNCHANGED fileVars

------------------------------------------------------------------------------
(* The operator and the NIC *)

BeginEdit(v, cap) ==
  /\ ~torn /\ file[v] # cap
  /\ file' = [file EXCEPT ![v] = cap]
  /\ torn' = TRUE /\ edited' = TRUE
  /\ UNCHANGED <<vars, policy, hw, chkAge, apart, beat>>

FinishEdit ==
  /\ torn
  /\ torn' = FALSE /\ edited' = TRUE
  /\ UNCHANGED <<vars, policy, hw, file, chkAge, apart, beat>>

\* A firmware reset or a hand-run command turns a rate leaf off.
DropLeaf(v) ==
  /\ hw[v] # NoCap
  /\ hw' = [hw EXCEPT ![v] = NoCap]
  /\ apart' = apart \cup {v}
  /\ UNCHANGED <<vars, policy, fileVars, edited, chkAge, beat>>

\* The agent has started: the registry was read, the NIC synchronised with it from
\* whatever it enforced before, and then the mtime taken. An edit made meanwhile is in
\* the file, or half of it, and counts as noticed.
PolicyInit ==
  /\ Init
  /\ policy \in Policies /\ file \in Policies
  /\ torn \in BOOLEAN /\ edited = FALSE
  /\ \E was \in Policies, ok \in SUBSET Vms :
       hw = SyncedHw(was, policy, ok) /\ apart = Refused(policy, ok)
  /\ chkAge = 0
  /\ beat = 0

PolicyNext ==
  \/ \E d \in Steps : LoopPolicy(d)
  \/ \E v \in Vms, cap \in Caps \cup {NoCap} : BeginEdit(v, cap)
  \/ FinishEdit
  \/ \E v \in Vms : DropLeaf(v)

PolicySpec == PolicyInit /\ [][PolicyNext]_policedVars

\* Time passes: an iteration of the loop is always possible, and so is one that
\* begins a tick.
Beats == beat' = 1 - beat

\* The loop never stops and time passes in it; an edit is finished.
FairSpec == PolicySpec /\ WF_beat(Beats) /\ WF_policedVars(FinishEdit)

------------------------------------------------------------------------------
(* Properties *)

\* Every variable has its type.
PolicyTypeOK ==
  /\ TypeOK
  /\ {policy, hw, file} \subseteq Policies
  /\ torn \in BOOLEAN /\ edited \in BOOLEAN
  /\ chkAge \in 0 .. ReloadTicks
  /\ apart \in SUBSET Vms
  /\ beat \in 0 .. 1

\* "The two layers can never be configured apart": the NIC enforces the policy's
\* MaxRate but for a VM whose command failed or whose leaf was dropped since.
ApartOnlyByFault ==
  \A v \in Vms : policy[v] # NoCap /\ v \notin apart => hw[v] = policy[v]

FileIsStable == <>[][file' = file]_file

\* The agent has what the registry said when it started, or an edit made since is
\* noticed: one that fell between its reading and the mtime waits for the next.
NoEditMissed == policy = file \/ <>edited

\* A MaxRate that is left alone takes effect in the tree while telemetry keeps
\* coming, however the edit, the reload and the limiter interleave.
PolicyTakesEffect ==
  FileIsStable /\ NoEditMissed /\ []<>(treeAge = 0) =>
    <>[](\A f \in Flows : applied[f] <= file[VmOf[f]])

\* A MaxRate that is left alone takes effect in the NIC, telemetry or not, unless
\* its command fails or its leaf is dropped.
HardwareTakesEffect ==
  FileIsStable /\ NoEditMissed =>
    <>[](\A v \in Vms : file[v] = NoCap \/ v \in apart \/ hw[v] = file[v])

\* "Both layers must move together: reloading only the tree would leave the
\* hardware enforcing the old allowance (and a raise would not take effect at
\* all)": a VM whose MaxRate a reload lifts is not held by the NIC for ever.
RaiseTakesEffect ==
  \A v \in Vms :
    policy[v] # NoCap /\ <>[](policy[v] = NoCap) => <>(hw[v] = NoCap)

==============================================================================
