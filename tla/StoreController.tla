--------------------------- MODULE StoreController ---------------------------
(***************************************************************************)
(* The ConfigStore controller (internal/controller/configstore_controller) *)
(* and the restores that read the history it prunes.                       *)
(*                                                                         *)
(* Every plugin pod runs the controller, without leader election, and      *)
(* reconciles one ConfigStore at a time: a pass reads the ConfigStore from *)
(* the pod's informer cache, checks it, sweeps the superseded snapshots of *)
(* one history and patches the status.  Meanwhile captures add snapshots,  *)
(* the restore webhook lists the history and reads what it selected, users *)
(* edit the retention window and the objects the store refers to come and  *)
(* go.                                                                     *)
(*                                                                         *)
(* Times are in ticks.  A key is stamped at most Delay ticks before its    *)
(* object lands: the request takes time, clocks of two pods differ and the *)
(* stamp is cut to the second.  A restore takes at most Delay as well      *)
(* (resolveTimeout).  A window is a day or more, far longer.               *)
(***************************************************************************)
EXTENDS SnapshotHistory, Integers

CONSTANTS
    Replicas,       \* plugin pods
    Windows,        \* retention windows users choose among
    Gens, Hashes,   \* generations and hashes of captures
    Delay,          \* longest time between a clock reading and its effect
    DurationLimit,  \* what a time.Duration cannot hold any more: 2^63 ns
    None            \* nothing published, no pass, no restore

CONSTANTS
    MaxTime,        \* bound on the clock
    MaxSnapshots,   \* bound on the captures
    MaxEdits,       \* bound on edits of the spec and of what it refers to
    MaxFaults       \* bound on passes or requests that fail

(* effectiveRetention: zero keeps everything.                              *)
Forever == 0

(* Windows whose length in nanoseconds is an int64.                        *)
Representable == \A w \in Windows : w < DurationLimit

ASSUME ControllerAssumption ==
    /\ Windows \subseteq Nat /\ Gens \subseteq Nat /\ Hashes \subseteq Nat
    /\ Delay \in Nat /\ DurationLimit \in Nat \ {0}
    /\ MaxTime \in Nat /\ MaxSnapshots \in Nat
    /\ MaxEdits \in Nat /\ MaxFaults \in Nat
    /\ \A w \in Windows : w = Forever \/ w >= 2 * Delay

VARIABLES
    window,     \* spec.retention of the ConfigStore
    usable,     \* would the checks behind Ready pass now?
    status,     \* its status: the Ready condition and the resolved window
    seen,       \* the ConfigStore in each replica's informer cache
    pass,       \* each replica's reconcile in progress
    refs,       \* keys in the bucket
    restore,    \* a restore between its List and its Read
    now, edits, faults,
    archive,    \* every key ever written
    horizon     \* the latest moment outside the window some pass was given

storeVars == <<window, usable, status, seen>>
vars == <<storeVars, pass, refs, restore, now, edits, faults, archive, horizon>>

-----------------------------------------------------------------------------

Statuses == [ready : {"True", "False", "Unknown"}, window : Windows \union {None}]

Verdict(p) == pass[p].verdict

(* Mutant: the resolution is zeroed rather than removed.                   *)
NotReadyZeroed == [ready |-> "False", window |-> Forever]

(* A failed check: Ready is false and nothing is resolved.                 *)
NotReady == [ready |-> "False", window |-> None]

(* Mutant: statuses are equal when their conditions are.                   *)
EqualConditions(a, b) == a.ready = b.ready

(* equalStatus                                                             *)
EqualStatus(a, b) == a = b

(* Client.Status().Patch with MergeFrom: the fields that differ from the   *)
(* status the pass read are written, whatever the status is by then.       *)
MergePatch(current, original, updated) ==
    [f \in DOMAIN current |->
        IF updated[f] # original[f] THEN updated[f] ELSE current[f]]

(* ParseRetentionWindow: a product of int64s, which wraps.                 *)
Duration(w) ==
    IF w < DurationLimit THEN w
    ELSE LET rest == w % (2 * DurationLimit)
         IN  IF rest < DurationLimit THEN rest ELSE rest - 2 * DurationLimit

(* The last moment outside the window.                                     *)
Cutoff(w) == IF w <= now THEN now - w ELSE 0

Later(a, b) == IF a < b THEN b ELSE a

Init ==
    /\ window \in Windows
    /\ usable \in BOOLEAN
    /\ status = [ready |-> "Unknown", window |-> None]
    /\ seen = [p \in Replicas |-> [window |-> window, status |-> status]]
    /\ pass = [p \in Replicas |-> None]
    /\ refs = {} /\ archive = {}
    /\ restore = None
    /\ now = 0 /\ edits = 0 /\ faults = 0 /\ horizon = 0

-----------------------------------------------------------------------------
(* The environment.                                                        *)

Edit ==
    /\ edits < MaxEdits
    /\ edits' = edits + 1
    /\ UNCHANGED <<status, seen, pass, refs, restore, now, faults, archive, horizon>>

EditRetention(w) ==
    /\ w # window
    /\ window' = w
    /\ UNCHANGED usable
    /\ Edit

(* A Secret or ObjectStore is applied, fixed or deleted, the endpoint      *)
(* comes up or goes down.                                                  *)
ToggleUsable ==
    /\ usable' = ~usable
    /\ UNCHANGED window
    /\ Edit

(* The watch delivers the newest version of the ConfigStore.               *)
Observe(p) ==
    /\ seen[p] # [window |-> window, status |-> status]
    /\ seen' = [seen EXCEPT ![p] = [window |-> window, status |-> status]]
    /\ UNCHANGED <<window, usable, status, pass, refs, restore, now, edits, faults,
                   archive, horizon>>

(* SnapshotStore.Write, as a listing shows it.                             *)
Capture(lag, gen, hash) ==
    /\ lag <= now
    /\ Cardinality(archive) < MaxSnapshots
    /\ LET ref == [at |-> now - lag, gen |-> gen, hash |-> hash]
       IN  /\ refs' = refs \union {ref}
           /\ archive' = archive \union {ref}
    /\ UNCHANGED <<storeVars, pass, restore, now, edits, faults, horizon>>

(* The clock.  A restore gives up before it is Delay old.                  *)
Tick ==
    /\ now < MaxTime
    /\ restore # None => now < restore.listed + Delay
    /\ now' = now + 1
    /\ UNCHANGED <<storeVars, pass, refs, restore, edits, faults, archive, horizon>>

-----------------------------------------------------------------------------
(* SelectAtOrBefore: a listing, then a read of the chosen key.             *)

RestoreList(moment, ref) ==
    /\ restore = None
    /\ Selects(refs, moment, ref)
    /\ restore' = [moment |-> moment, listed |-> now, chosen |-> ref]
    /\ UNCHANGED <<storeVars, pass, refs, now, edits, faults, archive, horizon>>

(* The Read, or the timeout: either way the call is over.                  *)
RestoreRead ==
    /\ restore # None
    /\ restore' = None
    /\ UNCHANGED <<storeVars, pass, refs, now, edits, faults, archive, horizon>>

-----------------------------------------------------------------------------
(* A pass: Reconcile, enforceRetention, pruneSuperseded and patchStatus.   *)

Phase(p, phase) == pass[p] # None /\ pass[p].phase = phase

EndPass(p) == pass' = [pass EXCEPT ![p] = None]

ReconcileBegin(p) ==
    /\ pass[p] = None
    /\ pass' = [pass EXCEPT ![p] =
                   [phase |-> "check", original |-> seen[p].status,
                    verdict |-> [ready |-> "True", window |-> Duration(seen[p].window)],
                    asked |-> seen[p].window,
                    cutoff |-> 0, left |-> {}]]
    /\ UNCHANGED <<storeVars, refs, restore, now, edits, faults, archive, horizon>>

CheckFails(p) ==
    /\ Phase(p, "check")
    /\ ~usable
    /\ pass' = [pass EXCEPT ![p].verdict = NotReady, ![p].phase = "patch"]
    /\ UNCHANGED <<storeVars, refs, restore, now, edits, faults, archive, horizon>>

(* The store is usable.  With a window, the sweep fixes its cutoff.        *)
CheckPasses(p) ==
    /\ Phase(p, "check")
    /\ usable
    /\ LET w == Verdict(p).window
       IN  IF w = Forever
           THEN /\ pass' = [pass EXCEPT ![p].phase = "patch"]
                /\ UNCHANGED horizon
           ELSE /\ pass' = [pass EXCEPT ![p].phase = "list", ![p].cutoff = Cutoff(w)]
                /\ horizon' = Later(horizon, Cutoff(pass[p].asked))
    /\ UNCHANGED <<storeVars, refs, restore, now, edits, faults, archive>>

ListSnapshots(p) ==
    /\ Phase(p, "list")
    /\ pass' = [pass EXCEPT ![p].phase = "delete",
                            ![p].left = PlanRetention(refs, pass[p].cutoff)]
    /\ UNCHANGED <<storeVars, refs, restore, now, edits, faults, archive, horizon>>

(* Mutant: superseded snapshots are deleted in no particular order.        *)
DeleteAny(p) ==
    /\ Phase(p, "delete")
    /\ \E ref \in pass[p].left :
          /\ refs' = refs \ {ref}
          /\ pass' = [pass EXCEPT ![p].left = @ \ {ref}]
    /\ UNCHANGED <<storeVars, restore, now, edits, faults, archive, horizon>>

(* The oldest planned snapshot goes; one that is gone already is no error. *)
DeleteOldest(p) ==
    /\ Phase(p, "delete")
    /\ \E ref \in pass[p].left :
          /\ \A other \in pass[p].left : ~KeyLess(other, ref)
          /\ refs' = refs \ {ref}
          /\ pass' = [pass EXCEPT ![p].left = @ \ {ref}]
    /\ UNCHANGED <<storeVars, restore, now, edits, faults, archive, horizon>>

SweepDone(p) ==
    /\ Phase(p, "delete")
    /\ pass[p].left = {}
    /\ pass' = [pass EXCEPT ![p].phase = "patch"]
    /\ UNCHANGED <<storeVars, refs, restore, now, edits, faults, archive, horizon>>

(* Listing the Clusters or the snapshots fails, no Cluster archives here   *)
(* any more, or a Delete fails: logged, and the status is patched.         *)
SweepStops(p) ==
    /\ Phase(p, "list") \/ (Phase(p, "delete") /\ pass[p].left # {})
    /\ faults < MaxFaults
    /\ faults' = faults + 1
    /\ pass' = [pass EXCEPT ![p].phase = "patch", ![p].left = {}]
    /\ UNCHANGED <<storeVars, refs, restore, now, edits, archive, horizon>>

PatchStatus(p) ==
    /\ Phase(p, "patch")
    /\ status' = IF EqualStatus(pass[p].original, Verdict(p)) THEN status
                 ELSE MergePatch(status, pass[p].original, Verdict(p))
    /\ EndPass(p)
    /\ UNCHANGED <<window, usable, seen, refs, restore, now, edits, faults, archive, horizon>>

(* The patch is refused, or the pod dies.                                  *)
PassAborts(p) ==
    /\ pass[p] # None
    /\ faults < MaxFaults
    /\ faults' = faults + 1
    /\ EndPass(p)
    /\ UNCHANGED <<storeVars, refs, restore, now, edits, archive, horizon>>

-----------------------------------------------------------------------------

PassStep(p) ==
    \/ CheckFails(p) \/ CheckPasses(p) \/ ListSnapshots(p)
    \/ DeleteOldest(p) \/ SweepDone(p) \/ PatchStatus(p)

Environment ==
    \/ \E w \in Windows : EditRetention(w)
    \/ ToggleUsable
    \/ \E lag \in 0 .. Delay, gen \in Gens, hash \in Hashes : Capture(lag, gen, hash)
    \/ Tick

Restore ==
    \/ \E moment \in 0 .. now : \E ref \in refs : RestoreList(moment, ref)
    \/ RestoreRead

Next ==
    \/ \E p \in Replicas :
          ReconcileBegin(p) \/ PassStep(p) \/ SweepStops(p) \/ PassAborts(p) \/ Observe(p)
    \/ Environment
    \/ Restore

Spec == Init /\ [][Next]_vars

(* A pass always ends with a requeue, so a new one begins; requests are    *)
(* answered and watches deliver.                                           *)
Fairness ==
    \A p \in Replicas : /\ WF_vars(ReconcileBegin(p))
                        /\ WF_vars(PassStep(p))
                        /\ WF_vars(Observe(p))

FairSpec == Spec /\ Fairness

-----------------------------------------------------------------------------
(* Properties.                                                             *)

Passes == [phase : {"check", "list", "delete", "patch"}, original : Statuses,
           verdict : Statuses, asked : Windows, cutoff : Nat, left : SUBSET Refs]

TypeOK ==
    /\ window \in Windows /\ usable \in BOOLEAN /\ status \in Statuses
    /\ seen \in [Replicas -> [window : Windows, status : Statuses]]
    /\ pass \in [Replicas -> Passes \union {None}]
    /\ refs \in SUBSET Refs /\ archive \in SUBSET Refs
    /\ restore \in [moment : Nat, listed : Nat, chosen : Refs] \union {None}
    /\ now \in Nat /\ edits \in Nat /\ faults \in Nat /\ horizon \in Nat

H == INSTANCE ConfigHistory WITH written <- archive, kept <- refs, promise <- horizon

(* Sweeps of many replicas with stale listings and late captures amount to *)
(* the abstract history: every deletion forgets the oldest snapshot, and   *)
(* one that a kept snapshot supersedes at every moment still promised.     *)
HistoryImplemented == H!Spec

Moments == 0 .. MaxTime

(* The retention guarantee: a target that no window in force has left      *)
(* behind resolves to what it would have resolved to had nothing ever been *)
(* deleted.                                                                *)
WindowResolves ==
    \A moment \in Moments : moment >= horizon =>
        \A ref \in archive : Selects(archive, moment, ref) => Selects(refs, moment, ref)

(* Older targets resolve correctly or not at all: deleting oldest first,   *)
(* an interrupted sweep leaves no hole that would resolve a target to a    *)
(* configuration that was already superseded then.                         *)
NeverMisresolves ==
    \A moment \in Moments : \A ref \in refs :
        Selects(refs, moment, ref) => Selects(archive, moment, ref)

(* A sweep never takes a snapshot from under a restore that has chosen it, *)
(* unless the target left the window while the restore ran.                *)
RestoreReadable ==
    restore # None /\ restore.moment >= horizon => restore.chosen \in refs

(* Once edits and faults stop, the status describes the store for good.    *)
StatusConverges ==
    <>[](status = IF usable THEN [ready |-> "True", window |-> window] ELSE NotReady)

(* Once edits and faults stop, the anchor is for good all that is left of  *)
(* the history before the window.                                          *)
PruneConverges ==
    <>[](usable /\ window # Forever => Cardinality(BeforeCutoff(refs, Cutoff(window))) <= 1)
=============================================================================
