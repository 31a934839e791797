-------------------------- MODULE PolicyController --------------------------
(***************************************************************************)
(* The RestorePolicy controller                                            *)
(* (internal/controller/restorepolicy_controller.go).                      *)
(*                                                                         *)
(* Every plugin pod checks the rules of a policy and patches the verdict   *)
(* into its status.  Nothing makes a pass happen but the events its watch  *)
(* lets through: the policy appears, or its generation changes.  So the    *)
(* model keeps every version of the policy: a watch delivers them one by   *)
(* one or, after a break, lists what is there by then, and a pass works    *)
(* from the version its informer has reached.                              *)
(***************************************************************************)
EXTENDS Naturals, SequencesExt

CONSTANTS
    Replicas,       \* plugin pods
    Rules,          \* skips and transforms a policy may have
    Invalid,        \* those CompileRules rejects
    None            \* no policy, no verdict yet, no pass

CONSTANTS
    MaxEdits,       \* bound on the edits
    MaxFaults,      \* bound on failed patches and restarts
    AllowLapse      \* may a policy be deleted and created anew during a
                    \* break of a watch?

ASSUME PolicyAssumption ==
    /\ Replicas # {}
    /\ Invalid \subseteq Rules
    /\ None \notin Rules
    /\ None \notin [verdict : Rules \union {"Usable"}, version : Nat]
    /\ MaxEdits \in Nat /\ MaxFaults \in Nat
    /\ AllowLapse \in BOOLEAN

VARIABLES
    versions,       \* the policy, every version in order
    seen,           \* how far each replica's watch has come; 0 before its list
    queue,          \* replicas with the policy in their work queue
    pass,           \* the verdict each replica is about to patch, and the
                    \* version it is about
    overtaken,      \* did the last patch carry the verdict on other rules?
    edits, faults

vars == <<versions, seen, queue, pass, overtaken, edits, faults>>

-----------------------------------------------------------------------------

(* The Ready condition: true, or false with the error as its message.      *)
Usable == "Usable"

(* Mutant: rules without an error are reported like the others.            *)
Reported(rules) == rules

Verdict(rules) == IF rules \in Invalid THEN rules ELSE Usable

Policy(gen, rules, ready) == [gen |-> gen, rules |-> rules, ready |-> ready]

Current == Last(versions)

(* Nobody has anything left to do.                                         *)
Quiet ==
    /\ queue = {}
    /\ \A p \in Replicas : seen[p] = Len(versions) /\ pass[p] = None

Init ==
    /\ versions \in {<<Policy(1, r, None)>> : r \in Rules}
    /\ seen = [p \in Replicas |-> 0]
    /\ queue = {}
    /\ pass = [p \in Replicas |-> None]
    /\ overtaken = FALSE
    /\ edits = 0 /\ faults = 0

-----------------------------------------------------------------------------
(* Users.                                                                  *)

Edit(version) ==
    /\ edits < MaxEdits
    /\ edits' = edits + 1
    /\ versions' = Append(versions, version)
    /\ UNCHANGED <<seen, queue, pass, overtaken, faults>>

EditRules(rules) ==
    /\ Current # None /\ rules # Current.rules
    /\ Edit([Current EXCEPT !.gen = @ + 1, !.rules = rules])

DeletePolicy == Current # None /\ Edit(None)

(* A policy created anew starts at generation 1.                           *)
CreatePolicy(rules) ==
    /\ Current = None
    /\ Edit(Policy(1, rules, None))

-----------------------------------------------------------------------------
(* Watches.                                                                *)

(* Mutant: updates are filtered out altogether.                            *)
CreatedOrDeleted(old, new) == old = None \/ new = None

(* GenerationChangedPredicate: only updates are filtered.                  *)
PassesPredicate(old, new) == old = None \/ new = None \/ old.gen # new.gen

(* The list a watch begins with reports what is there as created.          *)
ListPolicies(p) ==
    /\ seen[p] = 0
    /\ seen' = [seen EXCEPT ![p] = Len(versions)]
    /\ queue' = IF Current = None THEN queue ELSE queue \union {p}
    /\ UNCHANGED <<versions, pass, overtaken, edits, faults>>

WatchPolicy(p) ==
    /\ 0 < seen[p] /\ seen[p] < Len(versions)
    /\ seen' = [seen EXCEPT ![p] = @ + 1]
    /\ queue' = IF PassesPredicate(versions[seen[p]], versions[seen[p] + 1])
                THEN queue \union {p} ELSE queue
    /\ UNCHANGED <<versions, pass, overtaken, edits, faults>>

(* Deleted and created anew since the watch has last delivered.            *)
Lapsed(p) ==
    /\ versions[seen[p]] # None /\ Current # None
    /\ \E i \in seen[p] .. Len(versions) : versions[i] = None

(* A watch that has broken off lists again.  Its cache is still there, and *)
(* the informer reports what differs from it: an object by the same name   *)
(* as an update of the one it had, be it another or not.                   *)
Relist(p) ==
    /\ 0 < seen[p] /\ seen[p] < Len(versions)
    /\ AllowLapse \/ ~Lapsed(p)
    /\ seen' = [seen EXCEPT ![p] = Len(versions)]
    /\ queue' = IF PassesPredicate(versions[seen[p]], Current)
                THEN queue \union {p} ELSE queue
    /\ UNCHANGED <<versions, pass, overtaken, edits, faults>>

-----------------------------------------------------------------------------
(* Reconcile.                                                              *)

(* Up to the patch.  A policy that is gone, or whose cached status has the *)
(* verdict already, needs none.                                            *)
Reconcile(p) ==
    /\ p \in queue /\ pass[p] = None
    /\ queue' = queue \ {p}
    /\ LET policy == versions[seen[p]]
       IN  pass' = IF policy = None \/ policy.ready = Verdict(policy.rules) THEN pass
                   ELSE [pass EXCEPT ![p] = [verdict |-> Verdict(policy.rules),
                                             version |-> seen[p]]]
    /\ UNCHANGED <<versions, seen, overtaken, edits, faults>>

(* The merge patch replaces the conditions of whatever bears the name now; *)
(* one that changes nothing makes no version.                              *)
Patched(verdict) ==
    IF Current.ready = verdict THEN versions
    ELSE Append(versions, [Current EXCEPT !.ready = verdict])

(* Has the policy the rules the pass has checked, and had it them all the  *)
(* time?                                                                   *)
Checked(patch) ==
    \A i \in patch.version .. Len(versions) :
        versions[i] # None /\ versions[i].rules = Current.rules

Land(patch) ==
    /\ versions' = Patched(patch.verdict)
    /\ overtaken' = IF Current.ready = patch.verdict THEN overtaken ELSE ~Checked(patch)

PatchStatus(p) ==
    /\ pass[p] # None
    /\ Current # None
    /\ Land(pass[p])
    /\ pass' = [pass EXCEPT ![p] = None]
    /\ UNCHANGED <<seen, queue, edits, faults>>

(* The error is returned, and the request goes back into the queue.        *)
PatchMissing(p) ==
    /\ pass[p] # None
    /\ Current = None
    /\ pass' = [pass EXCEPT ![p] = None]
    /\ queue' = queue \union {p}
    /\ UNCHANGED <<versions, seen, overtaken, edits, faults>>

(* Mutant: a patch that fails is logged, and the pass is over.             *)
PatchFailsForGood(p, landed) ==
    /\ pass[p] # None /\ Current # None
    /\ faults < MaxFaults
    /\ faults' = faults + 1
    /\ IF landed THEN Land(pass[p]) ELSE UNCHANGED <<versions, overtaken>>
    /\ pass' = [pass EXCEPT ![p] = None]
    /\ UNCHANGED <<seen, queue, edits>>

(* The patch fails, with or without effect.                                *)
PatchFails(p, landed) ==
    /\ pass[p] # None /\ Current # None
    /\ faults < MaxFaults
    /\ faults' = faults + 1
    /\ IF landed THEN Land(pass[p]) ELSE UNCHANGED <<versions, overtaken>>
    /\ pass' = [pass EXCEPT ![p] = None]
    /\ queue' = queue \union {p}
    /\ UNCHANGED <<seen, edits>>

(* A pod dies with its queue and its cache, and comes up again.            *)
Restart(p) ==
    /\ faults < MaxFaults
    /\ faults' = faults + 1
    /\ seen' = [seen EXCEPT ![p] = 0]
    /\ queue' = queue \ {p}
    /\ pass' = [pass EXCEPT ![p] = None]
    /\ UNCHANGED <<versions, overtaken, edits>>

-----------------------------------------------------------------------------

Users ==
    \/ \E rules \in Rules : EditRules(rules) \/ CreatePolicy(rules)
    \/ DeletePolicy

Step(p) ==
    \/ ListPolicies(p) \/ WatchPolicy(p) \/ Relist(p)
    \/ Reconcile(p) \/ PatchStatus(p) \/ PatchMissing(p)

Next ==
    \/ Users
    \/ \E p \in Replicas : \/ Step(p)
                           \/ \E landed \in BOOLEAN : PatchFails(p, landed)
                           \/ Restart(p)

Spec == Init /\ [][Next]_vars

(* Watches deliver, queues are served and requests are answered.           *)
Fairness ==
    \A p \in Replicas : /\ WF_vars(ListPolicies(p) \/ WatchPolicy(p) \/ Relist(p))
                        /\ WF_vars(Reconcile(p))
                        /\ WF_vars(PatchStatus(p) \/ PatchMissing(p))

FairSpec == Spec /\ Fairness

-----------------------------------------------------------------------------
(* Properties.                                                             *)

Verdicts == Invalid \union {Usable}

Versions == [gen : Nat, rules : Rules, ready : Verdicts \union {None}] \union {None}

TypeOK ==
    /\ versions \in Seq(Versions) /\ versions # <<>>
    /\ seen \in [Replicas -> 0 .. Len(versions)]
    /\ queue \subseteq Replicas
    /\ pass \in [Replicas -> [verdict : Verdicts, version : Nat \ {0}] \union {None}]
    /\ overtaken \in BOOLEAN
    /\ edits \in Nat /\ faults \in Nat

Right == Current # None => Current.ready = Verdict(Current.rules)

(* When nobody has anything left to do, the verdict is that of the rules,  *)
(* whatever was edited, deleted and recreated, patched twice or lost; only *)
(* a patch that landed after an edit of the rules it is about can leave a  *)
(* wrong one.                                                              *)
VerdictSettles == Quiet /\ ~overtaken => Right

(* Once edits and faults stop, every pass is over for good and, but for    *)
(* such a patch, the policy shows the verdict the webhook would come to.   *)
VerdictConverges == <>[](Quiet /\ (~overtaken => Right))
=============================================================================
