------------------------------ MODULE S3Backend ------------------------------
(***************************************************************************)
(* The history in a bucket, request by request (internal/store/s3.go under *)
(* snapshots.go, retention.go and select.go).                              *)
(*                                                                         *)
(* Capture, StoreController and Admission take a Put and a List for one    *)
(* step.  Here a Put finds no bucket, creates it and tries again, while    *)
(* barman or another pod may create it first; and a List is a sequence of  *)
(* pages, while captures append and sweeps delete between two of them.     *)
(*                                                                         *)
(* One Cluster is captured, each time a second or more after the last, so  *)
(* the number of a snapshot serves as its timestamp.                       *)
(***************************************************************************)
EXTENDS SnapshotHistory, FiniteSetsExt, Integers

CONSTANTS
    Sweepers,       \* passes of the ConfigStore controller
    Readers,        \* restores that select by time
    PageSize,       \* keys in a page
    MayCreate,      \* is s3:CreateBucket granted?
    None            \* no Put, no listing, no result

CONSTANTS
    MaxSnapshots,   \* bound on the captures
    MaxEdits,       \* bound on creations and removals of the bucket by others
    MaxFaults       \* bound on requests that fail

ASSUME BackendAssumption ==
    /\ Sweepers \cap Readers = {}
    /\ PageSize \in Nat \ {0}
    /\ MayCreate \in BOOLEAN
    /\ MaxSnapshots \in Nat /\ MaxEdits \in Nat /\ MaxFaults \in Nat

VARIABLES
    bucket,         \* does it exist?
    refs,           \* keys in it
    archive,        \* every key ever written
    put,            \* the Put in progress
    scan,           \* listings and what follows from them, by caller
    result,         \* what each reader has read
    horizon,        \* the latest cutoff of a sweep
    edits, faults,
    removals,       \* removals of the bucket so far
    errors          \* Puts that returned an error

vars == <<bucket, refs, archive, put, scan, result, horizon, edits, faults, removals, errors>>

Callers == Sweepers \union Readers

Clock == Cardinality(archive)

Init ==
    /\ bucket \in BOOLEAN
    /\ refs = {} /\ archive = {}
    /\ put = None
    /\ scan = [c \in Callers |-> None]
    /\ result = [c \in Readers |-> None]
    /\ horizon = 0 /\ edits = 0 /\ faults = 0 /\ removals = 0 /\ errors = 0

-----------------------------------------------------------------------------
(* Others who use the bucket.                                              *)

CreatedByOther ==
    /\ ~bucket
    /\ edits < MaxEdits
    /\ edits' = edits + 1
    /\ bucket' = TRUE
    /\ UNCHANGED <<refs, archive, put, scan, result, horizon, faults, removals, errors>>

(* A bucket that holds objects cannot be removed.                          *)
RemoveBucket ==
    /\ bucket /\ refs = {}
    /\ edits < MaxEdits
    /\ edits' = edits + 1
    /\ bucket' = FALSE
    /\ removals' = removals + 1
    /\ UNCHANGED <<refs, archive, put, scan, result, horizon, faults, errors>>

-----------------------------------------------------------------------------
(* Put.                                                                    *)

PutBegin ==
    /\ put = None
    /\ Clock < MaxSnapshots
    /\ put' = [phase |-> "put", ref |-> [at |-> Clock + 1, gen |-> 1, hash |-> 1]]
    /\ UNCHANGED <<bucket, refs, archive, scan, result, horizon, edits, faults, removals, errors>>

Land ==
    /\ refs' = refs \union {put.ref}
    /\ archive' = archive \union {put.ref}
    /\ put' = None
    /\ UNCHANGED errors

PutError ==
    /\ put' = None
    /\ errors' = errors + 1
    /\ UNCHANGED <<refs, archive>>

PutObject ==
    /\ put # None /\ put.phase = "put"
    /\ IF bucket THEN Land
       ELSE put' = [put EXCEPT !.phase = "create"] /\ UNCHANGED <<refs, archive, errors>>
    /\ UNCHANGED <<bucket, scan, result, horizon, edits, faults, removals>>

(* Mutant: a bucket that somebody else has created meanwhile is an error.  *)
CreateBucketOrFail ==
    /\ put # None /\ put.phase = "create"
    /\ IF ~bucket /\ MayCreate
       THEN /\ bucket' = TRUE
            /\ put' = [put EXCEPT !.phase = "retry"]
            /\ UNCHANGED <<refs, archive, errors>>
       ELSE PutError /\ UNCHANGED bucket
    /\ UNCHANGED <<scan, result, horizon, edits, faults, removals>>

(* createBucket: one that exists by now will do, unless the service denies *)
(* the request before it looks.                                            *)
CreateBucket ==
    /\ put # None /\ put.phase = "create"
    /\ \E denied \in {FALSE, ~MayCreate} :
          IF ~denied /\ (bucket \/ MayCreate)
          THEN /\ bucket' = TRUE
               /\ put' = [put EXCEPT !.phase = "retry"]
               /\ UNCHANGED <<refs, archive, errors>>
          ELSE PutError /\ UNCHANGED bucket
    /\ UNCHANGED <<scan, result, horizon, edits, faults, removals>>

(* The second attempt is the last.                                         *)
PutAgain ==
    /\ put # None /\ put.phase = "retry"
    /\ IF bucket THEN Land ELSE PutError
    /\ UNCHANGED <<bucket, scan, result, horizon, edits, faults, removals>>

(* A request fails; it may have had its effect all the same.               *)
PutFails(landed) ==
    /\ put # None
    /\ faults < MaxFaults
    /\ faults' = faults + 1
    /\ errors' = errors + 1
    /\ LET stored == IF landed /\ bucket /\ put.phase # "create" THEN {put.ref} ELSE {}
       IN  refs' = refs \union stored /\ archive' = archive \union stored
    /\ bucket' = (bucket \/ (landed /\ put.phase = "create" /\ MayCreate))
    /\ put' = None
    /\ UNCHANGED <<scan, result, horizon, edits, removals>>

-----------------------------------------------------------------------------
(* List, and what the callers do with the keys.                            *)

Phase(c, phase) == scan[c] # None /\ scan[c].phase = phase

(* Mutant: what is to be found is earlier than the moment.                 *)
BeginEarlier(c, moment) ==
    /\ scan[c] = None
    /\ scan' = [scan EXCEPT ![c] =
                   [phase |-> "page", moment |-> moment - 1, cursor |-> 0,
                    found |-> {}, left |-> {}]]

Begin(c, moment) ==
    /\ scan[c] = None
    /\ scan' = [scan EXCEPT ![c] =
                   [phase |-> "page", moment |-> moment, cursor |-> 0,
                    found |-> {}, left |-> {}]]

(* A sweep, with its cutoff.                                               *)
SweepBegin(c, cutoff) ==
    /\ Begin(c, cutoff)
    /\ horizon' = Max({horizon, cutoff})
    /\ UNCHANGED <<bucket, refs, archive, put, result, edits, faults, removals, errors>>

(* A restore, with the moment it wants.                                    *)
RestoreBegin(c, moment) ==
    /\ Begin(c, moment)
    /\ result' = [result EXCEPT ![c] = None]
    /\ UNCHANGED <<bucket, refs, archive, put, horizon, edits, faults, removals, errors>>

Unlisted(c) == {ref \in refs : ref.at > scan[c].cursor}

(* The next page: the first PageSize keys after the last one listed.       *)
Page(c) ==
    {ref \in Unlisted(c) :
        Cardinality({other \in Unlisted(c) : KeyLess(other, ref)}) < PageSize}

(* What follows from a complete listing: a sweep plans, a restore chooses. *)
Listed(c, found) ==
    LET wanted == AtOrBefore(found, scan[c].moment)
    IN  IF c \in Sweepers
        THEN [scan[c] EXCEPT !.phase = "delete", !.found = {},
                             !.left = PlanRetention(found, scan[c].moment)]
        ELSE IF wanted = {} THEN None
        ELSE [scan[c] EXCEPT !.phase = "read", !.found = {}, !.left = {Newest(wanted)}]

(* Mutant: what one request answers is taken for the whole listing.        *)
FirstPage(c) ==
    /\ Phase(c, "page")
    /\ scan' = [scan EXCEPT ![c] = IF ~bucket THEN None ELSE Listed(c, Page(c))]
    /\ UNCHANGED <<bucket, refs, archive, put, result, horizon, edits, faults, removals, errors>>

(* The paginator goes on while a page says there is more.                  *)
NextPage(c) ==
    /\ Phase(c, "page")
    /\ LET page == Page(c)
           found == scan[c].found \union page
       IN  scan' = [scan EXCEPT ![c] =
               IF ~bucket THEN None
               ELSE IF page = Unlisted(c) THEN Listed(c, found)
               ELSE [scan[c] EXCEPT !.cursor = Newest(page).at, !.found = found]]
    /\ UNCHANGED <<bucket, refs, archive, put, result, horizon, edits, faults, removals, errors>>

(* Mutant: superseded snapshots are deleted in no particular order.        *)
DeleteAny(c) ==
    /\ c \in Sweepers /\ Phase(c, "delete")
    /\ \E ref \in scan[c].left :
          /\ refs' = refs \ {ref}
          /\ scan' = [scan EXCEPT ![c].left = @ \ {ref}]
    /\ UNCHANGED <<bucket, archive, put, result, horizon, edits, faults, removals, errors>>

(* Delete: a key that is gone, or its bucket, is no error.                 *)
Delete(c) ==
    /\ c \in Sweepers /\ Phase(c, "delete")
    /\ \E ref \in scan[c].left :
          /\ \A other \in scan[c].left : ~KeyLess(other, ref)
          /\ refs' = refs \ {ref}
          /\ scan' = [scan EXCEPT ![c].left = @ \ {ref}]
    /\ UNCHANGED <<bucket, archive, put, result, horizon, edits, faults, removals, errors>>

SweepEnds(c) ==
    /\ c \in Sweepers /\ Phase(c, "delete")
    /\ scan[c].left = {}
    /\ scan' = [scan EXCEPT ![c] = None]
    /\ UNCHANGED <<bucket, refs, archive, put, result, horizon, edits, faults, removals, errors>>

(* Get: the chosen key, or an error when a sweep was faster.               *)
Get(c) ==
    /\ c \in Readers /\ Phase(c, "read")
    /\ \E ref \in scan[c].left :
          result' = IF ref \in refs
                    THEN [result EXCEPT ![c] = [moment |-> scan[c].moment, ref |-> ref]]
                    ELSE result
    /\ scan' = [scan EXCEPT ![c] = None]
    /\ UNCHANGED <<bucket, refs, archive, put, horizon, edits, faults, removals, errors>>

(* A request of a sweep or a restore fails, and it gives up.               *)
ScanFails(c) ==
    /\ scan[c] # None
    /\ faults < MaxFaults
    /\ faults' = faults + 1
    /\ scan' = [scan EXCEPT ![c] = None]
    /\ UNCHANGED <<bucket, refs, archive, put, result, horizon, edits, removals, errors>>

-----------------------------------------------------------------------------

Puts ==
    \/ PutBegin \/ PutObject \/ CreateBucket \/ PutAgain
    \/ \E landed \in BOOLEAN : PutFails(landed)

Scans ==
    \/ \E c \in Sweepers : \/ \E cutoff \in 0 .. Clock : SweepBegin(c, cutoff)
                           \/ Delete(c) \/ SweepEnds(c)
    \/ \E c \in Readers : \/ \E moment \in 0 .. Clock : RestoreBegin(c, moment)
                          \/ Get(c)
    \/ \E c \in Callers : NextPage(c) \/ ScanFails(c)

Next == CreatedByOther \/ RemoveBucket \/ Puts \/ Scans

Spec == Init /\ [][Next]_vars

-----------------------------------------------------------------------------
(* Properties.                                                             *)

Scanning == [phase : {"page", "delete", "read"}, moment : Nat, cursor : Nat,
             found : SUBSET Refs, left : SUBSET Refs]

TypeOK ==
    /\ bucket \in BOOLEAN
    /\ refs \in SUBSET Refs /\ archive \in SUBSET Refs
    /\ put \in [phase : {"put", "create", "retry"}, ref : Refs] \union {None}
    /\ scan \in [Callers -> Scanning \union {None}]
    /\ result \in [Readers -> [moment : Nat, ref : Refs] \union {None}]
    /\ horizon \in Nat /\ edits \in Nat /\ faults \in Nat
    /\ removals \in Nat /\ errors \in Nat

H == INSTANCE ConfigHistory WITH written <- archive, kept <- refs, promise <- horizon

(* Sweeps that plan from listings put together page by page, while others  *)
(* sweep and captures land, still forget only what is superseded, oldest   *)
(* first.                                                                  *)
HistoryImplemented == H!Spec

(* A listing may have a hole, when a sweep deletes between two pages, and  *)
(* the choice made from it may be wrong; but then its read fails, because  *)
(* sweeps delete the oldest first.  What is read is right.                 *)
ReadSound ==
    \A c \in Readers :
        result[c] # None => Selects(archive, result[c].moment, result[c].ref)

(* Where the bucket may be created, a Put returns an error only if one of  *)
(* its requests failed or the bucket was removed under it: pods that find  *)
(* it missing at the same time do not fail each other.                     *)
PutReliable == MayCreate => errors <= faults + removals
=============================================================================
