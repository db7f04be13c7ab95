----------------------------- MODULE AlertStore -----------------------------
(***************************************************************************)
(* The controller's alert store.  Every operation is one BoltDB            *)
(* transaction, and transactions are serialised; only the purge takes two. *)
(*                                                                         *)
(* Alerts are numbered by their timestamps, so the larger is the newer.    *)
(* An identifier is random and given once, so that an alert is saved once. *)
(***************************************************************************)
EXTENDS Integers, Sequences, FiniteSets

CONSTANT
    MaxAlerts           \* bound: how many alerts there are

Alerts == 1..MaxAlerts

ASSUME MaxAlertsNat == MaxAlerts \in Nat

VARIABLES
    posted,             \* the alerts that agents have posted
    stored,             \* the keys of the bucket
    acked               \* those whose record says that they are acknowledged

storeVars == <<posted, stored, acked>>

StoreTypeOK ==
    /\ posted \subseteq Alerts
    /\ stored \subseteq posted
    /\ acked \subseteq stored

StoreInit ==
    /\ posted = {} /\ stored = {} /\ acked = {}

(* A transaction can fail; the caller logs the error and goes on. *)
SaveAlert(a) ==
    /\ a \notin posted
    /\ posted' = posted \cup {a}
    /\ stored' \in {stored, stored \cup {a}}
    /\ UNCHANGED acked

(* Mutant of AcknowledgeAlert: puts the record without a look whether it is there. *)
AcknowledgeAnyway(a) ==
    /\ a \in posted
    /\ stored' = stored \cup {a}
    /\ acked' = acked \cup {a}
    /\ UNCHANGED posted

(* What is not there is an error, and changes nothing. *)
AcknowledgeAlert(a) ==
    /\ a \in stored
    /\ acked' = acked \cup {a}
    /\ UNCHANGED <<posted, stored>>

DeleteAlert(a) ==
    /\ a \in stored
    /\ stored' = stored \ {a}
    /\ acked' = acked \ {a}
    /\ UNCHANGED posted

(* PurgeOlderThan, when the alerts up to the last are older than 30 days. *)
(* It collects their keys in one transaction and deletes them in another;  *)
(* what is deleted in between is gone either way, so that the second makes *)
(* the difference, and the first only the number that is returned.         *)
PurgeOlderThan(last) ==
    /\ stored' = stored \ 1..last
    /\ acked' = acked \ 1..last
    /\ UNCHANGED posted

(* The page ListAlerts gives: of the newest first, what comes after offset.  *)
(* A limit that is not in 1..500 becomes 50, a negative offset 0.             *)
ListAlerts(limit, offset) ==
    LET size == IF limit \in 1..500 THEN limit ELSE 50
        skip == IF offset < 0 THEN 0 ELSE offset
        newer(a) == Cardinality({b \in stored : b > a})
    IN {a \in stored : newer(a) \in skip..(skip + size - 1)}
=============================================================================
