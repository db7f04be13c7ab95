----------------------------- MODULE AlertList ------------------------------
(***************************************************************************)
(* The list of alerts on a dashboard's page: what the reducer of AppStore  *)
(* does to state.alerts, one operator per case.  Identifiers are numbers,   *)
(* and the larger is the newer.                                            *)
(***************************************************************************)
EXTENDS Integers, Sequences, FiniteSets

CONSTANT
    MaxShown            \* CONFIG.MAX_ALERTS

ASSUME MaxShownPos == MaxShown \in Nat \ {0}

VARIABLES
    alerts,             \* state.alerts: the identifiers, first on the page first
    acks,               \* those of them that are shown as acknowledged
    excused             \* history: what the user, a load or MaxShown took off the page

listVars == <<alerts, acks, excused>>

InSeq(s) == {s[i] : i \in DOMAIN s}
Shown == InSeq(alerts)

(* The sequence of S with the newest first, as ListAlerts sorts it. *)
NewestFirst(S) ==
    {s \in [1..Cardinality(S) -> S] :
        /\ \A i, j \in DOMAIN s : i < j => s[i] > s[j]
        /\ InSeq(s) = S}

Cut(s) == SubSeq(s, 1, IF Len(s) < MaxShown THEN Len(s) ELSE MaxShown)

(* s without a, which is in it at most once. *)
Without(s, a) ==
    IF a \in InSeq(s)
    THEN LET i == CHOOSE i \in DOMAIN s : s[i] = a
         IN SubSeq(s, 1, i - 1) \o SubSeq(s, i + 1, Len(s))
    ELSE s

ListTypeOK(Ids) ==
    /\ alerts \in Seq(Ids)
    /\ acks \subseteq Shown
    /\ excused \subseteq Ids

ListInit == alerts = <<>> /\ acks = {} /\ excused = {}

(* The list of another page. *)
ListReset == alerts' = <<>> /\ acks' = {} /\ excused' = {}

(* New alerts at the head of the list; what MaxShown cuts off is excused. *)
Prepend(new, ackedOnes) ==
    LET list == Cut(new \o alerts) IN
    /\ alerts' = list
    /\ acks' = (acks \cup ackedOnes) \cap InSeq(list)
    /\ excused' = (IF Len(list) = MaxShown
                   THEN excused \cup Shown \cup InSeq(new)
                   ELSE excused) \ InSeq(list)

(* Mutant of WSInit: the list takes the place of what is shown. *)
WSInitReplaces(S, ackedOnes) ==
    \E new \in NewestFirst(S) :
        /\ alerts' = Cut(new)
        /\ acks' = ackedOnes \cap InSeq(Cut(new))
        /\ excused' = excused \ S

(* WS_INIT: what is not shown yet comes first, in the order it was sent. *)
WSInit(S, ackedOnes) ==
    LET fresh == S \ Shown IN
    IF fresh = {}
    THEN UNCHANGED listVars
    ELSE \E new \in NewestFirst(fresh) : Prepend(new, ackedOnes \cap fresh)

(* Mutant of NewAlert: no look at what is shown. *)
NewAlertAnyway(a) == Prepend(<<a>>, {})

(* NEW_ALERT: an alert comes as it was posted, not acknowledged. *)
NewAlert(a) ==
    IF a \in Shown THEN UNCHANGED listVars ELSE Prepend(<<a>>, {})

(* INIT_DATA replaces the list, and does not cut it. *)
InitData(S, ackedOnes) ==
    /\ alerts' \in NewestFirst(S)
    /\ acks' = ackedOnes
    /\ excused' = (excused \cup Shown) \ S

(* ACK_ALERT *)
AckAlert(a) ==
    /\ acks' = acks \cup ({a} \cap Shown)
    /\ UNCHANGED <<alerts, excused>>

(* DELETE_ALERT *)
RemoveAlert(a) ==
    /\ alerts' = Without(alerts, a)
    /\ acks' = acks \ {a}
    /\ excused' = excused \cup {a}

(* CLEAR_ALERTS *)
ClearList ==
    /\ alerts' = <<>>
    /\ acks' = {}
    /\ excused' = excused \cup Shown
=============================================================================
