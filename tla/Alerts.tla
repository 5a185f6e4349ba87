------------------------------- MODULE Alerts -------------------------------
(***************************************************************************)
(* The alerts a node keeps (alert.cpp): ProcessAlert cancels and expires   *)
(* what is in mapAlerts, refuses what has been cancelled, and shows and    *)
(* relays the rest.  Signatures are valid here, the texts are left out,    *)
(* and the adjusted time may go back when peers report other times.  It    *)
(* is read anew for every comparison, so it may move during a call: each   *)
(* reading is of some time in a span around now.                           *)
(***************************************************************************)
EXTENDS Integers

CONSTANTS
    AlertSet,        \* every alert that may arrive
    Peers,           \* records of the nVersion and the strSubVer of each peer
    MaxInt,
    MyVersion, MySubVer,
    Drift,           \* how far the time moves during a call; a bound of the model
    MaxTime          \* a bound of the model

VARIABLES
    mapAlerts,
    setKnown,        \* of each peer
    shown,           \* what NotifyAlertChanged has told the interface of
    now,             \* GetAdjustedTime()
    lapsed           \* ghost: the alerts that expired, or came back into effect, during
                     \* a call of ProcessAlert that kept them

vars == <<mapAlerts, setKnown, shown, now, lapsed>>

Init ==
    /\ mapAlerts = {} /\ shown = {} /\ lapsed = {}
    /\ setKnown = [p \in Peers |-> {}]
    /\ now \in 0..MaxTime

IsInEffect(a) == now < a.nExpiration

\* The alerts that a is to cancel, if it is in effect.
Names(a, b) == b.nID <= a.nCancel \/ b.nID \in a.setCancel
Cancels(a, b) == IsInEffect(a) /\ Names(a, b)

\* AppliesToMe(), but for the time.
ConcernsMe(a) ==
    /\ a.nMinVer <= MyVersion /\ MyVersion <= a.nMaxVer
    /\ a.setSubVer = {} \/ MySubVer \in a.setSubVer

\* nID = max is reserved: it never expires, applies to all, and cancels all others.
WellFormed(a) ==
    a.nID = MaxInt =>
        /\ a.nExpiration = MaxInt /\ a.nCancel = MaxInt - 1
        /\ a.nMinVer = 0 /\ a.nMaxVer = MaxInt /\ a.setSubVer = {}

\* What IsInEffect() may say of an alert during a call.
Readings(a, span) == {t < a.nExpiration : t \in span}

\* Mutant of Stays: what has expired stays.
StaysExpired(a, b, span) == {~(cancels /\ Names(a, b)) : cancels \in Readings(a, span)}
\* May b stay while a is processed?  Not if a cancels it, nor if it has expired.
Stays(a, b, span) ==
    {stays \in BOOLEAN :
        \E cancels \in Readings(a, span), lasts \in Readings(b, span) :
            stays = (~(cancels /\ Names(a, b)) /\ lasts)}

\* Mutant of Refused: an alert that was cancelled comes back.
RefusedNever(a, kept, span) == {FALSE}
\* Is a itself cancelled by one that stays?
Refused(a, kept, span) ==
    {refused \in BOOLEAN :
        IF refused THEN \E b \in kept : Names(b, a) /\ TRUE \in Readings(b, span)
        ELSE \A b \in kept : Names(b, a) => FALSE \in Readings(b, span)}

\* Interface and map are changed together; only an alert that applies is told of.
Kept(a, kept, refused, tell) ==
    /\ mapAlerts' = kept \cup (IF refused THEN {} ELSE {a})
    /\ shown' = (shown \cap kept) \cup (IF refused \/ ~tell THEN {} ELSE {a})

ProcessAlert(a) ==
    /\ IsInEffect(a) /\ WellFormed(a)
    /\ \E first \in {t \in 0..now : now - t <= Drift},
          last \in {t \in now..MaxTime : t - now <= Drift}, kept \in SUBSET mapAlerts :
         LET span == first..last
         IN  /\ \A b \in mapAlerts : (b \in kept) \in Stays(a, b, span)
             /\ \E refused \in Refused(a, kept, span), tell \in Readings(a, span) :
                  Kept(a, kept, refused, tell /\ ConcernsMe(a))
             /\ lapsed' = mapAlerts' \cap
                    (lapsed \cup {b \in mapAlerts' : BOOLEAN \subseteq Readings(b, span)})
             /\ now' \in span
    /\ UNCHANGED setKnown

\* RelayTo: once the peer's version is known, and once only, even if the alert
\* turns out not to concern the peer.
RelayTo(a, p) ==
    /\ a \in mapAlerts /\ IsInEffect(a)
    /\ p.nVersion # 0 /\ a \notin setKnown[p]
    /\ setKnown' = [setKnown EXCEPT ![p] = @ \cup {a}]
    /\ UNCHANGED <<mapAlerts, shown, now, lapsed>>

Clock ==
    /\ now' \in {now - 1, now + 1} \cap 0..MaxTime
    /\ UNCHANGED <<mapAlerts, setKnown, shown, lapsed>>

Next ==
    \/ \E a \in AlertSet : ProcessAlert(a) \/ \E p \in Peers : RelayTo(a, p)
    \/ Clock

Spec == Init /\ [][Next]_vars

-----------------------------------------------------------------------------
(* Properties *)

\* ProcessAlert, "Cancel previous alerts" and "Check if this alert has been
\* cancelled": of two alerts that are kept neither cancels the other, in whatever
\* order they came and wherever the clock goes; but an alert that expired while a call
\* compared it may have been let past in one comparison and cancel again when the
\* adjusted time goes back.
NoneCancelled ==
    \A a, b \in mapAlerts : a # b /\ a \notin lapsed => ~Cancels(a, b)

\* The interface is told of every alert that goes away, and shows only alerts that
\* are kept.
ShownKept == shown \subseteq mapAlerts
=============================================================================
