---------------------------- MODULE DeliveryLedger ----------------------------
(***************************************************************************)
(* What the delivery of one briefing promises, whoever delivers it: a       *)
(* version of the briefing goes out only after somebody approved it, the    *)
(* channel never takes a message back, and the ledger of delivery rows      *)
(* never claims more attempts than messages that went out whole.            *)
(***************************************************************************)
EXTENDS Naturals, FiniteSets

CONSTANTS
    Senders,   \* the runs that may send the briefing
    Contents   \* the messages that can be rendered: <<approved build, items>>

VARIABLES
    approved,   \* builds of the briefing that were approved at some time
    delivered,  \* <<sender, content>> of every message that went out whole
    attempts    \* for each content, the attempt number of its delivery row

LInit ==
    /\ approved = {}
    /\ delivered = {}
    /\ attempts = [c \in Contents |-> 0]

Approve(b) ==
    /\ approved' = approved \cup {b}
    /\ UNCHANGED <<delivered, attempts>>

Deliver(s, c) ==
    /\ c[1] \in approved
    /\ delivered' = delivered \cup {<<s, c>>}
    /\ UNCHANGED <<approved, attempts>>

\* Nothing is recorded that was not delivered before, and no row goes away.
Record(c, n) ==
    /\ n \in 1..Cardinality({s \in Senders : <<s, c>> \in delivered})
    /\ attempts' = [attempts EXCEPT ![c] = n]
    /\ UNCHANGED <<approved, delivered>>

LNext ==
    \/ \E c \in Contents : Approve(c[1])
    \/ \E s \in Senders, c \in Contents : Deliver(s, c)
    \/ \E c \in Contents, n \in 1..Cardinality(Senders) : Record(c, n)

LedgerSpec == LInit /\ [][LNext]_<<approved, delivered, attempts>>
===============================================================================
