--------------------------- MODULE OneTimeTicket ---------------------------
(***************************************************************************)
(* What pairing promises about tickets: one holder at a time, used at most *)
(* once and by its holder, and closed for good once it is used, void, or   *)
(* lost by its holder.  PairingOffers and the offers of                    *)
(* DeviceAuthorization implement it.                                       *)
(***************************************************************************)
CONSTANTS Tickets, Holders, None

VARIABLE ticket  \* [state, by] of each ticket

Ticket(state, by) == [state |-> state, by |-> by]
Absent == Ticket("absent", None)
Ready == Ticket("ready", None)
Lost == Ticket("held", None)
Used == Ticket("used", None)
Void == Ticket("void", None)

TicketInit == ticket \in [Tickets -> {Absent, Ready}]

Issue(t) == ticket[t] = Absent /\ ticket'[t] = Ready
Hold(t) == ticket[t] = Ready /\ \E h \in Holders : ticket'[t] = Ticket("held", h)
\* The holder decides; Lost: it goes away without an answer.
Resolve(t) == ticket[t].by # None /\ ticket'[t] \in {Ready, Used, Lost}
Expire(t) == ticket[t] # Used /\ ticket'[t] = Void

\* Tickets are independent: a step may move several of them.
TicketNext ==
  /\ DOMAIN ticket' = Tickets
  /\ \A t \in Tickets :
       ticket'[t] = ticket[t] \/ Issue(t) \/ Hold(t) \/ Resolve(t) \/ Expire(t)

TicketSpec == TicketInit /\ [][TicketNext]_ticket
=============================================================================
