------------------------------ MODULE MCPlatform -------------------------------
(***************************************************************************)
(* Five components that share no state the properties are about, checked  *)
(* in one run: in a behaviour one of them moves, and the others stay in    *)
(* their first state.                                                      *)
(***************************************************************************)
EXTENDS Tickets, Provisioning, Diagnostics, AuditLedger, TelegramSender

VARIABLE focus  \* the component that moves

platformVars == <<ticketsVars, provisioningVars, diagnosticsVars, ledgerVars, senderVars, focus>>

\* Tickets: two edits and the monitor, two runs that overlap, each also with a failure.
MCParties ==
    {{}, {"m1", "e1", "e2"}, {"t1", "m1", "m2", "e1"}, {"m1", "e1", "f1"}, {"m1", "m2", "f1"}}

\* Provisioning: p1 and p2 want the same subdomain; rivals, deletions and an outage.
MCSubdomainOf == [m \in Makers |-> IF m = "p3" THEN "garden" ELSE "house"]

MCGangs ==
    {{}, {"p1", "p2", "p3"}, {"p1", "p3", "u1"}, {"p1", "p3", "d1", "o1"}, {"p1", "d1", "u1"},
     {"p1", "d1", "d2", "o1"}, {"p2", "u1", "o1"}, {"p1", "p2", "o1"}}

\* Diagnostics: a sound home, and homes with one thing or two amiss.
Sound ==
    [install |-> "connected", online |-> TRUE, server |-> "online", ha |-> TRUE, active |-> TRUE,
     linked |-> TRUE, public |-> "reachable", load |-> 10, access |-> "closed",
     templates |-> TRUE]

Away(i, s) ==
    [Sound EXCEPT !.install = i, !.online = FALSE, !.server = s, !.ha = FALSE,
                  !.public = IF s = "none" THEN "unknown" ELSE "unreachable",
                  !.templates = (i = "connected")]

MCHomes ==
    {[Sound EXCEPT !.ha = h, !.load = l, !.templates = t] :
         h \in BOOLEAN, l \in {10, 80, 95}, t \in BOOLEAN}
      \cup {[Sound EXCEPT !.active = FALSE, !.ha = FALSE], [Sound EXCEPT !.linked = FALSE],
            [Sound EXCEPT !.public = "unreachable"], [Sound EXCEPT !.server = "none"]}
      \cup {Away(i, s) : i \in Installs, s \in {"none", "unknown", "offline"}}
      \cup {Away("connected", "recent"), [Away("expired", "offline") EXCEPT !.active = FALSE],
            [Away("pending", "offline") EXCEPT !.linked = FALSE]}
      \cup {[Sound EXCEPT !.server = s, !.ha = h] : s \in {"unknown", "recent", "offline"}, h \in BOOLEAN}
      \cup {[Sound EXCEPT !.access = x, !.templates = t] :
                x \in {"open", "expiring", "inconsistent"}, t \in BOOLEAN}
      \cup {Away("connected", "online"), [Away("connected", "offline") EXCEPT !.access = "expiring"]}

Init ==
    /\ focus \in {"tickets", "provisioning", "diagnostics", "ledger", "sender"}
    /\ TicketsInit /\ (focus = "tickets" <=> party # {})
    /\ ProvisioningInit /\ (focus = "provisioning" <=> gang # {})
    /\ DiagnosticsInit /\ (focus # "diagnostics" => home = Sound)
    /\ LedgerInit
    /\ SenderInit

Next ==
    \/ /\ focus = "tickets"
       /\ TicketsNext
       /\ UNCHANGED <<provisioningVars, diagnosticsVars, ledgerVars, senderVars, focus>>
    \/ /\ focus = "provisioning"
       /\ ProvisioningNext
       /\ UNCHANGED <<ticketsVars, diagnosticsVars, ledgerVars, senderVars, focus>>
    \/ /\ focus = "diagnostics"
       /\ DiagnosticsNext
       /\ UNCHANGED <<ticketsVars, provisioningVars, ledgerVars, senderVars, focus>>
    \/ /\ focus = "ledger"
       /\ LedgerNext
       /\ UNCHANGED <<ticketsVars, provisioningVars, diagnosticsVars, senderVars, focus>>
    \/ /\ focus = "sender"
       /\ SenderNext
       /\ UNCHANGED <<ticketsVars, provisioningVars, diagnosticsVars, ledgerVars, focus>>

Spec == Init /\ [][Next]_platformVars /\ MonitorFairness

\* The type invariants of the five components.
TypesOK ==
    TicketsTypeOK /\ ProvisioningTypeOK /\ DiagnosticsTypeOK /\ LedgerTypeOK /\ SenderTypeOK
=============================================================================
