---------------------------- MODULE MCFleetRuns ----------------------------
(* The seeded identities that templates and invoices use, with the tools     *)
(* their workflows call.  Only the solver is scoped for templates, so a      *)
(* template assigned to the extractor is a scope violation on the agent the  *)
(* invoices share.                                                           *)
EXTENDS FleetRuns

CONSTANTS solver, extractor, auditor, reconciler, dispute

MCScope ==
  { <<solver, "execute_template">>,
    <<extractor, "extract_invoice_multimodal">>,
    <<auditor, "validate_tax_compliance">>,
    <<reconciler, "create_reconciliation_draft">>,
    <<dispute, "draft_vendor_dispute_email">>,
    <<dispute, "send_external_email">> }

MCAgents == {pair[1] : pair \in MCScope}
MCTools == {pair[2] : pair \in MCScope}

Do(a, t) == [agent |-> a, tool |-> t]

MCTemplatePlans ==
  { <<Do(solver, "execute_template"), Do(solver, "execute_template")>>,
    <<Do(extractor, "execute_template")>> }

Audited == << Do(extractor, "extract_invoice_multimodal"),
              Do(auditor, "validate_tax_compliance") >>

MCInvoicePlans ==
  { Append(Audited, Do(reconciler, "create_reconciliation_draft")),
    Audited \o << Do(dispute, "draft_vendor_dispute_email"),
                  Do(dispute, "send_external_email") >> }
=============================================================================
