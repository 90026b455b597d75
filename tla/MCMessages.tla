----------------------------- MODULE MCMessages -----------------------------
(* Messages on small instances for TLC.                                     *)
EXTENDS Messages

Deployed(c, t, doc) == [dryRun |-> FALSE, credentials |-> c, templates |-> t,
                    documentTemplate |-> doc, sqs |-> TRUE, webhookSecret |-> TRUE]

(* Production with everything, with SMS only and a half-configured WhatsApp *)
(* number, and a developer's machine.                                       *)
MCEnvs == {Deployed({"whatsapp"}, {"order_received"}, TRUE),
           Deployed({"whatsapp", "sms"}, {}, FALSE),
           [Deployed({}, Trigger, FALSE) EXCEPT !.dryRun = TRUE, !.sqs = FALSE],
           [Deployed({"sms"}, {}, FALSE) EXCEPT !.sqs = FALSE]}
=============================================================================
